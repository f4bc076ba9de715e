------------------------- MODULE KokkosParserProofs -------------------------
(***************************************************************************)
(* Any number of parsers, with flags that read as anything until they are  *)
(* written, finalized soft or hard: who finalizes Kokkos owns it, or is    *)
(* misled in one of three ways; and a runtime never outlives its parser.   *)
(***************************************************************************)
EXTENDS KokkosParser, TLAPS

Flags == {"set", "clear", "unwritten"}

(* A parser whose flag is set owns the runtime, or has been robbed of it;  *)
(* the parser that owns the runtime is alive, and its flag is set.         *)
OwnerInv ==
  /\ _called_initialize \in [Parsers -> Flags]
  /\ g_is_initialized <=> owner # Unowned
  /\ \A p \in Parsers : _called_initialize[p] = "set" => owner = p \/ p \in robbed
  /\ owner \in Parsers => owner \in alive /\ _called_initialize[owner] = "set"

(* What OnlyOwnerFinalizes says of a step.                                 *)
ByOwner ==
  last'[1] = "finalized" /\ ~ Misled(last'[2]) => g_is_initialized /\ owner = last'[2]

LEMMA OwnerInit == Init => OwnerInv
BY NamesAssumption DEF Init, OwnerInv, Flags

(* The constructor, or initialize() called again: the flag before the call *)
(* is that of the object, or nobody's.                                     *)
LEMMA OwnerInitialize ==
  ASSUME OwnerInv, NEW p \in Parsers, NEW flag \in Flags, Initialize(p, flag),
         flag = _called_initialize[p] \/ (flag = "unwritten" /\ owner # p),
         p \in alive', alive \subseteq alive'
  PROVE  OwnerInv' /\ last'[1] = "other"
<1>1. CASE /\ ~ g_is_initialized /\ KokkosInitialize(p)
           /\ _called_initialize' = [_called_initialize EXCEPT ![p] = "set"]
  <2>1. p # Unowned /\ owner = Unowned
    BY <1>1, NamesAssumption DEF OwnerInv
  <2>2. \A q \in Parsers \ {p} : _called_initialize'[q] = "set" => q \in robbed'
    BY <1>1, <2>1, NamesAssumption DEF OwnerInv, KokkosInitialize
  <2>3. g_is_initialized' /\ owner' = p /\ last' = <<"other", p>>
    BY <1>1 DEF KokkosInitialize
  <2>4. _called_initialize' \in [Parsers -> Flags] /\ _called_initialize'[p] = "set"
    BY <1>1 DEF OwnerInv, Flags
  <2>5. QED
    BY <2>1, <2>2, <2>3, <2>4 DEF OwnerInv
<1>2. CASE /\ KokkosUntouched(p)
           /\ _called_initialize' = [_called_initialize EXCEPT ![p] = flag]
  <2>1. /\ g_is_initialized' = g_is_initialized /\ owner' = owner /\ robbed' = robbed
        /\ last' = <<"other", p>>
    BY <1>2 DEF KokkosUntouched
  <2>2. _called_initialize' \in [Parsers -> Flags]
    BY <1>2 DEF OwnerInv
  <2>3. ASSUME NEW q \in Parsers
        PROVE  \/ _called_initialize'[q] = _called_initialize[q]
               \/ _called_initialize'[q] = "unwritten" /\ owner # q
    BY <1>2 DEF OwnerInv
  <2>4. QED
    BY <2>1, <2>2, <2>3 DEF OwnerInv
<1>3. QED
  BY <1>1, <1>2 DEF Initialize

LEMMA OwnerFinalizeBody ==
  ASSUME OwnerInv, NEW p \in Parsers, NEW hard \in BOOLEAN, FinalizeBody(p, hard),
         alive' \in {alive, alive \ {p}},
         hard => alive' = alive
  PROVE  OwnerInv' /\ ByOwner
<1>1. CASE /\ KokkosFinalize(p)
           /\ _called_initialize' = [_called_initialize EXCEPT ![p] = "clear"]
  <2>1. ~ g_is_initialized' /\ owner' = Unowned /\ last' = <<"finalized", p>>
    BY <1>1 DEF KokkosFinalize
  <2>2. _called_initialize' \in [Parsers -> Flags]
    BY <1>1 DEF OwnerInv, Flags
  <2>3. ASSUME NEW q \in Parsers, _called_initialize'[q] = "set" PROVE q \in robbed'
    <3>1. q # p /\ _called_initialize[q] = "set"
      BY <1>1, <2>3 DEF OwnerInv
    <3>2. owner = q \/ q \in robbed
      BY <3>1 DEF OwnerInv
    <3>3. QED
      BY <1>1, <3>1, <3>2 DEF KokkosFinalize
  <2>4. ByOwner
    <3>1. ~ Misled(p) => owner = p
      BY DEF Misled, OwnerInv
    <3>2. owner = p => g_is_initialized
      BY NamesAssumption DEF OwnerInv
    <3>3. QED
      BY <2>1, <3>1, <3>2 DEF ByOwner
  <2>5. QED
    BY <2>1, <2>2, <2>3, <2>4, NamesAssumption DEF OwnerInv
<1>2. CASE /\ ~ hard /\ _called_initialize[p] # "set"
           /\ KokkosUntouched(p) /\ UNCHANGED _called_initialize
  <2>1. /\ g_is_initialized' = g_is_initialized /\ owner' = owner /\ robbed' = robbed
        /\ last' = <<"other", p>> /\ _called_initialize' = _called_initialize
    BY <1>2 DEF KokkosUntouched
  <2>2. owner # p
    BY <1>2 DEF OwnerInv
  <2>3. owner \in Parsers => owner \in alive'
    BY <2>2 DEF OwnerInv
  <2>4. QED
    BY <2>1, <2>3 DEF OwnerInv, ByOwner
<1>3. QED
  BY <1>1, <1>2 DEF FinalizeBody

LEMMA OwnerApplication ==
  ASSUME OwnerInv, ApplicationInitialize \/ ApplicationFinalize
  PROVE  OwnerInv' /\ ByOwner
<1>1. UNCHANGED <<alive, _called_initialize>>
  BY DEF ApplicationInitialize, ApplicationFinalize
<1>2. CASE ApplicationInitialize
  <2>1. g_is_initialized' /\ owner' = Application /\ robbed' = robbed \ {Application}
        /\ last' = <<"other", Application>>
    BY <1>2 DEF ApplicationInitialize, KokkosInitialize
  <2>2. owner = Unowned
    BY <1>2 DEF ApplicationInitialize, OwnerInv
  <2>3. \A q \in Parsers : _called_initialize[q] = "set" => q \in robbed'
    BY <2>1, <2>2, NamesAssumption DEF OwnerInv
  <2>4. QED
    BY <1>1, <2>1, <2>3, NamesAssumption DEF OwnerInv, ByOwner
<1>3. CASE ApplicationFinalize
  <2>1. ~ g_is_initialized' /\ owner' = Unowned /\ last' = <<"finalized", Application>>
        /\ robbed' = (robbed \cup ({owner} \cap Parsers)) \ {Application}
    BY <1>3 DEF ApplicationFinalize, KokkosFinalize
  <2>2. owner = Application /\ g_is_initialized
    BY <1>3, NamesAssumption DEF ApplicationFinalize, OwnerInv
  <2>3. \A q \in Parsers : _called_initialize[q] = "set" => q \in robbed'
    BY <2>1, <2>2, NamesAssumption DEF OwnerInv
  <2>4. QED
    BY <1>1, <2>1, <2>2, <2>3, NamesAssumption DEF OwnerInv, ByOwner
<1>4. QED
  BY <1>2, <1>3

(* Every step keeps the invariant, and only the owner ends a runtime.      *)
LEMMA OwnerStep == OwnerInv /\ [Next]_vars => OwnerInv' /\ [ByOwner]_vars
<1> SUFFICES ASSUME OwnerInv, [Next]_vars PROVE OwnerInv' /\ [ByOwner]_vars
  OBVIOUS
<1>1. ASSUME NEW p \in Parsers, Construct(p) \/ Reinitialize(p)
      PROVE  OwnerInv' /\ ByOwner
  <2>1. p \in alive' /\ alive \subseteq alive'
    BY <1>1 DEF Construct, Reinitialize
  <2>2. PICK flag \in Flags :
          /\ Initialize(p, flag)
          /\ flag = _called_initialize[p] \/ (flag = "unwritten" /\ owner # p)
    BY <1>1 DEF Construct, Reinitialize, OwnerInv, Flags
  <2>3. OwnerInv' /\ last'[1] = "other"
    BY <2>1, <2>2, OwnerInitialize
  <2>4. QED
    BY <2>3 DEF ByOwner
<1>2. ASSUME NEW p \in Parsers, Finalize(p) PROVE OwnerInv' /\ ByOwner
  <2>1. PICK hard \in BOOLEAN : FinalizeBody(p, hard)
    BY <1>2, Zenon DEF Finalize
  <2>2. alive' = alive
    BY <1>2 DEF Finalize
  <2>3. QED
    BY <2>1, <2>2, OwnerFinalizeBody, Zenon
<1>3. ASSUME NEW p \in Parsers, Destroy(p) PROVE OwnerInv' /\ ByOwner
  <2>1. FinalizeBody(p, FALSE) /\ alive' = alive \ {p}
    BY <1>3, Zenon DEF Destroy
  <2>2. QED
    BY <2>1, OwnerFinalizeBody, Zenon
<1>4. CASE ApplicationInitialize \/ ApplicationFinalize
  BY <1>4, OwnerApplication
<1>5. CASE UNCHANGED vars
  BY <1>5 DEF vars, OwnerInv
<1>6. QED
  BY <1>1, <1>2, <1>3, <1>4, <1>5 DEF Next

(* Kokkos is finalized only while it is initialized and only by who        *)
(* initialized it, except by a parser that is misled: for every sequence   *)
(* of calls, hard ones among them, and whatever unwritten flags read as.   *)
THEOREM OnlyOwnerFinalizesTheorem == Spec => OnlyOwnerFinalizes
<1>1. OwnerInv /\ [Next]_vars => OwnerInv'
  BY OwnerStep
<1>2. OwnerInv /\ [Next]_vars =>
        [last'[1] = "finalized" /\ ~ Misled(last'[2]) =>
           g_is_initialized /\ owner = last'[2]]_vars
  BY OwnerStep DEF ByOwner
<1>3. QED
  BY <1>1, <1>2, OwnerInit, PTL DEF Spec, OnlyOwnerFinalizes

(* A runtime that a parser initialized ends with it at the latest.         *)
THEOREM NoRuntimeWithoutParserTheorem == Spec => []NoRuntimeWithoutParser
<1>1. OwnerInv /\ [Next]_vars => OwnerInv'
  BY OwnerStep
<1>2. OwnerInv => NoRuntimeWithoutParser
  BY DEF OwnerInv, NoRuntimeWithoutParser
<1>3. QED
  BY <1>1, <1>2, OwnerInit, PTL DEF Spec
=============================================================================
