---------------------------- MODULE KokkosParser ----------------------------
(***************************************************************************)
(* KokkosParser ties the one Kokkos runtime of the process to the lifetime *)
(* of an object: the constructor initializes Kokkos unless it is already   *)
(* initialized, the destructor finalizes it if this object initialized it. *)
(* Several parsers may be alive at once, for example while a variable of a *)
(* Python session is bound again, and the application may initialize       *)
(* Kokkos itself before any parser exists.                                 *)
(***************************************************************************)
CONSTANTS
  Parsers,       \* parser objects
  Application,   \* stands for Kokkos::initialize called by the application
  Unowned        \* Kokkos is not initialized

ASSUME NamesAssumption ==
  Application \notin Parsers /\ Unowned \notin Parsers /\ Application # Unowned

VARIABLES
  g_is_initialized,    \* Kokkos's own flag
  alive,               \* the parsers constructed and not destroyed
  _called_initialize,  \* the flag of each parser; "unwritten" reads as either
  (* history *)
  owner,               \* who initialized the runtime that is running
  robbed,              \* parsers whose runtime was finalized by another
  last                 \* who acted last, and if Kokkos::finalize was called

vars == <<g_is_initialized, alive, _called_initialize, owner, robbed, last>>

Init ==
  /\ g_is_initialized = FALSE
  /\ alive = {}
  /\ _called_initialize = [p \in Parsers |-> "unwritten"]
  /\ owner = Unowned
  /\ robbed = {}
  /\ last = <<"other", Unowned>>

-----------------------------------------------------------------------------
(* Kokkos::initialize and Kokkos::finalize.                                *)
KokkosInitialize(by) ==
  /\ g_is_initialized' = TRUE
  /\ owner' = by /\ robbed' = robbed \ {by}
  /\ last' = <<"other", by>>

KokkosFinalize(by) ==
  /\ g_is_initialized' = FALSE
  /\ owner' = Unowned /\ robbed' = (robbed \cup ({owner} \cap Parsers)) \ {by}
  /\ last' = <<"finalized", by>>

KokkosUntouched(by) ==
  /\ UNCHANGED <<g_is_initialized, owner, robbed>>
  /\ last' = <<"other", by>>

(* Mutated form of Initialize: a success is not remembered.                *)
InitializeForgets(p, flag) ==
  /\ _called_initialize' = [_called_initialize EXCEPT ![p] = flag]
  /\ \/ KokkosUntouched(p)
     \/ ~ g_is_initialized /\ KokkosInitialize(p)

(***************************************************************************)
(* KokkosParser::initialize on an object whose flag is flag before the     *)
(* call: only a successful initialization writes it.                       *)
(***************************************************************************)
Initialize(p, flag) ==
  \/ /\ ~ g_is_initialized
     /\ _called_initialize' = [_called_initialize EXCEPT ![p] = "set"]
     /\ KokkosInitialize(p)
  \/ (* Kokkos is initialized, 0, or something else is wrong, -1. *)
     /\ _called_initialize' = [_called_initialize EXCEPT ![p] = flag]
     /\ KokkosUntouched(p)

(* The constructor; _called_initialize is not in its initializers.         *)
Construct(p) ==
  /\ p \notin alive
  /\ Initialize(p, "unwritten")
  /\ alive' = alive \cup {p}

(* initialize() called again on a live object.                             *)
Reinitialize(p) ==
  /\ p \in alive
  /\ Initialize(p, _called_initialize[p])
  /\ UNCHANGED alive

(* Mutated form of FinalizeBody: the flag is not reset.                    *)
FinalizeKeepsFlag(p, hard) ==
  /\ \/ (hard \/ _called_initialize[p] # "clear") /\ KokkosFinalize(p)
     \/ ~ hard /\ _called_initialize[p] # "set" /\ KokkosUntouched(p)
  /\ UNCHANGED _called_initialize

(* KokkosParser::finalize.                                                 *)
FinalizeBody(p, hard) ==
  \/ /\ hard \/ _called_initialize[p] # "clear"
     /\ KokkosFinalize(p)
     /\ _called_initialize' = [_called_initialize EXCEPT ![p] = "clear"]
  \/ /\ ~ hard /\ _called_initialize[p] # "set"
     /\ KokkosUntouched(p) /\ UNCHANGED _called_initialize

Finalize(p) ==
  /\ p \in alive
  /\ \E hard \in BOOLEAN : FinalizeBody(p, hard)
  /\ UNCHANGED alive

(* The destructor.                                                         *)
Destroy(p) ==
  /\ p \in alive
  /\ FinalizeBody(p, FALSE)
  /\ alive' = alive \ {p}

(* The application pairs its own calls.                                    *)
ApplicationInitialize ==
  /\ ~ g_is_initialized
  /\ KokkosInitialize(Application)
  /\ UNCHANGED <<alive, _called_initialize>>

ApplicationFinalize ==
  /\ owner = Application
  /\ KokkosFinalize(Application)
  /\ UNCHANGED <<alive, _called_initialize>>

Next ==
  \/ \E p \in Parsers : Construct(p) \/ Reinitialize(p) \/ Finalize(p) \/ Destroy(p)
  \/ ApplicationInitialize
  \/ ApplicationFinalize

Spec == Init /\ [][Next]_vars

-----------------------------------------------------------------------------
(* Why an object may finalize a runtime that is not its own: the call was  *)
(* hard and its flag was clear, its flag has never been written (both seen *)
(* as a flag that is not set), or its own runtime had been finalized by    *)
(* such an object and nobody told it.                                      *)
Misled(by) == by \in Parsers /\ (_called_initialize[by] # "set" \/ by \in robbed)

(***************************************************************************)
(* "finalize Kokkos if this object initialized it or if hard_finalize is   *)
(* true" (comment on KokkosParser::finalize): however initialize, finalize *)
(* and destructors of several parsers and an application interleave,       *)
(* Kokkos::finalize is called only while Kokkos is initialized and only by *)
(* who initialized it, except by an object that is Misled; so it is not    *)
(* called twice for one initialization either.  The exceptions are the     *)
(* only ones, and hold for every later step too, not just the first.       *)
(***************************************************************************)
OnlyOwnerFinalizes ==
  [][last'[1] = "finalized" /\ ~ Misled(last'[2]) =>
       g_is_initialized /\ owner = last'[2]]_vars

(***************************************************************************)
(* Whatever else goes wrong, a runtime that a parser has initialized never *)
(* outlives that parser: its destructor finds its flag set.                *)
(***************************************************************************)
NoRuntimeWithoutParser == owner \in Parsers => owner \in alive
=============================================================================
