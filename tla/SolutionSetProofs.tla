------------------------- MODULE SolutionSetProofs -------------------------
(***************************************************************************)
(* Two inductive invariants of the solution sets, for every set of         *)
(* operations and configurations, every number of targets and any lists.   *)
(*                                                                         *)
(* LayoutInv: the description the alphas were written by, and the one they *)
(* will be written by next, has the offsets and the number of rows that    *)
(* addTargets computes for its tiles, although clearTargets leaves them    *)
(* out of step with the list of operations.                                *)
(*                                                                         *)
(* SetsInv: unless it is empty, the host's list has exactly the tables of  *)
(* its operations; the list of the last solution is where the host's list  *)
(* begins, until something is cleared; and both lookups lead to places     *)
(* within that beginning, the host's even if it was written again since.   *)
(* Tables of a list agree with those of what it begins with, which is why  *)
(* a row by the host's tables is one by the device's.                      *)
(***************************************************************************)
EXTENDS SolutionSet, LayoutProofs, FiniteSetTheorems

HasFields(ss) ==
  ss = [lro |-> ss.lro, offsets |-> ss.offsets, out |-> ss.out, in |-> ss.in,
        total |-> ss.total, counts |-> ss.counts, max_sites |-> ss.max_sites,
        added |-> ss.added]

DescriptionInv(ss) ==
  /\ HasFields(ss)
  /\ \E k \in Nat : TilesOK(ss, k)
  /\ ss.counts \in Lists \cup {NoTargets}
  /\ ss.max_sites \in Nat
  /\ ss.added \in Nat

AlphasInv(a) == a = Empty \/ (DescriptionInv(a) /\ a.counts \in Lists)

LayoutInv ==
  /\ config \in Configurations
  /\ DescriptionInv(h)
  /\ AlphasInv(h_alphas)
  /\ AlphasInv(d_alphas)

(* A description that satisfies the strengthening has a sound layout.      *)
LEMMA SoundLayout ==
  ASSUME NEW a, DescriptionInv(a), a.counts \in Lists
  PROVE  LET places == {Place(a, n, s) : s \in Slots(a, n)}
         IN  /\ Cardinality(places) = Cardinality(Slots(a, n))
             /\ places \subseteq 0..AlphasExtent(a, n)-1
<1> DEFINE S == Slots(a, n)
           places == {Place(a, n, s) : s \in S}
           f == [s \in S |-> Place(a, n, s)]
           E == AlphasExtent(a, n)
<1>1. n \in Nat /\ TargetsOK(a, n)
  BY SolutionSetAssumption DEF TargetsOK, DescriptionInv
<1>2. PICK k \in Nat : TilesOK(a, k)
  BY DEF DescriptionInv
<1>3. \A s, u \in S : Place(a, n, s) = Place(a, n, u) => s = u
  BY <1>1, <1>2, PlaceUnique
<1>4. \A s \in S : E \in Nat /\ Place(a, n, s) \in 0..E-1
  BY <1>1, <1>2, PlaceAllocated
<1> HIDE DEF S, E
<1>5. places \subseteq 0..E-1
  BY <1>4
<1>6. IsFiniteSet(places)
  <2>1. CASE places = {}
    BY <2>1, FS_EmptySet
  <2>2. CASE places # {}
    <3>1. E \in Nat
      BY <1>4, <2>2
    <3>2. IsFiniteSet(0..E-1)
      BY <3>1, FS_Interval
    <3>3. QED
      BY <1>5, <3>2, FS_Subset
  <2>3. QED
    BY <2>1, <2>2
<1>7. f \in Injection(S, places) /\ f \in Surjection(S, places)
  <2>1. f \in [S -> places]
    OBVIOUS
  <2>2. \A s, u \in S : f[s] = f[u] => s = u
    BY <1>3
  <2>3. \A p \in places : \E s \in S : f[s] = p
    OBVIOUS
  <2>4. QED
    BY <2>1, <2>2, <2>3 DEF Injection, IsInjective, Surjection
<1>8. Cardinality(S) = Cardinality(places)
  BY <1>6, <1>7, FS_Injection
<1>9. QED
  BY <1>5, <1>8 DEF S, E

(* addTargets leaves a sound description, whatever it was called with.     *)
LEMMA OperationsLaidOut ==
  ASSUME NEW ss, DescriptionInv(ss), config \in Configurations,
         NEW lro, Len(lro) \in Nat
  PROVE  DescriptionInv(WithOperations(ss, lro))
<1> DEFINE k == Len(lro)
           g == getOutputDimensionOfSampling
           out == [i \in 0..k-1 |-> getOutputDimensionOfOperation(lro[i+1])]
           tile == [i \in 0..k-1 |-> g * out[i]]
           new == WithOperations(ss, lro)
<1>1. config.local \in Nat
  BY SolutionSetAssumption
<1>2. \A rank : Components(rank) \in Nat
  <2>1. config.local * config.local \in Nat
    BY <1>1
  <2>2. QED
    BY <1>1, <2>1 DEF Components
<1>3. g \in Nat /\ out \in [0..k-1 -> Nat]
  BY <1>2 DEF getOutputDimensionOfSampling, getOutputDimensionOfOperation
<1>4. new = [ss EXCEPT !.lro = lro, !.out = out, !.in = [i \in 0..k-1 |-> g],
                       !.offsets = RowOffsets(tile, k),
                       !.total = AtLeastGradient(PrefixSum(tile, k)[k])]
  BY DEF WithOperations
<1> HIDE DEF g, out, new
<1>5. /\ new.out = out
      /\ new.in = [i \in 0..k-1 |-> g]
      /\ new.offsets = RowOffsets(tile, k)
      /\ new.total = AtLeastGradient(PrefixSum(tile, k)[k])
      /\ new.counts = ss.counts /\ new.max_sites = ss.max_sites /\ new.added = ss.added
      /\ HasFields(new)
  BY <1>4 DEF DescriptionInv, HasFields
<1>6. TileSizes(new, k) = tile
  BY <1>5 DEF TileSizes
<1>7. tile \in [0..k-1 -> Nat]
  BY <1>3
<1> HIDE DEF tile
<1>8. PrefixSum(tile, k)[k] \in Nat
  BY <1>7, PrefixSumStep
<1>9. new.total \in Nat /\ PrefixSum(tile, k)[k] <= new.total
  BY <1>1, <1>5, <1>8 DEF AtLeastGradient
<1>10. TilesOK(new, k)
  BY <1>3, <1>5, <1>6, <1>9 DEF TilesOK
<1>11. QED
  BY <1>5, <1>10 DEF DescriptionInv, new

LEMMA LayoutInit == Init => LayoutInv
<1> SUFFICES ASSUME Init PROVE LayoutInv
  OBVIOUS
<1> DEFINE C == Constructed
<1>1. TileSizes(C, 0) \in [0..0-1 -> Nat]
  BY DEF TileSizes
<1>2. PrefixSum(TileSizes(C, 0), 0)[0] = 0
  BY <1>1, PrefixSumStep
<1>3. /\ C.in = NoOperations /\ C.out = NoOperations /\ C.offsets = NoOperations
      /\ C.total = 0
  BY DEF Constructed
<1>4. NoOperations \in [0..0-1 -> Nat] /\ RowOffsets(TileSizes(C, 0), 0) = NoOperations
  BY DEF NoOperations, RowOffsets
<1>5. TilesOK(C, 0)
  BY <1>2, <1>3, <1>4 DEF TilesOK
<1>6. HasFields(C) /\ C.counts = NoTargets /\ C.max_sites = 1 /\ C.added = 0
  BY DEF Constructed, HasFields
<1>7. DescriptionInv(C)
  BY <1>5, <1>6 DEF DescriptionInv
<1>8. QED
  BY <1>7 DEF Init, LayoutInv, AlphasInv

(* A change of lists, sites or added alphas does not touch the tiles.      *)
LEMMA TilesKept ==
  ASSUME NEW ss, NEW ss2, DescriptionInv(ss), HasFields(ss2),
         ss2.offsets = ss.offsets, ss2.out = ss.out, ss2.in = ss.in, ss2.total = ss.total,
         ss2.counts \in Lists \cup {NoTargets}, ss2.max_sites \in Nat, ss2.added \in Nat
  PROVE  DescriptionInv(ss2)
<1>1. PICK k \in Nat : TilesOK(ss, k)
  BY DEF DescriptionInv
<1>2. TileSizes(ss2, k) = TileSizes(ss, k)
  BY DEF TileSizes
<1>3. TilesOK(ss2, k)
  BY <1>1, <1>2 DEF TilesOK
<1>4. QED
  BY <1>3 DEF DescriptionInv

LEMMA LayoutStep == LayoutInv /\ [Next]_vars => LayoutInv'
<1> SUFFICES ASSUME LayoutInv, [Next]_vars PROVE LayoutInv'
  OBVIOUS
<1> USE DEF LayoutInv
<1>1. ASSUME NEW request \in Requests, addTargets(request) PROVE LayoutInv'
  <2> DEFINE lro == h.lro \o NewOperations(request)
  <2>1. Len(lro) \in Nat /\ h' = WithOperations(h, lro)
    BY <1>1, SolutionSetAssumption DEF addTargets
  <2>2. UNCHANGED <<config, h_alphas, d_alphas>>
    BY <1>1 DEF addTargets, alphas
  <2> HIDE DEF lro
  <2>3. DescriptionInv(h')
    BY <2>1, OperationsLaidOut
  <2>4. QED
    BY <2>2, <2>3 DEF AlphasInv
<1>2. ASSUME clearTargets PROVE LayoutInv'
  <2>1. h' = [h EXCEPT !.lro = << >>] /\ UNCHANGED <<config, h_alphas, d_alphas>>
    BY <1>2 DEF clearTargets, alphas
  <2>2. DescriptionInv(h')
    BY <2>1, TilesKept DEF DescriptionInv, HasFields
  <2>3. QED
    BY <2>1, <2>2 DEF AlphasInv
<1>3. ASSUME NEW counts \in Lists, setNeighborLists(counts) PROVE LayoutInv'
  <2>1. h' = [h EXCEPT !.counts = counts] /\ UNCHANGED <<config, h_alphas, d_alphas>>
    BY <1>3 DEF setNeighborLists, alphas
  <2>2. DescriptionInv(h')
    BY <2>1, TilesKept DEF DescriptionInv, HasFields
  <2>3. QED
    BY <2>1, <2>2 DEF AlphasInv
<1>4. ASSUME NEW max_sites \in MaxSites, setAuxiliaryEvaluationIndicesLists(max_sites)
      PROVE  LayoutInv'
  <2>1. /\ h' = [h EXCEPT !.max_sites = max_sites] /\ max_sites \in Nat
        /\ UNCHANGED <<config, h_alphas, d_alphas>>
    BY <1>4, SolutionSetAssumption DEF setAuxiliaryEvaluationIndicesLists, alphas
  <2>2. DescriptionInv(h')
    BY <2>1, TilesKept DEF DescriptionInv, HasFields
  <2>3. QED
    BY <2>1, <2>2 DEF AlphasInv
<1>5. AlphasInv(CopiedAlphas(h_alphas, d_alphas))
  BY DEF CopiedAlphas, AlphasInv
<1>6. h.counts # NoTargets => DescriptionInv(WithAdded) /\ AlphasInv(WithAdded)
  <2>1. config.added \in Nat
    BY SolutionSetAssumption
  <2>2. WithAdded = [h EXCEPT !.added = config.added]
    BY DEF WithAdded
  <2>3. DescriptionInv(WithAdded)
    BY <2>1, <2>2, TilesKept DEF DescriptionInv, HasFields
  <2>4. h.counts # NoTargets => WithAdded.counts \in Lists
    BY <2>2 DEF DescriptionInv, HasFields
  <2>5. QED
    BY <2>3, <2>4 DEF AlphasInv
<1>7. ASSUME Refused \/ OutOfMemory PROVE LayoutInv'
  <2>1. UNCHANGED <<config, h, h_alphas>>
    BY <1>7 DEF Refused, OutOfMemory
  <2>2. AlphasInv(d_alphas')
    <3>1. CASE d_alphas' = CopiedAlphas(h_alphas, d_alphas)
      BY <1>5, <3>1
    <3>2. CASE d_alphas' = WithAdded /\ OutOfMemory
      BY <1>6, <3>2 DEF OutOfMemory
    <3>3. QED
      BY <1>7, <3>1, <3>2 DEF Refused, OutOfMemory
  <2>3. QED
    BY <2>1, <2>2 DEF AlphasInv
<1>8. ASSUME Generate PROVE LayoutInv'
  <2>1. /\ h.counts # NoTargets /\ h' = WithAdded /\ d_alphas' = WithAdded
        /\ h_alphas' = CopiedAlphas(WithAdded, h_alphas) /\ UNCHANGED config
    BY <1>8 DEF Generate
  <2>2. DescriptionInv(WithAdded) /\ AlphasInv(WithAdded)
    BY <1>6, <2>1
  <2>3. AlphasInv(CopiedAlphas(WithAdded, h_alphas))
    BY <2>2 DEF CopiedAlphas, AlphasInv
  <2>4. QED
    BY <2>1, <2>2, <2>3 DEF AlphasInv
<1>9. ASSUME getSolutionSetHost PROVE LayoutInv'
  BY <1>9 DEF getSolutionSetHost, AlphasInv
<1>10. ASSUME UNCHANGED vars PROVE LayoutInv'
  BY <1>10 DEF vars, AlphasInv
<1>11. QED
  BY <1>1, <1>2, <1>3, <1>4, <1>7, <1>8, <1>9, <1>10 DEF Next

(***************************************************************************)
(* In every reachable state the alphas of the device have places of their  *)
(* own within their array.                                                 *)
(***************************************************************************)
THEOREM LayoutAlwaysSound == Spec => []LayoutSound
<1>1. LayoutInv => LayoutSound
  <2> SUFFICES ASSUME LayoutInv, d_alphas # Empty PROVE LayoutSound
    BY DEF LayoutSound
  <2>1. DescriptionInv(d_alphas) /\ d_alphas.counts \in Lists
    BY DEF LayoutInv, AlphasInv
  <2>2. QED
    BY <2>1, SoundLayout DEF LayoutSound
<1>2. QED
  BY <1>1, LayoutInit, LayoutStep, PTL DEF Spec
-----------------------------------------------------------------------------
(* What the operations of a description have to do with its tables, and    *)
(* with those of the description that the last solution was written by.    *)

Dimension(cfg, rank) ==
  IF rank = 0 THEN 1 ELSE IF rank = 1 THEN cfg.local ELSE cfg.local * cfg.local
OutOf(cfg, lro) == [i \in 0..Len(lro)-1 |-> Dimension(cfg, OutputRank[lro[i+1]])]
InOf(cfg, lro) == [i \in 0..Len(lro)-1 |-> Dimension(cfg, cfg.sampling_rank)]
TileOf(cfg, lro) ==
  [i \in 0..Len(lro)-1 |-> Dimension(cfg, cfg.sampling_rank) * OutOf(cfg, lro)[i]]
GradientRows(cfg, rows) == IF cfg.manifold /\ rows < cfg.local THEN cfg.local ELSE rows

(* The tables are those that addTargets computes for the operations.       *)
Laid(cfg, ss) ==
  /\ ss.out = OutOf(cfg, ss.lro) /\ ss.in = InOf(cfg, ss.lro)
  /\ ss.offsets = RowOffsets(TileOf(cfg, ss.lro), Len(ss.lro))
  /\ ss.total = GradientRows(cfg, PrefixSum(TileOf(cfg, ss.lro), Len(ss.lro))[Len(ss.lro)])

Extends(lro, start) ==
  Len(start) <= Len(lro) /\ \A i \in 1..Len(start) : lro[i] = start[i]

(* The lookup leads every operation of lro to a place of its own there.    *)
Finds(lookup, lro) ==
  \A i \in 1..Len(lro) : lookup[lro[i]] + 1 \in Stored(lro, lro[i])

(* The operations that are listed now.                                     *)
ListedInv ==
  /\ h.lro # << >> => Laid(config, h) /\ h_lookup # Unallocated
  /\ LookupExact

(* The solution last made, and what has become of its operations since.    *)
SolutionInv ==
  solved =>
    /\ d_alphas = d /\ h_alphas \in {Empty, d}
    /\ d.lro # << >> /\ Laid(config, d) /\ d.counts \in Lists /\ h.added = d.added
    /\ config.manifold => \A i \in 1..Len(d.lro) : OutputRank[d.lro[i]] < 2
    /\ h_lookup # Unallocated
    /\ IF config.shared THEN d_lookup = h_lookup ELSE Finds(d_lookup, d.lro)
    /\ ~ cleared => Extends(h.lro, d.lro) /\ Finds(h_lookup, d.lro)

SetsInv == LayoutInv /\ TypeOK /\ ListedInv /\ SolutionInv

(* The operations that the loop over a request keeps: the table of what it *)
(* has kept so far, for any sequence of stored operations.                 *)
IsUnique(f, lro, request) ==
  f = [i \in 0..Len(request) |->
         IF i = 0 THEN << >>
         ELSE IF Stored(lro, request[i]) = {} THEN Append(f[i-1], request[i])
         ELSE f[i-1]]

LEMMA UniqueExists ==
  ASSUME NEW lro, NEW request \in Seq(Operations)
  PROVE  \E f : IsUnique(f, lro, request)
<1> DEFINE Entry(f, i) == IF i = 0 THEN << >>
                          ELSE IF Stored(lro, request[i]) = {} THEN Append(f[i-1], request[i])
                          ELSE f[i-1]
           Good(k) == \E f : f = [i \in 0..k |-> Entry(f, i)]
           Bad == {k \in 0..Len(request) : ~ Good(k)}
<1>1. Len(request) \in Nat
  OBVIOUS
<1>2. Good(0)
  <2> DEFINE f == [i \in 0..0 |-> << >>]
  <2>1. f = [i \in 0..0 |-> Entry(f, i)]
    OBVIOUS
  <2>2. QED
    BY <2>1
<1>3. ASSUME NEW k \in Nat, Good(k) PROVE Good(k+1)
  <2>1. PICK f : f = [i \in 0..k |-> Entry(f, i)]
    BY <1>3
  <2> DEFINE g == [i \in 0..k+1 |-> IF i = k+1 THEN Entry(f, i) ELSE f[i]]
  <2>2. \A i \in 0..k+1 : g[i] = Entry(g, i)
    <3> SUFFICES ASSUME NEW i \in 0..k+1 PROVE g[i] = Entry(g, i)
      OBVIOUS
    <3>1. CASE i = k+1
      <4>1. g[i-1] = f[i-1] /\ g[i] = Entry(f, i)
        BY <3>1
      <4> HIDE DEF g
      <4>2. QED
        BY <4>1
    <3>2. CASE i # k+1
      <4>1. i \in 0..k /\ g[i] = f[i] /\ (i # 0 => g[i-1] = f[i-1])
        BY <3>2
      <4>2. f[i] = Entry(f, i)
        <5> HIDE DEF Entry
        <5>1. QED
          BY <2>1, <4>1
      <4> HIDE DEF g
      <4>3. QED
        BY <4>1, <4>2
    <3>3. QED
      BY <3>1, <3>2
  <2>3. g = [i \in 0..k+1 |-> g[i]]
    OBVIOUS
  <2> HIDE DEF g, Entry
  <2>4. g = [i \in 0..k+1 |-> Entry(g, i)]
    BY <2>2, <2>3
  <2>5. QED
    BY <2>4
<1> HIDE DEF Good
<1>4. Bad = {}
  <2>1. SUFFICES ASSUME Bad # {} PROVE FALSE
    OBVIOUS
  <2>2. Bad \in SUBSET Nat
    BY <1>1
  <2>3. PICK m \in Bad : \A j \in Bad : m <= j
    <3> HIDE DEF Bad
    <3>1. QED
      BY <2>1, <2>2, LeastNat
  <2>4. m \in 0..Len(request) /\ m # 0
    BY <1>2, <2>3
  <2>5. m-1 \in 0..Len(request) /\ m-1 \in Nat /\ Good(m-1)
    BY <1>1, <2>3, <2>4
  <2>6. Good(m-1+1)
    BY <1>3, <2>5
  <2>7. QED
    BY <2>3, <2>4, <2>6
<1>5. Good(Len(request))
  BY <1>1, <1>4
<1>6. QED
  BY <1>5 DEF Good, IsUnique

LEMMA NewOperationsFacts ==
  ASSUME NEW request \in Seq(Operations)
  PROVE  /\ NewOperations(request) \in Seq(Operations)
         /\ \A p \in 1..Len(NewOperations(request)) :
              /\ Stored(h.lro, NewOperations(request)[p]) = {}
              /\ Stored(request, NewOperations(request)[p]) # {}
         /\ \A i \in 1..Len(request) : Stored(h.lro, request[i]) = {} =>
              \E p \in 1..Len(NewOperations(request)) : NewOperations(request)[p] = request[i]
<1> DEFINE lro == h.lro
           f == CHOOSE g : IsUnique(g, lro, request)
           Good(i) == /\ f[i] \in Seq(Operations)
                      /\ \A p \in 1..Len(f[i]) : /\ Stored(lro, f[i][p]) = {}
                                                 /\ Stored(request, f[i][p]) # {}
                      /\ \A j \in 1..i : Stored(lro, request[j]) = {} =>
                           \E p \in 1..Len(f[i]) : f[i][p] = request[j]
           Bad == {i \in 0..Len(request) : ~ Good(i)}
<1>1. NewOperations(request) = f[Len(request)]
  BY Zenon DEF NewOperations, IsUnique
<1>2. IsUnique(f, lro, request)
  BY UniqueExists, Zenon
<1> HIDE DEF f, lro
<1>3. Len(request) \in Nat
  OBVIOUS
<1>4. /\ f[0] = << >>
      /\ \A i \in 1..Len(request) :
           f[i] = IF Stored(lro, request[i]) = {} THEN Append(f[i-1], request[i]) ELSE f[i-1]
  <2> DEFINE Entry(i) == IF i = 0 THEN << >>
                         ELSE IF Stored(lro, request[i]) = {} THEN Append(f[i-1], request[i])
                         ELSE f[i-1]
  <2>1. f = [i \in 0..Len(request) |-> Entry(i)]
    BY <1>2 DEF IsUnique
  <2> HIDE DEF Entry
  <2>2. \A i \in 0..Len(request) : f[i] = Entry(i)
    BY <2>1
  <2>3. f[0] = Entry(0) /\ \A i \in 1..Len(request) : f[i] = Entry(i) /\ i # 0
    BY <1>3, <2>2
  <2>4. QED
    BY <2>3 DEF Entry
<1>5. Good(0)
  <2>1. f[0] \in Seq(Operations) /\ Len(f[0]) = 0
    BY <1>4
  <2>2. QED
    BY <2>1
<1>6. ASSUME NEW i \in 1..Len(request), Good(i-1) PROVE Good(i)
  <2> DEFINE g == f[i-1]
  <2>1. /\ g \in Seq(Operations) /\ Len(g) \in Nat /\ request[i] \in Operations
        /\ \A p \in 1..Len(g) : Stored(lro, g[p]) = {} /\ Stored(request, g[p]) # {}
        /\ \A j \in 1..i-1 : Stored(lro, request[j]) = {} =>
             \E p \in 1..Len(g) : g[p] = request[j]
    <3>1. request[i] \in Operations
      OBVIOUS
    <3>2. /\ g \in Seq(Operations)
          /\ \A p \in 1..Len(g) : Stored(lro, g[p]) = {} /\ Stored(request, g[p]) # {}
          /\ \A j \in 1..i-1 : Stored(lro, request[j]) = {} =>
               \E p \in 1..Len(g) : g[p] = request[j]
      BY <1>6, Zenon
    <3> HIDE DEF g
    <3>3. Len(g) \in Nat
      BY <3>2
    <3>4. QED
      BY <3>1, <3>2, <3>3, Zenon
  <2>2. \A j \in 1..i : j # i => j \in 1..i-1
    OBVIOUS
  <2> HIDE DEF g
  <2>3. CASE Stored(lro, request[i]) = {}
    <3>1. f[i] = Append(g, request[i])
      BY <1>4, <2>3 DEF g
    <3>2. /\ f[i] \in Seq(Operations) /\ Len(f[i]) = Len(g) + 1
          /\ \A p \in 1..Len(g) : f[i][p] = g[p]
          /\ f[i][Len(g) + 1] = request[i]
      BY <2>1, <3>1
    <3>3. Stored(request, request[i]) # {}
      BY DEF Stored
    <3>4. \A p \in 1..Len(f[i]) : Stored(lro, f[i][p]) = {} /\ Stored(request, f[i][p]) # {}
      <4> SUFFICES ASSUME NEW p \in 1..Len(f[i])
                   PROVE  Stored(lro, f[i][p]) = {} /\ Stored(request, f[i][p]) # {}
        OBVIOUS
      <4>1. CASE p \in 1..Len(g)
        BY <2>1, <3>2, <4>1
      <4>2. CASE p = Len(g) + 1
        BY <2>3, <3>2, <3>3, <4>2
      <4>3. QED
        BY <2>1, <3>2, <4>1, <4>2
    <3>5. \A j \in 1..i : Stored(lro, request[j]) = {} =>
            \E p \in 1..Len(f[i]) : f[i][p] = request[j]
      <4> SUFFICES ASSUME NEW j \in 1..i, Stored(lro, request[j]) = {}
                   PROVE  \E p \in 1..Len(f[i]) : f[i][p] = request[j]
        OBVIOUS
      <4>1. CASE j = i
        <5>1. Len(g) + 1 \in 1..Len(f[i])
          BY <2>1, <3>2
        <5>2. QED
          BY <3>2, <4>1, <5>1
      <4>2. CASE j # i
        <5>1. PICK p \in 1..Len(g) : g[p] = request[j]
          BY <2>1, <2>2, <4>2
        <5>2. p \in 1..Len(f[i]) /\ f[i][p] = request[j]
          BY <2>1, <3>2, <5>1
        <5>3. QED
          BY <5>2
      <4>3. QED
        BY <4>1, <4>2
    <3>6. QED
      BY <3>2, <3>4, <3>5
  <2>4. CASE Stored(lro, request[i]) # {}
    <3>1. f[i] = g
      BY <1>4, <2>4 DEF g
    <3>2. QED
      BY <2>1, <2>2, <2>4, <3>1
  <2>5. QED
    BY <2>3, <2>4
<1> HIDE DEF Good
<1>7. Bad = {}
  <2>1. SUFFICES ASSUME Bad # {} PROVE FALSE
    OBVIOUS
  <2>2. Bad \in SUBSET Nat
    BY <1>3
  <2>3. PICK m \in Bad : \A j \in Bad : m <= j
    <3> HIDE DEF Bad
    <3>1. QED
      BY <2>1, <2>2, LeastNat
  <2>4. m \in 1..Len(request)
    BY <1>3, <1>5, <2>3
  <2>5. m-1 \in 0..Len(request) /\ Good(m-1)
    BY <1>3, <2>3, <2>4
  <2>6. QED
    BY <1>6, <2>3, <2>4, <2>5
<1>8. Good(Len(request))
  BY <1>3, <1>7
<1>9. QED
  BY <1>1, <1>8 DEF Good, lro

(* The places that a lookup is given.                                      *)
LEMMA FirstLast ==
  ASSUME NEW lro \in Seq(Operations), NEW op, Stored(lro, op) # {}
  PROVE  /\ First(lro, op) \in Stored(lro, op) /\ Last(lro, op) \in Stored(lro, op)
         /\ \A j \in Stored(lro, op) : First(lro, op) <= j
<1> DEFINE S == Stored(lro, op)
           T == {Len(lro) - i : i \in S}
<1>1. Len(lro) \in Nat /\ S \in SUBSET (1..Len(lro)) /\ S \in SUBSET Nat
  BY DEF Stored
<1>2. \E i \in S : \A j \in S : i <= j
  <2> HIDE DEF S
  <2>1. QED
    BY <1>1, LeastNat DEF S
<1>3. \E i \in S : \A j \in S : j <= i
  <2>1. T \in SUBSET Nat /\ T # {}
    BY <1>1
  <2>2. PICK t \in T : \A u \in T : t <= u
    <3> HIDE DEF T
    <3>1. QED
      BY <2>1, LeastNat
  <2> HIDE DEF S
  <2>3. PICK i \in S : t = Len(lro) - i
    OBVIOUS
  <2>4. \A j \in S : Len(lro) - i <= Len(lro) - j
    BY <2>2, <2>3
  <2>5. \A j \in S : j <= i
    BY <1>1, <2>4
  <2>6. QED
    BY <2>5
<1>4. QED
  BY <1>2, <1>3, Zenon DEF First, Last

(* The list after addTargets: what was there, and what is new.             *)
LEMMA Appended ==
  ASSUME NEW request \in Seq(Operations), h.lro \in Seq(Operations)
  PROVE  LET lro == h.lro \o NewOperations(request)
         IN  /\ lro \in Seq(Operations) /\ Len(lro) \in Nat /\ Extends(lro, h.lro)
             /\ \A op : Stored(h.lro, op) \subseteq Stored(lro, op)
             /\ \A op : Stored(lro, op) # {} <=>
                          Stored(h.lro, op) # {} \/ Stored(request, op) # {}
<1> DEFINE new == NewOperations(request)
           old == h.lro
           lro == old \o new
<1>1. /\ new \in Seq(Operations)
      /\ \A p \in 1..Len(new) : Stored(request, new[p]) # {}
      /\ \A i \in 1..Len(request) : Stored(old, request[i]) = {} =>
           \E p \in 1..Len(new) : new[p] = request[i]
  BY NewOperationsFacts
<1> HIDE DEF new, old
<1>2. old \in Seq(Operations)
  BY DEF old
<1>3. /\ lro \in Seq(Operations) /\ Len(lro) = Len(old) + Len(new)
      /\ Len(old) \in Nat /\ Len(new) \in Nat
      /\ \A i \in 1..Len(old) : lro[i] = old[i]
      /\ \A p \in 1..Len(new) : lro[Len(old) + p] = new[p]
  BY <1>1, <1>2
<1> HIDE DEF lro
<1>4. \A op : Stored(old, op) \subseteq Stored(lro, op)
  BY <1>3 DEF Stored
<1>5. ASSUME NEW op, Stored(request, op) # {}, Stored(old, op) = {}
      PROVE  Stored(lro, op) # {}
  <2>1. PICK i \in 1..Len(request) : request[i] = op
    BY <1>5 DEF Stored
  <2>2. PICK p \in 1..Len(new) : new[p] = op
    BY <1>1, <1>5, <2>1
  <2>3. Len(old) + p \in 1..Len(lro) /\ lro[Len(old) + p] = op
    BY <1>3, <2>2
  <2>4. QED
    BY <2>3 DEF Stored
<1>6. ASSUME NEW op, Stored(lro, op) # {}, Stored(old, op) = {}
      PROVE  Stored(request, op) # {}
  <2>1. PICK i \in 1..Len(lro) : lro[i] = op
    BY <1>6 DEF Stored
  <2>2. i \notin 1..Len(old)
    BY <1>3, <1>6, <2>1 DEF Stored
  <2>3. i - Len(old) \in 1..Len(new) /\ Len(old) + (i - Len(old)) = i
    BY <1>3, <2>1, <2>2
  <2>4. new[i - Len(old)] = op
    BY <1>3, <2>1, <2>3
  <2>5. QED
    BY <1>1, <2>3, <2>4
<1>7. Extends(lro, old)
  BY <1>3 DEF Extends
<1>8. \A op : Stored(lro, op) # {} <=> Stored(old, op) # {} \/ Stored(request, op) # {}
  BY <1>4, <1>5, <1>6
<1>9. QED
  BY <1>3, <1>4, <1>7, <1>8 DEF lro, old, new

(* The lookup after addTargets is exact, and finds what an earlier one did *)
(* within the first operations.                                            *)
LEMMA LookupFacts ==
  ASSUME TypeOK, ListedInv, NEW request \in Requests,
         NEW lro, lro = h.lro \o NewOperations(request), Len(lro) \in 0..MaxStored
  PROVE  /\ Lookup(request, lro) \in [Operations -> -1..MaxStored-1]
         /\ \A op \in Operations :
              IF Stored(lro, op) = {} THEN Lookup(request, lro)[op] = -1
              ELSE Lookup(request, lro)[op] + 1 \in Stored(lro, op)
         /\ \A start \in Seq(Operations) :
              Extends(h.lro, start) /\ Finds(h_lookup, start) /\ h_lookup # Unallocated
                => Finds(Lookup(request, lro), start)
<1> DEFINE lookup == Lookup(request, lro)
<1>1. request \in Seq(Operations) /\ h.lro \in Seq(Operations) /\ MaxStored \in Nat
  BY SolutionSetAssumption DEF TypeOK, DescriptionOK
<1>2. /\ lro \in Seq(Operations)
      /\ \A op : Stored(h.lro, op) \subseteq Stored(lro, op)
      /\ \A op : Stored(lro, op) # {} <=>
                   Stored(h.lro, op) # {} \/ Stored(request, op) # {}
  BY <1>1, Appended
<1>3. \A op \in Operations : lookup[op] =
        IF Stored(request, op) # {}
        THEN IF Stored(h.lro, op) # {} THEN First(h.lro, op) - 1 ELSE Last(lro, op) - 1
        ELSE IF h_lookup = Unallocated THEN -1 ELSE h_lookup[op]
  BY DEF Lookup
<1>4. h_lookup = Unallocated => h.lro = << >>
  BY DEF ListedInv
<1>5. h_lookup # Unallocated =>
        h_lookup \in [Operations -> -1..MaxStored-1] /\ DOMAIN h_lookup = Operations
  BY DEF TypeOK, LookupOK
<1>6. ASSUME NEW op \in Operations
      PROVE  IF Stored(lro, op) = {} THEN lookup[op] = -1
             ELSE lookup[op] + 1 \in Stored(lro, op)
  <2>1. CASE Stored(request, op) # {} /\ Stored(h.lro, op) # {}
    <3>1. First(h.lro, op) \in Stored(h.lro, op)
      BY <1>1, <2>1, FirstLast
    <3>2. First(h.lro, op) \in Nat
      BY <1>1, <3>1 DEF Stored
    <3>3. First(h.lro, op) \in Stored(lro, op)
      BY <1>2, <3>1
    <3>4. lookup[op] = First(h.lro, op) - 1
      BY <1>3, <2>1
    <3> HIDE DEF lookup
    <3>5. QED
      BY <3>2, <3>3, <3>4
  <2>2. CASE Stored(request, op) # {} /\ Stored(h.lro, op) = {}
    <3>1. Stored(lro, op) # {}
      BY <1>2, <2>2
    <3>2. Last(lro, op) \in Stored(lro, op)
      BY <1>2, <3>1, FirstLast
    <3>3. Last(lro, op) \in Nat
      BY <1>2, <3>2 DEF Stored
    <3>4. lookup[op] = Last(lro, op) - 1
      BY <1>3, <2>2
    <3> HIDE DEF lookup
    <3>5. QED
      BY <3>2, <3>3, <3>4
  <2>3. CASE Stored(request, op) = {}
    <3>1. Stored(lro, op) = {} <=> Stored(h.lro, op) = {}
      BY <1>2, <2>3
    <3>2. CASE h_lookup = Unallocated
      <4>1. Stored(h.lro, op) = {}
        BY <1>4, <3>2 DEF Stored
      <4>2. QED
        BY <1>3, <2>3, <3>1, <3>2, <4>1
    <3>3. CASE h_lookup # Unallocated
      <4>1. IF Stored(h.lro, op) = {} THEN h_lookup[op] = -1
            ELSE h_lookup[op] + 1 \in Stored(h.lro, op)
        BY <1>5, <3>3 DEF ListedInv, LookupExact
      <4>2. QED
        BY <1>2, <1>3, <2>3, <3>1, <3>3, <4>1
    <3>4. QED
      BY <3>2, <3>3
  <2>4. QED
    BY <2>1, <2>2, <2>3
<1>7. lookup \in [Operations -> -1..MaxStored-1]
  <2>1. ASSUME NEW op \in Operations PROVE lookup[op] \in -1..MaxStored-1
    <3>1. CASE Stored(lro, op) = {}
      BY <1>1, <1>6, <3>1
    <3>2. CASE Stored(lro, op) # {}
      <4>1. lookup[op] + 1 \in 1..Len(lro)
        BY <1>6, <3>2 DEF Stored
      <4>2. lookup[op] \in Int
        <5>1. CASE Stored(request, op) # {} /\ Stored(h.lro, op) # {}
          <6>1. First(h.lro, op) \in Int
            BY <1>1, <5>1, FirstLast DEF Stored
          <6>2. QED
            BY <1>3, <5>1, <6>1
        <5>2. CASE Stored(request, op) # {} /\ Stored(h.lro, op) = {}
          <6>1. Last(lro, op) \in Int
            <7>1. Last(lro, op) \in Stored(lro, op)
              BY <1>2, <3>2, FirstLast
            <7>2. QED
              BY <7>1 DEF Stored
          <6>2. QED
            BY <1>3, <5>2, <6>1
        <5>3. CASE Stored(request, op) = {}
          BY <1>1, <1>3, <1>5, <5>3
        <5>4. QED
          BY <5>1, <5>2, <5>3
      <4>3. QED
        BY <1>1, <4>1, <4>2
    <3>3. QED
      BY <3>1, <3>2
  <2>2. lookup = [op \in Operations |-> lookup[op]]
    BY DEF Lookup
  <2> HIDE DEF lookup
  <2>3. QED
    BY <2>1, <2>2
<1>8. ASSUME NEW start \in Seq(Operations), Extends(h.lro, start), Finds(h_lookup, start),
             h_lookup # Unallocated
      PROVE  Finds(lookup, start)
  <2> SUFFICES ASSUME NEW i \in 1..Len(start)
               PROVE  lookup[start[i]] + 1 \in Stored(start, start[i])
    BY DEF Finds
  <2> DEFINE op == start[i]
  <2>1. op \in Operations /\ i \in Stored(start, op) /\ Len(start) \in Nat
    BY DEF Stored
  <2>2. i \in Stored(h.lro, op)
    BY <1>1, <1>8, <2>1 DEF Extends, Stored
  <2>3. CASE Stored(request, op) # {}
    <3>1. First(h.lro, op) \in Stored(h.lro, op) /\ First(h.lro, op) <= i
      BY <1>1, <2>2, FirstLast
    <3>2. First(h.lro, op) \in 1..Len(start) /\ h.lro[First(h.lro, op)] = op
      BY <1>1, <2>1, <3>1 DEF Stored
    <3>3. First(h.lro, op) \in Stored(start, op)
      BY <1>8, <3>2 DEF Stored, Extends
    <3>4. lookup[op] = First(h.lro, op) - 1
      BY <1>3, <2>1, <2>2, <2>3
    <3>5. QED
      BY <3>2, <3>3, <3>4
  <2>4. CASE Stored(request, op) = {}
    <3>1. lookup[op] = h_lookup[op]
      BY <1>3, <1>8, <2>1, <2>4
    <3>2. QED
      BY <1>8, <3>1 DEF Finds
  <2>5. QED
    BY <2>3, <2>4
<1>9. QED
  BY <1>6, <1>7, <1>8

-----------------------------------------------------------------------------
(* The tables of a description whose operations were not cleared.          *)
LEMMA ComponentsType ==
  ASSUME config \in Configurations
  PROVE  /\ config.local \in 1..3
         /\ \A rank : Dimension(config, rank) \in Nat
         /\ \A lro : /\ OutOf(config, lro) \in [0..Len(lro)-1 -> Nat]
                     /\ TileOf(config, lro) \in [0..Len(lro)-1 -> Nat]
<1>1. config.local \in 1..3
  BY SolutionSetAssumption
<1>2. \A rank : Dimension(config, rank) \in Nat
  <2>1. config.local * config.local \in Nat
    BY <1>1
  <2>2. QED
    BY <1>1, <2>1 DEF Dimension
<1>3. \A lro : OutOf(config, lro) \in [0..Len(lro)-1 -> Nat]
  BY <1>2 DEF OutOf
<1>4. \A lro : TileOf(config, lro) \in [0..Len(lro)-1 -> Nat]
  BY <1>2, <1>3 DEF TileOf
<1>5. QED
  BY <1>1, <1>2, <1>3, <1>4

LEMMA TablesLaid ==
  ASSUME NEW ss, HasFields(ss), NEW lro
  PROVE  LET new == WithOperations(ss, lro)
         IN  /\ new.lro = lro /\ Laid(config, new) /\ HasFields(new)
             /\ new.counts = ss.counts /\ new.max_sites = ss.max_sites
             /\ new.added = ss.added
<1> DEFINE k == Len(lro)
           out == [i \in 0..k-1 |-> getOutputDimensionOfOperation(lro[i+1])]
           tile == [i \in 0..k-1 |-> getOutputDimensionOfSampling * out[i]]
           in == [i \in 0..k-1 |-> getOutputDimensionOfSampling]
           offsets == RowOffsets(tile, k)
           total == AtLeastGradient(PrefixSum(tile, k)[k])
           new == WithOperations(ss, lro)
<1>1. new = [ss EXCEPT !.lro = lro, !.out = out, !.in = in, !.offsets = offsets,
                       !.total = total]
  BY DEF WithOperations
<1>2. /\ out = OutOf(config, lro) /\ in = InOf(config, lro) /\ tile = TileOf(config, lro)
  BY DEF OutOf, InOf, TileOf, getOutputDimensionOfOperation, getOutputDimensionOfSampling,
         Components, Dimension
<1>3. offsets = RowOffsets(TileOf(config, lro), Len(lro))
      /\ total = GradientRows(config, PrefixSum(TileOf(config, lro), Len(lro))[Len(lro)])
  BY <1>2 DEF AtLeastGradient, GradientRows
<1> HIDE DEF new, out, in, offsets, total
<1>4. /\ new.lro = lro /\ new.out = out /\ new.in = in /\ new.offsets = offsets
      /\ new.total = total /\ HasFields(new)
      /\ new.counts = ss.counts /\ new.max_sites = ss.max_sites /\ new.added = ss.added
  BY <1>1 DEF HasFields
<1>5. Laid(config, new)
  BY <1>2, <1>3, <1>4 DEF Laid
<1>6. QED
  BY <1>4, <1>5 DEF new

LEMMA LaidFacts ==
  ASSUME config \in Configurations, NEW ss, Laid(config, ss), ss.lro \in Seq(Operations)
  PROVE  /\ DOMAIN ss.offsets = 0..Len(ss.lro)-1
         /\ DOMAIN ss.in = 0..Len(ss.lro)-1 /\ DOMAIN ss.out = 0..Len(ss.lro)-1
         /\ Cardinality(DOMAIN ss.offsets) = Len(ss.lro)
         /\ ss.total \in Nat
         /\ config.manifold => config.local <= ss.total
         /\ ss.lro # << >> => ss.offsets[0] = 0
<1> DEFINE k == Len(ss.lro)
           tile == TileOf(config, ss.lro)
<1>0. k \in Nat
  OBVIOUS
<1>1. k \in Nat /\ tile \in [0..k-1 -> Nat] /\ config.local \in 1..3
  BY <1>0, ComponentsType
<1>2. /\ ss.out = OutOf(config, ss.lro) /\ ss.in = InOf(config, ss.lro)
      /\ ss.offsets = RowOffsets(tile, k)
      /\ ss.total = GradientRows(config, PrefixSum(tile, k)[k])
  BY DEF Laid
<1>3. DOMAIN ss.offsets = 0..k-1 /\ DOMAIN ss.in = 0..k-1 /\ DOMAIN ss.out = 0..k-1
  BY <1>2 DEF RowOffsets, OutOf, InOf
<1>4. Cardinality(0..k-1) = k
  <2> HIDE DEF k
  <2>1. QED
    BY <1>1, FS_Interval
<1> HIDE DEF tile, k
<1>5. PrefixSum(tile, k)[k] \in Nat /\ PrefixSum(tile, k)[0] = 0
  BY <1>1, PrefixSumStep
<1>6. ss.total \in Nat /\ (config.manifold => config.local <= ss.total)
  BY <1>1, <1>2, <1>5 DEF GradientRows
<1>7. ss.lro # << >> => ss.offsets[0] = 0
  <2> SUFFICES ASSUME ss.lro # << >> PROVE ss.offsets[0] = 0
    OBVIOUS
  <2>1. 0 \in 0..k-1
    BY <1>1 DEF k
  <2>2. QED
    BY <1>2, <1>5, <2>1 DEF RowOffsets
<1>8. QED
  BY <1>3, <1>4, <1>6, <1>7 DEF k

(* Prefix sums do not depend on what follows.                              *)
LEMMA PrefixSumAgrees ==
  ASSUME NEW k \in Nat, NEW m \in Nat, k <= m,
         NEW c \in [0..k-1 -> Nat], NEW e \in [0..m-1 -> Nat],
         \A i \in 0..k-1 : c[i] = e[i]
  PROVE  \A i \in 0..k : PrefixSum(c, k)[i] = PrefixSum(e, m)[i]
<1> DEFINE P == PrefixSum(c, k)
           Q == PrefixSum(e, m)
           Bad == {i \in 0..k : P[i] # Q[i]}
<1>1. /\ P[0] = 0 /\ Q[0] = 0
      /\ \A i \in 0..k-1 : P[i+1] = P[i] + c[i]
      /\ \A i \in 0..m-1 : Q[i+1] = Q[i] + e[i]
  BY PrefixSumStep
<1> HIDE DEF P, Q
<1>2. Bad = {}
  <2>1. SUFFICES ASSUME Bad # {} PROVE FALSE
    OBVIOUS
  <2>2. Bad \in SUBSET Nat
    OBVIOUS
  <2>3. PICK b \in Bad : \A j \in Bad : b <= j
    <3> HIDE DEF Bad
    <3>1. QED
      BY <2>1, <2>2, LeastNat
  <2>4. b \in 0..k /\ b # 0
    BY <1>1, <2>3
  <2>5. b-1 \in 0..k-1 /\ b-1 \in 0..m-1 /\ b-1 \in 0..k /\ P[b-1] = Q[b-1]
    BY <2>3, <2>4
  <2>6. P[b-1+1] = P[b-1] + c[b-1] /\ Q[b-1+1] = Q[b-1] + e[b-1]
    BY <1>1, <2>5
  <2>7. P[b] = Q[b]
    BY <2>4, <2>5, <2>6
  <2>8. QED
    BY <2>3, <2>7
<1>3. QED
  BY <1>2 DEF P, Q

(* A list that starts with the operations of another has its first tables. *)
LEMMA TablesAgree ==
  ASSUME config \in Configurations, NEW ss, NEW a, Laid(config, ss), Laid(config, a),
         ss.lro \in Seq(Operations), a.lro \in Seq(Operations), Extends(ss.lro, a.lro)
  PROVE  \A i \in 0..Len(a.lro)-1 : ss.offsets[i] = a.offsets[i] /\ ss.out[i] = a.out[i]
<1> DEFINE k == Len(a.lro)
           m == Len(ss.lro)
           c == TileOf(config, a.lro)
           e == TileOf(config, ss.lro)
<1>1. k \in Nat /\ m \in Nat /\ k <= m
  BY DEF Extends
<1>2. c \in [0..k-1 -> Nat] /\ e \in [0..m-1 -> Nat]
  BY ComponentsType
<1>3. \A i \in 0..k-1 : i \in 0..m-1 /\ i+1 \in 1..k
  BY <1>1
<1>4. \A i \in 0..k-1 : OutOf(config, a.lro)[i] = OutOf(config, ss.lro)[i]
  BY <1>3 DEF OutOf, Extends
<1>5. \A i \in 0..k-1 : c[i] = e[i]
  BY <1>3, <1>4 DEF TileOf
<1> HIDE DEF c, e
<1>6. \A i \in 0..k : PrefixSum(c, k)[i] = PrefixSum(e, m)[i]
  <2> HIDE DEF k, m
  <2>1. QED
    BY <1>1, <1>2, <1>5, PrefixSumAgrees
<1>7. \A i \in 0..k-1 : RowOffsets(c, k)[i] = RowOffsets(e, m)[i]
  <2> HIDE DEF k, m
  <2>1. QED
    BY <1>1, <1>3, <1>6 DEF RowOffsets
<1>8. QED
  BY <1>4, <1>7 DEF Laid, c, e

-----------------------------------------------------------------------------
(* The strengthening of what is said about lookups and solutions holds in  *)
(* every reachable state.                                                  *)

LEMMA Described ==
  ASSUME NEW ss, DescriptionInv(ss), ss.lro \in Seq(Operations), Len(ss.lro) <= MaxStored,
         ss.max_sites \in MaxSites \cup {1}
  PROVE  DescriptionOK(ss)
<1>1. PICK k \in Nat : TilesOK(ss, k)
  BY DEF DescriptionInv
<1>2. /\ ss.total \in Nat /\ DOMAIN ss.offsets = 0..k-1
      /\ DOMAIN ss.in = 0..k-1 /\ DOMAIN ss.out = 0..k-1
  BY <1>1 DEF TilesOK, RowOffsets
<1>3. QED
  BY <1>2 DEF DescriptionOK, DescriptionInv

(* A change of lists, sites or added alphas does not touch what is listed. *)
LEMMA ListKept ==
  ASSUME NEW ss, NEW ss2, DescriptionInv(ss2), DescriptionOK(ss),
         ss2.lro = ss.lro, ss2.offsets = ss.offsets, ss2.out = ss.out, ss2.in = ss.in,
         ss2.total = ss.total, ss2.max_sites \in MaxSites \cup {1}
  PROVE  /\ DescriptionOK(ss2)
         /\ Laid(config, ss) => Laid(config, ss2)
<1>1. DescriptionOK(ss2)
  BY Described DEF DescriptionOK
<1>2. Laid(config, ss) => Laid(config, ss2)
  BY DEF Laid
<1>3. QED
  BY <1>1, <1>2

LEMMA OperationsExist ==
  ASSUME NEW lro \in Seq(Operations), lro # << >>, NEW S,
         NEW lookup \in [Operations -> S]
  PROVE  lookup # Unallocated
<1>1. 1 \in 1..Len(lro) /\ lro[1] \in Operations
  OBVIOUS
<1>2. DOMAIN lookup # {} /\ DOMAIN Unallocated = {}
  BY <1>1 DEF Unallocated
<1>3. QED
  BY <1>2

LEMMA SetsInit == Init => SetsInv
<1> SUFFICES ASSUME Init PROVE SetsInv
  OBVIOUS
<1>1. LayoutInv
  BY LayoutInit
<1>2. h = Constructed /\ d = Constructed /\ h_alphas = Empty /\ d_alphas = Empty
      /\ h_lookup = Unallocated /\ d_lookup = Unallocated /\ solved = FALSE /\ cleared = FALSE
      /\ config \in Configurations
  BY DEF Init
<1>3. /\ h.lro = << >> /\ h.max_sites = 1 /\ Len(h.lro) = 0
      /\ h.lro \in Seq(Operations) /\ MaxStored \in Nat
  BY <1>2, SolutionSetAssumption DEF Constructed
<1>4. DescriptionOK(h)
  <2>1. DescriptionInv(h) /\ Len(h.lro) <= MaxStored /\ h.max_sites \in MaxSites \cup {1}
    BY <1>1, <1>3 DEF LayoutInv
  <2>2. QED
    BY <1>3, <2>1, Described
<1>5. TypeOK
  BY <1>2, <1>3, <1>4 DEF TypeOK, LookupOK
<1>6. ListedInv
  BY <1>2, <1>3 DEF ListedInv, LookupExact, Unallocated
<1>7. QED
  BY <1>1, <1>2, <1>5, <1>6 DEF SetsInv, SolutionInv

LEMMA AddTargetsSets ==
  ASSUME SetsInv, LayoutInv', NEW request \in Requests, addTargets(request)
  PROVE  SetsInv'
<1> DEFINE new == h.lro \o NewOperations(request)
           lookup == Lookup(request, new)
<1>1. /\ h' = WithOperations(h, new) /\ Len(new) \in 0..MaxStored
      /\ h_lookup' = lookup
      /\ d_lookup' = IF LookupShared THEN lookup ELSE d_lookup
      /\ UNCHANGED <<config, d, h_alphas, d_alphas, solved, cleared>>
  BY DEF addTargets, WriteLookup, alphas, history
<1>2. /\ request \in Seq(Operations) /\ h.lro \in Seq(Operations) /\ MaxStored \in Nat
      /\ HasFields(h) /\ config \in Configurations
      /\ TypeOK /\ ListedInv /\ SolutionInv /\ DescriptionOK(h)
  BY SolutionSetAssumption DEF SetsInv, TypeOK, DescriptionOK, LayoutInv, DescriptionInv
<1>3. new \in Seq(Operations) /\ Len(new) \in Nat /\ Extends(new, h.lro)
  BY <1>2, Appended
<1>4. /\ h'.lro = new /\ Laid(config, h') /\ h'.max_sites = h.max_sites
      /\ h'.added = h.added
  BY <1>1, <1>2, TablesLaid
<1>5. /\ lookup \in [Operations -> -1..MaxStored-1]
      /\ \A op \in Operations : IF Stored(new, op) = {} THEN lookup[op] = -1
                                ELSE lookup[op] + 1 \in Stored(new, op)
      /\ \A start \in Seq(Operations) :
           Extends(h.lro, start) /\ Finds(h_lookup, start) /\ h_lookup # Unallocated
             => Finds(lookup, start)
  BY <1>1, <1>2, LookupFacts
<1> HIDE DEF new, lookup
<1>6. DescriptionOK(h')
  <2>1. DescriptionInv(h') /\ h'.max_sites \in MaxSites \cup {1}
    BY <1>2, <1>4 DEF LayoutInv, DescriptionOK
  <2>2. QED
    BY <1>1, <1>2, <1>3, <1>4, <2>1, Described
<1>7. Len(h'.lro) = Cardinality(DOMAIN h'.offsets)
  BY <1>2, <1>3, <1>4, LaidFacts
<1>8. LookupOK(h_lookup') /\ LookupOK(d_lookup')
  BY <1>1, <1>2, <1>5 DEF LookupOK, TypeOK
<1>9. TypeOK'
  BY <1>1, <1>2, <1>6, <1>7, <1>8 DEF TypeOK
<1>10. \A lro \in Seq(Operations) : lro # << >> => lookup # Unallocated
  BY <1>5, OperationsExist
<1>11. DOMAIN lookup = Operations
  BY <1>5
<1>12. ListedInv'
  BY <1>1, <1>3, <1>4, <1>5, <1>10, <1>11 DEF ListedInv, LookupExact
<1>13. SolutionInv'
  <2> SUFFICES ASSUME solved PROVE SolutionInv'
    BY <1>1 DEF SolutionInv
  <2>1. /\ d_alphas = d /\ h_alphas \in {Empty, d}
        /\ d.lro # << >> /\ Laid(config, d) /\ d.counts \in Lists /\ h.added = d.added
        /\ config.manifold => \A i \in 1..Len(d.lro) : OutputRank[d.lro[i]] < 2
        /\ h_lookup # Unallocated
        /\ IF config.shared THEN d_lookup = h_lookup ELSE Finds(d_lookup, d.lro)
        /\ ~ cleared => Extends(h.lro, d.lro) /\ Finds(h_lookup, d.lro)
    BY <1>2 DEF SolutionInv
  <2>2. d.lro \in Seq(Operations)
    BY <1>2 DEF TypeOK, DescriptionOK
  <2>3. lookup # Unallocated
    BY <1>10, <2>1, <2>2
  <2>4. IF config.shared THEN d_lookup' = lookup ELSE d_lookup' = d_lookup
    BY <1>1, <2>1 DEF LookupShared
  <2>5. ASSUME ~ cleared PROVE Extends(new, d.lro) /\ Finds(lookup, d.lro)
    <3>1. Extends(h.lro, d.lro) /\ Finds(h_lookup, d.lro)
      BY <2>1, <2>5
    <3>2. Finds(lookup, d.lro)
      BY <1>5, <2>1, <2>2, <3>1
    <3>3. Len(d.lro) \in Nat /\ Len(h.lro) \in Nat
      BY <1>2, <2>2
    <3>4. Extends(new, d.lro)
      BY <1>3, <3>1, <3>3 DEF Extends
    <3>5. QED
      BY <3>2, <3>4
  <2>6. QED
    BY <1>1, <1>4, <2>1, <2>3, <2>4, <2>5 DEF SolutionInv
<1>14. QED
  BY <1>9, <1>12, <1>13 DEF SetsInv

LEMMA ClearTargetsSets ==
  ASSUME SetsInv, LayoutInv', clearTargets
  PROVE  SetsInv'
<1>1. /\ h' = [h EXCEPT !.lro = << >>]
      /\ h_lookup' = Forgotten
      /\ d_lookup' = IF LookupShared THEN Forgotten ELSE d_lookup
      /\ cleared' = TRUE
      /\ UNCHANGED <<config, d, h_alphas, d_alphas, solved>>
  BY DEF clearTargets, WriteLookup, alphas
<1>2. /\ MaxStored \in Nat /\ HasFields(h) /\ config \in Configurations
      /\ TypeOK /\ ListedInv /\ SolutionInv /\ DescriptionOK(h)
  BY SolutionSetAssumption DEF SetsInv, TypeOK, DescriptionOK, LayoutInv, DescriptionInv
<1>3. /\ h'.lro = << >> /\ h'.max_sites = h.max_sites /\ h'.added = h.added
  BY <1>1, <1>2 DEF HasFields
<1>4. h'.lro \in Seq(Operations) /\ Len(h'.lro) = 0
  BY <1>3
<1>5. DescriptionOK(h')
  <2>1. /\ DescriptionInv(h') /\ Len(h'.lro) <= MaxStored
        /\ h'.max_sites \in MaxSites \cup {1}
    BY <1>2, <1>3, <1>4 DEF LayoutInv, DescriptionOK
  <2>2. QED
    BY <1>4, <2>1, Described
<1>6. Forgotten \in [Operations -> -1..MaxStored-1] /\ DOMAIN Forgotten = Operations
      /\ \A op \in Operations : Forgotten[op] = -1
  BY <1>2 DEF Forgotten
<1>7. LookupOK(h_lookup') /\ LookupOK(d_lookup')
  BY <1>1, <1>2, <1>6 DEF LookupOK, TypeOK
<1>8. TypeOK'
  BY <1>1, <1>2, <1>4, <1>5, <1>7 DEF TypeOK
<1>9. \A op : Stored(h'.lro, op) = {}
  BY <1>4 DEF Stored
<1>10. ListedInv'
  BY <1>1, <1>3, <1>6, <1>9 DEF ListedInv, LookupExact
<1>11. SolutionInv'
  <2> SUFFICES ASSUME solved PROVE SolutionInv'
    BY <1>1 DEF SolutionInv
  <2>1. d.lro \in Seq(Operations) /\ d.lro # << >>
    BY <1>2 DEF TypeOK, DescriptionOK, SolutionInv
  <2>2. Forgotten # Unallocated
    BY <1>6, <2>1, OperationsExist
  <2>3. IF config.shared THEN d_lookup' = Forgotten ELSE d_lookup' = d_lookup
    BY <1>1, <1>2 DEF LookupShared, SolutionInv
  <2>4. QED
    BY <1>1, <1>2, <1>3, <2>2, <2>3 DEF SolutionInv
<1>12. QED
  BY <1>8, <1>10, <1>11 DEF SetsInv

(* The setters of GMLS.                                                    *)
LEMMA SetterSets ==
  ASSUME SetsInv, LayoutInv', h'.lro = h.lro, h'.offsets = h.offsets, h'.out = h.out,
         h'.in = h.in, h'.total = h.total, h'.added = h.added,
         h'.max_sites \in MaxSites \cup {1},
         UNCHANGED <<config, d, h_lookup, d_lookup, alphas, history>>
  PROVE  SetsInv'
<1>1. UNCHANGED <<config, d, h_lookup, d_lookup, h_alphas, d_alphas, solved, cleared>>
  BY DEF alphas, history
<1>2. TypeOK /\ ListedInv /\ SolutionInv /\ DescriptionOK(h)
  BY DEF SetsInv, TypeOK
<1>3. DescriptionOK(h') /\ (Laid(config, h) => Laid(config, h'))
  BY <1>2, ListKept DEF LayoutInv
<1>4. TypeOK'
  BY <1>1, <1>2, <1>3 DEF TypeOK
<1>5. ListedInv'
  BY <1>1, <1>2, <1>3 DEF ListedInv, LookupExact
<1>6. SolutionInv'
  BY <1>1, <1>2 DEF SolutionInv
<1>7. QED
  BY <1>4, <1>5, <1>6 DEF SetsInv

(* The record that _d_ss becomes when the added alphas are counted.        *)
LEMMA AddedFacts ==
  ASSUME SetsInv
  PROVE  /\ WithAdded.lro = h.lro /\ WithAdded.offsets = h.offsets /\ WithAdded.out = h.out
         /\ WithAdded.in = h.in /\ WithAdded.total = h.total
         /\ WithAdded.counts = h.counts /\ WithAdded.max_sites = h.max_sites
         /\ DescriptionInv(WithAdded) /\ DescriptionOK(WithAdded)
         /\ Laid(config, h) => Laid(config, WithAdded)
<1>1. /\ config.added \in Nat /\ DescriptionInv(h) /\ DescriptionOK(h)
  BY SolutionSetAssumption DEF SetsInv, LayoutInv, TypeOK
<1>2. WithAdded = [h EXCEPT !.added = config.added]
  BY DEF WithAdded
<1> HIDE DEF WithAdded
<1>3. /\ HasFields(WithAdded) /\ WithAdded.added = config.added
      /\ WithAdded.lro = h.lro /\ WithAdded.offsets = h.offsets /\ WithAdded.out = h.out
      /\ WithAdded.in = h.in /\ WithAdded.total = h.total
      /\ WithAdded.counts = h.counts /\ WithAdded.max_sites = h.max_sites
  BY <1>1, <1>2 DEF DescriptionInv, HasFields
<1>4. DescriptionInv(WithAdded)
  BY <1>1, <1>3, TilesKept DEF DescriptionInv
<1>5. DescriptionOK(WithAdded) /\ (Laid(config, h) => Laid(config, WithAdded))
  BY <1>1, <1>3, <1>4, ListKept DEF DescriptionOK
<1>6. QED
  BY <1>3, <1>4, <1>5

LEMMA FailedSets ==
  ASSUME SetsInv, LayoutInv', Refused \/ OutOfMemory
  PROVE  SetsInv'
<1>1. /\ d' \in {h, WithAdded} /\ d_lookup' = h_lookup
      /\ d_alphas' \in {h_alphas, Empty, WithAdded} /\ solved' = FALSE
      /\ UNCHANGED <<config, h, h_lookup, h_alphas, cleared>>
  BY DEF Refused, OutOfMemory, CopiedAlphas
<1>2. TypeOK /\ ListedInv /\ DescriptionOK(h) /\ DescriptionOK(WithAdded)
  BY AddedFacts DEF SetsInv, TypeOK
<1>3. TypeOK'
  BY <1>1, <1>2 DEF TypeOK
<1>4. ListedInv' /\ SolutionInv'
  BY <1>1, <1>2 DEF ListedInv, LookupExact, SolutionInv
<1>5. QED
  BY <1>3, <1>4 DEF SetsInv

LEMMA GenerateSets ==
  ASSUME SetsInv, LayoutInv', Generate
  PROVE  SetsInv'
<1>1. /\ h.lro # << >> /\ h.counts # NoTargets
      /\ config.manifold => \A i \in 1..Len(h.lro) : OutputRank[h.lro[i]] < 2
      /\ d' = WithAdded /\ h' = WithAdded /\ d_alphas' = WithAdded
      /\ h_alphas' \in {Empty, WithAdded}
      /\ d_lookup' = h_lookup /\ solved' = TRUE /\ cleared' = FALSE
      /\ UNCHANGED <<config, h_lookup>>
  BY DEF Generate, CopiedAlphas
<1>2. TypeOK /\ ListedInv /\ DescriptionOK(h)
  BY DEF SetsInv, TypeOK
<1>3. /\ WithAdded.lro = h.lro /\ WithAdded.offsets = h.offsets
      /\ WithAdded.counts = h.counts
      /\ DescriptionOK(WithAdded) /\ Laid(config, WithAdded)
  BY <1>1, <1>2, AddedFacts DEF ListedInv
<1> HIDE DEF WithAdded
<1>4. TypeOK'
  BY <1>1, <1>2, <1>3 DEF TypeOK
<1>5. ListedInv'
  BY <1>1, <1>2, <1>3 DEF ListedInv, LookupExact
<1>6. h_lookup # Unallocated /\ h.counts \in Lists /\ h.lro \in Seq(Operations)
  BY <1>1, <1>2 DEF ListedInv, DescriptionOK
<1>7. Finds(h_lookup, h.lro)
  <2> SUFFICES ASSUME NEW i \in 1..Len(h.lro)
               PROVE  h_lookup[h.lro[i]] + 1 \in Stored(h.lro, h.lro[i])
    BY DEF Finds
  <2>1. h.lro[i] \in Operations /\ DOMAIN h_lookup = Operations
    BY <1>2, <1>6 DEF TypeOK, LookupOK
  <2>2. i \in Stored(h.lro, h.lro[i])
    BY DEF Stored
  <2>3. QED
    BY <1>2, <2>1, <2>2 DEF ListedInv, LookupExact
<1>8. Extends(h.lro, h.lro)
  <2>1. Len(h.lro) \in Nat
    BY <1>6
  <2>2. QED
    BY <2>1 DEF Extends
<1>9. SolutionInv'
  BY <1>1, <1>3, <1>6, <1>7, <1>8 DEF SolutionInv
<1>10. QED
  BY <1>4, <1>5, <1>9 DEF SetsInv

LEMMA SetsStep == SetsInv /\ [Next]_vars => SetsInv'
<1> SUFFICES ASSUME SetsInv, [Next]_vars PROVE SetsInv'
  OBVIOUS
<1>0. LayoutInv /\ LayoutInv'
  BY LayoutStep DEF SetsInv
<1>1. ASSUME NEW request \in Requests, addTargets(request) PROVE SetsInv'
  BY <1>0, <1>1, AddTargetsSets
<1>2. ASSUME clearTargets PROVE SetsInv'
  BY <1>0, <1>2, ClearTargetsSets
<1>3. HasFields(h) /\ h.max_sites \in MaxSites \cup {1}
  BY DEF SetsInv, LayoutInv, DescriptionInv, TypeOK, DescriptionOK
<1>4. ASSUME NEW counts \in Lists, setNeighborLists(counts) PROVE SetsInv'
  <2>1. /\ h'.lro = h.lro /\ h'.offsets = h.offsets /\ h'.out = h.out /\ h'.in = h.in
        /\ h'.total = h.total /\ h'.added = h.added /\ h'.max_sites = h.max_sites
        /\ UNCHANGED <<config, d, h_lookup, d_lookup, alphas, history>>
    BY <1>3, <1>4 DEF setNeighborLists, HasFields
  <2>2. QED
    BY <1>0, <1>3, <2>1, SetterSets
<1>5. ASSUME NEW max_sites \in MaxSites, setAuxiliaryEvaluationIndicesLists(max_sites)
      PROVE  SetsInv'
  <2>1. /\ h'.lro = h.lro /\ h'.offsets = h.offsets /\ h'.out = h.out /\ h'.in = h.in
        /\ h'.total = h.total /\ h'.added = h.added /\ h'.max_sites = max_sites
        /\ UNCHANGED <<config, d, h_lookup, d_lookup, alphas, history>>
    BY <1>3, <1>5 DEF setAuxiliaryEvaluationIndicesLists, HasFields
  <2>2. QED
    BY <1>0, <2>1, SetterSets
<1>6. ASSUME Refused \/ OutOfMemory PROVE SetsInv'
  BY <1>0, <1>6, FailedSets
<1>7. ASSUME Generate PROVE SetsInv'
  BY <1>0, <1>7, GenerateSets
<1>8. ASSUME getSolutionSetHost PROVE SetsInv'
  <2>1. /\ h_alphas' = d_alphas
        /\ UNCHANGED <<config, h, d, h_lookup, d_lookup, d_alphas, solved, cleared>>
    BY <1>8 DEF getSolutionSetHost, history
  <2>2. QED
    BY <1>0, <2>1 DEF SetsInv, TypeOK, ListedInv, LookupExact, SolutionInv
<1>9. ASSUME UNCHANGED vars PROVE SetsInv'
  <2>1. UNCHANGED <<config, h, d, h_lookup, d_lookup, h_alphas, d_alphas, solved, cleared>>
    BY <1>9 DEF vars
  <2>2. QED
    BY <1>0, <2>1 DEF SetsInv, TypeOK, ListedInv, LookupExact, SolutionInv
<1>10. QED
  BY <1>1, <1>2, <1>4, <1>5, <1>6, <1>7, <1>8, <1>9 DEF Next

THEOREM SetsAlwaysInv == Spec => []SetsInv
  BY SetsInit, SetsStep, PTL DEF Spec


-----------------------------------------------------------------------------
(* What is read by way of lookup, row and place.                           *)

(* The axes that a caller names lead to the component they are made from.  *)
LEMMA OutputIndex ==
  ASSUME config \in Configurations, NEW op \in Operations,
         config.manifold => OutputRank[op] < 2,
         NEW output \in 0..Dimension(config, OutputRank[op])-1
  PROVE  getTargetOutputIndex(op, Axes(op, output)) = output
<1>1. config.local \in 1..3 /\ OutputRank[op] \in 0..2 /\ config.manifold \in BOOLEAN
  BY SolutionSetAssumption
<1>2. output \in Int
  BY <1>1 DEF Dimension
<1>3. CASE OutputRank[op] \in 0..1
  BY <1>1, <1>2, <1>3 DEF getTargetOutputIndex, Axes
<1>4. CASE OutputRank[op] = 2
  <2>1. ~ config.manifold /\ Dimensions = config.local
    BY <1>1, <1>4 DEF Dimensions
  <2>2. getTargetOutputIndex(op, Axes(op, output)) =
          config.local * (output \div config.local) + (output % config.local)
    BY <1>4, <2>1 DEF getTargetOutputIndex, Axes
  <2>3. config.local = 1 \/ config.local = 2 \/ config.local = 3
    BY <1>1
  <2>4. QED
    BY <1>2, <2>2, <2>3
<1>5. QED
  BY <1>1, <1>3, <1>4

(* The row is taken from a list that begins with the operations of a, by a *)
(* lookup that finds them, and the place from something of a's size.       *)
LEMMA ReadsOwn ==
  ASSUME config \in Configurations, NEW a, DescriptionInv(a), Laid(config, a),
         a.lro \in Seq(Operations),
         config.manifold => \A i \in 1..Len(a.lro) : OutputRank[a.lro[i]] < 2,
         NEW by_row, Laid(config, by_row), by_row.lro \in Seq(Operations),
         Extends(by_row.lro, a.lro),
         NEW by_place, SameLayout(by_place, a), by_place.added = a.added,
         NEW lookup, Finds(lookup, a.lro), \A op \in Operations : lookup[op] \in Int,
         NEW s \in Slots(a, n), s.site = 0 \/ by_row.total = a.total
  PROVE  Reads(by_row, by_place, lookup, a, s)
<1> DEFINE op == a.lro[s.lro + 1]
           i == lookup[op] + 1
           output == getTargetOutputIndex(op, Axes(op, s.output))
           row == getTargetOffsetIndex(by_row, lookup[op], s.input, output, s.site)
           place == getAlphaIndex(by_place, n, s.t, row) + s.column
           u == [s EXCEPT !.lro = i - 1]
<1>1. PICK t \in 0..n-1, j \in DOMAIN a.offsets : s \in SlotsOf(a, t, j)
  BY DEF Slots
<1>2. DOMAIN a.offsets = 0..Len(a.lro)-1 /\ a.total \in Nat /\ Len(a.lro) \in Nat
  BY LaidFacts
<1>3. by_row.total \in Nat
  BY LaidFacts
<1>4. /\ s.t = t /\ s.lro = j /\ s.input \in 0..a.in[j]-1 /\ s.output \in 0..a.out[j]-1
      /\ s.site \in 0..a.max_sites-1 /\ s.column \in 0..AlphasPerTile(a, t)-1
      /\ s = [t |-> s.t, lro |-> s.lro, input |-> s.input, output |-> s.output,
              site |-> s.site, column |-> s.column]
  BY <1>1 DEF SlotsOf
<1>5. j \in 0..Len(a.lro)-1 /\ j + 1 \in 1..Len(a.lro) /\ op = a.lro[j+1]
  BY <1>1, <1>2, <1>4
<1>6. op \in Operations
  BY <1>5
<1>7. i \in Stored(a.lro, op) /\ lookup[op] \in Int
  BY <1>5, <1>6 DEF Finds
<1>8. i \in 1..Len(a.lro) /\ lookup[op] = i - 1 /\ i - 1 \in 0..Len(a.lro)-1
  BY <1>2, <1>7 DEF Stored
<1>9. output = s.output
  <2>1. a.out[j] = Dimension(config, OutputRank[op])
    BY <1>5 DEF Laid, OutOf
  <2>2. config.manifold => OutputRank[op] < 2
    BY <1>5
  <2>3. s.output \in 0..Dimension(config, OutputRank[op])-1
    BY <1>4, <2>1
  <2> HIDE DEF op
  <2>4. QED
    BY <1>6, <2>2, <2>3, OutputIndex
<1>10. by_row.offsets[i-1] = a.offsets[i-1] /\ by_row.out[i-1] = a.out[i-1]
  <2> HIDE DEF i
  <2>1. QED
    BY <1>8, TablesAgree
<1>11. by_row.total * s.site = a.total * s.site
  BY <1>2, <1>3
<1> HIDE DEF op, i, output
<1>12. row = getTargetOffsetIndex(a, i - 1, s.input, s.output, s.site)
  BY <1>8, <1>9, <1>10, <1>11 DEF getTargetOffsetIndex
<1> HIDE DEF row
<1>13. getAlphaIndex(by_place, n, s.t, row) = getAlphaIndex(a, n, s.t, row)
  BY DEF getAlphaIndex, SameLayout, ColumnsBefore, AlphasPerTile
<1>14. /\ u.t = s.t /\ u.lro = i - 1 /\ u.input = s.input /\ u.output = s.output
       /\ u.site = s.site /\ u.column = s.column
  BY <1>4
<1> HIDE DEF u
<1>15. Place(a, n, u) = getAlphaIndex(a, n, s.t, row) + s.column
  BY <1>12, <1>14 DEF Place
<1>16. place = Place(a, n, u)
  BY <1>13, <1>15
<1>17. \E m \in Stored(a.lro, op) : place = Place(a, n, [s EXCEPT !.lro = m - 1])
  BY <1>7, <1>16 DEF u
<1>18. QED
  BY <1>17 DEF Reads, op, output, row

(* What every read after a solution, with nothing cleared, can rely on.    *)
LEMMA SolvedFacts ==
  ASSUME SetsInv, solved, ~ cleared
  PROVE  /\ config \in Configurations
         /\ d_alphas = d /\ h_alphas \in {Empty, d} /\ d # Empty /\ h.added = d.added
         /\ DescriptionInv(d) /\ Laid(config, d) /\ d.lro \in Seq(Operations)
         /\ config.manifold => \A i \in 1..Len(d.lro) : OutputRank[d.lro[i]] < 2
         /\ Laid(config, h) /\ h.lro \in Seq(Operations) /\ Extends(h.lro, d.lro)
         /\ Finds(h_lookup, d.lro) /\ \A op \in Operations : h_lookup[op] \in Int
<1>1. TypeOK /\ ListedInv /\ SolutionInv /\ LayoutInv
  BY DEF SetsInv
<1>2. /\ d_alphas = d /\ h_alphas \in {Empty, d}
      /\ d.lro # << >> /\ Laid(config, d) /\ h.added = d.added
      /\ config.manifold => \A i \in 1..Len(d.lro) : OutputRank[d.lro[i]] < 2
      /\ h_lookup # Unallocated
      /\ Extends(h.lro, d.lro) /\ Finds(h_lookup, d.lro)
  BY <1>1 DEF SolutionInv
<1>3. d.lro \in Seq(Operations) /\ h.lro \in Seq(Operations) /\ MaxStored \in Nat
  BY <1>1, SolutionSetAssumption DEF TypeOK, DescriptionOK
<1>4. h.lro # << >>
  <2>1. Len(d.lro) \in Nat /\ Len(d.lro) # 0 /\ Len(h.lro) \in Nat
    BY <1>2, <1>3
  <2>2. QED
    BY <1>2, <1>3, <2>1 DEF Extends
<1>5. d # Empty
  BY <1>2 DEF Empty
<1>6. DescriptionInv(d)
  BY <1>1, <1>2, <1>5 DEF LayoutInv, AlphasInv
<1>7. h_lookup \in [Operations -> -1..MaxStored-1]
  BY <1>1, <1>2 DEF TypeOK, LookupOK
<1>8. \A op \in Operations : h_lookup[op] \in Int
  BY <1>3, <1>7
<1>9. Laid(config, h) /\ config \in Configurations
  BY <1>1, <1>4 DEF ListedInv, TypeOK
<1>10. QED
  BY <1>2, <1>3, <1>5, <1>6, <1>8, <1>9

(* Every variable keeps a value of its type; what is listed has its tables.*)
THEOREM SetsTypeCorrect == Spec => []TypeOK
<1>1. SetsInv => TypeOK
  BY DEF SetsInv
<1>2. QED
  BY <1>1, SetsAlwaysInv, PTL

(* addTargets and clearTargets keep the host's lookup exact.               *)
THEOREM LookupAlwaysExact == Spec => []LookupExact
<1>1. SetsInv => LookupExact
  BY DEF SetsInv, ListedInv
<1>2. QED
  BY <1>1, SetsAlwaysInv, PTL

(* getSolutionSetHost()->getAlpha returns the alpha it is asked for.       *)
THEOREM HostAlwaysReadsOwn == Spec => []HostReadsOwn
<1>1. SetsInv => HostReadsOwn
  <2> SUFFICES ASSUME SetsInv, solved, ~ cleared, SameLayout(h, d_alphas)
               PROVE  /\ HostAlphas = d_alphas
                      /\ \A s \in Slots(HostAlphas, n) : Reads(h, h, h_lookup, HostAlphas, s)
    BY DEF HostReadsOwn
  <2>1. d_alphas = d /\ HostAlphas = d_alphas
    BY SolvedFacts DEF HostAlphas
  <2>2. SameLayout(h, d) /\ h.total = d.total
    BY <2>1 DEF SameLayout
  <2>3. ASSUME NEW s \in Slots(d, n) PROVE Reads(h, h, h_lookup, d, s)
    BY <2>2, SolvedFacts, ReadsOwn
  <2>4. QED
    BY <2>1, <2>3
<1>2. QED
  BY <1>1, SetsAlwaysInv, PTL

(* The Evaluator takes the row from the host, the place from the device.   *)
THEOREM EvaluatorAlwaysReadsOwn == Spec => []EvaluatorReadsOwn
<1>1. SetsInv => EvaluatorReadsOwn
  <2> SUFFICES ASSUME SetsInv, solved, ~ cleared, NEW s \in Slots(d_alphas, n),
                      s.site = 0 \/ h.total = d.total
               PROVE  Reads(h, d, h_lookup, d_alphas, s)
    BY DEF EvaluatorReadsOwn
  <2>1. d_alphas = d /\ SameLayout(d, d)
    BY SolvedFacts DEF SameLayout
  <2>2. Reads(h, d, h_lookup, d, s)
    BY <2>1, SolvedFacts, ReadsOwn
  <2>3. QED
    BY <2>1, <2>2
<1>2. QED
  BY <1>1, SetsAlwaysInv, PTL

(* The device's lookup finds every operation of the solution.              *)
THEOREM DeviceAlwaysFinds == Spec => []DeviceFindsItsOperations
<1>1. SetsInv => DeviceFindsItsOperations
  <2> SUFFICES ASSUME SetsInv, solved, ~ config.shared \/ ~ cleared,
                      NEW i \in 1..Len(d.lro)
               PROVE  d_lookup[d.lro[i]] + 1 \in Stored(d.lro, d.lro[i])
    BY DEF DeviceFindsItsOperations
  <2>1. Finds(d_lookup, d.lro)
    BY DEF SetsInv, SolutionInv
  <2>2. QED
    BY <2>1 DEF Finds
<1>2. QED
  BY <1>1, SetsAlwaysInv, PTL

(* The rows for the gradient of a manifold's geometry are within a site.   *)
THEOREM ManifoldRowsAlwaysFit == Spec => []ManifoldRowsFit
<1>1. SetsInv => ManifoldRowsFit
  <2> SUFFICES ASSUME SetsInv, solved, config.manifold, NEW k \in 0..config.local-1
               PROVE  getTargetOffsetIndex(d, 0, 0, k, 0) \in 0..d.total-1
    BY DEF ManifoldRowsFit
  <2>1. /\ config \in Configurations /\ Laid(config, d) /\ d.lro # << >>
        /\ d.lro \in Seq(Operations)
    BY DEF SetsInv, SolutionInv, TypeOK, DescriptionOK
  <2>2. d.offsets[0] = 0 /\ d.total \in Nat /\ config.local <= d.total
    BY <2>1, LaidFacts
  <2>3. config.local \in 1..3 /\ d.out[0] \in Nat
    <3>1. 0 \in 0..Len(d.lro)-1
      BY <2>1
    <3>2. config.local \in 1..3 /\ OutOf(config, d.lro) \in [0..Len(d.lro)-1 -> Nat]
      BY <2>1, ComponentsType
    <3>3. d.out = OutOf(config, d.lro)
      BY <2>1 DEF Laid
    <3>4. QED
      BY <3>1, <3>2, <3>3
  <2>4. getTargetOffsetIndex(d, 0, 0, k, 0) = k
    BY <2>2, <2>3 DEF getTargetOffsetIndex
  <2>5. QED
    BY <2>2, <2>3, <2>4
<1>2. QED
  BY <1>1, SetsAlwaysInv, PTL

=============================================================================
