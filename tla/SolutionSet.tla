---------------------------- MODULE SolutionSet ----------------------------
(***************************************************************************)
(* The two SolutionSet objects of a GMLS object, h on the host and d on    *)
(* the device: the operations they list, where each of them keeps its      *)
(* alphas, and what is read from them by getAlpha and by the Evaluator     *)
(* while the user goes on to add and clear operations, to set other        *)
(* neighbour lists or evaluation sites and to solve again.                 *)
(*                                                                         *)
(* The alphas are not numbers here but the description of the solution     *)
(* set that the kernels wrote them by, which says whose alpha is at each   *)
(* place (AlphaLayout).  When host and device memory are one, the types    *)
(* of h and d are one too and assigning one to the other shares their      *)
(* views: the alphas and, because addTargets and clearTargets write into   *)
(* it instead of replacing it, the lookup of the operations.               *)
(***************************************************************************)
EXTENDS AlphaLayout, Sequences, FiniteSets

CONSTANTS
  Operations,      \* TargetOperation values
  OutputRank,      \* getTargetOutputTensorRank: rank of each operation
  Configurations,  \* constructor choices: records of shared, manifold, local
                   \* (dimensions), sampling_rank and added (alphas)
  Requests,        \* vectors that addTargets is called with
  n,               \* number of targets
  Lists,           \* numbers of neighbours of the targets
  MaxSites,        \* evaluation sites of a target, itself included
  MaxStored        \* bound on the operations stored by one solution set

ASSUME SolutionSetAssumption ==
  /\ n \in Nat \ {0}
  /\ MaxStored \in Nat
  /\ OutputRank \in [Operations -> 0..2]
  /\ Requests \subseteq Seq(Operations)
  /\ Lists \subseteq [0..n-1 -> Nat]
  /\ MaxSites \subseteq Nat \ {0}
  /\ Configurations \subseteq [shared : BOOLEAN, manifold : BOOLEAN, local : 1..3,
                               sampling_rank : 0..1, added : Nat]

VARIABLES
  config,          \* what the GMLS object was constructed with
  h, d,            \* _h_ss and _d_ss: all but the lookups and the alphas
  h_lookup,        \* _lro_lookup of each
  d_lookup,
  h_alphas,        \* _alphas of each: the description they were written by
  d_alphas,
  solved,          \* the last call of generatePolynomialCoefficients returned
  cleared          \* history: clearTargets was called since it last returned

alphas == <<h_alphas, d_alphas>>
vars == <<config, h, d, h_lookup, d_lookup, h_alphas, d_alphas, solved,
          cleared>>
history == <<solved, cleared>>

Empty == [lro |-> << >>]
Unallocated == [op \in {} |-> -1]
NoTargets == [t \in {} |-> 0]
NoOperations == [i \in {} |-> 0]

Constructed ==
  [lro |-> << >>, offsets |-> NoOperations, out |-> NoOperations, in |-> NoOperations,
   total |-> 0, counts |-> NoTargets, max_sites |-> 1, added |-> 0]

Init ==
  /\ config \in Configurations
  /\ h = Constructed
  /\ d = Constructed
  /\ h_lookup = Unallocated
  /\ d_lookup = Unallocated
  /\ h_alphas = Empty
  /\ d_alphas = Empty
  /\ solved = FALSE
  /\ cleared = FALSE

-----------------------------------------------------------------------------
(* addTargets and clearTargets                                             *)

(* The dimension of a tensor of a rank in local coordinates.               *)
Components(rank) ==
  IF rank = 0 THEN 1 ELSE IF rank = 1 THEN config.local ELSE config.local * config.local

getOutputDimensionOfOperation(lro) == Components(OutputRank[lro])
getOutputDimensionOfSampling == Components(config.sampling_rank)

(* Mutated form of AtLeastGradient: manifolds get no row for the gradient. *)
JustRows(rows) == rows

(* On a manifold there are rows for the gradient of its geometry.          *)
AtLeastGradient(rows) ==
  IF config.manifold /\ rows < config.local THEN config.local ELSE rows

(* The rest of the description follows from the list of operations.        *)
WithOperations(ss, lro) ==
  LET k    == Len(lro)
      out  == [i \in 0..k-1 |-> getOutputDimensionOfOperation(lro[i+1])]
      tile == [i \in 0..k-1 |-> getOutputDimensionOfSampling * out[i]]
  IN  [ss EXCEPT !.lro = lro, !.out = out,
                 !.in = [i \in 0..k-1 |-> getOutputDimensionOfSampling],
                 !.offsets = RowOffsets(tile, k),
                 !.total = AtLeastGradient(PrefixSum(tile, k)[k])]

Stored(lro, op) == {i \in 1..Len(lro) : lro[i] = op}
First(lro, op) == CHOOSE i \in Stored(lro, op) : \A j \in Stored(lro, op) : i <= j
Last(lro, op) == CHOOSE i \in Stored(lro, op) : \A j \in Stored(lro, op) : j <= i

(* What the vector asks for that was not stored before the call; what it   *)
(* asks for twice is stored twice.                                         *)
NewOperations(request) ==
  LET unique[i \in 0..Len(request)] ==
        IF i = 0 THEN << >>
        ELSE IF Stored(h.lro, request[i]) = {} THEN Append(unique[i-1], request[i])
        ELSE unique[i-1]
  IN  unique[Len(request)]

(* Mutated form of Lookup: the place of a new operation counts from 1.     *)
LookupFromOne(request, lro) ==
  [op \in Operations |->
     IF Stored(lro, op) # {} THEN Last(lro, op)
     ELSE IF h_lookup = Unallocated THEN -1 ELSE h_lookup[op]]

(* Mutated form of Lookup: whatever is requested is taken for the newest.  *)
LookupNewest(request, lro) ==
  [op \in Operations |->
     IF Stored(request, op) # {} THEN Len(lro) - 1
     ELSE IF h_lookup = Unallocated THEN -1 ELSE h_lookup[op]]

(* An operation stored before the call is found at its first place, a new  *)
(* one at its last; a lookup counts from 0.                                *)
Lookup(request, lro) ==
  [op \in Operations |->
     IF Stored(request, op) # {}
     THEN IF Stored(h.lro, op) # {} THEN First(h.lro, op) - 1 ELSE Last(lro, op) - 1
     ELSE IF h_lookup = Unallocated THEN -1 ELSE h_lookup[op]]

(* Mutated form of LookupShared: the converting constructor shares as well. *)
AlwaysShared == d_lookup # Unallocated

(* Once d was copied from h and h from d, they have one lookup if they can. *)
LookupShared == config.shared /\ d_lookup # Unallocated

WriteLookup(lookup) ==
  /\ h_lookup' = lookup
  /\ d_lookup' = IF LookupShared THEN lookup ELSE d_lookup

addTargets(request) ==
  LET lro == h.lro \o NewOperations(request)
  IN  /\ Len(lro) \in 0..MaxStored
      /\ h' = WithOperations(h, lro)
      /\ WriteLookup(Lookup(request, lro))
      /\ UNCHANGED <<config, d, alphas, history>>

(* Mutated form of Forgotten: the lookup is left as it is.                 *)
Remembered == h_lookup

Forgotten == [op \in Operations |-> -1]

(* Offsets, tile sizes and total stay, until operations are added.         *)
clearTargets ==
  /\ h_lookup # Unallocated
  /\ h' = [h EXCEPT !.lro = << >>]
  /\ WriteLookup(Forgotten)
  /\ cleared' = TRUE
  /\ UNCHANGED <<config, d, alphas, solved>>

-----------------------------------------------------------------------------
(* Setters of GMLS that write to _h_ss                                     *)

setNeighborLists(counts) ==
  /\ h' = [h EXCEPT !.counts = counts]
  /\ UNCHANGED <<config, d, h_lookup, d_lookup, alphas, history>>

setAuxiliaryEvaluationIndicesLists(max_sites) ==
  /\ h' = [h EXCEPT !.max_sites = max_sites]
  /\ UNCHANGED <<config, d, h_lookup, d_lookup, alphas, history>>

-----------------------------------------------------------------------------
(* generatePolynomialCoefficients, as far as it concerns the solution sets *)

(* Mutated form of CopiedAlphas: the object assigned to keeps its alphas.  *)
KeptAlphas(from, to) == IF config.shared THEN from ELSE to

(* The alphas of the object assigned to: the converting constructor leaves *)
(* them out, the implicit copy constructor shares them.                    *)
CopiedAlphas(from, to) == IF config.shared THEN from ELSE Empty

(* _d_ss is assigned _h_ss.  For want of operations, lists or sources, or  *)
(* for a solver that cannot do the constraint, that is all.                *)
Refused ==
  /\ d' = h
  /\ d_lookup' = h_lookup
  /\ d_alphas' = CopiedAlphas(h_alphas, d_alphas)
  /\ solved' = FALSE
  /\ UNCHANGED <<config, h, h_lookup, h_alphas, cleared>>

WithAdded == [h EXCEPT !.added = config.added]

(* There is no memory for the alphas, or none for the matrices after them. *)
OutOfMemory ==
  /\ h.lro # << >>
  /\ h.counts # NoTargets
  /\ d' = WithAdded
  /\ d_lookup' = h_lookup
  /\ d_alphas' \in {CopiedAlphas(h_alphas, d_alphas), WithAdded}
  /\ solved' = FALSE
  /\ UNCHANGED <<config, h, h_lookup, h_alphas, cleared>>

(* The kernels write the alphas of _d_ss, which is then assigned to _h_ss. *)
(* Those for manifolds end the process if an operation has rank 2.         *)
Generate ==
  /\ h.lro # << >>
  /\ config.manifold => \A i \in 1..Len(h.lro) : OutputRank[h.lro[i]] < 2
  /\ h.counts # NoTargets
  /\ d' = WithAdded
  /\ d_lookup' = h_lookup
  /\ d_alphas' = WithAdded
  /\ h' = WithAdded
  /\ h_alphas' = CopiedAlphas(WithAdded, h_alphas)
  /\ solved' = TRUE
  /\ cleared' = FALSE
  /\ UNCHANGED <<config, h_lookup>>

(* getSolutionSetHost copies the alphas if the host has none.              *)
getSolutionSetHost ==
  /\ h_alphas = Empty
  /\ d_alphas # Empty
  /\ h_alphas' = d_alphas
  /\ UNCHANGED <<config, h, d, h_lookup, d_lookup, d_alphas, history>>

Next ==
  \/ \E request \in Requests : addTargets(request)
  \/ clearTargets
  \/ \E counts \in Lists : setNeighborLists(counts)
  \/ \E max_sites \in MaxSites : setAuxiliaryEvaluationIndicesLists(max_sites)
  \/ Refused
  \/ OutOfMemory
  \/ Generate
  \/ getSolutionSetHost

Spec == Init /\ [][Next]_vars

-----------------------------------------------------------------------------
DescriptionOK(ss) ==
  /\ ss.lro \in Seq(Operations) /\ Len(ss.lro) <= MaxStored
  /\ ss.counts \in Lists \cup {NoTargets}
  /\ ss.max_sites \in MaxSites \cup {1}
  /\ ss.total \in Nat
  /\ DOMAIN ss.offsets = DOMAIN ss.in /\ DOMAIN ss.in = DOMAIN ss.out

LookupOK(lookup) ==
  lookup = Unallocated \/ lookup \in [Operations -> -1..MaxStored-1]

(* Every variable has a value of its type; an operation that is listed     *)
(* has its offset and tile sizes.                                          *)
TypeOK ==
  /\ config \in Configurations
  /\ DescriptionOK(h) /\ DescriptionOK(d)
  /\ Len(h.lro) \in {0, Cardinality(DOMAIN h.offsets)}
  /\ LookupOK(h_lookup) /\ LookupOK(d_lookup)
  /\ \A a \in {h_alphas, d_alphas} : a = Empty \/ DescriptionOK(a)
  /\ solved \in BOOLEAN /\ cleared \in BOOLEAN

(***************************************************************************)
(* The lookup that addTargets leaves (SolutionSet.hpp:493-524) leads every *)
(* requested operation to a place where it is stored, and no other         *)
(* operation anywhere, after any sequence of calls with new, repeated and  *)
(* cleared operations.                                                     *)
(***************************************************************************)
LookupExact ==
  \A op \in DOMAIN h_lookup :
    IF Stored(h.lro, op) = {} THEN h_lookup[op] = -1
    ELSE h_lookup[op] + 1 \in Stored(h.lro, op)

(***************************************************************************)
(* The kernels of ApplyTargetEvaluations.hpp write each alpha to a place   *)
(* of its own, inside what GMLS.cpp:63-68 allocates.                       *)
(***************************************************************************)
LayoutSound ==
  d_alphas # Empty =>
    LET places == {Place(d_alphas, n, s) : s \in Slots(d_alphas, n)}
    IN  /\ Cardinality(places) = Cardinality(Slots(d_alphas, n))
        /\ places \subseteq 0..AlphasExtent(d_alphas, n)-1

Dimensions == IF config.manifold THEN config.local + 1 ELSE config.local

(* A caller names output components by axes; for rank 2 these are counted  *)
(* by all dimensions here and by the local ones in the kernels.            *)
getTargetOutputIndex(op, axes) ==
  (IF OutputRank[op] > 1 THEN Dimensions ELSE 1) * axes[1] + axes[2]

Axes(op, output) ==
  IF OutputRank[op] > 1 THEN <<output \div config.local, output % config.local>>
  ELSE <<output, 0>>

(* getAlpha with the row by one solution set and the place of the row by   *)
(* another; it is right if the kernels put an alpha of the same operation, *)
(* components, site, target and column there.  Samples have rank 0 or 1,   *)
(* so that their component is its own index.                               *)
Reads(by_row, by_place, lookup, a, s) ==
  LET op  == a.lro[s.lro + 1]
      output == getTargetOutputIndex(op, Axes(op, s.output))
      row == getTargetOffsetIndex(by_row, lookup[op], s.input, output, s.site)
      place == getAlphaIndex(by_place, n, s.t, row) + s.column
  IN  \E i \in Stored(a.lro, op) : place = Place(a, n, [s EXCEPT !.lro = i - 1])

SameLayout(ss, a) ==
  /\ ss.counts = a.counts
  /\ ss.total = a.total
  /\ ss.max_sites = a.max_sites

HostAlphas == IF h_alphas = Empty THEN d_alphas ELSE h_alphas

(***************************************************************************)
(* getSolutionSetHost()->getAlpha returns the alpha it is asked for, of    *)
(* the latest solution, until the user clears operations or changes the    *)
(* number of rows, the lists or the sites; what was added, cleared or not  *)
(* solved before does not matter, for one memory and for two.              *)
(***************************************************************************)
HostReadsOwn ==
  solved /\ ~ cleared /\ SameLayout(h, d_alphas) =>
    /\ HostAlphas = d_alphas
    /\ \A s \in Slots(HostAlphas, n) : Reads(h, h, h_lookup, HostAlphas, s)

(***************************************************************************)
(* The Evaluator takes the row from the host's solution set and the place  *)
(* of the row from the device's (Evaluator.hpp:207-236).  It gets to the   *)
(* right alphas even after operations were added, lists and sites changed, *)
(* but nothing cleared, since the solution: at the target site always, at  *)
(* further sites if the number of rows is what it was.                     *)
(***************************************************************************)
EvaluatorReadsOwn ==
  solved /\ ~ cleared =>
    \A s \in Slots(d_alphas, n) :
      s.site = 0 \/ h.total = d.total => Reads(h, d, h_lookup, d_alphas, s)

(***************************************************************************)
(* getSolutionSetDevice()->getTargetOperationLocalIndex finds every        *)
(* operation of the solution: whatever is added and cleared on the host if *)
(* the memories are two, until the host's operations are cleared if one.   *)
(***************************************************************************)
DeviceFindsItsOperations ==
  solved /\ (~ config.shared \/ ~ cleared) =>
    \A op \in {d.lro[i] : i \in 1..Len(d.lro)} : d_lookup[op] + 1 \in Stored(d.lro, op)

(***************************************************************************)
(* The kernel for the gradient of a manifold's geometry takes a row of     *)
(* P_target_row for each local dimension, from the offset of operation 0   *)
(* (Functors.hpp:817-819); these rows are within those of a site.          *)
(***************************************************************************)
ManifoldRowsFit ==
  solved /\ config.manifold =>
    \A k \in 0..config.local-1 : getTargetOffsetIndex(d, 0, 0, k, 0) \in 0..d.total-1
=============================================================================
