-------------------------------- MODULE GMLS --------------------------------
(***************************************************************************)
(* The life of a GMLS object.  Its setters may be called in any order and  *)
(* any number of times, before and after generatePolynomialCoefficients,   *)
(* which connects nothing itself: it solves, batch by batch, with the      *)
(* connections (_pc) that the setters have left, and leaves the solution   *)
(* on the device, its description on the host, and, if asked, the          *)
(* polynomial coefficients.  Calls may throw and the object be used again. *)
(*                                                                         *)
(* A view is modelled by its extent and the data in it: two views of the   *)
(* same extent may differ in data.  Orthogonal settings (window sizes,     *)
(* weights, quadrature, extra data, normals) are one value, settings.      *)
(***************************************************************************)
EXTENDS Integers

CONSTANTS
  Configurations,  \* the choices of the constructor to try: see config
  SourceSites,     \* views [n, data] of sites that a user sets
  TargetSites,
  Lists,           \* neighbour lists: rows n, data
  EvaluationSites, \* additional evaluation sites: rows n, longest row most, data
  Settings,        \* values of all other settings
  Operations,      \* target operations
  Batches,         \* numbers of batches
  Memory,          \* which allocations may fail: subset of {"alphas", "P"}
  UserOrder,       \* polynomial order given to the constructor
  MaxOrder         \* bound on the polynomial order, which the code has not

ASSUME BatchesAssumption == Batches \subseteq Nat \ {0}
ASSUME ExtentsAssumption ==
  /\ \A v \in SourceSites \cup TargetSites \cup Lists \cup EvaluationSites : v.n \in Nat
  /\ \A v \in EvaluationSites : v.most \in Nat
ASSUME OrderAssumption == UserOrder \in Nat /\ MaxOrder \in Nat

VARIABLES
  config,                  \* [manifold, constrained, lu, staggered, same_space]
  source, target, neighbor_lists,       \* what was set last
  additional_indices, additional_sites, \* lists, and the coordinates' data
  settings, poly_order,
  pc, additional_pc,       \* _pc, _additional_pc: the connections of the kernels
  h_ss, d_ss,              \* the solution sets: [lro, nla, max_sites, alphas]
  tangent_provided,        \* _orthonormal_tangent_space_provided
  host_T,                  \* who has filled _host_T
  RHS, P,                  \* coefficient matrices
  entire_batch_computed_at_once, store_PTWP_inv_PTW,
  phase,                   \* "idle", or "batches" in generatePolynomialCoefficients
  args,                    \* its arguments: [batches, keep]
  batch_num, initial_index_for_batch,
  (* history *)
  times_solved, \* how often each target has been solved in this call
  outcome,    \* how the last generatePolynomialCoefficients ended
  asked,      \* the problem, as set by the user, when it was called
  one_batch,  \* no call so far has used several batches
  unmodified  \* no modifier has been called since

inputs   == <<source, target, neighbor_lists, additional_indices, additional_sites>>
conns    == <<pc, additional_pc>>
matrices == <<RHS, P>>
flags    == <<entire_batch_computed_at_once, store_PTWP_inv_PTW>>
loop     == <<phase, args, batch_num, initial_index_for_batch, times_solved>>
history  == <<outcome, asked, one_batch>>

vars == <<config, inputs, settings, poly_order, conns, h_ss, d_ss, tangent_provided,
          host_T, matrices, flags, loop, history, unmodified>>

-----------------------------------------------------------------------------
NoView == [n |-> 0, data |-> 0]
NoRows(n) == [n |-> n, most |-> 0, data |-> 0]

(* Contents of alphas and of the coefficient matrices.                     *)
NoProblem == [target |-> NoView, source |-> NoView, lists |-> NoView,
              sites |-> NoRows(0), coordinates |-> 0, settings |-> 0, lro |-> {},
              order |-> 0]
Empty     == [is |-> "empty", of |-> NoProblem]
Zeros     == [is |-> "zeros", of |-> NoProblem]
Solved(p) == [is |-> "solved", of |-> p]

(* A view of an extent in proportion to n, filled with zeros.              *)
Allocated(n) == IF n = 0 THEN Empty ELSE Zeros

NoConnection(lists) == [target |-> NoView, source |-> NoView, nla |-> lists]
NoAdditional == [target |-> NoView, source |-> 0, nla |-> NoRows(0)]
NoArgs == [batches |-> 1, keep |-> FALSE]
NoSolution == [lro |-> {}, nla |-> NoView, max_sites |-> 1, alphas |-> Empty]

(* What the kernels of generatePolynomialCoefficients solve: what they     *)
(* read through the connections and the solution set.                      *)
ProblemRead(ss, order) ==
  [target |-> pc.target, source |-> pc.source, lists |-> pc.nla,
   sites |-> additional_pc.nla, coordinates |-> additional_pc.source,
   settings |-> settings, lro |-> ss.lro, order |-> order]

(* What the user has set.                                                  *)
ProblemSet(order) ==
  [target |-> target, source |-> source, lists |-> neighbor_lists,
   sites |-> additional_indices, coordinates |-> additional_sites,
   settings |-> settings, lro |-> h_ss.lro, order |-> order]

Init ==
  /\ config \in Configurations
  /\ source = NoView
  /\ target = NoView
  /\ neighbor_lists = NoView
  /\ additional_indices = NoRows(0)
  /\ additional_sites = 0
  /\ settings \in Settings
  /\ poly_order = UserOrder
  /\ pc = NoConnection(NoView)
  /\ additional_pc = NoAdditional
  /\ h_ss = NoSolution
  /\ d_ss = NoSolution
  /\ tangent_provided = FALSE
  /\ host_T = "nobody"
  /\ RHS = Empty
  /\ P = Empty
  /\ entire_batch_computed_at_once = TRUE
  /\ store_PTWP_inv_PTW = FALSE
  /\ phase = "idle"
  /\ args = NoArgs
  /\ batch_num = 0
  /\ initial_index_for_batch = 0
  /\ outcome = "none"
  /\ asked = NoProblem
  /\ unmodified = FALSE
  /\ one_batch = TRUE
  /\ times_solved = [i \in {} |-> 0]

-----------------------------------------------------------------------------
(* Modifiers.                                                              *)

(* Mutated form of resetCoefficientData: nothing is reset.                 *)
ResetNothing == RHS' = RHS

resetCoefficientData == RHS' = Empty

(* What every modifier does, and what none of them touches.                *)
Modify ==
  /\ phase = "idle"
  /\ resetCoefficientData
  /\ unmodified' = FALSE
  /\ UNCHANGED <<config, d_ss, P, flags, loop, history>>

(* Mutated form of Connect: the solution set keeps the lists it had.       *)
ConnectOnly(ready, nl, tgt, src, indices, max_sites) ==
  /\ pc' = IF ready THEN [target |-> tgt, source |-> src, nla |-> nl] ELSE pc
  /\ additional_pc' =
       IF ready THEN [target |-> tgt, source |-> additional_sites, nla |-> indices]
       ELSE additional_pc
  /\ h_ss' = [h_ss EXCEPT !.max_sites = max_sites]

(* Once the other two of sources, targets and lists are there, the setter  *)
(* of the third renews all connections.                                    *)
Connect(ready, nl, tgt, src, indices, max_sites) ==
  /\ pc' = IF ready THEN [target |-> tgt, source |-> src, nla |-> nl] ELSE pc
  /\ additional_pc' =
       IF ready THEN [target |-> tgt, source |-> additional_sites, nla |-> indices]
       ELSE additional_pc
  /\ h_ss' = [h_ss EXCEPT !.max_sites = max_sites, !.nla = IF ready THEN nl ELSE @]

setNeighborLists(v) ==
  /\ Modify
  /\ neighbor_lists' = v
  /\ Connect(source.n > 0 /\ target.n > 0,
             v, target, source, additional_indices, h_ss.max_sites)
  /\ UNCHANGED <<source, target, additional_indices, additional_sites, settings,
                 poly_order, tangent_provided, host_T>>

setSourceSites(v) ==
  /\ Modify
  /\ source' = v
  /\ Connect(target.n > 0 /\ neighbor_lists.n > 0,
             neighbor_lists, target, v, additional_indices, h_ss.max_sites)
  /\ UNCHANGED <<target, neighbor_lists, additional_indices, additional_sites,
                 settings, poly_order, tangent_provided, host_T>>

(* Mutated form of KeptIndices: lists of any number of rows are kept.      *)
KeptAlways(v) == TRUE

(* The additional lists are kept if they have a row for each new target.   *)
KeptIndices(v) == additional_indices.n = v.n

setTargetSites(v) ==
  LET indices == IF KeptIndices(v) THEN additional_indices ELSE NoRows(v.n)
  IN  /\ Modify
      /\ target' = v
      /\ additional_indices' = indices
      /\ Connect(source.n > 0 /\ neighbor_lists.n > 0, neighbor_lists, v, source,
                 indices, IF KeptIndices(v) THEN h_ss.max_sites ELSE 1)
      /\ UNCHANGED <<source, neighbor_lists, additional_sites, settings, poly_order,
                     tangent_provided, host_T>>

(* setAuxiliaryEvaluationIndicesLists and ...Coordinates, then _additional_pc. *)
(* The user gives a row for each target, or sets the targets later.        *)
setAdditionalEvaluationSitesData(v) ==
  /\ target.n \in {0, v.n}
  /\ Modify
  /\ additional_indices' = v
  /\ additional_sites' = v.data
  /\ h_ss' = [h_ss EXCEPT !.max_sites = v.most + 1]
  /\ additional_pc' = [target |-> target, source |-> v.data, nla |-> v]
  /\ UNCHANGED <<source, target, neighbor_lists, settings, poly_order, pc,
                 tangent_provided, host_T>>

(* setWindowSizes, setWeightingType, setSourceExtraData and their like.    *)
SetOther(value) ==
  /\ Modify
  /\ settings' = value
  /\ UNCHANGED <<inputs, poly_order, conns, h_ss, tangent_provided, host_T>>

setPolynomialOrder(order) ==
  /\ Modify
  /\ poly_order' = order
  /\ UNCHANGED <<inputs, settings, conns, h_ss, tangent_provided, host_T>>

setTangentBundle ==
  /\ Modify
  /\ tangent_provided' = TRUE
  /\ host_T' = "user"
  /\ UNCHANGED <<inputs, settings, poly_order, conns, h_ss>>

addTargets(lro) ==
  /\ Modify
  /\ h_ss' = [h_ss EXCEPT !.lro = @ \cup {lro}]
  /\ UNCHANGED <<inputs, settings, poly_order, conns, tangent_provided, host_T>>

clearTargets ==
  /\ h_ss.lro # {}
  /\ Modify
  /\ h_ss' = [h_ss EXCEPT !.lro = {}]
  /\ UNCHANGED <<inputs, settings, poly_order, conns, tangent_provided, host_T>>

-----------------------------------------------------------------------------
(* generatePolynomialCoefficients                                          *)

(* Assigning one solution set to the other.  If host and device memory are *)
(* the same, so are their types, and the implicit copy constructor shares  *)
(* the alphas; otherwise the converting constructor leaves them out.       *)
Copied(ss) == IF config.same_space THEN ss ELSE [ss EXCEPT !.alphas = Empty]

(* The coefficients are in _P if they were solved by LU or constrained.    *)
InP == config.constrained \/ config.lu

(* The assertions before the first allocation.                             *)
Solvable ==
  /\ h_ss.lro # {}
  /\ neighbor_lists.n = target.n
  /\ source.n > 0 \/ target.n = 0
  /\ ~ (config.constrained /\ ~ config.lu)

(* Sampling of a gradient on staggered edges raises the polynomial order.  *)
OrderUsed == IF config.staggered THEN poly_order + 1 ELSE poly_order

(* The call ends with an exception.                                        *)
Throws ==
  /\ outcome' = "threw"
  /\ args' = NoArgs
  /\ asked' = NoProblem
  /\ unmodified' = FALSE
  /\ UNCHANGED <<phase, batch_num, initial_index_for_batch, times_solved>>

(* Keeping the coefficients of several batches is refused at once.         *)
RefuseToKeep(b, keep) ==
  /\ keep /\ b # 1
  /\ Throws
  /\ UNCHANGED <<d_ss, poly_order, matrices>>

(* The solution set has been copied to the device when a check fails.      *)
Unsolvable(b, keep) ==
  /\ ~ keep \/ b = 1
  /\ ~ Solvable
  /\ Throws
  /\ d_ss' = Copied(h_ss)
  /\ UNCHANGED <<poly_order, matrices>>

(* No memory for the alphas, or for RHS, P, w and Z after it.              *)
OutOfMemory(b, keep) ==
  /\ ~ keep \/ b = 1
  /\ Solvable
  /\ target.n > 0
  /\ Throws
  /\ \/ /\ "alphas" \in Memory
        /\ d_ss' = Copied(h_ss)
        /\ UNCHANGED <<poly_order, matrices>>
     \/ /\ "P" \in Memory
        /\ d_ss' = [h_ss EXCEPT !.alphas = Zeros]
        /\ poly_order' = OrderUsed
        /\ RHS' = Zeros
        /\ UNCHANGED P

(* Everything is allocated; a constraint needs normals from the user.      *)
StartBatches(b, keep) ==
  /\ ~ keep \/ b = 1
  /\ Solvable
  /\ d_ss' = [h_ss EXCEPT !.alphas = Allocated(target.n)]
  /\ poly_order' = OrderUsed
  /\ RHS' = Allocated(target.n)
  /\ P' = Allocated(target.n)
  /\ IF config.constrained /\ ~ tangent_provided
     THEN Throws
     ELSE /\ phase' = "batches"
          /\ batch_num' = 0
          /\ initial_index_for_batch' = 0
          /\ times_solved' = [i \in 0..target.n-1 |-> 0]
          /\ outcome' = "running"
          /\ args' = [batches |-> b, keep |-> keep]
          /\ asked' = ProblemSet(OrderUsed)
          /\ unmodified' = TRUE

(* The call, up to its loop over the batches.                              *)
Generate(b, keep) ==
  /\ phase = "idle"
  /\ config.staggered => poly_order < MaxOrder
  /\ one_batch' = (one_batch /\ b = 1)
  /\ \/ RefuseToKeep(b, keep)
     \/ Unsolvable(b, keep)
     \/ OutOfMemory(b, keep)
     \/ StartBatches(b, keep)
  /\ UNCHANGED <<config, inputs, settings, conns, h_ss, tangent_provided, host_T, flags>>

(* Mutated form of MaxBatchSize: the division is rounded down.             *)
BatchSizeFloor == target.n \div args.batches

(* max_batch_size: the targets for which RHS and P have room.              *)
MaxBatchSize == (target.n + args.batches - 1) \div args.batches

(* Mutated form of ThisBatchSize: the last batch is a full one too.        *)
ThisBatchSizeFull == MaxBatchSize

ThisBatchSize ==
  IF target.n - initial_index_for_batch < MaxBatchSize
  THEN target.n - initial_index_for_batch ELSE MaxBatchSize

(* The loop goes on; it breaks off once all targets have been solved.      *)
MoreBatches ==
  /\ batch_num < args.batches
  /\ batch_num = 0 \/ initial_index_for_batch # target.n

(* One batch: its rows of the alphas are computed from coefficients that   *)
(* overwrite those of the batch before.  On a manifold the tangents are    *)
(* computed too, unless provided, and copied to the host in the last batch. *)
Batch ==
  LET solved == Solved(ProblemRead(d_ss, poly_order))
  IN  /\ phase = "batches"
      /\ MoreBatches
      /\ times_solved' = [i \in DOMAIN times_solved |->
           IF i \in initial_index_for_batch .. initial_index_for_batch+ThisBatchSize-1
           THEN times_solved[i] + 1 ELSE times_solved[i]]
      /\ IF target.n > 0
         THEN /\ d_ss' = [d_ss EXCEPT !.alphas = solved]
              /\ RHS' = IF InP THEN Zeros ELSE solved
              /\ P' = IF InP THEN solved ELSE Zeros
         ELSE UNCHANGED <<d_ss, matrices>>
      /\ host_T' = IF /\ config.manifold /\ ~ tangent_provided
                      /\ batch_num = args.batches - 1
                   THEN "solver" ELSE host_T
      /\ initial_index_for_batch' = initial_index_for_batch + ThisBatchSize
      /\ batch_num' = batch_num + 1
      /\ UNCHANGED <<config, inputs, settings, poly_order, conns, h_ss,
                     tangent_provided, flags, phase, args, history, unmodified>>

(* Mutated form of Deallocate: the constraint is not looked at.            *)
DeallocateByRank ==
  /\ RHS' = IF args.batches = 1 /\ args.keep /\ ~ config.lu THEN RHS ELSE Empty
  /\ P' = IF args.batches = 1 /\ args.keep /\ config.constrained THEN P ELSE Empty

(* Coefficients are kept if they were asked for and are all in memory.     *)
Deallocate ==
  LET keep == args.batches = 1 /\ args.keep
  IN  /\ RHS' = IF keep /\ ~ InP THEN RHS ELSE Empty
      /\ P' = IF keep /\ InP THEN P ELSE Empty

(* Mutated form of Finish: only the first solution reaches the host.       *)
FinishOnce ==
  /\ phase = "batches"
  /\ ~ MoreBatches
  /\ phase' = "idle"
  /\ Deallocate
  /\ entire_batch_computed_at_once' = (entire_batch_computed_at_once /\ args.batches = 1)
  /\ store_PTWP_inv_PTW' = (store_PTWP_inv_PTW \/ (args.batches = 1 /\ args.keep))
  /\ h_ss' = [Copied(d_ss) EXCEPT !.alphas = IF h_ss.alphas = Empty THEN @ ELSE h_ss.alphas]
  /\ outcome' = "returned"
  /\ times_solved' = [i \in {} |-> 0]
  /\ batch_num' = 0
  /\ UNCHANGED <<config, inputs, settings, poly_order, conns, d_ss, tangent_provided,
                 host_T, args, initial_index_for_batch, asked, unmodified, one_batch>>

(* After the loop: what is not kept is freed, the flags of the accessors   *)
(* are set, and the description of the solution goes to the host.          *)
Finish ==
  /\ phase = "batches"
  /\ ~ MoreBatches
  /\ phase' = "idle"
  /\ Deallocate
  /\ entire_batch_computed_at_once' = (entire_batch_computed_at_once /\ args.batches = 1)
  /\ store_PTWP_inv_PTW' = (store_PTWP_inv_PTW \/ (args.batches = 1 /\ args.keep))
  /\ h_ss' = Copied(d_ss)
  /\ outcome' = "returned"
  /\ times_solved' = [i \in {} |-> 0]
  /\ batch_num' = 0
  /\ UNCHANGED <<config, inputs, settings, poly_order, conns, d_ss, tangent_provided,
                 host_T, args, initial_index_for_batch, asked, unmodified, one_batch>>

(* getSolutionSetHost: the alphas are copied when they are first wanted.   *)
getSolutionSetHost ==
  /\ phase = "idle"
  /\ h_ss.alphas = Empty /\ d_ss.alphas # Empty
  /\ h_ss' = [h_ss EXCEPT !.alphas = d_ss.alphas]
  /\ UNCHANGED <<config, inputs, settings, poly_order, conns, d_ss, tangent_provided,
                 host_T, matrices, flags, loop, history, unmodified>>

Next ==
  \/ \E v \in Lists : setNeighborLists(v)
  \/ \E v \in SourceSites : setSourceSites(v)
  \/ \E v \in TargetSites : setTargetSites(v)
  \/ \E v \in EvaluationSites : setAdditionalEvaluationSitesData(v)
  \/ \E value \in Settings : SetOther(value)
  \/ setPolynomialOrder(UserOrder)
  \/ setTangentBundle
  \/ \E lro \in Operations : addTargets(lro)
  \/ clearTargets
  \/ \E b \in Batches, keep \in BOOLEAN : Generate(b, keep)
  \/ Batch
  \/ Finish
  \/ getSolutionSetHost

Spec == Init /\ [][Next]_vars

-----------------------------------------------------------------------------
MatrixOK(m) == m.is \in {"empty", "zeros", "solved"} /\ m.of.target \in TargetSites \cup {NoView}

SolutionOK(ss) ==
  /\ ss.lro \subseteq Operations
  /\ ss.nla \in Lists \cup {NoView}
  /\ ss.max_sites \in Nat \ {0}
  /\ MatrixOK(ss.alphas)

TypeOK ==
  /\ config \in Configurations
  /\ source \in SourceSites \cup {NoView}
  /\ target \in TargetSites \cup {NoView}
  /\ neighbor_lists \in Lists \cup {NoView}
  /\ additional_indices.n \in Nat /\ additional_indices.most \in Nat
  /\ settings \in Settings
  /\ poly_order \in Nat
  /\ SolutionOK(h_ss) /\ SolutionOK(d_ss)
  /\ tangent_provided \in BOOLEAN
  /\ host_T \in {"nobody", "user", "solver"}
  /\ MatrixOK(RHS) /\ MatrixOK(P)
  /\ entire_batch_computed_at_once \in BOOLEAN
  /\ store_PTWP_inv_PTW \in BOOLEAN
  /\ phase \in {"idle", "batches"}
  /\ batch_num \in 0..args.batches
  /\ initial_index_for_batch \in Nat
  /\ phase = "batches" => initial_index_for_batch <= target.n
  /\ outcome \in {"none", "running", "threw", "returned"}
  /\ unmodified \in BOOLEAN /\ one_batch \in BOOLEAN

(* Sources, targets and lists are all there.                               *)
AllSet == source.n > 0 /\ target.n > 0 /\ neighbor_lists.n > 0

(* The connections and the solution set ss are made of what was set last.  *)
ConnectedTo(ss) ==
  /\ pc = [target |-> target, source |-> source, nla |-> neighbor_lists]
  /\ additional_pc = [target |-> target, source |-> additional_sites,
                      nla |-> additional_indices]
  /\ ss.nla = neighbor_lists

(***************************************************************************)
(* The kernels solve the problem that the user has set: in whatever order  *)
(* and however often sites, lists and additional sites were set and reset, *)
(* to nothing too, if generatePolynomialCoefficients gets past its checks  *)
(* with a target to solve for, its connections are made of what was set    *)
(* last, and the alphas are laid out for the same lists, with room for     *)
(* every additional evaluation site.                                       *)
(***************************************************************************)
SolvesWhatWasSet ==
  phase = "batches" /\ target.n > 0 =>
    /\ ConnectedTo(d_ss)
    /\ d_ss.max_sites = additional_indices.most + 1

(***************************************************************************)
(* Every target has a row of additional evaluation sites while the kernels *)
(* run (they read the length of that row for each target), also when the   *)
(* number of targets has been changed after the additional sites were set. *)
(***************************************************************************)
EvaluationRowsMatch ==
  phase = "batches" /\ target.n > 0 => additional_pc.nla.n = target.n

(* The strengthening of these two that every action preserves.             *)
ConnectionInv ==
  /\ AllSet => ConnectedTo(h_ss)
  /\ additional_indices.n = target.n \/ target.n = 0
  /\ h_ss.max_sites = additional_indices.most + 1
  /\ phase = "batches" =>
       /\ source.n > 0 \/ target.n = 0
       /\ neighbor_lists.n = target.n
       /\ AllSet => ConnectedTo(d_ss)
       /\ d_ss.max_sites = h_ss.max_sites

(***************************************************************************)
(* Each target is solved in exactly one batch, whatever the numbers of     *)
(* targets and batches: also with more batches than targets, when the loop *)
(* breaks off early, and when the last batch is a short one.               *)
(***************************************************************************)
EachTargetSolvedOnce ==
  phase = "batches" =>
    \A i \in 0..target.n-1 :
      times_solved[i] <= 1 /\ (~ MoreBatches => times_solved[i] = 1)

(* The strengthening of it: the loop has solved a prefix of the targets.   *)
BatchInv ==
  phase = "batches" =>
    /\ batch_num \in 0..args.batches
    /\ initial_index_for_batch =
         (IF target.n < batch_num * MaxBatchSize THEN target.n
          ELSE batch_num * MaxBatchSize)
    /\ times_solved =
         [i \in 0..target.n-1 |-> IF i < initial_index_for_batch THEN 1 ELSE 0]

(* The alphas that getSolutionSetHost would return.                        *)
HostAlphas == IF h_ss.alphas = Empty THEN d_ss.alphas ELSE h_ss.alphas

(***************************************************************************)
(* Once generatePolynomialCoefficients has returned, the host gets the     *)
(* solution of the problem it was called for, not of an earlier call, for  *)
(* shared and for separate memories; modifiers called since do not change  *)
(* it.                                                                     *)
(***************************************************************************)
HostGetsLatestSolution ==
  outcome = "returned" /\ asked.target.n > 0 =>
    HostAlphas = Solved(asked) /\ d_ss.alphas = Solved(asked)

(* getFullPolynomialCoefficientsBasis: its assertions, and what it returns. *)
Accessible == entire_batch_computed_at_once /\ store_PTWP_inv_PTW
FullPolynomialCoefficientsBasis == IF InP THEN P ELSE RHS

(***************************************************************************)
(* Coefficients that were asked to be kept are there to be read, in the    *)
(* matrix that the accessor looks at for the solver and constraint, until  *)
(* the next modifier: the choice of what to free after the last batch      *)
(* agrees with the choice of the accessor.  (Only if no call has used      *)
(* several batches.)                                                       *)
(***************************************************************************)
KeptCoefficients ==
  outcome = "returned" /\ args.keep /\ unmodified /\ one_batch /\ asked.target.n > 0 =>
    Accessible /\ FullPolynomialCoefficientsBasis = Solved(asked)

(***************************************************************************)
(* Coefficients in RHS are never read for a problem that has been changed  *)
(* since they were computed: every modifier has emptied it.  (One in P     *)
(* survives modifiers.)                                                    *)
(***************************************************************************)
NoStaleCoefficientsInRHS ==
  outcome = "returned" /\ ~ InP /\ RHS # Empty => RHS = Solved(ProblemSet(poly_order))

-----------------------------------------------------------------------------
(* What the code says of itself, and does not do in every history.         *)

(***************************************************************************)
(* "copy tangent bundle from device back to host": once a manifold problem *)
(* has been solved, getTangentBundle has tangents to read.                 *)
(***************************************************************************)
TangentsOnHost ==
  outcome = "returned" /\ config.manifold /\ asked.target.n > 0 => host_T # "nobody"
=============================================================================
