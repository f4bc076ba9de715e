--------------------------- MODULE RowOffsetScan ---------------------------
(***************************************************************************)
(* NeighborLists::computeRowOffsets: the row offsets of all targets,       *)
(* computed by a Kokkos::parallel_scan on the OpenMP backend.  The scan    *)
(* runs its functor twice over every target: the first pass over a         *)
(* thread's targets only has to leave the thread's partial sum, the second *)
(* starts from the sum of the threads before it.  The functor ignores its  *)
(* argument "final" and stores row_offsets(i) = lsum in both passes, so    *)
(* the array holds wrong offsets between the two.  In host memory the      *)
(* mirror of the offsets is the array itself (create_mirror_view) and      *)
(* deep_copy has nothing to copy: host and device see the same array.      *)
(***************************************************************************)
EXTENDS CompressedRow

CONSTANTS NumTargets,    \* extent of number_of_neighbors_list
          NumThreads,    \* threads of the OpenMP pool
          Granularity,   \* chunk size of the RangePolicy, a power of two
          MaxCount       \* bound on the neighbours of one target

ASSUME NumTargetsAssumption  == NumTargets \in Nat
ASSUME NumThreadsAssumption  == NumThreads \in Nat \ {0}
ASSUME GranularityAssumption == Granularity \in Nat \ {0}
ASSUME MaxCountAssumption    == MaxCount \in Nat

Targets == 0 .. NumTargets-1
Threads == 0 .. NumThreads-1

VARIABLES
  count,             \* number_of_neighbors_list
  row_offsets,       \* _row_offsets, and _host_row_offsets: one view
  returned,          \* computeRowOffsets has returned
  pc,                \* what each thread does: see the actions
  it,                \* iwork, the next target of each thread
  update,            \* pool_reduce_local()[0], the partial sum of each thread
  base               \* pool_reduce_local()[1], the sum of the threads before

vars == <<count, row_offsets, returned, pc, it, update, base>>

-----------------------------------------------------------------------------
CeilDiv(a, b) == (a + b - 1) \div b

(* Split evenly among the threads, then round up to the granularity.       *)
WorkPart == CeilDiv(CeilDiv(NumTargets, NumThreads), Granularity) * Granularity

(* Mutated form of WorkBegin: a thread's range is cut at the granularity   *)
(* but the number of threads is forgotten, so the last targets have none.  *)
WorkBeginNoRounding(t) ==
  LET part == NumTargets \div NumThreads
  IN  IF NumTargets < part * t THEN NumTargets ELSE part * t

WorkBegin(t) == IF NumTargets < WorkPart * t THEN NumTargets ELSE WorkPart * t

(* Mutated form of WorkEnd: both ends of a range are inclusive.            *)
WorkEndInclusive(t) ==
  IF t = NumThreads-1 \/ WorkBegin(t+1) = NumTargets
  THEN WorkBegin(t+1) ELSE WorkBegin(t+1) + 1

WorkEnd(t) == WorkBegin(t+1)

-----------------------------------------------------------------------------
TypeOK ==
  /\ count \in [Targets -> 0..MaxCount]
  /\ row_offsets \in [Targets -> Nat]
  /\ returned \in BOOLEAN
  /\ pc \in [Threads -> {"count", "waiting", "fill", "done"}]
  /\ it \in [Threads -> 0..NumTargets]
  /\ update \in [Threads -> Nat]
  /\ base \in [Threads -> Nat]

Init ==
  /\ count \in [Targets -> 0..MaxCount]
  /\ row_offsets = [i \in Targets |-> 0]
  /\ returned = FALSE
  /\ pc = [t \in Threads |-> "count"]
  /\ it = [t \in Threads |-> WorkBegin(t)]
  /\ update = [t \in Threads |-> 0]
  /\ base = [t \in Threads |-> 0]

(* One call of the functor in the first pass, final = false.               *)
Count(t) ==
  /\ pc[t] = "count"
  /\ it[t] < WorkEnd(t)
  /\ row_offsets' = [row_offsets EXCEPT ![it[t]] = update[t]]
  /\ update' = [update EXCEPT ![t] = @ + count[it[t]]]
  /\ it' = [it EXCEPT ![t] = @ + 1]
  /\ UNCHANGED <<count, returned, pc, base>>

(* Mutated form of Rendezvous: a thread with no targets does not join.     *)
RendezvousNonempty(t) ==
  /\ pc[t] = "count"
  /\ WorkBegin(t) < WorkEnd(t)
  /\ it[t] = WorkEnd(t)
  /\ pc' = [pc EXCEPT ![t] = "waiting"]
  /\ UNCHANGED <<count, row_offsets, returned, it, update, base>>

(* pool_rendezvous(): the thread waits for the others.                     *)
Rendezvous(t) ==
  /\ pc[t] = "count"
  /\ it[t] = WorkEnd(t)
  /\ pc' = [pc EXCEPT ![t] = "waiting"]
  /\ UNCHANGED <<count, row_offsets, returned, it, update, base>>

(* Mutated form of Combine: the root goes on with one thread missing.      *)
CombineEarly ==
  /\ \A t \in Threads : pc[t] \in {"count", "waiting"}
  /\ \E u \in Threads : \A t \in Threads \ {u} : pc[t] = "waiting"
  /\ base' = RowOffsets(update, NumThreads)
  /\ it' = [t \in Threads |-> WorkBegin(t)]
  /\ pc' = [t \in Threads |-> "fill"]
  /\ UNCHANGED <<count, row_offsets, returned, update>>

(***************************************************************************)
(* All threads have arrived; the root thread runs over them and gives each *)
(* the base and the partial sum of the one before, then                    *)
(* pool_rendezvous_release() lets them start their second pass.            *)
(***************************************************************************)
Combine ==
  /\ \A t \in Threads : pc[t] = "waiting"
  /\ base' = RowOffsets(update, NumThreads)
  /\ it' = [t \in Threads |-> WorkBegin(t)]
  /\ pc' = [t \in Threads |-> "fill"]
  /\ UNCHANGED <<count, row_offsets, returned, update>>

(* One call of the functor in the second pass, final = true.               *)
Fill(t) ==
  /\ pc[t] = "fill"
  /\ it[t] < WorkEnd(t)
  /\ row_offsets' = [row_offsets EXCEPT ![it[t]] = base[t]]
  /\ base' = [base EXCEPT ![t] = @ + count[it[t]]]
  /\ it' = [it EXCEPT ![t] = @ + 1]
  /\ UNCHANGED <<count, returned, pc, update>>

Finish(t) ==
  /\ pc[t] = "fill"
  /\ it[t] = WorkEnd(t)
  /\ pc' = [pc EXCEPT ![t] = "done"]
  /\ UNCHANGED <<count, row_offsets, returned, it, update, base>>

(* Mutated form of Return: no thread is waited for after the release.      *)
ReturnUnfenced ==
  /\ \A t \in Threads : pc[t] \in {"fill", "done"}
  /\ ~ returned
  /\ returned' = TRUE
  /\ UNCHANGED <<count, row_offsets, pc, it, update, base>>

(* The parallel region has ended.  deep_copy finds that both sides are one *)
(* view and only fences; computeRowOffsets returns.                        *)
Return ==
  /\ \A t \in Threads : pc[t] = "done"
  /\ ~ returned
  /\ returned' = TRUE
  /\ UNCHANGED <<count, row_offsets, pc, it, update, base>>

(* The call has returned: nothing is left to do.                           *)
Terminated == returned /\ UNCHANGED vars

Thread(t) == Count(t) \/ Rendezvous(t) \/ Fill(t) \/ Finish(t)

Next ==
  \/ \E t \in Threads : Thread(t)
  \/ Combine
  \/ Return
  \/ Terminated

Spec == Init /\ [][Next]_vars

(* The threads of the pool run until their part is done; the root combines *)
(* and the caller goes on once the others have arrived.                    *)
Fairness ==
  /\ \A t \in Threads : WF_vars(Thread(t))
  /\ WF_vars(Combine)
  /\ WF_vars(Return)

FairSpec == Spec /\ Fairness

-----------------------------------------------------------------------------
(***************************************************************************)
(* When computeRowOffsets returns, the array, with which the constructors  *)
(* check that the storage is large enough and getNeighborHost finds a row, *)
(* holds the sequential prefix sums, whatever the threads' interleaving    *)
(* and however few targets each has: no partial sum is left in it.         *)
(***************************************************************************)
OffsetsPublished == returned => row_offsets = RowOffsets(count, NumTargets)

(***************************************************************************)
(* An offset that a thread has written in its second pass is final: no     *)
(* later step, of this thread or another, changes it.  (Offsets written in *)
(* the first pass are wrong and are overwritten.)                          *)
(***************************************************************************)
FinalOffsetsStay ==
  [][\A t \in Threads : pc[t] \in {"fill", "done"} =>
       \A i \in WorkBegin(t) .. it[t]-1 : row_offsets'[i] = row_offsets[i]]_vars

(* The scan ends: no thread is left waiting at the rendezvous, including   *)
(* when there are more threads than parts of the range.                    *)
ScanEnds == <>returned

(***************************************************************************)
(* What a thread has done so far: its first pass has summed the counts of  *)
(* the targets of its range behind it; its second pass started from the    *)
(* right base and has left the right offsets behind.                       *)
(***************************************************************************)
ThreadInv(t) ==
  LET P == PrefixSum(count, NumTargets)
  IN  /\ WorkBegin(t) <= it[t] /\ it[t] <= WorkEnd(t)
      /\ returned => pc[t] = "done"
      /\ pc[t] \in {"waiting", "done"} => it[t] = WorkEnd(t)
      /\ pc[t] \in {"count", "waiting"} => update[t] = P[it[t]] - P[WorkBegin(t)]
      /\ pc[t] \in {"fill", "done"} =>
           /\ base[t] = P[it[t]]
           /\ \A i \in WorkBegin(t) .. it[t]-1 : row_offsets[i] = P[i]

(***************************************************************************)
(* The partial sums, bases and offsets of all threads are right in every   *)
(* state between the two passes too: this is what makes OffsetsPublished   *)
(* inductive.                                                              *)
(***************************************************************************)
ScanInv ==
  /\ TypeOK
  /\ \A t \in Threads : ThreadInv(t)
  /\ OffsetsPublished
=============================================================================
