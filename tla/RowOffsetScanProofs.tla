------------------------ MODULE RowOffsetScanProofs ------------------------
(***************************************************************************)
(* For every number of targets, threads, granularity and every list of     *)
(* counts: computeRowOffsets publishes the prefix sums, the offsets of the *)
(* second pass are final.                                                  *)
(***************************************************************************)
EXTENDS RowOffsetScan, LayoutProofs

(* ------------------- how the targets are split up ---------------------- *)

LEMMA CeilDivCovers ==
  ASSUME NEW a \in Nat, NEW b \in Nat \ {0}
  PROVE  /\ CeilDiv(a, b) \in Nat
         /\ a <= CeilDiv(a, b) * b
<1> DEFINE q == (a + b - 1) \div b
<1>1. q \in Int
  OBVIOUS
<1>2. q * b <= a + b - 1 /\ a + b - 1 < q * b + b
  OBVIOUS
<1>3. a <= q * b
  OBVIOUS
<1>4. q >= 0
  OBVIOUS
<1>5. QED
  BY <1>1, <1>3, <1>4 DEF CeilDiv

LEMMA WorkPartCovers ==
  /\ WorkPart \in Nat
  /\ NumTargets <= WorkPart * NumThreads
<1> USE NumTargetsAssumption, NumThreadsAssumption, GranularityAssumption
<1> DEFINE A == CeilDiv(NumTargets, NumThreads)
           B == CeilDiv(A, Granularity)
<1>1. A \in Nat /\ NumTargets <= A * NumThreads
  BY CeilDivCovers
<1> HIDE DEF A
<1>2. B \in Nat /\ A <= B * Granularity
  BY <1>1, CeilDivCovers
<1>3. WorkPart = B * Granularity
  BY DEF WorkPart, A
<1> HIDE DEF B
<1>4. WorkPart \in Nat /\ A <= WorkPart
  BY <1>2, <1>3
<1>5. \A x, y, z \in Nat : x <= y => x * z <= y * z
  OBVIOUS
<1>6. A * NumThreads <= WorkPart * NumThreads
  BY <1>1, <1>4, <1>5
<1>7. A * NumThreads \in Nat /\ WorkPart * NumThreads \in Nat
  BY <1>1, <1>4
<1>8. QED
  BY <1>1, <1>4, <1>6, <1>7

(***************************************************************************)
(* The ranges of the threads: within the targets, in order, disjoint, and  *)
(* the last one ends at the last target.                                   *)
(***************************************************************************)
LEMMA WorkRanges ==
  /\ \A t \in 0..NumThreads : WorkBegin(t) \in 0..NumTargets
  /\ WorkBegin(0) = 0
  /\ WorkBegin(NumThreads) = NumTargets
  /\ \A t, u \in 0..NumThreads : t <= u => WorkBegin(t) <= WorkBegin(u)
<1> USE NumTargetsAssumption, NumThreadsAssumption
<1>1. WorkPart \in Nat /\ NumTargets <= WorkPart * NumThreads
  BY WorkPartCovers
<1>2. \A t \in 0..NumThreads : WorkPart * t \in Nat
  BY <1>1
<1>3. \A t, u \in 0..NumThreads : t <= u => WorkPart * t <= WorkPart * u
  BY <1>1
<1>4. WorkPart * 0 = 0
  BY <1>1
<1>5. \A t \in 0..NumThreads : WorkBegin(t) \in 0..NumTargets
  BY <1>2 DEF WorkBegin
<1>6. WorkBegin(0) = 0
  BY <1>4 DEF WorkBegin
<1>7. WorkBegin(NumThreads) = NumTargets
  BY <1>1, <1>2 DEF WorkBegin
<1>8. \A t, u \in 0..NumThreads : t <= u => WorkBegin(t) <= WorkBegin(u)
  BY <1>2, <1>3 DEF WorkBegin
<1>9. QED
  BY <1>5, <1>6, <1>7, <1>8

LEMMA WorkEndRange ==
  ASSUME NEW t \in Threads
  PROVE  /\ WorkBegin(t) \in 0..NumTargets
         /\ WorkEnd(t) \in 0..NumTargets
         /\ WorkBegin(t) <= WorkEnd(t)
<1>1. t \in 0..NumThreads /\ t+1 \in 0..NumThreads /\ t <= t+1
  BY NumThreadsAssumption DEF Threads
<1>2. QED
  BY <1>1, WorkRanges DEF WorkEnd

LEMMA WorkRangesDisjoint ==
  ASSUME NEW t \in Threads, NEW u \in Threads, t # u,
         NEW i \in WorkBegin(t) .. WorkEnd(t)-1,
         NEW j \in WorkBegin(u) .. WorkEnd(u)-1
  PROVE  i # j
<1>1. /\ t \in 0..NumThreads /\ t+1 \in 0..NumThreads
      /\ u \in 0..NumThreads /\ u+1 \in 0..NumThreads
  BY NumThreadsAssumption DEF Threads
<1>2. /\ WorkBegin(t) \in Nat /\ WorkEnd(t) \in Nat
      /\ WorkBegin(u) \in Nat /\ WorkEnd(u) \in Nat
  BY WorkEndRange
<1>3. CASE t < u
  <2>1. WorkEnd(t) <= WorkBegin(u)
    BY <1>1, <1>3, WorkRanges DEF WorkEnd
  <2>2. QED
    BY <1>2, <2>1
<1>4. CASE u < t
  <2>1. WorkEnd(u) <= WorkBegin(t)
    BY <1>1, <1>4, WorkRanges DEF WorkEnd
  <2>2. QED
    BY <1>2, <2>1
<1>5. QED
  BY <1>1, <1>3, <1>4

(* Every target is in the range of some thread.                            *)
LEMMA WorkRangesCover ==
  ASSUME NEW i \in Targets
  PROVE  \E t \in Threads : i \in WorkBegin(t) .. WorkEnd(t)-1
<1> DEFINE After == {t \in 0..NumThreads : i < WorkBegin(t)}
<1>1. NumThreads \in After
  BY WorkRanges, NumTargetsAssumption, NumThreadsAssumption DEF Targets
<1>2. After \in SUBSET Nat
  OBVIOUS
<1>3. PICK u \in After : \A v \in After : u <= v
  <2> HIDE DEF After
  <2>1. QED
    BY <1>1, <1>2, LeastNat
<1>4. u # 0
  BY <1>3, WorkRanges DEF Targets
<1>5. u-1 \in Threads /\ u-1 \in 0..NumThreads /\ u-1+1 = u
  BY <1>3, <1>4, NumThreadsAssumption DEF Threads
<1>6. ~ (i < WorkBegin(u-1))
  <2>1. ~ (u <= u-1)
    BY <1>5
  <2>2. u-1 \notin After
    BY <1>3, <2>1
  <2>3. QED
    BY <1>5, <2>2
<1>7. WorkBegin(u-1) \in Nat /\ WorkBegin(u) \in Nat /\ i \in Nat /\ i < WorkBegin(u)
  BY <1>3, <1>5, WorkRanges DEF Targets
<1>8. i \in WorkBegin(u-1) .. WorkEnd(u-1)-1
  BY <1>5, <1>6, <1>7 DEF WorkEnd
<1>9. QED
  BY <1>5, <1>8

(***************************************************************************)
(* What the root computes at the rendezvous: if every thread has summed    *)
(* the counts of its own range, the prefix sums of these partial sums are  *)
(* the prefix sums of the counts at the beginning of the ranges.           *)
(***************************************************************************)
LEMMA CombineBases ==
  ASSUME NEW cnt \in [Targets -> Nat], NEW upd \in [Threads -> Nat],
         \A t \in Threads :
           upd[t] = PrefixSum(cnt, NumTargets)[WorkEnd(t)]
                      - PrefixSum(cnt, NumTargets)[WorkBegin(t)]
  PROVE  \A t \in Threads :
           RowOffsets(upd, NumThreads)[t] = PrefixSum(cnt, NumTargets)[WorkBegin(t)]
<1> USE NumTargetsAssumption, NumThreadsAssumption
<1> DEFINE P == PrefixSum(cnt, NumTargets)
           Q == PrefixSum(upd, NumThreads)
           Bad == {t \in Threads : Q[t] # P[WorkBegin(t)]}
<1>1. P \in [0..NumTargets -> Nat] /\ P[0] = 0
  BY PrefixSumStep DEF Targets
<1>2. /\ Q \in [0..NumThreads -> Nat] /\ Q[0] = 0
      /\ \A t \in 0..NumThreads-1 : Q[t+1] = Q[t] + upd[t]
  BY PrefixSumStep DEF Threads
<1>3. \A t \in Threads : RowOffsets(upd, NumThreads)[t] = Q[t]
  BY DEF RowOffsets, Threads
<1>4. \A t \in Threads : upd[t] = P[WorkEnd(t)] - P[WorkBegin(t)]
  OBVIOUS
<1> HIDE DEF P, Q
<1>5. Bad = {}
  <2>1. SUFFICES ASSUME Bad # {} PROVE FALSE
    OBVIOUS
  <2>2. Bad \in SUBSET Nat
    BY DEF Threads
  <2>3. PICK m \in Bad : \A t \in Bad : m <= t
    <3> HIDE DEF Bad
    <3>1. QED
      BY <2>1, <2>2, LeastNat
  <2>4. m # 0
    BY <1>1, <1>2, <2>3, WorkRanges
  <2>5. m-1 \in Threads /\ m-1 \in 0..NumThreads-1 /\ m-1+1 = m
    BY <2>3, <2>4 DEF Threads
  <2>6. Q[m-1] = P[WorkBegin(m-1)]
    <3>1. ~ (m <= m-1)
      BY <2>5
    <3>2. QED
      BY <2>3, <2>5, <3>1
  <2>7. Q[m] = Q[m-1] + upd[m-1]
    BY <1>2, <2>5
  <2>8. upd[m-1] = P[WorkBegin(m)] - P[WorkBegin(m-1)]
    BY <1>4, <2>5 DEF WorkEnd
  <2>9. P[WorkBegin(m)] \in Nat /\ P[WorkBegin(m-1)] \in Nat
    BY <1>1, <2>3, <2>5, WorkEndRange
  <2>10. Q[m] = P[WorkBegin(m)]
    BY <2>6, <2>7, <2>8, <2>9
  <2>11. QED
    BY <2>3, <2>10
<1>6. QED
  BY <1>3, <1>5 DEF P

(* -------------------------- the invariant ------------------------------ *)

(* The facts about P that the steps of the scan use.                       *)
LEMMA OffsetFacts ==
  ASSUME TypeOK
  PROVE  /\ PrefixSum(count, NumTargets) \in [0..NumTargets -> Nat]
         /\ \A i \in 0..NumTargets-1 : /\ count[i] \in Nat
                                      /\ PrefixSum(count, NumTargets)[i+1]
                                           = PrefixSum(count, NumTargets)[i] + count[i]
<1>1. count \in [0..NumTargets-1 -> Nat]
  BY MaxCountAssumption DEF TypeOK, Targets
<1>2. QED
  BY <1>1, NumTargetsAssumption, PrefixSumStep

LEMMA ScanInvInit == Init => ScanInv
<1>1. SUFFICES ASSUME Init PROVE ScanInv
  OBVIOUS
<1>2. TypeOK
  BY <1>1, WorkEndRange DEF Init, TypeOK
<1>3. ASSUME NEW t \in Threads PROVE ThreadInv(t)
  <2>1. it[t] = WorkBegin(t) /\ pc[t] = "count" /\ update[t] = 0 /\ ~ returned
    BY <1>1 DEF Init
  <2>2. WorkBegin(t) \in 0..NumTargets /\ WorkEnd(t) \in 0..NumTargets
        /\ WorkBegin(t) <= WorkEnd(t)
    BY WorkEndRange
  <2>3. PrefixSum(count, NumTargets)[WorkBegin(t)] \in Nat
    BY <1>2, <2>2, OffsetFacts
  <2>4. QED
    BY <2>1, <2>2, <2>3 DEF ThreadInv
<1>4. OffsetsPublished
  BY <1>1 DEF Init, OffsetsPublished
<1>5. QED
  BY <1>2, <1>3, <1>4 DEF ScanInv

(* A functor call of thread t in its first pass.                           *)
LEMMA CountKeeps ==
  ASSUME ScanInv, NEW t \in Threads, Count(t)
  PROVE  ScanInv'
<1> DEFINE P == PrefixSum(count, NumTargets)
<1>1. TypeOK /\ \A u \in Threads : ThreadInv(u)
  BY DEF ScanInv
<1>2. P \in [0..NumTargets -> Nat]
      /\ \A i \in 0..NumTargets-1 : count[i] \in Nat /\ P[i+1] = P[i] + count[i]
  BY <1>1, OffsetFacts
<1>3. it[t] \in WorkBegin(t) .. WorkEnd(t)-1 /\ it[t] \in 0..NumTargets-1
      /\ WorkBegin(t) \in 0..NumTargets /\ WorkEnd(t) \in 0..NumTargets
  BY <1>1, WorkEndRange, NumTargetsAssumption DEF Count, ThreadInv, TypeOK
<1>4. TypeOK'
  <2>1. count[it[t]] \in Nat
    BY <1>2, <1>3
  <2>2. update' \in [Threads -> Nat] /\ it' \in [Threads -> 0..NumTargets]
    BY <1>1, <1>3, <2>1, NumTargetsAssumption DEF Count, TypeOK
  <2>3. row_offsets' \in [Targets -> Nat]
    BY <1>1 DEF Count, TypeOK
  <2>4. QED
    BY <1>1, <2>2, <2>3 DEF Count, TypeOK
<1>5. ASSUME NEW u \in Threads PROVE ThreadInv(u)'
  <2>1. CASE u = t
    <3>1. update[t] = P[it[t]] - P[WorkBegin(t)] /\ pc'[t] = "count"
          /\ it'[t] = it[t] + 1 /\ update'[t] = update[t] + count[it[t]]
          /\ count' = count /\ ~ returned'
      BY <1>1, <2>1 DEF Count, ThreadInv, TypeOK
    <3>2. update'[t] = P[it'[t]] - P[WorkBegin(t)]
      <4>0. it[t] \in 0..NumTargets
        BY <1>1 DEF TypeOK
      <4> HIDE DEF P
      <4>1. P[it[t]] \in Nat /\ P[WorkBegin(t)] \in Nat /\ count[it[t]] \in Nat
            /\ P[it[t]+1] = P[it[t]] + count[it[t]]
        BY <1>2, <1>3, <4>0
      <4>2. QED
        BY <3>1, <4>1
    <3>3. WorkBegin(t)' = WorkBegin(t) /\ WorkEnd(t)' = WorkEnd(t)
      BY DEF WorkBegin, WorkEnd
    <3>4. QED
      BY <1>3, <2>1, <3>1, <3>2, <3>3 DEF ThreadInv
  <2>2. CASE u # t
    <3>1. /\ it'[u] = it[u] /\ pc'[u] = pc[u] /\ update'[u] = update[u]
          /\ base'[u] = base[u] /\ count' = count /\ returned' = returned
      BY <1>1, <2>2 DEF Count, TypeOK
    <3>2. ASSUME NEW i \in WorkBegin(u) .. it[u]-1 PROVE row_offsets'[i] = row_offsets[i]
      <4>1. i \in WorkBegin(u) .. WorkEnd(u)-1
        BY <1>1, WorkEndRange DEF ThreadInv, TypeOK
      <4>2. i # it[t]
        BY <1>3, <2>2, <4>1, WorkRangesDisjoint
      <4>3. i \in Targets
        BY <4>1, WorkEndRange, NumTargetsAssumption DEF Targets
      <4>4. QED
        BY <1>1, <4>2, <4>3 DEF Count, TypeOK
    <3>3. WorkBegin(u)' = WorkBegin(u) /\ WorkEnd(u)' = WorkEnd(u)
      BY DEF WorkBegin, WorkEnd
    <3>4. ThreadInv(u)
      BY <1>1
    <3>5. QED
      BY <3>1, <3>2, <3>3, <3>4 DEF ThreadInv
  <2>3. QED
    BY <2>1, <2>2
<1>6. OffsetsPublished'
  BY DEF ScanInv, ThreadInv, Count, OffsetsPublished
<1>7. QED
  BY <1>4, <1>5, <1>6 DEF ScanInv

(* A functor call of thread t in its second pass.                          *)
LEMMA FillKeeps ==
  ASSUME ScanInv, NEW t \in Threads, Fill(t)
  PROVE  ScanInv'
<1> DEFINE P == PrefixSum(count, NumTargets)
<1>1. TypeOK /\ \A u \in Threads : ThreadInv(u)
  BY DEF ScanInv
<1>2. P \in [0..NumTargets -> Nat]
      /\ \A i \in 0..NumTargets-1 : count[i] \in Nat /\ P[i+1] = P[i] + count[i]
  BY <1>1, OffsetFacts
<1>3. it[t] \in WorkBegin(t) .. WorkEnd(t)-1 /\ it[t] \in 0..NumTargets-1
      /\ WorkBegin(t) \in 0..NumTargets /\ WorkEnd(t) \in 0..NumTargets
  BY <1>1, WorkEndRange, NumTargetsAssumption DEF Fill, ThreadInv, TypeOK
<1>4. TypeOK'
  <2>1. count[it[t]] \in Nat
    BY <1>2, <1>3
  <2>2. base' \in [Threads -> Nat] /\ it' \in [Threads -> 0..NumTargets]
    BY <1>1, <1>3, <2>1, NumTargetsAssumption DEF Fill, TypeOK
  <2>3. row_offsets' \in [Targets -> Nat]
    BY <1>1 DEF Fill, TypeOK
  <2>4. QED
    BY <1>1, <2>2, <2>3 DEF Fill, TypeOK
<1>5. ASSUME NEW u \in Threads PROVE ThreadInv(u)'
  <2>1. CASE u = t
    <3>1. /\ base[t] = P[it[t]] /\ pc'[t] = "fill" /\ it'[t] = it[t] + 1
          /\ base'[t] = base[t] + count[it[t]] /\ count' = count /\ ~ returned'
          /\ row_offsets'[it[t]] = base[t]
          /\ \A i \in Targets : i # it[t] => row_offsets'[i] = row_offsets[i]
      BY <1>1, <1>3 DEF Fill, ThreadInv, TypeOK, Targets
    <3>2. base'[t] = P[it'[t]]
      <4>1. P[it[t]+1] = P[it[t]] + count[it[t]]
        BY <1>2, <1>3
      <4> HIDE DEF P
      <4>2. QED
        BY <3>1, <4>1
    <3>3. ASSUME NEW i \in WorkBegin(t) .. it'[t]-1 PROVE row_offsets'[i] = P[i]
      <4>1. i = it[t] \/ i \in WorkBegin(t) .. it[t]-1
        BY <1>3, <3>1
      <4>2. i \in Targets
        <5>1. i \in Nat /\ WorkEnd(t) \in Nat /\ i < WorkEnd(t) /\ WorkEnd(t) <= NumTargets
          BY <1>3, <3>1
        <5>2. QED
          BY <5>1, NumTargetsAssumption DEF Targets
      <4>3. i \in WorkBegin(t) .. it[t]-1 => row_offsets[i] = P[i]
        BY <1>1, <2>1 DEF ThreadInv, Fill
      <4>4. i # it[t] \/ row_offsets'[i] = P[i]
        BY <3>1
      <4>5. QED
        BY <3>1, <4>1, <4>2, <4>3, <4>4
    <3>4. WorkBegin(t)' = WorkBegin(t) /\ WorkEnd(t)' = WorkEnd(t)
      BY DEF WorkBegin, WorkEnd
    <3>5. QED
      BY <1>3, <2>1, <3>1, <3>2, <3>3, <3>4 DEF ThreadInv
  <2>2. CASE u # t
    <3>1. /\ it'[u] = it[u] /\ pc'[u] = pc[u] /\ update'[u] = update[u]
          /\ base'[u] = base[u] /\ count' = count /\ returned' = returned
      BY <1>1, <2>2 DEF Fill, TypeOK
    <3>2. ASSUME NEW i \in WorkBegin(u) .. it[u]-1 PROVE row_offsets'[i] = row_offsets[i]
      <4>1. i \in WorkBegin(u) .. WorkEnd(u)-1
        BY <1>1, WorkEndRange DEF ThreadInv, TypeOK
      <4>2. i # it[t]
        BY <1>3, <2>2, <4>1, WorkRangesDisjoint
      <4>3. i \in Targets
        BY <4>1, WorkEndRange, NumTargetsAssumption DEF Targets
      <4>4. QED
        BY <1>1, <4>2, <4>3 DEF Fill, TypeOK
    <3>3. WorkBegin(u)' = WorkBegin(u) /\ WorkEnd(u)' = WorkEnd(u)
      BY DEF WorkBegin, WorkEnd
    <3>4. ThreadInv(u)
      BY <1>1
    <3>5. QED
      BY <3>1, <3>2, <3>3, <3>4 DEF ThreadInv
  <2>3. QED
    BY <2>1, <2>2
<1>6. OffsetsPublished'
  BY DEF ScanInv, ThreadInv, Fill, OffsetsPublished
<1>7. QED
  BY <1>4, <1>5, <1>6 DEF ScanInv

(* The root combines the partial sums of all threads.                      *)
LEMMA CombineKeeps ==
  ASSUME ScanInv, Combine
  PROVE  ScanInv'
<1> DEFINE P == PrefixSum(count, NumTargets)
<1>1. TypeOK /\ \A u \in Threads : ThreadInv(u)
  BY DEF ScanInv
<1>2. \A u \in Threads : update[u] = P[WorkEnd(u)] - P[WorkBegin(u)]
  BY <1>1 DEF Combine, ThreadInv
<1>3. count \in [Targets -> Nat] /\ update \in [Threads -> Nat]
  BY <1>1, MaxCountAssumption DEF TypeOK
<1>4. \A u \in Threads : base'[u] = P[WorkBegin(u)]
  BY <1>2, <1>3, CombineBases DEF Combine
<1>5. P \in [0..NumTargets -> Nat]
  BY <1>1, OffsetFacts
<1>6. ASSUME NEW u \in Threads
      PROVE  /\ WorkBegin(u) \in 0..NumTargets /\ WorkEnd(u) \in 0..NumTargets
             /\ WorkBegin(u) <= WorkEnd(u)
             /\ WorkBegin(u)' = WorkBegin(u) /\ WorkEnd(u)' = WorkEnd(u)
  BY WorkEndRange DEF WorkBegin, WorkEnd
<1>7. TypeOK'
  <2>1. \A u \in Threads : base'[u] \in Nat
    BY <1>4, <1>5, <1>6
  <2>2. base' = [u \in Threads |-> base'[u]]
    BY DEF Combine, RowOffsets, Threads
  <2>3. base' \in [Threads -> Nat]
    BY <2>1, <2>2
  <2>4. QED
    BY <1>1, <1>6, <2>3 DEF TypeOK, Combine
<1>8. ASSUME NEW u \in Threads PROVE ThreadInv(u)'
  <2>1. it'[u] = WorkBegin(u) /\ pc'[u] = "fill" /\ count' = count /\ ~ returned'
    BY <1>1 DEF Combine, ThreadInv
  <2>2. QED
    BY <1>4, <1>6, <2>1 DEF ThreadInv
<1>9. OffsetsPublished'
  BY NumThreadsAssumption DEF ScanInv, ThreadInv, Combine, Threads, OffsetsPublished
<1>10. QED
  BY <1>7, <1>8, <1>9 DEF ScanInv

(* When all threads are done the array holds the offsets of all targets.   *)
LEMMA AllDone ==
  ASSUME ScanInv, \A t \in Threads : pc[t] = "done"
  PROVE  row_offsets = RowOffsets(count, NumTargets)
<1>1. ASSUME NEW i \in Targets
      PROVE  row_offsets[i] = PrefixSum(count, NumTargets)[i]
  <2>1. PICK t \in Threads : i \in WorkBegin(t) .. WorkEnd(t)-1
    BY WorkRangesCover
  <2>2. QED
    BY <2>1 DEF ScanInv, ThreadInv
<1>2. row_offsets = [i \in Targets |-> row_offsets[i]]
  BY DEF ScanInv, TypeOK
<1>3. QED
  BY <1>1, <1>2 DEF RowOffsets, Targets

LEMMA ReturnKeeps ==
  ASSUME ScanInv, Return
  PROVE  ScanInv'
<1>1. row_offsets = RowOffsets(count, NumTargets)
  BY AllDone DEF Return
<1>2. TypeOK'
  BY DEF ScanInv, TypeOK, Return
<1>3. \A t \in Threads : ThreadInv(t)'
  BY DEF ScanInv, ThreadInv, Return, WorkBegin, WorkEnd
<1>4. OffsetsPublished'
  BY <1>1 DEF OffsetsPublished, Return
<1>5. QED
  BY <1>2, <1>3, <1>4 DEF ScanInv

LEMMA ScanInvStep == ScanInv /\ [Next]_vars => ScanInv'
<1>1. SUFFICES ASSUME ScanInv, [Next]_vars PROVE ScanInv'
  OBVIOUS
<1>2. ASSUME NEW t \in Threads, Count(t) PROVE ScanInv'
  BY <1>1, <1>2, CountKeeps
<1>3. ASSUME NEW t \in Threads, Rendezvous(t) PROVE ScanInv'
  <2>1. TypeOK'
    BY <1>1, <1>3 DEF ScanInv, TypeOK, Rendezvous
  <2>2. ASSUME NEW u \in Threads PROVE ThreadInv(u)'
    BY <1>1, <1>3 DEF ScanInv, TypeOK, ThreadInv, Rendezvous, WorkBegin, WorkEnd
  <2>3. OffsetsPublished'
    BY <1>1, <1>3 DEF ScanInv, ThreadInv, OffsetsPublished, Rendezvous
  <2>4. QED
    BY <2>1, <2>2, <2>3 DEF ScanInv
<1>4. ASSUME NEW t \in Threads, Fill(t) PROVE ScanInv'
  BY <1>1, <1>4, FillKeeps
<1>5. ASSUME NEW t \in Threads, Finish(t) PROVE ScanInv'
  <2>1. TypeOK'
    BY <1>1, <1>5 DEF ScanInv, TypeOK, Finish
  <2>2. ASSUME NEW u \in Threads PROVE ThreadInv(u)'
    BY <1>1, <1>5 DEF ScanInv, TypeOK, ThreadInv, Finish, WorkBegin, WorkEnd
  <2>3. OffsetsPublished'
    BY <1>1, <1>5 DEF ScanInv, ThreadInv, OffsetsPublished, Finish
  <2>4. QED
    BY <2>1, <2>2, <2>3 DEF ScanInv
<1>6. CASE Combine
  BY <1>1, <1>6, CombineKeeps
<1>7. CASE Return
  BY <1>1, <1>7, ReturnKeeps
<1>8. CASE UNCHANGED vars
  BY <1>1, <1>8 DEF vars, ScanInv, TypeOK, ThreadInv, OffsetsPublished, WorkBegin, WorkEnd
<1>9. QED
  BY <1>1, <1>2, <1>3, <1>4, <1>5, <1>6, <1>7, <1>8 DEF Next, Thread, Terminated

(***************************************************************************)
(* Partial sums, bases and offsets are right throughout the scan, and the  *)
(* array holds the prefix sums once computeRowOffsets has returned.        *)
(***************************************************************************)
THEOREM ScanInvariant == Spec => []ScanInv
<1>1. QED
  BY ScanInvInit, ScanInvStep, PTL DEF Spec

(* computeRowOffsets returns the prefix sums, for every partition of the   *)
(* targets and every interleaving of the threads.                          *)
THEOREM OffsetsPublishedTheorem == Spec => []OffsetsPublished
<1>1. ScanInv => OffsetsPublished
  BY DEF ScanInv
<1>2. QED
  BY <1>1, ScanInvariant, PTL

(***************************************************************************)
(* An offset written in the second pass is final: a step of another thread *)
(* writes in its own range, a step of the same thread writes further on.   *)
(***************************************************************************)
THEOREM FinalOffsetsTheorem == Spec => FinalOffsetsStay
<1> DEFINE Stay == \A t \in Threads : pc[t] \in {"fill", "done"} =>
                     \A i \in WorkBegin(t) .. it[t]-1 : row_offsets'[i] = row_offsets[i]
<1>1. ASSUME ScanInv, Next PROVE Stay
  <2>1. SUFFICES ASSUME NEW t \in Threads, pc[t] \in {"fill", "done"},
                        NEW i \in WorkBegin(t) .. it[t]-1
                 PROVE  row_offsets'[i] = row_offsets[i]
    OBVIOUS
  <2>2. TypeOK /\ \A u \in Threads : ThreadInv(u)
    BY <1>1 DEF ScanInv
  <2>3. i \in WorkBegin(t) .. WorkEnd(t)-1
    BY <2>1, <2>2, WorkEndRange DEF ThreadInv, TypeOK
  <2>4. i \in Targets
    BY <2>3, WorkEndRange, NumTargetsAssumption DEF Targets
  <2>5. ASSUME NEW u \in Threads, it[u] < WorkEnd(u), u = t => pc[u] = "fill",
               NEW v, row_offsets' = [row_offsets EXCEPT ![it[u]] = v]
        PROVE  row_offsets'[i] = row_offsets[i]
    <3>1. i # it[u]
      <4>1. CASE u = t
        BY <2>1, <2>2, <4>1 DEF TypeOK
      <4>2. CASE u # t
        <5>1. it[u] \in WorkBegin(u) .. WorkEnd(u)-1
          BY <2>2, <2>5, WorkEndRange DEF ThreadInv, TypeOK
        <5>2. QED
          BY <2>3, <4>2, <5>1, WorkRangesDisjoint
      <4>3. QED
        BY <4>1, <4>2
    <3>2. QED
      BY <2>2, <2>4, <2>5, <3>1 DEF TypeOK
  <2>6. ASSUME NEW u \in Threads, Count(u) PROVE row_offsets'[i] = row_offsets[i]
    BY <2>1, <2>5, <2>6 DEF Count
  <2>7. ASSUME NEW u \in Threads, Fill(u) PROVE row_offsets'[i] = row_offsets[i]
    BY <2>5, <2>7 DEF Fill
  <2>8. QED
    BY <1>1, <2>6, <2>7 DEF Next, Thread, Rendezvous, Finish, Combine, Return,
                            Terminated, vars
<1>2. ScanInv /\ [Next]_vars => [Stay]_vars
  BY <1>1
<1>3. QED
  BY <1>2, ScanInvariant, PTL DEF Spec, FinalOffsetsStay
=============================================================================
