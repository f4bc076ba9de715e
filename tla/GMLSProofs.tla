----------------------------- MODULE GMLSProofs -----------------------------
(***************************************************************************)
(* For all sites, lists, additional sites and numbers of batches: the      *)
(* kernels solve what was set last, have a row of evaluation sites for     *)
(* each target, and solve each target once; the host gets the latest       *)
(* solution, and coefficients that are kept are those of the problem.      *)
(***************************************************************************)
EXTENDS GMLS, TLAPS

IsSolutionSet(ss) == DOMAIN ss = {"lro", "nla", "max_sites", "alphas"}

(* The part of type correctness that the proofs need.                      *)
Shape ==
  /\ target.n \in Nat
  /\ IsSolutionSet(h_ss)
  /\ IsSolutionSet(d_ss)
  /\ phase = "batches" => args.batches \in Nat \ {0}

GMLSInv == Shape /\ ConnectionInv /\ BatchInv

-----------------------------------------------------------------------------
(* Rounding up leaves no target behind the last batch.                     *)
LEMMA CeilingCovers ==
  ASSUME NEW n \in Nat, NEW b \in Nat \ {0}
  PROVE  /\ (n + b - 1) \div b \in Nat
         /\ n <= b * ((n + b - 1) \div b)
<1> DEFINE q == (n + b - 1) \div b
           r == (n + b - 1) % b
<1>1. n + b - 1 \in Nat
  OBVIOUS
<1>2. q \in Nat /\ r \in 0..b-1 /\ n + b - 1 = b * q + r
  BY <1>1
<1>3. n = b * q + r - (b - 1)
  BY <1>2
<1> QED
  BY <1>2, <1>3

LEMMA InitInv == Init => GMLSInv
BY DEF Init, GMLSInv, Shape, IsSolutionSet, ConnectionInv, BatchInv, AllSet, NoView,
       NoRows, NoSolution

-----------------------------------------------------------------------------
(* The setters of sources, targets and lists.                              *)
LEMMA NeighborListsKeep ==
  ASSUME GMLSInv, NEW v \in Lists, setNeighborLists(v)
  PROVE  GMLSInv'
<1>1. Shape'
  BY DEF GMLSInv, Shape, IsSolutionSet, setNeighborLists, Modify, Connect, loop
<1>2. ConnectionInv'
  BY DEF GMLSInv, Shape, IsSolutionSet, ConnectionInv, AllSet, ConnectedTo,
         setNeighborLists, Modify, Connect, loop
<1>3. BatchInv'
  BY DEF setNeighborLists, Modify, loop, BatchInv
<1> QED
  BY <1>1, <1>2, <1>3 DEF GMLSInv

LEMMA SourceSitesKeep ==
  ASSUME GMLSInv, NEW v \in SourceSites, setSourceSites(v)
  PROVE  GMLSInv'
<1>1. Shape'
  BY DEF GMLSInv, Shape, IsSolutionSet, setSourceSites, Modify, Connect, loop
<1>2. ConnectionInv'
  BY DEF GMLSInv, Shape, IsSolutionSet, ConnectionInv, AllSet, ConnectedTo,
         setSourceSites, Modify, Connect, loop
<1>3. BatchInv'
  BY DEF setSourceSites, Modify, loop, BatchInv
<1> QED
  BY <1>1, <1>2, <1>3 DEF GMLSInv

LEMMA TargetSitesKeep ==
  ASSUME GMLSInv, NEW v \in TargetSites, setTargetSites(v)
  PROVE  GMLSInv'
<1>1. Shape'
  BY ExtentsAssumption
     DEF GMLSInv, Shape, IsSolutionSet, setTargetSites, Modify, Connect, loop
<1>2. ConnectionInv'
  <2>1. CASE KeptIndices(v)
    BY <2>1 DEF GMLSInv, Shape, IsSolutionSet, ConnectionInv, AllSet, ConnectedTo,
                setTargetSites, KeptIndices, Modify, Connect, loop
  <2>2. CASE ~ KeptIndices(v)
    BY <2>2 DEF GMLSInv, Shape, IsSolutionSet, ConnectionInv, AllSet, ConnectedTo,
                setTargetSites, KeptIndices, NoRows, Modify, Connect, loop
  <2> QED
    BY <2>1, <2>2
<1>3. BatchInv'
  BY DEF setTargetSites, Modify, loop, BatchInv
<1> QED
  BY <1>1, <1>2, <1>3 DEF GMLSInv

LEMMA EvaluationSitesKeep ==
  ASSUME GMLSInv, NEW v \in EvaluationSites, setAdditionalEvaluationSitesData(v)
  PROVE  GMLSInv'
<1>1. Shape'
  BY DEF GMLSInv, Shape, IsSolutionSet, setAdditionalEvaluationSitesData, Modify, loop
<1>2. ConnectionInv'
  BY DEF GMLSInv, Shape, IsSolutionSet, ConnectionInv, AllSet, ConnectedTo,
         setAdditionalEvaluationSitesData, Modify, loop
<1>3. BatchInv'
  BY DEF setAdditionalEvaluationSitesData, Modify, loop, BatchInv
<1> QED
  BY <1>1, <1>2, <1>3 DEF GMLSInv

(* The modifiers that touch neither sites nor lists.                       *)
LEMMA OthersKeep ==
  ASSUME GMLSInv,
         \/ \E value \in Settings : SetOther(value)
         \/ setPolynomialOrder(UserOrder)
         \/ setTangentBundle
         \/ \E lro \in Operations : addTargets(lro)
         \/ clearTargets
  PROVE  GMLSInv'
<1>1. /\ UNCHANGED <<inputs, conns, d_ss, loop>>
      /\ phase = "idle"
      /\ h_ss' = h_ss \/ \E l : h_ss' = [h_ss EXCEPT !.lro = l]
  BY DEF SetOther, setPolynomialOrder, setTangentBundle, addTargets, clearTargets, Modify
<1>2. /\ IsSolutionSet(h_ss')
      /\ h_ss'.nla = h_ss.nla
      /\ h_ss'.max_sites = h_ss.max_sites
  BY <1>1 DEF GMLSInv, Shape, IsSolutionSet
<1> QED
  BY <1>1, <1>2 DEF GMLSInv, Shape, ConnectionInv, BatchInv, AllSet, ConnectedTo,
                    IsSolutionSet, inputs, conns, loop

-----------------------------------------------------------------------------
(* generatePolynomialCoefficients.                                         *)
LEMMA CopiedSolution ==
  ASSUME NEW ss, IsSolutionSet(ss)
  PROVE  /\ IsSolutionSet(Copied(ss))
         /\ Copied(ss).nla = ss.nla
         /\ Copied(ss).max_sites = ss.max_sites
BY DEF IsSolutionSet, Copied

LEMMA GenerateKeeps ==
  ASSUME GMLSInv, NEW b \in Batches, NEW keep \in BOOLEAN, Generate(b, keep)
  PROVE  GMLSInv'
<1>1. /\ UNCHANGED <<inputs, conns, h_ss>>
      /\ phase = "idle"
  BY DEF Generate
<1>2. CASE phase' = "idle"
  <2>1. IsSolutionSet(d_ss')
    <3>1. \/ d_ss' = d_ss
          \/ d_ss' = Copied(h_ss)
          \/ \E a : d_ss' = [h_ss EXCEPT !.alphas = a]
      BY DEF Generate, RefuseToKeep, Unsolvable, OutOfMemory, StartBatches
    <3> QED
      BY <3>1, CopiedSolution DEF GMLSInv, Shape, IsSolutionSet
  <2> QED
    BY <1>1, <1>2, <2>1 DEF GMLSInv, Shape, ConnectionInv, BatchInv, AllSet,
                            ConnectedTo, inputs, conns
<1>3. CASE phase' # "idle"
  <2>1. StartBatches(b, keep) /\ phase' = "batches"
    BY <1>1, <1>3 DEF Generate, RefuseToKeep, Unsolvable, OutOfMemory, StartBatches, Throws
  <2>2. /\ Solvable
        /\ d_ss' = [h_ss EXCEPT !.alphas = Allocated(target.n)]
        /\ args'.batches = b
        /\ batch_num' = 0
        /\ initial_index_for_batch' = 0
        /\ times_solved' = [i \in 0..target.n-1 |-> 0]
    <3>1. ~ (config.constrained /\ ~ tangent_provided)
      BY <1>1, <2>1 DEF StartBatches, Throws
    <3>2. args' = [batches |-> b, keep |-> keep]
      BY <2>1, <3>1 DEF StartBatches
    <3> QED
      BY <2>1, <3>1, <3>2 DEF StartBatches
  <2>3. IsSolutionSet(d_ss') /\ d_ss'.nla = h_ss.nla /\ d_ss'.max_sites = h_ss.max_sites
    BY <2>2 DEF GMLSInv, Shape, IsSolutionSet
  <2>4. Shape'
    BY <1>1, <2>2, <2>3, BatchesAssumption DEF GMLSInv, Shape, inputs
  <2>5. ConnectionInv'
    BY <1>1, <2>2, <2>3 DEF GMLSInv, ConnectionInv, AllSet, ConnectedTo, Solvable,
                            inputs, conns
  <2>6. BatchInv'
    <3>1. target'.n = target.n /\ target.n \in Nat /\ b \in Nat \ {0}
      BY <1>1, BatchesAssumption DEF GMLSInv, Shape, inputs
    <3>2. MaxBatchSize' \in Nat
      BY <2>2, <3>1, CeilingCovers DEF MaxBatchSize
    <3>3. batch_num' * MaxBatchSize' = 0
      BY <2>2, <3>2
    <3>4. times_solved' = [i \in 0..target'.n-1 |->
                             IF i < initial_index_for_batch' THEN 1 ELSE 0]
      BY <2>2, <3>1
    <3> QED
      BY <2>2, <3>1, <3>3, <3>4 DEF BatchInv
  <2> QED
    BY <2>4, <2>5, <2>6 DEF GMLSInv
<1> QED
  BY <1>2, <1>3

LEMMA BatchKeeps ==
  ASSUME GMLSInv, Batch
  PROVE  GMLSInv'
<1>1. /\ UNCHANGED <<inputs, conns, h_ss, phase, args>>
      /\ phase = "batches"
      /\ MoreBatches
      /\ initial_index_for_batch' = initial_index_for_batch + ThisBatchSize
      /\ batch_num' = batch_num + 1
      /\ times_solved' = [i \in DOMAIN times_solved |->
           IF i \in initial_index_for_batch .. initial_index_for_batch+ThisBatchSize-1
           THEN times_solved[i] + 1 ELSE times_solved[i]]
  BY DEF Batch
<1>2. d_ss' = d_ss \/ \E a : d_ss' = [d_ss EXCEPT !.alphas = a]
  BY DEF Batch
<1>3. IsSolutionSet(d_ss') /\ d_ss'.nla = d_ss.nla /\ d_ss'.max_sites = d_ss.max_sites
  BY <1>2 DEF GMLSInv, Shape, IsSolutionSet
<1>4. Shape' /\ ConnectionInv'
  BY <1>1, <1>3 DEF GMLSInv, Shape, ConnectionInv, AllSet, ConnectedTo, inputs, conns
<1>5. BatchInv'
  <2> DEFINE n == target.n
             m == MaxBatchSize
             first == initial_index_for_batch
  <2>1. n \in Nat /\ args.batches \in Nat \ {0} /\ batch_num \in 0..args.batches
    BY <1>1 DEF GMLSInv, Shape, BatchInv
  <2>2. m \in Nat
    BY <2>1, CeilingCovers DEF MaxBatchSize
  <2>3. n' = n /\ m' = m
    BY <1>1 DEF inputs, MaxBatchSize
  <2>4. batch_num < args.batches
    BY <1>1 DEF MoreBatches
  <2>5. first = (IF n < batch_num * m THEN n ELSE batch_num * m)
    BY <1>1 DEF GMLSInv, BatchInv
  <2>6. batch_num * m \in Nat /\ (batch_num + 1) * m = batch_num * m + m
    BY <2>1, <2>2
  <2>7. first \in 0..n /\ ThisBatchSize = (IF n - first < m THEN n - first ELSE m)
    BY <2>1, <2>5, <2>6 DEF ThisBatchSize
  <2>8. first' = (IF n < (batch_num + 1) * m THEN n ELSE (batch_num + 1) * m)
    <3> HIDE DEF m
    <3> QED
      BY <1>1, <2>1, <2>2, <2>5, <2>6, <2>7
  <2>9. times_solved = [i \in 0..n-1 |-> IF i < first THEN 1 ELSE 0]
    BY <1>1 DEF GMLSInv, BatchInv
  <2>10. first' = first + ThisBatchSize /\ ThisBatchSize \in Nat
    <3> HIDE DEF m
    <3> QED
      BY <1>1, <2>1, <2>2, <2>7
  <2>11. times_solved' = [i \in 0..n-1 |-> IF i < first' THEN 1 ELSE 0]
    <3> DEFINE size == ThisBatchSize
    <3>1. DOMAIN times_solved = 0..n-1
      BY <2>9
    <3>2. ASSUME NEW i \in 0..n-1
          PROVE  (IF i \in first .. first+size-1
                  THEN times_solved[i] + 1 ELSE times_solved[i])
                 = (IF i < first' THEN 1 ELSE 0)
      <4>1. times_solved[i] = (IF i < first THEN 1 ELSE 0)
        BY <2>9
      <4>2. i \in Int /\ first \in Int /\ size \in Int /\ first' = first + size /\ size >= 0
        BY <2>1, <2>7, <2>10
      <4> HIDE DEF size
      <4> QED
        BY <4>1, <4>2
    <3> QED
      BY <1>1, <3>1, <3>2
  <2> QED
    BY <1>1, <2>1, <2>3, <2>4, <2>8, <2>11 DEF BatchInv
<1> QED
  BY <1>4, <1>5 DEF GMLSInv

LEMMA FinishKeeps ==
  ASSUME GMLSInv, Finish
  PROVE  GMLSInv'
<1>1. /\ UNCHANGED <<inputs, conns, d_ss>>
      /\ phase = "batches"
      /\ phase' = "idle"
      /\ h_ss' = Copied(d_ss)
  BY DEF Finish
<1>2. IsSolutionSet(h_ss') /\ h_ss'.nla = d_ss.nla /\ h_ss'.max_sites = d_ss.max_sites
  BY <1>1, CopiedSolution DEF GMLSInv, Shape
<1> QED
  BY <1>1, <1>2 DEF GMLSInv, Shape, ConnectionInv, BatchInv, AllSet, ConnectedTo,
                    inputs, conns

LEMMA FetchKeeps ==
  ASSUME GMLSInv, getSolutionSetHost
  PROVE  GMLSInv'
<1>1. /\ UNCHANGED <<inputs, conns, d_ss, loop>>
      /\ phase = "idle"
      /\ IsSolutionSet(h_ss') /\ h_ss'.nla = h_ss.nla /\ h_ss'.max_sites = h_ss.max_sites
  BY DEF getSolutionSetHost, GMLSInv, Shape, IsSolutionSet
<1> QED
  BY <1>1 DEF GMLSInv, Shape, ConnectionInv, BatchInv, AllSet, ConnectedTo,
              inputs, conns, loop

-----------------------------------------------------------------------------
LEMMA StepInv ==
  ASSUME GMLSInv, [Next]_vars
  PROVE  GMLSInv'
<1>1. CASE Next
  BY <1>1, NeighborListsKeep, SourceSitesKeep, TargetSitesKeep, EvaluationSitesKeep,
     OthersKeep, GenerateKeeps, BatchKeeps, FinishKeeps, FetchKeeps DEF Next
<1>2. CASE UNCHANGED vars
  BY <1>2 DEF vars, inputs, conns, loop, GMLSInv, Shape, IsSolutionSet, ConnectionInv,
              BatchInv, AllSet, ConnectedTo, MaxBatchSize
<1> QED
  BY <1>1, <1>2

LEMMA Invariance == Spec => []GMLSInv
<1>1. GMLSInv /\ [Next]_vars => GMLSInv'
  BY StepInv
<1> QED
  BY InitInv, <1>1, PTL DEF Spec

(***************************************************************************)
(* In every order of setting sites, lists and additional sites, the        *)
(* connections are those of what was set last once all are there.          *)
(***************************************************************************)
THEOREM ConnectionTheorem == Spec => []ConnectionInv
<1>1. GMLSInv => ConnectionInv
  BY DEF GMLSInv
<1> QED
  BY Invariance, <1>1, PTL

(***************************************************************************)
(* The kernels of generatePolynomialCoefficients solve what was set last,  *)
(* with alphas laid out for its lists and evaluation sites.                *)
(***************************************************************************)
THEOREM SolvesWhatWasSetTheorem == Spec => []SolvesWhatWasSet
<1>1. GMLSInv => SolvesWhatWasSet
  <2> SUFFICES ASSUME GMLSInv, phase = "batches", target.n > 0
               PROVE  ConnectedTo(d_ss) /\ d_ss.max_sites = additional_indices.most + 1
    BY DEF SolvesWhatWasSet
  <2>1. AllSet
    BY DEF AllSet, GMLSInv, Shape, ConnectionInv
  <2> QED
    BY <2>1 DEF GMLSInv, ConnectionInv
<1> QED
  BY Invariance, <1>1, PTL

(***************************************************************************)
(* While the kernels run, each target has a row of evaluation sites.       *)
(***************************************************************************)
THEOREM EvaluationRowsTheorem == Spec => []EvaluationRowsMatch
<1>1. GMLSInv => EvaluationRowsMatch
  <2> SUFFICES ASSUME GMLSInv, phase = "batches", target.n > 0
               PROVE  additional_pc.nla.n = target.n
    BY DEF EvaluationRowsMatch
  <2>1. AllSet
    BY DEF AllSet, GMLSInv, Shape, ConnectionInv
  <2>2. additional_pc.nla = additional_indices
    BY <2>1 DEF GMLSInv, ConnectionInv, ConnectedTo
  <2> QED
    BY <2>2 DEF GMLSInv, Shape, ConnectionInv
<1> QED
  BY Invariance, <1>1, PTL

(***************************************************************************)
(* For every number of targets and of batches, each target is solved in    *)
(* exactly one batch.                                                      *)
(***************************************************************************)
THEOREM SolvedOnceTheorem == Spec => []EachTargetSolvedOnce
<1>1. GMLSInv => EachTargetSolvedOnce
  <2> SUFFICES ASSUME GMLSInv, phase = "batches", NEW i \in 0..target.n-1
               PROVE  times_solved[i] <= 1 /\ (~ MoreBatches => times_solved[i] = 1)
    BY DEF EachTargetSolvedOnce
  <2> DEFINE m == MaxBatchSize
  <2>1. target.n \in Nat /\ args.batches \in Nat \ {0} /\ batch_num \in 0..args.batches
    BY DEF GMLSInv, Shape, BatchInv
  <2>2. m \in Nat /\ target.n <= args.batches * m
    BY <2>1, CeilingCovers DEF MaxBatchSize
  <2>3. initial_index_for_batch = (IF target.n < batch_num * m THEN target.n
                                   ELSE batch_num * m)
    BY DEF GMLSInv, BatchInv
  <2>4. times_solved[i] = (IF i < initial_index_for_batch THEN 1 ELSE 0)
    BY DEF GMLSInv, BatchInv
  <2>5. ASSUME ~ MoreBatches
        PROVE  initial_index_for_batch = target.n
    <3>1. CASE batch_num = args.batches
      <4> HIDE DEF m
      <4> QED
        BY <2>1, <2>2, <2>3, <3>1
    <3>2. CASE batch_num # args.batches
      BY <2>1, <2>5, <3>2 DEF MoreBatches
    <3> QED
      BY <3>1, <3>2
  <2> QED
    BY <2>1, <2>4, <2>5
<1> QED
  BY Invariance, <1>1, PTL

-----------------------------------------------------------------------------
(* What became of the last call.  While it runs, the problem it was called *)
(* for is the one the user has set, which the kernels read; once a batch   *)
(* has run, its solution is in the alphas and in the coefficients.         *)
Running ==
  /\ outcome = "running"
  /\ one_batch => args.batches = 1
  /\ d_ss.lro = h_ss.lro
  /\ asked = ProblemSet(poly_order)
  /\ target.n = 0 => RHS = Empty
  /\ target.n > 0 /\ batch_num # 0 =>
       d_ss.alphas = Solved(asked) /\ FullPolynomialCoefficientsBasis = Solved(asked)

LatestInv ==
  /\ one_batch => entire_batch_computed_at_once
  /\ phase = "batches" => Running
  /\ HostGetsLatestSolution
  /\ KeptCoefficients
  /\ NoStaleCoefficientsInRHS

LEMMA InitLatest == Init => LatestInv
BY DEF Init, LatestInv, HostGetsLatestSolution, KeptCoefficients, NoStaleCoefficientsInRHS

(* A modifier empties RHS and leaves the alphas of both solution sets.     *)
LEMMA ModifiersKeepLatest ==
  ASSUME GMLSInv, LatestInv,
         \/ \E v \in Lists : setNeighborLists(v)
         \/ \E v \in SourceSites : setSourceSites(v)
         \/ \E v \in TargetSites : setTargetSites(v)
         \/ \E v \in EvaluationSites : setAdditionalEvaluationSitesData(v)
         \/ \E value \in Settings : SetOther(value)
         \/ setPolynomialOrder(UserOrder)
         \/ setTangentBundle
         \/ \E lro \in Operations : addTargets(lro)
         \/ clearTargets
  PROVE  LatestInv'
<1>1. Modify
  BY DEF setNeighborLists, setSourceSites, setTargetSites, setAdditionalEvaluationSitesData,
         SetOther, setPolynomialOrder, setTangentBundle, addTargets, clearTargets
<1>2. h_ss'.alphas = h_ss.alphas
  BY DEF setNeighborLists, setSourceSites, setTargetSites, setAdditionalEvaluationSitesData,
         SetOther, setPolynomialOrder, setTangentBundle, addTargets, clearTargets, Connect,
         GMLSInv, Shape, IsSolutionSet
<1>3. /\ phase' = "idle" /\ RHS' = Empty /\ ~ unmodified'
      /\ UNCHANGED <<d_ss, entire_batch_computed_at_once, outcome, asked, one_batch>>
  BY <1>1 DEF Modify, resetCoefficientData, flags, loop, history
<1>4. HostGetsLatestSolution'
  BY <1>2, <1>3 DEF LatestInv, HostGetsLatestSolution, HostAlphas
<1>5. KeptCoefficients' /\ NoStaleCoefficientsInRHS'
  BY <1>3 DEF KeptCoefficients, NoStaleCoefficientsInRHS
<1> QED
  BY <1>3, <1>4, <1>5 DEF LatestInv

LEMMA GenerateKeepsLatest ==
  ASSUME GMLSInv, LatestInv, NEW b \in Batches, NEW keep \in BOOLEAN, Generate(b, keep)
  PROVE  LatestInv'
<1>1. /\ phase = "idle"
      /\ one_batch' = (one_batch /\ b = 1)
      /\ UNCHANGED <<config, inputs, settings, conns, h_ss, entire_batch_computed_at_once>>
  BY DEF Generate, flags
<1>2. one_batch' => entire_batch_computed_at_once'
  BY <1>1 DEF LatestInv
<1>3. CASE outcome' = "threw"
  <2>1. phase' = "idle"
    BY <1>1, <1>3 DEF Generate, RefuseToKeep, Unsolvable, OutOfMemory, StartBatches, Throws
  <2> QED
    BY <1>2, <1>3, <2>1 DEF LatestInv, HostGetsLatestSolution, KeptCoefficients,
                            NoStaleCoefficientsInRHS
<1>4. CASE outcome' # "threw"
  <2>1. StartBatches(b, keep) /\ ~ (config.constrained /\ ~ tangent_provided)
    BY <1>4 DEF Generate, RefuseToKeep, Unsolvable, OutOfMemory, StartBatches, Throws
  <2>2. /\ d_ss' = [h_ss EXCEPT !.alphas = Allocated(target.n)]
        /\ poly_order' = OrderUsed
        /\ RHS' = Allocated(target.n)
        /\ batch_num' = 0 /\ outcome' = "running"
        /\ args' = [batches |-> b, keep |-> keep]
        /\ asked' = ProblemSet(OrderUsed)
    BY <2>1 DEF StartBatches
  <2>3. asked' = ProblemSet(poly_order)'
    BY <1>1, <2>2 DEF ProblemSet, inputs
  <2>4. d_ss'.lro = h_ss'.lro
    BY <1>1, <2>2 DEF GMLSInv, Shape, IsSolutionSet
  <2>5. target'.n = 0 => RHS' = Empty
    BY <1>1, <2>2 DEF Allocated, inputs
  <2>6. Running'
    BY <1>1, <2>2, <2>3, <2>4, <2>5 DEF Running
  <2> QED
    BY <1>2, <2>2, <2>6 DEF LatestInv, HostGetsLatestSolution, KeptCoefficients,
                            NoStaleCoefficientsInRHS
<1> QED
  BY <1>3, <1>4

(* What the kernels read is what the user has set.                         *)
LEMMA ReadsWhatWasSet ==
  ASSUME GMLSInv, phase = "batches", target.n > 0, d_ss.lro = h_ss.lro
  PROVE  ProblemRead(d_ss, poly_order) = ProblemSet(poly_order)
<1>1. ConnectedTo(d_ss)
  BY DEF GMLSInv, Shape, ConnectionInv, AllSet
<1> QED
  BY <1>1 DEF ConnectedTo, ProblemRead, ProblemSet

LEMMA BatchKeepsLatest ==
  ASSUME GMLSInv, LatestInv, Batch
  PROVE  LatestInv'
<1>1. /\ phase = "batches" /\ Running
      /\ UNCHANGED <<config, inputs, settings, poly_order, h_ss, phase, args,
                     entire_batch_computed_at_once, outcome, asked, one_batch>>
  BY DEF Batch, LatestInv, flags, history
<1>2. target.n \in Nat /\ IsSolutionSet(d_ss)
  BY DEF GMLSInv, Shape
<1>3. asked' = ProblemSet(poly_order)'
  BY <1>1 DEF Running, ProblemSet, inputs
<1>4. d_ss'.lro = h_ss'.lro
  <2>1. d_ss' = d_ss \/ \E a : d_ss' = [d_ss EXCEPT !.alphas = a]
    BY DEF Batch
  <2> QED
    BY <1>1, <1>2, <2>1 DEF Running, IsSolutionSet
<1>5. target'.n = 0 => RHS' = Empty
  BY <1>1 DEF Batch, Running, inputs, matrices
<1>6. ASSUME target'.n > 0
      PROVE  d_ss'.alphas = Solved(asked)' /\ FullPolynomialCoefficientsBasis' = Solved(asked)'
  <2>1. target.n > 0
    BY <1>1, <1>6 DEF inputs
  <2>2. ProblemRead(d_ss, poly_order) = asked
    BY <1>1, <2>1, ReadsWhatWasSet DEF Running
  <2>3. /\ d_ss' = [d_ss EXCEPT !.alphas = Solved(asked)]
        /\ RHS' = IF InP THEN Zeros ELSE Solved(asked)
        /\ P' = IF InP THEN Solved(asked) ELSE Zeros
    BY <2>1, <2>2 DEF Batch
  <2>4. Solved(asked)' = Solved(asked) /\ InP' = InP
    BY <1>1 DEF Solved, InP
  <2> QED
    BY <1>2, <2>3, <2>4 DEF FullPolynomialCoefficientsBasis, IsSolutionSet
<1>7. Running'
  BY <1>1, <1>3, <1>4, <1>5, <1>6 DEF Running
<1> QED
  BY <1>1, <1>7 DEF LatestInv, Running, HostGetsLatestSolution, KeptCoefficients,
                    NoStaleCoefficientsInRHS

LEMMA FinishKeepsLatest ==
  ASSUME GMLSInv, LatestInv, Finish
  PROVE  LatestInv'
<1>1. /\ phase = "batches" /\ Running /\ ~ MoreBatches
      /\ phase' = "idle" /\ outcome' = "returned"
      /\ h_ss' = Copied(d_ss)
      /\ entire_batch_computed_at_once' = (entire_batch_computed_at_once /\ args.batches = 1)
      /\ store_PTWP_inv_PTW' = (store_PTWP_inv_PTW \/ (args.batches = 1 /\ args.keep))
      /\ UNCHANGED <<config, inputs, settings, poly_order, d_ss, args, asked, one_batch>>
  BY DEF Finish, LatestInv
<1>2. RHS' = (IF args.batches = 1 /\ args.keep /\ ~ InP THEN RHS ELSE Empty)
      /\ P' = (IF args.batches = 1 /\ args.keep /\ InP THEN P ELSE Empty)
  BY DEF Finish, Deallocate
<1>3. IsSolutionSet(d_ss) /\ target.n \in Nat /\ asked.target = target
  BY <1>1 DEF GMLSInv, Shape, Running, ProblemSet
<1>4. batch_num # 0
  BY <1>1 DEF GMLSInv, Shape, MoreBatches
<1>5. h_ss'.lro = h_ss.lro /\ h_ss'.alphas \in {d_ss.alphas, Empty}
  BY <1>1, <1>3 DEF Running, Copied, IsSolutionSet
<1>6. target.n > 0 =>
        d_ss.alphas = Solved(asked) /\ FullPolynomialCoefficientsBasis = Solved(asked)
  BY <1>1, <1>4 DEF Running
<1>7. Solved(asked)' = Solved(asked) /\ InP' = InP
  BY <1>1 DEF Solved, InP
<1>8. one_batch' => entire_batch_computed_at_once'
  BY <1>1 DEF LatestInv, Running
<1>9. HostGetsLatestSolution'
  BY <1>1, <1>3, <1>5, <1>6, <1>7 DEF HostGetsLatestSolution, HostAlphas
<1>10. KeptCoefficients'
  BY <1>1, <1>2, <1>3, <1>6, <1>7, <1>8
     DEF Running, KeptCoefficients, Accessible, FullPolynomialCoefficientsBasis
<1>11. NoStaleCoefficientsInRHS'
  <2>1. ASSUME ~ InP, RHS' # Empty
        PROVE  RHS' = Solved(asked)
    <3>1. RHS' = RHS
      BY <1>2, <2>1
    <3>2. target.n > 0
      BY <1>1, <1>3, <2>1, <3>1 DEF Running
    <3> QED
      BY <1>6, <2>1, <3>1, <3>2 DEF FullPolynomialCoefficientsBasis
  <2>2. asked = ProblemSet(poly_order)'
    BY <1>1, <1>5 DEF Running, ProblemSet, inputs
  <2>3. Solved(asked) = Solved(ProblemSet(poly_order))'
    BY <2>2 DEF Solved
  <2> QED
    BY <1>7, <2>1, <2>3 DEF NoStaleCoefficientsInRHS
<1> QED
  BY <1>1, <1>8, <1>9, <1>10, <1>11 DEF LatestInv

LEMMA FetchKeepsLatest ==
  ASSUME GMLSInv, LatestInv, getSolutionSetHost
  PROVE  LatestInv'
<1>1. /\ phase = "idle"
      /\ h_ss.alphas = Empty /\ d_ss.alphas # Empty
      /\ h_ss' = [h_ss EXCEPT !.alphas = d_ss.alphas]
      /\ UNCHANGED <<config, inputs, settings, poly_order, d_ss, matrices, flags, loop,
                     history, unmodified>>
  BY DEF getSolutionSetHost
<1>2. h_ss'.alphas = d_ss.alphas /\ h_ss'.lro = h_ss.lro
  BY <1>1 DEF GMLSInv, Shape, IsSolutionSet
<1>3. HostGetsLatestSolution'
  BY <1>1, <1>2 DEF LatestInv, HostGetsLatestSolution, HostAlphas, Solved, history
<1>4. KeptCoefficients'
  BY <1>1 DEF LatestInv, KeptCoefficients, Accessible, FullPolynomialCoefficientsBasis, InP,
              Solved, matrices, flags, loop, history
<1>5. NoStaleCoefficientsInRHS'
  BY <1>1, <1>2 DEF LatestInv, NoStaleCoefficientsInRHS, InP, Solved, ProblemSet, inputs,
                    matrices, history
<1> QED
  BY <1>1, <1>3, <1>4, <1>5 DEF LatestInv, flags, loop, history

LEMMA StepLatest ==
  ASSUME GMLSInv, LatestInv, [Next]_vars
  PROVE  LatestInv'
<1>1. CASE Next
  BY <1>1, ModifiersKeepLatest, GenerateKeepsLatest, BatchKeepsLatest, FinishKeepsLatest,
     FetchKeepsLatest DEF Next
<1>2. CASE UNCHANGED vars
  BY <1>2 DEF vars, inputs, conns, matrices, flags, loop, history, LatestInv, Running,
              HostGetsLatestSolution, HostAlphas, KeptCoefficients, Accessible,
              FullPolynomialCoefficientsBasis, InP, Solved, ProblemSet,
              NoStaleCoefficientsInRHS
<1> QED
  BY <1>1, <1>2

LEMMA LatestAlways == Spec => []LatestInv
<1>1. GMLSInv /\ LatestInv /\ [Next]_vars => LatestInv'
  BY StepLatest
<1> QED
  BY InitLatest, Invariance, <1>1, PTL DEF Spec

(***************************************************************************)
(* After a call has returned, host and device have the solution of the     *)
(* problem it was called for, whatever was called before or has been       *)
(* modified since, for one memory and for two.                             *)
(***************************************************************************)
THEOREM LatestSolutionTheorem == Spec => []HostGetsLatestSolution
<1>1. LatestInv => HostGetsLatestSolution
  BY DEF LatestInv
<1> QED
  BY LatestAlways, <1>1, PTL

(***************************************************************************)
(* Coefficients that were to be kept are in the matrix that the accessor   *)
(* looks at, for every solver and constraint.                              *)
(***************************************************************************)
THEOREM KeptTheorem == Spec => []KeptCoefficients
<1>1. LatestInv => KeptCoefficients
  BY DEF LatestInv
<1> QED
  BY LatestAlways, <1>1, PTL

(***************************************************************************)
(* RHS never holds coefficients of a problem that has since been modified. *)
(***************************************************************************)
THEOREM NoStaleTheorem == Spec => []NoStaleCoefficientsInRHS
<1>1. LatestInv => NoStaleCoefficientsInRHS
  BY DEF LatestInv
<1> QED
  BY LatestAlways, <1>1, PTL
-----------------------------------------------------------------------------
(* Type correctness.  What is solved is of targets that were connected,    *)
(* and the loop leaves its counter at 0, whatever the arguments.           *)
TypeInv ==
  /\ TypeOK
  /\ pc.target \in TargetSites \cup {NoView}
  /\ args.batches \in Nat
  /\ phase = "idle" => batch_num = 0

LEMMA DataTypes ==
  /\ MatrixOK(Empty) /\ MatrixOK(Zeros)
  /\ \A m \in Nat : MatrixOK(Allocated(m))
  /\ \A p : p.target \in TargetSites \cup {NoView} => MatrixOK(Solved(p))
BY DEF MatrixOK, Empty, Zeros, Allocated, Solved, NoProblem

LEMMA SolutionTypes ==
  ASSUME NEW ss, IsSolutionSet(ss), SolutionOK(ss)
  PROVE  /\ \A a : MatrixOK(a) => SolutionOK([ss EXCEPT !.alphas = a])
         /\ \A l \in SUBSET Operations : SolutionOK([ss EXCEPT !.lro = l])
         /\ SolutionOK(Copied(ss))
<1>1. \A a : MatrixOK(a) => SolutionOK([ss EXCEPT !.alphas = a])
  BY DEF IsSolutionSet, SolutionOK
<1>2. \A l \in SUBSET Operations : SolutionOK([ss EXCEPT !.lro = l])
  BY DEF IsSolutionSet, SolutionOK
<1>3. SolutionOK(Copied(ss))
  BY <1>1, DataTypes DEF Copied
<1> QED
  BY <1>1, <1>2, <1>3

LEMMA InitType == Init => TypeInv
<1> SUFFICES ASSUME Init PROVE TypeInv
  OBVIOUS
<1>1. MatrixOK(Empty)
  BY DataTypes
<1>2. SolutionOK(NoSolution)
  BY <1>1 DEF SolutionOK, NoSolution
<1>3. NoRows(0).n = 0 /\ NoRows(0).most = 0 /\ NoArgs.batches = 1
  BY DEF NoRows, NoArgs
<1>4. pc.target = NoView
  BY DEF Init, NoConnection
<1>5. /\ additional_indices.n \in Nat /\ additional_indices.most \in Nat
      /\ batch_num \in 0..args.batches /\ poly_order \in Nat
      /\ initial_index_for_batch \in Nat /\ phase # "batches"
  BY <1>3, OrderAssumption DEF Init
<1>6. /\ SolutionOK(h_ss) /\ SolutionOK(d_ss) /\ MatrixOK(RHS) /\ MatrixOK(P)
  BY <1>1, <1>2 DEF Init
<1>7. TypeOK
  BY <1>5, <1>6 DEF Init, TypeOK
<1> QED
  BY <1>3, <1>4, <1>7 DEF Init, TypeInv

(* The setters that connect, for what they pass on.                        *)
LEMMA ConnectType ==
  ASSUME TypeInv, GMLSInv, NEW ready \in BOOLEAN, NEW nl \in Lists \cup {NoView},
         NEW tgt \in TargetSites \cup {NoView}, NEW src, NEW indices,
         NEW max_sites \in Nat \ {0},
         Connect(ready, nl, tgt, src, indices, max_sites)
  PROVE  SolutionOK(h_ss') /\ pc'.target \in TargetSites \cup {NoView}
<1>1. IsSolutionSet(h_ss) /\ SolutionOK(h_ss)
  BY DEF GMLSInv, Shape, TypeInv, TypeOK
<1>2. h_ss'.lro = h_ss.lro /\ h_ss'.alphas = h_ss.alphas
      /\ h_ss'.max_sites = max_sites /\ h_ss'.nla \in {nl, h_ss.nla}
  BY <1>1 DEF Connect, IsSolutionSet
<1>3. SolutionOK(h_ss')
  BY <1>1, <1>2 DEF SolutionOK
<1>4. pc'.target \in TargetSites \cup {NoView}
  BY DEF Connect, TypeInv
<1> QED
  BY <1>3, <1>4

LEMMA SettersType ==
  ASSUME TypeInv, GMLSInv,
         \/ \E v \in Lists : setNeighborLists(v)
         \/ \E v \in SourceSites : setSourceSites(v)
         \/ \E v \in TargetSites : setTargetSites(v)
         \/ \E v \in EvaluationSites : setAdditionalEvaluationSitesData(v)
  PROVE  TypeInv'
<1>1. /\ phase = "idle" /\ RHS' = Empty /\ unmodified' = FALSE
      /\ UNCHANGED <<config, d_ss, P, settings, poly_order, tangent_provided, host_T,
                     entire_batch_computed_at_once, store_PTWP_inv_PTW, phase, args,
                     batch_num, initial_index_for_batch, outcome, one_batch>>
  BY DEF setNeighborLists, setSourceSites, setTargetSites,
         setAdditionalEvaluationSitesData, Modify, resetCoefficientData, flags, loop, history
<1>2. TypeOK /\ h_ss.max_sites \in Nat \ {0} /\ MatrixOK(Empty)
  BY DataTypes DEF TypeInv, TypeOK, SolutionOK
<1>3. /\ source' \in SourceSites \cup {NoView} /\ target' \in TargetSites \cup {NoView}
      /\ neighbor_lists' \in Lists \cup {NoView}
      /\ additional_indices'.n \in Nat /\ additional_indices'.most \in Nat
      /\ SolutionOK(h_ss') /\ pc'.target \in TargetSites \cup {NoView}
  <2>1. ASSUME NEW v \in Lists, setNeighborLists(v) PROVE <1>3
    <3>1. UNCHANGED <<source, target, additional_indices>> /\ neighbor_lists' = v
      BY <2>1 DEF setNeighborLists
    <3>2. Connect(source.n > 0 /\ target.n > 0,
                  v, target, source, additional_indices, h_ss.max_sites)
      BY <2>1 DEF setNeighborLists
    <3>3. SolutionOK(h_ss') /\ pc'.target \in TargetSites \cup {NoView}
      BY <1>2, <3>2, ConnectType DEF TypeOK
    <3> QED
      BY <1>2, <3>1, <3>3 DEF TypeOK
  <2>2. ASSUME NEW v \in SourceSites, setSourceSites(v) PROVE <1>3
    <3>1. UNCHANGED <<neighbor_lists, target, additional_indices>> /\ source' = v
      BY <2>2 DEF setSourceSites
    <3>2. Connect(target.n > 0 /\ neighbor_lists.n > 0,
                  neighbor_lists, target, v, additional_indices, h_ss.max_sites)
      BY <2>2 DEF setSourceSites
    <3>3. SolutionOK(h_ss') /\ pc'.target \in TargetSites \cup {NoView}
      BY <1>2, <3>2, ConnectType DEF TypeOK
    <3> QED
      BY <1>2, <3>1, <3>3 DEF TypeOK
  <2>3. ASSUME NEW v \in TargetSites, setTargetSites(v) PROVE <1>3
    <3> DEFINE indices == IF KeptIndices(v) THEN additional_indices ELSE NoRows(v.n)
               max_sites == IF KeptIndices(v) THEN h_ss.max_sites ELSE 1
    <3>1. /\ UNCHANGED <<source, neighbor_lists>> /\ target' = v
          /\ additional_indices' = indices
      BY <2>3 DEF setTargetSites
    <3>2. Connect(source.n > 0 /\ neighbor_lists.n > 0, neighbor_lists, v, source,
                  indices, max_sites)
      BY <2>3 DEF setTargetSites
    <3>3. indices.n \in Nat /\ indices.most \in Nat /\ max_sites \in Nat \ {0}
      BY <1>2, ExtentsAssumption DEF TypeOK, NoRows
    <3>4. SolutionOK(h_ss') /\ pc'.target \in TargetSites \cup {NoView}
      <4> HIDE DEF indices, max_sites
      <4> QED
        BY <1>2, <3>2, <3>3, ConnectType DEF TypeOK
    <3> QED
      BY <1>2, <3>1, <3>3, <3>4 DEF TypeOK
  <2>4. ASSUME NEW v \in EvaluationSites, setAdditionalEvaluationSitesData(v) PROVE <1>3
    <3>1. /\ UNCHANGED <<source, target, neighbor_lists, pc>>
          /\ additional_indices' = v /\ h_ss' = [h_ss EXCEPT !.max_sites = v.most + 1]
      BY <2>4 DEF setAdditionalEvaluationSitesData
    <3>2. v.n \in Nat /\ v.most \in Nat
      BY ExtentsAssumption
    <3>3. IsSolutionSet(h_ss) /\ SolutionOK(h_ss)
      BY <1>2 DEF GMLSInv, Shape, TypeOK
    <3>4. SolutionOK(h_ss')
      BY <3>1, <3>2, <3>3 DEF IsSolutionSet, SolutionOK
    <3> QED
      BY <1>2, <3>1, <3>2, <3>4 DEF TypeOK, TypeInv
  <2> QED
    BY <2>1, <2>2, <2>3, <2>4
<1>4. TypeOK'
  BY <1>1, <1>2, <1>3 DEF TypeOK
<1> QED
  BY <1>1, <1>3, <1>4 DEF TypeInv

LEMMA OthersType ==
  ASSUME TypeInv, GMLSInv,
         \/ \E value \in Settings : SetOther(value)
         \/ setPolynomialOrder(UserOrder)
         \/ setTangentBundle
         \/ \E lro \in Operations : addTargets(lro)
         \/ clearTargets
  PROVE  TypeInv'
<1>1. /\ phase = "idle" /\ RHS' = Empty /\ unmodified' = FALSE
      /\ UNCHANGED <<config, d_ss, P, source, target, neighbor_lists, additional_indices,
                     pc, entire_batch_computed_at_once, store_PTWP_inv_PTW, phase, args,
                     batch_num, initial_index_for_batch, outcome, one_batch>>
  BY DEF SetOther, setPolynomialOrder, setTangentBundle, addTargets, clearTargets,
         Modify, resetCoefficientData, flags, loop, history, inputs, conns
<1>2. /\ settings' = settings \/ settings' \in Settings
      /\ poly_order' = poly_order \/ poly_order' = UserOrder
      /\ tangent_provided' \in {tangent_provided, TRUE} /\ host_T' \in {host_T, "user"}
  BY DEF SetOther, setPolynomialOrder, setTangentBundle, addTargets, clearTargets
<1>3. TypeOK /\ IsSolutionSet(h_ss) /\ SolutionOK(h_ss) /\ MatrixOK(Empty)
  BY DataTypes DEF TypeInv, TypeOK, GMLSInv, Shape
<1>4. SolutionOK(h_ss')
  <2>1. h_ss' = h_ss \/ \E l \in SUBSET Operations : h_ss' = [h_ss EXCEPT !.lro = l]
    <3>1. ASSUME NEW lro \in Operations, addTargets(lro)
          PROVE  \E l \in SUBSET Operations : h_ss' = [h_ss EXCEPT !.lro = l]
      <4>1. h_ss.lro \cup {lro} \in SUBSET Operations
        BY <1>3 DEF SolutionOK
      <4> QED
        BY <3>1, <4>1 DEF addTargets
    <3>2. ASSUME clearTargets
          PROVE  \E l \in SUBSET Operations : h_ss' = [h_ss EXCEPT !.lro = l]
      <4>1. {} \in SUBSET Operations
        OBVIOUS
      <4> QED
        BY <3>2, <4>1 DEF clearTargets
    <3> QED
      BY <3>1, <3>2 DEF SetOther, setPolynomialOrder, setTangentBundle
  <2> QED
    BY <1>3, <2>1, SolutionTypes
<1>5. /\ settings' \in Settings /\ poly_order' \in Nat /\ tangent_provided' \in BOOLEAN
      /\ host_T' \in {"nobody", "user", "solver"} /\ unmodified' \in BOOLEAN
  BY <1>1, <1>2, <1>3, OrderAssumption DEF TypeOK
<1>6. TypeOK'
  BY <1>1, <1>3, <1>4, <1>5 DEF TypeOK
<1> QED
  BY <1>1, <1>6 DEF TypeInv

LEMMA GenerateType ==
  ASSUME TypeInv, GMLSInv, NEW b \in Batches, NEW keep \in BOOLEAN, Generate(b, keep)
  PROVE  TypeInv'
<1>1. /\ phase = "idle" /\ one_batch' = (one_batch /\ b = 1)
      /\ UNCHANGED <<config, source, target, neighbor_lists, additional_indices, settings,
                     pc, h_ss, tangent_provided, host_T,
                     entire_batch_computed_at_once, store_PTWP_inv_PTW>>
  BY DEF Generate, inputs, conns, flags
<1>2. /\ TypeOK /\ IsSolutionSet(h_ss) /\ SolutionOK(h_ss) /\ target.n \in Nat
      /\ batch_num = 0 /\ poly_order + 1 \in Nat /\ poly_order \in Nat
      /\ pc.target \in TargetSites \cup {NoView} /\ args.batches \in Nat
      /\ SolutionOK(d_ss) /\ MatrixOK(RHS) /\ MatrixOK(P) /\ initial_index_for_batch \in Nat
  BY <1>1 DEF TypeInv, TypeOK, GMLSInv, Shape
<1>3. /\ MatrixOK(Empty) /\ MatrixOK(Zeros) /\ MatrixOK(Allocated(target.n))
      /\ SolutionOK(Copied(h_ss)) /\ SolutionOK([h_ss EXCEPT !.alphas = Zeros])
      /\ SolutionOK([h_ss EXCEPT !.alphas = Allocated(target.n)])
  BY <1>2, DataTypes, SolutionTypes
<1>4. OrderUsed \in Nat
  BY <1>2 DEF OrderUsed
<1>5. b \in Nat \ {0}
  BY BatchesAssumption
<1>6. SolutionOK(d_ss') /\ poly_order' \in Nat /\ MatrixOK(RHS') /\ MatrixOK(P')
  BY <1>2, <1>3, <1>4 DEF Generate, RefuseToKeep, Unsolvable, OutOfMemory, StartBatches,
                          matrices
<1>7. one_batch' \in BOOLEAN
  BY <1>1, <1>2 DEF TypeOK
<1>8. CASE Throws
  <2>1. /\ outcome' = "threw" /\ args' = NoArgs /\ unmodified' = FALSE
        /\ UNCHANGED <<phase, batch_num, initial_index_for_batch>>
    BY <1>8 DEF Throws
  <2>2. NoArgs.batches = 1
    BY DEF NoArgs
  <2>3. batch_num' \in 0..args'.batches /\ phase' = "idle"
    BY <1>1, <1>2, <2>1, <2>2
  <2>4. TypeOK'
    BY <1>1, <1>2, <1>6, <1>7, <2>1, <2>3 DEF TypeOK
  <2> QED
    BY <1>1, <1>2, <2>1, <2>2, <2>4 DEF TypeInv
<1>9. CASE ~ Throws
  <2>1. /\ phase' = "batches" /\ batch_num' = 0 /\ initial_index_for_batch' = 0
        /\ outcome' = "running" /\ args' = [batches |-> b, keep |-> keep]
        /\ unmodified' = TRUE
    BY <1>9 DEF Generate, RefuseToKeep, Unsolvable, OutOfMemory, StartBatches
  <2>2. args'.batches = b
    BY <2>1
  <2>3. /\ batch_num' \in 0..args'.batches /\ initial_index_for_batch' \in Nat
        /\ phase' = "batches" => initial_index_for_batch' <= target.n
    BY <1>2, <1>5, <2>1, <2>2
  <2>4. TypeOK'
    BY <1>1, <1>2, <1>6, <1>7, <2>1, <2>3 DEF TypeOK
  <2> QED
    BY <1>1, <1>2, <1>5, <2>1, <2>2, <2>4 DEF TypeInv
<1> QED
  BY <1>8, <1>9

LEMMA BatchType ==
  ASSUME TypeInv, GMLSInv, GMLSInv', Batch
  PROVE  TypeInv'
<1>1. /\ phase = "batches" /\ MoreBatches /\ batch_num' = batch_num + 1
      /\ initial_index_for_batch' = initial_index_for_batch + ThisBatchSize
      /\ host_T' \in {host_T, "solver"}
      /\ UNCHANGED <<config, source, target, neighbor_lists, additional_indices, settings,
                     poly_order, pc, h_ss, tangent_provided, phase, args, outcome,
                     entire_batch_computed_at_once, store_PTWP_inv_PTW, one_batch,
                     unmodified>>
  BY DEF Batch, inputs, conns, flags, history
<1>2. /\ TypeOK /\ IsSolutionSet(d_ss) /\ SolutionOK(d_ss) /\ args.batches \in Nat
      /\ pc.target \in TargetSites \cup {NoView}
      /\ batch_num \in 0..args.batches /\ MatrixOK(RHS) /\ MatrixOK(P)
  BY DEF TypeInv, TypeOK, GMLSInv, Shape
<1>3. MatrixOK(Zeros) /\ MatrixOK(Solved(ProblemRead(d_ss, poly_order)))
  BY <1>2, DataTypes DEF ProblemRead
<1>4. SolutionOK(d_ss') /\ MatrixOK(RHS') /\ MatrixOK(P')
  BY <1>2, <1>3, SolutionTypes DEF Batch, matrices
<1>5. batch_num' \in 0..args.batches
  BY <1>1, <1>2 DEF MoreBatches
<1>6. initial_index_for_batch' \in Nat /\ initial_index_for_batch' <= target.n
  <2>1. /\ initial_index_for_batch' =
             (IF target.n < batch_num' * MaxBatchSize' THEN target.n
              ELSE batch_num' * MaxBatchSize')
        /\ target.n \in Nat /\ args'.batches \in Nat \ {0}
    BY <1>1 DEF GMLSInv, BatchInv, Shape
  <2>2. MaxBatchSize' \in Nat
    <3>1. MaxBatchSize' = (target.n + args.batches - 1) \div args.batches
      BY <1>1 DEF MaxBatchSize
    <3> QED
      BY <1>1, <2>1, <3>1, CeilingCovers
  <2>3. batch_num' * MaxBatchSize' \in Nat
    <3>1. batch_num' \in Nat /\ \A x, y \in Nat : x * y \in Nat
      BY <1>2, <1>5
    <3> QED
      BY <2>2, <3>1
  <2> QED
    BY <2>1, <2>3
<1>7. TypeOK'
  BY <1>1, <1>2, <1>4, <1>5, <1>6 DEF TypeOK
<1> QED
  BY <1>1, <1>2, <1>7 DEF TypeInv

LEMMA EndType ==
  ASSUME TypeInv, GMLSInv, Finish \/ getSolutionSetHost
  PROVE  TypeInv'
<1>1. /\ phase' = "idle" /\ batch_num' = 0 /\ outcome' \in {outcome, "returned"}
      /\ UNCHANGED <<config, source, target, neighbor_lists, additional_indices, settings,
                     poly_order, pc, d_ss, tangent_provided, host_T, args,
                     initial_index_for_batch, unmodified, one_batch>>
  BY DEF Finish, getSolutionSetHost, inputs, conns, loop, history, TypeInv
<1>2. /\ TypeOK /\ IsSolutionSet(h_ss) /\ SolutionOK(h_ss) /\ IsSolutionSet(d_ss)
      /\ SolutionOK(d_ss) /\ MatrixOK(d_ss.alphas) /\ args.batches \in Nat
      /\ pc.target \in TargetSites \cup {NoView} /\ MatrixOK(RHS) /\ MatrixOK(P)
  BY DEF TypeInv, TypeOK, GMLSInv, Shape, SolutionOK
<1>3. SolutionOK(h_ss')
  BY <1>2, SolutionTypes DEF Finish, getSolutionSetHost
<1>4. MatrixOK(RHS') /\ MatrixOK(P')
  BY <1>2, DataTypes DEF Finish, getSolutionSetHost, Deallocate, matrices
<1>5. entire_batch_computed_at_once' \in BOOLEAN /\ store_PTWP_inv_PTW' \in BOOLEAN
  BY <1>2 DEF Finish, getSolutionSetHost, flags, TypeOK
<1>6. TypeOK'
  BY <1>1, <1>2, <1>3, <1>4, <1>5 DEF TypeOK
<1> QED
  BY <1>1, <1>2, <1>6 DEF TypeInv

(***************************************************************************)
(* Every variable keeps a value of its type: in any order of setters,      *)
(* solutions and failed calls the matrices are of targets that were set,   *)
(* and the loop's counters stay within the batches and the targets.        *)
(***************************************************************************)
THEOREM TypeCorrect == Spec => []TypeOK
<1>1. TypeInv /\ GMLSInv /\ GMLSInv' /\ [Next]_vars => TypeInv'
  <2> SUFFICES ASSUME TypeInv, GMLSInv, GMLSInv', [Next]_vars PROVE TypeInv'
    OBVIOUS
  <2>1. CASE Next
    BY <2>1, SettersType, OthersType, GenerateType, BatchType, EndType DEF Next
  <2>2. CASE UNCHANGED vars
    BY <2>2 DEF vars, inputs, conns, matrices, flags, loop, history, TypeInv, TypeOK
  <2> QED
    BY <2>1, <2>2
<1>2. TypeInv => TypeOK
  BY DEF TypeInv
<1> QED
  BY InitType, Invariance, <1>1, <1>2, PTL DEF Spec

=============================================================================
