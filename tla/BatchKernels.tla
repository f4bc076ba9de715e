---------------------------- MODULE BatchKernels ----------------------------
(***************************************************************************)
(* The batches of generatePolynomialCoefficients, kernel by kernel.  A     *)
(* batch is a program of stages; a stage launches one team for each target *)
(* of the batch, in any order, and the next begins when all have ended.    *)
(* Teams share the arrays P, RHS and Z, where each has a slice by its      *)
(* index in the batch, and arrays with a place for each target.            *)
(*                                                                         *)
(* The numbers in the arrays are replaced by where they come from: what    *)
(* they are, of which reconstruction and target, in which frame (the       *)
(* tangent directions T that were read), and whether anything that was not *)
(* meant for them has entered.  A slice remembers where and how wide the   *)
(* rows were written; read at another place or width it is garbage.  Every *)
(* target has as many neighbours as the slices have room for: a shorter    *)
(* one would leave rows of the last use behind its own, against which the  *)
(* kernels hold rows of zeros.                                             *)
(***************************************************************************)
EXTENDS TeamScratch, Sequences

CONSTANTS
  Problems,    \* the problems g to solve (see BatchLayout)
  NumTargets,
  Batches,     \* numbers of batches asked for
  MaxCalls     \* bound on the calls on one object, which the code has not

ASSUME ProblemsAssumption ==
  \A g \in Problems :
    /\ g.problem \in {"STANDARD", "MANIFOLD"} /\ g.solver \in {"QR", "LU"}
    /\ g.constraint \in {"NONE", "NEUMANN"} /\ g.sampling \in Sampling
    /\ g.space \in {"Scalar", "Vector", "Clones", "DivergenceFree"}
    /\ g.tangents \in {"computed", "oriented", "provided"}
    /\ g.order \in Nat /\ g.curvature_order \in Nat
    /\ g.dims \in {1, 2, 3} /\ (OnManifold(g) => g.dims > 1)
    /\ g.max_neighbors \in Nat \ {0} /\ g.alpha_rows \in Nat \ {0}
    (* checked by the code: constraints need LU, and normals               *)
    /\ g.constraint = "NEUMANN" => g.solver = "LU" /\ g.tangents = "provided"
    (* samples along a manifold                                            *)
    /\ g.sampling \in {"ManifoldVectorPoint", "VaryingManifoldVectorPoint",
                       "StaggeredEdgeIntegral"} => OnManifold(g)

ASSUME BatchesAssumption ==
  NumTargets \in Nat \ {0} /\ Batches \subseteq Nat \ {0} /\ MaxCalls \in Nat

Targets == 0..NumTargets-1

VARIABLES
  g,                        \* the problem, as the object is set now
  phase,                    \* "idle", or "running" in generatePolynomialCoefficients
  number_of_batches, batch_num, initial_index_for_batch,
  stage, pass,              \* place in the program; "none" before a batch
  todo,                     \* teams of the stage that have not run
  P, RHS, Z,                \* slices of the batch
  T, curvature_coefficients, prestencil_weights, alphas,   \* by target
  calls

loop == <<number_of_batches, batch_num, initial_index_for_batch>>
byTarget == <<T, curvature_coefficients, prestencil_weights, alphas>>
vars == <<g, phase, loop, stage, pass, todo, P, RHS, Z, byTarget, calls>>

-----------------------------------------------------------------------------
(* Provenance.                                                             *)
NoFrame == [is |-> "none", oriented |-> FALSE]
Frame(is, oriented) == [is |-> is, oriented |-> oriented]

Of(is, of, t, frame, sound) ==
  [is |-> is, of |-> of, target |-> t, frame |-> frame, sound |-> sound]
As(is, value) == Of(is, value.of, value.target, value.frame, value.sound)

Zeros   == Of("zeros", "none", 0, NoFrame, TRUE)
Garbage == Of("garbage", "none", 0, NoFrame, FALSE)

Put(k, dims, value) == [begin |-> Begin(k, dims), width |-> dims[2], value |-> value]

(* What a reader who takes the slice at k, dims finds.                     *)
Get(slice, k, dims) ==
  IF slice.value = Zeros \/ (slice.begin = Begin(k, dims) /\ slice.width = dims[2])
  THEN slice.value ELSE Garbage

ZeroSlices(n) == [k \in 0..n-1 |-> Put(0, <<0, 0>>, Zeros)]

-----------------------------------------------------------------------------
(* The program of a batch.  On a manifold the geometry is reconstructed    *)
(* twice if tangents have to be found: pass tells which time it is.        *)
ComputesTangents == g.tangents # "provided"

FirstStage ==
  IF ~ OnManifold(g) THEN "AssembleStandardPsqrtW"
  ELSE IF ComputesTangents THEN "ComputeCoarseTangentPlane" ELSE "AssembleCurvaturePsqrtW"

FirstPass == IF OnManifold(g) /\ ComputesTangents THEN "tangents" ELSE "geometry"

(* Mutated form of Following: P is not cleared between the geometry and    *)
(* the problem.                                                            *)
FollowingUncleared ==
  CASE stage = "ComputeCoarseTangentPlane" ->
         IF g.tangents = "oriented" THEN "FixTangentDirectionOrdering"
         ELSE "AssembleCurvaturePsqrtW"
    [] stage = "FixTangentDirectionOrdering" -> "AssembleCurvaturePsqrtW"
    [] stage = "AssembleCurvaturePsqrtW" -> "SolveCurvature"
    [] stage = "SolveCurvature" ->
         IF pass = "tangents" THEN "GetAccurateTangentDirections" ELSE "ApplyCurvatureTargets"
    [] stage = "GetAccurateTangentDirections" -> "ClearP"
    [] stage = "ApplyCurvatureTargets" -> "ComputePrestencilWeights"
    [] stage = "ComputePrestencilWeights" ->
         IF OnManifold(g) THEN "AssembleManifoldPsqrtW" ELSE "EvaluateStandardTargets"
    [] stage = "ClearP" -> "AssembleCurvaturePsqrtW"
    [] stage \in {"AssembleStandardPsqrtW", "AssembleManifoldPsqrtW"} -> "SolveProblem"
    [] stage = "SolveProblem" ->
         IF OnManifold(g) THEN "EvaluateManifoldTargets" ELSE "ComputePrestencilWeights"
    [] OTHER -> "ApplyTargets"

Following ==
  CASE stage = "ComputeCoarseTangentPlane" ->
         IF g.tangents = "oriented" THEN "FixTangentDirectionOrdering"
         ELSE "AssembleCurvaturePsqrtW"
    [] stage = "FixTangentDirectionOrdering" -> "AssembleCurvaturePsqrtW"
    [] stage = "AssembleCurvaturePsqrtW" -> "SolveCurvature"
    [] stage = "SolveCurvature" ->
         IF pass = "tangents" THEN "GetAccurateTangentDirections" ELSE "ApplyCurvatureTargets"
    [] stage = "GetAccurateTangentDirections" -> "ClearP"
    [] stage = "ApplyCurvatureTargets" -> "ComputePrestencilWeights"
    [] stage = "ComputePrestencilWeights" ->
         IF OnManifold(g) THEN "ClearP" ELSE "EvaluateStandardTargets"
    [] stage = "ClearP" ->
         IF pass = "tangents" THEN "AssembleCurvaturePsqrtW" ELSE "AssembleManifoldPsqrtW"
    [] stage \in {"AssembleStandardPsqrtW", "AssembleManifoldPsqrtW"} -> "SolveProblem"
    [] stage = "SolveProblem" ->
         IF OnManifold(g) THEN "EvaluateManifoldTargets" ELSE "ComputePrestencilWeights"
    [] OTHER -> "ApplyTargets"

(* Mutated form of MaxBatchSize: rounded down.                             *)
MaxBatchSizeFloor(n) == NumTargets \div n

MaxBatchSize(n) == (NumTargets + n - 1) \div n
ThisBatchSize ==
  IF NumTargets - initial_index_for_batch < MaxBatchSize(number_of_batches)
  THEN NumTargets - initial_index_for_batch ELSE MaxBatchSize(number_of_batches)

Teams == 0..ThisBatchSize-1
TargetOf(k) == initial_index_for_batch + k

-----------------------------------------------------------------------------
NoAlphas == [coefficients |-> Zeros, row |-> Zeros]

Init ==
  /\ g \in Problems /\ phase = "idle"
  /\ number_of_batches = 1 /\ batch_num = 0 /\ initial_index_for_batch = 0
  /\ stage = "none" /\ pass = "geometry" /\ todo = {}
  /\ P = ZeroSlices(0) /\ RHS = ZeroSlices(0) /\ Z = ZeroSlices(0)
  /\ T = [t \in Targets |-> NoFrame]
  /\ curvature_coefficients = [t \in Targets |-> Zeros]
  /\ prestencil_weights = [t \in Targets |-> <<>>]
  /\ alphas = [t \in Targets |-> NoAlphas]
  /\ calls = 0

(* What a user cannot change after construction; provided tangents remain. *)
(* An order that a call has raised is set again before the next.           *)
SameObject(p, q) ==
  /\ p.problem = q.problem /\ p.solver = q.solver /\ p.constraint = q.constraint
  /\ p.space = q.space /\ p.sampling = q.sampling /\ p.dims = q.dims
  /\ p.tangents = "provided" => q.tangents = "provided"

ProvidedFrames(q) == [t \in Targets |->
  IF q.tangents = "provided" THEN Frame("provided", FALSE) ELSE NoFrame]

(* Mutated form of NewWeights: the array of the last call is used again.   *)
OldWeights == prestencil_weights

(* The array of weights is allocated by each call.                         *)
NewWeights == [t \in Targets |-> <<>>]

(* The part of a call that precedes the loop: everything is allocated.     *)
Call(q, n) ==
  /\ phase = "idle" /\ calls < MaxCalls
  /\ SameObject(g, q)
  /\ g' = q /\ phase' = "running" /\ calls' = calls + 1
  /\ number_of_batches' = n /\ batch_num' = 0 /\ initial_index_for_batch' = 0
  /\ P' = ZeroSlices(MaxBatchSize(n))
  /\ RHS' = ZeroSlices(MaxBatchSize(n))
  /\ Z' = ZeroSlices(MaxBatchSize(n))
  /\ T' = ProvidedFrames(q)
  /\ curvature_coefficients' = [t \in Targets |-> Zeros]
  /\ prestencil_weights' = NewWeights
  /\ alphas' = [t \in Targets |-> NoAlphas]
  /\ UNCHANGED <<stage, pass, todo>>

(* The arrays of the batch are cleared and its first kernel is launched.   *)
StartBatch ==
  /\ phase = "running" /\ stage = "none"
  /\ P' = ZeroSlices(MaxBatchSize(number_of_batches))
  /\ RHS' = ZeroSlices(MaxBatchSize(number_of_batches))
  /\ Z' = ZeroSlices(MaxBatchSize(number_of_batches))
  /\ stage' = FirstStage /\ pass' = FirstPass /\ todo' = Teams
  /\ UNCHANGED <<g, phase, loop, byTarget, calls>>

(* A kernel is launched when all teams of the one before have ended.       *)
NextStage ==
  /\ stage \notin {"none", "ApplyTargets"} /\ todo = {}
  /\ stage' = Following /\ todo' = Teams
  /\ pass' = IF stage = "ClearP" THEN "geometry" ELSE pass
  /\ UNCHANGED <<g, phase, loop, P, RHS, Z, byTarget, calls>>

LastBatch ==
  \/ initial_index_for_batch + ThisBatchSize = NumTargets
  \/ batch_num + 1 = number_of_batches

(* Mutated form of EndBatch: a short last batch is counted as a full one.  *)
EndFullBatch ==
  /\ stage = "ApplyTargets" /\ todo = {}
  /\ stage' = "none"
  /\ initial_index_for_batch' = initial_index_for_batch + MaxBatchSize(number_of_batches)
  /\ batch_num' = batch_num + 1
  /\ phase' = IF LastBatch THEN "idle" ELSE "running"
  /\ UNCHANGED <<g, number_of_batches, pass, todo, P, RHS, Z, byTarget, calls>>

EndBatch ==
  /\ stage = "ApplyTargets" /\ todo = {}
  /\ stage' = "none"
  /\ initial_index_for_batch' = initial_index_for_batch + ThisBatchSize
  /\ batch_num' = batch_num + 1
  /\ phase' = IF LastBatch THEN "idle" ELSE "running"
  /\ UNCHANGED <<g, number_of_batches, pass, todo, P, RHS, Z, byTarget, calls>>

-----------------------------------------------------------------------------
(* One team of a kernel.                                                   *)
Team(kernel, k) ==
  /\ stage = kernel
  /\ k \in todo /\ todo' = todo \ {k}
  /\ UNCHANGED <<g, phase, loop, stage, pass, calls>>

(* A matrix is written into the first rows and columns of a slice of P;    *)
(* the products of whole slices take in what the rest holds.               *)
Assembled(k, of) ==
  LET rest == Get(P[k], k, BasisDims(g).P)
  IN  Of("matrix", of, TargetOf(k), T[TargetOf(k)],
         rest = Zeros \/ (rest.is = "matrix" /\ rest.sound))

(* sqrt(W) goes to the front of the slice of RHS, one entry per row, or    *)
(* the normal equations to RHS and the weighted matrix to P.               *)
AssemblePsqrtW(k, of, diagonal) ==
  LET A == Assembled(k, of)
      first  == IF diagonal THEN A ELSE As("weighted", A)
      second == As(IF diagonal THEN "diagonal" ELSE "normal", A)
  IN  /\ P' = [P EXCEPT ![k] = Put(k, BasisDims(g).P, first)]
      /\ RHS' = [RHS EXCEPT ![k] = Put(k, BasisDims(g).RHS, second)]
      /\ UNCHANGED <<Z, byTarget>>

AssembleStandardPsqrtW(k) ==
  /\ Team("AssembleStandardPsqrtW", k)
  /\ AssemblePsqrtW(k, "problem", g.constraint = "NONE" /\ g.solver # "LU")

AssembleCurvaturePsqrtW(k) ==
  /\ Team("AssembleCurvaturePsqrtW", k)
  /\ AssemblePsqrtW(k, "curvature", g.solver # "LU")

AssembleManifoldPsqrtW(k) ==
  /\ Team("AssembleManifoldPsqrtW", k)
  /\ AssemblePsqrtW(k, "problem", g.solver # "LU")

(* The tangent plane needs a row of P as long as the coordinates.          *)
ComputeCoarseTangentPlane(k) ==
  LET A == Assembled(k, "coarse")
  IN  /\ Team("ComputeCoarseTangentPlane", k)
      /\ P' = [P EXCEPT ![k] = Put(k, BasisDims(g).P, A)]
      /\ T' = [T EXCEPT ![TargetOf(k)] =
           Frame(IF A.sound /\ g.dims <= BasisColumns(g) THEN "coarse" ELSE "wrong", FALSE)]
      /\ UNCHANGED <<RHS, Z, curvature_coefficients, prestencil_weights, alphas>>

FixTangentDirectionOrdering(k) ==
  /\ Team("FixTangentDirectionOrdering", k)
  /\ T' = [T EXCEPT ![TargetOf(k)].oriented = TRUE]
  /\ UNCHANGED <<P, RHS, Z, curvature_coefficients, prestencil_weights, alphas>>

-----------------------------------------------------------------------------
(* The dense solver.  It has no argument that tells the form of the right  *)
(* hand side: that of a square system is a full matrix, any other is a     *)
(* diagonal, stored as a vector.                                           *)
FormsTaken(M, N) ==
  IF M # N THEN {"diagonal"} ELSE IF N > 1 THEN {"weighted"} ELSE {"diagonal", "weighted"}

Solution(a, b, M, N) ==
  Of("coefficients", a.of, a.target, a.frame,
     /\ a.is \in {"matrix", "normal"} /\ a.sound
     /\ b = As(b.is, a) /\ b.is \in FormsTaken(M, N))

(* P against sqrt(W) with QR: the solution replaces RHS.                   *)
SolveQR(k, M, N) ==
  LET a == Get(P[k], k, CallerDims(g).P)
      b == Get(RHS[k], k, CallerDims(g).RHS)
  IN  /\ RHS' = [RHS EXCEPT ![k] = Put(k, CallerDims(g).RHS, Solution(a, b, M, N))]
      /\ P' = [P EXCEPT ![k] = Put(k, CallerDims(g).P, As("factors", a))]

(* P^T*P against P^T*W with LU: the solution replaces P, transposed.       *)
SolveLU(k, N) ==
  LET a == Get(RHS[k], k, CallerDims(g).RHS)
      b == Get(P[k], k, CallerDims(g).P)
  IN  /\ P' = [P EXCEPT ![k] = Put(k, Transposed(CallerDims(g).P), Solution(a, b, N, N))]
      /\ RHS' = [RHS EXCEPT ![k] = Put(k, CallerDims(g).RHS, As("factors", a))]

SolveCurvature(k) ==
  /\ Team("SolveCurvature", k)
  /\ IF g.solver = "LU" THEN SolveLU(k, manifold_NP(g))
     ELSE SolveQR(k, g.max_neighbors, manifold_NP(g))
  /\ UNCHANGED <<Z, byTarget>>

(* On a manifold no constraint is added to the system.                     *)
ProblemColumns ==
  CallerColumns(g) + (IF OnManifold(g) THEN 0 ELSE AddedCoefficients(g))

SolveProblem(k) ==
  /\ Team("SolveProblem", k)
  /\ IF g.solver = "LU" THEN SolveLU(k, ProblemColumns)
     ELSE SolveQR(k, max_num_rows(g), CallerColumns(g))
  /\ UNCHANGED <<Z, byTarget>>

(* deep_copy of the whole array.                                           *)
ClearP ==
  /\ stage = "ClearP" /\ todo = Teams
  /\ P' = ZeroSlices(MaxBatchSize(number_of_batches)) /\ todo' = {}
  /\ UNCHANGED <<g, phase, loop, stage, pass, RHS, Z, byTarget, calls>>

-----------------------------------------------------------------------------
(* Coefficients as the kernels before ApplyTargets read them.              *)
Coeffs(k, dims) == Get(IF NormalEquations(g) THEN P[k] ELSE RHS[k], k, dims)

(* What a reconstruction of the target's geometry in its frame should be.  *)
Geometry(k) == Of("coefficients", "curvature", TargetOf(k), T[TargetOf(k)], TRUE)

Derived(k, is) ==
  LET Q == Coeffs(k, BasisDims(g).Coeffs)
  IN  Of(is, "curvature", TargetOf(k), T[TargetOf(k)], Q = Geometry(k))

(* All kernels that evaluate targets clear the slice of Z first.           *)
EvaluateTargets(k, of, sound) ==
  Z' = [Z EXCEPT ![k] = Put(k, BasisDims(g).Z, Of("row", of, TargetOf(k), T[TargetOf(k)], sound))]

GetAccurateTangentDirections(k) ==
  LET t == TargetOf(k)
      accurate == T[t].is = "coarse" /\ Derived(k, "gradient").sound
  IN  /\ Team("GetAccurateTangentDirections", k)
      /\ EvaluateTargets(k, "curvature", TRUE)
      /\ T' = [T EXCEPT ![t].is = IF accurate THEN "accurate" ELSE "wrong"]
      /\ UNCHANGED <<P, RHS, curvature_coefficients, prestencil_weights, alphas>>

ApplyCurvatureTargets(k) ==
  /\ Team("ApplyCurvatureTargets", k)
  /\ EvaluateTargets(k, "curvature", TRUE)
  /\ curvature_coefficients' =
       [curvature_coefficients EXCEPT ![TargetOf(k)] = Derived(k, "geometry")]
  /\ UNCHANGED <<P, RHS, T, prestencil_weights, alphas>>

(* Weights are stored, or added to what is there; those of staggered       *)
(* samples with an analytic gradient are the same two numbers for all.     *)
ComputePrestencilWeights(k) ==
  LET t == TargetOf(k)
      tangents == Of("weights", "tangents", t, T[t], TRUE)
  IN  /\ Team("ComputePrestencilWeights", k)
      /\ \/ /\ g.sampling \notin {"ManifoldVectorPoint", "StaggeredEdgeIntegral",
                                  "VaryingManifoldVectorPoint"}
            /\ UNCHANGED prestencil_weights
         \/ /\ g.sampling = "ManifoldVectorPoint"
            /\ prestencil_weights' = [prestencil_weights EXCEPT ![t] = <<tangents>>]
         \/ /\ g.sampling = "StaggeredEdgeIntegral"
            /\ prestencil_weights' = [prestencil_weights EXCEPT ![t] = Append(@, tangents)]
         \/ /\ g.sampling = "VaryingManifoldVectorPoint"
            /\ prestencil_weights' =
                 [prestencil_weights EXCEPT ![t] = <<Derived(k, "weights")>>]
      /\ UNCHANGED <<P, RHS, Z, T, curvature_coefficients, alphas>>

EvaluateStandardTargets(k) ==
  /\ Team("EvaluateStandardTargets", k)
  /\ EvaluateTargets(k, "problem", TRUE)
  /\ UNCHANGED <<P, RHS, byTarget>>

EvaluateManifoldTargets(k) ==
  LET t == TargetOf(k)
  IN  /\ Team("EvaluateManifoldTargets", k)
      /\ EvaluateTargets(k, "problem",
           curvature_coefficients[t] = Of("geometry", "curvature", t, T[t], TRUE))
      /\ UNCHANGED <<P, RHS, byTarget>>

(* Works with the dimensions of the solution data.                         *)
ApplyTargets(k) ==
  /\ Team("ApplyTargets", k)
  /\ alphas' = [alphas EXCEPT ![TargetOf(k)] =
       [coefficients |-> Coeffs(k, SolutionDims(g).Coeffs),
        row |-> Get(Z[k], k, SolutionDims(g).Z)]]
  /\ UNCHANGED <<P, RHS, Z, T, curvature_coefficients, prestencil_weights>>

-----------------------------------------------------------------------------
Kernel(k) ==
  \/ AssembleStandardPsqrtW(k)
  \/ ComputeCoarseTangentPlane(k)
  \/ FixTangentDirectionOrdering(k)
  \/ AssembleCurvaturePsqrtW(k)
  \/ SolveCurvature(k)
  \/ GetAccurateTangentDirections(k)
  \/ ApplyCurvatureTargets(k)
  \/ ComputePrestencilWeights(k)
  \/ AssembleManifoldPsqrtW(k)
  \/ SolveProblem(k)
  \/ EvaluateStandardTargets(k)
  \/ EvaluateManifoldTargets(k)
  \/ ApplyTargets(k)

(* What happens without the user's doing.                                  *)
Loop == StartBatch \/ NextStage \/ EndBatch \/ ClearP \/ \E k \in todo : Kernel(k)

Next == Loop \/ \E q \in Problems, n \in Batches : Call(q, n)

(* A call that has begun runs on: kernels end, and launches are made.      *)
Spec == Init /\ [][Next]_vars /\ WF_vars(Loop)
-----------------------------------------------------------------------------
Values == [is : {"zeros", "garbage", "matrix", "normal", "weighted", "diagonal",
                 "coefficients", "factors", "row", "geometry", "weights"},
           of : {"none", "coarse", "curvature", "problem", "tangents"},
           target : Targets,
           frame : [is : {"none", "provided", "coarse", "accurate", "wrong"},
                    oriented : BOOLEAN],
           sound : BOOLEAN]

Stages == {"none", "ComputeCoarseTangentPlane", "FixTangentDirectionOrdering",
           "AssembleCurvaturePsqrtW", "SolveCurvature", "GetAccurateTangentDirections",
           "ClearP", "ApplyCurvatureTargets", "ComputePrestencilWeights",
           "AssembleManifoldPsqrtW", "AssembleStandardPsqrtW", "SolveProblem",
           "EvaluateManifoldTargets", "EvaluateStandardTargets", "ApplyTargets"}

SlicesOK(A) ==
  \A k \in DOMAIN A : /\ A[k].begin \in Nat /\ A[k].width \in Nat
                      /\ A[k].value \in Values

(* Types: every slice and place holds a value; the loop is in its bounds.  *)
TypeOK ==
  /\ g \in Problems /\ phase \in {"idle", "running"}
  /\ number_of_batches \in Nat \ {0} /\ batch_num \in 0..number_of_batches
  /\ initial_index_for_batch \in 0..NumTargets
  /\ stage \in Stages /\ pass \in {"tangents", "geometry"} /\ todo \subseteq Targets
  /\ SlicesOK(P) /\ SlicesOK(RHS) /\ SlicesOK(Z)
  /\ \A t \in Targets : /\ curvature_coefficients[t] \in Values
                        /\ prestencil_weights[t] \in Seq(Values)
                        /\ alphas[t] \in [coefficients : Values, row : Values]
  /\ calls \in 0..MaxCalls

-----------------------------------------------------------------------------
(* The problems for which the code is right: the geometry of a manifold    *)
(* has no more columns than the basis, a system for QR is not square, and  *)
(* P has room for the tangent plane.                                       *)
NotSquare(M, N) == M # N \/ N <= 1

Regular(q) ==
  /\ OnManifold(q) => manifold_NP(q) <= NP(q)
  /\ q.solver = "QR" => /\ NotSquare(max_num_rows(q), CallerColumns(q))
                        /\ OnManifold(q) => NotSquare(q.max_neighbors, manifold_NP(q))
  /\ OnManifold(q) /\ q.tangents # "provided" => q.dims <= BasisColumns(q)

AllRegular == \A q \in Problems : Regular(q)

(* The frame in which a target is to be solved.                            *)
FinalFrame(q) ==
  IF q.tangents = "provided" THEN Frame("provided", FALSE)
  ELSE IF OnManifold(q) THEN Frame("accurate", q.tangents = "oriented")
  ELSE NoFrame

RightAlphas(t) ==
  [coefficients |-> Of("coefficients", "problem", t, FinalFrame(g), TRUE),
   row |-> Of("row", "problem", t, FinalFrame(g), TRUE)]

(* The alphas of a target, if there are any, come from the coefficients    *)
(* and the target row of that very target, solved on a system that nothing *)
(* stale has entered, in the target's final tangent frame: whatever the    *)
(* kernels have left in the arrays before, and whoever shares them.        *)
OwnSolution == \A t \in Targets : alphas[t] \in {NoAlphas, RightAlphas(t)}

NeedsWeights(q) == q.sampling \in {"ManifoldVectorPoint", "StaggeredEdgeIntegral",
                                   "VaryingManifoldVectorPoint"}

RightWeights(t) ==
  <<Of("weights", IF g.sampling = "VaryingManifoldVectorPoint" THEN "curvature" ELSE "tangents",
       t, FinalFrame(g), TRUE)>>

(* The weights of a target's samples are computed once, in its final       *)
(* frame: also those that are added to what the array holds.               *)
OwnWeights == \A t \in Targets : prestencil_weights[t] \in {<<>>, RightWeights(t)}

(* Slices of different teams are apart and lie within what was allocated,  *)
(* for each array and each of the dimensions that kernels work with.       *)
SlicesWithin(dims, extent) ==
  \A k \in Teams :
    /\ Begin(k, dims) >= 0 /\ Begin(k + 1, dims) <= extent
    /\ \A m \in Teams : k < m => Begin(k + 1, dims) <= Begin(m, dims)

Allocated(dims) == Extent(MaxBatchSize(number_of_batches), dims)

SlicesApart ==
  stage # "none" =>
    /\ SlicesWithin(BasisDims(g).P, Allocated(CallerDims(g).P))
    /\ SlicesWithin(BasisDims(g).RHS, Allocated(CallerDims(g).RHS))
    /\ SlicesWithin(BasisDims(g).Z, Allocated(CallerDims(g).Z))
    /\ SlicesWithin(SolutionDims(g).Z, Allocated(CallerDims(g).Z))
    /\ SlicesWithin(SolutionDims(g).Coeffs,
                    Allocated(IF NormalEquations(g) THEN CallerDims(g).P ELSE CallerDims(g).RHS))

(* Whatever the levels of scratch memory, a kernel that is launched finds  *)
(* reserved what its team and its threads take from each level, and so     *)
(* does the solver; with enough neighbours, what the solver does with its  *)
(* workspaces stays within them.                                           *)
SolverHasScratch(s) ==
  /\ \A levels \in Levels : SolverFits(s, levels)
  /\ EnoughNeighbors(g) => WorkspacesSuffice(s)

ScratchSuffices ==
  stage # "none" =>
    CASE stage = "SolveCurvature" -> SolverHasScratch(CurvatureSystem(g))
      [] stage = "SolveProblem" -> SolverHasScratch(ProblemSystem(g))
      [] OTHER -> \A levels \in Levels : KernelFits(stage, g, levels)

(* Each target is weighed and solved, once and in this order, in every     *)
(* call: the batches implement what the caller is promised.                *)
Abstract == INSTANCE TargetSolutions WITH
  weighed <- IF calls > 0 /\ NeedsWeights(g)
             THEN {t \in Targets : prestencil_weights[t] = RightWeights(t)} ELSE Targets,
  solved <- IF calls = 0 THEN Targets ELSE {t \in Targets : alphas[t] = RightAlphas(t)}

ImplementsTargetSolutions == Abstract!Spec
=============================================================================
