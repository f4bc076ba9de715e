---------------------------- MODULE TeamScratch ----------------------------
(***************************************************************************)
(* The scratch memory of teams and threads: what ParallelManager reserves  *)
(* for a kernel, and what the kernel takes.  There are two sizes for teams *)
(* and two for threads, each at a memory level; on a GPU the levels        *)
(* differ, on a host they are the same, and then the sizes add up.  Sizes  *)
(* are numbers of doubles, pairs <<first, second>>.                        *)
(***************************************************************************)
EXTENDS BatchLayout

OnHost == <<0, 0>>
OnDevice == <<0, 1>>
Levels == {OnHost, OnDevice}

MaxOrder(g) ==
  IF OnManifold(g) THEN Larger(PolyOrder(g), g.curvature_order) ELSE PolyOrder(g)

Varying(g) == g.sampling = "VaryingManifoldVectorPoint"

(* What TeamPolicyThreadsAndVectors reserves at a level, for teams or for  *)
(* threads, given the two levels and the two sizes of ParallelManager.     *)
Reserved(levels, sizes, l) ==
  IF levels[1] # levels[2]
  THEN IF l = levels[1] THEN sizes[1] ELSE IF l = levels[2] THEN sizes[2] ELSE 0
  ELSE IF l = levels[1] THEN sizes[1] + sizes[2] ELSE 0

(* What a kernel takes at a level by views at the first and second level.  *)
Taken(levels, takes, l) ==
  (IF l = levels[1] THEN takes[1] ELSE 0) + (IF l = levels[2] THEN takes[2] ELSE 0)

-----------------------------------------------------------------------------
(* Mutated form of TeamSizes: room for only one of t1 and t2.              *)
TeamSizesWithoutT2(g) ==
  <<0, IF OnManifold(g)
       THEN g.dims * g.dims + (g.dims - 1) * g.max_neighbors
            + (IF Varying(g) THEN g.max_neighbors ELSE 0)
       ELSE 0>>

(* The sizes that generatePolynomialCoefficients sets.                     *)
TeamSizes(g) ==
  <<0, IF OnManifold(g)
       THEN g.dims * g.dims                        \* PTP
            + (g.dims - 1) * g.max_neighbors       \* manifold_gradient
            + (IF Varying(g) THEN 2 * g.max_neighbors ELSE 0)  \* t1, t2
       ELSE 0>>

ThreadSizes(g) ==
  <<CallerColumns(g) + (MaxOrder(g) + 1) * g.dims,             \* delta, workspace
    IF OnManifold(g) /\ Varying(g) THEN g.dims * g.dims ELSE 0>>

(* What each kernel takes of its team's scratch.                           *)
GradientDim(g) == IF OnManifold(g) THEN (g.dims - 1) * g.max_neighbors ELSE 0

CoarseTangentPlaneTakes(g) == <<0, g.dims * g.dims>>         \* PTP
AccurateTangentsTakes(g) == <<0, GradientDim(g)>>            \* manifold_gradient
PrestencilTakes(g) ==                                        \* and t1, t2
  <<0, GradientDim(g) + (IF Varying(g) THEN 2 * g.max_neighbors ELSE 0)>>

TeamTakes(kernel, g) ==
  CASE kernel = "ComputeCoarseTangentPlane" -> CoarseTangentPlaneTakes(g)
    [] kernel = "GetAccurateTangentDirections" -> AccurateTangentsTakes(g)
    [] kernel = "ComputePrestencilWeights" -> PrestencilTakes(g)
    [] OTHER -> <<0, 0>>

(* And of each thread's: delta and thread_workspace, and tangent.          *)
Workspace(g) == (MaxOrder(g) + 1) * g.dims

BasisTakes(g) == <<BasisColumns(g) + Workspace(g), 0>>
PrestencilThreadTakes(g) ==
  <<(IF OnManifold(g) THEN manifold_NP(g) ELSE 0) + Workspace(g),
    IF Varying(g) THEN (g.dims - 1) * g.dims ELSE 0>>

ThreadTakes(kernel, g) ==
  CASE kernel \in {"FixTangentDirectionOrdering", "ApplyTargets"} -> <<0, 0>>
    [] kernel = "ComputePrestencilWeights" -> PrestencilThreadTakes(g)
    [] OTHER -> BasisTakes(g)

(* The launch of a kernel finds its scratch.                               *)
KernelFits(kernel, g, levels) ==
  \A l \in {0, 1} :
    /\ Taken(levels, TeamTakes(kernel, g), l) <= Reserved(levels, TeamSizes(g), l)
    /\ Taken(levels, ThreadTakes(kernel, g), l) <= Reserved(levels, ThreadSizes(g), l)

-----------------------------------------------------------------------------
(* The systems that are given to the dense solver: M x N with NRHS right   *)
(* hand sides, and the dimensions of the slice that holds the matrix.      *)
CurvatureSystem(g) ==
  LET n == manifold_NP(g)
  IN  IF g.solver = "LU"
      THEN [M |-> n, N |-> n, NRHS |-> g.max_neighbors, dims |-> CallerDims(g).RHS]
      ELSE [M |-> g.max_neighbors, N |-> n, NRHS |-> g.max_neighbors, dims |-> CallerDims(g).P]

(* On a manifold no constraint is added.                                   *)
ProblemSystem(g) ==
  LET n == CallerColumns(g) + (IF OnManifold(g) THEN 0 ELSE AddedCoefficients(g))
      m == max_num_rows(g)
  IN  IF g.solver = "LU"
      THEN [M |-> n, N |-> n, NRHS |-> m + (IF OnManifold(g) THEN 0 ELSE AddedAlphas(g)),
            dims |-> CallerDims(g).RHS]
      ELSE [M |-> m, N |-> CallerColumns(g), NRHS |-> m, dims |-> CallerDims(g).P]

(* The solver sets sizes of its own, in its own copy of ParallelManager.   *)
SolverSizes(M, N, NRHS) == <<N + 3 * M, N * N + M * N + N * NRHS>>

(* ww_fast and pp; ww_slow, U and V.                                       *)
SolverTakes(M, N, NRHS) == <<3 * M + N, N * NRHS + M * N + N * N>>

SolverFits(s, levels) ==
  \A l \in {0, 1} : Taken(levels, SolverTakes(s.M, s.N, s.NRHS), l)
                      <= Reserved(levels, SolverSizes(s.M, s.N, s.NRHS), l)

(* What the factorization writes to ww_fast: tau, norms of the columns and *)
(* the vector of a Householder transformation of the other columns.        *)
FactorWorkspace(M, N) == M + N + (N - 1)

(* What passes through the two workspaces stays within them: a diagonal    *)
(* right hand side, the factorization's vectors, and a matrix that is in   *)
(* the corner of a larger slice, which is copied out and back.             *)
WorkspacesSuffice(s) ==
  /\ s.M # s.N => s.NRHS <= 3 * s.M
  /\ FactorWorkspace(s.M, s.N) <= 3 * s.M
  /\ s.dims # <<s.M, s.N>> => s.M * s.N <= s.N * s.NRHS

(* The systems have at least as many rows as columns.                      *)
EnoughNeighbors(g) ==
  /\ CallerColumns(g) <= max_num_rows(g)
  /\ OnManifold(g) => manifold_NP(g) <= g.max_neighbors
=============================================================================
