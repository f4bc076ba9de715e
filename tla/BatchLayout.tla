---------------------------- MODULE BatchLayout ----------------------------
(***************************************************************************)
(* The sizes on which generatePolynomialCoefficients and its kernels have  *)
(* to agree: dimensions of the matrices of a target, the places of a       *)
(* target's slices in the arrays P, RHS and Z of a batch, and scratch      *)
(* memory.  They are computed in three places of the code, from members    *)
(* of the GMLS object: by the caller of the kernels (here Caller...), for  *)
(* all kernels but the last (Basis...), and for ApplyTargets               *)
(* (Solution...).                                                          *)
(*                                                                         *)
(* g is a problem: problem ("STANDARD" or "MANIFOLD"), solver ("QR",       *)
(* "LU"), constraint ("NONE", "NEUMANN"), space ("Scalar", "Vector",       *)
(* "Clones", "DivergenceFree"), sampling, the numbers order,               *)
(* curvature_order, dims, max_neighbors and alpha_rows (rows of alphas of  *)
(* a target), and tangents ("computed", "oriented", "provided").           *)
(***************************************************************************)
EXTENDS Integers

VectorSampling == {"VectorPoint", "ManifoldVectorPoint", "VaryingManifoldVectorPoint"}
Sampling == VectorSampling \cup {"Point", "StaggeredEdgeIntegral",
                                 "StaggeredEdgeAnalyticGradientIntegral"}

Larger(a, b) == IF a > b THEN a ELSE b

ScalarTaylorSize(m, d) ==
  IF d = 3 THEN ((m + 1) * (m + 2) * (m + 3)) \div 6
  ELSE IF d = 2 THEN ((m + 1) * (m + 2)) \div 2
  ELSE m + 1

DivergenceFreeSize(m, d) == (d - 1) * ScalarTaylorSize(m, d) + ScalarTaylorSize(m, d - 1)

getNP(m, d, space) ==
  IF space # "DivergenceFree" THEN ScalarTaylorSize(m, d) ELSE DivergenceFreeSize(m, d)

OnManifold(g) == g.problem = "MANIFOLD"
LocalDimensions(g) == IF OnManifold(g) THEN g.dims - 1 ELSE g.dims

(* std::pow(local_dimensions, rank) of a rank that is 0 or 1.              *)
calculateBasisMultiplier(g) == IF g.space = "Vector" THEN LocalDimensions(g) ELSE 1
getOutputDimensionOfSampling(g) == IF g.sampling \in VectorSampling THEN LocalDimensions(g) ELSE 1

calculateSamplingMultiplier(g) ==
  IF g.space = "Clones" /\ calculateBasisMultiplier(g) < getOutputDimensionOfSampling(g)
  THEN calculateBasisMultiplier(g)
  ELSE getOutputDimensionOfSampling(g)

(* The order of a basis sampled by its gradient is one higher.             *)
PolyOrder(g) ==
  IF g.sampling = "StaggeredEdgeAnalyticGradientIntegral" THEN g.order + 1 ELSE g.order

max_num_rows(g) == calculateSamplingMultiplier(g) * g.max_neighbors
manifold_NP(g) == getNP(g.curvature_order, g.dims - 1, "Scalar")

(* _NP, which on a manifold is computed again in the local dimensions.     *)
NP(g) == getNP(PolyOrder(g), LocalDimensions(g), g.space)

-----------------------------------------------------------------------------
(* Columns, as each of the three places counts them.                       *)
MaxManifoldNP(g) == Larger(manifold_NP(g), NP(g))

(* Mutated form of CallerColumns: on a manifold, those of the geometry.    *)
CallerColumnsOfGeometry(g) ==
  calculateBasisMultiplier(g) * (IF OnManifold(g) THEN manifold_NP(g) ELSE NP(g))

CallerColumns(g) ==
  calculateBasisMultiplier(g) * (IF OnManifold(g) THEN MaxManifoldNP(g) ELSE NP(g))
BasisColumns(g) ==
  calculateBasisMultiplier(g) * (IF OnManifold(g) THEN MaxManifoldNP(g) ELSE NP(g))
SolutionColumns(g) == calculateBasisMultiplier(g) * NP(g)

AddedAlphas(g) == IF g.constraint = "NEUMANN" THEN 1 ELSE 0
AddedCoefficients(g) == IF g.space = "Vector" THEN g.dims * AddedAlphas(g) ELSE AddedAlphas(g)

(* With LU, or a constraint, RHS holds P^T*P and P is bordered; otherwise  *)
(* RHS holds sqrt(W).  Dimensions are <<rows, columns>>.                   *)
NormalEquations(g) == g.constraint = "NEUMANN" \/ g.solver = "LU"

getRHSDims(g, M, N) ==
  IF NormalEquations(g)
  THEN <<N + AddedCoefficients(g), N + AddedCoefficients(g)>>
  ELSE <<N, M>>

getPDims(g, M, N) ==
  IF NormalEquations(g)
  THEN <<M + AddedAlphas(g), N + AddedCoefficients(g)>>
  ELSE <<M, N>>

Transposed(dims) == <<dims[2], dims[1]>>

(* The dimensions of the slices of a target that each place works with.    *)
CoeffsDims(g, M, N) ==
  IF NormalEquations(g) THEN Transposed(getPDims(g, M, N)) ELSE getRHSDims(g, M, N)

CallerDims(g) ==
  [P |-> getPDims(g, max_num_rows(g), CallerColumns(g)),
   RHS |-> getRHSDims(g, max_num_rows(g), CallerColumns(g)),
   Z |-> <<g.alpha_rows, CallerColumns(g)>>]

BasisDims(g) ==
  [P |-> getPDims(g, max_num_rows(g), BasisColumns(g)),
   RHS |-> getRHSDims(g, max_num_rows(g), BasisColumns(g)),
   Coeffs |-> CoeffsDims(g, max_num_rows(g), BasisColumns(g)),
   Z |-> <<g.alpha_rows, BasisColumns(g)>>]

SolutionDims(g) ==
  [Coeffs |-> CoeffsDims(g, max_num_rows(g), SolutionColumns(g)),
   Z |-> <<g.alpha_rows, SolutionColumns(g)>>]

-----------------------------------------------------------------------------
(* The slice of a target is by its index in the batch: where it begins,    *)
(* and the extent of an array for so many targets.                         *)
Begin(k, dims) == k * (dims[1] * dims[2])
Extent(n, dims) == n * (dims[1] * dims[2])
=============================================================================
