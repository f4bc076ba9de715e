--------------------------- MODULE MCBatchKernels ---------------------------
(***************************************************************************)
(* Instances of BatchKernels: problems of small sizes, one or more for     *)
(* each path through the code.                                             *)
(***************************************************************************)
EXTENDS BatchKernels

Planar == [problem |-> "STANDARD", solver |-> "QR", constraint |-> "NONE",
           space |-> "Scalar", sampling |-> "Point", order |-> 1,
           curvature_order |-> 2, dims |-> 2, max_neighbors |-> 4, alpha_rows |-> 2,
           tangents |-> "computed"]
WithLU(q) == [q EXCEPT !.solver = "LU"]
Constrained(q) == [q EXCEPT !.solver = "LU", !.constraint = "NEUMANN", !.tangents = "provided"]
VectorSamples(q, space) == [q EXCEPT !.space = space, !.sampling = "VectorPoint"]
More(q) == [q EXCEPT !.max_neighbors = @ + 3, !.alpha_rows = @ + 1]

StandardProblems ==
  {Planar, More(Planar), WithLU([Planar EXCEPT !.max_neighbors = 3]), WithLU(Planar),
   Constrained(Planar), More(Constrained(Planar)),
   VectorSamples(Planar, "Vector"), VectorSamples(Planar, "Clones"),
   VectorSamples(Planar, "DivergenceFree"), Constrained(VectorSamples(Planar, "Vector")),
   [Planar EXCEPT !.sampling = "StaggeredEdgeAnalyticGradientIntegral", !.max_neighbors = 7],
   [Planar EXCEPT !.dims = 1, !.order = 0, !.max_neighbors = 1]}

Surface == [Planar EXCEPT !.problem = "MANIFOLD", !.dims = 3, !.curvature_order = 1]
Oriented(q) == [q EXCEPT !.tangents = "oriented"]
Provided(q) == [q EXCEPT !.tangents = "provided"]
Samples(q, sampling) ==
  [q EXCEPT !.space = "Vector", !.sampling = sampling, !.order = 2, !.max_neighbors = 7]

ManifoldProblems ==
  {Surface, More(Oriented(Surface)), Provided(Surface), WithLU(Surface),
   WithLU(Oriented(Surface)), WithLU(Provided(Surface)), Constrained(Surface),
   WithLU([Surface EXCEPT !.order = 2, !.max_neighbors = 7]),
   Samples(Surface, "ManifoldVectorPoint"), More(Samples(Surface, "ManifoldVectorPoint")),
   Samples(Oriented(Surface), "StaggeredEdgeIntegral"),
   [Samples(Surface, "StaggeredEdgeIntegral") EXCEPT !.max_neighbors = 13],
   [Samples(Surface, "VaryingManifoldVectorPoint") EXCEPT !.max_neighbors = 10],
   WithLU(Samples(Provided(Surface), "VaryingManifoldVectorPoint")),
   [Surface EXCEPT !.dims = 2, !.order = 2, !.curvature_order = 2]}

RegularProblems == StandardProblems \cup ManifoldProblems

(* They are ones that the theorems are about.                              *)
ASSUME RegularProblemsAssumption == \A q \in RegularProblems : Regular(q)

(* The default order of the geometry, two, with a basis of order one.      *)
FinerGeometry == {[Surface EXCEPT !.curvature_order = 2, !.max_neighbors = 7]}

(* As many neighbours as columns.                                          *)
AsManyNeighborsAsColumns == {[Planar EXCEPT !.max_neighbors = 3]}
=============================================================================
