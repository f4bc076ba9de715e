---------------------------- MODULE MCSolutionSet ----------------------------
(***************************************************************************)
(* An instance of SolutionSet: two targets, operations of rank 0 to 2,     *)
(* scalar and vector samples, with and without an alpha for a constraint.  *)
(***************************************************************************)
EXTENDS SolutionSet

Scalar == "LaplacianOfScalarPointEvaluation"
Vector == "GradientOfScalarPointEvaluation"
Matrix == "GradientOfVectorPointEvaluation"
TheOperations == {Scalar, Vector, Matrix}
TheRanks == [op \in TheOperations |->
               IF op = Matrix THEN 2 ELSE IF op = Vector THEN 1 ELSE 0]

Standard == [shared |-> TRUE, manifold |-> FALSE, local |-> 2, sampling_rank |-> 0,
             added |-> 1]
VectorSamples == [Standard EXCEPT !.sampling_rank = 1, !.added = 0]
Manifold == [Standard EXCEPT !.manifold = TRUE, !.added = 0]
OneMemory == {Standard, VectorSamples, Manifold}
TheConfigurations == OneMemory \cup {[c EXCEPT !.shared = FALSE] : c \in OneMemory}

TheRequests == {<<Scalar>>, <<Vector, Scalar>>, <<Matrix, Matrix>>}

Counts(first, second) == [t \in 0..1 |-> IF t = 0 THEN first ELSE second]
TheLists == {Counts(1, 2), Counts(3, 0)}
=============================================================================
