------------------------------- MODULE MCGMLS -------------------------------
(***************************************************************************)
(* Instances of GMLS.  Views of one extent come in one or two data.        *)
(***************************************************************************)
EXTENDS GMLS

View(n, data) == [n |-> n, data |-> data]
Rows(n, most, data) == [n |-> n, most |-> most, data |-> data]

(* Constructor choices: unconstrained QR, LU, and the constraint with LU.  *)
Standard == [manifold |-> FALSE, constrained |-> FALSE, lu |-> FALSE,
             staggered |-> FALSE, same_space |-> TRUE]
Separate == [Standard EXCEPT !.same_space = FALSE]
WithLU == [Standard EXCEPT !.lu = TRUE]
Constrained == [WithLU EXCEPT !.constrained = TRUE]
ConstrainedQR == [Standard EXCEPT !.constrained = TRUE]
Manifold == [Standard EXCEPT !.manifold = TRUE]
Staggered == [Standard EXCEPT !.staggered = TRUE]

(* Runs about the setters: sites and lists of two sizes.                   *)
OneConfiguration == {Standard}
AnySources == {View(0, 0), View(3, 1), View(3, 2)}
AnyTargets == {View(0, 0), View(1, 1), View(2, 1)}
AnyLists == {View(0, 0), View(1, 1), View(2, 1)}
AnyEvaluationSites == {Rows(2, 1, 1)}

(* Runs about the solution: one view of each kind, two settings.           *)
Solvers == {Standard, Separate, WithLU, [WithLU EXCEPT !.same_space = FALSE],
            Constrained, ConstrainedQR, Manifold, Staggered}
OneSource == {View(3, 1)}
FiveTargets == {View(5, 1)}
FiveRows == {View(5, 1)}
NoEvaluationSites == {}
OneManifold == {Manifold}
=============================================================================
