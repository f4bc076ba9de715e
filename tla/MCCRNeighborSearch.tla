------------------------- MODULE MCCRNeighborSearch -------------------------
(***************************************************************************)
(* Instances of CRNeighborSearch: three sources on a line, two of them at  *)
(* one place; one target there, the other as far from all three.  Radii    *)
(* are in halves: 2 stands for the distance 1, 3 for a little more.        *)
(***************************************************************************)
EXTENDS CRNeighborSearch

Line(a, b, c) == [s \in 0..2 |-> CASE s = 0 -> a [] s = 1 -> b [] s = 2 -> c]
Pair(a, b) == [i \in 0..1 |-> IF i = 0 THEN a ELSE b]

MCSrcClouds == {Line(0, 2, 2)}
MCTrgClouds == {Pair(2, 1)}

(* Radius searches, and k-nearest searches with a multiplier above 1, one  *)
(* of them for more sources than there are.                                *)
MCSearches == {RadiusBy(0), RadiusBy(3), KnnBy(2, 3), KnnBy(4, 3)}

(* LargerRadii of NeighborSearchProofs, for these searches.                *)
ASSUME MCLargerRadii == \A s \in MCSearches : s.kind = "knn" => s.multiplier > Scale
=============================================================================
