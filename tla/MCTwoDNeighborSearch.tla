------------------------ MODULE MCTwoDNeighborSearch ------------------------
(***************************************************************************)
(* An instance of TwoDNeighborSearch: three sources, two targets, guesses  *)
(* of the number of columns that are too small, or leave columns unused.   *)
(* Radii are in halves: 2 stands for the distance 1.                       *)
(***************************************************************************)
EXTENDS TwoDNeighborSearch

Line(a, b, c) == [s \in 0..2 |-> CASE s = 0 -> a [] s = 1 -> b [] s = 2 -> c]
Pair(a, b) == [i \in 0..1 |-> IF i = 0 THEN a ELSE b]

MCSrcClouds == {Line(0, 1, 2), Line(0, 0, 2)}
MCTrgClouds == {Pair(2, 1)}
MCSearches == {RadiusBy(0), RadiusBy(3), KnnBy(1, 3), KnnBy(2, 3), KnnBy(4, 3)}
=============================================================================
