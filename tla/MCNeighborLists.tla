-------------------------- MODULE MCNeighborLists --------------------------
(* NeighborLists with small views; the names of objects are alike.         *)
EXTENDS NeighborLists, TLC

ObjectSymmetry == Permutations(Objects)
=============================================================================
