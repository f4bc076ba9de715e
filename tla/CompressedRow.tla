--------------------------- MODULE CompressedRow ---------------------------
(***************************************************************************)
(* The compressed row layout that NeighborLists gives to the neighbour     *)
(* lists of all target sites: one array, and for target i a row that       *)
(* starts at the sum of the numbers of neighbours of the targets before i. *)
(* These are the values that NeighborLists::computeRowOffsets must leave   *)
(* in _row_offsets, stated without the parallel scan that computes them.   *)
(***************************************************************************)
EXTENDS Integers

(***************************************************************************)
(* Sums of the first i entries of count, for i \in 0..n: the row offsets   *)
(* of targets 0..n-1 and, at n, the number of entries of all rows.         *)
(***************************************************************************)
PrefixSum(count, n) ==
  LET sum[i \in 0..n] == IF i = 0 THEN 0 ELSE sum[i-1] + count[i-1]
  IN  sum

RowOffsets(count, n) == [i \in 0..n-1 |-> PrefixSum(count, n)[i]]

(* getTotalNeighborsOverAllListsHost: last offset plus last count, or 0.   *)
TotalNeighbors(count, offset, n) ==
  IF n = 0 THEN 0 ELSE count[n-1] + offset[n-1]

(* getMaxNumNeighbors after computeMaxNumNeighbors: a Max reduction.       *)
MaxNeighbors(count, n) ==
  IF n = 0 THEN 0
  ELSE CHOOSE m \in {count[i] : i \in 0..n-1} :
         \A i \in 0..n-1 : count[i] <= m

(* The entries of the array that belong to target i.                       *)
Row(offset, count, i) == offset[i] .. (offset[i] + count[i] - 1)
=============================================================================
