---------------------------- MODULE AlphaLayout ----------------------------
(***************************************************************************)
(* Where SolutionSet places the alphas.  They are one array: a block for   *)
(* each target, in it a row for each evaluation site, operation, input     *)
(* component and output component, and in a row a column for each          *)
(* neighbour of the target and each alpha added for a constraint.          *)
(*                                                                         *)
(* As far as the layout goes a solution set is a record: offsets, out and  *)
(* in (first row and tile sizes) are functions on the operations, 0..k-1;  *)
(* total is the number of rows of one site; counts is a function on the    *)
(* targets, 0..n-1; added and max_sites are numbers.                       *)
(*                                                                         *)
(* Numbers are unbounded here.  The code adds in 64 bits, but has two      *)
(* products in int, of targets and added alphas and of a row and its       *)
(* columns, and on a GPU keeps the place of a row in an int; on the host   *)
(* backends, which Place is about, it does not.                            *)
(***************************************************************************)
EXTENDS CompressedRow

(* The row of a site, an operation, an input and an output component.      *)
getTargetOffsetIndex(ss, lro, input, output, site) ==
  ss.total * site + (ss.offsets[lro] + (input * ss.out[lro] + output))

AlphasPerTile(ss, t) == ss.counts[t] + ss.added

(* Columns of the targets before t: neighbours and added alphas.           *)
ColumnsBefore(ss, n, t) == PrefixSum(ss.counts, n)[t] + t * ss.added

(* Mutated form of getAlphaIndex: added alphas are not counted before t.   *)
getAlphaIndexNotAdded(ss, n, t, row) ==
  PrefixSum(ss.counts, n)[t] * (ss.total * ss.max_sites) + row * AlphasPerTile(ss, t)

(* The place of the first column of a row of target t, of n targets.       *)
getAlphaIndex(ss, n, t, row) ==
  ColumnsBefore(ss, n, t) * (ss.total * ss.max_sites) + row * AlphasPerTile(ss, t)

(* What generatePolynomialCoefficients allocates for n targets.            *)
AlphasExtent(ss, n) ==
  (TotalNeighbors(ss.counts, RowOffsets(ss.counts, n), n) + n * ss.added)
    * (ss.total * ss.max_sites)

(* What the kernels may write: for each site that there is room for, each  *)
(* operation and its components, the columns of each target.               *)
SlotsOf(ss, t, lro) ==
  [t : {t}, lro : {lro}, input : 0..ss.in[lro]-1, output : 0..ss.out[lro]-1,
   site : 0..ss.max_sites-1, column : 0..AlphasPerTile(ss, t)-1]

Slots(ss, n) == UNION {SlotsOf(ss, t, lro) : t \in 0..n-1, lro \in DOMAIN ss.offsets}

Place(ss, n, s) ==
  getAlphaIndex(ss, n, s.t, getTargetOffsetIndex(ss, s.lro, s.input, s.output, s.site))
    + s.column
=============================================================================
