------------------------ MODULE NeighborListsProofs ------------------------
(***************************************************************************)
(* The properties of NeighborLists for every number of targets, every      *)
(* views and any number of copies and searches.  The strengthening says    *)
(* that the lists read as the table by the offsets that are due for the    *)
(* numbers, also while the offsets in use are stale, and also before the   *)
(* construction if the lists are long enough.                              *)
(***************************************************************************)
EXTENDS NeighborLists, LayoutProofs

LEMMA NumbersAreNat == ASSUME NEW count \in Numbers PROVE count \in [0..N-1 -> Nat]
BY NAssumption, ListsAssumption DEF Numbers, Targets

LEMMA OffsetsType ==
  ASSUME NEW count \in Numbers
  PROVE  RowOffsets(count, N) \in [Targets -> Nat] /\ Total(count) \in Nat
<1>1. count \in [0..N-1 -> Nat]
  BY NumbersAreNat
<1>2. PrefixSum(count, N) \in [0..N -> Nat]
  BY <1>1, NAssumption, PrefixSumStep
<1>3. RowOffsets(count, N) \in [Targets -> Nat]
  BY <1>2, NAssumption DEF RowOffsets, Targets
<1>4. CASE N = 0
  BY <1>3, <1>4 DEF Total, TotalNeighbors
<1>5. CASE N # 0
  <2>1. N-1 \in 0..N-1
    BY <1>5, NAssumption
  <2>2. count[N-1] \in Nat /\ RowOffsets(count, N)[N-1] \in Nat
    BY <1>1, <1>3, <2>1 DEF Targets
  <2>3. QED
    BY <1>3, <1>5, <2>2 DEF Total, TotalNeighbors
<1>6. QED
  BY <1>4, <1>5

(* The place of a neighbour is in the row of its target, within the total. *)
LEMMA PlaceInRow ==
  ASSUME NEW count \in Numbers, NEW i \in Targets, NEW j \in 0..count[i]-1
  PROVE  LET p == RowOffsets(count, N)[i] + j
         IN  /\ p \in Row(RowOffsets(count, N), count, i)
             /\ p \in 0..Total(count)-1
<1> DEFINE p == RowOffsets(count, N)[i] + j
<1>1. count \in [0..N-1 -> Nat] /\ i \in 0..N-1
  BY NumbersAreNat DEF Targets
<1>2. RowOffsets(count, N)[i] \in Nat /\ count[i] \in Nat
  BY <1>1, OffsetsType DEF Targets
<1>3. p \in Row(RowOffsets(count, N), count, i)
  BY <1>2 DEF Row
<1>4. Row(RowOffsets(count, N), count, i) \subseteq 0..Total(count)-1
  BY <1>1, NAssumption, RowsFitTotal DEF Total
<1>5. QED
  BY <1>3, <1>4

(* Two neighbours have the same place only if they are the same.           *)
LEMMA PlacesDiffer ==
  ASSUME NEW count \in Numbers,
         NEW i \in Targets, NEW j \in 0..count[i]-1,
         NEW k \in Targets, NEW l \in 0..count[k]-1,
         RowOffsets(count, N)[i] + j = RowOffsets(count, N)[k] + l
  PROVE  i = k /\ j = l
<1>1. count \in [0..N-1 -> Nat] /\ i \in 0..N-1 /\ k \in 0..N-1
  BY NumbersAreNat DEF Targets
<1>2. i = k
  <2> DEFINE p == RowOffsets(count, N)[i] + j
             row(m) == Row(RowOffsets(count, N), count, m)
  <2>1. p \in row(i)
    BY PlaceInRow
  <2>2. RowOffsets(count, N)[k] + l \in row(k)
    BY PlaceInRow
  <2>3. i # k => row(i) \cap row(k) = {}
    BY <1>1, NAssumption, RowsDisjoint
  <2>4. QED
    BY <2>1, <2>2, <2>3
<1>3. RowOffsets(count, N)[i] \in Nat /\ count[i] \in Nat
  BY <1>1, OffsetsType DEF Targets
<1>4. QED
  BY <1>2, <1>3

(* Filled lists are lists, and read as the table if they are long enough.  *)
LEMMA FilledType ==
  ASSUME NEW count \in Numbers, NEW t \in Tables(count), NEW length \in Nat,
         NEW lists \in Lists(length)
  PROVE  Filled(lists, length, count, t) \in Lists(length)
<1> DEFINE InRow(p, i) == p \in Row(RowOffsets(count, N), count, i)
           chosen(p) == CHOOSE i \in Targets : InRow(p, i)
<1>1. ASSUME NEW p \in 0..length-1, NEW i \in Targets, InRow(p, i)
      PROVE  t[i][p - RowOffsets(count, N)[i]] \in Values
  <2>1. RowOffsets(count, N)[i] \in Nat /\ count[i] \in 0..MaxRow
    BY OffsetsType DEF Numbers
  <2>2. p - RowOffsets(count, N)[i] \in 0..MaxRow-1
    BY <1>1, <2>1, ListsAssumption DEF Row
  <2>3. t[i] \in [0..MaxRow-1 -> Values]
    BY DEF Tables
  <2>4. QED
    BY <2>2, <2>3
<1>2. ASSUME NEW p \in 0..length-1
      PROVE  (IF \E i \in Targets : InRow(p, i)
              THEN t[chosen(p)][p - RowOffsets(count, N)[chosen(p)]] ELSE lists[p]) \in Values
  <2>1. CASE \E i \in Targets : InRow(p, i)
    <3>1. chosen(p) \in Targets /\ InRow(p, chosen(p))
      BY <2>1
    <3>2. t[chosen(p)][p - RowOffsets(count, N)[chosen(p)]] \in Values
      BY <1>1, <3>1
    <3>3. QED
      BY <2>1, <3>2
  <2>2. CASE ~ \E i \in Targets : InRow(p, i)
    <3>1. lists[p] \in Values
      BY DEF Lists
    <3>2. QED
      BY <2>2, <3>1
  <2>3. QED
    BY <2>1, <2>2
<1>3. QED
  BY <1>2, Zenon DEF Filled, Lists

LEMMA FilledReads ==
  ASSUME NEW count \in Numbers, NEW t \in Tables(count), NEW length \in Nat,
         NEW lists, Total(count) <= length,
         NEW i \in Targets, NEW j \in 0..count[i]-1
  PROVE  LET p == RowOffsets(count, N)[i] + j
         IN  p \in 0..length-1 /\ Filled(lists, length, count, t)[p] = t[i][j]
<1> DEFINE offset == RowOffsets(count, N)
           p == offset[i] + j
           InRow(q, k) == q \in Row(offset, count, k)
           chosen(q) == CHOOSE k \in Targets : InRow(q, k)
<1>1. InRow(p, i) /\ p \in 0..Total(count)-1
  BY PlaceInRow
<1>2. p \in 0..length-1
  BY <1>1, OffsetsType
<1>3. chosen(p) \in Targets /\ InRow(p, chosen(p))
  BY <1>1
<1>4. chosen(p) = i
  <2>1. count \in [0..N-1 -> Nat]
    BY NumbersAreNat
  <2>2. chosen(p) # i => Row(offset, count, chosen(p)) \cap Row(offset, count, i) = {}
    BY <1>3, <2>1, NAssumption, RowsDisjoint DEF Targets
  <2>3. QED
    BY <1>1, <1>3, <2>2
<1>5. offset[i] \in Nat /\ j \in Int
  BY OffsetsType DEF Numbers
<1>6. Filled(lists, length, count, t)[p] = t[chosen(p)][p - offset[chosen(p)]]
  BY <1>1, <1>2, Zenon DEF Filled
<1>7. p - offset[i] = j
  BY <1>5
<1>8. QED
  BY <1>2, <1>4, <1>6, <1>7

(* The reductions give one of the numbers, or 0 if there are none.         *)
LEMMA MaxNeighborsType ==
  ASSUME NEW count \in Numbers PROVE MaxNeighbors(count, N) \in 0..MaxRow
<1> DEFINE C == {count[i] : i \in 0..N-1}
           D == {MaxRow - c : c \in C}
<1>1. MaxRow \in Nat /\ N \in Nat /\ count \in [0..N-1 -> 0..MaxRow]
  BY NAssumption, ListsAssumption DEF Numbers, Targets
<1>2. CASE N = 0
  BY <1>1, <1>2 DEF MaxNeighbors
<1>3. CASE N # 0
  <2>1. C \subseteq 0..MaxRow
    BY <1>1
  <2>2. D \subseteq Nat
    BY <1>1, <2>1
  <2>3. count[0] \in C
    BY <1>1, <1>3
  <2>4. D # {}
    BY <2>3
  <2>5. PICK d \in D : \A e \in D : d <= e
    BY <2>2, <2>4, LeastNat
  <2>6. PICK m \in C : d = MaxRow - m
    OBVIOUS
  <2>7. ASSUME NEW c \in C PROVE c <= m
    <3>1. MaxRow - m <= MaxRow - c
      BY <2>5, <2>6
    <3>2. c \in Nat /\ m \in Nat
      BY <2>1, <1>1
    <3>3. QED
      BY <1>1, <3>1, <3>2
  <2>8. \E n \in C : \A i \in 0..N-1 : count[i] <= n
    BY <2>7
  <2> HIDE DEF D
  <2>9. (CHOOSE n \in C : \A i \in 0..N-1 : count[i] <= n) \in C
    BY <2>8
  <2>10. QED
    BY <1>3, <2>1, <2>9 DEF MaxNeighbors
<1>4. QED
  BY <1>2, <1>3

LEMMA MinNeighborsType ==
  ASSUME NEW count \in Numbers PROVE MinNeighbors(count) \in 0..MaxRow
<1> DEFINE C == {count[i] : i \in Targets}
<1>1. MaxRow \in Nat /\ N \in Nat /\ count \in [Targets -> 0..MaxRow]
  BY NAssumption, ListsAssumption DEF Numbers
<1>2. CASE N = 0
  BY <1>1, <1>2 DEF MinNeighbors
<1>3. CASE N # 0
  <2>1. C \subseteq 0..MaxRow /\ C \subseteq Nat
    BY <1>1
  <2>2. 0 \in Targets
    BY <1>1, <1>3 DEF Targets
  <2>3. C # {}
    BY <2>2
  <2>4. \E m \in C : \A c \in C : m <= c
    BY <2>1, <2>3, LeastNat
  <2>5. \E m \in C : \A i \in Targets : m <= count[i]
    BY <2>4
  <2>6. (CHOOSE m \in C : \A i \in Targets : m <= count[i]) \in C
    BY <2>5
  <2>7. QED
    BY <1>3, <2>1, <2>6 DEF MinNeighbors
<1>4. QED
  BY <1>2, <1>3

-----------------------------------------------------------------------------
(* The invariant.                                                          *)
ReadsAsDue ==
  (exists # {} \/ LargeEnough) =>
    \A i \in Targets : \A j \in Neighbors(i) :
      LET p == RowOffsets(number_of_neighbors_list, N)[i] + j
      IN  p \in DOMAIN cr_neighbor_lists /\ cr_neighbor_lists[p] = table[i][j]

OffsetsAreDue ==
  InUse => /\ row_offsets = RowOffsets(number_of_neighbors_list, N)
           /\ host_row_offsets = row_offsets

HostIsUpToDate == exists # {} /\ writers = {} => HostLists = cr_neighbor_lists

(* The mirror of the numbers is only behind after a search.                *)
NumbersAreKnown ==
  exists # {} /\ ~ renumbered => host_number_of_neighbors_list = number_of_neighbors_list

WritersAreMarked ==
  /\ writers \subseteq exists \cup {"user"}
  /\ debug => \A o \in writers \cap exists : needs_sync_to_host[o]

ListsInv ==
  /\ TypeOK /\ ReadsAsDue /\ OffsetsAreDue
  /\ HostIsUpToDate /\ NumbersAreKnown /\ WritersAreMarked

LEMMA NewType == ASSUME NEW length \in Nat PROVE New(length) \in Lists(length)
BY ListsAssumption DEF New, Lists

LEMMA InitInv == Init => ListsInv
<1> SUFFICES ASSUME Init PROVE ListsInv
  OBVIOUS
<1>1. extent \in Nat /\ number_of_neighbors_list \in Numbers /\ table \in Tables(number_of_neighbors_list)
  BY ListsAssumption DEF Init
<1>2. New(extent) \in Lists(extent) /\ New(0) \in Lists(0)
  BY <1>1, NewType
<1>3. cr_neighbor_lists \in Lists(extent)
  BY <1>1, <1>2, FilledType DEF Init
<1>4. TypeOK
  <2>1. host_cr_neighbor_lists \in Lists(IF exists = {} THEN 0 ELSE extent)
    BY <1>2, Zenon DEF Init
  <2>2. row_offsets \in [Targets -> Nat] /\ host_row_offsets \in [Targets -> Nat]
    BY DEF Init
  <2>3. /\ max_neighbor_list_row_storage_size \in [Objects -> {-1} \cup 0..MaxRow]
        /\ min_neighbor_list_row_storage_size \in [Objects -> {-1} \cup 0..MaxRow \cup Leftover]
        /\ needs_sync_to_host \in [Objects -> BOOLEAN]
    BY DEF Init
  <2>4. /\ separate \in BOOLEAN /\ debug \in BOOLEAN
        /\ exists \subseteq Objects /\ stale \in BOOLEAN /\ renumbered \in BOOLEAN
        /\ writers \subseteq Objects \cup {"user"}
    BY Zenon DEF Init
  <2>5. searches \in 0..MaxSearches
    BY ListsAssumption DEF Init
  <2>6. host_number_of_neighbors_list \in Numbers
    BY ListsAssumption DEF Init, Numbers
  <2>7. QED
    BY <1>1, <1>3, <2>1, <2>2, <2>3, <2>4, <2>5, <2>6, Zenon DEF TypeOK
<1>5. ReadsAsDue
  <2> SUFFICES ASSUME LargeEnough,
                      NEW i \in Targets, NEW j \in 0..number_of_neighbors_list[i]-1
               PROVE  LET p == RowOffsets(number_of_neighbors_list, N)[i] + j
                      IN  p \in DOMAIN cr_neighbor_lists /\ cr_neighbor_lists[p] = table[i][j]
    BY Zenon DEF ReadsAsDue, Neighbors, Init
  <2>1. DOMAIN cr_neighbor_lists = 0..extent-1
    BY <1>3 DEF Lists
  <2>2. Total(number_of_neighbors_list) <= extent
    BY DEF LargeEnough
  <2>3. cr_neighbor_lists = Filled(New(extent), extent, number_of_neighbors_list, table)
    BY DEF Init
  <2>4. QED
    BY <1>1, <2>1, <2>2, <2>3, FilledReads
<1>6. OffsetsAreDue /\ HostIsUpToDate /\ NumbersAreKnown /\ WritersAreMarked
  BY DEF Init, OffsetsAreDue, InUse, HostIsUpToDate, NumbersAreKnown, WritersAreMarked
<1>7. QED
  BY <1>4, <1>5, <1>6 DEF ListsInv

(* A constructor establishes the invariant, if its lists read as its table *)
(* by the offsets it computes.                                             *)
LEMMA ConstructInv ==
  ASSUME TypeOK, NEW o \in Objects, NEW count \in Numbers, NEW length \in Nat,
         NEW lists \in Lists(length), NEW t \in Tables(count), NEW computed_max \in BOOLEAN,
         NEW min \in {-1} \cup Leftover,
         Construct(o, count, lists, length, t, computed_max, min),
         \A i \in Targets : \A j \in 0..count[i]-1 :
           /\ RowOffsets(count, N)[i] + j \in DOMAIN lists
           /\ lists[RowOffsets(count, N)[i] + j] = t[i][j]
  PROVE  ListsInv'
<1> USE DEF Construct
<1>1. RowOffsets(count, N) \in [Targets -> Nat]
  BY OffsetsType
<1>2. (IF computed_max THEN MaxNeighbors(count, N) ELSE -1) \in {-1} \cup 0..MaxRow
  BY MaxNeighborsType
<1>3. TypeOK'
  <2>1. max_neighbor_list_row_storage_size' \in [Objects -> {-1} \cup 0..MaxRow]
    BY <1>2 DEF TypeOK
  <2>2. needs_sync_to_host' \in [Objects -> BOOLEAN]
    BY DEF TypeOK
  <2>3. /\ (separate \in BOOLEAN /\ debug \in BOOLEAN /\ searches \in 0..MaxSearches)'
        /\ min_neighbor_list_row_storage_size' \in
             [Objects -> {-1} \cup 0..MaxRow \cup Leftover]
    BY DEF TypeOK, build
  <2>4. exists' # {} /\ exists' \subseteq Objects
    OBVIOUS
  <2>5. extent' = length /\ cr_neighbor_lists' = lists /\ host_cr_neighbor_lists' = lists
    OBVIOUS
  <2>6. (row_offsets \in [Targets -> Nat] /\ host_row_offsets \in [Targets -> Nat])'
    BY <1>1
  <2>7. (/\ number_of_neighbors_list \in Numbers /\ host_number_of_neighbors_list \in Numbers
         /\ table \in Tables(number_of_neighbors_list))'
    OBVIOUS
  <2>8. (stale \in BOOLEAN /\ renumbered \in BOOLEAN /\ writers \subseteq Objects \cup {"user"})'
    OBVIOUS
  <2> QED
    BY <2>1, <2>2, <2>3, <2>4, <2>5, <2>6, <2>7, <2>8, Zenon DEF TypeOK
<1>4. ReadsAsDue'
  BY DEF ReadsAsDue, Neighbors
<1>5. OffsetsAreDue'
  BY DEF OffsetsAreDue, InUse
<1>6. HostLists' = cr_neighbor_lists'
  BY DEF HostLists
<1>7. HostIsUpToDate' /\ NumbersAreKnown'
  BY <1>6 DEF HostIsUpToDate, NumbersAreKnown
<1>8. WritersAreMarked'
  BY DEF WritersAreMarked
<1>9. QED
  BY <1>3, <1>4, <1>5, <1>7, <1>8 DEF ListsInv

LEMMA ConstructorsInv ==
  ASSUME ListsInv, NEW o \in Objects,
         \/ \E compute_max \in BOOLEAN : ConstructWithOffsets(o, compute_max)
         \/ ConstructFromLists(o)
         \/ ConstructFromNumbers(o)
         \/ \E count \in Numbers : \E t \in Tables(count) :
              Convert2DToCompressedRowNeighborLists(o, count, t)
  PROVE  ListsInv'
<1> DEFINE numbers == number_of_neighbors_list
<1>1. TypeOK /\ ReadsAsDue
  BY DEF ListsInv
<1>2. /\ numbers \in Numbers /\ table \in Tables(numbers)
      /\ extent \in Nat /\ cr_neighbor_lists \in Lists(extent)
  BY <1>1 DEF TypeOK
<1>3. ASSUME NEW compute_max \in BOOLEAN, NEW min \in {-1} \cup Leftover, LargeEnough,
             Construct(o, numbers, cr_neighbor_lists, extent, table, compute_max, min)
      PROVE  ListsInv'
  <2>1. \A i \in Targets : \A j \in 0..numbers[i]-1 :
          /\ RowOffsets(numbers, N)[i] + j \in DOMAIN cr_neighbor_lists
          /\ cr_neighbor_lists[RowOffsets(numbers, N)[i] + j] = table[i][j]
    BY <1>1, <1>3 DEF ReadsAsDue, Neighbors
  <2>2. QED
    BY <1>1, <1>2, <1>3, <2>1, ConstructInv
<1>4. CASE \E compute_max \in BOOLEAN : ConstructWithOffsets(o, compute_max)
  BY <1>3, <1>4 DEF ConstructWithOffsets
<1>5. CASE ConstructFromLists(o)
  BY <1>3, <1>5 DEF ConstructFromLists
<1>6. CASE ConstructFromNumbers(o)
  <2> DEFINE total == Total(numbers)
  <2>1. total \in Nat
    BY <1>2, OffsetsType
  <2>2. New(total) \in Lists(total)
    BY <2>1, NewType
  <2>3. NoNeighbors \in Tables(numbers)
    BY <1>2, ListsAssumption DEF NoNeighbors, Tables, Numbers
  <2>4. ASSUME NEW i \in Targets, NEW j \in 0..numbers[i]-1
        PROVE  LET p == RowOffsets(numbers, N)[i] + j
               IN  p \in DOMAIN New(total) /\ New(total)[p] = NoNeighbors[i][j]
    <3>1. RowOffsets(numbers, N)[i] + j \in 0..total-1
      BY <1>2, PlaceInRow
    <3>2. numbers[i] \in 0..MaxRow /\ MaxRow \in Nat
      BY <1>2, ListsAssumption DEF Numbers
    <3>3. NoNeighbors[i][j] = Unset
      BY <3>2 DEF NoNeighbors
    <3>4. QED
      BY <3>1, <3>3 DEF New
  <2>5. PICK min \in Leftover : Construct(o, numbers, New(total), total, NoNeighbors, TRUE, min)
    BY <1>6 DEF ConstructFromNumbers
  <2> HIDE DEF total
  <2>6. QED
    BY <1>1, <1>2, <2>1, <2>2, <2>3, <2>4, <2>5, ConstructInv
<1>7. ASSUME NEW count \in Numbers, NEW t \in Tables(count),
             Convert2DToCompressedRowNeighborLists(o, count, t)
      PROVE  ListsInv'
  <2> DEFINE total == Total(count)
             lists == Filled(New(total), total, count, t)
  <2>1. total \in Nat
    BY OffsetsType
  <2>2. New(total) \in Lists(total)
    BY <2>1, NewType
  <2>3. lists \in Lists(total)
    BY <2>1, <2>2, FilledType
  <2>4. DOMAIN lists = 0..total-1
    BY <2>3 DEF Lists
  <2>5. \A i \in Targets : \A j \in 0..count[i]-1 :
          /\ RowOffsets(count, N)[i] + j \in 0..total-1
          /\ lists[RowOffsets(count, N)[i] + j] = t[i][j]
    BY <2>1, FilledReads
  <2>6. PICK min \in Leftover : Construct(o, count, lists, total, t, TRUE, min)
    BY <1>7 DEF Convert2DToCompressedRowNeighborLists
  <2> HIDE DEF total, lists
  <2>7. QED
    BY <1>1, <2>1, <2>3, <2>4, <2>5, <2>6, ConstructInv
<1>8. QED
  BY <1>4, <1>5, <1>6, <1>7

(* A write to one neighbour leaves all others as they read.                *)
LEMMA SetNeighborInv ==
  ASSUME ListsInv, NEW o \in Objects, NEW i \in Targets, NEW j \in 0..MaxRow-1,
         NEW v \in Values, setNeighborDevice(o, i, j, v)
  PROVE  ListsInv'
<1> DEFINE numbers == number_of_neighbors_list
           q == row_offsets[i] + j
<1> USE DEF setNeighborDevice
<1>1. /\ TypeOK /\ ReadsAsDue /\ OffsetsAreDue
      /\ HostIsUpToDate /\ NumbersAreKnown /\ WritersAreMarked
  BY DEF ListsInv
<1>2. numbers \in Numbers /\ numbers' = numbers /\ numbers[i] \in 0..MaxRow
  BY <1>1 DEF TypeOK, Numbers
<1>3. row_offsets = RowOffsets(numbers, N) /\ row_offsets' = row_offsets
  BY <1>1 DEF OffsetsAreDue, InUse, offsets
<1>4. j \in 0..numbers[i]-1
  BY <1>2
<1>5. table \in [Targets -> [0..MaxRow-1 -> Values]]
  BY <1>1 DEF TypeOK, Tables
<1>6. TypeOK'
  <2>1. cr_neighbor_lists' \in Lists(extent')
    BY <1>1 DEF TypeOK, Lists
  <2>2. needs_sync_to_host' \in [Objects -> BOOLEAN]
    BY <1>1 DEF TypeOK, Mark
  <2>3. table' \in Tables(numbers')
    <3>1. table' \in [Targets -> [0..MaxRow-1 -> Values]]
      BY <1>5
    <3>2. ASSUME NEW k \in Targets, NEW l \in numbers[k]..MaxRow-1
          PROVE  table'[k][l] = Unset
      <4>1. table[k][l] = Unset
        BY <1>1 DEF TypeOK, Tables
      <4>2. k = i => l # j
        BY <1>2, <1>4
      <4>3. numbers[k] \in 0..MaxRow /\ MaxRow \in Nat
        BY <1>2, ListsAssumption DEF Numbers
      <4>4. l \in 0..MaxRow-1
        BY <4>3
      <4>5. QED
        BY <1>5, <4>1, <4>2, <4>4
    <3>3. QED
      BY <1>2, <3>1, <3>2 DEF Tables
  <2>4. exists' = exists /\ extent' = extent /\ host_cr_neighbor_lists' = host_cr_neighbor_lists
        /\ host_number_of_neighbors_list' = host_number_of_neighbors_list
        /\ host_row_offsets' = host_row_offsets /\ searches' = searches
        /\ stale' = stale /\ renumbered' = renumbered /\ separate' = separate /\ debug' = debug
    BY DEF build, host, offsets
  <2>5. writers' \subseteq Objects \cup {"user"}
    BY <1>1 DEF TypeOK
  <2>6. QED
    BY <1>1, <1>2, <1>3, <2>1, <2>2, <2>3, <2>4, <2>5, Zenon DEF TypeOK
<1>7. ReadsAsDue'
  <2> SUFFICES ASSUME NEW k \in Targets, NEW l \in 0..numbers[k]-1
               PROVE  LET p == row_offsets[k] + l
                      IN  /\ p \in DOMAIN cr_neighbor_lists'
                          /\ cr_neighbor_lists'[p] = table'[k][l]
    BY <1>2, <1>3 DEF ReadsAsDue, Neighbors
  <2>1. /\ row_offsets[k] + l \in DOMAIN cr_neighbor_lists
        /\ cr_neighbor_lists[row_offsets[k] + l] = table[k][l]
    BY <1>1, <1>3 DEF ReadsAsDue, Neighbors
  <2>2. row_offsets[k] + l = q => k = i /\ l = j
    BY <1>2, <1>3, <1>4, PlacesDiffer
  <2>3. numbers[k] \in 0..MaxRow /\ MaxRow \in Nat
    BY <1>2, ListsAssumption DEF Numbers
  <2>4. l \in 0..MaxRow-1
    BY <2>3
  <2>5. CASE k = i /\ l = j
    BY <1>5, <2>1, <2>4, <2>5
  <2>6. CASE ~ (k = i /\ l = j)
    <3>1. table'[k][l] = table[k][l]
      BY <1>5, <2>4, <2>6
    <3>2. QED
      BY <2>1, <2>2, <2>6, <3>1
  <2>7. QED
    BY <2>5, <2>6
<1>8. OffsetsAreDue'
  BY <1>1, <1>2 DEF OffsetsAreDue, InUse, offsets
<1>9. HostIsUpToDate' /\ NumbersAreKnown'
  BY <1>1 DEF HostIsUpToDate, NumbersAreKnown, host
<1>10. WritersAreMarked'
  <2>1. writers' \subseteq exists' \cup {"user"}
    BY <1>1 DEF WritersAreMarked
  <2>2. ASSUME debug', NEW p \in writers' \cap exists' PROVE needs_sync_to_host'[p]
    <3>1. needs_sync_to_host \in [Objects -> BOOLEAN] /\ debug
      BY <1>1, <2>2 DEF TypeOK, build
    <3>2. CASE p = o
      BY <3>1, <3>2 DEF Mark
    <3>3. CASE p # o
      BY <1>1, <2>2, <3>1, <3>3 DEF WritersAreMarked
    <3>4. QED
      BY <3>2, <3>3
  <2>3. QED
    BY <2>1, <2>2 DEF WritersAreMarked
<1>11. QED
  BY <1>6, <1>7, <1>8, <1>9, <1>10 DEF ListsInv

(* A search may leave the offsets stale, but not what is due.              *)
LEMMA SearchInv ==
  ASSUME ListsInv, NEW count \in Numbers, NEW t \in Tables(count), Search(count, t)
  PROVE  ListsInv'
<1> USE DEF Search
<1>1. TypeOK /\ OffsetsAreDue /\ WritersAreMarked
  BY DEF ListsInv
<1>2. extent \in Nat /\ cr_neighbor_lists \in Lists(extent) /\ extent' = extent
  BY <1>1 DEF TypeOK
<1>3. cr_neighbor_lists' \in Lists(extent)
  BY <1>2, FilledType
<1>4. TypeOK'
  <2>1. exists' = exists /\ host_cr_neighbor_lists' = host_cr_neighbor_lists
        /\ host_number_of_neighbors_list' = host_number_of_neighbors_list
        /\ row_offsets' = row_offsets
        /\ host_row_offsets' = host_row_offsets /\ separate' = separate /\ debug' = debug
        /\ max_neighbor_list_row_storage_size' = max_neighbor_list_row_storage_size
        /\ min_neighbor_list_row_storage_size' = min_neighbor_list_row_storage_size
        /\ needs_sync_to_host' = needs_sync_to_host
    BY DEF build, host, offsets, members
  <2>2. stale' \in BOOLEAN /\ renumbered' \in BOOLEAN /\ writers' \subseteq Objects \cup {"user"}
    BY <1>1 DEF TypeOK
  <2>3. searches' \in 0..MaxSearches
    BY <1>1, ListsAssumption DEF TypeOK
  <2>4. QED
    BY <1>1, <1>2, <1>3, <2>1, <2>2, <2>3, Zenon DEF TypeOK
<1>5. ReadsAsDue'
  <2>1. DOMAIN cr_neighbor_lists' = 0..extent-1
    BY <1>3 DEF Lists
  <2>2. \A i \in Targets : \A j \in 0..count[i]-1 :
          /\ RowOffsets(count, N)[i] + j \in DOMAIN cr_neighbor_lists'
          /\ cr_neighbor_lists'[RowOffsets(count, N)[i] + j] = t[i][j]
    BY <1>2, <2>1, FilledReads
  <2>3. QED
    BY <2>2 DEF ReadsAsDue, Neighbors
<1>6. OffsetsAreDue' /\ HostIsUpToDate' /\ NumbersAreKnown'
  BY <1>1 DEF OffsetsAreDue, InUse, HostIsUpToDate, NumbersAreKnown
<1>7. WritersAreMarked'
  <2>1. exists' = exists /\ exists \subseteq Objects /\ needs_sync_to_host' = needs_sync_to_host
        /\ debug' = debug
    BY <1>1 DEF TypeOK, members, build
  <2>2. "user" \notin exists
    BY <2>1, ListsAssumption
  <2>3. QED
    BY <1>1, <2>1, <2>2 DEF WritersAreMarked
<1>8. QED
  BY <1>4, <1>5, <1>6, <1>7 DEF ListsInv

(* Operations that leave numbers and lists of the device alone.            *)
LEMMA OtherOperationsInv ==
  ASSUME ListsInv, NEW o \in Objects,
         \/ \E p \in Objects : Copy(o, p)
         \/ computeMaxNumNeighbors(o)
         \/ computeMinNumNeighbors(o)
         \/ computeRowOffsets(o)
         \/ copyDeviceDataToHost(o)
  PROVE  ListsInv'
<1> DEFINE numbers == number_of_neighbors_list
<1>1. /\ TypeOK /\ ReadsAsDue /\ OffsetsAreDue
      /\ HostIsUpToDate /\ NumbersAreKnown /\ WritersAreMarked
  BY DEF ListsInv
<1>2. CASE \E p \in Objects : Copy(o, p)
  <2>1. PICK p \in Objects : Copy(o, p)
    BY <1>2
  <2> USE DEF Copy, build, device, host, offsets, history
  <2>2. TypeOK'
    BY <1>1, <2>1 DEF TypeOK
  <2>3. ReadsAsDue' /\ OffsetsAreDue' /\ HostIsUpToDate' /\ NumbersAreKnown'
    BY <1>1, <2>1 DEF ReadsAsDue, Neighbors, OffsetsAreDue, InUse, HostIsUpToDate, HostLists,
                      NumbersAreKnown
  <2>4. WritersAreMarked'
    <3>1. p \notin writers
      BY <1>1, <2>1, ListsAssumption DEF WritersAreMarked
    <3>2. \A m \in exists : needs_sync_to_host'[m] = needs_sync_to_host[m]
      BY <1>1, <2>1 DEF TypeOK
    <3>3. exists' = exists \cup {p} /\ writers' = writers /\ debug' = debug
      BY <2>1
    <3>4. QED
      BY <1>1, <3>1, <3>2, <3>3 DEF WritersAreMarked
  <2>5. QED
    BY <2>2, <2>3, <2>4 DEF ListsInv
<1>3. CASE computeMaxNumNeighbors(o)
  <2> USE DEF computeMaxNumNeighbors, build, device, host, offsets, history
  <2>1. MaxNeighbors(numbers, N) \in 0..MaxRow
    BY <1>1, MaxNeighborsType DEF TypeOK
  <2>2. TypeOK'
    BY <1>1, <1>3, <2>1 DEF TypeOK
  <2>3. /\ ReadsAsDue' /\ OffsetsAreDue' /\ HostIsUpToDate'
        /\ NumbersAreKnown' /\ WritersAreMarked'
    BY <1>1, <1>3 DEF ReadsAsDue, Neighbors, LargeEnough, OffsetsAreDue, InUse, HostIsUpToDate,
                      HostLists, NumbersAreKnown, WritersAreMarked
  <2>4. QED
    BY <2>2, <2>3 DEF ListsInv
<1>4. CASE computeMinNumNeighbors(o)
  <2> USE DEF computeMinNumNeighbors, build, device, host, offsets, history
  <2>1. MinNeighbors(numbers) \in 0..MaxRow
    BY <1>1, MinNeighborsType DEF TypeOK
  <2>2. TypeOK'
    BY <1>1, <1>4, <2>1 DEF TypeOK
  <2>3. /\ ReadsAsDue' /\ OffsetsAreDue' /\ HostIsUpToDate'
        /\ NumbersAreKnown' /\ WritersAreMarked'
    BY <1>1, <1>4 DEF ReadsAsDue, Neighbors, LargeEnough, OffsetsAreDue, InUse, HostIsUpToDate,
                      HostLists, NumbersAreKnown, WritersAreMarked
  <2>4. QED
    BY <2>2, <2>3 DEF ListsInv
<1>5. CASE computeRowOffsets(o)
  <2> USE DEF computeRowOffsets, build, device, host, members
  <2>1. RowOffsets(numbers, N) \in [Targets -> Nat]
    BY <1>1, OffsetsType DEF TypeOK
  <2>2. TypeOK'
    BY <1>1, <1>5, <2>1 DEF TypeOK
  <2>3. OffsetsAreDue'
    BY <1>5 DEF OffsetsAreDue
  <2>4. ReadsAsDue' /\ HostIsUpToDate' /\ NumbersAreKnown' /\ WritersAreMarked'
    BY <1>1, <1>5 DEF ReadsAsDue, Neighbors, LargeEnough, HostIsUpToDate,
                      HostLists, NumbersAreKnown, WritersAreMarked
  <2>5. QED
    BY <2>2, <2>3, <2>4 DEF ListsInv
<1>6. CASE copyDeviceDataToHost(o)
  <2> USE DEF copyDeviceDataToHost, build, device, offsets
  <2>1. exists # {}
    BY <1>6
  <2>2. TypeOK'
    BY <1>1, <1>6, <2>1 DEF TypeOK
  <2>3. ReadsAsDue' /\ OffsetsAreDue' /\ NumbersAreKnown' /\ WritersAreMarked'
    BY <1>1, <1>6 DEF ReadsAsDue, Neighbors, LargeEnough, OffsetsAreDue, InUse, NumbersAreKnown,
                      WritersAreMarked
  <2>4. HostLists' = cr_neighbor_lists'
    BY <1>6 DEF HostLists
  <2>5. QED
    BY <2>2, <2>3, <2>4 DEF ListsInv, HostIsUpToDate
<1>7. QED
  BY <1>2, <1>3, <1>4, <1>5, <1>6

LEMMA StepInv == ListsInv /\ [Next]_vars => ListsInv'
<1> SUFFICES ASSUME ListsInv, [Next]_vars PROVE ListsInv'
  OBVIOUS
<1>1. ASSUME NEW o \in Objects, Operation(o) PROVE ListsInv'
  BY <1>1, ConstructorsInv, SetNeighborInv, OtherOperationsInv, Zenon DEF Operation
<1>2. ASSUME NEW count \in Numbers, NEW t \in Tables(count), Search(count, t) PROVE ListsInv'
  BY <1>2, SearchInv
<1>3. CASE UNCHANGED vars
  BY <1>3 DEF vars, build, device, host, offsets, members, history, ListsInv, TypeOK, ReadsAsDue, Neighbors,
              LargeEnough, OffsetsAreDue, InUse, HostIsUpToDate, HostLists,
              NumbersAreKnown, WritersAreMarked
<1>4. QED
  BY <1>1, <1>2, <1>3 DEF Next

-----------------------------------------------------------------------------
(* What the invariant says of readers.                                     *)
LEMMA InvReads == ListsInv => DeviceReadsTable /\ HostReadsTable
<1> SUFFICES ASSUME ListsInv, InUse, NEW i \in Targets, NEW j \in Neighbors(i)
             PROVE  /\ row_offsets[i] + j \in DOMAIN cr_neighbor_lists
                    /\ cr_neighbor_lists[row_offsets[i] + j] = table[i][j]
                    /\ writers = {} => \A o \in exists :
                         IF Refuses(o, i, j)
                         THEN needs_sync_to_host[o] \/ (separate /\ renumbered)
                         ELSE /\ HostPlace(i, j) \in DOMAIN HostLists
                              /\ HostLists[HostPlace(i, j)] = table[i][j]
  BY DEF DeviceReadsTable, HostReadsTable
<1>1. number_of_neighbors_list[i] \in 0..MaxRow /\ MaxRow \in Nat
  BY ListsAssumption DEF ListsInv, TypeOK, Numbers
<1>2. /\ row_offsets = RowOffsets(number_of_neighbors_list, N)
      /\ HostOffsets = row_offsets
  BY DEF ListsInv, OffsetsAreDue, HostOffsets
<1>3. j \in Int /\ j < number_of_neighbors_list[i]
  BY <1>1 DEF Neighbors
<1>4. /\ row_offsets[i] + j \in DOMAIN cr_neighbor_lists
      /\ cr_neighbor_lists[row_offsets[i] + j] = table[i][j]
  BY <1>2 DEF ListsInv, ReadsAsDue, InUse
<1>5. writers = {} => HostLists = cr_neighbor_lists
  BY DEF ListsInv, HostIsUpToDate, InUse
<1>6. ASSUME NEW o \in exists, Refuses(o, i, j), ~ needs_sync_to_host[o]
      PROVE  separate /\ renumbered
  <2>1. j >= HostNumbers[i]
    BY <1>6 DEF Refuses
  <2>2. HostNumbers # number_of_neighbors_list
    BY <1>1, <1>3, <2>1
  <2>3. QED
    BY <2>2 DEF HostNumbers, ListsInv, NumbersAreKnown, InUse
<1>7. QED
  BY <1>2, <1>4, <1>5, <1>6 DEF HostPlace

(* Views hold indices at all of their places, whatever is searched,        *)
(* converted, copied or set; a minimum nobody has computed is -1 or, after *)
(* the constructors that do not write it, anything.                        *)
THEOREM ListsTyped == Spec => []TypeOK
<1>1. ListsInv => TypeOK
  BY DEF ListsInv
<1>2. QED
  BY <1>1, InitInv, StepInv, PTL DEF Spec

(* getNeighborDevice of every copy stays within the lists and finds what   *)
(* was last given for that neighbour, by whichever object or search.       *)
THEOREM DeviceReads == Spec => []DeviceReadsTable
BY InitInv, StepInv, InvReads, PTL DEF Spec

(* getNeighborHost of every copy does so too, when all that was written    *)
(* has been copied to the host by some object, or it refuses, and that     *)
(* only if it does not know of the copying or if, with separate memories,  *)
(* the numbers have been searched for anew since construction.             *)
THEOREM HostReads == Spec => []HostReadsTable
BY InitInv, StepInv, InvReads, PTL DEF Spec

(* In a debug build the host is behind only if somebody has written since  *)
(* it was last copied to, and then each object that has written is marked. *)
THEOREM BehindMarked == Spec => []BehindIsMarked
<1>1. ListsInv => BehindIsMarked
  BY DEF ListsInv, HostIsUpToDate, WritersAreMarked, BehindIsMarked
<1>2. QED
  BY <1>1, InitInv, StepInv, PTL DEF Spec
=============================================================================
