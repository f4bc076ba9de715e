--------------------------- MODULE NeighborLists ---------------------------
(***************************************************************************)
(* The NeighborLists objects of one construction and its copies.  They     *)
(* share the user's views (numbers of neighbours and lists), the row       *)
(* offsets, and the mirrors of all three on the host; each object has its  *)
(* own maximum, minimum and mark that the host is behind.  The user may    *)
(* search again into the views it has given away.                          *)
(*                                                                         *)
(* table says what neighbour j of target i should be: it is history, not   *)
(* state of the code, and so are stale (the views have been searched into  *)
(* since the row offsets were computed), renumbered (since the object was  *)
(* constructed) and writers (who has written to the lists since they were  *)
(* last copied to the host).                                               *)
(***************************************************************************)
EXTENDS CompressedRow

CONSTANTS
  N,            \* targets
  Values,       \* indices of source sites
  Unset,        \* what a new view holds
  MaxRow,       \* bound on the neighbours of a target
  Extents,      \* lengths of the user's lists
  Objects,      \* names for the constructed object and its copies
  Leftover,     \* what a member that is not written may hold
  MaxSearches   \* bound on searches into views that are in use

ASSUME NAssumption == N \in Nat
ASSUME ListsAssumption ==
  /\ MaxRow \in Nat /\ MaxSearches \in Nat /\ Extents \subseteq Nat
  /\ Unset \in Values /\ "user" \notin Objects /\ Leftover \subseteq Int

Targets == 0..N-1
Numbers == [Targets -> 0..MaxRow]

(* Tables for the numbers of neighbours in count; the rest is unset.       *)
Tables(count) ==
  {t \in [Targets -> [0..MaxRow-1 -> Values]] :
     \A i \in Targets : \A j \in count[i]..MaxRow-1 : t[i][j] = Unset}
NoNeighbors == [i \in Targets |-> [j \in 0..MaxRow-1 |-> Unset]]

VARIABLES
  separate,     \* device memory is not the host's
  debug,        \* built with debug assertions
  extent,       \* of cr_neighbor_lists
  number_of_neighbors_list, cr_neighbor_lists, row_offsets,
  host_number_of_neighbors_list, host_cr_neighbor_lists,
  host_row_offsets,                           \* mirrors, if memory is separate
  exists,       \* objects
  max_neighbor_list_row_storage_size, min_neighbor_list_row_storage_size,
  needs_sync_to_host,                         \* members of each object
  table, stale, renumbered, writers, searches

build == <<separate, debug>>
device == <<number_of_neighbors_list, cr_neighbor_lists, extent>>
host == <<host_number_of_neighbors_list, host_cr_neighbor_lists>>
offsets == <<row_offsets, host_row_offsets>>
members == <<max_neighbor_list_row_storage_size, min_neighbor_list_row_storage_size,
             needs_sync_to_host>>
history == <<table, stale, renumbered, writers, searches>>
vars == <<build, device, host, offsets, exists, members, history>>

(* A mirror of a view of host memory is the view itself.                   *)
HostNumbers == IF separate THEN host_number_of_neighbors_list ELSE number_of_neighbors_list
HostLists == IF separate THEN host_cr_neighbor_lists ELSE cr_neighbor_lists
HostOffsets == IF separate THEN host_row_offsets ELSE row_offsets

Total(count) == TotalNeighbors(count, RowOffsets(count, N), N)
New(length) == [p \in 0..length-1 |-> Unset]

(* Mutated form of Filled: rows are stored where the lists have ended.     *)
FilledBeyond(lists, length, count, t) ==
  LET InRow(p, i) == p \in Row(RowOffsets(count, N), count, i)
  IN  [p \in 0..(IF length < Total(count) THEN Total(count) ELSE length)-1 |->
        IF \E i \in Targets : InRow(p, i)
        THEN LET i == CHOOSE i \in Targets : InRow(p, i)
             IN  t[i][p - RowOffsets(count, N)[i]]
        ELSE lists[p]]

(* Lists with the rows of t one after another; other places are as before. *)
Filled(lists, length, count, t) ==
  LET InRow(p, i) == p \in Row(RowOffsets(count, N), count, i)
  IN  [p \in 0..length-1 |->
        IF \E i \in Targets : InRow(p, i)
        THEN LET i == CHOOSE i \in Targets : InRow(p, i)
             IN  t[i][p - RowOffsets(count, N)[i]]
        ELSE lists[p]]

(* The user's views; lists may be too short for the numbers, as after the  *)
(* dry run of a search.                                                    *)
Init ==
  /\ separate \in BOOLEAN /\ debug \in BOOLEAN
  /\ number_of_neighbors_list \in Numbers /\ table \in Tables(number_of_neighbors_list)
  /\ extent \in Extents
  /\ cr_neighbor_lists = Filled(New(extent), extent, number_of_neighbors_list, table)
  /\ row_offsets = [i \in Targets |-> 0] /\ host_row_offsets = [i \in Targets |-> 0]
  /\ host_number_of_neighbors_list = [i \in Targets |-> 0] /\ host_cr_neighbor_lists = New(0)
  /\ exists = {}
  /\ max_neighbor_list_row_storage_size = [o \in Objects |-> -1]
  /\ min_neighbor_list_row_storage_size = [o \in Objects |-> -1]
  /\ needs_sync_to_host = [o \in Objects |-> TRUE]
  /\ stale = FALSE /\ renumbered = FALSE /\ writers = {} /\ searches = 0

(* A search writes numbers and lists, which it has found long enough.      *)
Search(count, t) ==
  /\ searches < MaxSearches /\ Total(count) <= extent
  /\ number_of_neighbors_list' = count
  /\ cr_neighbor_lists' = Filled(cr_neighbor_lists, extent, count, t)
  /\ table' = t
  /\ stale' = (exists # {}) /\ renumbered' = (exists # {})
  /\ writers' = writers \cup {"user"}
  /\ searches' = searches + 1
  /\ UNCHANGED <<build, extent, host, offsets, exists, members>>

-----------------------------------------------------------------------------
(* Constructors: offsets are those of the numbers, mirrors are copies.     *)
(* Only the first one writes the minimum; the others leave it as it is.    *)
Construct(o, count, lists, length, t, computed_max, min) ==
  /\ exists = {} /\ exists' = {o}
  /\ number_of_neighbors_list' = count /\ host_number_of_neighbors_list' = count
  /\ cr_neighbor_lists' = lists /\ extent' = length /\ host_cr_neighbor_lists' = lists
  /\ row_offsets' = RowOffsets(count, N) /\ host_row_offsets' = RowOffsets(count, N)
  /\ max_neighbor_list_row_storage_size' =
       [max_neighbor_list_row_storage_size EXCEPT
          ![o] = IF computed_max THEN MaxNeighbors(count, N) ELSE -1]
  /\ min_neighbor_list_row_storage_size' = [min_neighbor_list_row_storage_size EXCEPT ![o] = min]
  /\ needs_sync_to_host' = [needs_sync_to_host EXCEPT ![o] = FALSE]
  /\ table' = t /\ stale' = FALSE /\ renumbered' = FALSE /\ writers' = {}
  /\ UNCHANGED <<build, searches>>

(* Mutated form of LargeEnough: no check of the user's lists.              *)
Unchecked == TRUE

(* The assertion that the user's lists can store all neighbours.           *)
LargeEnough == Total(number_of_neighbors_list) <= extent

(* The user has populated offsets as well, for these numbers.              *)
ConstructWithOffsets(o, compute_max) ==
  /\ LargeEnough
  /\ Construct(o, number_of_neighbors_list, cr_neighbor_lists, extent, table, compute_max, -1)

ConstructFromLists(o) ==
  /\ LargeEnough
  /\ \E min \in Leftover :
       Construct(o, number_of_neighbors_list, cr_neighbor_lists, extent, table, TRUE, min)

(* Lists are allocated, for the user to fill.                              *)
ConstructFromNumbers(o) ==
  LET total == Total(number_of_neighbors_list)
  IN  \E min \in Leftover :
        Construct(o, number_of_neighbors_list, New(total), total, NoNeighbors, TRUE, min)

(* New views, filled from a two dimensional view; with separate memories   *)
(* they are then copied to the host.                                       *)
Convert2DToCompressedRowNeighborLists(o, count, t) ==
  \E min \in Leftover :
    Construct(o, count, Filled(New(Total(count)), Total(count), count, t), Total(count), t,
              TRUE, min)

-----------------------------------------------------------------------------
(* Copies share all views.                                                 *)
Copy(o, p) ==
  /\ o \in exists /\ p \notin exists /\ exists' = exists \cup {p}
  /\ max_neighbor_list_row_storage_size' =
       [max_neighbor_list_row_storage_size EXCEPT ![p] = max_neighbor_list_row_storage_size[o]]
  /\ min_neighbor_list_row_storage_size' =
       [min_neighbor_list_row_storage_size EXCEPT ![p] = min_neighbor_list_row_storage_size[o]]
  /\ needs_sync_to_host' = [needs_sync_to_host EXCEPT ![p] = needs_sync_to_host[o]]
  /\ UNCHANGED <<build, device, host, offsets, history>>

(* Mutated form of Mark: the assertion only looks at the mark.             *)
MarkCompared(o) == needs_sync_to_host[o]

(* What setNeighborDevice leaves in the mark: the assignment is within a   *)
(* debug assertion.                                                        *)
Mark(o) == debug \/ needs_sync_to_host[o]

(* By rows that are stale the user must not write.                         *)
setNeighborDevice(o, i, j, v) ==
  /\ o \in exists /\ ~ stale /\ j < number_of_neighbors_list[i]
  /\ cr_neighbor_lists' = [cr_neighbor_lists EXCEPT ![row_offsets[i] + j] = v]
  /\ needs_sync_to_host' = [needs_sync_to_host EXCEPT ![o] = Mark(o)]
  /\ table' = [table EXCEPT ![i][j] = v] /\ writers' = writers \cup {o}
  /\ UNCHANGED <<build, number_of_neighbors_list, extent, host, offsets, exists,
                 max_neighbor_list_row_storage_size, min_neighbor_list_row_storage_size,
                 stale, renumbered, searches>>

computeMaxNumNeighbors(o) ==
  /\ o \in exists
  /\ max_neighbor_list_row_storage_size' =
       [max_neighbor_list_row_storage_size EXCEPT ![o] = MaxNeighbors(number_of_neighbors_list, N)]
  /\ UNCHANGED <<build, device, host, offsets, exists,
                 min_neighbor_list_row_storage_size, needs_sync_to_host, history>>

(* The reduction with Min starts from the largest int, as in Kokkos.       *)
MinNeighbors(count) ==
  IF N = 0 THEN 0
  ELSE CHOOSE m \in {count[i] : i \in Targets} : \A i \in Targets : m <= count[i]

computeMinNumNeighbors(o) ==
  /\ o \in exists
  /\ min_neighbor_list_row_storage_size' =
       [min_neighbor_list_row_storage_size EXCEPT ![o] = MinNeighbors(number_of_neighbors_list)]
  /\ UNCHANGED <<build, device, host, offsets, exists,
                 max_neighbor_list_row_storage_size, needs_sync_to_host, history>>

(* Mutated form of computeRowOffsets: the mirror keeps the old offsets.    *)
computeRowOffsetsOnDevice(o) ==
  /\ o \in exists
  /\ row_offsets' = RowOffsets(number_of_neighbors_list, N)
  /\ stale' = FALSE
  /\ UNCHANGED <<build, device, host_row_offsets, host, exists, members,
                 table, renumbered, writers, searches>>

(* The mirror of the offsets is renewed, that of the numbers is not.       *)
computeRowOffsets(o) ==
  /\ o \in exists
  /\ row_offsets' = RowOffsets(number_of_neighbors_list, N) /\ host_row_offsets' = row_offsets'
  /\ stale' = FALSE
  /\ UNCHANGED <<build, device, host, exists, members, table, renumbered, writers, searches>>

copyDeviceDataToHost(o) ==
  /\ o \in exists
  /\ host_cr_neighbor_lists' = cr_neighbor_lists
  /\ needs_sync_to_host' = [needs_sync_to_host EXCEPT ![o] = FALSE]
  /\ writers' = {}
  /\ UNCHANGED <<build, device, host_number_of_neighbors_list, offsets, exists,
                 max_neighbor_list_row_storage_size, min_neighbor_list_row_storage_size,
                 table, stale, renumbered, searches>>

(* The two debug assertions of getNeighborHost; the second compares with   *)
(* the numbers as the host saw them when the object was constructed.       *)
Refuses(o, i, j) == debug /\ (needs_sync_to_host[o] \/ j >= HostNumbers[i])

(* The place that getNeighborHost reads otherwise.                         *)
HostPlace(i, j) == HostOffsets[i] + j

-----------------------------------------------------------------------------
Operation(o) ==
  \/ \E compute_max \in BOOLEAN : ConstructWithOffsets(o, compute_max)
  \/ ConstructFromLists(o)
  \/ ConstructFromNumbers(o)
  \/ \E count \in Numbers : \E t \in Tables(count) :
       Convert2DToCompressedRowNeighborLists(o, count, t)
  \/ \E p \in Objects : Copy(o, p)
  \/ \E i \in Targets, j \in 0..MaxRow-1, v \in Values : setNeighborDevice(o, i, j, v)
  \/ computeMaxNumNeighbors(o)
  \/ computeMinNumNeighbors(o)
  \/ computeRowOffsets(o)
  \/ copyDeviceDataToHost(o)

Next ==
  \/ \E o \in Objects : Operation(o)
  \/ \E count \in Numbers : \E t \in Tables(count) : Search(count, t)

Spec == Init /\ [][Next]_vars
-----------------------------------------------------------------------------
Lists(length) == [0..length-1 -> Values]

(* Types: views hold indices at all of their places; a minimum that nobody *)
(* has computed may be anything.                                           *)
TypeOK ==
  /\ separate \in BOOLEAN /\ debug \in BOOLEAN
  /\ number_of_neighbors_list \in Numbers /\ host_number_of_neighbors_list \in Numbers
  /\ extent \in Nat /\ cr_neighbor_lists \in Lists(extent)
  /\ host_cr_neighbor_lists \in Lists(IF exists = {} THEN 0 ELSE extent)
  /\ row_offsets \in [Targets -> Nat] /\ host_row_offsets \in [Targets -> Nat]
  /\ exists \subseteq Objects /\ needs_sync_to_host \in [Objects -> BOOLEAN]
  /\ max_neighbor_list_row_storage_size \in [Objects -> {-1} \cup 0..MaxRow]
  /\ min_neighbor_list_row_storage_size \in [Objects -> {-1} \cup 0..MaxRow \cup Leftover]
  /\ table \in Tables(number_of_neighbors_list)
  /\ stale \in BOOLEAN /\ renumbered \in BOOLEAN /\ writers \subseteq Objects \cup {"user"}
  /\ searches \in 0..MaxSearches

-----------------------------------------------------------------------------
Neighbors(i) == 0..number_of_neighbors_list[i]-1

InUse == exists # {} /\ ~ stale

(* getNeighborDevice of any copy stays within the lists and finds what was *)
(* last given for that neighbour, by whichever object or search: rows      *)
(* neither overlap nor pass the end, unless the numbers have been changed  *)
(* without computing row offsets again.                                    *)
DeviceReadsTable ==
  InUse => \A i \in Targets : \A j \in Neighbors(i) :
             /\ row_offsets[i] + j \in DOMAIN cr_neighbor_lists
             /\ cr_neighbor_lists[row_offsets[i] + j] = table[i][j]

(* getNeighborHost of any copy does so too once some object has copied to  *)
(* the host and nobody has written since; otherwise it refuses.  It        *)
(* refuses only a copy that does not know that another one has copied, or, *)
(* with separate memories, if the numbers were changed after construction. *)
HostReadsTable ==
  InUse /\ writers = {} =>
    \A o \in exists, i \in Targets : \A j \in Neighbors(i) :
      IF Refuses(o, i, j)
      THEN needs_sync_to_host[o] \/ (separate /\ renumbered)
      ELSE /\ HostPlace(i, j) \in DOMAIN HostLists
           /\ HostLists[HostPlace(i, j)] = table[i][j]

(* In a debug build, when the host does not see the lists as they are,     *)
(* somebody has written since it was last copied to, and every object that *)
(* has written is marked and refuses to read there.                        *)
BehindIsMarked ==
  debug /\ exists # {} /\ HostLists # cr_neighbor_lists =>
    /\ writers # {}
    /\ \A o \in writers \cap exists : needs_sync_to_host[o]
=============================================================================
