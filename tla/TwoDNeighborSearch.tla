------------------------- MODULE TwoDNeighborSearch -------------------------
(***************************************************************************)
(* PointCloudSearch with 2D neighbour lists: row i of the array holds the  *)
(* number of neighbours of target i in column 0 and the neighbours after   *)
(* it.  The caller guesses the number of columns, or asks for it with a    *)
(* dry run.  What does not fit is not stored, and the search throws once   *)
(* its kernel has ended; the counts it leaves tell how many columns to     *)
(* allocate for another try.  (What CRNeighborSearch has under the same    *)
(* name is called 2D here, so that one module can be about both.)          *)
(***************************************************************************)
EXTENDS PointCloudSearch

CONSTANT UserColumns  \* numbers of columns that a user allocates

ASSUME UserColumnsAssumption == UserColumns \subseteq Nat

VARIABLE columns      \* neighbor_lists.extent(1)

(* outcome is "none", "dry", "real", "refused" (arguments), "few"          *)
(* (neighbours) or "full" (columns); overran has "row".                    *)
vars2D == <<sites, columns, neighbor_lists, epsilons, phase, call, teams, outcome,
            result, overran>>

-----------------------------------------------------------------------------
Init2D ==
  /\ NothingSearched
  /\ columns \in UserColumns
  /\ neighbor_lists = [i \in Targets |-> [j \in 0..columns-1 |-> 0]]

(* The user stores radii in epsilons.                                      *)
SetEpsilons2D ==
  /\ phase = "idle"
  /\ \E e \in [Targets -> UserRadii] : epsilons' = e
  /\ CallForgotten
  /\ UNCHANGED <<sites, columns, neighbor_lists, phase, teams, overran>>

(* Kokkos::resize: to a guess, or to what a dry run returned and column 0. *)
ResizeLists2D ==
  /\ phase = "idle"
  /\ \E n \in UserColumns \cup (IF outcome = "dry" THEN {result + 1} ELSE {}) :
       /\ columns' = n
       /\ neighbor_lists' = [i \in Targets |-> [j \in 0..n-1 |->
                               IF j < columns THEN neighbor_lists[i][j] ELSE 0]]
  /\ CallForgotten
  /\ UNCHANGED <<sites, epsilons, phase, teams, overran>>

-----------------------------------------------------------------------------
(* The call is over, by a return or by a failed compadre_assert_release.   *)
Ends(how, value) ==
  /\ phase' = "idle"
  /\ outcome' = how
  /\ result' = value
  /\ TeamsGone
  /\ UNCHANGED <<sites, columns, neighbor_lists, epsilons, overran>>

Kernel(name) ==
  /\ phase' = name
  /\ team' = [i \in Targets |-> "todo"]
  /\ outcome' = "none"
  /\ result' = 0
  /\ UNCHANGED <<sites, columns, neighbor_lists, epsilons, found, indices, overran>>

(* The radius search needs a column for the counts.                        *)
EnterRadius2D == IF columns >= 1 THEN Kernel("radius") ELSE Ends("refused", 0)

(* generate2DNeighborListsFromRadiusSearch, up to its kernel.              *)
CallRadius2D(c) ==
  /\ phase = "idle"
  /\ c.search.kind = "radius"
  /\ call' = c
  /\ EnterRadius2D

(* generate2DNeighborListsFromKNNSearch, up to its first kernel: columns   *)
(* for neighbors_needed neighbours are needed even for a dry run.          *)
CallKnn2D(c) ==
  /\ phase = "idle"
  /\ c.search.kind = "knn"
  /\ call' = c
  /\ IF NumTargets = 0 \/ columns >= c.search.needed + 1
     THEN Kernel("knn")
     ELSE Ends("refused", 0)

(* The team of target i in the k-nearest kernel.                           *)
KnnTeam2D(i) ==
  LET radius == RadiusFromKnn(i)
  IN  /\ phase = "knn"
      /\ team[i] = "todo"
      /\ epsilons' = [epsilons EXCEPT ![i] = radius]
      /\ team' = [team EXCEPT ![i] = "done"]
      /\ phase' = IF /\ ~ call.dry
                     /\ \/ KnnFound(src, call.search.needed) >= columns
                        \/ TooFar(radius)
                  THEN "aborted" ELSE "knn"
      /\ UNCHANGED <<sites, columns, neighbor_lists, call, found, indices, outcome,
                     result, overran>>

(* The kernel has ended: the unisolvency check, then the radius search.    *)
KnnEnds2D ==
  /\ phase = "knn"
  /\ AllTeamsDone
  /\ IF EnoughSources THEN EnterRadius2D ELSE Ends("few", 0)
  /\ UNCHANGED call

(* Mutated form of NeighborsFound2D: addPoint counts what it stores.       *)
NeighborsStored2D(i, radius) ==
  SmallerOf(columns, Cardinality(Within(src, trg[i], radius)))

(* Mutated form of NeighborsFound2D: the count does not start from zero.   *)
NeighborsFromOne2D(i, radius) == Cardinality(Within(src, trg[i], radius)) + 1

(* RadiusResultSet::size(): all sources within, stored or not.             *)
NeighborsFound2D(i, radius) == Cardinality(Within(src, trg[i], radius))

(***************************************************************************)
(* The team of target i in the radius kernel, up to the team barrier: the  *)
(* search, with scratch for as many indices as there are columns, and the  *)
(* count in column 0, of a dry run too.                                    *)
(***************************************************************************)
RadiusTeam2D(i) ==
  LET radius == SearchRadius(i)
      near   == Within(src, trg[i], radius)
      n      == NeighborsFound2D(i, radius)
  IN  /\ phase = "radius"
      /\ team[i] = "todo"
      /\ epsilons' = [epsilons EXCEPT ![i] = radius]
      /\ \/ /\ TooFar(radius)
            /\ phase' = "aborted"
            /\ UNCHANGED <<neighbor_lists, team, found, indices>>
         \/ /\ ~ TooFar(radius)
            /\ found' = [found EXCEPT ![i] = n]
            /\ \E q \in StoredIndices(src, trg[i], near, columns) :
                 indices' = [indices EXCEPT ![i] = q]
            /\ neighbor_lists' = [neighbor_lists EXCEPT ![i][0] = n]
            /\ team' = [team EXCEPT ![i] = IF call.dry THEN "done" ELSE "fill"]
            /\ UNCHANGED phase
      /\ UNCHANGED <<sites, columns, call, outcome, result, overran>>

(* Mutated form of LoopBound: column 0 is forgotten.                       *)
LoopBoundColumns(i) == SmallerOf(found[i], columns)

(* loop_bound "so that we don't write into memory we don't have allocated". *)
LoopBound(i) == SmallerOf(found[i], columns - 1)

(* After the barrier the team of target i stores what fits in its row.     *)
FillRow2D(i) ==
  /\ phase = "radius"
  /\ team[i] = "fill"
  /\ neighbor_lists' = [neighbor_lists EXCEPT ![i] =
       [j \in 0..columns-1 |->
          IF j \in 1..LoopBound(i) THEN indices[i][j] ELSE neighbor_lists[i][j]]]
  /\ team' = [team EXCEPT ![i] = "done"]
  /\ overran' = overran \cup Beyond("row", LoopBound(i) >= columns)
  /\ UNCHANGED <<sites, columns, epsilons, phase, call, found, indices, outcome,
                 result>>

(* Mutated form of Capacity: column 0 is forgotten.                        *)
CapacityColumns == columns

(* The neighbours that a row can hold.                                     *)
Capacity == columns - 1

(* The kernel has ended: the check of the columns, then the return.        *)
RadiusEnds2D ==
  LET max_num_neighbors == MaxNeighbors(found, NumTargets)
  IN  /\ phase = "radius"
      /\ AllTeamsDone
      /\ IF max_num_neighbors <= Capacity \/ call.dry
         THEN Ends(IF call.dry THEN "dry" ELSE "real", max_num_neighbors)
         ELSE Ends("full", 0)
      /\ UNCHANGED call

(* Nothing follows an abort.                                               *)
Aborted == phase = "aborted" /\ UNCHANGED vars2D

UserCall2D == \E c \in Calls : CallRadius2D(c) \/ CallKnn2D(c)

TeamStep2D == \E i \in Targets : KnnTeam2D(i) \/ RadiusTeam2D(i) \/ FillRow2D(i)

Next2D ==
  \/ SetEpsilons2D
  \/ ResizeLists2D
  \/ UserCall2D
  \/ TeamStep2D
  \/ KnnEnds2D
  \/ RadiusEnds2D
  \/ Aborted

Spec2D == Init2D /\ [][Next2D]_vars2D

-----------------------------------------------------------------------------
TypeOK2D ==
  /\ src \in SrcClouds /\ trg \in TrgClouds
  /\ columns \in Nat
  /\ neighbor_lists \in [Targets -> [0..columns-1 -> Nat]]
  /\ epsilons \in [Targets -> Nat]
  /\ phase \in {"idle", "knn", "radius", "aborted"}
  /\ team \in [Targets -> {"todo", "fill", "done"}]
  /\ found \in [Targets -> 0..Cardinality(Sources)]
  /\ indices \in [Targets -> Seq(Sources)]
  /\ outcome \in {"none", "dry", "real", "refused", "few", "full"}
  /\ result \in 0..Cardinality(Sources)
  /\ overran \subseteq {"row"}

(* The neighbours stored in row i, and the neighbours there are.           *)
Stored(i) == {neighbor_lists[i][j] : j \in 1..SmallerOf(neighbor_lists[i][0], columns-1)}

(* Row i is complete and starts with the closest neighbour.                *)
RowExact2D(i) ==
  /\ neighbor_lists[i][0] = Cardinality(Near(i))
  /\ Cardinality(Near(i)) < columns
  /\ Stored(i) = Near(i)
  /\ \A s \in Near(i) :
       Distance(src[neighbor_lists[i][1]], trg[i]) <= Distance(src[s], trg[i])

(***************************************************************************)
(* A real search that returns, rather than throws, has stored every        *)
(* neighbour of every target, closest first, whatever the number of        *)
(* columns, the history of earlier calls and the order of the teams.       *)
(***************************************************************************)
ReturnedMeansComplete ==
  outcome = "real" => \A i \in Targets : RowExact2D(i)

(***************************************************************************)
(* A search that throws for want of columns can be recovered from, as the  *)
(* comment in RadiusResultSet::addPoint says: no team has written beyond   *)
(* its row, column 0 holds the numbers really found, from which the user   *)
(* can resize, and the entries that were stored are neighbours, no two the *)
(* same.                                                                   *)
(***************************************************************************)
OverflowIsRecoverable ==
  /\ overran = {}
  /\ outcome = "full" => \A i \in Targets :
       /\ neighbor_lists[i][0] = Cardinality(Near(i))
       /\ Stored(i) \subseteq Near(i)
       /\ Cardinality(Stored(i)) = SmallerOf(Cardinality(Near(i)), columns-1)

(***************************************************************************)
(* What a dry run returns is the number of columns less one that the same  *)
(* search needs: no row of its radii has more neighbours, and some row has *)
(* as many (a search that needed fewer would waste a column per target).   *)
(***************************************************************************)
DryRunIsTight ==
  outcome = "dry" =>
    /\ \A i \in Targets : Cardinality(Near(i)) <= result
    /\ NumTargets > 0 => \E i \in Targets : Cardinality(Near(i)) = result
=============================================================================
