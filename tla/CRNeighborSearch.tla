-------------------------- MODULE CRNeighborSearch --------------------------
(***************************************************************************)
(* PointCloudSearch with compressed row neighbour lists.  A user asks for  *)
(* the number of neighbours with a dry run, resizes neighbor_lists to the  *)
(* total it returns and repeats the search for real; nothing but the       *)
(* user's discipline ties the two calls together.  Each search is a Kokkos *)
(* kernel with one team per target; the teams run in any order.            *)
(***************************************************************************)
EXTENDS PointCloudSearch

CONSTANT Builds   \* is COMPADRE_DEBUG defined: subset of BOOLEAN

ASSUME BuildsAssumption == Builds \subseteq BOOLEAN

VARIABLES
  debug,                     \* is this a build with COMPADRE_DEBUG, fixed
  number_of_neighbors_list,  \* the counts of the 1D neighbor_lists
  row_offsets,   \* local to the search, from the counts when it begins
  storage,       \* max_neighbor_list_row_storage_size, the teams' scratch size
  (* history *)
  prepared,      \* the search of the last dry run, while its counts are good
  disciplined    \* the last real call repeats that search

(* outcome is "none", "dry", "real" or "threw"; overran has "lists" and    *)
(* "scratch".                                                              *)
user   == <<neighbor_lists, number_of_neighbors_list, epsilons>>
locals == <<row_offsets, storage, teams>>
fixed  == <<debug, sites>>
vars   == <<fixed, user, phase, call, locals, outcome, result,
            prepared, disciplined, overran>>

Extent == Cardinality(DOMAIN neighbor_lists)

Total(count) == TotalNeighbors(count, RowOffsets(count, NumTargets), NumTargets)

-----------------------------------------------------------------------------
Init ==
  /\ NothingSearched
  /\ debug \in Builds
  /\ neighbor_lists = [c \in {} |-> 0]
  /\ number_of_neighbors_list = [i \in Targets |-> 0]
  /\ row_offsets = [i \in Targets |-> 0]
  /\ storage = 0
  /\ prepared = NoSearch
  /\ disciplined = FALSE

-----------------------------------------------------------------------------
(* What the user does between calls.                                       *)

SetEpsilons ==
  /\ phase = "idle"
  /\ overran = {}
  /\ \E e \in [Targets -> UserRadii] : epsilons' = e
  /\ CallForgotten
  /\ prepared' = NoSearch
  /\ disciplined' = FALSE
  /\ UNCHANGED <<fixed, neighbor_lists, number_of_neighbors_list, phase, locals,
                 overran>>

(* Kokkos::resize to the total that the dry run returned; kept entries     *)
(* keep their values, new ones are zero.                                   *)
ResizeLists ==
  /\ phase = "idle"
  /\ outcome = "dry"
  /\ neighbor_lists' = [c \in 0..result-1 |->
                          IF c \in DOMAIN neighbor_lists THEN neighbor_lists[c] ELSE 0]
  /\ CallForgotten
  /\ UNCHANGED <<fixed, number_of_neighbors_list, epsilons, phase, locals,
                 prepared, disciplined, overran>>

-----------------------------------------------------------------------------
(* The locals of a call go out of scope.                                   *)
LocalsGone ==
  /\ row_offsets' = [i \in Targets |-> 0]
  /\ storage' = 0
  /\ TeamsGone

(* A failed compadre_assert_release: std::logic_error reaches the user.    *)
Throw ==
  /\ phase' = "idle"
  /\ outcome' = "threw"
  /\ prepared' = NoSearch
  /\ LocalsGone
  /\ UNCHANGED <<fixed, user, result>>

(* Mutated form of ScratchSize: the scratch of the dry run is kept.        *)
ScratchOfDryRun(dry) == 1

(* max_neighbor_list_row_storage_size of the radius search.                *)
ScratchSize(dry) ==
  IF dry THEN 1 ELSE MaxNeighbors(number_of_neighbors_list, NumTargets)

(* Row offsets and scratch are sized by the counts of the earlier dry run. *)
RadiusBegins(dry) ==
  /\ phase' = "radius"
  /\ team' = [i \in Targets |-> "todo"]
  /\ storage' = ScratchSize(dry)
  /\ row_offsets' = IF dry THEN row_offsets
                    ELSE RowOffsets(number_of_neighbors_list, NumTargets)
  /\ outcome' = "none"
  /\ UNCHANGED <<fixed, user, found, indices, result, prepared>>

(* The storage check of NeighborLists' constructor, on the earlier counts. *)
Fits(dry) == dry \/ Total(number_of_neighbors_list) <= Extent

EnterRadius(dry) == IF Fits(dry) THEN RadiusBegins(dry) ELSE Throw

(* The user calls a search.                                                *)
Called(c) ==
  /\ phase = "idle"
  /\ overran = {}
  /\ call' = c
  /\ disciplined' = (~ c.dry /\ c.search = prepared)
  /\ UNCHANGED overran

(* generateCRNeighborListsFromRadiusSearch, up to its kernel.              *)
CallRadius(c) ==
  /\ c.search.kind = "radius"
  /\ Called(c)
  /\ EnterRadius(c.dry)

(* generateCRNeighborListsFromKNNSearch, up to its first kernel.           *)
CallKnn(c) ==
  /\ c.search.kind = "knn"
  /\ Called(c)
  /\ \/ /\ ~ Fits(c.dry)
        /\ Throw
     \/ /\ Fits(c.dry)
        /\ phase' = "knn"
        /\ team' = [i \in Targets |-> "todo"]
        /\ storage' = IF c.dry THEN c.search.needed
                      ELSE MaxNeighbors(number_of_neighbors_list, NumTargets)
        /\ outcome' = "none"
        /\ UNCHANGED <<fixed, user, row_offsets, found, indices, result, prepared>>

(* The team of target i in the k-nearest kernel.  knnSearch writes up to   *)
(* neighbors_needed distances into scratch of the size of the longest row. *)
KnnTeam(i) ==
  LET radius == RadiusFromKnn(i)
  IN  /\ phase = "knn"
      /\ team[i] = "todo"
      /\ epsilons' = [epsilons EXCEPT ![i] = radius]
      /\ overran' = overran \cup Beyond("scratch", call.search.needed > storage)
      /\ team' = [team EXCEPT ![i] = "done"]
      /\ phase' = IF TooFar(radius) /\ ~ call.dry THEN "aborted" ELSE "knn"
      /\ UNCHANGED <<fixed, neighbor_lists, number_of_neighbors_list, call,
                     row_offsets, storage, found, indices, outcome, result,
                     prepared, disciplined>>

(* The kernel has ended: the unisolvency check, then the radius search.    *)
KnnEnds ==
  /\ phase = "knn"
  /\ AllTeamsDone
  /\ IF EnoughSources THEN EnterRadius(call.dry) ELSE Throw
  /\ UNCHANGED <<call, disciplined, overran>>

(* Mutated form of NeighborsFound: addPoint counts what it stores.         *)
NeighborsStored(i, radius) ==
  SmallerOf(storage, Cardinality(Within(src, trg[i], radius)))

(* Mutated form of NeighborsFound: the count does not start from zero.     *)
NeighborsFromOne(i, radius) == Cardinality(Within(src, trg[i], radius)) + 1

(* RadiusResultSet::size(): all sources within, stored or not.             *)
NeighborsFound(i, radius) == Cardinality(Within(src, trg[i], radius))

StoresCounts == call.dry \/ call.search.uniform # 0

(* Mutated form of CountChanged: the comparison is the wrong way round.    *)
CountShrank(i, n) == debug /\ ~ StoresCounts /\ n < number_of_neighbors_list[i]

(* "Number of neighbors found changed since dry-run", a debug assertion.   *)
CountChanged(i, n) == debug /\ ~ StoresCounts /\ n # number_of_neighbors_list[i]

(***************************************************************************)
(* The team of target i in the radius kernel, up to the team barrier.  The *)
(* count is stored by a dry run or with a uniform radius; otherwise it is  *)
(* only compared with the stored one, and only in a debug build.  With no  *)
(* scratch at all sort() still swaps the closest entry to the front.       *)
(***************************************************************************)
RadiusTeam(i) ==
  LET radius == SearchRadius(i)
      n == NeighborsFound(i, radius)
  IN  /\ phase = "radius"
      /\ team[i] = "todo"
      /\ epsilons' = [epsilons EXCEPT ![i] = radius]
      /\ \/ /\ TooFar(radius)
            /\ phase' = "aborted"
            /\ UNCHANGED <<number_of_neighbors_list, team, found, indices, overran>>
         \/ /\ ~ TooFar(radius)
            /\ found' = [found EXCEPT ![i] = n]
            /\ \E q \in StoredIndices(src, trg[i], Within(src, trg[i], radius), storage) :
                 indices' = [indices EXCEPT ![i] = q]
            /\ number_of_neighbors_list' =
                 IF StoresCounts THEN [number_of_neighbors_list EXCEPT ![i] = n]
                 ELSE number_of_neighbors_list
            /\ phase' = IF CountChanged(i, n) THEN "aborted" ELSE "radius"
            /\ team' = [team EXCEPT ![i] = IF call.dry THEN "done" ELSE "fill"]
            /\ overran' = overran \cup Beyond("scratch", storage = 0 /\ n > 0)
      /\ UNCHANGED <<fixed, neighbor_lists, call, row_offsets, storage, outcome,
                     result, prepared, disciplined>>

(***************************************************************************)
(* After the barrier the team of target i writes all it has found to its   *)
(* row.  loop_bound is neighbors_found, whatever the row and the scratch   *)
(* hold: entries beyond the scratch are read from other memory.            *)
(***************************************************************************)
FillRow(i) ==
  LET cells == row_offsets[i] .. (row_offsets[i] + found[i] - 1)
      kept  == row_offsets[i] .. (row_offsets[i] + SmallerOf(found[i], storage) - 1)
  IN  /\ phase = "radius"
      /\ team[i] = "fill"
      /\ \E other \in DOMAIN src :
           neighbor_lists' = [c \in DOMAIN neighbor_lists |->
             IF c \in kept THEN indices[i][c - row_offsets[i] + 1]
             ELSE IF c \in cells THEN other ELSE neighbor_lists[c]]
      /\ team' = [team EXCEPT ![i] = "done"]
      /\ overran' = overran \cup Beyond("lists", ~ (cells \subseteq DOMAIN neighbor_lists))
      /\ UNCHANGED <<fixed, number_of_neighbors_list, epsilons, phase, call,
                     row_offsets, storage, found, indices, outcome, result,
                     prepared, disciplined>>

(* The kernel has ended: the total over the counts is returned.            *)
RadiusEnds ==
  /\ phase = "radius"
  /\ AllTeamsDone
  /\ phase' = "idle"
  /\ outcome' = IF call.dry THEN "dry" ELSE "real"
  /\ result' = Total(number_of_neighbors_list)
  /\ prepared' = IF call.dry \/ disciplined THEN call.search ELSE NoSearch
  /\ LocalsGone
  /\ UNCHANGED <<fixed, user, call, disciplined, overran>>

(* Nothing follows an abort, or is known once memory has been overwritten. *)
Stopped ==
  /\ phase = "aborted" \/ (phase = "idle" /\ overran # {})
  /\ UNCHANGED vars

UserCall == \E c \in Calls : CallRadius(c) \/ CallKnn(c)

TeamStep == \E i \in Targets : KnnTeam(i) \/ RadiusTeam(i) \/ FillRow(i)

Next ==
  \/ SetEpsilons
  \/ ResizeLists
  \/ UserCall
  \/ TeamStep
  \/ KnnEnds
  \/ RadiusEnds
  \/ Stopped

Spec == Init /\ [][Next]_vars

-----------------------------------------------------------------------------
TypeOK ==
  /\ debug \in Builds
  /\ src \in SrcClouds /\ trg \in TrgClouds
  /\ neighbor_lists \in [0..Extent-1 -> Sources]
  /\ number_of_neighbors_list \in [Targets -> 0..Cardinality(Sources)]
  /\ epsilons \in [Targets -> Nat]
  /\ phase \in {"idle", "knn", "radius", "aborted"}
  /\ row_offsets \in [Targets -> Nat]
  /\ storage \in Nat
  /\ team \in [Targets -> {"todo", "fill", "done"}]
  /\ found \in [Targets -> 0..Cardinality(Sources)]
  /\ indices \in [Targets -> Seq(Sources)]
  /\ outcome \in {"none", "dry", "real", "threw"}
  /\ result \in Nat
  /\ disciplined \in BOOLEAN /\ overran \subseteq {"lists", "scratch"}

(* The row of target i as a reader finds it: getNeighborHost(i, j).        *)
RowOf(i) == [j \in 1..number_of_neighbors_list[i] |->
               neighbor_lists[PrefixSum(number_of_neighbors_list, NumTargets)[i] + j - 1]]

(* The row of target i is complete, has no other entry, closest first.     *)
RowExact(i) ==
  LET row == RowOf(i)
  IN  /\ number_of_neighbors_list[i] = Cardinality(Near(i))
      /\ {row[j] : j \in DOMAIN row} = Near(i)
      /\ \A s \in Near(i) : Distance(src[row[1]], trg[i]) <= Distance(src[s], trg[i])

(***************************************************************************)
(* A real search that repeats the preceding dry run returns exact rows,    *)
(* whatever searches and failed searches came before, in every order of    *)
(* the teams: the rows are placed from the counts of the dry run and no    *)
(* team writes into the row of another.                                    *)
(***************************************************************************)
RepeatedSearchIsExact ==
  disciplined /\ outcome = "real" => \A i \in Targets : RowExact(i)

(***************************************************************************)
(* The total returned by the dry run is enough storage for its repetition: *)
(* once resized, the search neither throws nor is aborted by the check of  *)
(* the counts, and no team writes beyond the array or its scratch.         *)
(***************************************************************************)
DryRunSuffices ==
  disciplined =>
    /\ overran = {}
    /\ phase = "radius" => ~ (\E i \in Targets : team[i] = "fill" /\
                                found[i] # number_of_neighbors_list[i])
    /\ phase = "aborted" => \E i \in Targets : TooFar(epsilons[i])
    /\ outcome = "threw" => Extent < Total(number_of_neighbors_list)

(***************************************************************************)
(* After a k-nearest search has returned, dry or real, each target has at  *)
(* least the neighbours needed for unisolvency: the follow-on radius       *)
(* search, which excludes sources at the radius, has not lost the k-th.    *)
(* (With the multiplier 1, which the code accepts, it would.)              *)
(***************************************************************************)
KnnFindsNeeded ==
  outcome \in {"dry", "real"} /\ call.search.kind = "knn" =>
    \A i \in Targets : Cardinality(Near(i)) >= call.search.needed
                       /\ (call.dry \/ disciplined =>
                             number_of_neighbors_list[i] >= call.search.needed)

(***************************************************************************)
(* In a debug build the comparison of the counts protects the array from a *)
(* search by epsilons, whatever radii the user has stored since the dry    *)
(* run: a team writes beyond it only in a search that rewrites the counts, *)
(* that is, one with a uniform radius.                                     *)
(***************************************************************************)
DebugCheckProtects == debug /\ "lists" \in overran => call.search.uniform > 0
=============================================================================
