-------------------------- MODULE PointCloudSearch --------------------------
(***************************************************************************)
(* What the searches of PointCloudSearch into compressed row lists         *)
(* (CRNeighborSearch) and into 2D lists (TwoDNeighborSearch) have in       *)
(* common: the sites, the arguments of a call, the search radii and the    *)
(* teams, one for each target, of the Kokkos kernels.                      *)
(***************************************************************************)
EXTENDS SearchGeometry, CompressedRow, Sequences

CONSTANTS
  NumTargets,   \* number of target sites
  SrcClouds,    \* source coordinates to try, functions on 0..m-1
  TrgClouds,    \* target coordinates to try
  Searches,     \* the searches a user makes: see RadiusBy and KnnBy
  UserRadii,    \* radii that a user stores in epsilons
  MaxRadii      \* values of max_search_radius, 0 for no limit

Targets == 0 .. NumTargets-1

(* The arguments that say what to look for.                                *)
RadiusBy(uniform) ==
  [kind |-> "radius", uniform |-> uniform, needed |-> 0, multiplier |-> 0]
KnnBy(needed, multiplier) ==
  [kind |-> "knn", uniform |-> 0, needed |-> needed, multiplier |-> multiplier]

NoSearch == [kind |-> "none", uniform |-> 0, needed |-> 0, multiplier |-> 0]
NoCall == [search |-> NoSearch, dry |-> FALSE, max |-> 0]

ASSUME NumTargetsAssumption == NumTargets \in Nat
ASSUME CloudsAssumption ==
  /\ \A c \in SrcClouds : /\ IsFiniteSet(DOMAIN c) /\ DOMAIN c # {}
                          /\ c \in [0..Cardinality(DOMAIN c)-1 -> Int]
  /\ TrgClouds \subseteq [Targets -> Int]
(* Radii are not negative, the k of a k-nearest search and its multiplier  *)
(* are positive.                                                           *)
ASSUME SearchesAssumption ==
  \A s \in Searches : \/ s.uniform \in Nat /\ s = RadiusBy(s.uniform)
                      \/ /\ s.needed \in Nat \ {0} /\ s.multiplier \in Nat \ {0}
                         /\ s = KnnBy(s.needed, s.multiplier)
ASSUME RadiiAssumption == UserRadii \subseteq Nat /\ MaxRadii \subseteq Nat

VARIABLES
  src, trg,        \* coordinates, fixed
  neighbor_lists,  \* the view of neighbour indices
  epsilons,        \* the search radii
  phase,           \* "idle", "knn", "radius", or "aborted" (the process is gone)
  call,            \* the arguments of the call being made, or made last
  team,            \* what each team has done: "todo", "fill", "done"
  found,           \* neighbors_found of each team
  indices,         \* the part of neighbor_indices of each team that was written
  outcome,         \* how the last call ended
  result,          \* what it returned
  overran          \* history: memory beyond which a team has written

sites == <<src, trg>>
teams == <<team, found, indices>>

Sources == DOMAIN src

-----------------------------------------------------------------------------
(* Before the first call.                                                  *)
NothingSearched ==
  /\ src \in SrcClouds
  /\ trg \in TrgClouds
  /\ epsilons = [i \in Targets |-> 0]
  /\ phase = "idle"
  /\ call = NoCall
  /\ team = [i \in Targets |-> "done"]
  /\ found = [i \in Targets |-> 0]
  /\ indices = [i \in Targets |-> << >>]
  /\ outcome = "none"
  /\ result = 0
  /\ overran = {}

(* The user changes what the last call worked on.                          *)
CallForgotten ==
  /\ call' = NoCall
  /\ outcome' = "none"
  /\ result' = 0

(* The locals of the teams go out of scope.                                *)
TeamsGone ==
  /\ team' = [i \in Targets |-> "done"]
  /\ found' = [i \in Targets |-> 0]
  /\ indices' = [i \in Targets |-> << >>]

Calls == [search : Searches, dry : BOOLEAN, max : MaxRadii]

Beyond(memory, condition) == IF condition THEN {memory} ELSE {}

(* A failed compadre_kernel_assert: Kokkos::abort ends the process.        *)
TooFar(radius) == call.max # 0 /\ radius > call.max

(* The radius that the k-nearest kernel stores for target i.               *)
RadiusFromKnn(i) ==
  KnnRadius(src, trg[i], call.search.needed, call.search.multiplier)

(* The unisolvency check after the k-nearest kernel.                       *)
EnoughSources ==
  NumTargets = 0 \/ KnnFound(src, call.search.needed) >= call.search.needed

(* The radius that the radius kernel searches with and stores.             *)
SearchRadius(i) ==
  IF call.search.uniform > 0 THEN call.search.uniform ELSE epsilons[i]

AllTeamsDone == \A i \in Targets : team[i] = "done"

-----------------------------------------------------------------------------
(* The sources within the radius that was stored last for target i.        *)
Near(i) == Within(src, trg[i], epsilons[i])
=============================================================================
