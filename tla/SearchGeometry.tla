--------------------------- MODULE SearchGeometry ---------------------------
(***************************************************************************)
(* What the kd-tree searches of PointCloudSearch return, for sites on a    *)
(* line at integer coordinates.  Radii are whole multiples of 1/Scale, so  *)
(* that a radius a little larger than a distance can be told from the      *)
(* distance itself; nanoflann compares squares of both, which is the same. *)
(***************************************************************************)
EXTENDS Integers, FiniteSets

CONSTANT Scale   \* the radius that stands for a distance of 1

ASSUME ScaleAssumption == Scale \in Nat /\ Scale > 1

Distance(x, y) == IF x < y THEN y - x ELSE x - y

(* The sources that RadiusResultSet::addPoint counts: strictly within.     *)
Within(src, x, radius) ==
  {s \in DOMAIN src : Scale * Distance(src[s], x) < radius}

SmallerOf(a, b) == IF a < b THEN a ELSE b

(* Mutated form of StoredIndices: the found sites are left unsorted.       *)
StoredUnsorted(src, x, found, size) ==
  LET n == SmallerOf(Cardinality(found), size)
  IN  {q \in [1..n -> found] : \A j, k \in 1..n : q[j] = q[k] => j = k}

(***************************************************************************)
(* What radiusSearchCustomCallback may leave in a scratch array of the     *)
(* given size: as many of the sources found as fit, in the order in which  *)
(* the tree visits them, which is arbitrary, but for the closest of the    *)
(* stored ones, which sort() swaps to the front.                           *)
(***************************************************************************)
StoredIndices(src, x, found, size) ==
  {q \in StoredUnsorted(src, x, found, size) :
     \A j \in DOMAIN q : Distance(src[q[1]], x) <= Distance(src[q[j]], x)}

(* The number of sources that knnSearch finds.                             *)
KnnFound(src, k) == SmallerOf(k, Cardinality(DOMAIN src))

(* The distance of the k-th nearest source, the last that knnSearch finds. *)
KthDistance(src, x, k) ==
  CHOOSE d \in {Distance(src[s], x) : s \in DOMAIN src} :
    /\ Cardinality({s \in DOMAIN src : Distance(src[s], x) <= d}) >= k
    /\ Cardinality({s \in DOMAIN src : Distance(src[s], x) < d}) < k

(* Mutated form of KnnRadius: a zero distance gives a zero radius.         *)
KnnRadiusZero(src, x, k, multiplier) ==
  KthDistance(src, x, KnnFound(src, k)) * multiplier

(***************************************************************************)
(* The radius of the search that follows a k-nearest search: the distance  *)
(* of the last source found times the multiplier (a multiple of 1/Scale),  *)
(* or 1e-14 of it if that distance is zero: positive, but smaller than any *)
(* distance between two sites, which radius 1 stands for.                  *)
(***************************************************************************)
KnnRadius(src, x, k, multiplier) ==
  LET d == KthDistance(src, x, KnnFound(src, k))
  IN  IF d > 0 THEN d * multiplier ELSE 1
=============================================================================
