------------------------ MODULE NeighborSearchProofs ------------------------
(***************************************************************************)
(* The searches of PointCloudSearch for any clouds of sites, any radii and *)
(* any sequence of calls.  First what the kd-tree returns (SearchGeometry) *)
(* and the longest row, then the search into compressed rows, then the one *)
(* into 2D lists.                                                          *)
(***************************************************************************)
EXTENDS CRNeighborSearch, TwoDNeighborSearch, LayoutProofs, FiniteSetTheorems

(* A cloud of sources, and what the geometry needs to know of it.          *)
IsCloud(c) ==
  /\ IsFiniteSet(DOMAIN c) /\ DOMAIN c # {}
  /\ Cardinality(DOMAIN c) \in Nat \ {0}
  /\ DOMAIN c = 0..Cardinality(DOMAIN c)-1
  /\ \A s \in DOMAIN c : c[s] \in Int

LEMMA CloudFacts == ASSUME NEW c \in SrcClouds PROVE IsCloud(c)
<1>1. /\ IsFiniteSet(DOMAIN c) /\ DOMAIN c # {}
      /\ c \in [0..Cardinality(DOMAIN c)-1 -> Int]
  BY CloudsAssumption
<1>2. Cardinality(DOMAIN c) \in Nat
  BY <1>1, FS_CardinalityType
<1>3. Cardinality(DOMAIN c) # 0
  BY <1>1, FS_EmptySet
<1>4. QED
  BY <1>1, <1>2, <1>3 DEF IsCloud

LEMMA TargetFacts ==
  ASSUME NEW t \in TrgClouds, NEW i \in Targets PROVE t[i] \in Int
BY CloudsAssumption

LEMMA DistanceType ==
  ASSUME NEW x \in Int, NEW y \in Int PROVE Distance(x, y) \in Nat
BY DEF Distance

LEMMA SmallerOfType ==
  ASSUME NEW a \in Nat, NEW b \in Nat
  PROVE  /\ SmallerOf(a, b) \in Nat /\ SmallerOf(a, b) <= a /\ SmallerOf(a, b) <= b
         /\ SmallerOf(a, b) = a \/ SmallerOf(a, b) = b
BY DEF SmallerOf

LEMMA SubsetOfCloud ==
  ASSUME NEW c, IsCloud(c), NEW S \in SUBSET DOMAIN c
  PROVE  IsFiniteSet(S) /\ Cardinality(S) \in 0..Cardinality(DOMAIN c)
<1>1. IsFiniteSet(S) /\ Cardinality(S) <= Cardinality(DOMAIN c)
  BY FS_Subset DEF IsCloud
<1>2. Cardinality(S) \in Nat
  BY <1>1, FS_CardinalityType
<1>3. QED
  BY <1>1, <1>2 DEF IsCloud

LEMMA WithinType ==
  ASSUME NEW c, IsCloud(c), NEW x, NEW radius
  PROVE  /\ Within(c, x, radius) \in SUBSET DOMAIN c
         /\ IsFiniteSet(Within(c, x, radius))
         /\ Cardinality(Within(c, x, radius)) \in 0..Cardinality(DOMAIN c)
<1>1. Within(c, x, radius) \in SUBSET DOMAIN c
  BY DEF Within
<1>2. QED
  BY <1>1, SubsetOfCloud

-----------------------------------------------------------------------------
(* A nonempty list of numbers has a longest entry.                         *)
LEMMA LongestRow ==
  ASSUME NEW m \in Nat \ {0}, NEW f \in [0..m-1 -> Nat]
  PROVE  \E j \in 0..m-1 : \A i \in 0..m-1 : f[i] <= f[j]
<1> DEFINE P == PrefixSum(f, m)
           B == P[m]
           D == {B - f[i] : i \in 0..m-1}
<1>1. /\ P \in [0..m -> Nat]
      /\ \A i \in 0..m-1 : P[i+1] = P[i] + f[i]
  BY PrefixSumStep
<1>2. ASSUME NEW i \in 0..m-1 PROVE f[i] <= B
  <2>1. P[i+1] <= P[m]
    BY PrefixSumMonotone
  <2>2. P[i] \in Nat /\ P[i+1] = P[i] + f[i] /\ f[i] \in Nat /\ P[m] \in Nat
    <3> HIDE DEF P
    <3>1. QED
      BY <1>1
  <2>3. QED
    BY <2>1, <2>2
<1>3. B \in Nat
  <2> HIDE DEF P
  <2>1. QED
    BY <1>1
<1> HIDE DEF B
<1>4. D \subseteq Nat /\ D # {}
  <2>1. ASSUME NEW i \in 0..m-1 PROVE B - f[i] \in Nat
    BY <1>2, <1>3
  <2>2. 0 \in 0..m-1
    OBVIOUS
  <2>3. QED
    BY <2>1, <2>2
<1>5. PICK d \in D : \A e \in D : d <= e
  BY <1>4, LeastNat
<1>6. PICK j \in 0..m-1 : d = B - f[j]
  OBVIOUS
<1>7. ASSUME NEW i \in 0..m-1 PROVE f[i] <= f[j]
  <2>1. B - f[j] <= B - f[i]
    BY <1>5, <1>6
  <2>2. QED
    BY <1>3, <2>1
<1>8. QED
  BY <1>7

(* getMaxNumNeighbors is the length of some row, and of no shorter one.    *)
LEMMA MaxNeighborsAttained ==
  ASSUME NEW m \in Nat, NEW f \in [0..m-1 -> Nat]
  PROVE  /\ MaxNeighbors(f, m) \in Nat
         /\ \A i \in 0..m-1 : f[i] <= MaxNeighbors(f, m)
         /\ m > 0 => \E j \in 0..m-1 : MaxNeighbors(f, m) = f[j]
<1>1. CASE m = 0
  BY <1>1 DEF MaxNeighbors
<1>2. CASE m # 0
  <2> DEFINE C == {f[i] : i \in 0..m-1}
             IsMax(a) == \A i \in 0..m-1 : f[i] <= a
  <2>1. PICK j \in 0..m-1 : IsMax(f[j])
    BY <1>2, LongestRow
  <2>2. \E a \in C : IsMax(a)
    BY <2>1
  <2>3. MaxNeighbors(f, m) = CHOOSE a \in C : IsMax(a)
    BY <1>2 DEF MaxNeighbors
  <2> HIDE DEF IsMax
  <2>4. MaxNeighbors(f, m) \in C /\ IsMax(MaxNeighbors(f, m))
    BY <2>2, <2>3
  <2>5. QED
    BY <1>2, <2>4 DEF IsMax
<1>3. QED
  BY <1>1, <1>2

-----------------------------------------------------------------------------
(* What the callback stores: distinct sources that were found, the closest *)
(* of them first, as many as fit.                                          *)
LEMMA StoredType ==
  ASSUME NEW c, NEW x, NEW near, IsFiniteSet(near), NEW size \in Nat,
         NEW q \in StoredIndices(c, x, near, size)
  PROVE  /\ SmallerOf(Cardinality(near), size) \in Nat
         /\ q \in [1..SmallerOf(Cardinality(near), size) -> near]
         /\ q \in Injection(1..SmallerOf(Cardinality(near), size), near)
         /\ \A j \in 1..SmallerOf(Cardinality(near), size) :
              Distance(c[q[1]], x) <= Distance(c[q[j]], x)
<1>1. Cardinality(near) \in Nat
  BY FS_CardinalityType
<1>2. SmallerOf(Cardinality(near), size) \in Nat
  BY <1>1, SmallerOfType
<1>3. /\ q \in StoredUnsorted(c, x, near, size)
      /\ \A j \in DOMAIN q : Distance(c[q[1]], x) <= Distance(c[q[j]], x)
  BY DEF StoredIndices
<1>4. /\ q \in [1..SmallerOf(Cardinality(near), size) -> near]
      /\ \A j, k \in 1..SmallerOf(Cardinality(near), size) : q[j] = q[k] => j = k
  BY <1>3 DEF StoredUnsorted
<1>5. DOMAIN q = 1..SmallerOf(Cardinality(near), size)
  BY <1>4
<1>6. q \in Injection(1..SmallerOf(Cardinality(near), size), near)
  BY <1>4 DEF Injection, IsInjective
<1>7. QED
  BY <1>2, <1>3, <1>4, <1>5, <1>6

(* With room for all that were found, all of them are stored.              *)
LEMMA StoredAll ==
  ASSUME NEW c, NEW x, NEW near, IsFiniteSet(near), NEW size \in Nat,
         NEW q \in StoredIndices(c, x, near, size), Cardinality(near) <= size
  PROVE  /\ q \in [1..Cardinality(near) -> near]
         /\ \A s \in near : \E j \in 1..Cardinality(near) : q[j] = s
         /\ \A s \in near : Distance(c[q[1]], x) <= Distance(c[s], x)
<1> DEFINE k == Cardinality(near)
<1>1. k \in Nat
  BY FS_CardinalityType
<1>2. SmallerOf(k, size) = k
  BY <1>1 DEF SmallerOf
<1> DEFINE Stores(m) ==
             /\ q \in [1..m -> near]
             /\ q \in Injection(1..m, near)
             /\ \A j \in 1..m : Distance(c[q[1]], x) <= Distance(c[q[j]], x)
<1>a. Stores(SmallerOf(k, size))
  <2>1. q \in [1..SmallerOf(k, size) -> near]
    BY StoredType
  <2>2. q \in Injection(1..SmallerOf(k, size), near)
    BY StoredType
  <2>3. \A j \in 1..SmallerOf(k, size) : Distance(c[q[1]], x) <= Distance(c[q[j]], x)
    BY StoredType
  <2>4. QED
    BY <2>1, <2>2, <2>3
<1> HIDE DEF Stores
<1>b. Stores(k)
  BY <1>2, <1>a
<1>3. /\ q \in [1..k -> near]
      /\ q \in Injection(1..k, near)
      /\ \A j \in 1..k : Distance(c[q[1]], x) <= Distance(c[q[j]], x)
  BY <1>b DEF Stores
<1>5. Cardinality(1..k) = k
  BY <1>1, FS_Interval
<1>6. q \in Surjection(1..k, near)
  BY <1>3, <1>5, FS_Injection
<1>7. \A s \in near : \E j \in 1..k : q[j] = s
  BY <1>6 DEF Surjection
<1>8. \A s \in near : Distance(c[q[1]], x) <= Distance(c[s], x)
  BY <1>3, <1>7
<1>9. QED
  BY <1>3, <1>7, <1>8

(* The entries that were stored are as many as the places used.            *)
LEMMA StoredCount ==
  ASSUME NEW S, NEW m \in Nat, NEW q, NEW k \in 0..m, q \in [1..m -> S],
         \A i, j \in 1..m : q[i] = q[j] => i = j
  PROVE  Cardinality({q[j] : j \in 1..k}) = k
<1> DEFINE T == {q[j] : j \in 1..k}
           g == [j \in 1..k |-> q[j]]
<1>1. g \in Surjection(1..k, T)
  <2>1. g \in [1..k -> T] /\ \A t \in T : \E j \in 1..k : g[j] = t
    OBVIOUS
  <2>2. QED
    BY <2>1 DEF Surjection
<1>2. g \in Injection(1..k, T)
  <2>1. g \in [1..k -> T] /\ \A i, j \in 1..k : g[i] = g[j] => i = j
    OBVIOUS
  <2>2. QED
    BY <2>1 DEF Injection, IsInjective
<1>3. IsFiniteSet(1..k) /\ Cardinality(1..k) = k
  BY FS_Interval
<1>4. Cardinality(T) = Cardinality(1..k)
  BY <1>1, <1>2, <1>3, FS_Surjection
<1>5. QED
  BY <1>3, <1>4

-----------------------------------------------------------------------------
Closer(c, x, d) == {s \in DOMAIN c : Distance(c[s], x) < d}
NotFarther(c, x, d) == {s \in DOMAIN c : Distance(c[s], x) <= d}

IsKth(c, x, k, d) ==
  /\ Cardinality(NotFarther(c, x, d)) >= k
  /\ Cardinality(Closer(c, x, d)) < k

Distances(c, x) == {Distance(c[s], x) : s \in DOMAIN c}

LEMMA DistancesType ==
  ASSUME NEW c, IsCloud(c), NEW x \in Int
  PROVE  Distances(c, x) \subseteq Nat
BY DistanceType DEF Distances, IsCloud

(* Of the sources that satisfy a bound one is farthest.                    *)
LEMMA Farthest ==
  ASSUME NEW c, IsCloud(c), NEW x \in Int, NEW b \in Nat, NEW S \in SUBSET DOMAIN c,
         S # {}, \A s \in S : Distance(c[s], x) <= b
  PROVE  \E t \in S : \A s \in S : Distance(c[s], x) <= Distance(c[t], x)
<1> DEFINE f(s) == Distance(c[s], x)
           D == {b - f(s) : s \in S}
<1>1. \A s \in S : f(s) \in Nat
  BY DistanceType DEF IsCloud
<1> HIDE DEF f
<1>2. \A s \in S : f(s) <= b
  BY DEF f
<1>3. D \subseteq Nat /\ D # {}
  BY <1>1, <1>2
<1>4. PICK d \in D : \A e \in D : d <= e
  <2> HIDE DEF D
  <2>1. QED
    BY <1>3, LeastNat
<1>5. PICK t \in S : d = b - f(t)
  OBVIOUS
<1>6. ASSUME NEW s \in S PROVE f(s) <= f(t)
  <2>1. b - f(t) <= b - f(s)
    BY <1>4, <1>5
  <2>2. QED
    BY <1>1, <2>1
<1>7. \A s \in S : f(s) <= f(t)
  BY <1>6
<1>8. QED
  BY <1>7 DEF f

(* All sources are within some distance.                                   *)
LEMMA CloudBounded ==
  ASSUME NEW c, IsCloud(c), NEW x \in Int
  PROVE  \E t \in DOMAIN c : \A s \in DOMAIN c : Distance(c[s], x) <= Distance(c[t], x)
<1> DEFINE m == Cardinality(DOMAIN c)
           f == [s \in 0..m-1 |-> Distance(c[s], x)]
<1>1. m \in Nat \ {0} /\ DOMAIN c = 0..m-1 /\ \A s \in 0..m-1 : c[s] \in Int
  BY DEF IsCloud
<1> HIDE DEF m
<1>2. f \in [0..m-1 -> Nat]
  BY <1>1, DistanceType
<1>3. \A s \in 0..m-1 : f[s] = Distance(c[s], x)
  OBVIOUS
<1> HIDE DEF f
<1>4. PICK t \in 0..m-1 : \A s \in 0..m-1 : f[s] <= f[t]
  BY <1>1, <1>2, LongestRow
<1>5. QED
  BY <1>1, <1>3, <1>4

(* The k-th distance exists if there are k sources.                        *)
LEMMA KthExists ==
  ASSUME NEW c, IsCloud(c), NEW x \in Int, NEW k \in 1..Cardinality(DOMAIN c)
  PROVE  \E d \in Distances(c, x) : IsKth(c, x, k, d)
<1> DEFINE G == {d \in Distances(c, x) : Cardinality(NotFarther(c, x, d)) >= k}
           f(s) == Distance(c[s], x)
<1>1. \A s \in DOMAIN c : f(s) \in Nat /\ f(s) \in Distances(c, x)
  BY DistanceType DEF IsCloud, Distances
<1>2. Distances(c, x) \subseteq Nat
  BY DistancesType
<1>3. Cardinality(DOMAIN c) \in Nat /\ k \in Nat
  BY DEF IsCloud
<1>4. PICK far \in DOMAIN c : \A s \in DOMAIN c : f(s) <= f(far)
  BY CloudBounded
<1>5. NotFarther(c, x, f(far)) = DOMAIN c
  BY <1>4 DEF NotFarther
<1>6. f(far) \in G
  BY <1>1, <1>3, <1>5
<1>7. PICK g \in G : \A d \in G : g <= d
  <2>1. G \in SUBSET Nat /\ G # {}
    BY <1>2, <1>6
  <2> HIDE DEF G
  <2>2. QED
    BY <2>1, LeastNat
<1>8. g \in Nat /\ g \in Distances(c, x) /\ Cardinality(NotFarther(c, x, g)) >= k
  BY <1>2, <1>7
<1>9. Cardinality(Closer(c, x, g)) < k
  <2> DEFINE S == Closer(c, x, g)
  <2>1. CASE S = {}
    BY <2>1, <1>3, FS_EmptySet
  <2>2. CASE S # {}
    <3>1. S \in SUBSET DOMAIN c /\ \A s \in S : f(s) < g
      BY DEF Closer
    <3>2. \A s \in S : f(s) <= g
      BY <3>1, <1>1, <1>8
    <3>3. PICK t \in S : \A s \in S : f(s) <= f(t)
      BY <2>2, <3>1, <3>2, <1>8, Farthest
    <3>4. NotFarther(c, x, f(t)) = S
      <4>1. f(t) \in Nat /\ f(t) < g
        BY <3>1, <1>1
      <4>2. ASSUME NEW s \in DOMAIN c PROVE f(s) <= f(t) <=> f(s) < g
        <5>1. f(s) \in Nat
          BY <1>1
        <5>2. f(s) < g => f(s) <= f(t)
          BY <3>3 DEF Closer
        <5>3. f(s) <= f(t) => f(s) < g
          BY <4>1, <5>1, <1>8
        <5>4. QED
          BY <5>2, <5>3
      <4>3. QED
        BY <4>2 DEF NotFarther, Closer
    <3>5. f(t) \notin G
      <4>1. f(t) \in Nat /\ f(t) < g
        BY <3>1, <1>1
      <4>2. ~ (g <= f(t))
        BY <4>1, <1>8
      <4>3. QED
        BY <4>2, <1>7
    <3>6. ~ (Cardinality(S) >= k)
      BY <3>1, <3>4, <3>5, <1>1
    <3>7. Cardinality(S) \in Nat
      BY <3>1, SubsetOfCloud
    <3>8. QED
      BY <3>6, <3>7, <1>3
  <2>3. QED
    BY <2>1, <2>2
<1>10. QED
  BY <1>8, <1>9 DEF IsKth

LEMMA KthDistanceType ==
  ASSUME NEW c, IsCloud(c), NEW x \in Int, NEW k \in 1..Cardinality(DOMAIN c)
  PROVE  KthDistance(c, x, k) \in Nat /\ IsKth(c, x, k, KthDistance(c, x, k))
<1>1. KthDistance(c, x, k) = CHOOSE d \in Distances(c, x) : IsKth(c, x, k, d)
  BY DEF KthDistance, Distances, IsKth, NotFarther, Closer
<1>2. \E d \in Distances(c, x) : IsKth(c, x, k, d)
  BY KthExists
<1>3. KthDistance(c, x, k) \in Distances(c, x) /\ IsKth(c, x, k, KthDistance(c, x, k))
  BY <1>1, <1>2, Zenon
<1>4. QED
  BY <1>3, DistancesType

LEMMA KnnFoundType ==
  ASSUME NEW c, IsCloud(c), NEW k \in Nat \ {0}
  PROVE  KnnFound(c, k) \in 1..Cardinality(DOMAIN c) /\ KnnFound(c, k) <= k
BY DEF KnnFound, SmallerOf, IsCloud

(* The radius that follows from a k-nearest search is positive.            *)
LEMMA KnnRadiusType ==
  ASSUME NEW c, IsCloud(c), NEW x \in Int, NEW k \in Nat \ {0}, NEW w \in Nat \ {0}
  PROVE  KnnRadius(c, x, k, w) \in Nat \ {0}
<1> DEFINE d == KthDistance(c, x, KnnFound(c, k))
<1>1. d \in Nat
  BY KnnFoundType, KthDistanceType
<1> HIDE DEF d
<1>2. d > 0 => d * w \in Nat \ {0}
  BY <1>1
<1>3. KnnRadius(c, x, k, w) = IF d > 0 THEN d * w ELSE 1
  BY DEF KnnRadius, d
<1>4. QED
  BY <1>2, <1>3

(* With a multiplier above 1 the radius search that follows finds at least *)
(* as many sources as the k-nearest search did, those at the k-th distance *)
(* included.                                                               *)
LEMMA KnnRadiusFinds ==
  ASSUME NEW c, IsCloud(c), NEW x \in Int, NEW k \in Nat \ {0}, NEW w \in Nat \ {0},
         w > Scale
  PROVE  Cardinality(Within(c, x, KnnRadius(c, x, k, w))) >= KnnFound(c, k)
<1> DEFINE d == KthDistance(c, x, KnnFound(c, k))
           r == KnnRadius(c, x, k, w)
           S == NotFarther(c, x, d)
           W == Within(c, x, r)
<1>1. KnnFound(c, k) \in 1..Cardinality(DOMAIN c)
  BY KnnFoundType
<1>2. d \in Nat /\ IsKth(c, x, KnnFound(c, k), d)
  BY <1>1, KthDistanceType
<1>3. Cardinality(S) >= KnnFound(c, k)
  BY <1>2 DEF IsKth
<1>4. r = IF d > 0 THEN d * w ELSE 1
  BY DEF KnnRadius
<1>5. Scale \in Nat
  BY ScaleAssumption
<1> HIDE DEF d, r
<1>6. ASSUME NEW s \in DOMAIN c, Distance(c[s], x) <= d
      PROVE  Scale * Distance(c[s], x) < r
  <2> DEFINE e == Distance(c[s], x)
  <2>1. e \in Nat /\ e <= d
    BY <1>6, DistanceType DEF IsCloud
  <2> HIDE DEF e
  <2>2. CASE d > 0
    <3>1. e * Scale <= d * Scale
      BY <2>1, <1>2, <1>5, TimesMonotone
    <3>2. d * Scale < d * w
      <4>1. d * w = d * Scale + d * (w - Scale)
        BY <1>2, <1>5
      <4>2. w - Scale \in Nat \ {0} /\ d \in Nat \ {0}
        BY <1>2, <1>5, <2>2
      <4>3. d * (w - Scale) > 0
        BY <4>2
      <4>4. d * Scale \in Int /\ d * (w - Scale) \in Int /\ d * w \in Int
        BY <1>2, <1>5
      <4>5. QED
        BY <4>1, <4>3, <4>4
    <3>3. e * Scale = Scale * e
      BY <2>1, <1>5
    <3>4. e * Scale \in Int /\ d * Scale \in Int /\ d * w \in Int
      BY <2>1, <1>2, <1>5
    <3>5. QED
      BY <3>1, <3>2, <3>3, <3>4, <1>4, <2>2 DEF e
  <2>3. CASE d = 0
    <3>1. e = 0
      BY <2>1, <2>3
    <3>2. Scale * e = 0
      BY <3>1, <1>5
    <3>3. QED
      BY <3>2, <1>4, <2>3 DEF e
  <2>4. QED
    BY <1>2, <2>2, <2>3
<1>7. S \subseteq W
  BY <1>6 DEF NotFarther, Within
<1>8. S \in SUBSET W /\ S \in SUBSET DOMAIN c /\ IsFiniteSet(W) /\ Cardinality(W) \in Nat
  BY <1>7, WithinType DEF NotFarther
<1>9. Cardinality(S) <= Cardinality(W) /\ Cardinality(S) \in Nat
  <2> HIDE DEF S, W
  <2>1. Cardinality(S) <= Cardinality(W)
    BY <1>8, FS_Subset
  <2>2. QED
    BY <1>8, <2>1, SubsetOfCloud
<1>10. QED
  <2>1. Cardinality(S) >= KnnFound(c, k) /\ KnnFound(c, k) \in Nat
    BY <1>1, <1>3
  <2> HIDE DEF S, W
  <2>2. Cardinality(W) >= KnnFound(c, k)
    BY <1>8, <1>9, <2>1
  <2>3. QED
    BY <2>2 DEF W, r

-----------------------------------------------------------------------------
(* Compressed row lists.  The strengthening says that the counts and radii *)
(* of a search that was prepared by a dry run are what the search will     *)
(* find again, so that its repetition changes neither, until the user      *)
(* stores other radii or makes another call; what each team has done so    *)
(* far; and that row offsets and scratch fit the counts for as long as     *)
(* they are not written.                                                   *)

(* The radius that search s ends up with for target i.                     *)
RadiusOf(s, i) ==
  IF s.uniform > 0 THEN s.uniform
  ELSE IF s.kind = "knn" THEN KnnRadius(src, trg[i], s.needed, s.multiplier)
  ELSE epsilons[i]

Enough(s) ==
  s.kind = "knn" => NumTargets = 0 \/ KnnFound(src, s.needed) >= s.needed

(* Target i has the radius of search s, and the count for that radius.     *)
Counted(s, i) ==
  /\ epsilons[i] = RadiusOf(s, i)
  /\ number_of_neighbors_list[i] = Cardinality(Near(i))

Prepared(s) == Enough(s) /\ \A i \in Targets : Counted(s, i)

ListsInv == \E e \in Nat : neighbor_lists \in [0..e-1 -> Sources]

CallInv ==
  /\ call \in Calls \cup {NoCall} /\ prepared \in Searches \cup {NoSearch}
  /\ phase # "idle" \/ outcome # "none" => call \in Calls
  /\ phase = "knn" => call.search.kind = "knn"
  /\ outcome # "none" => phase = "idle"
  /\ outcome = "dry" => call.dry
  /\ outcome = "real" => ~ call.dry
  /\ disciplined => ~ call.dry

PreparedInv ==
  /\ phase = "idle" /\ prepared # NoSearch => Prepared(prepared)
  /\ phase # "idle" /\ disciplined => Prepared(call.search)
  /\ outcome = "dry" \/ (outcome = "real" /\ disciplined) => prepared = call.search

(* The k-nearest kernel, once it has ended.                                *)
KnnInv ==
  /\ phase = "knn" => \A i \in Targets : team[i] = "done" => epsilons[i] = RadiusFromKnn(i)
  /\ (phase = "radius" \/ outcome \in {"dry", "real"}) /\ call.search.kind = "knn" =>
       EnoughSources /\ \A i \in Targets : epsilons[i] = RadiusFromKnn(i)

(* The teams of the radius kernel.                                         *)
TeamInv ==
  phase = "radius" => \A i \in Targets :
    /\ call.dry => team[i] # "fill" /\ (team[i] = "done" => Counted(call.search, i))
    /\ team[i] = "fill" =>
         /\ found[i] = Cardinality(Near(i))
         /\ indices[i] \in StoredIndices(src, trg[i], Near(i), storage)
         /\ debug /\ ~ StoresCounts => found[i] = number_of_neighbors_list[i]

SizedInv ==
  /\ phase = "radius" /\ ~ call.dry /\ (disciplined \/ ~ StoresCounts) =>
       /\ row_offsets = RowOffsets(number_of_neighbors_list, NumTargets)
       /\ Total(number_of_neighbors_list) <= Extent
  /\ phase \in {"knn", "radius"} /\ disciplined =>
       storage = MaxNeighbors(number_of_neighbors_list, NumTargets)

FilledInv ==
  disciplined => \A i \in Targets :
    (phase = "radius" /\ team[i] = "done") \/ outcome = "real" => RowExact(i)

EndInv ==
  /\ phase = "aborted" /\ disciplined => \E i \in Targets : TooFar(epsilons[i])
  /\ outcome = "threw" /\ disciplined => Extent < Total(number_of_neighbors_list)
  /\ call.dry => "lists" \notin overran
  /\ DebugCheckProtects

SearchInv ==
  /\ TypeOK /\ ListsInv /\ CallInv
  /\ PreparedInv /\ KnnInv /\ TeamInv /\ SizedInv /\ FilledInv /\ EndInv

(* The code accepts any multiplier; a k-nearest search finds what it needs *)
(* if the multiplier is above 1.                                           *)
LargerRadii == \A s \in Searches : s.kind = "knn" => s.multiplier > Scale

ScratchInv == disciplined => overran = {}

-----------------------------------------------------------------------------
LEMMA SearchFacts ==
  ASSUME NEW s \in Searches
  PROVE  /\ s.kind \in {"radius", "knn"} /\ s # NoSearch
         /\ s.uniform \in Nat /\ s.needed \in Nat /\ s.multiplier \in Nat
         /\ s.kind = "knn" => /\ s.uniform = 0
                              /\ s.needed \in Nat \ {0} /\ s.multiplier \in Nat \ {0}
<1>1. CASE s.uniform \in Nat /\ s = RadiusBy(s.uniform)
  BY <1>1 DEF RadiusBy, NoSearch
<1>2. CASE /\ s.needed \in Nat \ {0} /\ s.multiplier \in Nat \ {0}
           /\ s = KnnBy(s.needed, s.multiplier)
  BY <1>2 DEF KnnBy, NoSearch
<1>3. QED
  BY <1>1, <1>2, SearchesAssumption

LEMMA CallFacts ==
  ASSUME NEW c \in Calls
  PROVE  c.search \in Searches /\ c.dry \in BOOLEAN /\ c.max \in Nat
BY RadiiAssumption DEF Calls

LEMMA NoCallFacts ==
  /\ NoCall.search = NoSearch /\ NoCall.dry = FALSE /\ NoCall.max = 0
  /\ NoSearch.kind = "none" /\ NoSearch.uniform = 0
BY DEF NoCall, NoSearch

LEMMA NoCallIsNoCall == NoCall \notin Calls
BY SearchFacts, CallFacts, NoCallFacts

(* What the types say of the sites, the counts and the lists.              *)
LEMMA SiteFacts ==
  ASSUME TypeOK, NEW i \in Targets PROVE IsCloud(src) /\ trg[i] \in Int
BY CloudFacts, TargetFacts DEF TypeOK

LEMMA ExtentFacts ==
  ASSUME NEW lists, NEW S, NEW e \in Nat, lists \in [0..e-1 -> S]
  PROVE  Cardinality(DOMAIN lists) = e
<1>1. DOMAIN lists = 0..e-1
  OBVIOUS
<1>2. Cardinality(0..e-1) = e
  BY FS_Interval
<1>3. QED
  BY <1>1, <1>2

LEMMA ListsFacts ==
  ASSUME ListsInv
  PROVE  Extent \in Nat /\ neighbor_lists \in [0..Extent-1 -> Sources]
<1>1. PICK e \in Nat : neighbor_lists \in [0..e-1 -> Sources]
  BY DEF ListsInv
<1>2. Extent = e
  BY <1>1, ExtentFacts DEF Extent
<1>3. QED
  BY <1>1, <1>2

LEMMA ZeroIsSource == ASSUME TypeOK PROVE 0 \in Sources
<1>1. IsCloud(src)
  BY CloudFacts DEF TypeOK
<1>2. QED
  BY <1>1 DEF IsCloud, Sources

LEMMA RadiusOfType ==
  ASSUME TypeOK, NEW s \in Searches, NEW i \in Targets
  PROVE  RadiusOf(s, i) \in Nat
<1>1. s.uniform \in Nat
  BY SearchFacts
<1>2. CASE s.kind = "knn"
  <2>1. s.needed \in Nat \ {0} /\ s.multiplier \in Nat \ {0}
    BY <1>2, SearchFacts
  <2>2. KnnRadius(src, trg[i], s.needed, s.multiplier) \in Nat
    BY <2>1, SiteFacts, KnnRadiusType
  <2>3. QED
    BY <1>1, <1>2, <2>2 DEF RadiusOf
<1>3. CASE s.kind # "knn"
  <2>1. epsilons[i] \in Nat
    BY DEF TypeOK
  <2>2. QED
    BY <1>1, <1>3, <2>1 DEF RadiusOf
<1>4. QED
  BY <1>2, <1>3

LEMMA NearFacts ==
  ASSUME TypeOK, NEW i \in Targets
  PROVE  /\ Near(i) \in SUBSET Sources /\ IsFiniteSet(Near(i))
         /\ Cardinality(Near(i)) \in 0..Cardinality(Sources)
         /\ Cardinality(Near(i)) \in Nat
<1>1. IsCloud(src)
  BY SiteFacts
<1>2. QED
  BY <1>1, WithinType DEF Near, Sources

LEMMA SearchInit == Init => SearchInv
<1> SUFFICES ASSUME Init PROVE SearchInv
  OBVIOUS
<1> USE DEF Init, NothingSearched
<1>1. ListsInv
  <2>1. neighbor_lists \in [0..0-1 -> Sources]
    OBVIOUS
  <2>2. QED
    BY <2>1 DEF ListsInv
<1>2. Extent \in Nat /\ neighbor_lists \in [0..Extent-1 -> Sources]
  BY <1>1, ListsFacts
<1>3. 0 \in 0..Cardinality(Sources)
  <2>1. IsCloud(src)
    BY CloudFacts
  <2>2. QED
    BY <2>1 DEF IsCloud, Sources
<1>4. TypeOK
  <2>1. indices \in [Targets -> Seq(Sources)]
    OBVIOUS
  <2>2. number_of_neighbors_list \in [Targets -> 0..Cardinality(Sources)]
        /\ found \in [Targets -> 0..Cardinality(Sources)]
    BY <1>3
  <2>3. epsilons \in [Targets -> Nat] /\ row_offsets \in [Targets -> Nat]
        /\ team \in [Targets -> {"todo", "fill", "done"}] /\ storage \in Nat /\ result \in Nat
    OBVIOUS
  <2>4. QED
    BY <1>2, <2>1, <2>2, <2>3 DEF TypeOK
<1>5. CallInv
  BY NoCallFacts DEF CallInv
<1>6. PreparedInv /\ KnnInv /\ TeamInv /\ SizedInv /\ FilledInv
  BY DEF PreparedInv, KnnInv, TeamInv, SizedInv, FilledInv
<1>7. EndInv
  BY NoCallFacts DEF EndInv, DebugCheckProtects
<1>8. QED
  BY <1>1, <1>4, <1>5, <1>6, <1>7 DEF SearchInv

(* The same of counts that are not yet, or no longer, those of the state.  *)
LEMMA CountsType ==
  ASSUME NEW num \in [Targets -> Nat]
  PROVE  /\ RowOffsets(num, NumTargets) \in [Targets -> Nat]
         /\ Total(num) \in Nat /\ MaxNeighbors(num, NumTargets) \in Nat
         /\ \A i \in Targets : num[i] <= MaxNeighbors(num, NumTargets)
<1>1. num \in [0..NumTargets-1 -> Nat] /\ NumTargets \in Nat
  BY NumTargetsAssumption DEF Targets
<1>2. PrefixSum(num, NumTargets) \in [0..NumTargets -> Nat]
  BY <1>1, PrefixSumStep
<1>3. RowOffsets(num, NumTargets) \in [0..NumTargets-1 -> Nat]
  BY <1>1, <1>2 DEF RowOffsets
<1>4. Total(num) \in Nat
  <2>1. CASE NumTargets = 0
    BY <2>1 DEF Total, TotalNeighbors
  <2>2. CASE NumTargets # 0
    <3>1. NumTargets-1 \in 0..NumTargets-1
      BY <1>1, <2>2
    <3>2. num[NumTargets-1] \in Nat /\ RowOffsets(num, NumTargets)[NumTargets-1] \in Nat
      BY <1>1, <1>3, <3>1
    <3>3. QED
      BY <2>2, <3>2 DEF Total, TotalNeighbors
  <2>3. QED
    BY <2>1, <2>2
<1>5. MaxNeighbors(num, NumTargets) \in Nat
      /\ \A i \in 0..NumTargets-1 : num[i] <= MaxNeighbors(num, NumTargets)
  BY <1>1, MaxNeighborsAttained
<1>6. QED
  BY <1>3, <1>4, <1>5 DEF Targets

LEMMA CountFacts ==
  ASSUME TypeOK
  PROVE  /\ number_of_neighbors_list \in [Targets -> Nat]
         /\ RowOffsets(number_of_neighbors_list, NumTargets) \in [Targets -> Nat]
         /\ Total(number_of_neighbors_list) \in Nat
         /\ MaxNeighbors(number_of_neighbors_list, NumTargets) \in Nat
         /\ \A i \in Targets :
              number_of_neighbors_list[i] <= MaxNeighbors(number_of_neighbors_list, NumTargets)
<1> DEFINE num == number_of_neighbors_list
<1>1. num \in [Targets -> 0..Cardinality(Sources)]
  BY DEF TypeOK
<1>2. num \in [Targets -> Nat]
  BY <1>1
<1> HIDE DEF num
<1>3. QED
  BY <1>2, CountsType DEF num

(* The user's steps between two calls.                                     *)
LEMMA SetEpsilonsInv == SearchInv /\ SetEpsilons => SearchInv'
<1> SUFFICES ASSUME SearchInv, SetEpsilons PROVE SearchInv'
  OBVIOUS
<1> USE DEF SetEpsilons, CallForgotten, fixed, sites, locals, teams
<1>1. TypeOK /\ ListsInv
  BY DEF SearchInv
<1>2. ListsInv'
  BY <1>1 DEF ListsInv, Sources
<1>3. TypeOK'
  <2>1. epsilons' \in [Targets -> Nat]
    BY RadiiAssumption
  <2>2. QED
    BY <1>1, <2>1 DEF TypeOK, Extent, Sources
<1>4. CallInv'
  BY NoCallFacts DEF CallInv
<1>5. PreparedInv' /\ KnnInv' /\ TeamInv' /\ SizedInv' /\ FilledInv'
  BY DEF PreparedInv, KnnInv, TeamInv, SizedInv, FilledInv
<1>6. EndInv'
  BY NoCallFacts DEF EndInv, DebugCheckProtects
<1>7. QED
  BY <1>2, <1>3, <1>4, <1>5, <1>6 DEF SearchInv

LEMMA ResizeListsInv == SearchInv /\ ResizeLists => SearchInv'
<1> SUFFICES ASSUME SearchInv, ResizeLists PROVE SearchInv'
  OBVIOUS
<1> USE DEF ResizeLists, CallForgotten, fixed, sites, locals, teams
<1>1. /\ TypeOK /\ ListsInv
      /\ call.dry /\ ~ disciplined /\ "lists" \notin overran
  BY DEF SearchInv, CallInv, EndInv
<1>2. result \in Nat /\ neighbor_lists' \in [0..result-1 -> Sources]
  <2>1. neighbor_lists \in [0..Extent-1 -> Sources] /\ result \in Nat
    BY <1>1 DEF TypeOK
  <2>2. QED
    BY <1>1, <2>1, ZeroIsSource
<1>3. ListsInv'
  BY <1>2 DEF ListsInv, Sources
<1>4. TypeOK'
  <2>1. Extent' = result
    BY <1>2, ExtentFacts DEF Extent
  <2>2. neighbor_lists' \in [0..Extent'-1 -> Sources']
    BY <1>2, <2>1 DEF Sources
  <2>3. QED
    BY <1>1, <2>2 DEF TypeOK, Sources
<1>5. CallInv'
  BY <1>1, NoCallFacts DEF CallInv, SearchInv
<1>6. PreparedInv'
  BY <1>1 DEF PreparedInv, SearchInv, Prepared, Enough, Counted, RadiusOf, Near
<1>7. KnnInv' /\ TeamInv' /\ SizedInv' /\ FilledInv'
  BY <1>1 DEF KnnInv, TeamInv, SizedInv, FilledInv
<1>8. EndInv'
  BY <1>1, NoCallFacts DEF EndInv, DebugCheckProtects
<1>9. QED
  BY <1>3, <1>4, <1>5, <1>6, <1>7, <1>8 DEF SearchInv

LEMMA StutterInv == SearchInv /\ UNCHANGED vars => SearchInv'
<1> SUFFICES ASSUME SearchInv, UNCHANGED vars PROVE SearchInv'
  OBVIOUS
<1> USE DEF vars, user, fixed, sites, locals, teams, SearchInv
<1>1. ListsInv' /\ TypeOK'
  BY DEF ListsInv, TypeOK, Extent, Sources
<1>2. CallInv'
  BY DEF CallInv
<1>3. PreparedInv' /\ KnnInv'
  BY DEF PreparedInv, KnnInv, Prepared, Enough, Counted, RadiusOf, Near, EnoughSources,
         RadiusFromKnn
<1>4. TeamInv'
  BY DEF TeamInv, Counted, RadiusOf, Near, StoresCounts
<1>5. SizedInv'
  BY DEF SizedInv, StoresCounts, Extent
<1>6. FilledInv'
  BY DEF FilledInv, RowExact, RowOf, Near
<1>7. EndInv'
  BY DEF EndInv, DebugCheckProtects, TooFar, Extent
<1>8. QED
  BY <1>1, <1>2, <1>3, <1>4, <1>5, <1>6, <1>7

(* A call that throws: the locals are gone and nothing is prepared.        *)
LEMMA ThrowInv ==
  ASSUME SearchInv, Throw, NEW c \in Calls, call' = c, disciplined' \in BOOLEAN,
         disciplined' => ~ c.dry /\ Extent < Total(number_of_neighbors_list),
         overran' \subseteq {"lists", "scratch"}, c.dry => "lists" \notin overran',
         DebugCheckProtects'
  PROVE  SearchInv'
<1> USE DEF Throw, LocalsGone, TeamsGone, user, fixed, sites, locals, teams
<1>1. TypeOK /\ ListsInv /\ CallInv
  BY DEF SearchInv
<1>2. ListsInv'
  BY <1>1 DEF ListsInv, Sources
<1>3. TypeOK'
  <2>1. indices' \in [Targets -> Seq(Sources)]
    OBVIOUS
  <2>2. 0 \in 0..Cardinality(Sources)
    BY <1>1, CloudFacts DEF TypeOK, IsCloud, Sources
  <2>3. row_offsets' \in [Targets -> Nat] /\ storage' \in Nat
        /\ found' \in [Targets -> 0..Cardinality(Sources')]
        /\ team' \in [Targets -> {"todo", "fill", "done"}]
    BY <2>2 DEF Sources
  <2>4. QED
    BY <1>1, <2>1, <2>3 DEF TypeOK, Extent, Sources
<1>4. CallInv'
  BY <1>1 DEF CallInv
<1>5. PreparedInv' /\ KnnInv' /\ TeamInv' /\ SizedInv' /\ FilledInv'
  BY DEF PreparedInv, KnnInv, TeamInv, SizedInv, FilledInv
<1>6. EndInv'
  BY DEF EndInv, Extent
<1>7. QED
  BY <1>2, <1>3, <1>4, <1>5, <1>6 DEF SearchInv

(* A call that reaches the radius kernel, at once or from the k-nearest    *)
(* kernel.                                                                 *)
LEMMA RadiusBeginsInv ==
  ASSUME SearchInv, NEW c \in Calls, call' = c, RadiusBegins(c.dry), Fits(c.dry),
         disciplined' \in BOOLEAN, disciplined' => ~ c.dry /\ Prepared(c.search),
         c.search.kind = "knn" =>
           /\ NumTargets = 0 \/ KnnFound(src, c.search.needed) >= c.search.needed
           /\ \A i \in Targets :
                epsilons[i] = KnnRadius(src, trg[i], c.search.needed, c.search.multiplier),
         overran' \subseteq {"lists", "scratch"}, c.dry => "lists" \notin overran',
         DebugCheckProtects'
  PROVE  SearchInv'
<1> USE DEF RadiusBegins, user, fixed, sites
<1>1. TypeOK /\ ListsInv /\ CallInv /\ c.dry \in BOOLEAN
  BY CallFacts DEF SearchInv
<1>2. ListsInv'
  BY <1>1 DEF ListsInv, Sources
<1>3. TypeOK'
  <2>1. row_offsets' \in [Targets -> Nat] /\ storage' \in Nat
    BY <1>1, CountFacts DEF TypeOK, ScratchSize
  <2>2. team' \in [Targets -> {"todo", "fill", "done"}]
    OBVIOUS
  <2>3. QED
    BY <1>1, <2>1, <2>2 DEF TypeOK, Extent, Sources
<1>4. CallInv'
  BY <1>1 DEF CallInv
<1>5. PreparedInv'
  BY DEF PreparedInv, Prepared, Enough, Counted, RadiusOf, Near
<1>6. KnnInv'
  BY DEF KnnInv, EnoughSources, RadiusFromKnn
<1>7. TeamInv'
  BY DEF TeamInv
<1>8. SizedInv'
  BY DEF SizedInv, Fits, ScratchSize, Extent
<1>9. FilledInv'
  BY DEF FilledInv
<1>10. EndInv'
  BY DEF EndInv
<1>11. QED
  BY <1>2, <1>3, <1>4, <1>5, <1>6, <1>7, <1>8, <1>9, <1>10 DEF SearchInv

(* What a user may expect of a call when it is made.                       *)
LEMMA CalledFacts ==
  ASSUME SearchInv, NEW c \in Calls, Called(c)
  PROVE  /\ TypeOK /\ ListsInv /\ CallInv /\ phase = "idle" /\ call' = c
         /\ c.search \in Searches /\ c.dry \in BOOLEAN
         /\ disciplined' \in BOOLEAN
         /\ disciplined' => ~ c.dry /\ Prepared(c.search)
         /\ overran' = {} /\ DebugCheckProtects'
         /\ ~ Fits(c.dry) => ~ c.dry /\ Extent < Total(number_of_neighbors_list)
<1>1. TypeOK /\ ListsInv /\ CallInv /\ PreparedInv
  BY DEF SearchInv
<1>2. c.search \in Searches /\ c.dry \in BOOLEAN /\ c.search # NoSearch
  BY CallFacts, SearchFacts
<1>3. phase = "idle" /\ call' = c /\ overran' = {} /\ disciplined' = (~ c.dry /\ c.search = prepared)
  BY DEF Called
<1>4. disciplined' => ~ c.dry /\ Prepared(c.search)
  BY <1>1, <1>2, <1>3 DEF PreparedInv
<1>5. DebugCheckProtects'
  BY <1>3 DEF DebugCheckProtects
<1>6. ~ Fits(c.dry) => ~ c.dry /\ Extent < Total(number_of_neighbors_list)
  <2>1. Extent \in Nat /\ Total(number_of_neighbors_list) \in Nat
    BY <1>1, ListsFacts, CountFacts
  <2>2. QED
    BY <2>1 DEF Fits
<1>7. disciplined' \in BOOLEAN
  BY <1>3
<1>8. QED
  BY <1>1, <1>2, <1>3, <1>4, <1>5, <1>6, <1>7

LEMMA CallRadiusInv ==
  ASSUME SearchInv, NEW c \in Calls, CallRadius(c)
  PROVE  SearchInv'
<1>1. Called(c) /\ c.search.kind = "radius" /\ EnterRadius(c.dry)
  BY DEF CallRadius
<1>2. CASE Fits(c.dry)
  <2>1. RadiusBegins(c.dry)
    BY <1>1, <1>2 DEF EnterRadius
  <2>2. QED
    BY <1>1, <1>2, <2>1, CalledFacts, RadiusBeginsInv
<1>3. CASE ~ Fits(c.dry)
  <2>1. Throw
    BY <1>1, <1>3 DEF EnterRadius
  <2>2. disciplined' => ~ c.dry /\ Extent < Total(number_of_neighbors_list)
    BY <1>1, <1>3, CalledFacts
  <2>3. QED
    BY <1>1, <2>1, <2>2, CalledFacts, ThrowInv
<1>4. QED
  BY <1>2, <1>3

LEMMA CallKnnInv ==
  ASSUME SearchInv, NEW c \in Calls, CallKnn(c)
  PROVE  SearchInv'
<1>1. Called(c) /\ c.search.kind = "knn"
  BY DEF CallKnn
<1>2. CASE ~ Fits(c.dry) /\ Throw
  <2>1. disciplined' => ~ c.dry /\ Extent < Total(number_of_neighbors_list)
    BY <1>1, <1>2, CalledFacts
  <2>2. QED
    BY <1>1, <1>2, <2>1, CalledFacts, ThrowInv
<1>3. CASE /\ phase' = "knn"
           /\ team' = [i \in Targets |-> "todo"]
           /\ storage' = IF c.dry THEN c.search.needed
                         ELSE MaxNeighbors(number_of_neighbors_list, NumTargets)
           /\ outcome' = "none"
           /\ UNCHANGED <<fixed, user, row_offsets, found, indices, result, prepared>>
  <2> USE DEF user, fixed, sites
  <2>1. /\ TypeOK /\ ListsInv /\ CallInv /\ phase = "idle" /\ call' = c
        /\ c.search \in Searches /\ c.dry \in BOOLEAN
        /\ disciplined' \in BOOLEAN
        /\ overran' = {} /\ DebugCheckProtects'
    BY <1>1, CalledFacts
  <2>2. disciplined' => ~ c.dry /\ Prepared(c.search)
    BY <1>1, CalledFacts
  <2>3. ListsInv'
    BY <1>3, <2>1 DEF ListsInv, Sources
  <2>4. TypeOK'
    <3>1. storage' \in Nat
      BY <1>3, <2>1, CountFacts, SearchFacts
    <3>2. team' \in [Targets -> {"todo", "fill", "done"}]
      BY <1>3
    <3>3. QED
      BY <1>3, <2>1, <3>1, <3>2 DEF TypeOK, Extent, Sources
  <2>5. CallInv'
    BY <1>1, <1>3, <2>1, <2>2 DEF CallInv
  <2>6. PreparedInv'
    BY <1>3, <2>1, <2>2 DEF PreparedInv, Prepared, Enough, Counted, RadiusOf, Near
  <2>7. KnnInv' /\ TeamInv' /\ FilledInv'
    BY <1>3 DEF KnnInv, TeamInv, FilledInv
  <2>8. SizedInv'
    BY <1>3, <2>1, <2>2 DEF SizedInv
  <2>9. EndInv'
    BY <1>3, <2>1 DEF EndInv
  <2>10. QED
    BY <2>3, <2>4, <2>5, <2>6, <2>7, <2>8, <2>9 DEF SearchInv
<1>4. QED
  BY <1>2, <1>3 DEF CallKnn

(* A team of the k-nearest kernel: the repetition of a dry run stores the  *)
(* radius that is there already.                                           *)
LEMMA KnnTeamInv ==
  ASSUME SearchInv, NEW i \in Targets, KnnTeam(i)
  PROVE  SearchInv'
<1> USE DEF fixed, sites
<1>1. /\ TypeOK /\ ListsInv /\ CallInv /\ phase = "knn" /\ call \in Calls
      /\ call.search.kind = "knn" /\ call.search \in Searches /\ outcome = "none"
      /\ call.search.uniform = 0
  BY CallFacts, SearchFacts DEF SearchInv, CallInv, KnnTeam
<1>2. RadiusFromKnn(i) \in Nat
  BY <1>1, SearchFacts, SiteFacts, KnnRadiusType DEF RadiusFromKnn
<1> DEFINE radius == RadiusFromKnn(i)
<1>3. /\ epsilons' = [epsilons EXCEPT ![i] = radius]
      /\ overran' = overran \cup Beyond("scratch", call.search.needed > storage)
      /\ team' = [team EXCEPT ![i] = "done"]
      /\ phase' \in {"knn", "aborted"}
      /\ phase' = "aborted" => TooFar(radius)
      /\ UNCHANGED <<fixed, neighbor_lists, number_of_neighbors_list, call,
                     row_offsets, storage, found, indices, outcome, result,
                     prepared, disciplined>>
  BY DEF KnnTeam
<1>4. \A j \in Targets : RadiusFromKnn(j)' = RadiusFromKnn(j)
  BY <1>3 DEF RadiusFromKnn
<1>5. /\ overran' \subseteq {"lists", "scratch"}
      /\ "lists" \in overran' <=> "lists" \in overran
  BY <1>1, <1>3 DEF TypeOK, Beyond
<1>6. disciplined => epsilons' = epsilons
  <2> SUFFICES ASSUME disciplined PROVE epsilons' = epsilons
    OBVIOUS
  <2>1. Prepared(call.search)
    BY <1>1 DEF SearchInv, PreparedInv
  <2>2. epsilons[i] = radius
    BY <1>1, <2>1 DEF Prepared, Counted, RadiusOf, RadiusFromKnn
  <2>3. epsilons \in [Targets -> Nat]
    BY <1>1 DEF TypeOK
  <2>4. QED
    BY <1>3, <2>2, <2>3
<1>7. epsilons' \in [Targets -> Nat] /\ epsilons'[i] = radius
      /\ \A j \in Targets \ {i} : epsilons'[j] = epsilons[j] /\ team'[j] = team[j]
  BY <1>1, <1>2, <1>3 DEF TypeOK
<1> HIDE DEF radius
<1>8. ListsInv'
  BY <1>1, <1>3 DEF ListsInv, Sources
<1>9. TypeOK'
  <2>1. team' \in [Targets -> {"todo", "fill", "done"}]
    BY <1>1, <1>3 DEF TypeOK
  <2>2. QED
    BY <1>1, <1>3, <1>5, <1>7, <2>1 DEF TypeOK, Extent, Sources
<1>10. CallInv'
  BY <1>1, <1>3 DEF CallInv
<1>11. PreparedInv'
  BY <1>1, <1>3, <1>6 DEF SearchInv, PreparedInv, Prepared, Enough, Counted, RadiusOf, Near
<1>12. KnnInv'
  BY <1>1, <1>3, <1>4, <1>7 DEF SearchInv, KnnInv, radius
<1>13. TeamInv' /\ FilledInv'
  BY <1>1, <1>3 DEF TeamInv, FilledInv
<1>14. SizedInv'
  BY <1>1, <1>3 DEF SearchInv, SizedInv
<1>15. EndInv'
  <2>1. phase' = "aborted" /\ disciplined' => \E j \in Targets : TooFar(epsilons[j])'
    BY <1>3, <1>7 DEF TooFar
  <2>2. QED
    BY <1>1, <1>3, <1>5, <2>1 DEF SearchInv, EndInv, DebugCheckProtects
<1>16. QED
  BY <1>8, <1>9, <1>10, <1>11, <1>12, <1>13, <1>14, <1>15 DEF SearchInv

LEMMA KnnEndsInv == SearchInv /\ KnnEnds => SearchInv'
<1> SUFFICES ASSUME SearchInv, KnnEnds PROVE SearchInv'
  OBVIOUS
<1>1. /\ TypeOK /\ ListsInv /\ CallInv /\ phase = "knn" /\ AllTeamsDone
      /\ call \in Calls /\ call.search.kind = "knn" /\ EndInv /\ PreparedInv /\ KnnInv
      /\ UNCHANGED <<call, disciplined, overran>>
  BY DEF SearchInv, CallInv, KnnEnds
<1>2. PICK c \in Calls : c = call
  BY <1>1
<1>3. /\ disciplined' \in BOOLEAN /\ overran' \subseteq {"lists", "scratch"}
      /\ call' = c /\ (c.dry => "lists" \notin overran')
      /\ disciplined' => ~ c.dry /\ Prepared(c.search) /\ EnoughSources
  BY <1>1, <1>2 DEF TypeOK, CallInv, EndInv, PreparedInv, Prepared, Enough, EnoughSources
<1>4. \A i \in Targets :
        epsilons[i] = KnnRadius(src, trg[i], c.search.needed, c.search.multiplier)
  BY <1>1, <1>2 DEF KnnInv, RadiusFromKnn, AllTeamsDone
<1>5. CASE Throw
  <2>1. DebugCheckProtects'
    BY <1>1, <1>5 DEF EndInv, DebugCheckProtects, Throw, fixed
  <2>2. disciplined' => ~ Fits(call.dry)
    BY <1>3, <1>5, <1>2 DEF KnnEnds, EnterRadius, Throw, RadiusBegins
  <2>3. Extent \in Nat /\ Total(number_of_neighbors_list) \in Nat
    BY <1>1, ListsFacts, CountFacts
  <2>4. disciplined' => ~ c.dry /\ Extent < Total(number_of_neighbors_list)
    BY <1>2, <1>3, <2>2, <2>3 DEF Fits
  <2>5. call' \in Calls /\ (call'.dry => "lists" \notin overran')
    BY <1>3
  <2>6. QED
    BY <1>3, <1>5, <2>1, <2>4, <2>5, ThrowInv
<1>6. CASE EnoughSources /\ Fits(c.dry) /\ RadiusBegins(c.dry)
  <2>1. DebugCheckProtects'
    BY <1>1, <1>6 DEF EndInv, DebugCheckProtects, RadiusBegins, fixed
  <2>2. NumTargets = 0 \/ KnnFound(src, c.search.needed) >= c.search.needed
    BY <1>2, <1>6 DEF EnoughSources
  <2>3. QED
    BY <1>3, <1>4, <1>6, <2>1, <2>2, RadiusBeginsInv
<1>7. QED
  BY <1>2, <1>5, <1>6 DEF KnnEnds, EnterRadius

(* The cells of row i, placed by the counts, are in the part of the array  *)
(* that the total is checked for, and rows do not overlap.                 *)
LEMMA CellsFit ==
  ASSUME NEW num \in [Targets -> Nat], NEW e \in Nat, Total(num) <= e, NEW i \in Targets
  PROVE  /\ RowOffsets(num, NumTargets)[i] \in Nat
         /\ RowOffsets(num, NumTargets)[i] = PrefixSum(num, NumTargets)[i]
         /\ \A c \in Int : RowOffsets(num, NumTargets)[i] <= c
                           /\ c <= RowOffsets(num, NumTargets)[i] + num[i] - 1 => c \in 0..e-1
<1>1. num \in [0..NumTargets-1 -> Nat] /\ NumTargets \in Nat /\ i \in 0..NumTargets-1
  BY NumTargetsAssumption DEF Targets
<1>2. Total(num) \in Nat /\ RowOffsets(num, NumTargets)[i] \in Nat /\ num[i] \in Nat
  BY CountsType
<1>3. Row(RowOffsets(num, NumTargets), num, i) \subseteq 0..Total(num)-1
  BY <1>1, RowsFitTotal DEF Total
<1>4. RowOffsets(num, NumTargets)[i] = PrefixSum(num, NumTargets)[i]
  BY <1>1 DEF RowOffsets
<1>5. QED
  BY <1>2, <1>3, <1>4 DEF Row

LEMMA CellsApart ==
  ASSUME NEW num \in [Targets -> Nat], NEW i \in Targets, NEW j \in Targets, i # j,
         NEW c \in Int,
         PrefixSum(num, NumTargets)[j] <= c, c <= PrefixSum(num, NumTargets)[j] + num[j] - 1
  PROVE  ~ (RowOffsets(num, NumTargets)[i] <= c
            /\ c <= RowOffsets(num, NumTargets)[i] + num[i] - 1)
<1>1. /\ num \in [0..NumTargets-1 -> Nat] /\ NumTargets \in Nat
      /\ i \in 0..NumTargets-1 /\ j \in 0..NumTargets-1
  BY NumTargetsAssumption DEF Targets
<1>2. Row(RowOffsets(num, NumTargets), num, i)
        \cap Row(RowOffsets(num, NumTargets), num, j) = {}
  BY <1>1, RowsDisjoint
<1>3. RowOffsets(num, NumTargets)[j] = PrefixSum(num, NumTargets)[j]
  BY <1>1 DEF RowOffsets
<1>4. RowOffsets(num, NumTargets)[i] \in Nat /\ RowOffsets(num, NumTargets)[j] \in Nat
  BY CountsType
<1>5. num[i] \in Nat /\ num[j] \in Nat
  OBVIOUS
<1>6. QED
  BY <1>2, <1>3, <1>4, <1>5 DEF Row

(* What a team of the radius kernel finds before it searches.              *)
LEMMA RadiusTeamFacts ==
  ASSUME SearchInv, NEW i \in Targets, RadiusTeam(i)
  PROVE  /\ TypeOK /\ ListsInv /\ CallInv /\ phase = "radius" /\ outcome = "none"
         /\ team[i] = "todo" /\ call \in Calls /\ call.search \in Searches
         /\ call.dry \in BOOLEAN
         /\ SearchRadius(i) \in Nat
         /\ NeighborsFound(i, SearchRadius(i)) \in 0..Cardinality(Sources)
         /\ IsFiniteSet(Within(src, trg[i], SearchRadius(i)))
         /\ Within(src, trg[i], SearchRadius(i)) \subseteq Sources
         /\ call.search.kind = "knn" => SearchRadius(i) = epsilons[i]
         /\ disciplined => /\ ~ call.dry /\ Prepared(call.search)
                           /\ epsilons[i] = SearchRadius(i)
                           /\ number_of_neighbors_list[i] = NeighborsFound(i, SearchRadius(i))
<1>1. /\ TypeOK /\ ListsInv /\ CallInv /\ phase = "radius" /\ outcome = "none"
      /\ team[i] = "todo" /\ call \in Calls /\ PreparedInv
  BY DEF SearchInv, CallInv, RadiusTeam
<1>2. /\ call.search \in Searches /\ call.dry \in BOOLEAN /\ call.search.uniform \in Nat
      /\ call.search.kind = "knn" => call.search.uniform = 0
  BY <1>1, CallFacts, SearchFacts
<1>3. SearchRadius(i) \in Nat
  BY <1>1, <1>2 DEF SearchRadius, TypeOK
<1>4. /\ IsFiniteSet(Within(src, trg[i], SearchRadius(i)))
      /\ Within(src, trg[i], SearchRadius(i)) \subseteq Sources
      /\ Cardinality(Within(src, trg[i], SearchRadius(i))) \in 0..Cardinality(Sources)
  BY <1>1, SiteFacts, WithinType DEF Sources
<1>5. call.search.kind = "knn" => SearchRadius(i) = epsilons[i]
  BY <1>2 DEF SearchRadius
<1>6. disciplined => ~ call.dry /\ Prepared(call.search)
  BY <1>1 DEF CallInv, PreparedInv
<1>7. disciplined => epsilons[i] = SearchRadius(i)
  BY <1>2, <1>6 DEF Prepared, Counted, RadiusOf, SearchRadius
<1>8. disciplined => number_of_neighbors_list[i] = NeighborsFound(i, SearchRadius(i))
  BY <1>6, <1>7 DEF Prepared, Counted, Near, NeighborsFound
<1>9. QED
  BY <1>1, <1>2, <1>3, <1>4, <1>5, <1>6, <1>7, <1>8 DEF NeighborsFound

LEMMA RadiusTeamTooFarInv ==
  ASSUME SearchInv, NEW i \in Targets, RadiusTeam(i), TooFar(SearchRadius(i))
  PROVE  SearchInv'
<1> USE DEF fixed, sites
<1> DEFINE radius == SearchRadius(i)
<1>1. /\ TypeOK /\ ListsInv /\ CallInv /\ phase = "radius" /\ outcome = "none"
      /\ radius \in Nat
      /\ disciplined => epsilons[i] = radius
      /\ call.search.kind = "knn" => radius = epsilons[i]
      /\ TooFar(radius)
  BY RadiusTeamFacts
<1>2. /\ phase' = "aborted" /\ epsilons' = [epsilons EXCEPT ![i] = radius]
      /\ UNCHANGED <<number_of_neighbors_list, team, found, indices, overran>>
      /\ UNCHANGED <<fixed, neighbor_lists, call, row_offsets, storage, outcome,
                     result, prepared, disciplined>>
  BY DEF RadiusTeam
<1> HIDE DEF radius
<1>3. epsilons' \in [Targets -> Nat] /\ epsilons'[i] = radius
      /\ (disciplined => epsilons' = epsilons)
  BY <1>1, <1>2 DEF TypeOK
<1>4. ListsInv'
  BY <1>1, <1>2 DEF ListsInv, Sources
<1>5. TypeOK'
  BY <1>1, <1>2, <1>3 DEF TypeOK, Extent, Sources
<1>6. CallInv'
  BY <1>1, <1>2 DEF CallInv
<1>7. PreparedInv'
  BY <1>1, <1>2, <1>3 DEF SearchInv, PreparedInv, Prepared, Enough, Counted, RadiusOf, Near
<1>8. KnnInv' /\ TeamInv' /\ SizedInv' /\ FilledInv'
  BY <1>1, <1>2 DEF KnnInv, TeamInv, SizedInv, FilledInv
<1>9. EndInv'
  <2>1. TooFar(epsilons[i])'
    BY <1>1, <1>2, <1>3 DEF TooFar
  <2>2. QED
    BY <1>1, <1>2, <2>1 DEF SearchInv, EndInv, DebugCheckProtects
<1>10. QED
  BY <1>4, <1>5, <1>6, <1>7, <1>8, <1>9 DEF SearchInv

LEMMA RadiusTeamFindsInv ==
  ASSUME SearchInv, NEW i \in Targets, RadiusTeam(i), ~ TooFar(SearchRadius(i))
  PROVE  SearchInv'
<1> USE DEF fixed, sites
<1> DEFINE radius == SearchRadius(i)
           near   == Within(src, trg[i], radius)
           n      == NeighborsFound(i, radius)
<1>1. /\ TypeOK /\ ListsInv /\ CallInv /\ phase = "radius" /\ outcome = "none"
      /\ team[i] = "todo" /\ call \in Calls /\ call.search \in Searches
      /\ call.dry \in BOOLEAN
      /\ radius \in Nat /\ n \in 0..Cardinality(Sources)
      /\ IsFiniteSet(near) /\ near \subseteq Sources
      /\ call.search.kind = "knn" => radius = epsilons[i]
      /\ disciplined => /\ ~ call.dry /\ Prepared(call.search)
                        /\ epsilons[i] = radius
                        /\ number_of_neighbors_list[i] = n
  BY RadiusTeamFacts
<1>2. PICK q \in StoredIndices(src, trg[i], near, storage) :
        indices' = [indices EXCEPT ![i] = q]
  BY DEF RadiusTeam
<1>3. /\ epsilons' = [epsilons EXCEPT ![i] = radius]
      /\ found' = [found EXCEPT ![i] = n]
      /\ number_of_neighbors_list' =
           IF StoresCounts THEN [number_of_neighbors_list EXCEPT ![i] = n]
           ELSE number_of_neighbors_list
      /\ phase' = IF CountChanged(i, n) THEN "aborted" ELSE "radius"
      /\ team' = [team EXCEPT ![i] = IF call.dry THEN "done" ELSE "fill"]
      /\ overran' = overran \cup Beyond("scratch", storage = 0 /\ n > 0)
      /\ UNCHANGED <<fixed, neighbor_lists, call, row_offsets, storage, outcome,
                     result, prepared, disciplined>>
  BY DEF RadiusTeam
<1>4. n = Cardinality(near)
  BY DEF NeighborsFound
<1>5. q \in Seq(Sources)
  <2>1. storage \in Nat
    BY <1>1 DEF TypeOK
  <2>2. SmallerOf(Cardinality(near), storage) \in Nat
        /\ q \in [1..SmallerOf(Cardinality(near), storage) -> near]
    BY <1>1, <1>2, <2>1, StoredType
  <2>3. QED
    BY <1>1, <2>2
<1>a. near = Within(src, trg[i], radius)
  OBVIOUS
<1> HIDE DEF radius, near, n
<1>6. /\ epsilons' \in [Targets -> Nat] /\ epsilons'[i] = radius
      /\ found' \in [Targets -> 0..Cardinality(Sources)] /\ found'[i] = n
      /\ indices' \in [Targets -> Seq(Sources)] /\ indices'[i] = q
      /\ number_of_neighbors_list' \in [Targets -> 0..Cardinality(Sources)]
      /\ StoresCounts => number_of_neighbors_list'[i] = n
      /\ team' \in [Targets -> {"todo", "fill", "done"}]
      /\ team'[i] = IF call.dry THEN "done" ELSE "fill"
      /\ overran' \subseteq {"lists", "scratch"}
      /\ "lists" \in overran' <=> "lists" \in overran
  BY <1>1, <1>2, <1>3, <1>5 DEF TypeOK, Beyond
<1>7. \A j \in Targets \ {i} :
        /\ epsilons'[j] = epsilons[j] /\ found'[j] = found[j] /\ indices'[j] = indices[j]
        /\ number_of_neighbors_list'[j] = number_of_neighbors_list[j]
        /\ team'[j] = team[j]
  BY <1>1, <1>2, <1>3 DEF TypeOK
<1>8. disciplined => epsilons' = epsilons
                     /\ number_of_neighbors_list' = number_of_neighbors_list
  BY <1>1, <1>3 DEF TypeOK
<1>9. call.search.kind = "knn" => epsilons' = epsilons
  BY <1>1, <1>3 DEF TypeOK
<1>10. Near(i)' = near /\ \A j \in Targets \ {i} : Near(j)' = Near(j)
  BY <1>a, <1>3, <1>6, <1>7 DEF Near
<1>11. StoresCounts' = StoresCounts
  BY <1>3 DEF StoresCounts
<1>12. ~ StoresCounts => number_of_neighbors_list' = number_of_neighbors_list
  BY <1>3
<1>13. ListsInv'
  BY <1>1, <1>3 DEF ListsInv, Sources
<1>14. TypeOK'
  BY <1>1, <1>3, <1>6 DEF TypeOK, Extent, Sources
<1>15. CallInv'
  BY <1>1, <1>3 DEF CallInv
<1>16. PreparedInv'
  <2>1. phase' # "idle" /\ outcome' = "none"
    BY <1>1, <1>3
  <2>2. disciplined => Prepared(call.search)'
    BY <1>1, <1>3, <1>8 DEF Prepared, Enough, Counted, RadiusOf, Near
  <2>3. QED
    BY <1>3, <2>1, <2>2 DEF PreparedInv
<1>17. KnnInv'
  BY <1>1, <1>3, <1>9 DEF SearchInv, KnnInv, EnoughSources, RadiusFromKnn
<1>18. TeamInv'
  <2> SUFFICES ASSUME phase' = "radius", NEW j \in Targets
               PROVE  /\ call'.dry => /\ team'[j] # "fill"
                                      /\ team'[j] = "done" => Counted(call.search, j)'
                      /\ team'[j] = "fill" =>
                           /\ found'[j] = Cardinality(Near(j)')
                           /\ indices'[j] \in StoredIndices(src', trg'[j], Near(j)', storage')
                           /\ debug' /\ ~ StoresCounts' =>
                                found'[j] = number_of_neighbors_list'[j]
    BY DEF TeamInv
  <2>1. CASE j = i
    <3>1. ~ CountChanged(i, n)
      BY <1>3
    <3>2. call.dry => Counted(call.search, i)'
      <4>1. call.dry => StoresCounts
        BY DEF StoresCounts
      <4>2. RadiusOf(call.search, i)' = radius
        <5>1. CASE call.search.kind = "knn"
          <6>1. radius = RadiusFromKnn(i) /\ call.search.uniform = 0
            BY <1>1, <5>1, SearchFacts DEF SearchInv, KnnInv
          <6>2. QED
            BY <1>3, <5>1, <6>1 DEF RadiusOf, RadiusFromKnn
        <5>2. CASE call.search.kind # "knn"
          BY <1>3, <1>6, <5>2 DEF RadiusOf, radius, SearchRadius
        <5>3. QED
          BY <5>1, <5>2
      <4>3. QED
        BY <1>3, <1>4, <1>6, <1>10, <4>1, <4>2 DEF Counted
    <3>3. ~ call.dry =>
             /\ found'[i] = Cardinality(Near(i)')
             /\ indices'[i] \in StoredIndices(src', trg'[i], Near(i)', storage')
             /\ debug' /\ ~ StoresCounts' => found'[i] = number_of_neighbors_list'[i]
      BY <1>2, <1>3, <1>4, <1>6, <1>10, <1>11, <1>12, <3>1 DEF CountChanged
    <3>4. QED
      BY <1>1, <1>3, <1>6, <2>1, <3>2, <3>3
  <2>2. CASE j # i
    <3>1. /\ call.dry => team[j] # "fill" /\ (team[j] = "done" => Counted(call.search, j))
          /\ team[j] = "fill" =>
               /\ found[j] = Cardinality(Near(j))
               /\ indices[j] \in StoredIndices(src, trg[j], Near(j), storage)
               /\ debug /\ ~ StoresCounts => found[j] = number_of_neighbors_list[j]
      BY <1>1 DEF SearchInv, TeamInv
    <3>2. Counted(call.search, j) => Counted(call.search, j)'
      BY <1>3, <1>7, <1>10, <2>2 DEF Counted, RadiusOf
    <3>3. QED
      BY <1>3, <1>7, <1>10, <1>11, <2>2, <3>1, <3>2
  <2>3. QED
    BY <2>1, <2>2
<1>19. SizedInv'
  BY <1>1, <1>3, <1>8, <1>11, <1>12 DEF SearchInv, SizedInv, Extent
<1>20. FilledInv'
  <2> SUFFICES ASSUME disciplined, NEW j \in Targets, team'[j] = "done" PROVE RowExact(j)'
    BY <1>1, <1>3 DEF FilledInv
  <2>1. j # i
    BY <1>1, <1>6
  <2>2. RowExact(j)
    BY <1>1, <1>7, <2>1 DEF SearchInv, FilledInv
  <2>3. RowOf(j)' = RowOf(j) /\ Near(j)' = Near(j)
    BY <1>3, <1>8 DEF RowOf, Near
  <2>4. QED
    BY <1>3, <1>8, <2>2, <2>3 DEF RowExact
<1>21. EndInv'
  <2>1. disciplined => phase' = "radius"
    BY <1>1, <1>3 DEF CountChanged
  <2>2. QED
    BY <1>1, <1>3, <1>6, <2>1 DEF SearchInv, EndInv, DebugCheckProtects
<1>22. QED
  BY <1>13, <1>14, <1>15, <1>16, <1>17, <1>18, <1>19, <1>20, <1>21 DEF SearchInv

(* A team that has found what the counts say writes exactly its own cells; *)
(* a debug build makes sure of it when the counts are not rewritten.       *)
LEMMA FillRowFacts ==
  ASSUME SearchInv, NEW i \in Targets, phase = "radius", team[i] = "fill"
  PROVE  /\ TypeOK /\ ListsInv /\ CallInv /\ ~ call.dry /\ outcome = "none"
         /\ found[i] = Cardinality(Near(i)) /\ found[i] \in Nat
         /\ SmallerOf(found[i], storage) \in Nat
         /\ indices[i] \in [1..SmallerOf(found[i], storage) -> Near(i)]
         /\ Near(i) \subseteq Sources
         /\ disciplined =>
              /\ Prepared(call.search)
              /\ found[i] = number_of_neighbors_list[i] /\ found[i] <= storage
         /\ (debug /\ call.search.uniform = 0) \/ disciplined =>
              /\ row_offsets = RowOffsets(number_of_neighbors_list, NumTargets)
              /\ \A c \in row_offsets[i]..(row_offsets[i] + found[i] - 1) : c \in 0..Extent-1
<1>1. /\ TypeOK /\ ListsInv /\ CallInv /\ PreparedInv /\ TeamInv /\ SizedInv
      /\ call \in Calls /\ outcome = "none"
  BY DEF SearchInv, CallInv
<1>2. /\ ~ call.dry /\ found[i] = Cardinality(Near(i))
      /\ indices[i] \in StoredIndices(src, trg[i], Near(i), storage)
      /\ debug /\ ~ StoresCounts => found[i] = number_of_neighbors_list[i]
  BY <1>1 DEF TeamInv
<1>3. Near(i) \in SUBSET Sources /\ IsFiniteSet(Near(i)) /\ Cardinality(Near(i)) \in Nat
  BY <1>1, NearFacts
<1>4. /\ SmallerOf(found[i], storage) \in Nat
      /\ indices[i] \in [1..SmallerOf(found[i], storage) -> Near(i)]
  <2>1. storage \in Nat
    BY <1>1 DEF TypeOK
  <2>2. QED
    BY <1>2, <1>3, <2>1, StoredType
<1>5. disciplined => Prepared(call.search) /\ found[i] = number_of_neighbors_list[i]
  BY <1>1, <1>2 DEF PreparedInv, Prepared, Counted
<1>6. disciplined => found[i] <= storage
  BY <1>1, <1>5, CountFacts DEF SizedInv
<1>7. (debug /\ call.search.uniform = 0) \/ disciplined =>
        /\ row_offsets = RowOffsets(number_of_neighbors_list, NumTargets)
        /\ \A c \in row_offsets[i]..(row_offsets[i] + found[i] - 1) : c \in 0..Extent-1
  <2> SUFFICES ASSUME (debug /\ call.search.uniform = 0) \/ disciplined
               PROVE  /\ row_offsets = RowOffsets(number_of_neighbors_list, NumTargets)
                      /\ \A c \in row_offsets[i]..(row_offsets[i] + found[i] - 1) :
                           c \in 0..Extent-1
    OBVIOUS
  <2>1. disciplined \/ ~ StoresCounts
    BY <1>2 DEF StoresCounts
  <2>2. /\ row_offsets = RowOffsets(number_of_neighbors_list, NumTargets)
        /\ Total(number_of_neighbors_list) <= Extent
    BY <1>1, <1>2, <2>1 DEF SizedInv
  <2>3. found[i] = number_of_neighbors_list[i]
    BY <1>2, <1>5, <2>1
  <2>4. Extent \in Nat /\ number_of_neighbors_list \in [Targets -> Nat]
    BY <1>1, ListsFacts, CountFacts
  <2>5. /\ row_offsets[i] \in Nat
        /\ \A c \in Int : row_offsets[i] <= c
                          /\ c <= row_offsets[i] + number_of_neighbors_list[i] - 1
                          => c \in 0..Extent-1
    BY <2>2, <2>4, CellsFit
  <2>6. QED
    BY <2>2, <2>3, <2>4, <2>5
<1>8. found[i] \in Nat
  BY <1>2, <1>3
<1>9. QED
  BY <1>1, <1>2, <1>3, <1>4, <1>5, <1>6, <1>7, <1>8

LEMMA FillRowInv ==
  ASSUME SearchInv, NEW i \in Targets, FillRow(i)
  PROVE  SearchInv'
<1> USE DEF fixed, sites
<1> DEFINE cells == row_offsets[i] .. (row_offsets[i] + found[i] - 1)
           kept  == row_offsets[i] .. (row_offsets[i] + SmallerOf(found[i], storage) - 1)
<1>1. phase = "radius" /\ team[i] = "fill"
  BY DEF FillRow
<1>2. PICK other \in DOMAIN src :
        neighbor_lists' = [c \in DOMAIN neighbor_lists |->
             IF c \in kept THEN indices[i][c - row_offsets[i] + 1]
             ELSE IF c \in cells THEN other ELSE neighbor_lists[c]]
  BY DEF FillRow
<1>3. /\ team' = [team EXCEPT ![i] = "done"]
      /\ overran' = overran \cup Beyond("lists", ~ (cells \subseteq DOMAIN neighbor_lists))
      /\ UNCHANGED <<fixed, number_of_neighbors_list, epsilons, phase, call,
                     row_offsets, storage, found, indices, outcome, result,
                     prepared, disciplined>>
  BY DEF FillRow
<1>4. /\ TypeOK /\ ListsInv /\ CallInv /\ ~ call.dry /\ outcome = "none"
      /\ found[i] = Cardinality(Near(i)) /\ found[i] \in Nat
      /\ SmallerOf(found[i], storage) \in Nat
      /\ indices[i] \in [1..SmallerOf(found[i], storage) -> Near(i)]
      /\ Near(i) \subseteq Sources
  BY <1>1, FillRowFacts
<1>5. disciplined =>
        /\ Prepared(call.search)
        /\ found[i] = number_of_neighbors_list[i] /\ found[i] <= storage
  BY <1>1, FillRowFacts
<1>6. (debug /\ call.search.uniform = 0) \/ disciplined =>
        /\ row_offsets = RowOffsets(number_of_neighbors_list, NumTargets)
        /\ \A c \in cells : c \in 0..Extent-1
  BY <1>1, FillRowFacts
<1>7. Extent \in Nat /\ neighbor_lists \in [0..Extent-1 -> Sources]
  BY <1>4, ListsFacts
<1>8. row_offsets[i] \in Nat /\ storage \in Nat
  BY <1>4 DEF TypeOK
<1>9. neighbor_lists' \in [0..Extent-1 -> Sources]
  <2>1. \A c \in kept : indices[i][c - row_offsets[i] + 1] \in Sources
    <3> SUFFICES ASSUME NEW c \in kept PROVE indices[i][c - row_offsets[i] + 1] \in Sources
      OBVIOUS
    <3>1. c - row_offsets[i] + 1 \in 1..SmallerOf(found[i], storage)
      BY <1>4, <1>8
    <3>2. QED
      BY <1>4, <3>1
  <2>2. other \in Sources
    BY DEF Sources
  <2> HIDE DEF kept, cells
  <2>3. QED
    BY <1>2, <1>7, <2>1, <2>2
<1>10. Extent' = Extent
  BY <1>7, <1>9, ExtentFacts DEF Extent
<1>11. ListsInv'
  BY <1>3, <1>7, <1>9 DEF ListsInv, Sources
<1>12. /\ team' \in [Targets -> {"todo", "fill", "done"}]
       /\ \A j \in Targets \ {i} : team'[j] = team[j]
  BY <1>3, <1>4 DEF TypeOK
<1>13. overran' \subseteq {"lists", "scratch"}
       /\ ("lists" \in overran' => "lists" \in overran \/ ~ (cells \subseteq DOMAIN neighbor_lists))
  BY <1>3, <1>4 DEF TypeOK, Beyond
<1>14. TypeOK'
  BY <1>3, <1>4, <1>9, <1>10, <1>12, <1>13 DEF TypeOK, Sources
<1> HIDE DEF cells, kept
<1>15. CallInv'
  BY <1>3, <1>4 DEF CallInv
<1>16. PreparedInv' /\ KnnInv'
  BY <1>1, <1>3 DEF SearchInv, PreparedInv, KnnInv, Prepared, Enough, Counted, RadiusOf, Near,
         EnoughSources, RadiusFromKnn
<1>17. TeamInv'
  BY <1>1, <1>3, <1>4, <1>12 DEF SearchInv, TeamInv, Counted, RadiusOf, Near, StoresCounts
<1>18. SizedInv'
  BY <1>3, <1>10 DEF SearchInv, SizedInv, StoresCounts
<1>19. FilledInv'
  <2> SUFFICES ASSUME disciplined, NEW j \in Targets, team'[j] = "done" PROVE RowExact(j)'
    BY <1>3, <1>4 DEF FilledInv
  <2> DEFINE num == number_of_neighbors_list
             offset == PrefixSum(num, NumTargets)
  <2>1. /\ num \in [Targets -> Nat] /\ Prepared(call.search)
        /\ row_offsets = RowOffsets(num, NumTargets) /\ Total(num) <= Extent
    BY <1>1, <1>4, <1>5, <1>6, CountFacts DEF SearchInv, SizedInv
  <2>2. /\ offset[j] \in Nat /\ row_offsets[i] = offset[i]
        /\ \A c \in Int : offset[j] <= c /\ c <= offset[j] + num[j] - 1 => c \in 0..Extent-1
    <3>1. /\ RowOffsets(num, NumTargets)[j] \in Nat
          /\ RowOffsets(num, NumTargets)[j] = offset[j]
          /\ \A c \in Int : RowOffsets(num, NumTargets)[j] <= c
                            /\ c <= RowOffsets(num, NumTargets)[j] + num[j] - 1 => c \in 0..Extent-1
      BY <1>7, <2>1, CellsFit
    <3>2. RowOffsets(num, NumTargets)[i] = offset[i]
      BY <1>7, <2>1, CellsFit
    <3>3. QED
      BY <2>1, <3>1, <3>2
  <2>3. num[j] = Cardinality(Near(j))
    BY <2>1 DEF Prepared, Counted
  <2>4. Near(j)' = Near(j) /\ num' = num /\ src' = src /\ trg' = trg
    BY <1>3 DEF Near
  <2>5. SmallerOf(found[i], storage) = found[i]
    BY <1>4, <1>5, <1>8 DEF SmallerOf
  <2>6. cells = kept
    BY <2>5 DEF cells, kept
  <2>7. CASE j = i
    <3> DEFINE q == indices[i]
    <3>1. /\ q \in [1..num[i] -> Near(i)]
          /\ \A s \in Near(i) : \E k \in 1..num[i] : q[k] = s
          /\ \A s \in Near(i) : Distance(src[q[1]], trg[i]) <= Distance(src[s], trg[i])
      <4>1. IsFiniteSet(Near(i)) /\ q \in StoredIndices(src, trg[i], Near(i), storage)
        BY <1>1, <1>4, NearFacts DEF SearchInv, TeamInv
      <4>2. Cardinality(Near(i)) <= storage /\ num[i] = Cardinality(Near(i))
        BY <1>4, <1>5
      <4> HIDE DEF q, num
      <4>3. /\ q \in [1..Cardinality(Near(i)) -> Near(i)]
            /\ \A s \in Near(i) : \E k \in 1..Cardinality(Near(i)) : q[k] = s
            /\ \A s \in Near(i) : Distance(src[q[1]], trg[i]) <= Distance(src[s], trg[i])
        BY <1>8, <4>1, <4>2, StoredAll
      <4>4. QED
        BY <4>2, <4>3
    <3>2. \A k \in 1..num[i] : neighbor_lists'[offset[i] + k - 1] = q[k]
      <4> SUFFICES ASSUME NEW k \in 1..num[i]
                   PROVE  neighbor_lists'[offset[i] + k - 1] = q[k]
        OBVIOUS
      <4>1. offset[i] + k - 1 \in Int /\ offset[i] <= offset[i] + k - 1
            /\ offset[i] + k - 1 <= offset[i] + num[i] - 1 /\ num[i] \in Nat
        BY <2>1, <2>2, <2>7
      <4>2. offset[i] + k - 1 \in 0..Extent-1
        BY <2>2, <2>7, <4>1
      <4>3. offset[i] + k - 1 \in kept
        BY <1>5, <2>2, <2>5, <4>1 DEF kept
      <4>4. (offset[i] + k - 1) - row_offsets[i] + 1 = k
        BY <2>2, <2>7
      <4>5. QED
        BY <1>2, <1>7, <4>2, <4>3, <4>4
    <3>3. RowOf(i)' = [k \in 1..num[i] |-> q[k]]
      BY <1>3, <3>2 DEF RowOf
    <3>4. RowOf(i)' = q
      BY <3>1, <3>3
    <3>5. {q[k] : k \in DOMAIN q} = Near(i)
      BY <3>1
    <3> HIDE DEF q, num, offset
    <3>6. QED
      BY <2>3, <2>4, <2>7, <3>1, <3>4, <3>5 DEF RowExact, num
  <2>8. CASE j # i
    <3>1. RowExact(j)
      BY <1>1, <1>12, <2>8 DEF SearchInv, FilledInv
    <3>2. \A k \in 1..num[j] :
            neighbor_lists'[offset[j] + k - 1] = neighbor_lists[offset[j] + k - 1]
      <4> SUFFICES ASSUME NEW k \in 1..num[j]
                   PROVE  neighbor_lists'[offset[j] + k - 1] = neighbor_lists[offset[j] + k - 1]
        OBVIOUS
      <4> DEFINE c == offset[j] + k - 1
      <4>1. c \in Int /\ offset[j] <= c /\ c <= offset[j] + num[j] - 1 /\ num[j] \in Nat
        BY <2>1, <2>2
      <4> HIDE DEF c
      <4>2. c \in 0..Extent-1
        BY <2>2, <4>1
      <4>3. ~ (row_offsets[i] <= c /\ c <= row_offsets[i] + num[i] - 1)
        BY <2>1, <2>8, <4>1, CellsApart
      <4>4. c \notin cells
        BY <1>5, <1>8, <4>1, <4>3 DEF cells
      <4>5. neighbor_lists'[c] = neighbor_lists[c]
        BY <1>2, <1>7, <2>6, <4>2, <4>4
      <4>6. QED
        BY <4>5 DEF c
    <3>3. RowOf(j)' = RowOf(j)
      BY <1>3, <3>2 DEF RowOf
    <3>4. QED
      BY <2>4, <3>1, <3>3 DEF RowExact
  <2>9. QED
    BY <2>7, <2>8
<1>20. EndInv'
  <2>1. DebugCheckProtects'
    <3> SUFFICES ASSUME debug, "lists" \in overran' PROVE call.search.uniform > 0
      BY <1>3 DEF DebugCheckProtects
    <3>1. call.search.uniform \in Nat
      BY <1>1, <1>4, CallFacts, SearchFacts DEF CallInv
    <3>2. CASE "lists" \in overran
      BY <3>2 DEF SearchInv, EndInv, DebugCheckProtects
    <3>3. CASE ~ (cells \subseteq DOMAIN neighbor_lists)
      BY <1>6, <1>7, <3>1, <3>3
    <3>4. QED
      BY <1>13, <3>2, <3>3
  <2>2. QED
    BY <1>1, <1>3, <1>4, <2>1 DEF EndInv
<1>21. QED
  BY <1>11, <1>14, <1>15, <1>16, <1>17, <1>18, <1>19, <1>20 DEF SearchInv

LEMMA RadiusEndsInv == SearchInv /\ RadiusEnds => SearchInv'
<1> SUFFICES ASSUME SearchInv, RadiusEnds PROVE SearchInv'
  OBVIOUS
<1> USE DEF RadiusEnds, LocalsGone, TeamsGone, user, fixed, sites
<1>1. /\ TypeOK /\ ListsInv /\ CallInv /\ PreparedInv /\ call \in Calls
      /\ call.search \in Searches /\ call.dry \in BOOLEAN /\ phase = "radius"
      /\ AllTeamsDone
  BY CallFacts DEF SearchInv, CallInv
<1>2. ListsInv'
  BY <1>1 DEF ListsInv, Sources
<1>3. TypeOK'
  <2>1. indices' \in [Targets -> Seq(Sources)]
    OBVIOUS
  <2>2. 0 \in 0..Cardinality(Sources)
    BY <1>1, CloudFacts DEF TypeOK, IsCloud, Sources
  <2>3. row_offsets' \in [Targets -> Nat] /\ storage' \in Nat
        /\ found' \in [Targets -> 0..Cardinality(Sources')]
        /\ team' \in [Targets -> {"todo", "fill", "done"}]
    BY <2>2 DEF Sources
  <2>4. result' \in Nat
    BY <1>1, CountFacts
  <2>5. QED
    BY <1>1, <2>1, <2>3, <2>4 DEF TypeOK, Extent, Sources
<1>4. CallInv'
  BY <1>1 DEF CallInv
<1>5. PreparedInv'
  <2>1. call.dry => Prepared(call.search)
    <3>1. call.dry => \A i \in Targets : Counted(call.search, i)
      BY <1>1 DEF SearchInv, TeamInv, AllTeamsDone
    <3>2. Enough(call.search)
      BY <1>1 DEF SearchInv, KnnInv, Enough, EnoughSources
    <3>3. QED
      BY <3>1, <3>2 DEF Prepared
  <2>2. disciplined => Prepared(call.search)
    BY <1>1 DEF PreparedInv
  <2>3. prepared' # NoSearch => Prepared(prepared)'
    BY <2>1, <2>2 DEF Prepared, Enough, Counted, RadiusOf, Near
  <2>4. QED
    BY <1>1, <2>3 DEF PreparedInv, CallInv
<1>6. KnnInv'
  BY <1>1 DEF SearchInv, KnnInv, EnoughSources, RadiusFromKnn
<1>7. TeamInv' /\ SizedInv'
  BY DEF TeamInv, SizedInv
<1>8. FilledInv'
  <2> SUFFICES ASSUME disciplined, NEW i \in Targets PROVE RowExact(i)'
    BY DEF FilledInv
  <2>1. RowExact(i)
    BY <1>1 DEF SearchInv, FilledInv, AllTeamsDone
  <2>2. RowOf(i)' = RowOf(i) /\ Near(i)' = Near(i)
    BY DEF RowOf, Near
  <2>3. QED
    BY <2>1, <2>2 DEF RowExact
<1>9. EndInv'
  BY <1>1 DEF SearchInv, EndInv, DebugCheckProtects
<1>10. QED
  BY <1>2, <1>3, <1>4, <1>5, <1>6, <1>7, <1>8, <1>9 DEF SearchInv

LEMMA SearchStep == SearchInv /\ [Next]_vars => SearchInv'
<1> SUFFICES ASSUME SearchInv, [Next]_vars PROVE SearchInv'
  OBVIOUS
<1>1. CASE SetEpsilons
  BY <1>1, SetEpsilonsInv
<1>2. CASE ResizeLists
  BY <1>2, ResizeListsInv
<1>3. CASE UserCall
  BY <1>3, CallRadiusInv, CallKnnInv DEF UserCall
<1>4. CASE TeamStep
  <2> SUFFICES ASSUME NEW i \in Targets, KnnTeam(i) \/ RadiusTeam(i) \/ FillRow(i)
               PROVE  SearchInv'
    BY <1>4 DEF TeamStep
  <2>1. CASE RadiusTeam(i)
    BY <2>1, RadiusTeamTooFarInv, RadiusTeamFindsInv
  <2>2. QED
    BY <2>1, KnnTeamInv, FillRowInv
<1>5. CASE KnnEnds
  BY <1>5, KnnEndsInv
<1>6. CASE RadiusEnds
  BY <1>6, RadiusEndsInv
<1>7. CASE UNCHANGED vars
  BY <1>7, StutterInv
<1>8. CASE Stopped
  BY <1>8, StutterInv DEF Stopped
<1>9. QED
  BY <1>1, <1>2, <1>3, <1>4, <1>5, <1>6, <1>7, <1>8 DEF Next

THEOREM SearchAlwaysInv == Spec => []SearchInv
<1>1. QED
  BY SearchInit, SearchStep, PTL DEF Spec

(* The counts, offsets, radii, neighbour indices and entries of the lists  *)
(* have their types for every sequence of calls, failed ones included.     *)
THEOREM SearchTypeCorrect == Spec => []TypeOK
<1>1. SearchInv => TypeOK
  BY DEF SearchInv
<1>2. QED
  BY <1>1, SearchAlwaysInv, PTL

(* A real search that repeats the dry run before it returns exact rows,    *)
(* for any number of targets, whatever the teams' order.                   *)
THEOREM RepetitionExact == Spec => []RepeatedSearchIsExact
<1>1. SearchInv => RepeatedSearchIsExact
  BY DEF SearchInv, FilledInv, RepeatedSearchIsExact
<1>2. QED
  BY <1>1, SearchAlwaysInv, PTL

(* With COMPADRE_DEBUG no search by epsilons writes beyond the lists,      *)
(* whatever radii were stored since the dry run.                           *)
THEOREM DebugProtects == Spec => []DebugCheckProtects
<1>1. SearchInv => DebugCheckProtects
  BY DEF SearchInv, EndInv
<1>2. QED
  BY <1>1, SearchAlwaysInv, PTL

(* The number of sources within the radius of a k-nearest search.          *)
LEMMA KnnSearchFinds ==
  ASSUME LargerRadii, TypeOK, call \in Calls, call.search.kind = "knn", EnoughSources,
         NEW i \in Targets, epsilons[i] = RadiusFromKnn(i)
  PROVE  /\ call.search.needed \in Nat
         /\ Cardinality(Near(i)) \in Nat /\ call.search.needed <= Cardinality(Near(i))
<1> DEFINE s == call.search
<1>1. /\ s \in Searches /\ s.kind = "knn" /\ s.needed \in Nat \ {0}
      /\ s.multiplier \in Nat \ {0} /\ s.multiplier > Scale
  BY CallFacts, SearchFacts DEF LargerRadii
<1>2. IsCloud(src) /\ trg[i] \in Int
  BY SiteFacts
<1>3. KnnFound(src, s.needed) >= s.needed
  <2>1. NumTargets # 0
    BY DEF Targets
  <2>2. QED
    BY <2>1 DEF EnoughSources
<1>4. Cardinality(Within(src, trg[i], KnnRadius(src, trg[i], s.needed, s.multiplier)))
        >= KnnFound(src, s.needed)
  BY <1>1, <1>2, KnnRadiusFinds
<1>5. Near(i) = Within(src, trg[i], KnnRadius(src, trg[i], s.needed, s.multiplier))
  BY DEF Near, RadiusFromKnn
<1>6. KnnFound(src, s.needed) \in Nat /\ Cardinality(Near(i)) \in Nat
  BY <1>1, <1>2, KnnFoundType, NearFacts
<1>7. QED
  BY <1>1, <1>3, <1>4, <1>5, <1>6

(* With multipliers above 1, every k-nearest search that returns has found *)
(* the neighbours that unisolvency needs.                                  *)
THEOREM KnnFindsEnough ==
  ASSUME LargerRadii PROVE Spec => []KnnFindsNeeded
<1>1. SearchInv => KnnFindsNeeded
  <2> SUFFICES ASSUME SearchInv, outcome \in {"dry", "real"}, call.search.kind = "knn",
                      NEW i \in Targets
               PROVE  /\ Cardinality(Near(i)) >= call.search.needed
                      /\ call.dry \/ disciplined =>
                           number_of_neighbors_list[i] >= call.search.needed
    BY DEF KnnFindsNeeded
  <2>1. /\ TypeOK /\ CallInv /\ PreparedInv /\ call \in Calls /\ phase = "idle"
        /\ call.search \in Searches
    BY CallFacts DEF SearchInv, CallInv
  <2>2. EnoughSources /\ epsilons[i] = RadiusFromKnn(i)
    BY DEF SearchInv, KnnInv
  <2>3. /\ call.search.needed \in Nat
        /\ Cardinality(Near(i)) \in Nat /\ call.search.needed <= Cardinality(Near(i))
    BY <2>1, <2>2, KnnSearchFinds
  <2>4. call.dry \/ disciplined => number_of_neighbors_list[i] = Cardinality(Near(i))
    <3> SUFFICES ASSUME call.dry \/ disciplined
                 PROVE  number_of_neighbors_list[i] = Cardinality(Near(i))
      OBVIOUS
    <3>1. prepared = call.search
      BY <2>1 DEF PreparedInv, CallInv
    <3>2. prepared # NoSearch
      BY <2>1, <3>1, SearchFacts
    <3>3. QED
      BY <2>1, <3>2 DEF PreparedInv, Prepared, Counted
  <2>5. QED
    BY <2>3, <2>4
<1>2. QED
  BY <1>1, SearchAlwaysInv, PTL

(* No team of a repeated search has written beyond the lists or its        *)
(* scratch: the longest row of the dry run is at least k, because the      *)
(* radius of its follow-on search keeps the k-th neighbour.                *)
LEMMA ScratchStep ==
  ASSUME LargerRadii, SearchInv, ScratchInv, [Next]_vars
  PROVE  ScratchInv'
<1>1. CASE SetEpsilons
  BY <1>1 DEF SetEpsilons, ScratchInv
<1>2. CASE ResizeLists
  BY <1>2 DEF ResizeLists, ScratchInv
<1>3. CASE UserCall
  BY <1>3 DEF UserCall, CallRadius, CallKnn, Called, ScratchInv
<1>4. CASE KnnEnds \/ RadiusEnds
  BY <1>4 DEF KnnEnds, RadiusEnds, ScratchInv
<1>5. CASE UNCHANGED vars
  BY <1>5 DEF vars, ScratchInv
<1>6. CASE Stopped
  BY <1>6 DEF Stopped, vars, ScratchInv
<1>7. ASSUME NEW i \in Targets, KnnTeam(i) PROVE ScratchInv'
  <2>1. /\ phase = "knn"
        /\ overran' = overran \cup Beyond("scratch", call.search.needed > storage)
        /\ disciplined' = disciplined
    BY <1>7 DEF KnnTeam
  <2> SUFFICES ASSUME disciplined PROVE ~ (call.search.needed > storage)
    BY <2>1 DEF ScratchInv, Beyond
  <2>2. /\ TypeOK /\ call \in Calls /\ call.search.kind = "knn" /\ call.search \in Searches
        /\ Prepared(call.search) /\ call.search.uniform = 0
        /\ storage = MaxNeighbors(number_of_neighbors_list, NumTargets)
    BY <2>1, CallFacts, SearchFacts DEF SearchInv, CallInv, PreparedInv, SizedInv
  <2>3. EnoughSources /\ epsilons[i] = RadiusFromKnn(i)
        /\ number_of_neighbors_list[i] = Cardinality(Near(i))
    BY <2>2 DEF Prepared, Enough, Counted, RadiusOf, EnoughSources, RadiusFromKnn
  <2>4. /\ call.search.needed \in Nat
        /\ Cardinality(Near(i)) \in Nat /\ call.search.needed <= Cardinality(Near(i))
    BY <2>2, <2>3, KnnSearchFinds
  <2>5. storage \in Nat /\ number_of_neighbors_list[i] <= storage
    BY <2>2, CountFacts
  <2>6. QED
    BY <2>3, <2>4, <2>5
<1>8. ASSUME NEW i \in Targets, RadiusTeam(i) PROVE ScratchInv'
  <2> DEFINE n == NeighborsFound(i, SearchRadius(i))
  <2>1. /\ overran' \subseteq overran \cup Beyond("scratch", storage = 0 /\ n > 0)
        /\ disciplined' = disciplined
    BY <1>8 DEF RadiusTeam
  <2>2. disciplined => /\ ~ call.dry /\ Prepared(call.search) /\ phase = "radius"
                       /\ number_of_neighbors_list[i] = n /\ TypeOK
    BY <1>8, RadiusTeamFacts
  <2>3. disciplined => storage \in Nat /\ n <= storage /\ n \in Nat
    <3>1. disciplined => storage = MaxNeighbors(number_of_neighbors_list, NumTargets)
      BY <2>2 DEF SearchInv, SizedInv
    <3>2. TypeOK
      BY DEF SearchInv
    <3>3. QED
      BY <2>2, <3>1, <3>2, CountFacts
  <2> HIDE DEF n
  <2>4. QED
    BY <2>1, <2>3 DEF ScratchInv, Beyond
<1>9. ASSUME NEW i \in Targets, FillRow(i) PROVE ScratchInv'
  <2> DEFINE cells == row_offsets[i] .. (row_offsets[i] + found[i] - 1)
  <2>1. /\ phase = "radius" /\ team[i] = "fill" /\ disciplined' = disciplined
        /\ overran' = overran \cup Beyond("lists", ~ (cells \subseteq DOMAIN neighbor_lists))
    BY <1>9 DEF FillRow
  <2>2. disciplined => \A c \in cells : c \in 0..Extent-1
    BY <2>1, FillRowFacts
  <2>3. neighbor_lists \in [0..Extent-1 -> Sources]
    BY ListsFacts DEF SearchInv
  <2> HIDE DEF cells
  <2>4. QED
    BY <2>1, <2>2, <2>3 DEF ScratchInv, Beyond
<1>10. QED
  BY <1>1, <1>2, <1>3, <1>4, <1>5, <1>6, <1>7, <1>8, <1>9 DEF Next, TeamStep

(* With multipliers above 1, the total returned by a dry run is enough for *)
(* its repetition, which neither throws, nor is aborted by the comparison  *)
(* of the counts, nor writes beyond the lists or its scratch.              *)
THEOREM DryRunEnough ==
  ASSUME LargerRadii PROVE Spec => []DryRunSuffices
<1>1. Init => SearchInv /\ ScratchInv
  BY SearchInit DEF Init, ScratchInv
<1>2. SearchInv /\ ScratchInv /\ [Next]_vars => (SearchInv /\ ScratchInv)'
  BY SearchStep, ScratchStep
<1>3. SearchInv /\ ScratchInv => DryRunSuffices
  <2> SUFFICES ASSUME SearchInv, ScratchInv, disciplined
               PROVE  /\ overran = {}
                      /\ phase = "radius" => ~ (\E i \in Targets : team[i] = "fill" /\
                                                  found[i] # number_of_neighbors_list[i])
                      /\ phase = "aborted" => \E i \in Targets : TooFar(epsilons[i])
                      /\ outcome = "threw" => Extent < Total(number_of_neighbors_list)
    BY DEF DryRunSuffices
  <2>1. phase = "radius" => ~ (\E i \in Targets : team[i] = "fill" /\
                                 found[i] # number_of_neighbors_list[i])
    BY FillRowFacts
  <2>2. QED
    BY <2>1 DEF SearchInv, EndInv, ScratchInv
<1>4. QED
  BY <1>1, <1>2, <1>3, PTL DEF Spec

-----------------------------------------------------------------------------
(* 2D lists.  The strengthening follows what each team has left: the count *)
(* in column 0 from its search on, and from its loop on the first of the   *)
(* indices it had stored, as many as fit beside the count.                 *)

(* Row i has the first of the indices that some search may have stored.    *)
Filled(i) ==
  \E q \in StoredIndices(src, trg[i], Near(i), columns) :
    \A j \in 1..SmallerOf(Cardinality(Near(i)), columns-1) : neighbor_lists[i][j] = q[j]

CountInColumn(i) == neighbor_lists[i][0] = Cardinality(Near(i))

CallInv2D ==
  /\ call \in Calls \cup {NoCall}
  /\ phase # "idle" => call \in Calls /\ outcome = "none"
  /\ phase = "knn" => call.search.kind = "knn"
  /\ phase = "radius" \/ outcome \in {"dry", "real", "full"} => columns >= 1

TeamInv2D ==
  phase = "radius" => \A i \in Targets :
    /\ team[i] \in {"fill", "done"} => found[i] = Cardinality(Near(i)) /\ CountInColumn(i)
    /\ team[i] = "fill" =>
         ~ call.dry /\ indices[i] \in StoredIndices(src, trg[i], Near(i), columns)
    /\ team[i] = "done" /\ ~ call.dry => Filled(i)

EndInv2D ==
  /\ outcome \in {"real", "full"} => \A i \in Targets : CountInColumn(i) /\ Filled(i)
  /\ outcome = "real" => \A i \in Targets : Cardinality(Near(i)) <= columns - 1
  /\ DryRunIsTight
  /\ overran = {}

SearchInv2D == TypeOK2D /\ CallInv2D /\ TeamInv2D /\ EndInv2D

-----------------------------------------------------------------------------
LEMMA SiteFacts2D ==
  ASSUME TypeOK2D, NEW i \in Targets
  PROVE  /\ IsCloud(src) /\ trg[i] \in Int /\ 0 \in 0..Cardinality(Sources)
         /\ Sources \subseteq Nat /\ Cardinality(Sources) \in Nat
<1>1. IsCloud(src) /\ trg[i] \in Int
  BY CloudFacts, TargetFacts DEF TypeOK2D
<1>2. QED
  BY <1>1 DEF IsCloud, Sources

LEMMA NoneFound2D == ASSUME TypeOK2D PROVE 0 \in 0..Cardinality(Sources)
<1>1. IsCloud(src)
  BY CloudFacts DEF TypeOK2D
<1>2. QED
  BY <1>1 DEF IsCloud, Sources

LEMMA NearFacts2D ==
  ASSUME TypeOK2D, NEW i \in Targets
  PROVE  /\ Near(i) \in SUBSET Sources /\ IsFiniteSet(Near(i))
         /\ Cardinality(Near(i)) \in 0..Cardinality(Sources)
         /\ Cardinality(Near(i)) \in Nat
<1>1. IsCloud(src)
  BY SiteFacts2D
<1>2. QED
  BY <1>1, WithinType DEF Near, Sources

LEMMA CallInv2DFacts ==
  ASSUME SearchInv2D, phase # "idle"
  PROVE  /\ TypeOK2D /\ CallInv2D /\ TeamInv2D /\ EndInv2D /\ outcome = "none"
         /\ call \in Calls /\ call.search \in Searches /\ call.dry \in BOOLEAN
         /\ call.search.uniform \in Nat
         /\ call.search.kind = "knn" => call.search.needed \in Nat \ {0}
                                        /\ call.search.multiplier \in Nat \ {0}
<1>1. TypeOK2D /\ CallInv2D /\ TeamInv2D /\ EndInv2D /\ outcome = "none" /\ call \in Calls
  BY DEF SearchInv2D, CallInv2D
<1>2. QED
  BY <1>1, CallFacts, SearchFacts

LEMMA SearchInit2D == Init2D => SearchInv2D
<1> SUFFICES ASSUME Init2D PROVE SearchInv2D
  OBVIOUS
<1> USE DEF Init2D, NothingSearched
<1>1. 0 \in 0..Cardinality(Sources)
  <2>1. IsCloud(src)
    BY CloudFacts
  <2>2. QED
    BY <2>1 DEF IsCloud, Sources
<1>2. TypeOK2D
  <2>1. columns \in Nat /\ neighbor_lists \in [Targets -> [0..columns-1 -> Nat]]
    BY UserColumnsAssumption
  <2>2. indices \in [Targets -> Seq(Sources)]
    OBVIOUS
  <2>3. found \in [Targets -> 0..Cardinality(Sources)] /\ result \in 0..Cardinality(Sources)
    BY <1>1
  <2>4. epsilons \in [Targets -> Nat] /\ team \in [Targets -> {"todo", "fill", "done"}]
    OBVIOUS
  <2>5. QED
    BY <2>1, <2>2, <2>3, <2>4 DEF TypeOK2D
<1>3. CallInv2D /\ TeamInv2D /\ EndInv2D
  BY DEF CallInv2D, TeamInv2D, EndInv2D, DryRunIsTight
<1>4. QED
  BY <1>2, <1>3 DEF SearchInv2D

LEMMA SetEpsilonsInv2D == SearchInv2D /\ SetEpsilons2D => SearchInv2D'
<1> SUFFICES ASSUME SearchInv2D, SetEpsilons2D PROVE SearchInv2D'
  OBVIOUS
<1> USE DEF SetEpsilons2D, CallForgotten, sites, teams
<1>1. TypeOK2D /\ EndInv2D
  BY DEF SearchInv2D
<1>2. TypeOK2D'
  <2>1. epsilons' \in [Targets -> Nat] /\ 0 \in 0..Cardinality(Sources)
    BY <1>1, RadiiAssumption, NoneFound2D
  <2>2. QED
    BY <1>1, <2>1 DEF TypeOK2D, Sources
<1>3. CallInv2D' /\ TeamInv2D' /\ EndInv2D'
  BY <1>1 DEF CallInv2D, TeamInv2D, EndInv2D, DryRunIsTight
<1>4. QED
  BY <1>2, <1>3 DEF SearchInv2D

LEMMA ResizeListsInv2D == SearchInv2D /\ ResizeLists2D => SearchInv2D'
<1> SUFFICES ASSUME SearchInv2D, ResizeLists2D PROVE SearchInv2D'
  OBVIOUS
<1> USE DEF ResizeLists2D, CallForgotten, sites, teams
<1>1. TypeOK2D /\ EndInv2D
  BY DEF SearchInv2D
<1>2. TypeOK2D'
  <2>1. 0 \in 0..Cardinality(Sources) /\ result + 1 \in Nat
    BY <1>1, NoneFound2D DEF TypeOK2D
  <2>2. PICK n \in UserColumns \cup {result + 1} :
          /\ columns' = n
          /\ neighbor_lists' = [i \in Targets |-> [j \in 0..n-1 |->
                                  IF j < columns THEN neighbor_lists[i][j] ELSE 0]]
    OBVIOUS
  <2>3. n \in Nat
    BY <2>1, UserColumnsAssumption
  <2>4. \A i \in Targets : \A j \in 0..n-1 :
          (IF j < columns THEN neighbor_lists[i][j] ELSE 0) \in Nat
    <3> SUFFICES ASSUME NEW i \in Targets, NEW j \in 0..n-1
                 PROVE  (IF j < columns THEN neighbor_lists[i][j] ELSE 0) \in Nat
      OBVIOUS
    <3>1. neighbor_lists[i] \in [0..columns-1 -> Nat] /\ columns \in Nat
      BY <1>1 DEF TypeOK2D
    <3>2. QED
      BY <2>3, <3>1
  <2>5. neighbor_lists' \in [Targets -> [0..n-1 -> Nat]]
    BY <2>2, <2>4
  <2>6. QED
    BY <1>1, <2>1, <2>2, <2>3, <2>5 DEF TypeOK2D, Sources
<1>3. CallInv2D' /\ TeamInv2D' /\ EndInv2D'
  BY <1>1 DEF CallInv2D, TeamInv2D, EndInv2D, DryRunIsTight
<1>4. QED
  BY <1>2, <1>3 DEF SearchInv2D

LEMMA StutterInv2D == SearchInv2D /\ UNCHANGED vars2D => SearchInv2D'
<1> SUFFICES ASSUME SearchInv2D, UNCHANGED vars2D PROVE SearchInv2D'
  OBVIOUS
<1> USE DEF vars2D, sites, teams, SearchInv2D
<1>1. TypeOK2D'
  BY DEF TypeOK2D, Sources
<1>2. CallInv2D'
  BY DEF CallInv2D
<1>3. \A i \in Targets : /\ Near(i)' = Near(i) /\ CountInColumn(i)' = CountInColumn(i)
                         /\ Filled(i)' = Filled(i)
  BY DEF Near, CountInColumn, Filled
<1>4. TeamInv2D'
  BY <1>3 DEF TeamInv2D
<1>5. EndInv2D'
  BY <1>3 DEF EndInv2D, DryRunIsTight
<1>6. QED
  BY <1>1, <1>2, <1>4, <1>5

(* A call that ends without a result, and a kernel that begins.            *)
LEMMA RefusedInv2D ==
  ASSUME SearchInv2D, NEW c \in Calls, call' = c, NEW how \in {"refused", "few"},
         Ends(how, 0)
  PROVE  SearchInv2D'
<1> USE DEF Ends, TeamsGone, sites
<1>1. TypeOK2D /\ EndInv2D /\ 0 \in 0..Cardinality(Sources)
  BY NoneFound2D DEF SearchInv2D
<1>2. TypeOK2D'
  <2>1. indices' \in [Targets -> Seq(Sources)]
    OBVIOUS
  <2>2. found' \in [Targets -> 0..Cardinality(Sources)]
        /\ team' \in [Targets -> {"todo", "fill", "done"}]
    BY <1>1
  <2>3. QED
    BY <1>1, <2>1, <2>2 DEF TypeOK2D, Sources
<1>3. CallInv2D' /\ TeamInv2D' /\ EndInv2D'
  BY <1>1 DEF CallInv2D, TeamInv2D, EndInv2D, DryRunIsTight
<1>4. QED
  BY <1>2, <1>3 DEF SearchInv2D

LEMMA KernelInv2D ==
  ASSUME SearchInv2D, NEW c \in Calls, call' = c, NEW name \in {"knn", "radius"},
         Kernel(name), name = "knn" => c.search.kind = "knn",
         name = "radius" => columns >= 1
  PROVE  SearchInv2D'
<1> USE DEF Kernel, sites
<1>1. TypeOK2D /\ EndInv2D /\ 0 \in 0..Cardinality(Sources)
  BY NoneFound2D DEF SearchInv2D
<1>2. TypeOK2D'
  <2>1. team' \in [Targets -> {"todo", "fill", "done"}]
    OBVIOUS
  <2>2. QED
    BY <1>1, <2>1 DEF TypeOK2D, Sources
<1>3. CallInv2D' /\ TeamInv2D' /\ EndInv2D'
  BY <1>1 DEF CallInv2D, TeamInv2D, EndInv2D, DryRunIsTight
<1>4. QED
  BY <1>2, <1>3 DEF SearchInv2D

LEMMA CallInv2DStep ==
  ASSUME SearchInv2D, NEW c \in Calls, CallRadius2D(c) \/ CallKnn2D(c)
  PROVE  SearchInv2D'
<1>1. call' = c
  BY DEF CallRadius2D, CallKnn2D
<1>2. CASE Ends("refused", 0)
  BY <1>1, <1>2, RefusedInv2D
<1>3. CASE columns >= 1 /\ Kernel("radius")
  BY <1>1, <1>3, KernelInv2D
<1>4. CASE c.search.kind = "knn" /\ Kernel("knn")
  BY <1>1, <1>4, KernelInv2D
<1>5. QED
  BY <1>2, <1>3, <1>4 DEF CallRadius2D, CallKnn2D, EnterRadius2D

LEMMA KnnTeamInv2D ==
  ASSUME SearchInv2D, NEW i \in Targets, KnnTeam2D(i)
  PROVE  SearchInv2D'
<1> USE DEF sites
<1>1. /\ TypeOK2D /\ CallInv2D /\ EndInv2D /\ phase = "knn" /\ call \in Calls
      /\ call.search.kind = "knn" /\ outcome = "none"
  BY DEF SearchInv2D, CallInv2D, KnnTeam2D
<1>2. RadiusFromKnn(i) \in Nat
  BY <1>1, CallFacts, SearchFacts, SiteFacts2D, KnnRadiusType DEF RadiusFromKnn
<1>3. /\ epsilons' = [epsilons EXCEPT ![i] = RadiusFromKnn(i)]
      /\ team' = [team EXCEPT ![i] = "done"]
      /\ phase' \in {"knn", "aborted"}
      /\ UNCHANGED <<sites, columns, neighbor_lists, call, found, indices, outcome,
                     result, overran>>
  BY DEF KnnTeam2D
<1>4. TypeOK2D'
  BY <1>1, <1>2, <1>3 DEF TypeOK2D, Sources
<1>5. CallInv2D' /\ TeamInv2D' /\ EndInv2D'
  BY <1>1, <1>3 DEF CallInv2D, TeamInv2D, EndInv2D, DryRunIsTight
<1>6. QED
  BY <1>4, <1>5 DEF SearchInv2D

LEMMA KnnEndsInv2D == SearchInv2D /\ KnnEnds2D => SearchInv2D'
<1> SUFFICES ASSUME SearchInv2D, KnnEnds2D PROVE SearchInv2D'
  OBVIOUS
<1>1. call' = call /\ call \in Calls
  BY DEF KnnEnds2D, SearchInv2D, CallInv2D
<1>2. PICK c \in Calls : c = call
  BY <1>1
<1>3. CASE Ends("refused", 0)
  BY <1>1, <1>2, <1>3, RefusedInv2D
<1>4. CASE Ends("few", 0)
  BY <1>1, <1>2, <1>4, RefusedInv2D
<1>5. CASE columns >= 1 /\ Kernel("radius")
  BY <1>1, <1>2, <1>5, KernelInv2D
<1>6. QED
  BY <1>3, <1>4, <1>5 DEF KnnEnds2D, EnterRadius2D

LEMMA RadiusTeamInv2D ==
  ASSUME SearchInv2D, NEW i \in Targets, RadiusTeam2D(i)
  PROVE  SearchInv2D'
<1> USE DEF sites
<1> DEFINE radius == SearchRadius(i)
           near   == Within(src, trg[i], radius)
           n      == NeighborsFound2D(i, radius)
<1>1. phase = "radius" /\ team[i] = "todo"
  BY DEF RadiusTeam2D
<1>2. /\ TypeOK2D /\ CallInv2D /\ TeamInv2D /\ EndInv2D /\ outcome = "none"
      /\ call \in Calls /\ call.dry \in BOOLEAN /\ call.search.uniform \in Nat
      /\ columns >= 1
  BY <1>1, CallInv2DFacts DEF CallInv2D
<1>3. radius \in Nat
  BY <1>2 DEF SearchRadius, TypeOK2D
<1>4. n \in 0..Cardinality(Sources) /\ n \in Nat /\ n = Cardinality(near)
      /\ IsFiniteSet(near) /\ near \subseteq Sources
  BY <1>2, SiteFacts2D, WithinType DEF NeighborsFound2D, Sources
<1>5. /\ epsilons' = [epsilons EXCEPT ![i] = radius]
      /\ UNCHANGED <<sites, columns, call, outcome, result, overran>>
  BY DEF RadiusTeam2D
<1>6. near = Within(src, trg[i], radius)
  OBVIOUS
<1>7. \/ /\ phase' = "aborted"
         /\ UNCHANGED <<neighbor_lists, team, found, indices>>
      \/ /\ found' = [found EXCEPT ![i] = n]
         /\ \E q \in StoredIndices(src, trg[i], near, columns) :
              indices' = [indices EXCEPT ![i] = q]
         /\ neighbor_lists' = [neighbor_lists EXCEPT ![i][0] = n]
         /\ team' = [team EXCEPT ![i] = IF call.dry THEN "done" ELSE "fill"]
         /\ UNCHANGED phase
  BY DEF RadiusTeam2D
<1> HIDE DEF radius, near, n
<1>8. CASE /\ phase' = "aborted"
           /\ UNCHANGED <<neighbor_lists, team, found, indices>>
  <2>1. TypeOK2D'
    BY <1>2, <1>3, <1>5, <1>8 DEF TypeOK2D, Sources
  <2>2. CallInv2D' /\ TeamInv2D' /\ EndInv2D'
    BY <1>2, <1>5, <1>8 DEF CallInv2D, TeamInv2D, EndInv2D, DryRunIsTight
  <2>3. QED
    BY <2>1, <2>2 DEF SearchInv2D
<1>9. ASSUME NEW q \in StoredIndices(src, trg[i], near, columns),
             found' = [found EXCEPT ![i] = n], indices' = [indices EXCEPT ![i] = q],
             neighbor_lists' = [neighbor_lists EXCEPT ![i][0] = n],
             team' = [team EXCEPT ![i] = IF call.dry THEN "done" ELSE "fill"],
             UNCHANGED phase
      PROVE  SearchInv2D'
  <2>1. q \in Seq(Sources)
    <3>1. columns \in Nat
      BY <1>2 DEF TypeOK2D
    <3>2. SmallerOf(Cardinality(near), columns) \in Nat
          /\ q \in [1..SmallerOf(Cardinality(near), columns) -> near]
      BY <1>4, <3>1, StoredType
    <3>3. QED
      BY <1>4, <3>2
  <2>2. /\ neighbor_lists' \in [Targets -> [0..columns-1 -> Nat]]
        /\ neighbor_lists'[i][0] = n
        /\ \A j \in Targets \ {i} : neighbor_lists'[j] = neighbor_lists[j]
    <3>1. columns \in Nat /\ neighbor_lists \in [Targets -> [0..columns-1 -> Nat]]
      BY <1>2 DEF TypeOK2D
    <3>2. 0 \in 0..columns-1
      BY <1>2, <3>1
    <3>3. [neighbor_lists[i] EXCEPT ![0] = n] \in [0..columns-1 -> Nat]
          /\ [neighbor_lists[i] EXCEPT ![0] = n][0] = n
      BY <1>4, <3>1, <3>2
    <3>4. neighbor_lists' = [neighbor_lists EXCEPT ![i] = [neighbor_lists[i] EXCEPT ![0] = n]]
      BY <1>9
    <3> DEFINE row == [neighbor_lists[i] EXCEPT ![0] = n]
    <3> HIDE DEF row
    <3>5. neighbor_lists' = [neighbor_lists EXCEPT ![i] = row]
          /\ row \in [0..columns-1 -> Nat] /\ row[0] = n
      BY <3>3, <3>4 DEF row
    <3>6. QED
      BY <3>1, <3>5
  <2>3. /\ epsilons' \in [Targets -> Nat] /\ epsilons'[i] = radius
        /\ found' \in [Targets -> 0..Cardinality(Sources)] /\ found'[i] = n
        /\ indices' \in [Targets -> Seq(Sources)] /\ indices'[i] = q
        /\ team' \in [Targets -> {"todo", "fill", "done"}]
        /\ team'[i] = IF call.dry THEN "done" ELSE "fill"
    BY <1>2, <1>3, <1>4, <1>5, <1>9, <2>1 DEF TypeOK2D
  <2>4. \A j \in Targets \ {i} :
          /\ epsilons'[j] = epsilons[j] /\ found'[j] = found[j]
          /\ indices'[j] = indices[j] /\ team'[j] = team[j]
    BY <1>2, <1>5, <1>9 DEF TypeOK2D
  <2>5. TypeOK2D'
    BY <1>2, <1>5, <1>9, <2>2, <2>3 DEF TypeOK2D, Sources
  <2>6. CallInv2D'
    BY <1>2, <1>5, <1>9 DEF CallInv2D
  <2>7. EndInv2D'
    BY <1>2, <1>5 DEF EndInv2D, DryRunIsTight
  <2>8. Near(i)' = near
    BY <1>5, <1>6, <2>3 DEF Near
  <2>9. TeamInv2D'
    <3> SUFFICES ASSUME NEW j \in Targets
                 PROVE  /\ team'[j] \in {"fill", "done"} =>
                             found'[j] = Cardinality(Near(j)') /\ CountInColumn(j)'
                        /\ team'[j] = "fill" =>
                             ~ call.dry
                             /\ indices'[j] \in StoredIndices(src, trg[j], Near(j)', columns)
                        /\ team'[j] = "done" /\ ~ call.dry => Filled(j)'
      BY <1>5 DEF TeamInv2D
    <3>1. CASE j = i
      BY <1>4, <2>2, <2>3, <2>8, <3>1 DEF CountInColumn
    <3>2. CASE j # i
      <4>1. Near(j)' = Near(j)
        BY <1>5, <2>4, <3>2 DEF Near
      <4>2. /\ team[j] \in {"fill", "done"} =>
                 found[j] = Cardinality(Near(j)) /\ CountInColumn(j)
            /\ team[j] = "fill" =>
                 ~ call.dry /\ indices[j] \in StoredIndices(src, trg[j], Near(j), columns)
            /\ team[j] = "done" /\ ~ call.dry => Filled(j)
        BY <1>1, <1>2 DEF TeamInv2D
      <4>3. CountInColumn(j)' = CountInColumn(j)
        BY <2>2, <3>2, <4>1 DEF CountInColumn
      <4>4. Filled(j)' = Filled(j)
        BY <1>5, <2>2, <3>2, <4>1 DEF Filled
      <4>5. QED
        BY <2>4, <3>2, <4>1, <4>2, <4>3, <4>4
    <3>3. QED
      BY <3>1, <3>2
  <2>10. QED
    BY <2>5, <2>6, <2>7, <2>9 DEF SearchInv2D
<1>10. QED
  BY <1>7, <1>8, <1>9

LEMMA FillRowInv2D ==
  ASSUME SearchInv2D, NEW i \in Targets, FillRow2D(i)
  PROVE  SearchInv2D'
<1> USE DEF sites
<1> DEFINE row == [j \in 0..columns-1 |->
             IF j \in 1..LoopBound(i) THEN indices[i][j] ELSE neighbor_lists[i][j]]
<1>1. /\ phase = "radius" /\ team[i] = "fill"
      /\ neighbor_lists' = [neighbor_lists EXCEPT ![i] = row]
      /\ team' = [team EXCEPT ![i] = "done"]
      /\ overran' = overran \cup Beyond("row", LoopBound(i) >= columns)
      /\ UNCHANGED <<sites, columns, epsilons, phase, call, found, indices, outcome,
                     result>>
  BY DEF FillRow2D
<1>2. /\ TypeOK2D /\ CallInv2D /\ TeamInv2D /\ EndInv2D /\ outcome = "none"
      /\ columns \in Nat /\ columns >= 1
  BY <1>1, CallInv2DFacts DEF CallInv2D, TypeOK2D
<1> DEFINE near == Near(i)
           k    == SmallerOf(Cardinality(near), columns)
<1>3. /\ found[i] = Cardinality(near) /\ CountInColumn(i) /\ ~ call.dry
      /\ indices[i] \in StoredIndices(src, trg[i], near, columns)
  BY <1>1, <1>2 DEF TeamInv2D
<1>4. near \subseteq Sources /\ IsFiniteSet(near) /\ Cardinality(near) \in Nat
      /\ Sources \subseteq Nat
  BY <1>2, NearFacts2D, SiteFacts2D
<1>5. k \in Nat /\ indices[i] \in [1..k -> near]
  BY <1>2, <1>3, <1>4, StoredType
<1>6. /\ LoopBound(i) \in Nat /\ LoopBound(i) <= k /\ LoopBound(i) <= columns - 1
      /\ LoopBound(i) = SmallerOf(Cardinality(near), columns - 1)
  BY <1>2, <1>3, <1>4 DEF LoopBound, SmallerOf
<1>7. /\ row \in [0..columns-1 -> Nat] /\ row[0] = neighbor_lists[i][0]
      /\ \A j \in 1..LoopBound(i) : row[j] = indices[i][j]
  <2>1. neighbor_lists[i] \in [0..columns-1 -> Nat]
    BY <1>2 DEF TypeOK2D
  <2>2. \A j \in 1..LoopBound(i) : indices[i][j] \in Nat
    <3> SUFFICES ASSUME NEW j \in 1..LoopBound(i) PROVE indices[i][j] \in Nat
      OBVIOUS
    <3>1. j \in 1..k
      BY <1>5, <1>6
    <3> HIDE DEF k, near
    <3>2. QED
      BY <1>4, <1>5, <3>1
  <2>3. \A j \in 0..columns-1 : row[j] \in Nat
    BY <2>1, <2>2
  <2>4. 0 \in 0..columns-1 /\ \A j \in 1..LoopBound(i) : j \in 0..columns-1
    BY <1>2, <1>6
  <2>5. QED
    BY <2>3, <2>4
<1> HIDE DEF row, near, k
<1>8. /\ neighbor_lists' \in [Targets -> [0..columns-1 -> Nat]] /\ neighbor_lists'[i] = row
      /\ \A j \in Targets \ {i} : neighbor_lists'[j] = neighbor_lists[j]
  BY <1>1, <1>2, <1>7 DEF TypeOK2D
<1>9. /\ team' \in [Targets -> {"todo", "fill", "done"}] /\ team'[i] = "done"
      /\ \A j \in Targets \ {i} : team'[j] = team[j]
  BY <1>1, <1>2 DEF TypeOK2D
<1>10. overran' = {}
  BY <1>1, <1>2, <1>6 DEF EndInv2D, Beyond
<1>11. TypeOK2D'
  BY <1>1, <1>2, <1>8, <1>9, <1>10 DEF TypeOK2D, Sources
<1>12. CallInv2D'
  BY <1>1, <1>2 DEF CallInv2D
<1>13. EndInv2D'
  BY <1>1, <1>2, <1>10 DEF EndInv2D, DryRunIsTight
<1>14. \A j \in Targets : Near(j)' = Near(j)
  BY <1>1 DEF Near
<1>15. CountInColumn(i)' /\ Filled(i)'
  <2>1. CountInColumn(i)'
    BY <1>3, <1>7, <1>8, <1>14 DEF CountInColumn
  <2>2. \A j \in 1..SmallerOf(Cardinality(near), columns-1) : neighbor_lists'[i][j] = indices[i][j]
    BY <1>6, <1>7, <1>8
  <2>3. Near(i)' = near
    BY <1>14 DEF near
  <2>4. Filled(i)'
    BY <1>1, <1>3, <2>2, <2>3 DEF Filled
  <2>5. QED
    BY <2>1, <2>4
<1>16. TeamInv2D'
  <2> SUFFICES ASSUME NEW j \in Targets
               PROVE  /\ team'[j] \in {"fill", "done"} =>
                           found[j] = Cardinality(Near(j)) /\ CountInColumn(j)'
                      /\ team'[j] = "fill" =>
                           ~ call.dry
                           /\ indices[j] \in StoredIndices(src, trg[j], Near(j), columns)
                      /\ team'[j] = "done" /\ ~ call.dry => Filled(j)'
    BY <1>1, <1>14 DEF TeamInv2D
  <2>1. CASE j = i
    BY <1>3, <1>9, <1>15, <2>1 DEF near
  <2>2. CASE j # i
    <3>1. CountInColumn(j)' = CountInColumn(j) /\ Filled(j)' = Filled(j)
      BY <1>1, <1>8, <1>14, <2>2 DEF CountInColumn, Filled
    <3>2. QED
      BY <1>1, <1>2, <1>9, <2>2, <3>1 DEF TeamInv2D
  <2>3. QED
    BY <2>1, <2>2
<1>17. QED
  BY <1>11, <1>12, <1>13, <1>16 DEF SearchInv2D

LEMMA RadiusEndsInv2D == SearchInv2D /\ RadiusEnds2D => SearchInv2D'
<1> SUFFICES ASSUME SearchInv2D, RadiusEnds2D PROVE SearchInv2D'
  OBVIOUS
<1> USE DEF TeamsGone, sites
<1> DEFINE longest == MaxNeighbors(found, NumTargets)
<1>1. phase = "radius" /\ AllTeamsDone /\ UNCHANGED call
  BY DEF RadiusEnds2D
<1>2. /\ TypeOK2D /\ CallInv2D /\ TeamInv2D /\ EndInv2D
      /\ call \in Calls /\ call.dry \in BOOLEAN /\ columns \in Nat /\ columns >= 1
  BY <1>1, CallInv2DFacts DEF CallInv2D, TypeOK2D
<1>3. PICK how \in {"dry", "real", "full"}, value \in {0, longest} :
        /\ Ends(how, value)
        /\ how = "dry" => call.dry /\ value = longest
        /\ how = "real" => ~ call.dry /\ longest <= columns - 1
        /\ how = "full" => ~ call.dry /\ value = 0
  <2>1. CASE longest <= Capacity \/ call.dry
    <3>1. Ends(IF call.dry THEN "dry" ELSE "real", longest)
      BY <2>1 DEF RadiusEnds2D
    <3>2. CASE call.dry
      BY <3>1, <3>2
    <3>3. CASE ~ call.dry
      BY <2>1, <3>1, <3>3 DEF Capacity
    <3>4. QED
      BY <3>2, <3>3
  <2>2. CASE ~ (longest <= Capacity \/ call.dry)
    BY <2>2 DEF RadiusEnds2D
  <2>3. QED
    BY <2>1, <2>2
<1>4. /\ \A i \in Targets : found[i] = Cardinality(Near(i)) /\ CountInColumn(i)
      /\ ~ call.dry => \A i \in Targets : Filled(i)
  BY <1>1, <1>2 DEF TeamInv2D, AllTeamsDone
<1>5. /\ longest \in 0..Cardinality(Sources)
      /\ \A i \in Targets : found[i] <= longest
      /\ NumTargets > 0 => \E i \in Targets : found[i] = longest
  <2>1. found \in [0..NumTargets-1 -> Nat] /\ NumTargets \in Nat
        /\ found \in [Targets -> 0..Cardinality(Sources)]
    BY <1>2, NumTargetsAssumption DEF TypeOK2D, Targets
  <2>2. /\ longest \in Nat
        /\ \A i \in 0..NumTargets-1 : found[i] <= longest
        /\ NumTargets > 0 => \E i \in 0..NumTargets-1 : found[i] = longest
    BY <2>1, MaxNeighborsAttained
  <2>3. CASE NumTargets = 0
    <3>1. longest = 0
      BY <2>3 DEF MaxNeighbors
    <3>2. QED
      BY <1>2, <2>2, <2>3, <3>1, NoneFound2D DEF Targets
  <2>4. CASE NumTargets > 0
    BY <2>1, <2>2, <2>4 DEF Targets
  <2>5. QED
    BY <2>1, <2>3, <2>4
<1> HIDE DEF longest
<1>6. /\ phase' = "idle" /\ outcome' = how /\ result' = value
      /\ team' = [i \in Targets |-> "done"]
      /\ found' = [i \in Targets |-> 0]
      /\ indices' = [i \in Targets |-> << >>]
      /\ UNCHANGED <<sites, columns, neighbor_lists, epsilons, overran, call>>
  BY <1>1, <1>3 DEF Ends
<1>7. TypeOK2D'
  <2>1. indices' \in [Targets -> Seq(Sources)]
    BY <1>6
  <2>2. /\ found' \in [Targets -> 0..Cardinality(Sources)]
        /\ team' \in [Targets -> {"todo", "fill", "done"}]
        /\ value \in 0..Cardinality(Sources)
    BY <1>2, <1>5, <1>6, NoneFound2D
  <2>3. QED
    BY <1>2, <1>6, <2>1, <2>2 DEF TypeOK2D, Sources
<1>8. CallInv2D' /\ TeamInv2D'
  BY <1>2, <1>6 DEF CallInv2D, TeamInv2D
<1>9. \A i \in Targets : /\ Near(i)' = Near(i) /\ CountInColumn(i)' = CountInColumn(i)
                         /\ Filled(i)' = Filled(i)
  BY <1>6 DEF Near, CountInColumn, Filled
<1>10. EndInv2D'
  <2>1. outcome' \in {"real", "full"} => \A i \in Targets : CountInColumn(i)' /\ Filled(i)'
    BY <1>3, <1>4, <1>6, <1>9
  <2>2. outcome' = "real" => \A i \in Targets : Cardinality(Near(i)') <= columns' - 1
    <3>1. \A i \in Targets : found[i] \in Nat
      BY <1>2 DEF TypeOK2D
    <3>2. longest \in Nat
      BY <1>5
    <3>3. QED
      BY <1>2, <1>3, <1>4, <1>5, <1>6, <1>9, <3>1, <3>2
  <2>3. DryRunIsTight'
    BY <1>3, <1>4, <1>5, <1>6, <1>9 DEF DryRunIsTight
  <2>4. QED
    BY <1>2, <1>6, <2>1, <2>2, <2>3 DEF EndInv2D
<1>11. QED
  BY <1>7, <1>8, <1>10 DEF SearchInv2D

LEMMA SearchStep2D == SearchInv2D /\ [Next2D]_vars2D => SearchInv2D'
<1> SUFFICES ASSUME SearchInv2D, [Next2D]_vars2D PROVE SearchInv2D'
  OBVIOUS
<1>1. CASE SetEpsilons2D \/ ResizeLists2D
  BY <1>1, SetEpsilonsInv2D, ResizeListsInv2D
<1>2. CASE UserCall2D
  BY <1>2, CallInv2DStep DEF UserCall2D
<1>3. CASE TeamStep2D
  BY <1>3, KnnTeamInv2D, RadiusTeamInv2D, FillRowInv2D DEF TeamStep2D
<1>4. CASE KnnEnds2D \/ RadiusEnds2D
  BY <1>4, KnnEndsInv2D, RadiusEndsInv2D
<1>5. CASE UNCHANGED vars2D
  BY <1>5, StutterInv2D
<1>6. CASE Aborted
  BY <1>6, StutterInv2D DEF Aborted
<1>7. QED
  BY <1>1, <1>2, <1>3, <1>4, <1>5, <1>6 DEF Next2D

THEOREM SearchAlwaysInv2D == Spec2D => []SearchInv2D
<1>1. QED
  BY SearchInit2D, SearchStep2D, PTL DEF Spec2D

(* The rows, radii and counts have their types, and a dry run never        *)
(* returns more than the number of sources.                                *)
THEOREM SearchTypeCorrect2D == Spec2D => []TypeOK2D
<1>1. SearchInv2D => TypeOK2D
  BY DEF SearchInv2D
<1>2. QED
  BY <1>1, SearchAlwaysInv2D, PTL

(* What a row holds of the indices that were stored.                       *)
LEMMA FilledRow ==
  ASSUME TypeOK2D, NEW i \in Targets, columns >= 1, CountInColumn(i), Filled(i)
  PROVE  /\ Stored(i) \subseteq Near(i)
         /\ Cardinality(Stored(i)) = SmallerOf(Cardinality(Near(i)), columns-1)
         /\ Cardinality(Near(i)) <= columns - 1 => RowExact2D(i)
<1> DEFINE near == Near(i)
           card == Cardinality(near)
           k    == SmallerOf(card, columns-1)
           m    == SmallerOf(card, columns)
           row  == neighbor_lists[i]
<1>1. near \subseteq Sources /\ IsFiniteSet(near) /\ card \in Nat /\ columns \in Nat
  BY NearFacts2D DEF TypeOK2D
<1>2. PICK q \in StoredIndices(src, trg[i], near, columns) : \A j \in 1..k : row[j] = q[j]
  BY DEF Filled
<1>3. m \in Nat /\ k \in 0..m /\ row[0] = card
  BY <1>1 DEF SmallerOf, CountInColumn
<1>4. q \in [1..m -> near] /\ q \in Injection(1..m, near)
  BY <1>1, StoredType
<1>5. Stored(i) = {q[j] : j \in 1..k}
  BY <1>2, <1>3 DEF Stored
<1> HIDE DEF m, k
<1>6. Stored(i) \subseteq near
  BY <1>3, <1>4, <1>5
<1>7. Cardinality(Stored(i)) = k
  <2>1. \A a, b \in 1..m : q[a] = q[b] => a = b
    BY <1>4 DEF Injection, IsInjective
  <2>2. Cardinality({q[j] : j \in 1..k}) = k
    BY <1>3, <1>4, <2>1, StoredCount
  <2>3. QED
    BY <1>5, <2>2
<1>8. ASSUME card <= columns - 1 PROVE RowExact2D(i)
  <2>1. k = card
    BY <1>1, <1>8 DEF k, SmallerOf
  <2>2. /\ q \in [1..card -> near]
        /\ \A s \in near : \E j \in 1..card : q[j] = s
        /\ \A s \in near : Distance(src[q[1]], trg[i]) <= Distance(src[s], trg[i])
    <3>1. Cardinality(near) <= columns
      BY <1>1, <1>8
    <3>2. /\ q \in [1..Cardinality(near) -> near]
          /\ \A s \in near : \E j \in 1..Cardinality(near) : q[j] = s
          /\ \A s \in near : Distance(src[q[1]], trg[i]) <= Distance(src[s], trg[i])
      BY <1>1, <1>2, <3>1, StoredAll
    <3>3. QED
      BY <3>2
  <2>3. Stored(i) = near
    BY <1>5, <2>1, <2>2
  <2>4. \A s \in near : Distance(src[row[1]], trg[i]) <= Distance(src[s], trg[i])
    <3> SUFFICES ASSUME NEW s \in near
                 PROVE  Distance(src[row[1]], trg[i]) <= Distance(src[s], trg[i])
      OBVIOUS
    <3>1. 1 \in 1..card
      BY <1>1, <2>2
    <3>2. row[1] = q[1]
      BY <1>2, <2>1, <3>1
    <3>3. QED
      BY <2>2, <3>2
  <2>5. card < columns /\ row[0] = card
    BY <1>1, <1>3, <1>8
  <2>6. QED
    BY <2>3, <2>4, <2>5 DEF RowExact2D
<1>9. QED
  BY <1>6, <1>7, <1>8 DEF k

(* A real search that returns has stored every neighbour of every target,  *)
(* whatever the columns, the calls before it and the order of the teams.   *)
THEOREM ReturnedComplete == Spec2D => []ReturnedMeansComplete
<1>1. SearchInv2D => ReturnedMeansComplete
  <2> SUFFICES ASSUME SearchInv2D, outcome = "real", NEW i \in Targets PROVE RowExact2D(i)
    BY DEF ReturnedMeansComplete
  <2>1. /\ TypeOK2D /\ columns >= 1 /\ CountInColumn(i) /\ Filled(i)
        /\ Cardinality(Near(i)) <= columns - 1
    BY DEF SearchInv2D, CallInv2D, EndInv2D
  <2>2. QED
    BY <2>1, FilledRow
<1>2. QED
  BY <1>1, SearchAlwaysInv2D, PTL

(* After a search that threw for want of columns, column 0 has the real    *)
(* counts and each row distinct neighbours; no team writes beyond its row. *)
THEOREM OverflowRecoverable == Spec2D => []OverflowIsRecoverable
<1>1. SearchInv2D => OverflowIsRecoverable
  <2> SUFFICES ASSUME SearchInv2D
               PROVE  /\ overran = {}
                      /\ outcome = "full" => \A i \in Targets :
                           /\ neighbor_lists[i][0] = Cardinality(Near(i))
                           /\ Stored(i) \subseteq Near(i)
                           /\ Cardinality(Stored(i)) =
                                SmallerOf(Cardinality(Near(i)), columns-1)
    BY DEF OverflowIsRecoverable
  <2>1. overran = {}
    BY DEF SearchInv2D, EndInv2D
  <2>2. ASSUME outcome = "full", NEW i \in Targets
        PROVE  /\ neighbor_lists[i][0] = Cardinality(Near(i))
               /\ Stored(i) \subseteq Near(i)
               /\ Cardinality(Stored(i)) = SmallerOf(Cardinality(Near(i)), columns-1)
    <3>1. TypeOK2D /\ columns >= 1 /\ CountInColumn(i) /\ Filled(i)
      BY <2>2 DEF SearchInv2D, CallInv2D, EndInv2D
    <3>2. QED
      BY <3>1, FilledRow DEF CountInColumn
  <2>3. QED
    BY <2>1, <2>2
<1>2. QED
  BY <1>1, SearchAlwaysInv2D, PTL

(* What a dry run returns is the length of the longest row.                *)
THEOREM DryRunTight == Spec2D => []DryRunIsTight
<1>1. SearchInv2D => DryRunIsTight
  BY DEF SearchInv2D, EndInv2D
<1>2. QED
  BY <1>1, SearchAlwaysInv2D, PTL

=============================================================================
