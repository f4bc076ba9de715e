---------------------------- MODULE LayoutProofs ----------------------------
(***************************************************************************)
(* Facts about the layouts, for every list of counts.                      *)
(*                                                                         *)
(* Compressed rows: the rows of different targets are apart and within the *)
(* total.  The inductions over the target index are made with a least      *)
(* counterexample, from the well-foundedness of < on Nat.                  *)
(*                                                                         *)
(* Alphas: no two of them share a place, and all are within the array, for *)
(* every number of targets, lists, operations and sites.  It is a          *)
(* mixed-radix numbering, whose digits are the target, the site, the       *)
(* operation, the input and output component, and the column; two of the   *)
(* digits have places of unequal size, which the facts about prefix sums   *)
(* handle.                                                                 *)
(***************************************************************************)
EXTENDS AlphaLayout, WellFoundedInduction, TLAPS

(* Every nonempty set of naturals has a least element.                     *)
LEMMA LeastNat ==
  ASSUME NEW T \in SUBSET Nat, T # {}
  PROVE  \E n \in T : \A m \in T : n <= m
<1> DEFINE R == OpToRel(<, Nat)
<1>1. R = {ss \in Nat \X Nat : ss[1] < ss[2]}
  BY Zenon DEF OpToRel
<1>2. IsWellFoundedOn(R, Nat)
  BY NatLessThanWellFounded
<1> HIDE DEF R
<1>3. \E n \in T : \A m \in T : ~ (<<m, n>> \in R)
  BY <1>2, WFMin
<1>4. PICK n \in T : \A m \in T : ~ (<<m, n>> \in R)
  BY <1>3
<1>5. ASSUME NEW m \in T PROVE n <= m
  <2>1. m \in Nat /\ n \in Nat
    OBVIOUS
  <2>2. <<m, n>> \in Nat \X Nat
    BY <2>1
  <2>3. ~ (<<m, n>>[1] < <<m, n>>[2])
    BY <1>1, <1>4, <2>2, Zenon
  <2>4. QED
    BY <2>1, <2>3
<1>6. QED
  BY <1>5

(***************************************************************************)
(* What it is to be the table of prefix sums of count up to k, and that    *)
(* such a table exists: it is built one entry after the other, as the      *)
(* sequential loop over the targets does.                                  *)
(***************************************************************************)
IsPrefixSum(f, count, k) ==
  f = [i \in 0..k |-> IF i = 0 THEN 0 ELSE f[i-1] + count[i-1]]

LEMMA PrefixSumExists ==
  ASSUME NEW n \in Nat, NEW count \in [0..n-1 -> Nat]
  PROVE  \E f \in [0..n -> Nat] : IsPrefixSum(f, count, n)
<1> DEFINE Good(k) == \E f \in [0..k -> Nat] : IsPrefixSum(f, count, k)
           Bad == {k \in 0..n : ~ Good(k)}
<1>1. Good(0)
  <2>1. [i \in 0..0 |-> 0] \in [0..0 -> Nat]
    OBVIOUS
  <2>2. IsPrefixSum([i \in 0..0 |-> 0], count, 0)
    BY DEF IsPrefixSum
  <2>3. QED
    BY <2>1, <2>2
<1>2. ASSUME NEW k \in 0..n-1, Good(k)
      PROVE  Good(k+1)
  <2>1. PICK f \in [0..k -> Nat] : IsPrefixSum(f, count, k)
    BY <1>2
  <2> DEFINE g == [i \in 0..k+1 |-> IF i = k+1 THEN f[k] + count[k] ELSE f[i]]
  <2>2. g \in [0..k+1 -> Nat]
    OBVIOUS
  <2>3. ASSUME NEW i \in 0..k+1
        PROVE  g[i] = IF i = 0 THEN 0 ELSE g[i-1] + count[i-1]
    <3>1. CASE i = k+1
      BY <3>1
    <3>2. CASE i # k+1
      <4>1. i \in 0..k
        BY <3>2
      <4>2. f[i] = IF i = 0 THEN 0 ELSE f[i-1] + count[i-1]
        BY <2>1, <4>1 DEF IsPrefixSum
      <4>3. QED
        BY <3>2, <4>1, <4>2
    <3>3. QED
      BY <3>1, <3>2
  <2>4. IsPrefixSum(g, count, k+1)
    BY <2>3 DEF IsPrefixSum
  <2>5. QED
    BY <2>2, <2>4
<1> HIDE DEF Good
<1>3. Bad = {}
  <2>1. SUFFICES ASSUME Bad # {} PROVE FALSE
    OBVIOUS
  <2>a. Bad \in SUBSET Nat
    OBVIOUS
  <2>2. PICK m \in Bad : \A j \in Bad : m <= j
    <3> HIDE DEF Bad
    <3>1. QED
      BY <2>a, <2>1, LeastNat
  <2>3. m # 0
    BY <1>1, <2>2
  <2>4. m-1 \in 0..n-1 /\ Good(m-1)
    BY <2>2, <2>3
  <2>5. Good(m-1+1)
    BY <1>2, <2>4
  <2>6. QED
    BY <2>2, <2>5
<1>4. Good(n)
  BY <1>3
<1>5. QED
  BY <1>4 DEF Good

(* The recursive definition of PrefixSum does what it reads.               *)
LEMMA PrefixSumStep ==
  ASSUME NEW n \in Nat, NEW count \in [0..n-1 -> Nat]
  PROVE  /\ PrefixSum(count, n) \in [0..n -> Nat]
         /\ PrefixSum(count, n)[0] = 0
         /\ \A i \in 0..n-1 :
              PrefixSum(count, n)[i+1] = PrefixSum(count, n)[i] + count[i]
<1> DEFINE P == PrefixSum(count, n)
<1>1. P = CHOOSE f : IsPrefixSum(f, count, n)
  BY Zenon DEF PrefixSum, IsPrefixSum
<1>2. \E f : IsPrefixSum(f, count, n)
  BY PrefixSumExists
<1>3. IsPrefixSum(P, count, n)
  BY <1>1, <1>2, Zenon
<1> HIDE DEF P
<1>4. DOMAIN P = 0..n /\ P[0] = 0
  BY <1>3 DEF IsPrefixSum
<1>5. ASSUME NEW i \in 0..n-1 PROVE P[i+1] = P[i] + count[i]
  BY <1>3 DEF IsPrefixSum
<1> DEFINE Bad == {i \in 0..n : P[i] \notin Nat}
<1>6. Bad = {}
  <2>1. SUFFICES ASSUME Bad # {} PROVE FALSE
    OBVIOUS
  <2>a. Bad \in SUBSET Nat
    OBVIOUS
  <2>2. PICK m \in Bad : \A j \in Bad : m <= j
    <3> HIDE DEF Bad
    <3>1. QED
      BY <2>a, <2>1, LeastNat
  <2>3. m # 0
    BY <1>4, <2>2
  <2>4. m-1 \in 0..n-1 /\ P[m-1] \in Nat
    BY <2>2, <2>3
  <2>5. P[m-1+1] = P[m-1] + count[m-1]
    BY <1>5, <2>4
  <2>6. QED
    BY <2>2, <2>4, <2>5
<1>7. P = [i \in 0..n |-> P[i]]
  BY <1>3, <1>4 DEF IsPrefixSum
<1>8. P \in [0..n -> Nat]
  BY <1>6, <1>7
<1>9. QED
  BY <1>4, <1>5, <1>8 DEF P

(* A table of prefix sums never decreases.                                 *)
LEMMA PrefixSumMonotone ==
  ASSUME NEW n \in Nat, NEW count \in [0..n-1 -> Nat],
         NEW i \in 0..n, NEW j \in 0..n, i <= j
  PROVE  PrefixSum(count, n)[i] <= PrefixSum(count, n)[j]
<1> DEFINE P == PrefixSum(count, n)
           Bad == {k \in i..n : ~ (P[i] <= P[k])}
<1>1. /\ P \in [0..n -> Nat]
      /\ \A k \in 0..n-1 : P[k+1] = P[k] + count[k]
  BY PrefixSumStep
<1> HIDE DEF P
<1>2. SUFFICES ASSUME Bad # {} PROVE FALSE
  BY DEF P
<1>3. Bad \in SUBSET Nat
  OBVIOUS
<1>4. PICK m \in Bad : \A k \in Bad : m <= k
  <2> HIDE DEF Bad
  <2>1. QED
    BY <1>2, <1>3, LeastNat
<1>5. m # i /\ m \in i..n
  BY <1>1, <1>4
<1>6. m-1 \in i..n /\ m-1 \in 0..n-1 /\ P[i] <= P[m-1]
  BY <1>4, <1>5
<1>7. P[m-1+1] = P[m-1] + count[m-1] /\ count[m-1] \in Nat
  BY <1>1, <1>6
<1>8. P[i] <= P[m]
  BY <1>1, <1>5, <1>6, <1>7
<1>9. QED
  BY <1>4, <1>8

(***************************************************************************)
(* The rows of two targets share no entry of the array, so the league      *)
(* members of a search, a target evaluation or a stencil application that  *)
(* each write only the row of their own target do not disturb each other.  *)
(***************************************************************************)
THEOREM RowsDisjoint ==
  ASSUME NEW n \in Nat, NEW count \in [0..n-1 -> Nat],
         NEW i \in 0..n-1, NEW j \in 0..n-1, i # j
  PROVE  Row(RowOffsets(count, n), count, i)
           \cap Row(RowOffsets(count, n), count, j) = {}
<1> DEFINE P == PrefixSum(count, n)
<1>1. /\ P \in [0..n -> Nat]
      /\ \A k \in 0..n-1 : P[k+1] = P[k] + count[k]
  BY PrefixSumStep
<1>2. \A k, l \in 0..n : k <= l => P[k] <= P[l]
  BY PrefixSumMonotone
<1>3. \A k \in 0..n-1 : RowOffsets(count, n)[k] = P[k]
  BY DEF RowOffsets
<1> HIDE DEF P
<1>4. ASSUME NEW k \in 0..n-1, NEW l \in 0..n-1, k < l
      PROVE  (P[k] .. (P[k] + count[k] - 1)) \cap (P[l] .. (P[l] + count[l] - 1)) = {}
  <2>1. P[k] + count[k] <= P[l]
    BY <1>1, <1>2, <1>4
  <2>2. P[k] \in Nat /\ P[l] \in Nat /\ count[k] \in Nat /\ count[l] \in Nat
    BY <1>1
  <2>3. QED
    BY <2>1, <2>2
<1>5. CASE i < j
  BY <1>3, <1>4, <1>5 DEF Row
<1>6. CASE j < i
  BY <1>3, <1>4, <1>6 DEF Row
<1>7. QED
  BY <1>5, <1>6

(***************************************************************************)
(* Storage of the total number of neighbours (getTotalNeighborsOverAll-    *)
(* ListsHost, what the constructors compare with the array's extent and    *)
(* what a dry run returns) holds every row.                                *)
(***************************************************************************)
THEOREM RowsFitTotal ==
  ASSUME NEW n \in Nat, NEW count \in [0..n-1 -> Nat], NEW i \in 0..n-1
  PROVE  Row(RowOffsets(count, n), count, i)
           \subseteq 0 .. (TotalNeighbors(count, RowOffsets(count, n), n) - 1)
<1> DEFINE P == PrefixSum(count, n)
<1>1. /\ P \in [0..n -> Nat]
      /\ \A k \in 0..n-1 : P[k+1] = P[k] + count[k]
  BY PrefixSumStep
<1>2. P[i+1] <= P[n]
  BY PrefixSumMonotone
<1>3. \A k \in 0..n-1 : RowOffsets(count, n)[k] = P[k]
  BY DEF RowOffsets
<1> HIDE DEF P
<1>4. n # 0 /\ n-1 \in 0..n-1
  OBVIOUS
<1>5. TotalNeighbors(count, RowOffsets(count, n), n) = P[n]
  <2>1. P[n-1+1] = P[n-1] + count[n-1]
    BY <1>1, <1>4
  <2>2. P[n-1] \in Nat /\ count[n-1] \in Nat
    BY <1>1, <1>4
  <2>3. QED
    BY <1>3, <1>4, <2>1, <2>2 DEF TotalNeighbors
<1>6. Row(RowOffsets(count, n), count, i) = P[i] .. (P[i] + count[i] - 1)
  BY <1>3 DEF Row
<1>7. P[i] \in Nat /\ P[i] + count[i] <= P[n] /\ P[n] \in Nat /\ count[i] \in Nat
  BY <1>1, <1>2
<1>8. QED
  BY <1>5, <1>6, <1>7

-----------------------------------------------------------------------------
TileSizes(ss, k) == [i \in 0..k-1 |-> ss.in[i] * ss.out[i]]

(* What addTargets gives a solution set with k operations.                 *)
TilesOK(ss, k) ==
  /\ ss.in \in [0..k-1 -> Nat]
  /\ ss.out \in [0..k-1 -> Nat]
  /\ ss.offsets = RowOffsets(TileSizes(ss, k), k)
  /\ ss.total \in Nat
  /\ PrefixSum(TileSizes(ss, k), k)[k] <= ss.total

(* What it needs besides for the alphas of n targets.                      *)
TargetsOK(ss, n) ==
  /\ ss.counts \in [0..n-1 -> Nat]
  /\ ss.added \in Nat
  /\ ss.max_sites \in Nat

(* Multiplication by a natural number preserves order and naturals.        *)
LEMMA TimesMonotone ==
  ASSUME NEW a \in Nat, NEW b \in Nat, NEW w \in Nat, a <= b
  PROVE  a * w \in Nat /\ b * w \in Nat /\ a * w <= b * w
<1>1. a * w \in Nat /\ b * w \in Nat /\ (b - a) * w \in Nat
  OBVIOUS
<1>2. b * w = a * w + (b - a) * w
  OBVIOUS
<1>3. QED
  BY <1>1, <1>2

(* A row of w columns below row r ends before row r begins.                *)
LEMMA RowBelow ==
  ASSUME NEW a \in Nat, NEW r \in Nat, NEW w \in Nat, NEW b \in 0..w-1, a < r
  PROVE  a * w + b \in Nat /\ r * w \in Nat /\ a * w + b < r * w
<1>1. (a + 1) * w <= r * w /\ (a + 1) * w \in Nat /\ r * w \in Nat
  BY TimesMonotone
<1>2. (a + 1) * w = a * w + w /\ a * w \in Nat
  OBVIOUS
<1>3. QED
  BY <1>1, <1>2

(* So row and column are determined by the place.                          *)
LEMMA RowAndColumn ==
  ASSUME NEW w \in Nat, NEW a \in Nat, NEW c \in Nat, NEW b \in 0..w-1, NEW e \in 0..w-1,
         a * w + b = c * w + e
  PROVE  a = c /\ b = e
<1>1. ~ (a < c)
  <2>1. SUFFICES ASSUME a < c PROVE FALSE
    OBVIOUS
  <2>2. a * w + b < c * w /\ c * w \in Nat
    BY <2>1, RowBelow
  <2>3. QED
    BY <2>2
<1>2. ~ (c < a)
  <2>1. SUFFICES ASSUME c < a PROVE FALSE
    OBVIOUS
  <2>2. c * w + e < a * w /\ a * w \in Nat
    BY <2>1, RowBelow
  <2>3. QED
    BY <2>2
<1>3. a = c
  BY <1>1, <1>2
<1>4. a * w \in Nat
  OBVIOUS
<1>5. QED
  BY <1>3, <1>4

(* Tile and prefix sums of k operations, in terms the proofs below use.    *)
LEMMA TileFacts ==
  ASSUME NEW ss, NEW k \in Nat, TilesOK(ss, k)
  PROVE  /\ TileSizes(ss, k) \in [0..k-1 -> Nat]
         /\ \A i \in 0..k-1 : /\ ss.offsets[i] \in Nat
                              /\ ss.in[i] \in Nat /\ ss.out[i] \in Nat
                              /\ ss.in[i] * ss.out[i] \in Nat
                              /\ ss.offsets[i] + ss.in[i] * ss.out[i] <= ss.total
         /\ \A i, j \in 0..k-1 :
              i < j => ss.offsets[i] + ss.in[i] * ss.out[i] <= ss.offsets[j]
<1> DEFINE T == TileSizes(ss, k)
           P == PrefixSum(T, k)
<1>1. \A i \in 0..k-1 : ss.in[i] \in Nat /\ ss.out[i] \in Nat
  BY DEF TilesOK
<1>2. \A a, b \in Nat : a * b \in Nat
  OBVIOUS
<1>3. \A i \in 0..k-1 : ss.in[i] * ss.out[i] \in Nat
  BY <1>1, <1>2
<1>4. T \in [0..k-1 -> Nat]
  BY <1>3 DEF TileSizes
<1> HIDE DEF T
<1>5. P \in [0..k -> Nat] /\ \A i \in 0..k-1 : P[i+1] = P[i] + T[i]
  BY <1>4, PrefixSumStep
<1>6. \A i, j \in 0..k : i <= j => P[i] <= P[j]
  BY <1>4, PrefixSumMonotone
<1>7. \A i \in 0..k-1 : ss.offsets[i] = P[i] /\ T[i] = ss.in[i] * ss.out[i]
  BY DEF TilesOK, RowOffsets, TileSizes, T
<1>8. P[k] <= ss.total /\ ss.total \in Nat
  BY DEF TilesOK, T
<1> HIDE DEF P
<1>9. ASSUME NEW i \in 0..k-1, NEW j \in 0..k, i < j
      PROVE  ss.offsets[i] + ss.in[i] * ss.out[i] <= P[j]
  <2>1. i + 1 \in 0..k /\ i + 1 <= j
    BY <1>9
  <2>2. P[i+1] <= P[j] /\ P[i+1] = P[i] + T[i]
    BY <1>5, <1>6, <2>1
  <2>3. QED
    BY <1>7, <2>2
<1>10. ASSUME NEW i \in 0..k-1
       PROVE  /\ ss.offsets[i] \in Nat
              /\ ss.offsets[i] + ss.in[i] * ss.out[i] <= ss.total
  <2>1. ss.offsets[i] + ss.in[i] * ss.out[i] <= P[k] /\ k \in 0..k
    BY <1>9
  <2>2. P[k] \in Nat /\ P[i] \in Nat
    BY <1>5
  <2>3. ss.offsets[i] \in Nat /\ ss.in[i] * ss.out[i] \in Nat
    BY <1>3, <1>7, <2>2
  <2>4. ss.offsets[i] + ss.in[i] * ss.out[i] \in Nat
    BY <2>3
  <2>5. QED
    BY <1>8, <2>1, <2>2, <2>3, <2>4
<1>11. ASSUME NEW i \in 0..k-1, NEW j \in 0..k-1, i < j
       PROVE  ss.offsets[i] + ss.in[i] * ss.out[i] <= ss.offsets[j]
  BY <1>7, <1>9, <1>11
<1>12. T = TileSizes(ss, k)
  BY DEF T
<1>13. QED
  BY <1>1, <1>3, <1>4, <1>10, <1>11, <1>12

(* The position of a component in its operation's tile is within the tile. *)
LEMMA WithinTile ==
  ASSUME NEW in \in Nat, NEW out \in Nat, NEW a \in 0..in-1, NEW b \in 0..out-1
  PROVE  /\ a * out + b \in Nat
         /\ in * out \in Nat
         /\ a * out + b < in * out
  BY RowBelow

(* The position of operation and components within the rows of one site.   *)
RowInSite(ss, lro, input, output) == ss.offsets[lro] + (input * ss.out[lro] + output)

LEMMA RowInSiteBound ==
  ASSUME NEW ss, NEW k \in Nat, TilesOK(ss, k), NEW i \in 0..k-1,
         NEW a \in 0..ss.in[i]-1, NEW b \in 0..ss.out[i]-1
  PROVE  RowInSite(ss, i, a, b) \in 0..ss.total-1
<1>1. /\ ss.offsets[i] \in Nat /\ ss.in[i] \in Nat /\ ss.out[i] \in Nat
      /\ ss.offsets[i] + ss.in[i] * ss.out[i] <= ss.total
  BY TileFacts
<1>2. /\ a * ss.out[i] + b \in Nat
      /\ ss.in[i] * ss.out[i] \in Nat
      /\ a * ss.out[i] + b < ss.in[i] * ss.out[i]
  BY <1>1, WithinTile
<1>3. ss.total \in Nat
  BY DEF TilesOK
<1>4. QED
  BY <1>1, <1>2, <1>3 DEF RowInSite

LEMMA RowInSiteUnique ==
  ASSUME NEW ss, NEW k \in Nat, TilesOK(ss, k),
         NEW i \in 0..k-1, NEW a \in 0..ss.in[i]-1, NEW b \in 0..ss.out[i]-1,
         NEW j \in 0..k-1, NEW c \in 0..ss.in[j]-1, NEW e \in 0..ss.out[j]-1,
         RowInSite(ss, i, a, b) = RowInSite(ss, j, c, e)
  PROVE  i = j /\ a = c /\ b = e
<1>1. /\ \A l \in 0..k-1 : /\ ss.offsets[l] \in Nat
                           /\ ss.in[l] \in Nat /\ ss.out[l] \in Nat
      /\ \A l, m \in 0..k-1 :
           l < m => ss.offsets[l] + ss.in[l] * ss.out[l] <= ss.offsets[m]
  BY TileFacts
<1>2. /\ a * ss.out[i] + b \in Nat /\ ss.in[i] * ss.out[i] \in Nat
      /\ a * ss.out[i] + b < ss.in[i] * ss.out[i]
  BY <1>1, WithinTile
<1>3. /\ c * ss.out[j] + e \in Nat /\ ss.in[j] * ss.out[j] \in Nat
      /\ c * ss.out[j] + e < ss.in[j] * ss.out[j]
  BY <1>1, WithinTile
<1>4. ss.offsets[i] + (a * ss.out[i] + b) = ss.offsets[j] + (c * ss.out[j] + e)
  BY DEF RowInSite
<1>5. ~ (i < j)
  <2>1. SUFFICES ASSUME i < j PROVE FALSE
    OBVIOUS
  <2>2. ss.offsets[i] + ss.in[i] * ss.out[i] <= ss.offsets[j]
    BY <1>1, <2>1
  <2>3. ss.offsets[i] \in Nat /\ ss.offsets[j] \in Nat
    BY <1>1
  <2>4. QED
    BY <1>2, <1>3, <1>4, <2>2, <2>3
<1>6. ~ (j < i)
  <2>1. SUFFICES ASSUME j < i PROVE FALSE
    OBVIOUS
  <2>2. ss.offsets[j] + ss.in[j] * ss.out[j] <= ss.offsets[i]
    BY <1>1, <2>1
  <2>3. ss.offsets[i] \in Nat /\ ss.offsets[j] \in Nat
    BY <1>1
  <2>4. QED
    BY <1>2, <1>3, <1>4, <2>2, <2>3
<1>7. i = j
  BY <1>5, <1>6
<1>8. a * ss.out[i] + b = c * ss.out[i] + e
  <2>1. ss.offsets[i] \in Nat
    BY <1>1
  <2>2. QED
    BY <1>2, <1>3, <1>4, <1>7, <2>1
<1>9. a = c /\ b = e
  <2>1. a \in Nat /\ c \in Nat /\ ss.out[i] \in Nat
    BY <1>1, <1>7
  <2>2. e \in 0..ss.out[i]-1
    BY <1>7
  <2>3. QED
    BY <1>8, <2>1, <2>2, RowAndColumn
<1>10. QED
  BY <1>7, <1>9

(***************************************************************************)
(* getTargetOffsetIndex gives each site, operation and pair of components  *)
(* a row of P_target_row of its own, below total * max_sites.              *)
(***************************************************************************)
THEOREM RowsUnique ==
  ASSUME NEW ss, NEW k \in Nat, TilesOK(ss, k),
         NEW i \in 0..k-1, NEW a \in 0..ss.in[i]-1, NEW b \in 0..ss.out[i]-1, NEW p \in Nat,
         NEW j \in 0..k-1, NEW c \in 0..ss.in[j]-1, NEW e \in 0..ss.out[j]-1, NEW q \in Nat,
         getTargetOffsetIndex(ss, i, a, b, p) = getTargetOffsetIndex(ss, j, c, e, q)
  PROVE  i = j /\ a = c /\ b = e /\ p = q
<1>1. /\ RowInSite(ss, i, a, b) \in 0..ss.total-1
      /\ RowInSite(ss, j, c, e) \in 0..ss.total-1
  BY RowInSiteBound
<1>2. ss.total \in Nat
  BY DEF TilesOK
<1>3. ss.total * p + RowInSite(ss, i, a, b) = ss.total * q + RowInSite(ss, j, c, e)
  BY DEF getTargetOffsetIndex, RowInSite
<1>4. ss.total * p = p * ss.total /\ ss.total * q = q * ss.total
  BY <1>2
<1>5. p * ss.total + RowInSite(ss, i, a, b) = q * ss.total + RowInSite(ss, j, c, e)
  BY <1>3, <1>4
<1>6. p = q /\ RowInSite(ss, i, a, b) = RowInSite(ss, j, c, e)
  <2> DEFINE x == RowInSite(ss, i, a, b)
             y == RowInSite(ss, j, c, e)
             w == ss.total
  <2>1. x \in 0..w-1 /\ y \in 0..w-1 /\ w \in Nat /\ p * w + x = q * w + y
    BY <1>1, <1>2, <1>5
  <2>a. p \in Nat /\ q \in Nat
    OBVIOUS
  <2> HIDE DEF x, y, w
  <2>2. p = q /\ x = y
    <3>1. w \in Nat /\ p \in Nat /\ q \in Nat /\ x \in 0..w-1 /\ y \in 0..w-1
      BY <2>1, <2>a
    <3>2. p * w + x = q * w + y
      BY <2>1
    <3>3. QED
      BY <3>1, <3>2, RowAndColumn
  <2>3. QED
    BY <2>2 DEF x, y
<1>7. i = j /\ a = c /\ b = e
  BY <1>6, RowInSiteUnique
<1>8. QED
  BY <1>6, <1>7

THEOREM RowsBounded ==
  ASSUME NEW ss, NEW k \in Nat, TilesOK(ss, k), ss.max_sites \in Nat,
         NEW i \in 0..k-1, NEW a \in 0..ss.in[i]-1, NEW b \in 0..ss.out[i]-1,
         NEW p \in 0..ss.max_sites-1
  PROVE  getTargetOffsetIndex(ss, i, a, b, p) \in 0..ss.total*ss.max_sites-1
<1>1. RowInSite(ss, i, a, b) \in 0..ss.total-1
  BY RowInSiteBound
<1>2. ss.total \in Nat /\ p \in Nat /\ p < ss.max_sites
  BY DEF TilesOK
<1>3. /\ p * ss.total + RowInSite(ss, i, a, b) \in Nat
      /\ ss.max_sites * ss.total \in Nat
      /\ p * ss.total + RowInSite(ss, i, a, b) < ss.max_sites * ss.total
  BY <1>1, <1>2, RowBelow
<1>4. ss.total * p = p * ss.total /\ ss.max_sites * ss.total = ss.total * ss.max_sites
  BY <1>2
<1>5. getTargetOffsetIndex(ss, i, a, b, p) = p * ss.total + RowInSite(ss, i, a, b)
  BY <1>4 DEF getTargetOffsetIndex, RowInSite
<1>6. QED
  BY <1>3, <1>4, <1>5

(* What the targets before t and t itself take of the columns.             *)
LEMMA ColumnFacts ==
  ASSUME NEW ss, NEW n \in Nat, TargetsOK(ss, n)
  PROVE  /\ \A t \in 0..n-1 : ColumnsBefore(ss, n, t) \in Nat /\ AlphasPerTile(ss, t) \in Nat
         /\ \A t, u \in 0..n-1 :
              t < u => ColumnsBefore(ss, n, t) + AlphasPerTile(ss, t) <= ColumnsBefore(ss, n, u)
         /\ \A t \in 0..n-1 :
              ColumnsBefore(ss, n, t) + AlphasPerTile(ss, t)
                <= TotalNeighbors(ss.counts, RowOffsets(ss.counts, n), n) + n * ss.added
         /\ TotalNeighbors(ss.counts, RowOffsets(ss.counts, n), n) + n * ss.added \in Nat
<1> DEFINE C == ss.counts
           P == PrefixSum(C, n)
           m == ss.added
           Total == TotalNeighbors(C, RowOffsets(C, n), n)
<1>1. C \in [0..n-1 -> Nat] /\ m \in Nat
  BY DEF TargetsOK
<1> HIDE DEF C, m
<1>2. /\ P \in [0..n -> Nat] /\ P[0] = 0
      /\ \A i \in 0..n-1 : P[i+1] = P[i] + C[i]
  BY <1>1, PrefixSumStep
<1>3. \A i, j \in 0..n : i <= j => P[i] <= P[j]
  BY <1>1, PrefixSumMonotone
<1>4. \A i \in 0..n-1 : RowOffsets(C, n)[i] = P[i]
  BY DEF RowOffsets
<1> HIDE DEF P
<1>5. Total = P[n]
  <2>1. CASE n = 0
    BY <1>2, <2>1 DEF TotalNeighbors
  <2>2. CASE n # 0
    <3>1. n-1 \in 0..n-1
      BY <2>2
    <3>2. P[n-1+1] = P[n-1] + C[n-1]
      BY <1>2, <3>1
    <3>3. P[n-1] \in Nat /\ C[n-1] \in Nat
      BY <1>1, <1>2, <3>1
    <3>4. QED
      BY <1>4, <2>2, <3>1, <3>2, <3>3 DEF TotalNeighbors
  <2>3. QED
    BY <2>1, <2>2
<1> HIDE DEF Total
<1>6. ASSUME NEW t \in 0..n-1, NEW u \in 0..n, t < u
      PROVE  P[t] + t * m + (C[t] + m) <= P[u] + u * m
  <2>1. t + 1 \in 0..n /\ t + 1 <= u /\ t + 1 \in Nat /\ t \in Nat /\ u \in Nat
    BY <1>6
  <2>2. P[t+1] <= P[u] /\ P[t+1] = P[t] + C[t]
    BY <1>2, <1>3, <2>1
  <2>3. (t + 1) * m <= u * m /\ u * m \in Nat
    BY <1>1, <2>1, TimesMonotone
  <2>4. (t + 1) * m = t * m + m /\ t * m \in Nat
    BY <1>1, <2>1
  <2>5. P[t] \in Nat /\ P[u] \in Nat /\ C[t] \in Nat
    BY <1>1, <1>2
  <2> DEFINE x == t * m
             y == u * m
             z == (t + 1) * m
  <2>6. z <= y /\ y \in Nat /\ z = x + m /\ x \in Nat
    BY <2>3, <2>4
  <2> HIDE DEF x, y, z
  <2>7. P[t] + x + (C[t] + m) <= P[u] + y
    BY <1>1, <2>2, <2>5, <2>6
  <2>8. QED
    BY <2>7 DEF x, y
<1>7. ASSUME NEW t \in 0..n-1
      PROVE  /\ ColumnsBefore(ss, n, t) = P[t] + t * m
             /\ AlphasPerTile(ss, t) = C[t] + m
             /\ P[t] + t * m \in Nat
             /\ C[t] + m \in Nat
  <2>1. P[t] \in Nat /\ C[t] \in Nat /\ t * m \in Nat
    BY <1>1, <1>2
  <2> DEFINE x == t * m
  <2>a. P[t] \in Nat /\ C[t] \in Nat /\ x \in Nat
    BY <2>1
  <2> HIDE DEF x
  <2>b. P[t] + x \in Nat /\ C[t] + m \in Nat
    BY <1>1, <2>a
  <2>2. P[t] + t * m \in Nat /\ C[t] + m \in Nat
    BY <2>b DEF x
  <2>3. ColumnsBefore(ss, n, t) = P[t] + t * m
    BY DEF ColumnsBefore, P, C, m
  <2>4. AlphasPerTile(ss, t) = C[t] + m
    BY DEF AlphasPerTile, C, m
  <2>5. QED
    BY <2>2, <2>3, <2>4
<1>8. Total + n * m \in Nat
  <2>1. P[n] \in Nat /\ n * m \in Nat
    BY <1>1, <1>2
  <2>2. QED
    BY <1>5, <2>1
<1>9. \A t \in 0..n-1 : P[t] + t * m + (C[t] + m) <= P[n] + n * m
  <2>1. \A t \in 0..n-1 : t < n /\ n \in 0..n
    OBVIOUS
  <2>2. QED
    BY <1>6, <2>1
<1>10. \A t, u \in 0..n-1 : t < u => P[t] + t * m + (C[t] + m) <= P[u] + u * m
  <2>1. \A u \in 0..n-1 : u \in 0..n
    OBVIOUS
  <2>2. QED
    BY <1>6, <2>1
<1>11. TotalNeighbors(ss.counts, RowOffsets(ss.counts, n), n) + n * ss.added = Total + n * m
  BY DEF Total, C, m
<1>12. QED
  BY <1>5, <1>7, <1>8, <1>9, <1>10, <1>11

(* The block of a target starts at ColumnsBefore times the number of rows, *)
(* and row and column have a position within the block.                    *)
Rows(ss) == ss.total * ss.max_sites

InBlock(ss, s) ==
  getTargetOffsetIndex(ss, s.lro, s.input, s.output, s.site) * AlphasPerTile(ss, s.t)
    + s.column

LEMMA SlotFields ==
  ASSUME NEW ss, NEW k \in Nat, TilesOK(ss, k), NEW n, NEW s \in Slots(ss, n)
  PROVE  /\ s.t \in 0..n-1 /\ s.lro \in 0..k-1
         /\ s.input \in 0..ss.in[s.lro]-1 /\ s.output \in 0..ss.out[s.lro]-1
         /\ s.site \in 0..ss.max_sites-1 /\ s.column \in 0..AlphasPerTile(ss, s.t)-1
         /\ s = [t |-> s.t, lro |-> s.lro, input |-> s.input, output |-> s.output,
                 site |-> s.site, column |-> s.column]
<1>1. DOMAIN ss.offsets = 0..k-1
  BY DEF TilesOK, RowOffsets
<1>2. PICK t \in 0..n-1, lro \in 0..k-1 : s \in SlotsOf(ss, t, lro)
  BY <1>1 DEF Slots
<1>3. QED
  BY <1>2 DEF SlotsOf

LEMMA InBlockBound ==
  ASSUME NEW ss, NEW k \in Nat, TilesOK(ss, k), NEW n \in Nat, TargetsOK(ss, n),
         NEW s \in Slots(ss, n)
  PROVE  /\ Rows(ss) \in Nat /\ AlphasPerTile(ss, s.t) \in Nat
         /\ Rows(ss) * AlphasPerTile(ss, s.t) \in Nat
         /\ InBlock(ss, s) \in Nat
         /\ InBlock(ss, s) < Rows(ss) * AlphasPerTile(ss, s.t)
<1> DEFINE row == getTargetOffsetIndex(ss, s.lro, s.input, s.output, s.site)
           w == AlphasPerTile(ss, s.t)
           R == Rows(ss)
<1>1. /\ s.t \in 0..n-1 /\ s.lro \in 0..k-1
      /\ s.input \in 0..ss.in[s.lro]-1 /\ s.output \in 0..ss.out[s.lro]-1
      /\ s.site \in 0..ss.max_sites-1 /\ s.column \in 0..w-1
  BY SlotFields
<1>2. ss.total \in Nat /\ ss.max_sites \in Nat
  BY DEF TilesOK, TargetsOK
<1>3. R \in Nat
  BY <1>2 DEF Rows
<1>4. w \in Nat
  BY <1>1, ColumnFacts
<1>5. row \in 0..R-1
  BY <1>1, <1>2, RowsBounded DEF Rows
<1> HIDE DEF row, w, R
<1>6. row \in Nat /\ row < R
  BY <1>3, <1>5
<1>7. row * w + s.column \in Nat /\ R * w \in Nat /\ row * w + s.column < R * w
  BY <1>1, <1>3, <1>4, <1>6, RowBelow
<1>8. QED
  BY <1>3, <1>4, <1>7 DEF InBlock, row, w, R

LEMMA PlaceInBlock ==
  ASSUME NEW ss, NEW k \in Nat, TilesOK(ss, k), NEW n \in Nat, TargetsOK(ss, n),
         NEW s \in Slots(ss, n)
  PROVE  /\ ColumnsBefore(ss, n, s.t) * Rows(ss) \in Nat
         /\ Place(ss, n, s) = ColumnsBefore(ss, n, s.t) * Rows(ss) + InBlock(ss, s)
<1> DEFINE row == getTargetOffsetIndex(ss, s.lro, s.input, s.output, s.site)
           w == AlphasPerTile(ss, s.t)
           R == Rows(ss)
           c == ColumnsBefore(ss, n, s.t)
           x == c * R
           y == row * w
<1>1. s.t \in 0..n-1 /\ s.lro \in 0..k-1 /\ s.column \in 0..w-1
      /\ s.input \in 0..ss.in[s.lro]-1 /\ s.output \in 0..ss.out[s.lro]-1
      /\ s.site \in 0..ss.max_sites-1
  BY SlotFields
<1>2. c \in Nat /\ w \in Nat
  BY <1>1, ColumnFacts
<1>3. R \in Nat
  BY InBlockBound
<1>4. row \in Nat
  <2>1. row \in 0..R-1
    BY <1>1, RowsBounded DEF Rows, TargetsOK
  <2>2. QED
    BY <2>1
<1>5. Place(ss, n, s) = (x + y) + s.column
  BY DEF Place, getAlphaIndex, Rows
<1>6. InBlock(ss, s) = y + s.column
  BY DEF InBlock
<1> HIDE DEF row, w, R, c
<1>7. x \in Nat /\ y \in Nat
  BY <1>2, <1>3, <1>4
<1> HIDE DEF x, y
<1>8. Place(ss, n, s) = x + InBlock(ss, s)
  BY <1>1, <1>2, <1>5, <1>6, <1>7
<1>9. QED
  BY <1>7, <1>8 DEF x, c, R

(* A block ends before the next one begins.                                *)
LEMMA BlocksDisjoint ==
  ASSUME NEW ss, NEW k \in Nat, TilesOK(ss, k), NEW n \in Nat, TargetsOK(ss, n),
         NEW s \in Slots(ss, n), NEW u \in Slots(ss, n), s.t < u.t
  PROVE  Place(ss, n, s) < Place(ss, n, u)
<1> DEFINE R == Rows(ss)
           w == AlphasPerTile(ss, s.t)
           c == ColumnsBefore(ss, n, s.t)
           e == ColumnsBefore(ss, n, u.t)
<1>1. s.t \in 0..n-1 /\ u.t \in 0..n-1
  BY SlotFields
<1>2. c \in Nat /\ w \in Nat /\ e \in Nat /\ c + w <= e
  BY <1>1, ColumnFacts
<1>3. /\ R \in Nat
      /\ InBlock(ss, s) \in Nat /\ R * w \in Nat /\ InBlock(ss, s) < R * w
      /\ InBlock(ss, u) \in Nat
  BY InBlockBound
<1>4. /\ c * R \in Nat /\ Place(ss, n, s) = c * R + InBlock(ss, s)
      /\ e * R \in Nat /\ Place(ss, n, u) = e * R + InBlock(ss, u)
  BY PlaceInBlock
<1> HIDE DEF R, w, c, e
<1>5. (c + w) * R <= e * R
  BY <1>2, <1>3, TimesMonotone
<1>6. (c + w) * R = c * R + R * w
  BY <1>2, <1>3
<1> DEFINE x == c * R
           y == e * R
           z == R * w
<1>7. x \in Nat /\ y \in Nat /\ z \in Nat /\ x + z <= y /\ InBlock(ss, s) < z
  BY <1>3, <1>4, <1>5, <1>6
<1>8. Place(ss, n, s) = x + InBlock(ss, s) /\ Place(ss, n, u) = y + InBlock(ss, u)
  BY <1>4
<1> HIDE DEF x, y, z
<1>9. QED
  BY <1>3, <1>7, <1>8

(***************************************************************************)
(* Every alpha that the kernels of ApplyTargetEvaluations.hpp write has a  *)
(* place of its own.                                                       *)
(***************************************************************************)
THEOREM PlaceUnique ==
  ASSUME NEW ss, NEW k \in Nat, TilesOK(ss, k), NEW n \in Nat, TargetsOK(ss, n),
         NEW s \in Slots(ss, n), NEW u \in Slots(ss, n),
         Place(ss, n, s) = Place(ss, n, u)
  PROVE  s = u
<1> DEFINE P == Place(ss, n, s)
           Q == Place(ss, n, u)
           w == AlphasPerTile(ss, s.t)
           row == getTargetOffsetIndex(ss, s.lro, s.input, s.output, s.site)
           other == getTargetOffsetIndex(ss, u.lro, u.input, u.output, u.site)
<1>1. /\ s.t \in 0..n-1 /\ s.lro \in 0..k-1
      /\ s.input \in 0..ss.in[s.lro]-1 /\ s.output \in 0..ss.out[s.lro]-1
      /\ s.site \in 0..ss.max_sites-1 /\ s.column \in 0..w-1
      /\ s = [t |-> s.t, lro |-> s.lro, input |-> s.input, output |-> s.output,
              site |-> s.site, column |-> s.column]
  BY SlotFields
<1>2. /\ u.t \in 0..n-1 /\ u.lro \in 0..k-1
      /\ u.input \in 0..ss.in[u.lro]-1 /\ u.output \in 0..ss.out[u.lro]-1
      /\ u.site \in 0..ss.max_sites-1 /\ u.column \in 0..AlphasPerTile(ss, u.t)-1
      /\ u = [t |-> u.t, lro |-> u.lro, input |-> u.input, output |-> u.output,
              site |-> u.site, column |-> u.column]
  BY SlotFields
<1>3. /\ ColumnsBefore(ss, n, s.t) * Rows(ss) \in Nat
      /\ P = ColumnsBefore(ss, n, s.t) * Rows(ss) + InBlock(ss, s)
      /\ ColumnsBefore(ss, n, u.t) * Rows(ss) \in Nat
      /\ Q = ColumnsBefore(ss, n, u.t) * Rows(ss) + InBlock(ss, u)
  BY PlaceInBlock
<1>4. InBlock(ss, s) \in Nat /\ InBlock(ss, u) \in Nat
  BY InBlockBound
<1>5. s.t = u.t
  <2>1. P \in Nat /\ Q \in Nat
    <3> DEFINE x == ColumnsBefore(ss, n, s.t) * Rows(ss)
               y == ColumnsBefore(ss, n, u.t) * Rows(ss)
    <3>1. x \in Nat /\ y \in Nat /\ P = x + InBlock(ss, s) /\ Q = y + InBlock(ss, u)
      BY <1>3
    <3> HIDE DEF x, y, P, Q
    <3>2. QED
      BY <1>4, <3>1
  <2>2. ~ (s.t < u.t)
    <3>1. SUFFICES ASSUME s.t < u.t PROVE FALSE
      OBVIOUS
    <3>2. P < Q
      BY <3>1, BlocksDisjoint
    <3>3. QED
      BY <2>1, <3>2
  <2>3. ~ (u.t < s.t)
    <3>1. SUFFICES ASSUME u.t < s.t PROVE FALSE
      OBVIOUS
    <3>2. Q < P
      BY <3>1, BlocksDisjoint
    <3>3. QED
      BY <2>1, <3>2
  <2>4. QED
    BY <1>1, <1>2, <2>2, <2>3
<1>6. InBlock(ss, s) = InBlock(ss, u)
  <2> DEFINE x == ColumnsBefore(ss, n, s.t) * Rows(ss)
  <2>1. /\ x \in Nat
        /\ x + InBlock(ss, s) = x + InBlock(ss, u)
    BY <1>3, <1>5
  <2> HIDE DEF x
  <2>2. QED
    BY <1>4, <2>1
<1>7. w \in Nat
  BY <1>1, ColumnFacts
<1>8. ss.max_sites \in Nat
  BY DEF TargetsOK
<1>9. row \in Nat /\ other \in Nat
  <2>1. row \in 0..ss.total*ss.max_sites-1
    BY <1>1, <1>8, RowsBounded
  <2>2. other \in 0..ss.total*ss.max_sites-1
    BY <1>2, <1>8, RowsBounded
  <2> HIDE DEF row, other
  <2>3. QED
    BY <2>1, <2>2
<1>10. row = other /\ s.column = u.column
  <2>1. row * w + s.column = other * w + u.column
    BY <1>5, <1>6 DEF InBlock
  <2>2. s.column \in 0..w-1 /\ u.column \in 0..w-1
    BY <1>1, <1>2, <1>5
  <2> HIDE DEF row, other, w
  <2>3. QED
    BY <1>7, <1>9, <2>1, <2>2, RowAndColumn
<1>11. s.lro = u.lro /\ s.input = u.input /\ s.output = u.output /\ s.site = u.site
  <2>1. s.site \in Nat /\ u.site \in Nat
    BY <1>1, <1>2
  <2>2. QED
    BY <1>1, <1>2, <1>10, <2>1, RowsUnique
<1>12. QED
  BY <1>1, <1>2, <1>5, <1>10, <1>11

(***************************************************************************)
(* And it is inside the array that generatePolynomialCoefficients          *)
(* allocates.                                                              *)
(***************************************************************************)
THEOREM PlaceAllocated ==
  ASSUME NEW ss, NEW k \in Nat, TilesOK(ss, k), NEW n \in Nat, TargetsOK(ss, n),
         NEW s \in Slots(ss, n)
  PROVE  /\ AlphasExtent(ss, n) \in Nat
         /\ Place(ss, n, s) \in 0..AlphasExtent(ss, n)-1
<1> DEFINE R == Rows(ss)
           w == AlphasPerTile(ss, s.t)
           c == ColumnsBefore(ss, n, s.t)
           N == TotalNeighbors(ss.counts, RowOffsets(ss.counts, n), n) + n * ss.added
<1>1. s.t \in 0..n-1
  BY SlotFields
<1>2. c \in Nat /\ w \in Nat /\ N \in Nat /\ c + w <= N
  BY <1>1, ColumnFacts
<1>3. /\ R \in Nat
      /\ InBlock(ss, s) \in Nat /\ R * w \in Nat /\ InBlock(ss, s) < R * w
  BY InBlockBound
<1>4. c * R \in Nat /\ Place(ss, n, s) = c * R + InBlock(ss, s)
  BY PlaceInBlock
<1>5. AlphasExtent(ss, n) = N * R
  BY DEF AlphasExtent, Rows
<1> HIDE DEF R, w, c, N
<1>6. (c + w) * R <= N * R /\ N * R \in Nat
  BY <1>2, <1>3, TimesMonotone
<1>7. (c + w) * R = c * R + R * w
  BY <1>2, <1>3
<1> DEFINE x == c * R
           y == N * R
           z == R * w
<1>8. /\ x \in Nat /\ y \in Nat /\ z \in Nat /\ x + z <= y /\ InBlock(ss, s) < z
      /\ Place(ss, n, s) = x + InBlock(ss, s) /\ AlphasExtent(ss, n) = y
  BY <1>3, <1>4, <1>5, <1>6, <1>7
<1> HIDE DEF x, y, z
<1>9. QED
  BY <1>3, <1>8
=============================================================================
