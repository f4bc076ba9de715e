------------------------- MODULE BatchKernelsProofs -------------------------
(***************************************************************************)
(* The properties of BatchKernels for every number of targets, batches and *)
(* calls, and problems of every size.  First the sizes of BatchLayout and  *)
(* TeamScratch: slices of the targets of a batch are apart and within the  *)
(* arrays, and kernels and solver find the scratch memory they take.       *)
(***************************************************************************)
EXTENDS BatchKernels, LayoutProofs

(* The problems of BatchKernels, as far as sizes depend on them.           *)
Sized(q) ==
  /\ q.problem \in {"STANDARD", "MANIFOLD"}
  /\ q.order \in Nat /\ q.curvature_order \in Nat
  /\ q.dims \in {1, 2, 3} /\ (OnManifold(q) => q.dims > 1)
  /\ q.max_neighbors \in Nat /\ q.alpha_rows \in Nat

LEMMA TimesNat == \A a, b \in Nat : a * b \in Nat
OBVIOUS

LEMMA ScalarTaylorNat ==
  ASSUME NEW m \in Nat, NEW d PROVE ScalarTaylorSize(m, d) \in Nat
<1>1. (m + 1) * (m + 2) \in Nat /\ (m + 1) * (m + 2) * (m + 3) \in Nat
  BY TimesNat
<1>2. \A a \in Nat : a \div 6 \in Nat /\ a \div 2 \in Nat
  OBVIOUS
<1>3. QED
  BY <1>1, <1>2 DEF ScalarTaylorSize

LEMMA getNPNat ==
  ASSUME NEW m \in Nat, NEW d \in {1, 2, 3}, NEW space PROVE getNP(m, d, space) \in Nat
<1>1. ScalarTaylorSize(m, d) \in Nat /\ ScalarTaylorSize(m, d-1) \in Nat /\ d-1 \in Nat
  BY ScalarTaylorNat
<1>2. (d-1) * ScalarTaylorSize(m, d) \in Nat
  BY <1>1, TimesNat
<1>3. QED
  BY <1>1, <1>2 DEF getNP, DivergenceFreeSize

(* Multipliers, rows and columns are numbers; columns suffice for each     *)
(* basis by itself.                                                        *)
LEMMA Columns ==
  ASSUME NEW q, Sized(q)
  PROVE  /\ LocalDimensions(q) \in {1, 2, 3}
         /\ calculateBasisMultiplier(q) \in {1, 2, 3}
         /\ max_num_rows(q) \in Nat /\ NP(q) \in Nat
         /\ OnManifold(q) => manifold_NP(q) \in Nat
         /\ CallerColumns(q) \in Nat /\ SolutionColumns(q) \in Nat
         /\ SolutionColumns(q) <= CallerColumns(q)
         /\ OnManifold(q) => manifold_NP(q) <= CallerColumns(q)
         /\ OnManifold(q) /\ manifold_NP(q) <= NP(q) => CallerColumns(q) = SolutionColumns(q)
         /\ ~ OnManifold(q) => CallerColumns(q) = SolutionColumns(q)
         /\ BasisColumns(q) = CallerColumns(q)
<1> DEFINE bm == calculateBasisMultiplier(q)
<1>1. LocalDimensions(q) \in {1, 2, 3}
  BY DEF Sized, LocalDimensions
<1>2. bm \in {1, 2, 3} /\ getOutputDimensionOfSampling(q) \in {1, 2, 3}
  BY <1>1 DEF calculateBasisMultiplier, getOutputDimensionOfSampling
<1>3. max_num_rows(q) \in Nat
  <2>1. calculateSamplingMultiplier(q) \in {1, 2, 3}
    BY <1>2 DEF calculateSamplingMultiplier
  <2>2. QED
    BY <2>1 DEF max_num_rows, Sized
<1>4. NP(q) \in Nat
  <2>1. PolyOrder(q) \in Nat
    BY DEF PolyOrder, Sized
  <2>2. QED
    BY <1>1, <2>1, getNPNat DEF NP
<1>5. OnManifold(q) => manifold_NP(q) \in Nat
  BY getNPNat DEF manifold_NP, Sized
<1>6. ASSUME OnManifold(q)
      PROVE  MaxManifoldNP(q) \in Nat /\ manifold_NP(q) <= MaxManifoldNP(q)
             /\ NP(q) <= MaxManifoldNP(q)
             /\ (manifold_NP(q) <= NP(q) => MaxManifoldNP(q) = NP(q))
  BY <1>4, <1>5, <1>6 DEF MaxManifoldNP, Larger
<1>7. \A a, b \in Nat : bm * a \in Nat /\ a <= bm * a /\ (a <= b => bm * a <= bm * b)
  BY <1>2
<1>8. SolutionColumns(q) = bm * NP(q) /\ BasisColumns(q) = CallerColumns(q)
  BY DEF SolutionColumns, BasisColumns, CallerColumns
<1>9. CASE OnManifold(q)
  <2>1. CallerColumns(q) = bm * MaxManifoldNP(q)
    BY <1>9 DEF CallerColumns
  <2>2. MaxManifoldNP(q) <= bm * MaxManifoldNP(q)
    BY <1>6, <1>7, <1>9
  <2>3. manifold_NP(q) <= CallerColumns(q) /\ CallerColumns(q) \in Nat
    BY <1>5, <1>6, <1>7, <1>9, <2>1, <2>2
  <2>4. QED
    BY <1>1, <1>2, <1>3, <1>4, <1>5, <1>6, <1>7, <1>8, <1>9, <2>1, <2>3
<1>10. CASE ~ OnManifold(q)
  <2>1. CallerColumns(q) = bm * NP(q)
    BY <1>10 DEF CallerColumns
  <2>2. QED
    BY <1>1, <1>2, <1>3, <1>4, <1>7, <1>8, <1>10, <2>1
<1>11. QED
  BY <1>9, <1>10

-----------------------------------------------------------------------------
(* Areas of slices.  A matrix of another shape that is no higher and no    *)
(* wider has no larger area.                                               *)
Area(dims) == dims[1] * dims[2]

LEMMA AreaMonotone ==
  ASSUME NEW a \in Nat, NEW b \in Nat, NEW c \in Nat, NEW d \in Nat, a <= c, b <= d
  PROVE  a * b \in Nat /\ c * d \in Nat /\ a * b <= c * d
<1>1. a * b \in Nat /\ c * b \in Nat /\ a * b <= c * b
  BY TimesMonotone
<1>2. b * c <= d * c
  BY TimesMonotone
<1>3. b * c = c * b /\ d * c = c * d /\ c * d \in Nat
  OBVIOUS
<1>4. QED
  BY <1>1, <1>2, <1>3

LEMMA Added ==
  ASSUME NEW q, Sized(q)
  PROVE  AddedAlphas(q) \in Nat /\ AddedCoefficients(q) \in Nat
<1>1. AddedAlphas(q) \in {0, 1}
  BY DEF AddedAlphas
<1>2. QED
  BY <1>1 DEF AddedCoefficients, Sized

(* The dimensions of a system with M rows and N columns have natural areas *)
(* that grow with N.                                                       *)
LEMMA DimsGrow ==
  ASSUME NEW q, Sized(q), NEW M \in Nat, NEW N \in Nat, NEW L \in Nat, N <= L
  PROVE  /\ Area(getPDims(q, M, N)) \in Nat /\ Area(getRHSDims(q, M, N)) \in Nat
         /\ Area(getPDims(q, M, N)) <= Area(getPDims(q, M, L))
         /\ Area(getRHSDims(q, M, N)) <= Area(getRHSDims(q, M, L))
<1> DEFINE a == AddedAlphas(q)
           c == AddedCoefficients(q)
<1>1. a \in Nat /\ c \in Nat
  BY Added
<1>2. CASE NormalEquations(q)
  <2>1. /\ getPDims(q, M, N) = <<M + a, N + c>> /\ getPDims(q, M, L) = <<M + a, L + c>>
        /\ getRHSDims(q, M, N) = <<N + c, N + c>> /\ getRHSDims(q, M, L) = <<L + c, L + c>>
    BY <1>2 DEF getPDims, getRHSDims
  <2>2. M + a \in Nat /\ N + c \in Nat /\ L + c \in Nat /\ N + c <= L + c
    BY <1>1
  <2> HIDE DEF a, c
  <2>3. /\ (M + a) * (N + c) \in Nat /\ (M + a) * (N + c) <= (M + a) * (L + c)
        /\ (N + c) * (N + c) \in Nat /\ (N + c) * (N + c) <= (L + c) * (L + c)
    BY <2>2, AreaMonotone
  <2>4. QED
    BY <2>1, <2>3 DEF Area
<1>3. CASE ~ NormalEquations(q)
  <2>1. /\ getPDims(q, M, N) = <<M, N>> /\ getPDims(q, M, L) = <<M, L>>
        /\ getRHSDims(q, M, N) = <<N, M>> /\ getRHSDims(q, M, L) = <<L, M>>
    BY <1>3 DEF getPDims, getRHSDims
  <2>2. /\ M * N \in Nat /\ M * N <= M * L
        /\ N * M \in Nat /\ N * M <= L * M
    BY AreaMonotone
  <2>3. QED
    BY <2>1, <2>2 DEF Area
<1>4. QED
  BY <1>2, <1>3

(* Dimensions of the kernels before ApplyTargets are those of the caller;  *)
(* slices by the dimensions of ApplyTargets are no larger.                 *)
Stored(q) == IF NormalEquations(q) THEN CallerDims(q).P ELSE CallerDims(q).RHS

LEMMA Areas ==
  ASSUME NEW q, Sized(q)
  PROVE  /\ BasisDims(q).P = CallerDims(q).P
         /\ BasisDims(q).RHS = CallerDims(q).RHS
         /\ BasisDims(q).Z = CallerDims(q).Z
         /\ Area(CallerDims(q).P) \in Nat /\ Area(CallerDims(q).RHS) \in Nat
         /\ Area(CallerDims(q).Z) \in Nat
         /\ Area(SolutionDims(q).Z) \in Nat
         /\ Area(SolutionDims(q).Z) <= Area(CallerDims(q).Z)
         /\ Area(SolutionDims(q).Coeffs) \in Nat
         /\ Area(SolutionDims(q).Coeffs) <= Area(Stored(q))
<1> DEFINE M == max_num_rows(q)
           N == SolutionColumns(q)
           L == CallerColumns(q)
<1>1. /\ M \in Nat /\ N \in Nat /\ L \in Nat /\ N <= L /\ BasisColumns(q) = L
      /\ q.alpha_rows \in Nat
  BY Columns DEF Sized
<1>2. /\ CallerDims(q).P = getPDims(q, M, L) /\ CallerDims(q).RHS = getRHSDims(q, M, L)
      /\ CallerDims(q).Z = <<q.alpha_rows, L>>
      /\ SolutionDims(q).Z = <<q.alpha_rows, N>>
      /\ SolutionDims(q).Coeffs = CoeffsDims(q, M, N)
      /\ BasisDims(q).P = getPDims(q, M, L) /\ BasisDims(q).RHS = getRHSDims(q, M, L)
      /\ BasisDims(q).Z = <<q.alpha_rows, L>>
  BY <1>1 DEF CallerDims, SolutionDims, BasisDims
<1> HIDE DEF M, N, L
<1>3. /\ Area(<<q.alpha_rows, L>>) \in Nat /\ Area(<<q.alpha_rows, N>>) \in Nat
      /\ Area(<<q.alpha_rows, N>>) <= Area(<<q.alpha_rows, L>>)
  BY <1>1, AreaMonotone DEF Area
<1>4. /\ Area(getPDims(q, M, N)) \in Nat /\ Area(getRHSDims(q, M, N)) \in Nat
      /\ Area(getPDims(q, M, N)) <= Area(getPDims(q, M, L))
      /\ Area(getRHSDims(q, M, N)) <= Area(getRHSDims(q, M, L))
      /\ Area(getPDims(q, M, L)) \in Nat /\ Area(getRHSDims(q, M, L)) \in Nat
  <2>1. /\ Area(getPDims(q, M, N)) \in Nat /\ Area(getRHSDims(q, M, N)) \in Nat
        /\ Area(getPDims(q, M, N)) <= Area(getPDims(q, M, L))
        /\ Area(getRHSDims(q, M, N)) <= Area(getRHSDims(q, M, L))
    BY <1>1, DimsGrow
  <2>2. Area(getPDims(q, M, L)) \in Nat /\ Area(getRHSDims(q, M, L)) \in Nat
    <3>1. L <= L
      BY <1>1
    <3>2. QED
      BY <1>1, <3>1, DimsGrow
  <2>3. QED
    BY <2>1, <2>2
<1>5. Area(CoeffsDims(q, M, N)) \in Nat /\ Area(CoeffsDims(q, M, N)) <= Area(Stored(q))
  <2>1. CASE NormalEquations(q)
    <3>1. /\ getPDims(q, M, N) = <<M + AddedAlphas(q), N + AddedCoefficients(q)>>
          /\ CoeffsDims(q, M, N) = Transposed(getPDims(q, M, N))
          /\ Stored(q) = getPDims(q, M, L)
      BY <1>2, <2>1 DEF getPDims, CoeffsDims, Stored
    <3>2. M + AddedAlphas(q) \in Nat /\ N + AddedCoefficients(q) \in Nat
      BY <1>1, Added
    <3>3. Area(CoeffsDims(q, M, N)) = Area(getPDims(q, M, N))
      BY <3>1, <3>2 DEF Area, Transposed
    <3>4. QED
      BY <1>4, <3>1, <3>3
  <2>2. CASE ~ NormalEquations(q)
    <3>1. CoeffsDims(q, M, N) = getRHSDims(q, M, N) /\ Stored(q) = getRHSDims(q, M, L)
      BY <1>2, <2>2 DEF CoeffsDims, Stored
    <3>2. QED
      BY <1>4, <3>1
  <2>3. QED
    BY <2>1, <2>2
<1>6. QED
  BY <1>2, <1>3, <1>4, <1>5

-----------------------------------------------------------------------------
(* Slices of one area one after another: each is before the next ones and  *)
(* within the extent of n, also of larger ones.                            *)
LEMMA SlicesInOrder ==
  ASSUME NEW dims, NEW larger, Area(dims) \in Nat, Area(larger) \in Nat,
         Area(dims) <= Area(larger), NEW n \in Nat, NEW k \in 0..n-1
  PROVE  /\ Begin(k, dims) \in Nat
         /\ Begin(k + 1, dims) \in Nat
         /\ Begin(k + 1, dims) <= Extent(n, larger)
         /\ \A m \in 0..n-1 : k < m => Begin(k + 1, dims) <= Begin(m, dims)
<1> DEFINE a == Area(dims)
           b == Area(larger)
<1>1. k \in Nat /\ k + 1 \in Nat /\ k + 1 <= n
  OBVIOUS
<1>2. \A i : Begin(i, dims) = i * a
  BY DEF Begin, Area
<1>3. Extent(n, larger) = n * b
  BY DEF Extent, Area
<1>4. a \in Nat /\ b \in Nat /\ a <= b
  OBVIOUS
<1> HIDE DEF a, b
<1>5. k * a \in Nat /\ (k + 1) * a \in Nat /\ (k + 1) * a <= n * b
  BY <1>1, <1>4, AreaMonotone, TimesNat
<1>6. ASSUME NEW m \in 0..n-1, k < m PROVE (k + 1) * a <= m * a
  <2>1. m \in Nat /\ k + 1 <= m
    BY <1>6
  <2>2. QED
    BY <1>1, <1>4, <2>1, TimesMonotone
<1>7. QED
  BY <1>2, <1>3, <1>5, <1>6

-----------------------------------------------------------------------------
(* Scratch memory.  Pairs that fit one by one fit on host and device.      *)
LEMMA PairsFit ==
  ASSUME NEW a \in Nat, NEW b \in Nat, NEW c \in Nat, NEW d \in Nat, a <= c, b <= d,
         NEW levels \in Levels, NEW l \in {0, 1}
  PROVE  Taken(levels, <<a, b>>, l) <= Reserved(levels, <<c, d>>, l)
<1>1. CASE levels = <<0, 0>>
  BY <1>1 DEF Taken, Reserved
<1>2. CASE levels = <<0, 1>>
  BY <1>2 DEF Taken, Reserved
<1>3. QED
  BY <1>1, <1>2 DEF Levels, OnHost, OnDevice

LEMMA WorkspaceNat == ASSUME NEW q, Sized(q) PROVE Workspace(q) \in Nat
<1>1. PolyOrder(q) \in Nat /\ q.curvature_order \in Nat
  BY DEF PolyOrder, Sized
<1>2. MaxOrder(q) \in Nat
  BY <1>1 DEF MaxOrder, Larger
<1>3. QED
  BY <1>2, TimesNat DEF Workspace, Sized

(* Teams: only kernels of a manifold take scratch memory of teams.         *)
LEMMA TeamsFit ==
  ASSUME NEW q, Sized(q), Varying(q) => OnManifold(q),
         NEW kernel, kernel = "ComputeCoarseTangentPlane" => OnManifold(q),
         NEW levels \in Levels, NEW l \in {0, 1}
  PROVE  Taken(levels, TeamTakes(kernel, q), l) <= Reserved(levels, TeamSizes(q), l)
<1> DEFINE tangents == q.dims * q.dims
           gradient == (q.dims - 1) * q.max_neighbors
           n == q.max_neighbors
<1>1. /\ tangents \in Nat /\ n \in Nat
      /\ OnManifold(q) => gradient \in Nat
  BY TimesNat DEF Sized
<1>2. CASE ~ OnManifold(q)
  <2>1. TeamSizes(q) = <<0, 0>>
    BY <1>2 DEF TeamSizes
  <2>2. TeamTakes(kernel, q) = <<0, 0>>
    BY <1>2 DEF TeamTakes, AccurateTangentsTakes, PrestencilTakes, GradientDim
  <2>3. QED
    BY <2>1, <2>2, PairsFit
<1>3. CASE OnManifold(q)
  <2> DEFINE varying == IF Varying(q) THEN 2 * n ELSE 0
  <2>1. varying \in Nat
    BY <1>1
  <2>2. TeamSizes(q) = <<0, tangents + gradient + varying>>
    BY <1>3 DEF TeamSizes
  <2>3. GradientDim(q) = gradient
    BY <1>3 DEF GradientDim
  <2>4. TeamTakes(kernel, q) \in {<<0, tangents>>, <<0, gradient>>,
                                  <<0, gradient + varying>>, <<0, 0>>}
    BY <2>3 DEF TeamTakes, CoarseTangentPlaneTakes, AccurateTangentsTakes, PrestencilTakes
  <2> HIDE DEF tangents, gradient, varying, n
  <2>5. PICK takes \in {tangents, gradient, gradient + varying, 0} :
          TeamTakes(kernel, q) = <<0, takes>>
    BY <2>4
  <2>6. takes \in Nat /\ takes <= tangents + gradient + varying
        /\ tangents + gradient + varying \in Nat
    BY <1>1, <1>3, <2>1
  <2>7. QED
    BY <2>2, <2>5, <2>6, PairsFit
<1>4. QED
  BY <1>2, <1>3

LEMMA ThreadsFit ==
  ASSUME NEW q, Sized(q), Varying(q) => OnManifold(q),
         NEW kernel, NEW levels \in Levels, NEW l \in {0, 1}
  PROVE  Taken(levels, ThreadTakes(kernel, q), l) <= Reserved(levels, ThreadSizes(q), l)
<1> DEFINE columns == CallerColumns(q)
           geometry == IF OnManifold(q) THEN manifold_NP(q) ELSE 0
           w == Workspace(q)
           second == IF OnManifold(q) /\ Varying(q) THEN q.dims * q.dims ELSE 0
           takes == IF Varying(q) THEN (q.dims - 1) * q.dims ELSE 0
<1>1. columns \in Nat /\ geometry \in Nat /\ geometry <= columns /\ w \in Nat
      /\ BasisColumns(q) = columns
  BY Columns, WorkspaceNat
<1>2. second \in Nat /\ takes \in Nat /\ takes <= second
  BY DEF Sized
<1>3. ThreadSizes(q) = <<columns + w, second>>
  BY DEF ThreadSizes, Workspace
<1>4. ThreadTakes(kernel, q) \in {<<0, 0>>, <<geometry + w, takes>>, <<columns + w, 0>>}
  BY <1>1 DEF ThreadTakes, BasisTakes, PrestencilThreadTakes
<1> HIDE DEF columns, geometry, w, second, takes
<1>5. PICK a \in {0, geometry + w, columns + w}, b \in {0, takes} :
        ThreadTakes(kernel, q) = <<a, b>>
  BY <1>4
<1>6. a \in Nat /\ b \in Nat /\ a <= columns + w /\ b <= second /\ columns + w \in Nat
  BY <1>1, <1>2
<1>7. QED
  BY <1>2, <1>3, <1>5, <1>6, PairsFit

LEMMA KernelsFit ==
  ASSUME NEW q, Sized(q), Varying(q) => OnManifold(q),
         NEW kernel, kernel = "ComputeCoarseTangentPlane" => OnManifold(q),
         NEW levels \in Levels
  PROVE  KernelFits(kernel, q, levels)
BY TeamsFit, ThreadsFit DEF KernelFits

(* The solver finds what it reserves for itself.                           *)
IsSystem(s) == s.M \in Nat /\ s.N \in Nat /\ s.NRHS \in Nat

LEMMA SolversFit ==
  ASSUME NEW s, IsSystem(s), NEW levels \in Levels
  PROVE  SolverFits(s, levels)
<1> DEFINE a == s.N * s.N
           b == s.M * s.N
           c == s.N * s.NRHS
<1>1. a \in Nat /\ b \in Nat /\ c \in Nat
  BY TimesNat DEF IsSystem
<1>2. SolverTakes(s.M, s.N, s.NRHS) = <<3 * s.M + s.N, c + b + a>>
      /\ SolverSizes(s.M, s.N, s.NRHS) = <<s.N + 3 * s.M, a + b + c>>
  BY DEF SolverTakes, SolverSizes
<1> HIDE DEF a, b, c
<1>3. /\ 3 * s.M + s.N \in Nat /\ c + b + a \in Nat /\ 3 * s.M + s.N <= s.N + 3 * s.M
      /\ c + b + a <= a + b + c /\ s.N + 3 * s.M \in Nat /\ a + b + c \in Nat
  BY <1>1 DEF IsSystem
<1>4. \A l \in {0, 1} : Taken(levels, SolverTakes(s.M, s.N, s.NRHS), l)
                           <= Reserved(levels, SolverSizes(s.M, s.N, s.NRHS), l)
  BY <1>2, <1>3, PairsFit
<1>5. QED
  BY <1>4 DEF SolverFits

(* A system that is not wide passes through the solver's workspaces: one   *)
(* that is not square has no more right hand sides than the workspace is   *)
(* long, one in the corner of a larger slice has at least its rows.        *)
LEMMA WorkspacesFit ==
  ASSUME NEW s, IsSystem(s), s.N <= s.M, s.M # s.N => s.NRHS <= 3 * s.M,
         s.dims # <<s.M, s.N>> => s.M <= s.NRHS
  PROVE  WorkspacesSuffice(s)
<1>1. FactorWorkspace(s.M, s.N) <= 3 * s.M
  BY DEF FactorWorkspace, IsSystem
<1>2. s.M <= s.NRHS => s.M * s.N <= s.NRHS * s.N
  BY TimesMonotone DEF IsSystem
<1>3. s.NRHS * s.N = s.N * s.NRHS
  BY DEF IsSystem
<1>4. QED
  BY <1>1, <1>2, <1>3 DEF WorkspacesSuffice

LEMMA CurvatureSystemFits ==
  ASSUME Sized(g), OnManifold(g)
  PROVE  SolverHasScratch(CurvatureSystem(g))
<1> DEFINE s == CurvatureSystem(g)
           n == manifold_NP(g)
<1>1. n \in Nat /\ g.max_neighbors \in Nat
  BY Columns DEF Sized
<1>2. s.N = n /\ s.NRHS = g.max_neighbors
      /\ s.M = IF g.solver = "LU" THEN n ELSE g.max_neighbors
  BY DEF CurvatureSystem
<1> HIDE DEF s, n
<1>3. IsSystem(s)
  BY <1>1, <1>2 DEF IsSystem
<1>4. ASSUME EnoughNeighbors(g) PROVE WorkspacesSuffice(s)
  <2>1. n <= g.max_neighbors
    BY <1>4 DEF EnoughNeighbors, n
  <2>2. s.N <= s.M /\ s.M <= s.NRHS /\ (s.M # s.N => s.NRHS <= 3 * s.M)
    BY <1>1, <1>2, <2>1
  <2>3. QED
    BY <1>3, <2>2, WorkspacesFit
<1>5. SolverHasScratch(s)
  BY <1>3, <1>4, SolversFit DEF SolverHasScratch
<1>6. QED
  BY <1>5 DEF s

LEMMA ProblemSystemFits ==
  ASSUME Sized(g)
  PROVE  SolverHasScratch(ProblemSystem(g))
<1> DEFINE s == ProblemSystem(g)
           m == max_num_rows(g)
           columns == CallerColumns(g)
           c == AddedCoefficients(g)
           a == AddedAlphas(g)
<1>1. m \in Nat /\ columns \in Nat /\ c \in Nat /\ a \in Nat
  BY Columns, Added
<1>2. CASE g.solver = "LU" /\ ~ OnManifold(g)
  <2>1. s = [M |-> columns + c, N |-> columns + c, NRHS |-> m + a,
             dims |-> CallerDims(g).RHS]
    BY <1>2 DEF ProblemSystem
  <2>2. CallerDims(g).RHS = <<columns + c, columns + c>>
    BY <1>2 DEF CallerDims, getRHSDims, NormalEquations
  <2> HIDE DEF s, m, columns, c, a
  <2>3. IsSystem(s) /\ s.M = s.N /\ s.dims = <<s.M, s.N>>
    BY <1>1, <2>1, <2>2 DEF IsSystem
  <2>4. s.N <= s.M
    BY <2>3 DEF IsSystem
  <2>5. WorkspacesSuffice(s)
    BY <2>3, <2>4, WorkspacesFit
  <2>6. SolverHasScratch(s)
    BY <2>3, <2>5, SolversFit DEF SolverHasScratch
  <2>7. QED
    BY <2>6 DEF s
<1>3. CASE ~ (g.solver = "LU" /\ ~ OnManifold(g))
  <2>1. s.N = columns /\ s.NRHS = m /\ s.M \in {columns, m}
        /\ (s.M # m => s.M = columns)
    BY <1>1, <1>3 DEF ProblemSystem
  <2> HIDE DEF s, m, columns, c, a
  <2>2. IsSystem(s)
    BY <1>1, <2>1 DEF IsSystem
  <2>3. ASSUME EnoughNeighbors(g) PROVE WorkspacesSuffice(s)
    <3>1. columns <= m
      BY <2>3 DEF EnoughNeighbors, columns, m
    <3>2. s.N <= s.M /\ s.M <= s.NRHS /\ (s.M # s.N => s.NRHS <= 3 * s.M)
      BY <1>1, <2>1, <3>1
    <3>3. QED
      BY <2>2, <3>2, WorkspacesFit
  <2>4. SolverHasScratch(s)
    BY <2>2, <2>3, SolversFit DEF SolverHasScratch
  <2>5. QED
    BY <2>4 DEF s
<1>4. QED
  BY <1>2, <1>3

-----------------------------------------------------------------------------
(* Batches.                                                                *)
LEMMA BatchSizes ==
  ASSUME NEW n \in Nat \ {0}
  PROVE  MaxBatchSize(n) \in Nat \ {0}
<1>1. NumTargets \in Nat \ {0}
  BY BatchesAssumption
<1>2. NumTargets + n - 1 \in Nat /\ NumTargets + n - 1 >= n
  BY <1>1
<1>3. \A a \in Nat : a >= n => a \div n \in Nat \ {0}
  OBVIOUS
<1>4. QED
  BY <1>2, <1>3 DEF MaxBatchSize

ProblemIn(q) ==
  /\ q \in Problems /\ Sized(q)
  /\ q.solver \in {"QR", "LU"} /\ q.constraint \in {"NONE", "NEUMANN"}
  /\ q.tangents \in {"computed", "oriented", "provided"}
  /\ q.constraint = "NEUMANN" => q.solver = "LU"
  /\ NeedsWeights(q) => OnManifold(q)
  /\ Varying(q) => OnManifold(q)

LEMMA ProblemsIn == ASSUME NEW q \in Problems PROVE ProblemIn(q)
BY ProblemsAssumption DEF ProblemIn, Sized, NeedsWeights, Varying

-----------------------------------------------------------------------------
(* Types: the arrays as functions, and the loop within its bounds.         *)
Frames == [is : {"none", "provided", "coarse", "accurate", "wrong"}, oriented : BOOLEAN]
Slice == [begin : Nat, width : Nat, value : Values]
BatchSlots == IF calls = 0 THEN {} ELSE 0..MaxBatchSize(number_of_batches)-1

Arrays ==
  /\ P \in [BatchSlots -> Slice] /\ RHS \in [BatchSlots -> Slice] /\ Z \in [BatchSlots -> Slice]
  /\ T \in [Targets -> Frames]
  /\ curvature_coefficients \in [Targets -> Values]
  /\ prestencil_weights \in [Targets -> Seq(Values)]
  /\ alphas \in [Targets -> [coefficients : Values, row : Values]]

Control ==
  /\ g \in Problems /\ phase \in {"idle", "running"}
  /\ number_of_batches \in Nat \ {0} /\ batch_num \in 0..number_of_batches
  /\ initial_index_for_batch \in 0..NumTargets
  /\ calls \in 0..MaxCalls
  /\ phase = "running" => /\ initial_index_for_batch < NumTargets
                          /\ batch_num < number_of_batches
                          /\ calls # 0
  /\ stage \in Stages /\ pass \in {"tangents", "geometry"}
  /\ stage # "none" => phase = "running"
  /\ todo \subseteq (IF stage = "none" THEN {} ELSE Teams)

(* The path of a problem: the stages that each pass of it goes through.    *)
StandardStages == {"AssembleStandardPsqrtW", "SolveProblem", "ComputePrestencilWeights",
                   "EvaluateStandardTargets", "ApplyTargets"}
TangentStages == {"ComputeCoarseTangentPlane", "FixTangentDirectionOrdering",
                  "AssembleCurvaturePsqrtW", "SolveCurvature",
                  "GetAccurateTangentDirections", "ClearP"}
GeometryStages == {"AssembleCurvaturePsqrtW", "SolveCurvature", "ApplyCurvatureTargets",
                   "ComputePrestencilWeights", "ClearP", "AssembleManifoldPsqrtW",
                   "SolveProblem", "EvaluateManifoldTargets", "ApplyTargets"}

OnPath(q, s, p) ==
  /\ ~ OnManifold(q) => s \in StandardStages /\ p = "geometry"
  /\ OnManifold(q) /\ p = "tangents" => s \in TangentStages /\ q.tangents # "provided"
  /\ OnManifold(q) /\ p # "tangents" => s \in GeometryStages
  /\ s = "FixTangentDirectionOrdering" => q.tangents = "oriented"

Path == stage # "none" => OnPath(g, stage, pass)

LEMMA TeamsInBatch ==
  ASSUME Control, stage # "none" \/ phase = "running"
  PROVE  /\ ThisBatchSize \in Nat /\ ThisBatchSize <= MaxBatchSize(number_of_batches)
         /\ ThisBatchSize <= NumTargets - initial_index_for_batch
         /\ MaxBatchSize(number_of_batches) \in Nat \ {0}
         /\ Teams \subseteq BatchSlots
         /\ \A k \in Teams : /\ TargetOf(k) \in Targets
                             /\ \A m \in Teams : TargetOf(k) = TargetOf(m) => k = m
<1>1. MaxBatchSize(number_of_batches) \in Nat \ {0}
  BY BatchSizes DEF Control
<1>2. NumTargets \in Nat /\ initial_index_for_batch \in Nat /\ initial_index_for_batch < NumTargets
      /\ calls # 0
  BY BatchesAssumption DEF Control
<1>3. /\ ThisBatchSize \in Nat /\ ThisBatchSize <= MaxBatchSize(number_of_batches)
      /\ ThisBatchSize <= NumTargets - initial_index_for_batch
  BY <1>1, <1>2 DEF ThisBatchSize
<1>4. Teams \subseteq BatchSlots
  BY <1>1, <1>2, <1>3 DEF Teams, BatchSlots
<1>5. \A k \in Teams : /\ TargetOf(k) \in Targets
                       /\ \A m \in Teams : TargetOf(k) = TargetOf(m) => k = m
  BY <1>2, <1>3 DEF Teams, TargetOf, Targets
<1>6. QED
  BY <1>1, <1>3, <1>4, <1>5

LEMMA FollowingOnPath ==
  ASSUME Control, Path, stage \notin {"none", "ApplyTargets"}
  PROVE  /\ OnPath(g, Following, IF stage = "ClearP" THEN "geometry" ELSE pass)
         /\ Following \in Stages \ {"none"}
<1>1. ProblemIn(g) /\ OnPath(g, stage, pass) /\ pass \in {"tangents", "geometry"}
  BY ProblemsIn DEF Control, Path
<1>2. CASE ~ OnManifold(g)
  BY <1>1, <1>2 DEF OnPath, Following, StandardStages, Stages
<1>3. CASE OnManifold(g) /\ pass = "tangents"
  BY <1>1, <1>3 DEF OnPath, Following, TangentStages, GeometryStages, Stages
<1>4. CASE OnManifold(g) /\ pass = "geometry"
  BY <1>1, <1>4 DEF OnPath, Following, GeometryStages, Stages
<1>5. QED
  BY <1>1, <1>2, <1>3, <1>4

LEMMA FirstOnPath ==
  ASSUME Control
  PROVE  OnPath(g, FirstStage, FirstPass) /\ FirstStage \in Stages \ {"none"}
         /\ FirstPass \in {"tangents", "geometry"}
<1>1. ProblemIn(g)
  BY ProblemsIn DEF Control
<1>2. QED
  BY <1>1 DEF OnPath, FirstStage, FirstPass, ComputesTangents, ProblemIn, StandardStages,
     TangentStages, GeometryStages, Stages

(* What a team leaves alone, whatever its kernel.                          *)
fixed == <<g, phase, loop, stage, pass, calls>>

LEMMA KernelIsTeam ==
  ASSUME NEW k, Kernel(k)
  PROVE  k \in todo /\ todo' = todo \ {k} /\ fixed' = fixed
BY Zenon DEF Kernel, Team, fixed, AssembleStandardPsqrtW, ComputeCoarseTangentPlane,
  FixTangentDirectionOrdering, AssembleCurvaturePsqrtW, SolveCurvature,
  GetAccurateTangentDirections, ApplyCurvatureTargets, ComputePrestencilWeights,
  AssembleManifoldPsqrtW, SolveProblem, EvaluateStandardTargets,
  EvaluateManifoldTargets, ApplyTargets

LEMMA ControlInit == Init => Control /\ Path
BY BatchesAssumption DEF Init, Control, Path, Stages

LEMMA ControlCall ==
  ASSUME Control, Path, NEW q \in Problems, NEW n \in Batches, Call(q, n)
  PROVE  Control' /\ Path'
<1>1. stage = "none" /\ todo = {}
  BY DEF Control, Call
<1>2. n \in Nat \ {0} /\ NumTargets \in Nat \ {0} /\ MaxCalls \in Nat
  BY BatchesAssumption
<1>3. /\ g' = q /\ phase' = "running" /\ calls' = calls + 1 /\ calls < MaxCalls
      /\ number_of_batches' = n /\ batch_num' = 0 /\ initial_index_for_batch' = 0
      /\ stage' = stage /\ pass' = pass /\ todo' = todo
  BY DEF Call
<1>4. QED
  BY <1>1, <1>2, <1>3 DEF Control, Path

LEMMA ControlStart ==
  ASSUME Control, Path, StartBatch PROVE Control' /\ Path'
<1>1. /\ fixed' = <<g, phase, loop, FirstStage, FirstPass, calls>> /\ todo' = Teams
      /\ phase = "running"
  BY DEF StartBatch, fixed
<1>2. Teams' = Teams
  BY <1>1 DEF fixed, loop, Teams, ThisBatchSize, MaxBatchSize
<1>3. OnPath(g, FirstStage, FirstPass) /\ FirstStage \in Stages \ {"none"}
      /\ FirstPass \in {"tangents", "geometry"}
  BY FirstOnPath
<1>4. QED
  BY <1>1, <1>2, <1>3 DEF Control, Path, fixed, loop

LEMMA ControlNextStage ==
  ASSUME Control, Path, NextStage PROVE Control' /\ Path'
<1> DEFINE p == IF stage = "ClearP" THEN "geometry" ELSE pass
<1>1. fixed' = <<g, phase, loop, Following, p, calls>> /\ todo' = Teams
      /\ stage \notin {"none", "ApplyTargets"}
  BY DEF NextStage, fixed
<1>2. Teams' = Teams
  BY <1>1 DEF fixed, loop, Teams, ThisBatchSize, MaxBatchSize
<1>3. OnPath(g, Following, p) /\ Following \in Stages \ {"none"}
  BY <1>1, FollowingOnPath
<1>4. p \in {"tangents", "geometry"}
  BY DEF Control
<1> HIDE DEF p
<1>5. QED
  BY <1>1, <1>2, <1>3, <1>4 DEF Control, Path, fixed, loop

LEMMA ControlEndBatch ==
  ASSUME Control, Path, EndBatch PROVE Control' /\ Path'
<1>1. /\ stage = "ApplyTargets" /\ todo = {} /\ phase = "running"
      /\ stage' = "none" /\ todo' = {} /\ pass' = pass /\ g' = g /\ calls' = calls
      /\ number_of_batches' = number_of_batches
      /\ initial_index_for_batch' = initial_index_for_batch + ThisBatchSize
      /\ batch_num' = batch_num + 1
      /\ phase' = IF LastBatch THEN "idle" ELSE "running"
  BY DEF EndBatch, Control
<1>2. ThisBatchSize \in Nat /\ ThisBatchSize <= NumTargets - initial_index_for_batch
  BY <1>1, TeamsInBatch
<1>3. /\ initial_index_for_batch \in Nat /\ batch_num \in Nat /\ number_of_batches \in Nat
      /\ batch_num < number_of_batches /\ NumTargets \in Nat
      /\ calls \in 0..MaxCalls /\ calls # 0 /\ g \in Problems
      /\ pass \in {"tangents", "geometry"} /\ number_of_batches # 0
  BY <1>1, BatchesAssumption DEF Control
<1>4. /\ initial_index_for_batch' \in 0..NumTargets
      /\ batch_num' \in 0..number_of_batches
  BY <1>1, <1>2, <1>3
<1>5. ~ LastBatch => /\ initial_index_for_batch' < NumTargets
                     /\ batch_num' < number_of_batches
  BY <1>1, <1>2, <1>3 DEF LastBatch
<1>6. QED
  BY <1>1, <1>3, <1>4, <1>5 DEF Control, Path, Stages

LEMMA ControlTeam ==
  ASSUME Control, Path, fixed' = fixed, todo' \subseteq todo PROVE Control' /\ Path'
<1>1. Teams' = Teams
  BY DEF fixed, loop, Teams, ThisBatchSize, MaxBatchSize
<1>2. QED
  BY <1>1 DEF Control, Path, fixed, loop

LEMMA ControlStep == Control /\ Path /\ [Next]_vars => Control' /\ Path'
<1> SUFFICES ASSUME Control, Path, [Next]_vars PROVE Control' /\ Path'
  OBVIOUS
<1>1. ASSUME NEW q \in Problems, NEW n \in Batches, Call(q, n) PROVE Control' /\ Path'
  BY <1>1, ControlCall
<1>2. CASE StartBatch
  BY <1>2, ControlStart
<1>3. CASE NextStage
  BY <1>3, ControlNextStage
<1>4. CASE EndBatch
  BY <1>4, ControlEndBatch
<1>5. CASE ClearP
  <2>1. fixed' = fixed /\ todo' = {}
    BY <1>5 DEF ClearP, fixed
  <2>2. QED
    BY <2>1, ControlTeam
<1>6. ASSUME NEW k \in todo, Kernel(k) PROVE Control' /\ Path'
  <2>1. fixed' = fixed /\ todo' = todo \ {k}
    BY <1>6, KernelIsTeam
  <2>2. QED
    BY <2>1, ControlTeam
<1>7. CASE UNCHANGED vars
  <2>1. fixed' = fixed /\ todo' = todo
    BY <1>7 DEF vars, fixed
  <2>2. QED
    BY <2>1, ControlTeam
<1>8. QED
  BY <1>1, <1>2, <1>3, <1>4, <1>5, <1>6, <1>7 DEF Next, Loop

-----------------------------------------------------------------------------
(* The slices of teams, and scratch memory.                                *)
LEMMA DimsWithin ==
  ASSUME Control, stage # "none",
         NEW dims, NEW larger, Area(dims) \in Nat, Area(larger) \in Nat,
         Area(dims) <= Area(larger)
  PROVE  SlicesWithin(dims, Allocated(larger))
<1> DEFINE n == MaxBatchSize(number_of_batches)
<1>1. /\ n \in Nat /\ Teams \subseteq 0..n-1
  BY TeamsInBatch DEF Teams
<1>2. Allocated(larger) = Extent(n, larger)
  BY DEF Allocated
<1> HIDE DEF n
<1>3. ASSUME NEW k \in Teams
      PROVE  /\ Begin(k, dims) >= 0 /\ Begin(k + 1, dims) <= Extent(n, larger)
             /\ \A m \in Teams : k < m => Begin(k + 1, dims) <= Begin(m, dims)
  BY <1>1, SlicesInOrder
<1>4. QED
  BY <1>2, <1>3 DEF SlicesWithin

LEMMA ControlSlicesApart == Control => SlicesApart
<1> SUFFICES ASSUME Control, stage # "none" PROVE SlicesApart
  BY DEF SlicesApart
<1>1. Sized(g)
  BY ProblemsIn DEF Control, ProblemIn
<1> DEFINE caller == CallerDims(g)
           last == SolutionDims(g)
<1>2. /\ BasisDims(g).P = caller.P /\ BasisDims(g).RHS = caller.RHS /\ BasisDims(g).Z = caller.Z
      /\ Area(caller.P) \in Nat /\ Area(caller.RHS) \in Nat /\ Area(caller.Z) \in Nat
      /\ Area(last.Z) \in Nat /\ Area(last.Z) <= Area(caller.Z)
      /\ Area(last.Coeffs) \in Nat /\ Area(last.Coeffs) <= Area(Stored(g))
  BY <1>1, Areas
<1>3. Area(Stored(g)) \in Nat
  BY <1>2 DEF Stored
<1>4. Stored(g) = IF NormalEquations(g) THEN caller.P ELSE caller.RHS
  BY DEF Stored
<1> HIDE DEF caller, last
<1>5. /\ SlicesWithin(caller.P, Allocated(caller.P))
      /\ SlicesWithin(caller.RHS, Allocated(caller.RHS))
      /\ SlicesWithin(caller.Z, Allocated(caller.Z))
  BY <1>2, DimsWithin
<1>6. SlicesWithin(last.Z, Allocated(caller.Z))
  BY <1>2, DimsWithin
<1>7. SlicesWithin(last.Coeffs, Allocated(Stored(g)))
  BY <1>2, <1>3, DimsWithin
<1>8. QED
  BY <1>2, <1>4, <1>5, <1>6, <1>7 DEF SlicesApart, caller, last

LEMMA ControlScratchSuffices == Control /\ Path => ScratchSuffices
<1> SUFFICES ASSUME Control, Path, stage # "none"
             PROVE  CASE stage = "SolveCurvature" -> SolverHasScratch(CurvatureSystem(g))
                      [] stage = "SolveProblem" -> SolverHasScratch(ProblemSystem(g))
                      [] OTHER -> \A levels \in Levels : KernelFits(stage, g, levels)
  BY DEF ScratchSuffices
<1>1. ProblemIn(g) /\ OnPath(g, stage, pass)
  BY ProblemsIn DEF Control, Path
<1>2. Sized(g) /\ (Varying(g) => OnManifold(g))
  BY <1>1 DEF ProblemIn
<1>3. CASE stage = "SolveCurvature"
  <2>1. OnManifold(g)
    BY <1>1, <1>3 DEF OnPath, StandardStages
  <2>2. SolverHasScratch(CurvatureSystem(g))
    BY <1>2, <2>1, CurvatureSystemFits
  <2>3. QED
    BY <1>3, <2>2
<1>4. CASE stage = "SolveProblem"
  <2>1. SolverHasScratch(ProblemSystem(g))
    BY <1>2, ProblemSystemFits
  <2>2. QED
    BY <1>4, <2>1
<1>5. CASE stage \notin {"SolveCurvature", "SolveProblem"}
  <2>1. stage = "ComputeCoarseTangentPlane" => OnManifold(g)
    BY <1>1 DEF OnPath, StandardStages
  <2>2. \A levels \in Levels : KernelFits(stage, g, levels)
    BY <1>2, <2>1, KernelsFit
  <2>3. QED
    BY <1>5, <2>2
<1>6. QED
  BY <1>3, <1>4, <1>5

LEMMA ControlAlways == Spec => [](Control /\ Path)
<1>1. Init => Control /\ Path
  BY ControlInit
<1>2. Control /\ Path /\ [Next]_vars => (Control /\ Path)'
  BY ControlStep
<1>3. QED
  BY <1>1, <1>2, PTL DEF Spec

(* Teams work on slices of their own, within what is allocated, whatever   *)
(* the sizes of a problem and whichever of the dimensions a kernel uses.   *)
THEOREM TeamsApart == Spec => []SlicesApart
<1>1. Control /\ Path => SlicesApart
  BY ControlSlicesApart
<1>2. QED
  BY <1>1, ControlAlways, PTL

(* Kernels and solver find the scratch memory they take, on every level.   *)
THEOREM ScratchEnough == Spec => []ScratchSuffices
<1>1. Control /\ Path => ScratchSuffices
  BY ControlScratchSuffices
<1>2. QED
  BY <1>1, ControlAlways, PTL

-----------------------------------------------------------------------------
(* Values, and slices that hold them.                                      *)
IsPair(dims) == dims[1] \in Nat /\ dims[2] \in Nat

LEMMA ZerosTyped == Zeros \in Values /\ Garbage \in Values /\ NoFrame \in Frames
<1>1. 0 \in Targets
  BY BatchesAssumption DEF Targets
<1>2. QED
  BY <1>1 DEF Zeros, Garbage, Of, NoFrame, Values, Frames

LEMMA OfTyped ==
  ASSUME NEW is \in {"matrix", "normal", "weighted", "diagonal", "coefficients", "factors",
                     "row", "geometry", "weights"},
         NEW of \in {"coarse", "curvature", "problem", "tangents"},
         NEW t \in Targets, NEW frame \in Frames, NEW sound \in BOOLEAN
  PROVE  Of(is, of, t, frame, sound) \in Values
BY DEF Of, Values, Frames

LEMMA AsTyped ==
  ASSUME NEW value \in Values,
         NEW is \in {"matrix", "normal", "weighted", "diagonal", "coefficients", "factors"}
  PROVE  As(is, value) \in Values
BY DEF As, Of, Values

LEMMA PutTyped ==
  ASSUME NEW k \in Nat, NEW dims, IsPair(dims), NEW value \in Values
  PROVE  Put(k, dims, value) \in Slice
<1>1. dims[1] * dims[2] \in Nat /\ k * (dims[1] * dims[2]) \in Nat
  BY TimesNat DEF IsPair
<1>2. QED
  BY <1>1 DEF Put, Begin, Slice, IsPair

LEMMA GetTyped ==
  ASSUME NEW slice \in Slice, NEW k, NEW dims PROVE Get(slice, k, dims) \in Values
BY ZerosTyped DEF Get, Slice

LEMMA DimsTyped ==
  ASSUME NEW q, Sized(q)
  PROVE  /\ IsPair(CallerDims(q).P) /\ IsPair(CallerDims(q).RHS)
         /\ IsPair(Transposed(CallerDims(q).P)) /\ IsPair(CallerDims(q).Z)
<1>1. /\ max_num_rows(q) \in Nat /\ CallerColumns(q) \in Nat /\ q.alpha_rows \in Nat
      /\ AddedAlphas(q) \in Nat /\ AddedCoefficients(q) \in Nat
  BY Columns, Added DEF Sized
<1>2. IsPair(getPDims(q, max_num_rows(q), CallerColumns(q)))
      /\ IsPair(getRHSDims(q, max_num_rows(q), CallerColumns(q)))
  BY <1>1 DEF getPDims, getRHSDims, IsPair
<1>3. QED
  BY <1>1, <1>2 DEF CallerDims, IsPair, Transposed

LEMMA ZeroSlicesTyped == ASSUME NEW n PROVE ZeroSlices(n) \in [0..n-1 -> Slice]
<1>1. Put(0, <<0, 0>>, Zeros) \in Slice
  BY ZerosTyped DEF Put, Begin, Slice
<1>2. QED
  BY <1>1 DEF ZeroSlices

-----------------------------------------------------------------------------
(* What a team has at hand.                                                *)
LEMMA TeamAtHand ==
  ASSUME Control, Arrays, NEW k \in todo
  PROVE  /\ stage # "none" /\ k \in Teams /\ k \in Nat /\ k \in BatchSlots /\ TargetOf(k) \in Targets
         /\ ProblemIn(g)
         /\ P[k] \in Slice /\ RHS[k] \in Slice /\ Z[k] \in Slice
         /\ T[TargetOf(k)] \in Frames
         /\ IsPair(BasisDims(g).P) /\ IsPair(BasisDims(g).RHS) /\ IsPair(BasisDims(g).Z)
         /\ IsPair(CallerDims(g).P) /\ IsPair(CallerDims(g).RHS)
         /\ IsPair(Transposed(CallerDims(g).P))
<1>1. stage # "none" /\ k \in Teams
  BY DEF Control
<1>2. k \in Nat
  BY <1>1 DEF Teams
<1>3. k \in BatchSlots /\ TargetOf(k) \in Targets
  BY <1>1, TeamsInBatch
<1>4. ProblemIn(g) /\ Sized(g)
  BY ProblemsIn DEF Control, ProblemIn
<1>5. BasisDims(g).P = CallerDims(g).P /\ BasisDims(g).RHS = CallerDims(g).RHS
      /\ BasisDims(g).Z = CallerDims(g).Z
  BY <1>4, Areas
<1>6. IsPair(CallerDims(g).P) /\ IsPair(CallerDims(g).RHS) /\ IsPair(CallerDims(g).Z)
      /\ IsPair(Transposed(CallerDims(g).P))
  BY <1>4, DimsTyped
<1>7. P[k] \in Slice /\ RHS[k] \in Slice /\ Z[k] \in Slice /\ T[TargetOf(k)] \in Frames
  BY <1>3 DEF Arrays
<1>8. QED
  BY <1>1, <1>2, <1>3, <1>4, <1>5, <1>6, <1>7

LEMMA AssembledTyped ==
  ASSUME Control, Arrays, NEW k \in todo, NEW of \in {"coarse", "curvature", "problem"}
  PROVE  Assembled(k, of) \in Values
<1> DEFINE rest == Get(P[k], k, BasisDims(g).P)
           sound == rest = Zeros \/ (rest.is = "matrix" /\ rest.sound)
<1>1. rest \in Values
  BY TeamAtHand, GetTyped
<1>2. sound \in BOOLEAN
  BY <1>1, ZerosTyped DEF Values
<1>3. Assembled(k, of) = Of("matrix", of, TargetOf(k), T[TargetOf(k)], sound)
  BY DEF Assembled
<1> HIDE DEF rest, sound
<1>4. QED
  BY <1>2, <1>3, TeamAtHand, OfTyped

LEMMA AssembleTyped ==
  ASSUME Control, Arrays, NEW k \in todo, NEW of \in {"curvature", "problem"},
         NEW diagonal, AssemblePsqrtW(k, of, diagonal)
  PROVE  /\ P' \in [BatchSlots -> Slice] /\ RHS' \in [BatchSlots -> Slice]
         /\ Z' = Z /\ byTarget' = byTarget
<1> DEFINE A == Assembled(k, of)
           first == IF diagonal THEN A ELSE As("weighted", A)
           second == As(IF diagonal THEN "diagonal" ELSE "normal", A)
<1>1. A \in Values
  BY AssembledTyped
<1>2. first \in Values /\ second \in Values
  BY <1>1, AsTyped
<1>3. /\ P' = [P EXCEPT ![k] = Put(k, BasisDims(g).P, first)]
      /\ RHS' = [RHS EXCEPT ![k] = Put(k, BasisDims(g).RHS, second)]
      /\ Z' = Z /\ byTarget' = byTarget
  BY DEF AssemblePsqrtW
<1> HIDE DEF A, first, second
<1>4. Put(k, BasisDims(g).P, first) \in Slice /\ Put(k, BasisDims(g).RHS, second) \in Slice
  BY <1>2, TeamAtHand, PutTyped
<1>5. QED
  BY <1>3, <1>4 DEF Arrays

LEMMA SolutionTyped ==
  ASSUME NEW a \in Values, NEW b \in Values, NEW M, NEW N
  PROVE  Solution(a, b, M, N) \in Values
<1> DEFINE sound == /\ a.is \in {"matrix", "normal"} /\ a.sound
                    /\ b = As(b.is, a) /\ b.is \in FormsTaken(M, N)
<1>1. sound \in BOOLEAN
  BY DEF Values
<1>2. Solution(a, b, M, N) = Of("coefficients", a.of, a.target, a.frame, sound)
  BY DEF Solution
<1> HIDE DEF sound
<1>3. QED
  BY <1>1, <1>2 DEF Values, Of

LEMMA SolveTyped ==
  ASSUME Control, Arrays, NEW k \in todo, NEW M, NEW N,
         SolveQR(k, M, N) \/ SolveLU(k, N)
  PROVE  P' \in [BatchSlots -> Slice] /\ RHS' \in [BatchSlots -> Slice]
<1> DEFINE a == Get(P[k], k, CallerDims(g).P)
           b == Get(RHS[k], k, CallerDims(g).RHS)
<1>1. a \in Values /\ b \in Values
  BY TeamAtHand, GetTyped
<1>2. As("factors", a) \in Values /\ As("factors", b) \in Values
  BY <1>1, AsTyped
<1>3. Solution(a, b, M, N) \in Values /\ Solution(b, a, N, N) \in Values
  BY <1>1, SolutionTyped
<1>4. \/ /\ RHS' = [RHS EXCEPT ![k] = Put(k, CallerDims(g).RHS, Solution(a, b, M, N))]
         /\ P' = [P EXCEPT ![k] = Put(k, CallerDims(g).P, As("factors", a))]
      \/ /\ P' = [P EXCEPT ![k] = Put(k, Transposed(CallerDims(g).P), Solution(b, a, N, N))]
         /\ RHS' = [RHS EXCEPT ![k] = Put(k, CallerDims(g).RHS, As("factors", b))]
  BY DEF SolveQR, SolveLU
<1> HIDE DEF a, b
<1>5. /\ Put(k, CallerDims(g).RHS, Solution(a, b, M, N)) \in Slice
      /\ Put(k, CallerDims(g).P, As("factors", a)) \in Slice
      /\ Put(k, Transposed(CallerDims(g).P), Solution(b, a, N, N)) \in Slice
      /\ Put(k, CallerDims(g).RHS, As("factors", b)) \in Slice
  BY <1>2, <1>3, TeamAtHand, PutTyped
<1>6. QED
  BY <1>4, <1>5 DEF Arrays

LEMMA DerivedTyped ==
  ASSUME Control, Arrays, NEW k \in todo
  PROVE  /\ \A is \in {"geometry", "weights"} : Derived(k, is) \in Values
         /\ Derived(k, "gradient").sound \in BOOLEAN
<1> DEFINE fits == Coeffs(k, BasisDims(g).Coeffs) = Geometry(k)
           t == TargetOf(k)
           frame == T[TargetOf(k)]
<1>1. t \in Targets /\ frame \in Frames /\ fits \in BOOLEAN
  BY TeamAtHand
<1>2. \A is : Derived(k, is) = Of(is, "curvature", t, frame, fits)
  BY Zenon DEF Derived
<1> HIDE DEF fits, t, frame
<1>3. \A is \in {"geometry", "weights"} : Of(is, "curvature", t, frame, fits) \in Values
  BY <1>1, OfTyped
<1>4. Of("gradient", "curvature", t, frame, fits).sound = fits
  BY DEF Of
<1>5. QED
  BY <1>1, <1>2, <1>3, <1>4, Zenon

LEMMA EvaluatedTyped ==
  ASSUME Control, Arrays, NEW k \in todo, NEW of \in {"curvature", "problem"},
         NEW sound \in BOOLEAN, EvaluateTargets(k, of, sound)
  PROVE  Z' \in [BatchSlots -> Slice]
<1> DEFINE v == Of("row", of, TargetOf(k), T[TargetOf(k)], sound)
<1>1. v \in Values
  BY TeamAtHand, OfTyped
<1>2. Z' = [Z EXCEPT ![k] = Put(k, BasisDims(g).Z, v)]
  BY DEF EvaluateTargets
<1> HIDE DEF v
<1>3. Put(k, BasisDims(g).Z, v) \in Slice
  BY <1>1, TeamAtHand, PutTyped
<1>4. QED
  BY <1>2, <1>3 DEF Arrays

LEMMA KernelTyped ==
  ASSUME Control, Arrays, NEW k \in todo, Kernel(k)
  PROVE  Arrays'
<1>1. fixed' = fixed
  BY KernelIsTeam
<1>2. BatchSlots' = BatchSlots
  BY <1>1 DEF fixed, loop, BatchSlots, MaxBatchSize
<1>3. TargetOf(k) \in Targets /\ T[TargetOf(k)] \in Frames /\ k \in BatchSlots /\ ProblemIn(g)
  BY TeamAtHand
<1>4. SUFFICES /\ P' \in [BatchSlots -> Slice] /\ RHS' \in [BatchSlots -> Slice] /\ Z' \in [BatchSlots -> Slice]
               /\ T' \in [Targets -> Frames]
               /\ curvature_coefficients' \in [Targets -> Values]
               /\ prestencil_weights' \in [Targets -> Seq(Values)]
               /\ alphas' \in [Targets -> [coefficients : Values, row : Values]]
  BY <1>2 DEF Arrays
<1>5. ASSUME NEW of \in {"curvature", "problem"}, NEW diagonal, AssemblePsqrtW(k, of, diagonal)
      PROVE  <1>4!1
  BY <1>5, AssembleTyped DEF Arrays, byTarget
<1>6. ASSUME NEW M, NEW N, SolveQR(k, M, N) \/ SolveLU(k, N), UNCHANGED <<Z, byTarget>>
      PROVE  <1>4!1
  BY <1>6, SolveTyped DEF Arrays, byTarget
<1>7. ASSUME NEW of \in {"curvature", "problem"}, NEW sound \in BOOLEAN,
             EvaluateTargets(k, of, sound)
      PROVE  Z' \in [BatchSlots -> Slice]
  BY <1>7, EvaluatedTyped
<1>8. CASE AssembleStandardPsqrtW(k)
  BY <1>5, <1>8 DEF AssembleStandardPsqrtW
<1>9. CASE AssembleCurvaturePsqrtW(k)
  BY <1>5, <1>9 DEF AssembleCurvaturePsqrtW
<1>10. CASE AssembleManifoldPsqrtW(k)
  BY <1>5, <1>10 DEF AssembleManifoldPsqrtW
<1>11. CASE ComputeCoarseTangentPlane(k)
  <2> DEFINE A == Assembled(k, "coarse")
             is == IF A.sound /\ g.dims <= BasisColumns(g) THEN "coarse" ELSE "wrong"
  <2>1. /\ P' = [P EXCEPT ![k] = Put(k, BasisDims(g).P, A)]
        /\ T' = [T EXCEPT ![TargetOf(k)] = Frame(is, FALSE)]
        /\ UNCHANGED <<RHS, Z, curvature_coefficients, prestencil_weights, alphas>>
    BY <1>11 DEF ComputeCoarseTangentPlane
  <2>2. Frame(is, FALSE) \in Frames
    BY DEF Frame, Frames
  <2>3. A \in Values
    BY AssembledTyped
  <2> HIDE DEF A, is
  <2>4. Put(k, BasisDims(g).P, A) \in Slice
    BY <2>3, TeamAtHand, PutTyped
  <2>5. QED
    BY <2>1, <2>2, <2>4 DEF Arrays
<1>12. CASE FixTangentDirectionOrdering(k)
  <2>1. /\ T' = [T EXCEPT ![TargetOf(k)].oriented = TRUE]
        /\ UNCHANGED <<P, RHS, Z, curvature_coefficients, prestencil_weights, alphas>>
    BY <1>12 DEF FixTangentDirectionOrdering
  <2>2. QED
    BY <2>1 DEF Arrays, Frames
<1>13. CASE SolveCurvature(k)
  <2>1. /\ \E M, N : SolveQR(k, M, N) \/ SolveLU(k, N)
        /\ UNCHANGED <<Z, byTarget>>
    BY <1>13 DEF SolveCurvature
  <2>2. QED
    BY <1>6, <2>1
<1>14. CASE SolveProblem(k)
  <2>1. /\ \E M, N : SolveQR(k, M, N) \/ SolveLU(k, N)
        /\ UNCHANGED <<Z, byTarget>>
    BY <1>14 DEF SolveProblem
  <2>2. QED
    BY <1>6, <2>1
<1>15. CASE GetAccurateTangentDirections(k)
  <2> DEFINE accurate == T[TargetOf(k)].is = "coarse" /\ Derived(k, "gradient").sound
  <2>1. /\ EvaluateTargets(k, "curvature", TRUE)
        /\ T' = [T EXCEPT ![TargetOf(k)].is = IF accurate THEN "accurate" ELSE "wrong"]
        /\ UNCHANGED <<P, RHS, curvature_coefficients, prestencil_weights, alphas>>
    BY <1>15 DEF GetAccurateTangentDirections
  <2> HIDE DEF accurate
  <2>2. T' \in [Targets -> Frames]
    BY <2>1 DEF Arrays, Frames
  <2>3. QED
    BY <1>7, <2>1, <2>2 DEF Arrays
<1>16. CASE ApplyCurvatureTargets(k)
  <2>1. /\ EvaluateTargets(k, "curvature", TRUE)
        /\ curvature_coefficients' =
             [curvature_coefficients EXCEPT ![TargetOf(k)] = Derived(k, "geometry")]
        /\ UNCHANGED <<P, RHS, T, prestencil_weights, alphas>>
    BY <1>16 DEF ApplyCurvatureTargets
  <2>2. QED
    BY <1>7, <2>1, DerivedTyped DEF Arrays
<1>17. CASE ComputePrestencilWeights(k)
  <2> DEFINE t == TargetOf(k)
             tangents == Of("weights", "tangents", t, T[t], TRUE)
             mine == prestencil_weights[t]
  <2>1. mine \in Seq(Values) /\ tangents \in Values /\ Derived(k, "weights") \in Values
    BY <1>3, OfTyped, DerivedTyped DEF Arrays
  <2>2. /\ UNCHANGED <<P, RHS, Z, T, curvature_coefficients, alphas>>
        /\ \/ prestencil_weights' = prestencil_weights
           \/ \E w \in {<<tangents>>, Append(mine, tangents), <<Derived(k, "weights")>>} :
                prestencil_weights' = [prestencil_weights EXCEPT ![t] = w]
    BY <1>17 DEF ComputePrestencilWeights
  <2>3. \A w \in {<<tangents>>, Append(mine, tangents), <<Derived(k, "weights")>>} :
          w \in Seq(Values)
    <3>1. \A v \in Values : <<v>> \in Seq(Values) /\ Append(mine, v) \in Seq(Values)
      BY <2>1
    <3>2. QED
      BY <2>1, <3>1
  <2> HIDE DEF t, tangents, mine
  <2>4. prestencil_weights' \in [Targets -> Seq(Values)]
    BY <2>2, <2>3 DEF Arrays
  <2>5. QED
    BY <2>2, <2>4 DEF Arrays
<1>18. CASE EvaluateStandardTargets(k)
  BY <1>7, <1>18 DEF EvaluateStandardTargets, Arrays, byTarget
<1>19. CASE EvaluateManifoldTargets(k)
  <2>1. PICK sound \in BOOLEAN : EvaluateTargets(k, "problem", sound)
                                 /\ UNCHANGED <<P, RHS, byTarget>>
    BY <1>19 DEF EvaluateManifoldTargets
  <2>2. QED
    BY <1>7, <2>1 DEF Arrays, byTarget
<1>20. CASE ApplyTargets(k)
  <2> DEFINE own == [coefficients |-> Coeffs(k, SolutionDims(g).Coeffs),
                     row |-> Get(Z[k], k, SolutionDims(g).Z)]
  <2>1. /\ alphas' = [alphas EXCEPT ![TargetOf(k)] = own]
        /\ UNCHANGED <<P, RHS, Z, T, curvature_coefficients, prestencil_weights>>
    BY <1>20 DEF ApplyTargets
  <2>2. Coeffs(k, SolutionDims(g).Coeffs) \in Values
    BY TeamAtHand, GetTyped DEF Coeffs
  <2>3. Get(Z[k], k, SolutionDims(g).Z) \in Values
    BY TeamAtHand, GetTyped
  <2>4. own \in [coefficients : Values, row : Values]
    BY <2>2, <2>3
  <2> HIDE DEF own
  <2>5. QED
    BY <2>1, <2>4 DEF Arrays
<1>21. QED
  BY <1>8, <1>9, <1>10, <1>11, <1>12, <1>13, <1>14, <1>15, <1>16, <1>17, <1>18, <1>19,
     <1>20 DEF Kernel

LEMMA SlicesOKOfTyped ==
  ASSUME NEW A \in [BatchSlots -> Slice] PROVE SlicesOK(A)
BY DEF SlicesOK, Slice

LEMMA ArraysTypeOK == Control /\ Arrays => TypeOK
<1> SUFFICES ASSUME Control, Arrays PROVE TypeOK
  OBVIOUS
<1>1. SlicesOK(P) /\ SlicesOK(RHS) /\ SlicesOK(Z)
  BY SlicesOKOfTyped DEF Arrays
<1>2. todo \subseteq Targets
  <2>1. CASE stage = "none"
    BY <2>1 DEF Control
  <2>2. CASE stage # "none"
    <3>1. /\ ThisBatchSize \in Nat /\ ThisBatchSize <= NumTargets - initial_index_for_batch
          /\ todo \subseteq Teams /\ initial_index_for_batch \in Nat /\ NumTargets \in Nat
      BY <2>2, TeamsInBatch, BatchesAssumption DEF Control
    <3>2. QED
      BY <3>1 DEF Teams, Targets
  <2>3. QED
    BY <2>1, <2>2
<1>3. QED
  BY <1>1, <1>2 DEF TypeOK, Control, Arrays

LEMMA ArraysInit == Init => Arrays
<1> SUFFICES ASSUME Init PROVE Arrays
  OBVIOUS
<1>1. BatchSlots = {} /\ 0..0-1 = {}
  BY DEF Init, BatchSlots
<1>2. P = ZeroSlices(0) /\ RHS = ZeroSlices(0) /\ Z = ZeroSlices(0)
  BY DEF Init
<1>3. ZeroSlices(0) \in [0..0-1 -> Slice]
  BY ZeroSlicesTyped
<1>4. P \in [BatchSlots -> Slice] /\ RHS \in [BatchSlots -> Slice] /\ Z \in [BatchSlots -> Slice]
  BY <1>1, <1>2, <1>3
<1>5. NoAlphas \in [coefficients : Values, row : Values] /\ <<>> \in Seq(Values)
  BY ZerosTyped DEF NoAlphas
<1>6. QED
  BY <1>4, <1>5, ZerosTyped DEF Arrays, Init

LEMMA ArraysStep == Control /\ Arrays /\ [Next]_vars => Arrays'
<1> SUFFICES ASSUME Control, Arrays, [Next]_vars PROVE Arrays'
  OBVIOUS
<1>1. ASSUME NEW q \in Problems, NEW n \in Batches, Call(q, n) PROVE Arrays'
  <2>1. /\ P' = ZeroSlices(MaxBatchSize(n)) /\ RHS' = ZeroSlices(MaxBatchSize(n))
        /\ Z' = ZeroSlices(MaxBatchSize(n))
        /\ number_of_batches' = n /\ calls' = calls + 1
        /\ T' = ProvidedFrames(q)
        /\ curvature_coefficients' = [t \in Targets |-> Zeros]
        /\ prestencil_weights' = NewWeights
        /\ alphas' = [t \in Targets |-> NoAlphas]
    BY <1>1 DEF Call
  <2>2. calls' # 0 /\ MaxBatchSize(number_of_batches)' = MaxBatchSize(n)
    BY <2>1, BatchesAssumption DEF Control, MaxBatchSize
  <2>3. BatchSlots' = 0..MaxBatchSize(n)-1
    BY <2>2 DEF BatchSlots
  <2>4. ZeroSlices(MaxBatchSize(n)) \in [0..MaxBatchSize(n)-1 -> Slice]
    BY ZeroSlicesTyped
  <2>5. ProvidedFrames(q) \in [Targets -> Frames]
    BY ZerosTyped DEF ProvidedFrames, Frame, Frames
  <2>6. NoAlphas \in [coefficients : Values, row : Values] /\ <<>> \in Seq(Values)
    BY ZerosTyped DEF NoAlphas
  <2>7. QED
    BY <2>1, <2>3, <2>4, <2>5, <2>6, ZerosTyped DEF Arrays, NewWeights
<1>2. ASSUME calls' = calls, number_of_batches' = number_of_batches, byTarget' = byTarget,
             \/ UNCHANGED <<P, RHS, Z>>
             \/ /\ phase = "running" \/ stage # "none"
                /\ P' = ZeroSlices(MaxBatchSize(number_of_batches))
                /\ \/ UNCHANGED <<RHS, Z>>
                   \/ /\ RHS' = ZeroSlices(MaxBatchSize(number_of_batches))
                      /\ Z' = ZeroSlices(MaxBatchSize(number_of_batches))
      PROVE  Arrays'
  <2>1. BatchSlots' = BatchSlots
    BY <1>2 DEF BatchSlots, MaxBatchSize
  <2>2. CASE UNCHANGED <<P, RHS, Z>>
    BY <1>2, <2>1, <2>2 DEF Arrays, byTarget
  <2>3. CASE ~ UNCHANGED <<P, RHS, Z>>
    <3>1. BatchSlots = 0..MaxBatchSize(number_of_batches)-1
      BY <1>2, <2>3 DEF BatchSlots, Control
    <3>2. ZeroSlices(MaxBatchSize(number_of_batches)) \in [BatchSlots -> Slice]
      BY <3>1, ZeroSlicesTyped
    <3>3. P' \in [BatchSlots -> Slice] /\ RHS' \in [BatchSlots -> Slice] /\ Z' \in [BatchSlots -> Slice]
      BY <1>2, <2>3, <3>2 DEF Arrays
    <3>4. QED
      BY <1>2, <2>1, <3>3 DEF Arrays, byTarget
  <2>4. QED
    BY <2>2, <2>3
<1>3. CASE StartBatch
  BY <1>2, <1>3 DEF StartBatch, loop
<1>4. CASE NextStage
  BY <1>2, <1>4 DEF NextStage, loop
<1>5. CASE EndBatch
  BY <1>2, <1>5 DEF EndBatch
<1>6. CASE ClearP
  BY <1>2, <1>6 DEF ClearP, loop
<1>7. ASSUME NEW k \in todo, Kernel(k) PROVE Arrays'
  BY <1>7, KernelTyped
<1>8. CASE UNCHANGED vars
  BY <1>2, <1>8 DEF vars, loop
<1>9. QED
  BY <1>1, <1>3, <1>4, <1>5, <1>6, <1>7, <1>8 DEF Next, Loop

LEMMA TypedAlways == Spec => [](Control /\ Path /\ Arrays)
<1>1. Init => Control /\ Path /\ Arrays
  BY ControlInit, ArraysInit
<1>2. Control /\ Path /\ Arrays /\ [Next]_vars => (Control /\ Path /\ Arrays)'
  BY ControlStep, ArraysStep
<1>3. QED
  BY <1>1, <1>2, PTL DEF Spec

(* Whatever the problems, every slice and place holds a value and the loop *)
(* is within its bounds.                                                   *)
THEOREM KernelsTyped == Spec => []TypeOK
<1>1. Control /\ Path /\ Arrays => TypeOK
  BY ArraysTypeOK
<1>2. QED
  BY <1>1, TypedAlways, PTL

-----------------------------------------------------------------------------
(* What each target's own data are when its team is due for a stage.  Due  *)
(* tells it for a problem q, the team k of target t, a stage s in a pass p *)
(* and a view v of the team's slices and of the places of its target.      *)
View(k) ==
  [P |-> P[k], RHS |-> RHS[k], Z |-> Z[k],
   T |-> T[TargetOf(k)], geometry |-> curvature_coefficients[TargetOf(k)],
   weights |-> prestencil_weights[TargetOf(k)], alphas |-> alphas[TargetOf(k)]]

FrameAt(q, s, p) ==
  IF q.tangents = "provided" \/ ~ OnManifold(q) THEN FinalFrame(q)
  ELSE IF s = "ComputeCoarseTangentPlane" THEN NoFrame
  ELSE IF s = "FixTangentDirectionOrdering" THEN Frame("coarse", FALSE)
  ELSE IF p = "tangents" /\ s # "ClearP" THEN Frame("coarse", q.tangents = "oriented")
  ELSE FinalFrame(q)

WeightsOf(q, t) ==
  IF NeedsWeights(q)
  THEN <<Of("weights", IF q.sampling = "VaryingManifoldVectorPoint" THEN "curvature" ELSE "tangents",
            t, FinalFrame(q), TRUE)>>
  ELSE <<>>

AlphasOf(q, t) ==
  [coefficients |-> Of("coefficients", "problem", t, FinalFrame(q), TRUE),
   row |-> Of("row", "problem", t, FinalFrame(q), TRUE)]

WeighedBefore(q, s, p) ==
  \/ s \in {"EvaluateStandardTargets", "EvaluateManifoldTargets", "AssembleManifoldPsqrtW",
            "ApplyTargets"}
  \/ s = "SolveProblem" /\ OnManifold(q)
  \/ s = "ClearP" /\ p = "geometry"

GeometryBefore(q, s, p) ==
  \/ s \in {"AssembleManifoldPsqrtW", "EvaluateManifoldTargets"}
  \/ s \in {"ComputePrestencilWeights", "SolveProblem"} /\ OnManifold(q)
  \/ s = "ClearP" /\ p = "geometry"

(* The slices of a team.                                                   *)
Cleared(v) == v.P.value = Zeros

Clean(q, k, v) ==
  \/ Cleared(v)
  \/ /\ v.P.begin = Begin(k, CallerDims(q).P) /\ v.P.width = CallerDims(q).P[2]
     /\ v.P.value.is = "matrix" /\ v.P.value.sound = TRUE

System(q, t, k, of, v) ==
  /\ v.P = Put(k, CallerDims(q).P,
               Of(IF q.solver = "LU" THEN "weighted" ELSE "matrix", of, t, v.T, TRUE))
  /\ v.RHS = Put(k, CallerDims(q).RHS,
               Of(IF q.solver = "LU" THEN "normal" ELSE "diagonal", of, t, v.T, TRUE))

Solved(q, t, k, of, v) ==
  IF q.solver = "LU"
  THEN v.P = Put(k, Transposed(CallerDims(q).P), Of("coefficients", of, t, v.T, TRUE))
  ELSE v.RHS = Put(k, CallerDims(q).RHS, Of("coefficients", of, t, v.T, TRUE))

SlicesReady(q, t, k, s, v) ==
  /\ s \in {"AssembleStandardPsqrtW", "ComputeCoarseTangentPlane", "AssembleManifoldPsqrtW"}
       => Cleared(v)
  /\ s \in {"FixTangentDirectionOrdering", "AssembleCurvaturePsqrtW"} => Clean(q, k, v)
  /\ s = "SolveCurvature" => System(q, t, k, "curvature", v)
  /\ s = "SolveProblem" => System(q, t, k, "problem", v)
  /\ s \in {"GetAccurateTangentDirections", "ApplyCurvatureTargets"}
       => Solved(q, t, k, "curvature", v)
  /\ s = "ComputePrestencilWeights"
       => Solved(q, t, k, IF OnManifold(q) THEN "curvature" ELSE "problem", v)
  /\ s \in {"EvaluateStandardTargets", "EvaluateManifoldTargets", "ApplyTargets"}
       => Solved(q, t, k, "problem", v)
  /\ s = "ApplyTargets" => v.Z = Put(k, CallerDims(q).Z, Of("row", "problem", t, v.T, TRUE))

Due(q, t, k, s, p, v) ==
  /\ v.T = FrameAt(q, s, p)
  /\ v.alphas = NoAlphas
  /\ v.weights = IF WeighedBefore(q, s, p) THEN WeightsOf(q, t) ELSE <<>>
  /\ GeometryBefore(q, s, p) => v.geometry = Of("geometry", "curvature", t, v.T, TRUE)
  /\ SlicesReady(q, t, k, s, v)

Finished(q, t, v) == v.alphas = AlphasOf(q, t) /\ v.weights = WeightsOf(q, t)

-----------------------------------------------------------------------------
LEMMA GetPut ==
  ASSUME NEW k, NEW dims, NEW value PROVE Get(Put(k, dims, value), k, dims) = value
BY DEF Get, Put

(* A team of a kernel has what it is due for, and the dimensions agree.    *)
LEMMA DimsAgree ==
  ASSUME NEW q, ProblemIn(q)
  PROVE  /\ BasisDims(q).P = CallerDims(q).P /\ BasisDims(q).RHS = CallerDims(q).RHS
         /\ BasisDims(q).Z = CallerDims(q).Z
         /\ NormalEquations(q) <=> q.solver = "LU"
         /\ BasisDims(q).Coeffs = IF q.solver = "LU" THEN Transposed(CallerDims(q).P)
                                                     ELSE CallerDims(q).RHS
         /\ Regular(q) => /\ SolutionDims(q).Coeffs = BasisDims(q).Coeffs
                          /\ SolutionDims(q).Z = CallerDims(q).Z
<1>1. Sized(q)
  BY DEF ProblemIn
<1>2. BasisDims(q).P = CallerDims(q).P /\ BasisDims(q).RHS = CallerDims(q).RHS
      /\ BasisDims(q).Z = CallerDims(q).Z
  BY <1>1, Areas
<1>3. NormalEquations(q) <=> q.solver = "LU"
  BY DEF NormalEquations, ProblemIn
<1>4. /\ BasisDims(q).Coeffs = CoeffsDims(q, max_num_rows(q), BasisColumns(q))
      /\ SolutionDims(q).Coeffs = CoeffsDims(q, max_num_rows(q), SolutionColumns(q))
      /\ SolutionDims(q).Z = <<q.alpha_rows, SolutionColumns(q)>>
      /\ CallerDims(q).Z = <<q.alpha_rows, CallerColumns(q)>>
      /\ CallerDims(q).P = getPDims(q, max_num_rows(q), CallerColumns(q))
      /\ CallerDims(q).RHS = getRHSDims(q, max_num_rows(q), CallerColumns(q))
  BY DEF BasisDims, SolutionDims, CallerDims
<1>5. BasisColumns(q) = CallerColumns(q)
      /\ (Regular(q) => SolutionColumns(q) = CallerColumns(q))
  BY <1>1, Columns DEF Regular
<1>6. BasisDims(q).Coeffs = IF q.solver = "LU" THEN Transposed(CallerDims(q).P)
                                               ELSE CallerDims(q).RHS
  BY <1>3, <1>4, <1>5 DEF CoeffsDims
<1>7. QED
  BY <1>2, <1>3, <1>4, <1>5, <1>6

LEMMA ViewAfter ==
  ASSUME NEW k, fixed' = fixed
  PROVE  View(k)' =
           [P |-> P'[k], RHS |-> RHS'[k], Z |-> Z'[k],
            T |-> T'[TargetOf(k)], geometry |-> curvature_coefficients'[TargetOf(k)],
            weights |-> prestencil_weights'[TargetOf(k)], alphas |-> alphas'[TargetOf(k)]]
BY DEF View, TargetOf, fixed, loop

-----------------------------------------------------------------------------
(* A team that has what it is due for leaves what is due for the stage     *)
(* that follows: kernel by kernel.                                         *)
TeamDue(k) ==
  /\ Control /\ Path /\ Arrays /\ Regular(g)
  /\ k \in todo
  /\ Due(g, TargetOf(k), k, stage, pass, View(k))

LEMMA DueFacts ==
  ASSUME NEW k, TeamDue(k)
  PROVE  /\ ProblemIn(g) /\ OnPath(g, stage, pass) /\ k \in BatchSlots /\ TargetOf(k) \in Targets
         /\ BasisDims(g).P = CallerDims(g).P /\ BasisDims(g).RHS = CallerDims(g).RHS
         /\ BasisDims(g).Z = CallerDims(g).Z
         /\ T[TargetOf(k)] = FrameAt(g, stage, pass)
         /\ pass \in {"tangents", "geometry"}
<1>1. ProblemIn(g) /\ OnPath(g, stage, pass) /\ k \in BatchSlots /\ TargetOf(k) \in Targets
  BY TeamAtHand DEF TeamDue, Path
<1>2. View(k).T = FrameAt(g, stage, pass)
  BY DEF TeamDue, Due
<1>3. View(k).T = T[TargetOf(k)]
  BY DEF View
<1>4. QED
  BY <1>1, <1>2, <1>3, DimsAgree DEF TeamDue, Control

LEMMA AssembledSound ==
  ASSUME NEW k, TeamDue(k), Clean(g, k, View(k)), NEW of
  PROVE  Assembled(k, of) = Of("matrix", of, TargetOf(k), T[TargetOf(k)], TRUE)
<1> DEFINE rest == Get(P[k], k, BasisDims(g).P)
<1>1. rest = Zeros \/ (rest.is = "matrix" /\ rest.sound = TRUE)
  <2>1. \/ P[k].value = Zeros
        \/ /\ P[k].begin = Begin(k, BasisDims(g).P) /\ P[k].width = BasisDims(g).P[2]
           /\ P[k].value.is = "matrix" /\ P[k].value.sound = TRUE
    BY DueFacts DEF Clean, Cleared, View
  <2>2. QED
    BY <2>1 DEF Get
<1>2. (rest = Zeros \/ (rest.is = "matrix" /\ rest.sound)) = TRUE
  BY <1>1
<1>3. Assembled(k, of) = Of("matrix", of, TargetOf(k), T[TargetOf(k)],
                            rest = Zeros \/ (rest.is = "matrix" /\ rest.sound))
  BY DEF Assembled
<1> HIDE DEF rest
<1>4. QED
  BY <1>2, <1>3

LEMMA AssembleSystem ==
  ASSUME NEW k, TeamDue(k), Clean(g, k, View(k)), NEW of, NEW diagonal \in BOOLEAN,
         diagonal <=> g.solver # "LU", AssemblePsqrtW(k, of, diagonal), fixed' = fixed
  PROVE  /\ System(g, TargetOf(k), k, of, View(k)')
         /\ View(k)'.T = View(k).T /\ View(k)'.geometry = View(k).geometry
         /\ View(k)'.weights = View(k).weights /\ View(k)'.alphas = View(k).alphas
<1> DEFINE A == Assembled(k, of)
           t == TargetOf(k)
           first == IF diagonal THEN A ELSE As("weighted", A)
           second == As(IF diagonal THEN "diagonal" ELSE "normal", A)
<1>1. A = Of("matrix", of, t, T[t], TRUE)
  BY AssembledSound
<1>2. /\ first = Of(IF g.solver = "LU" THEN "weighted" ELSE "matrix", of, t, T[t], TRUE)
      /\ second = Of(IF g.solver = "LU" THEN "normal" ELSE "diagonal", of, t, T[t], TRUE)
  <2>1. \A i : As(i, A) = Of(i, of, t, T[t], TRUE)
    <3> HIDE DEF A, t
    <3>1. A.of = of /\ A.target = t /\ A.frame = T[t] /\ A.sound = TRUE
      BY <1>1 DEF Of
    <3>2. QED
      BY <3>1 DEF As
  <2>2. CASE g.solver # "LU"
    <3>1. first = A /\ second = As("diagonal", A)
      BY <2>2
    <3> HIDE DEF A, first, second
    <3>2. QED
      BY <1>1, <2>1, <2>2, <3>1
  <2>3. CASE g.solver = "LU"
    <3>1. first = As("weighted", A) /\ second = As("normal", A)
      BY <2>3
    <3> HIDE DEF A, first, second
    <3>2. QED
      BY <2>1, <2>3, <3>1
  <2>4. QED
    BY <2>2, <2>3
<1>3. /\ P' = [P EXCEPT ![k] = Put(k, BasisDims(g).P, first)]
      /\ RHS' = [RHS EXCEPT ![k] = Put(k, BasisDims(g).RHS, second)]
      /\ Z' = Z /\ byTarget' = byTarget
  BY DEF AssemblePsqrtW
<1> HIDE DEF A, first, second
<1>4. /\ P'[k] = Put(k, CallerDims(g).P, first) /\ RHS'[k] = Put(k, CallerDims(g).RHS, second)
  BY <1>3, DueFacts DEF TeamDue, Arrays
<1>5. /\ View(k)'.P = P'[k] /\ View(k)'.RHS = RHS'[k] /\ View(k)'.T = T[t]
      /\ View(k)'.geometry = curvature_coefficients[t]
      /\ View(k)'.weights = prestencil_weights[t] /\ View(k)'.alphas = alphas[t]
  BY <1>3, ViewAfter DEF byTarget
<1>6. System(g, t, k, of, View(k)')
  BY <1>2, <1>4, <1>5 DEF System
<1>7. QED
  BY <1>5, <1>6 DEF View

LEMMA DueStandardSystem ==
  ASSUME NEW k, TeamDue(k), AssembleStandardPsqrtW(k)
  PROVE  Due(g, TargetOf(k), k, Following, pass, View(k)')
<1>1. stage = "AssembleStandardPsqrtW" /\ Following = "SolveProblem" /\ fixed' = fixed
  BY DEF AssembleStandardPsqrtW, Team, Following, fixed
<1>2. ~ OnManifold(g) /\ pass = "geometry"
  BY <1>1, DueFacts DEF OnPath, TangentStages, GeometryStages
<1>3. (g.constraint = "NONE" /\ g.solver # "LU") <=> g.solver # "LU"
  BY DueFacts DEF ProblemIn
<1>4. Due(g, TargetOf(k), k, "AssembleStandardPsqrtW", pass, View(k))
  BY <1>1 DEF TeamDue
<1>5. Clean(g, k, View(k))
  BY <1>4 DEF Due, SlicesReady, Clean
<1>6. /\ System(g, TargetOf(k), k, "problem", View(k)')
      /\ View(k)'.T = View(k).T /\ View(k)'.weights = View(k).weights
      /\ View(k)'.alphas = View(k).alphas
  BY <1>1, <1>3, <1>5, AssembleSystem DEF AssembleStandardPsqrtW
<1>7. QED
  BY <1>1, <1>2, <1>4, <1>6 DEF Due, SlicesReady, FrameAt, WeighedBefore, GeometryBefore

LEMMA DueCurvatureSystem ==
  ASSUME NEW k, TeamDue(k), AssembleCurvaturePsqrtW(k)
  PROVE  Due(g, TargetOf(k), k, Following, pass, View(k)')
<1>1. stage = "AssembleCurvaturePsqrtW" /\ Following = "SolveCurvature" /\ fixed' = fixed
  BY DEF AssembleCurvaturePsqrtW, Team, Following, fixed
<1>2. Due(g, TargetOf(k), k, "AssembleCurvaturePsqrtW", pass, View(k))
  BY <1>1 DEF TeamDue
<1>3. Clean(g, k, View(k))
  BY <1>2 DEF Due, SlicesReady
<1>4. /\ System(g, TargetOf(k), k, "curvature", View(k)')
      /\ View(k)'.T = View(k).T /\ View(k)'.weights = View(k).weights
      /\ View(k)'.alphas = View(k).alphas
  BY <1>1, <1>3, AssembleSystem DEF AssembleCurvaturePsqrtW
<1>5. QED
  BY <1>1, <1>2, <1>4 DEF Due, SlicesReady, FrameAt, WeighedBefore, GeometryBefore

LEMMA DueManifoldSystem ==
  ASSUME NEW k, TeamDue(k), AssembleManifoldPsqrtW(k)
  PROVE  Due(g, TargetOf(k), k, Following, pass, View(k)')
<1>1. stage = "AssembleManifoldPsqrtW" /\ Following = "SolveProblem" /\ fixed' = fixed
  BY DEF AssembleManifoldPsqrtW, Team, Following, fixed
<1>2. OnManifold(g) /\ pass = "geometry"
  BY <1>1, DueFacts DEF OnPath, StandardStages, TangentStages
<1>3. Due(g, TargetOf(k), k, "AssembleManifoldPsqrtW", pass, View(k))
  BY <1>1 DEF TeamDue
<1>4. Clean(g, k, View(k))
  BY <1>3 DEF Due, SlicesReady, Clean
<1>5. /\ System(g, TargetOf(k), k, "problem", View(k)')
      /\ View(k)'.T = View(k).T /\ View(k)'.geometry = View(k).geometry
      /\ View(k)'.weights = View(k).weights /\ View(k)'.alphas = View(k).alphas
  BY <1>1, <1>4, AssembleSystem DEF AssembleManifoldPsqrtW
<1>6. QED
  BY <1>1, <1>2, <1>3, <1>5 DEF Due, SlicesReady, FrameAt, WeighedBefore, GeometryBefore

LEMMA DueCoarsePlane ==
  ASSUME NEW k, TeamDue(k), ComputeCoarseTangentPlane(k)
  PROVE  Due(g, TargetOf(k), k, Following, pass, View(k)')
<1> DEFINE t == TargetOf(k)
           A == Assembled(k, "coarse")
<1>1. stage = "ComputeCoarseTangentPlane" /\ fixed' = fixed
  BY DEF ComputeCoarseTangentPlane, Team, fixed
<1>2. OnManifold(g) /\ pass = "tangents" /\ g.tangents # "provided"
  BY <1>1, DueFacts DEF OnPath, StandardStages, GeometryStages
<1>3. Following = IF g.tangents = "oriented" THEN "FixTangentDirectionOrdering"
                  ELSE "AssembleCurvaturePsqrtW"
  BY <1>1 DEF Following
<1>4. Due(g, t, k, "ComputeCoarseTangentPlane", pass, View(k))
  BY <1>1 DEF TeamDue
<1>5. A = Of("matrix", "coarse", t, T[t], TRUE)
  <2>1. Clean(g, k, View(k))
    BY <1>4 DEF Due, SlicesReady, Clean
  <2>2. QED
    BY <2>1, AssembledSound
<1>6. A.sound = TRUE /\ A.is = "matrix"
  BY <1>5 DEF Of
<1>7. g.dims <= BasisColumns(g)
  BY <1>2 DEF TeamDue, Regular
<1>8. /\ P' = [P EXCEPT ![k] = Put(k, BasisDims(g).P, A)]
      /\ T' = [T EXCEPT ![t] =
           Frame(IF A.sound /\ g.dims <= BasisColumns(g) THEN "coarse" ELSE "wrong", FALSE)]
      /\ UNCHANGED <<RHS, Z, curvature_coefficients, prestencil_weights, alphas>>
  BY DEF ComputeCoarseTangentPlane
<1> HIDE DEF A
<1>9. P'[k] = Put(k, CallerDims(g).P, A) /\ T'[t] = Frame("coarse", FALSE)
  BY <1>6, <1>7, <1>8, DueFacts DEF TeamDue, Arrays
<1>10. /\ View(k)'.P = P'[k] /\ View(k)'.T = T'[t]
       /\ View(k)'.weights = View(k).weights /\ View(k)'.alphas = View(k).alphas
  BY <1>1, <1>8, ViewAfter DEF View
<1>11. Clean(g, k, View(k)')
  BY <1>6, <1>9, <1>10 DEF Clean, Put
<1>12. FrameAt(g, Following, pass) = Frame("coarse", FALSE)
  BY <1>2, <1>3 DEF FrameAt, Frame
<1>13. QED
  BY <1>2, <1>3, <1>4, <1>9, <1>10, <1>11, <1>12
     DEF Due, SlicesReady, WeighedBefore, GeometryBefore

LEMMA DueOrientedPlane ==
  ASSUME NEW k, TeamDue(k), FixTangentDirectionOrdering(k)
  PROVE  Due(g, TargetOf(k), k, Following, pass, View(k)')
<1> DEFINE t == TargetOf(k)
<1>1. stage = "FixTangentDirectionOrdering" /\ fixed' = fixed
      /\ Following = "AssembleCurvaturePsqrtW"
  BY DEF FixTangentDirectionOrdering, Team, fixed, Following
<1>2. OnManifold(g) /\ pass = "tangents" /\ g.tangents = "oriented"
  BY <1>1, DueFacts DEF OnPath, StandardStages, GeometryStages
<1>3. Due(g, t, k, "FixTangentDirectionOrdering", pass, View(k))
  BY <1>1 DEF TeamDue
<1>4. /\ T' = [T EXCEPT ![t].oriented = TRUE]
      /\ UNCHANGED <<P, RHS, Z, curvature_coefficients, prestencil_weights, alphas>>
  BY DEF FixTangentDirectionOrdering
<1>5. T[t] = Frame("coarse", FALSE)
  BY <1>1, <1>2, DueFacts DEF FrameAt
<1>6. T'[t] = Frame("coarse", TRUE)
  <2>1. T'[t] \in Frames /\ T'[t].is = T[t].is /\ T'[t].oriented = TRUE
    BY <1>4, DueFacts DEF TeamDue, Arrays, Frames
  <2>2. T[t].is = "coarse"
    BY <1>5 DEF Frame
  <2>3. QED
    BY <2>1, <2>2 DEF Frame, Frames
<1>7. /\ View(k)'.P = View(k).P /\ View(k)'.T = T'[t]
      /\ View(k)'.weights = View(k).weights /\ View(k)'.alphas = View(k).alphas
  BY <1>1, <1>4, ViewAfter DEF View
<1>8. Clean(g, k, View(k)')
  BY <1>3, <1>7 DEF Due, SlicesReady, Clean, Cleared
<1>9. FrameAt(g, Following, pass) = Frame("coarse", TRUE)
  BY <1>1, <1>2 DEF FrameAt
<1>10. QED
  BY <1>1, <1>3, <1>6, <1>7, <1>8, <1>9 DEF Due, SlicesReady, WeighedBefore, GeometryBefore

(* The solver makes coefficients of a system.                              *)
LEMMA SolveSystem ==
  ASSUME NEW k, TeamDue(k), NEW of, System(g, TargetOf(k), k, of, View(k)),
         NEW M, NEW N \in Nat, NEW n \in Nat, g.solver # "LU" => NotSquare(M, N),
         IF g.solver = "LU" THEN SolveLU(k, n) ELSE SolveQR(k, M, N),
         fixed' = fixed, UNCHANGED <<Z, byTarget>>
  PROVE  /\ Solved(g, TargetOf(k), k, of, View(k)')
         /\ View(k)'.T = View(k).T /\ View(k)'.geometry = View(k).geometry
         /\ View(k)'.weights = View(k).weights /\ View(k)'.alphas = View(k).alphas
<1> DEFINE t == TargetOf(k)
           value(is) == Of(is, of, t, T[t], TRUE)
           a == Get(P[k], k, CallerDims(g).P)
           b == Get(RHS[k], k, CallerDims(g).RHS)
<1>1. /\ a = value(IF g.solver = "LU" THEN "weighted" ELSE "matrix")
      /\ b = value(IF g.solver = "LU" THEN "normal" ELSE "diagonal")
  <2>1. View(k).P = P[k] /\ View(k).RHS = RHS[k] /\ View(k).T = T[t]
    BY DEF View
  <2>2. /\ P[k] = Put(k, CallerDims(g).P, value(IF g.solver = "LU" THEN "weighted" ELSE "matrix"))
        /\ RHS[k] = Put(k, CallerDims(g).RHS, value(IF g.solver = "LU" THEN "normal" ELSE "diagonal"))
    BY <2>1 DEF System
  <2> HIDE DEF value
  <2>3. QED
    BY <2>2, GetPut
<1>2. /\ View(k)'.P = P'[k] /\ View(k)'.RHS = RHS'[k] /\ View(k)'.T = T[t]
      /\ View(k)'.geometry = View(k).geometry
      /\ View(k)'.weights = View(k).weights /\ View(k)'.alphas = View(k).alphas
      /\ View(k).T = T[t]
  BY ViewAfter DEF View, byTarget
<1>3. k \in DOMAIN P /\ k \in DOMAIN RHS
  BY DueFacts DEF TeamDue, Arrays
<1>4. \A i, j : As(i, value(j)) = value(i)
  BY DEF As, Of
<1>5. \A i : /\ value(i).is = i /\ value(i).of = of /\ value(i).target = t
             /\ value(i).frame = T[t] /\ value(i).sound = TRUE
  BY DEF Of
<1>6. CASE g.solver = "LU"
  <2>1. a = value("weighted") /\ b = value("normal")
    BY <1>1, <1>6
  <2>2. "weighted" \in FormsTaken(n, n)
    BY DEF FormsTaken
  <2>3. Solution(b, a, n, n) = value("coefficients")
    <3> HIDE DEF a, b, value
    <3>1. /\ b.is \in {"matrix", "normal"} /\ b.sound = TRUE
          /\ a.is = "weighted" /\ a = As(a.is, b)
      BY <1>4, <1>5, <2>1
    <3>2. (/\ b.is \in {"matrix", "normal"} /\ b.sound
           /\ a = As(a.is, b) /\ a.is \in FormsTaken(n, n)) = TRUE
      BY <2>2, <3>1
    <3>3. Solution(b, a, n, n) = Of("coefficients", b.of, b.target, b.frame, TRUE)
      BY <3>2, Zenon DEF Solution
    <3>4. QED
      BY <1>5, <2>1, <3>3 DEF value
  <2>4. P' = [P EXCEPT ![k] = Put(k, Transposed(CallerDims(g).P), Solution(b, a, n, n))]
    BY <1>6 DEF SolveLU
  <2>5. P'[k] = Put(k, Transposed(CallerDims(g).P), value("coefficients"))
    BY <1>3, <2>3, <2>4
  <2>6. QED
    BY <1>2, <1>6, <2>5 DEF Solved
<1>7. CASE g.solver # "LU"
  <2>1. a = value("matrix") /\ b = value("diagonal")
    BY <1>1, <1>7
  <2>2. "diagonal" \in FormsTaken(M, N)
    BY <1>7 DEF FormsTaken, NotSquare
  <2>3. Solution(a, b, M, N) = value("coefficients")
    <3> HIDE DEF a, b, value
    <3>1. /\ a.is \in {"matrix", "normal"} /\ a.sound = TRUE
          /\ b.is = "diagonal" /\ b = As(b.is, a)
      BY <1>4, <1>5, <2>1
    <3>2. (/\ a.is \in {"matrix", "normal"} /\ a.sound
           /\ b = As(b.is, a) /\ b.is \in FormsTaken(M, N)) = TRUE
      BY <2>2, <3>1
    <3>3. Solution(a, b, M, N) = Of("coefficients", a.of, a.target, a.frame, TRUE)
      BY <3>2, Zenon DEF Solution
    <3>4. QED
      BY <1>5, <2>1, <3>3 DEF value
  <2>4. RHS' = [RHS EXCEPT ![k] = Put(k, CallerDims(g).RHS, Solution(a, b, M, N))]
    BY <1>7 DEF SolveQR
  <2>5. RHS'[k] = Put(k, CallerDims(g).RHS, value("coefficients"))
    BY <1>3, <2>3, <2>4
  <2>6. QED
    BY <1>2, <1>7, <2>5 DEF Solved
<1>8. QED
  BY <1>6, <1>7

LEMMA DueCurvatureSolution ==
  ASSUME NEW k, TeamDue(k), SolveCurvature(k)
  PROVE  Due(g, TargetOf(k), k, Following, pass, View(k)')
<1> DEFINE t == TargetOf(k)
<1>1. /\ stage = "SolveCurvature" /\ fixed' = fixed
      /\ Following = IF pass = "tangents" THEN "GetAccurateTangentDirections"
                     ELSE "ApplyCurvatureTargets"
  BY DEF SolveCurvature, Team, fixed, Following
<1>2. OnManifold(g)
  BY <1>1, DueFacts DEF OnPath, StandardStages
<1>3. Due(g, t, k, "SolveCurvature", pass, View(k))
  BY <1>1 DEF TeamDue
<1>4. manifold_NP(g) \in Nat
  BY <1>2, DueFacts, Columns DEF ProblemIn
<1>5. g.solver # "LU" => NotSquare(g.max_neighbors, manifold_NP(g))
  BY <1>2, DueFacts DEF TeamDue, Regular, ProblemIn
<1>6. /\ IF g.solver = "LU" THEN SolveLU(k, manifold_NP(g))
         ELSE SolveQR(k, g.max_neighbors, manifold_NP(g))
      /\ UNCHANGED <<Z, byTarget>>
  BY DEF SolveCurvature
<1>7. System(g, t, k, "curvature", View(k))
  BY <1>3 DEF Due, SlicesReady
<1>8. /\ Solved(g, t, k, "curvature", View(k)')
      /\ View(k)'.T = View(k).T
      /\ View(k)'.weights = View(k).weights /\ View(k)'.alphas = View(k).alphas
  BY <1>1, <1>4, <1>5, <1>6, <1>7, SolveSystem
<1>9. QED
  BY <1>1, <1>3, <1>8 DEF Due, SlicesReady, FrameAt, WeighedBefore, GeometryBefore

LEMMA DueProblemSolution ==
  ASSUME NEW k, TeamDue(k), SolveProblem(k)
  PROVE  Due(g, TargetOf(k), k, Following, pass, View(k)')
<1> DEFINE t == TargetOf(k)
<1>1. /\ stage = "SolveProblem" /\ fixed' = fixed
      /\ Following = IF OnManifold(g) THEN "EvaluateManifoldTargets"
                     ELSE "ComputePrestencilWeights"
  BY DEF SolveProblem, Team, fixed, Following
<1>2. pass = "geometry"
  BY <1>1, DueFacts DEF OnPath, TangentStages
<1>3. Due(g, t, k, "SolveProblem", pass, View(k))
  BY <1>1 DEF TeamDue
<1>4. Sized(g) /\ CallerColumns(g) \in Nat
  BY DueFacts, Columns DEF ProblemIn
<1>5. ProblemColumns \in Nat
  BY <1>4, Added DEF ProblemColumns
<1>6. g.solver # "LU" => NotSquare(max_num_rows(g), CallerColumns(g))
  BY DueFacts DEF TeamDue, Regular, ProblemIn
<1>7. /\ IF g.solver = "LU" THEN SolveLU(k, ProblemColumns)
         ELSE SolveQR(k, max_num_rows(g), CallerColumns(g))
      /\ UNCHANGED <<Z, byTarget>>
  BY DEF SolveProblem
<1>8. System(g, t, k, "problem", View(k))
  BY <1>3 DEF Due, SlicesReady
<1>9. /\ Solved(g, t, k, "problem", View(k)')
      /\ View(k)'.T = View(k).T /\ View(k)'.geometry = View(k).geometry
      /\ View(k)'.weights = View(k).weights /\ View(k)'.alphas = View(k).alphas
  BY <1>1, <1>4, <1>5, <1>6, <1>7, <1>8, SolveSystem
<1>10. QED
  BY <1>1, <1>2, <1>3, <1>9 DEF Due, SlicesReady, FrameAt, WeighedBefore, GeometryBefore

(* What kernels derive from the solution of the geometry is right.         *)
LEMMA CoefficientsFound ==
  ASSUME NEW k, TeamDue(k), NEW of, Solved(g, TargetOf(k), k, of, View(k))
  PROVE  Coeffs(k, BasisDims(g).Coeffs) = Of("coefficients", of, TargetOf(k), T[TargetOf(k)], TRUE)
<1> DEFINE v == Of("coefficients", of, TargetOf(k), T[TargetOf(k)], TRUE)
<1>1. View(k).P = P[k] /\ View(k).RHS = RHS[k] /\ View(k).T = T[TargetOf(k)]
  BY DEF View
<1>2. ProblemIn(g)
  BY DueFacts
<1>3. CASE g.solver = "LU"
  <2>1. P[k] = Put(k, Transposed(CallerDims(g).P), v)
    BY <1>1, <1>3 DEF Solved
  <2>2. Coeffs(k, BasisDims(g).Coeffs) = Get(P[k], k, Transposed(CallerDims(g).P))
    BY <1>2, <1>3, DimsAgree DEF Coeffs
  <2>3. Get(Put(k, Transposed(CallerDims(g).P), v), k, Transposed(CallerDims(g).P)) = v
    <3> HIDE DEF v
    <3>1. QED
      BY GetPut
  <2>4. QED
    BY <2>1, <2>2, <2>3, Zenon
<1>4. CASE g.solver # "LU"
  <2>1. RHS[k] = Put(k, CallerDims(g).RHS, v)
    BY <1>1, <1>4 DEF Solved
  <2>2. Coeffs(k, BasisDims(g).Coeffs) = Get(RHS[k], k, CallerDims(g).RHS)
    BY <1>2, <1>4, DimsAgree DEF Coeffs
  <2>3. Get(Put(k, CallerDims(g).RHS, v), k, CallerDims(g).RHS) = v
    <3> HIDE DEF v
    <3>1. QED
      BY GetPut
  <2>4. QED
    BY <2>1, <2>2, <2>3, Zenon
<1>5. QED
  BY <1>3, <1>4

LEMMA DerivedRight ==
  ASSUME NEW k, TeamDue(k), Solved(g, TargetOf(k), k, "curvature", View(k)), NEW is
  PROVE  Derived(k, is) = Of(is, "curvature", TargetOf(k), T[TargetOf(k)], TRUE)
<1>1. Coeffs(k, BasisDims(g).Coeffs) = Geometry(k)
  BY CoefficientsFound DEF Geometry
<1>2. (Coeffs(k, BasisDims(g).Coeffs) = Geometry(k)) = TRUE
  BY <1>1
<1>3. QED
  BY <1>2, Zenon DEF Derived

LEMMA DueAccurateTangents ==
  ASSUME NEW k, TeamDue(k), GetAccurateTangentDirections(k)
  PROVE  Due(g, TargetOf(k), k, Following, pass, View(k)')
<1> DEFINE t == TargetOf(k)
           accurate == T[t].is = "coarse" /\ Derived(k, "gradient").sound
<1>1. stage = "GetAccurateTangentDirections" /\ fixed' = fixed /\ Following = "ClearP"
  BY DEF GetAccurateTangentDirections, Team, fixed, Following
<1>2. OnManifold(g) /\ pass = "tangents" /\ g.tangents # "provided"
  BY <1>1, DueFacts DEF OnPath, StandardStages, GeometryStages
<1>3. Due(g, t, k, "GetAccurateTangentDirections", pass, View(k))
  BY <1>1 DEF TeamDue
<1>4. Derived(k, "gradient").sound = TRUE
  <2>1. Solved(g, t, k, "curvature", View(k))
    BY <1>3 DEF Due, SlicesReady
  <2>2. QED
    BY <2>1, DerivedRight DEF Of
<1>5. T[t] = Frame("coarse", g.tangents = "oriented")
  BY <1>1, <1>2, DueFacts DEF FrameAt
<1>6. accurate
  BY <1>4, <1>5 DEF Frame
<1>7. /\ T' = [T EXCEPT ![t].is = IF accurate THEN "accurate" ELSE "wrong"]
      /\ UNCHANGED <<P, RHS, curvature_coefficients, prestencil_weights, alphas>>
  BY DEF GetAccurateTangentDirections
<1> HIDE DEF accurate
<1>8. T'[t] = Frame("accurate", g.tangents = "oriented")
  <2>1. T'[t] \in Frames /\ T'[t].is = "accurate" /\ T'[t].oriented = T[t].oriented
    BY <1>6, <1>7, DueFacts DEF TeamDue, Arrays, Frames
  <2>2. T[t].oriented = (g.tangents = "oriented")
    BY <1>5 DEF Frame
  <2>3. QED
    BY <2>1, <2>2 DEF Frame, Frames
<1>9. /\ View(k)'.T = T'[t]
      /\ View(k)'.weights = View(k).weights /\ View(k)'.alphas = View(k).alphas
  BY <1>1, <1>7, ViewAfter DEF View
<1>10. FrameAt(g, Following, pass) = Frame("accurate", g.tangents = "oriented")
  BY <1>1, <1>2 DEF FrameAt, FinalFrame
<1>11. QED
  BY <1>1, <1>2, <1>3, <1>8, <1>9, <1>10
     DEF Due, SlicesReady, WeighedBefore, GeometryBefore

LEMMA DueGeometry ==
  ASSUME NEW k, TeamDue(k), ApplyCurvatureTargets(k)
  PROVE  Due(g, TargetOf(k), k, Following, pass, View(k)')
<1> DEFINE t == TargetOf(k)
<1>1. /\ stage = "ApplyCurvatureTargets" /\ fixed' = fixed
      /\ Following = "ComputePrestencilWeights"
  BY DEF ApplyCurvatureTargets, Team, fixed, Following
<1>2. OnManifold(g) /\ pass = "geometry"
  BY <1>1, DueFacts DEF OnPath, StandardStages, TangentStages
<1>3. Due(g, t, k, "ApplyCurvatureTargets", pass, View(k))
  BY <1>1 DEF TeamDue
<1>4. Solved(g, t, k, "curvature", View(k))
  BY <1>3 DEF Due, SlicesReady
<1>5. /\ curvature_coefficients' = [curvature_coefficients EXCEPT ![t] = Derived(k, "geometry")]
      /\ UNCHANGED <<P, RHS, T, prestencil_weights, alphas>>
  BY DEF ApplyCurvatureTargets
<1>6. curvature_coefficients'[t] = Of("geometry", "curvature", t, T[t], TRUE)
  BY <1>4, <1>5, DerivedRight, DueFacts DEF TeamDue, Arrays
<1>7. /\ View(k)'.P = View(k).P /\ View(k)'.RHS = View(k).RHS /\ View(k)'.T = View(k).T
      /\ View(k)'.geometry = curvature_coefficients'[t] /\ View(k).T = T[t]
      /\ View(k)'.weights = View(k).weights /\ View(k)'.alphas = View(k).alphas
  BY <1>1, <1>5, ViewAfter DEF View
<1>8. Solved(g, t, k, "curvature", View(k)')
  BY <1>4, <1>7 DEF Solved
<1>9. QED
  BY <1>1, <1>2, <1>3, <1>6, <1>7, <1>8
     DEF Due, SlicesReady, FrameAt, WeighedBefore, GeometryBefore

LEMMA DueWeights ==
  ASSUME NEW k, TeamDue(k), ComputePrestencilWeights(k)
  PROVE  Due(g, TargetOf(k), k, Following, pass, View(k)')
<1> DEFINE t == TargetOf(k)
           tangents == Of("weights", "tangents", t, T[t], TRUE)
           curved == Of("weights", "curvature", t, T[t], TRUE)
<1>1. /\ stage = "ComputePrestencilWeights" /\ fixed' = fixed
      /\ Following = IF OnManifold(g) THEN "ClearP" ELSE "EvaluateStandardTargets"
  BY DEF ComputePrestencilWeights, Team, fixed, Following
<1>2. pass = "geometry" /\ ProblemIn(g)
  BY <1>1, DueFacts DEF OnPath, TangentStages
<1>3. Due(g, t, k, "ComputePrestencilWeights", pass, View(k))
  BY <1>1 DEF TeamDue
<1>4. T[t] = FinalFrame(g)
  BY <1>1, <1>2, DueFacts DEF FrameAt
<1>5. prestencil_weights[t] = <<>>
  BY <1>2, <1>3 DEF Due, WeighedBefore, View
<1>6. OnManifold(g) => Derived(k, "weights") = curved
  <2>1. OnManifold(g) => Solved(g, t, k, "curvature", View(k))
    BY <1>3 DEF Due, SlicesReady
  <2>2. QED
    BY <2>1, DerivedRight
<1>7. UNCHANGED <<P, RHS, Z, T, curvature_coefficients, alphas>>
  BY DEF ComputePrestencilWeights
<1>8. prestencil_weights'[t] = WeightsOf(g, t)
  <2>1. t \in DOMAIN prestencil_weights
    BY DueFacts DEF TeamDue, Arrays
  <2>2. CASE ~ NeedsWeights(g)
    <3>1. prestencil_weights' = prestencil_weights
      BY <2>2 DEF ComputePrestencilWeights, NeedsWeights
    <3>2. QED
      BY <1>5, <2>2, <3>1 DEF WeightsOf
  <2>3. CASE g.sampling = "ManifoldVectorPoint"
    <3>1. prestencil_weights' = [prestencil_weights EXCEPT ![t] = <<tangents>>]
      BY <2>3 DEF ComputePrestencilWeights
    <3>2. WeightsOf(g, t) = <<tangents>>
      BY <1>4, <2>3 DEF WeightsOf, NeedsWeights
    <3> HIDE DEF tangents
    <3>3. QED
      BY <2>1, <3>1, <3>2
  <2>4. CASE g.sampling = "StaggeredEdgeIntegral"
    <3>1. prestencil_weights' =
            [prestencil_weights EXCEPT ![t] = Append(prestencil_weights[t], tangents)]
      BY <2>4 DEF ComputePrestencilWeights
    <3>2. WeightsOf(g, t) = <<tangents>>
      BY <1>4, <2>4 DEF WeightsOf, NeedsWeights
    <3> HIDE DEF tangents
    <3>3. Append(<<>>, tangents) = <<tangents>>
      OBVIOUS
    <3>4. QED
      BY <1>5, <2>1, <3>1, <3>2, <3>3
  <2>5. CASE g.sampling = "VaryingManifoldVectorPoint"
    <3>1. prestencil_weights' = [prestencil_weights EXCEPT ![t] = <<Derived(k, "weights")>>]
      BY <2>5 DEF ComputePrestencilWeights
    <3>2. WeightsOf(g, t) = <<curved>>
      BY <1>4, <2>5 DEF WeightsOf, NeedsWeights
    <3>3. OnManifold(g)
      BY <1>2, <2>5 DEF ProblemIn, Varying
    <3> HIDE DEF curved
    <3>4. QED
      BY <1>6, <2>1, <3>1, <3>2, <3>3
  <2>6. QED
    BY <2>2, <2>3, <2>4, <2>5 DEF NeedsWeights
<1>9. /\ View(k)'.P = View(k).P /\ View(k)'.RHS = View(k).RHS /\ View(k)'.T = View(k).T
      /\ View(k)'.geometry = View(k).geometry
      /\ View(k)'.weights = prestencil_weights'[t] /\ View(k)'.alphas = View(k).alphas
  BY <1>1, <1>7, ViewAfter DEF View
<1>10. \A of : Solved(g, t, k, of, View(k)') <=> Solved(g, t, k, of, View(k))
  BY <1>9 DEF Solved
<1> HIDE DEF t
<1>11. FrameAt(g, Following, pass) = FrameAt(g, "ComputePrestencilWeights", pass)
  BY <1>1, <1>2 DEF FrameAt
<1>12. QED
  BY <1>1, <1>2, <1>3, <1>8, <1>9, <1>10, <1>11
     DEF Due, SlicesReady, WeighedBefore, GeometryBefore, t

(* The kernels that evaluate targets write a row of the target's own.      *)
LEMMA RowWritten ==
  ASSUME NEW k, TeamDue(k), EvaluateTargets(k, "problem", TRUE)
  PROVE  Z'[k] = Put(k, CallerDims(g).Z, Of("row", "problem", TargetOf(k), T[TargetOf(k)], TRUE))
<1> DEFINE v == Of("row", "problem", TargetOf(k), T[TargetOf(k)], TRUE)
<1>1. Z' = [Z EXCEPT ![k] = Put(k, BasisDims(g).Z, v)]
  BY DEF EvaluateTargets
<1>2. k \in DOMAIN Z /\ BasisDims(g).Z = CallerDims(g).Z
  BY DueFacts DEF TeamDue, Arrays
<1> HIDE DEF v
<1>3. Z'[k] = Put(k, CallerDims(g).Z, v)
  BY <1>1, <1>2
<1>4. QED
  BY <1>3 DEF v

LEMMA DueRow ==
  ASSUME NEW k, TeamDue(k),
         stage \in {"EvaluateStandardTargets", "EvaluateManifoldTargets"},
         EvaluateTargets(k, "problem", TRUE), UNCHANGED <<P, RHS, byTarget>>, fixed' = fixed
  PROVE  Due(g, TargetOf(k), k, Following, pass, View(k)')
<1> DEFINE t == TargetOf(k)
           row == Put(k, CallerDims(g).Z, Of("row", "problem", t, T[t], TRUE))
<1>1. Following = "ApplyTargets" /\ pass = "geometry"
  BY DueFacts DEF Following, OnPath, TangentStages, StandardStages
<1>2. Due(g, t, k, stage, pass, View(k))
  BY DEF TeamDue
<1>3. Z'[k] = row
  BY RowWritten
<1>4. /\ View(k)'.P = View(k).P /\ View(k)'.RHS = View(k).RHS /\ View(k)'.T = View(k).T
      /\ View(k)'.Z = Z'[k] /\ View(k).T = T[t]
      /\ View(k)'.weights = View(k).weights /\ View(k)'.alphas = View(k).alphas
  BY ViewAfter DEF View, byTarget
<1>5. Solved(g, t, k, "problem", View(k)')
  BY <1>2, <1>4 DEF Due, SlicesReady, Solved
<1>6. View(k)'.Z = Put(k, CallerDims(g).Z, Of("row", "problem", t, View(k)'.T, TRUE))
  BY <1>3, <1>4
<1>7. FrameAt(g, Following, pass) = FrameAt(g, stage, pass)
  BY <1>1 DEF FrameAt
<1>8. QED
  BY <1>1, <1>2, <1>4, <1>5, <1>6, <1>7 DEF Due, SlicesReady, WeighedBefore, GeometryBefore

LEMMA DueStandardRow ==
  ASSUME NEW k, TeamDue(k), EvaluateStandardTargets(k)
  PROVE  Due(g, TargetOf(k), k, Following, pass, View(k)')
<1>1. /\ stage = "EvaluateStandardTargets" /\ fixed' = fixed
      /\ EvaluateTargets(k, "problem", TRUE) /\ UNCHANGED <<P, RHS, byTarget>>
  BY DEF EvaluateStandardTargets, Team, fixed
<1>2. QED
  BY <1>1, DueRow

LEMMA DueManifoldRow ==
  ASSUME NEW k, TeamDue(k), EvaluateManifoldTargets(k)
  PROVE  Due(g, TargetOf(k), k, Following, pass, View(k)')
<1> DEFINE t == TargetOf(k)
           right == curvature_coefficients[t] = Of("geometry", "curvature", t, T[t], TRUE)
<1>1. /\ stage = "EvaluateManifoldTargets" /\ fixed' = fixed
      /\ EvaluateTargets(k, "problem", right) /\ UNCHANGED <<P, RHS, byTarget>>
  BY DEF EvaluateManifoldTargets, Team, fixed
<1>2. right = TRUE
  <2>1. Due(g, t, k, "EvaluateManifoldTargets", pass, View(k))
    BY <1>1 DEF TeamDue
  <2>2. right
    BY <2>1 DEF Due, GeometryBefore, View
  <2> HIDE DEF right
  <2>3. QED
    BY <2>2 DEF right
<1>3. EvaluateTargets(k, "problem", TRUE)
  BY <1>1, <1>2, Zenon
<1>4. QED
  BY <1>1, <1>3, DueRow

(* The last kernel finishes its target.                                    *)
LEMMA TargetFinished ==
  ASSUME NEW k, TeamDue(k), ApplyTargets(k)
  PROVE  Finished(g, TargetOf(k), View(k)')
<1> DEFINE t == TargetOf(k)
           coefficients == Of("coefficients", "problem", t, T[t], TRUE)
           row == Of("row", "problem", t, T[t], TRUE)
           dims == SolutionDims(g)
<1>1. stage = "ApplyTargets" /\ fixed' = fixed
  BY DEF ApplyTargets, Team, fixed
<1>2. pass = "geometry" /\ ProblemIn(g) /\ T[t] = FinalFrame(g)
  BY <1>1, DueFacts DEF OnPath, TangentStages, StandardStages, FrameAt
<1>3. Due(g, t, k, "ApplyTargets", pass, View(k))
  BY <1>1 DEF TeamDue
<1>4. dims.Coeffs = BasisDims(g).Coeffs /\ dims.Z = CallerDims(g).Z
  BY <1>2, DimsAgree DEF TeamDue
<1>5. Coeffs(k, dims.Coeffs) = coefficients
  <2>1. Solved(g, t, k, "problem", View(k))
    BY <1>3 DEF Due, SlicesReady
  <2>2. QED
    BY <1>4, <2>1, CoefficientsFound
<1>6. Get(Z[k], k, dims.Z) = row
  <2>1. Z[k] = Put(k, CallerDims(g).Z, row)
    BY <1>3 DEF Due, SlicesReady, View
  <2> HIDE DEF row
  <2>2. QED
    BY <1>4, <2>1, GetPut
<1>7. /\ alphas' = [alphas EXCEPT ![t] = [coefficients |-> Coeffs(k, dims.Coeffs),
                                         row |-> Get(Z[k], k, dims.Z)]]
      /\ UNCHANGED <<P, RHS, Z, T, curvature_coefficients, prestencil_weights>>
  BY DEF ApplyTargets
<1>8. alphas'[t] = [coefficients |-> coefficients, row |-> row]
  <2>1. t \in DOMAIN alphas
    BY DueFacts DEF TeamDue, Arrays
  <2> HIDE DEF coefficients, row, dims
  <2>2. QED
    BY <1>5, <1>6, <1>7, <2>1
<1>9. alphas'[t] = AlphasOf(g, t)
  BY <1>2, <1>8 DEF AlphasOf
<1>10. View(k)'.weights = WeightsOf(g, t) /\ View(k)'.alphas = alphas'[t]
  BY <1>1, <1>3, <1>7, ViewAfter DEF Due, WeighedBefore, View
<1>11. QED
  BY <1>9, <1>10 DEF Finished

-----------------------------------------------------------------------------
(* A team leaves the slices of other teams and the places of other targets *)
(* as they are.                                                            *)
LEMMA ReplacedOne ==
  ASSUME NEW a, NEW b, NEW i, NEW v, b = a \/ b = [a EXCEPT ![i] = v],
         NEW j \in DOMAIN a, j # i
  PROVE  b[j] = a[j]
OBVIOUS

LEMMA OthersKept ==
  ASSUME NEW k, Kernel(k)
  PROVE  /\ \A m \in DOMAIN P \ {k} : P'[m] = P[m]
         /\ \A m \in DOMAIN RHS \ {k} : RHS'[m] = RHS[m]
         /\ \A m \in DOMAIN Z \ {k} : Z'[m] = Z[m]
         /\ \A t \in DOMAIN T \ {TargetOf(k)} : T'[t] = T[t]
         /\ \A t \in DOMAIN curvature_coefficients \ {TargetOf(k)} :
              curvature_coefficients'[t] = curvature_coefficients[t]
         /\ \A t \in DOMAIN prestencil_weights \ {TargetOf(k)} :
              prestencil_weights'[t] = prestencil_weights[t]
         /\ \A t \in DOMAIN alphas \ {TargetOf(k)} : alphas'[t] = alphas[t]
<1> DEFINE One(a, b, i) == b = a \/ \E v : b = [a EXCEPT ![i] = v]
<1>1. SUFFICES /\ One(P, P', k) /\ One(RHS, RHS', k) /\ One(Z, Z', k)
               /\ One(T, T', TargetOf(k))
               /\ One(curvature_coefficients, curvature_coefficients', TargetOf(k))
               /\ One(prestencil_weights, prestencil_weights', TargetOf(k))
               /\ One(alphas, alphas', TargetOf(k))
  BY ReplacedOne
<1>2. CASE AssembleStandardPsqrtW(k)
  BY <1>2, Zenon DEF AssembleStandardPsqrtW, AssemblePsqrtW, byTarget
<1>3. CASE AssembleCurvaturePsqrtW(k)
  BY <1>3, Zenon DEF AssembleCurvaturePsqrtW, AssemblePsqrtW, byTarget
<1>4. CASE AssembleManifoldPsqrtW(k)
  BY <1>4, Zenon DEF AssembleManifoldPsqrtW, AssemblePsqrtW, byTarget
<1>5. CASE ComputeCoarseTangentPlane(k)
  BY <1>5, Zenon DEF ComputeCoarseTangentPlane
<1>6. CASE FixTangentDirectionOrdering(k)
  BY <1>6, Zenon DEF FixTangentDirectionOrdering
<1>7. CASE SolveCurvature(k)
  BY <1>7, Zenon DEF SolveCurvature, SolveLU, SolveQR, byTarget
<1>8. CASE SolveProblem(k)
  BY <1>8, Zenon DEF SolveProblem, SolveLU, SolveQR, byTarget
<1>9. CASE GetAccurateTangentDirections(k)
  BY <1>9, Zenon DEF GetAccurateTangentDirections, EvaluateTargets
<1>10. CASE ApplyCurvatureTargets(k)
  BY <1>10, Zenon DEF ApplyCurvatureTargets, EvaluateTargets
<1>11. CASE ComputePrestencilWeights(k)
  BY <1>11, Zenon DEF ComputePrestencilWeights
<1>12. CASE EvaluateStandardTargets(k)
  BY <1>12, Zenon DEF EvaluateStandardTargets, EvaluateTargets, byTarget
<1>13. CASE EvaluateManifoldTargets(k)
  BY <1>13, Zenon DEF EvaluateManifoldTargets, EvaluateTargets, byTarget
<1>14. CASE ApplyTargets(k)
  BY <1>14, Zenon DEF ApplyTargets
<1>15. QED
  BY <1>2, <1>3, <1>4, <1>5, <1>6, <1>7, <1>8, <1>9, <1>10, <1>11, <1>12, <1>13, <1>14,
     Zenon DEF Kernel

-----------------------------------------------------------------------------
(* The strengthening of OwnSolution and OwnWeights: teams have what they   *)
(* are due for, targets before the batch are final, targets after it are   *)
(* untouched.                                                              *)
NextPass == IF stage = "ClearP" THEN "geometry" ELSE pass

Final(t) == alphas[t] = AlphasOf(g, t) /\ prestencil_weights[t] = WeightsOf(g, t)

Untouched(t) ==
  /\ alphas[t] = NoAlphas /\ prestencil_weights[t] = <<>>
  /\ calls # 0 => T[t] = ProvidedFrames(g)[t]

EndOfBatch ==
  IF stage = "none" THEN initial_index_for_batch ELSE initial_index_for_batch + ThisBatchSize

TeamsDue ==
  stage # "none" =>
    \A k \in Teams :
      /\ k \in todo => Due(g, TargetOf(k), k, stage, pass, View(k))
      /\ k \notin todo /\ stage # "ApplyTargets" =>
           Due(g, TargetOf(k), k, Following, NextPass, View(k))
      /\ k \notin todo /\ stage = "ApplyTargets" => Final(TargetOf(k))

TargetsDue ==
  \A t \in Targets : /\ t < initial_index_for_batch => Final(t)
                     /\ t >= EndOfBatch => Untouched(t)

Progress == TeamsDue /\ TargetsDue

LEMMA TargetOfTeam ==
  ASSUME Control, stage # "none", NEW t \in Targets,
         t >= initial_index_for_batch, t < initial_index_for_batch + ThisBatchSize
  PROVE  \E k \in Teams : t = TargetOf(k)
<1>1. initial_index_for_batch \in Nat /\ t \in Nat /\ ThisBatchSize \in Nat
  BY TeamsInBatch, BatchesAssumption DEF Control, Targets
<1>2. t - initial_index_for_batch \in 0..ThisBatchSize-1
  BY <1>1
<1>3. initial_index_for_batch + (t - initial_index_for_batch) = t
  BY <1>1
<1>4. QED
  BY <1>2, <1>3 DEF Teams, TargetOf

(* Every target is final, untouched, or has no alphas yet.                 *)
LEMMA ProgressEach ==
  ASSUME Control, Progress, NEW t \in Targets
  PROVE  /\ alphas[t] \in {NoAlphas, AlphasOf(g, t)}
         /\ prestencil_weights[t] \in {<<>>, WeightsOf(g, t)}
<1>1. CASE t < initial_index_for_batch \/ t >= EndOfBatch
  BY <1>1 DEF Progress, TargetsDue, Final, Untouched
<1>2. CASE ~ (t < initial_index_for_batch \/ t >= EndOfBatch)
  <2>1. /\ initial_index_for_batch \in Nat /\ t \in Nat
    BY BatchesAssumption DEF Control, Targets
  <2>2. stage # "none" /\ EndOfBatch = initial_index_for_batch + ThisBatchSize
    BY <1>2, <2>1 DEF EndOfBatch
  <2>3. ThisBatchSize \in Nat
    BY <2>2, TeamsInBatch
  <2>4. PICK k \in Teams : t = TargetOf(k)
    BY <1>2, <2>1, <2>2, <2>3, TargetOfTeam
  <2>5. View(k).alphas = alphas[t] /\ View(k).weights = prestencil_weights[t]
    BY <2>4 DEF View
  <2>6. ASSUME NEW s, NEW p, Due(g, t, k, s, p, View(k))
        PROVE  alphas[t] = NoAlphas /\ prestencil_weights[t] \in {<<>>, WeightsOf(g, t)}
    BY <2>5, <2>6 DEF Due
  <2>7. CASE k \in todo \/ stage # "ApplyTargets"
    BY <2>2, <2>4, <2>6, <2>7 DEF Progress, TeamsDue
  <2>8. CASE k \notin todo /\ stage = "ApplyTargets"
    BY <2>2, <2>4, <2>8 DEF Progress, TeamsDue, Final
  <2>9. QED
    BY <2>7, <2>8
<1>3. QED
  BY <1>1, <1>2

LEMMA ProgressOwn == Control /\ Progress => OwnSolution /\ OwnWeights
<1> SUFFICES ASSUME Control, Progress, NEW t \in Targets
             PROVE  /\ alphas[t] \in {NoAlphas, RightAlphas(t)}
                    /\ prestencil_weights[t] \in {<<>>, RightWeights(t)}
  BY DEF OwnSolution, OwnWeights
<1>1. /\ alphas[t] \in {NoAlphas, AlphasOf(g, t)}
      /\ prestencil_weights[t] \in {<<>>, WeightsOf(g, t)}
  BY ProgressEach
<1>2. AlphasOf(g, t) = RightAlphas(t)
  BY DEF AlphasOf, RightAlphas
<1>3. WeightsOf(g, t) \in {<<>>, RightWeights(t)}
  BY DEF WeightsOf, RightWeights
<1>4. QED
  BY <1>1, <1>2, <1>3

LEMMA ProgressInit == Init => Progress
<1> SUFFICES ASSUME Init PROVE Progress
  OBVIOUS
<1>1. stage = "none" /\ initial_index_for_batch = 0 /\ calls = 0
      /\ alphas = [t \in Targets |-> NoAlphas]
      /\ prestencil_weights = [t \in Targets |-> <<>>]
  BY DEF Init
<1>2. \A t \in Targets : t \in Nat
  BY BatchesAssumption DEF Targets
<1>3. QED
  BY <1>1, <1>2 DEF Progress, TeamsDue, TargetsDue, EndOfBatch, Untouched

LEMMA ProgressCall ==
  ASSUME Control, Progress, NEW q \in Problems, NEW n \in Batches, Call(q, n)
  PROVE  Progress'
<1>1. /\ stage' = "none" /\ initial_index_for_batch' = 0 /\ g' = q
      /\ alphas' = [t \in Targets |-> NoAlphas]
      /\ prestencil_weights' = [t \in Targets |-> <<>>]
      /\ T' = ProvidedFrames(q)
  BY DEF Call, Control, NewWeights
<1>2. \A t \in Targets : t \in Nat
  BY BatchesAssumption DEF Targets
<1>3. ProvidedFrames(g)' = ProvidedFrames(q)
  BY <1>1 DEF ProvidedFrames
<1>4. \A t \in Targets : Untouched(t)'
  BY <1>1, <1>3 DEF Untouched
<1>5. QED
  BY <1>1, <1>2, <1>4 DEF Progress, TeamsDue, TargetsDue, EndOfBatch

LEMMA DueFirst ==
  ASSUME Control, NEW k, NEW v, Cleared(v), v.T = ProvidedFrames(g)[TargetOf(k)],
         TargetOf(k) \in Targets, v.alphas = NoAlphas, v.weights = <<>>
  PROVE  Due(g, TargetOf(k), k, FirstStage, FirstPass, v)
<1>1. ProblemIn(g)
  BY ProblemsIn DEF Control
<1>2. ProvidedFrames(g)[TargetOf(k)] =
        IF g.tangents = "provided" THEN Frame("provided", FALSE) ELSE NoFrame
  BY DEF ProvidedFrames
<1>3. v.T = FrameAt(g, FirstStage, FirstPass)
  <2>1. CASE ~ OnManifold(g) \/ g.tangents = "provided"
    BY <1>2, <2>1 DEF FrameAt, FinalFrame
  <2>2. CASE OnManifold(g) /\ g.tangents # "provided"
    BY <1>2, <2>2 DEF FrameAt, FirstStage, ComputesTangents
  <2>3. QED
    BY <2>1, <2>2
<1>4. FirstStage \in {"AssembleStandardPsqrtW", "ComputeCoarseTangentPlane",
                      "AssembleCurvaturePsqrtW"}
  BY DEF FirstStage
<1>5. SlicesReady(g, TargetOf(k), k, FirstStage, v)
  BY <1>4 DEF SlicesReady, Clean
<1>6. ~ WeighedBefore(g, FirstStage, FirstPass) /\ ~ GeometryBefore(g, FirstStage, FirstPass)
  BY <1>4 DEF WeighedBefore, GeometryBefore
<1>7. QED
  BY <1>3, <1>5, <1>6 DEF Due

LEMMA ProgressStart ==
  ASSUME Control, Path, Progress, StartBatch
  PROVE  Progress'
<1>1. /\ stage = "none" /\ phase = "running" /\ calls # 0
      /\ stage' = FirstStage /\ pass' = FirstPass /\ todo' = Teams
      /\ P' = ZeroSlices(MaxBatchSize(number_of_batches))
      /\ UNCHANGED <<g, phase, loop, byTarget, calls>>
  BY DEF StartBatch, Control
<1>2. FirstStage # "none"
  BY FirstOnPath
<1>3. Teams' = Teams /\ ThisBatchSize' = ThisBatchSize /\ (\A k : TargetOf(k)' = TargetOf(k))
  BY <1>1 DEF loop, Teams, ThisBatchSize, MaxBatchSize, TargetOf
<1>4. /\ initial_index_for_batch \in Nat /\ ThisBatchSize \in Nat
      /\ Teams \subseteq 0..MaxBatchSize(number_of_batches)-1
      /\ \A k \in Teams : TargetOf(k) \in Targets
  BY <1>1, TeamsInBatch DEF Control, BatchSlots
<1>5. ASSUME NEW k \in Teams
      PROVE  Due(g, TargetOf(k), k, FirstStage, FirstPass, View(k)')
  <2>1. TargetOf(k) >= EndOfBatch /\ TargetOf(k) \in Targets
    BY <1>1, <1>4 DEF EndOfBatch, TargetOf, Teams
  <2>2. Untouched(TargetOf(k))
    BY <2>1 DEF Progress, TargetsDue
  <2>3. /\ View(k)'.P = P'[k] /\ View(k)'.T = T[TargetOf(k)]
        /\ View(k)'.alphas = alphas[TargetOf(k)]
        /\ View(k)'.weights = prestencil_weights[TargetOf(k)]
    BY <1>1, <1>3 DEF View, byTarget
  <2>4. P'[k].value = Zeros
    BY <1>1, <1>4 DEF ZeroSlices, Put
  <2>5. QED
    BY <1>1, <2>1, <2>2, <2>3, <2>4, DueFirst DEF Untouched, Cleared
<1>6. TeamsDue'
  BY <1>1, <1>3, <1>5 DEF TeamsDue
<1>7. TargetsDue'
  <2>1. ASSUME NEW t \in Targets
        PROVE  /\ t < initial_index_for_batch => Final(t)'
               /\ t >= EndOfBatch' => Untouched(t)'
    <3>1. Final(t)' <=> Final(t)
      BY <1>1 DEF Final, byTarget
    <3>2. Untouched(t)' <=> Untouched(t)
      BY <1>1 DEF Untouched, byTarget, ProvidedFrames
    <3>3. EndOfBatch' = initial_index_for_batch + ThisBatchSize
      BY <1>1, <1>2, <1>3 DEF EndOfBatch, loop
    <3>4. EndOfBatch = initial_index_for_batch /\ t \in Nat
      BY <1>1, BatchesAssumption DEF EndOfBatch, Targets
    <3>5. t >= EndOfBatch' => t >= EndOfBatch
      BY <1>4, <3>3, <3>4
    <3>6. QED
      BY <3>1, <3>2, <3>5 DEF Progress, TargetsDue
  <2>2. QED
    BY <1>1, <2>1 DEF TargetsDue, loop
<1>8. QED
  BY <1>6, <1>7 DEF Progress

(* What stays if the arrays by target and the place in the loop stay.      *)
LEMMA TargetsStay ==
  ASSUME UNCHANGED <<g, phase, loop, byTarget, calls>>, stage # "none", stage' # "none", TargetsDue
  PROVE  TargetsDue'
<1>1. ThisBatchSize' = ThisBatchSize
  BY DEF loop, ThisBatchSize, MaxBatchSize
<1>2. EndOfBatch' = EndOfBatch
  BY <1>1 DEF EndOfBatch, loop
<1>3. \A t \in Targets : (Final(t)' <=> Final(t)) /\ (Untouched(t)' <=> Untouched(t))
  BY DEF Final, Untouched, byTarget, ProvidedFrames
<1>4. QED
  BY <1>2, <1>3 DEF TargetsDue, loop

LEMMA ProgressNextStage ==
  ASSUME Control, Path, Progress, NextStage
  PROVE  Progress'
<1>1. /\ stage \notin {"none", "ApplyTargets"} /\ todo = {}
      /\ stage' = Following /\ todo' = Teams /\ pass' = NextPass
      /\ UNCHANGED <<g, phase, loop, P, RHS, Z, byTarget, calls>>
  BY DEF NextStage, NextPass
<1>2. Following # "none"
  BY <1>1, FollowingOnPath
<1>3. Teams' = Teams
  BY <1>1 DEF loop, Teams, ThisBatchSize, MaxBatchSize
<1>4. \A k : TargetOf(k)' = TargetOf(k) /\ View(k)' = View(k)
  BY <1>1 DEF loop, TargetOf, View, byTarget
<1>5. \A k \in Teams : Due(g, TargetOf(k), k, Following, NextPass, View(k))
  BY <1>1 DEF Progress, TeamsDue
<1>6. TeamsDue'
  BY <1>1, <1>3, <1>4, <1>5 DEF TeamsDue
<1>7. TargetsDue'
  BY <1>1, <1>2, TargetsStay DEF Progress
<1>8. QED
  BY <1>6, <1>7 DEF Progress

LEMMA DueCleared ==
  ASSUME Control, Path, stage = "ClearP", NEW k, NEW v, NEW w,
         Due(g, TargetOf(k), k, stage, pass, v), Cleared(w),
         w.T = v.T, w.alphas = v.alphas, w.weights = v.weights, w.geometry = v.geometry
  PROVE  Due(g, TargetOf(k), k, Following, "geometry", w)
<1>1. /\ Following = IF pass = "tangents" THEN "AssembleCurvaturePsqrtW"
                     ELSE "AssembleManifoldPsqrtW"
      /\ pass \in {"tangents", "geometry"}
  BY DEF Following, Control
<1>2. SlicesReady(g, TargetOf(k), k, Following, w)
  BY <1>1 DEF SlicesReady, Clean
<1>3. FrameAt(g, Following, "geometry") = FrameAt(g, "ClearP", pass)
  BY <1>1 DEF FrameAt
<1>4. WeighedBefore(g, Following, "geometry") <=> WeighedBefore(g, "ClearP", pass)
  BY <1>1 DEF WeighedBefore
<1>5. GeometryBefore(g, Following, "geometry") <=> GeometryBefore(g, "ClearP", pass)
  BY <1>1 DEF GeometryBefore
<1>6. QED
  BY <1>2, <1>3, <1>4, <1>5 DEF Due

LEMMA ProgressClear ==
  ASSUME Control, Path, Progress, ClearP
  PROVE  Progress'
<1>1. /\ stage = "ClearP" /\ todo = Teams /\ todo' = {}
      /\ P' = ZeroSlices(MaxBatchSize(number_of_batches))
      /\ UNCHANGED <<g, phase, loop, stage, pass, RHS, Z, byTarget, calls>>
  BY DEF ClearP
<1>2. Teams' = Teams /\ Following' = Following /\ NextPass = "geometry" /\ NextPass' = NextPass
  BY <1>1 DEF loop, Teams, ThisBatchSize, MaxBatchSize, Following, NextPass
<1>3. Teams \subseteq 0..MaxBatchSize(number_of_batches)-1
  BY <1>1, TeamsInBatch DEF Control, BatchSlots
<1>4. ASSUME NEW k \in Teams
      PROVE  Due(g, TargetOf(k), k, Following, "geometry", View(k)')
  <2>1. Due(g, TargetOf(k), k, stage, pass, View(k))
    BY <1>1 DEF Progress, TeamsDue
  <2>2. P'[k].value = Zeros
    BY <1>1, <1>3 DEF ZeroSlices, Put
  <2>3. /\ View(k)'.P = P'[k] /\ View(k)'.T = View(k).T /\ View(k)'.alphas = View(k).alphas
        /\ View(k)'.weights = View(k).weights /\ View(k)'.geometry = View(k).geometry
    BY <1>1 DEF View, TargetOf, loop, byTarget
  <2>4. QED
    BY <1>1, <2>1, <2>2, <2>3, DueCleared DEF Cleared
<1>5. \A k : TargetOf(k)' = TargetOf(k)
  BY <1>1 DEF TargetOf, loop
<1>6. TeamsDue'
  BY <1>1, <1>2, <1>4, <1>5 DEF TeamsDue
<1>7. TargetsDue'
  BY <1>1, TargetsStay DEF Progress
<1>8. QED
  BY <1>6, <1>7 DEF Progress

LEMMA ProgressEndBatch ==
  ASSUME Control, Path, Progress, EndBatch
  PROVE  Progress'
<1>1. /\ stage = "ApplyTargets" /\ todo = {} /\ stage' = "none"
      /\ initial_index_for_batch' = initial_index_for_batch + ThisBatchSize
      /\ UNCHANGED <<g, byTarget, calls>>
  BY DEF EndBatch
<1>2. /\ EndOfBatch = initial_index_for_batch + ThisBatchSize
      /\ EndOfBatch' = initial_index_for_batch'
  BY <1>1 DEF EndOfBatch
<1>3. \A t \in Targets : (Final(t)' <=> Final(t)) /\ (Untouched(t)' <=> Untouched(t))
  BY <1>1 DEF Final, Untouched, byTarget, ProvidedFrames
<1>4. \A k \in Teams : Final(TargetOf(k))
  BY <1>1 DEF Progress, TeamsDue
<1>5. ASSUME NEW t \in Targets, t < initial_index_for_batch + ThisBatchSize
      PROVE  Final(t)
  <2>1. CASE t < initial_index_for_batch
    BY <2>1 DEF Progress, TargetsDue
  <2>2. CASE ~ (t < initial_index_for_batch)
    <3>1. t >= initial_index_for_batch
      BY <2>2, BatchesAssumption DEF Control, Targets
    <3>2. PICK k \in Teams : t = TargetOf(k)
      BY <1>1, <1>5, <3>1, TargetOfTeam
    <3>3. QED
      BY <1>4, <3>2
  <2>3. QED
    BY <2>1, <2>2
<1>6. TargetsDue'
  BY <1>1, <1>2, <1>3, <1>5 DEF Progress, TargetsDue
<1>7. TeamsDue'
  BY <1>1 DEF TeamsDue
<1>8. QED
  BY <1>6, <1>7 DEF Progress

LEMMA DueAfterKernel ==
  ASSUME NEW k, TeamDue(k), Kernel(k)
  PROVE  /\ stage # "ClearP"
         /\ stage # "ApplyTargets" => Due(g, TargetOf(k), k, Following, pass, View(k)')
         /\ stage = "ApplyTargets" => Finished(g, TargetOf(k), View(k)')
<1>1. CASE AssembleStandardPsqrtW(k)
  BY <1>1, DueStandardSystem DEF AssembleStandardPsqrtW, Team
<1>2. CASE ComputeCoarseTangentPlane(k)
  BY <1>2, DueCoarsePlane DEF ComputeCoarseTangentPlane, Team
<1>3. CASE FixTangentDirectionOrdering(k)
  BY <1>3, DueOrientedPlane DEF FixTangentDirectionOrdering, Team
<1>4. CASE AssembleCurvaturePsqrtW(k)
  BY <1>4, DueCurvatureSystem DEF AssembleCurvaturePsqrtW, Team
<1>5. CASE SolveCurvature(k)
  BY <1>5, DueCurvatureSolution DEF SolveCurvature, Team
<1>6. CASE GetAccurateTangentDirections(k)
  BY <1>6, DueAccurateTangents DEF GetAccurateTangentDirections, Team
<1>7. CASE ApplyCurvatureTargets(k)
  BY <1>7, DueGeometry DEF ApplyCurvatureTargets, Team
<1>8. CASE ComputePrestencilWeights(k)
  BY <1>8, DueWeights DEF ComputePrestencilWeights, Team
<1>9. CASE AssembleManifoldPsqrtW(k)
  BY <1>9, DueManifoldSystem DEF AssembleManifoldPsqrtW, Team
<1>10. CASE SolveProblem(k)
  BY <1>10, DueProblemSolution DEF SolveProblem, Team
<1>11. CASE EvaluateStandardTargets(k)
  BY <1>11, DueStandardRow DEF EvaluateStandardTargets, Team
<1>12. CASE EvaluateManifoldTargets(k)
  BY <1>12, DueManifoldRow DEF EvaluateManifoldTargets, Team
<1>13. CASE ApplyTargets(k)
  BY <1>13, TargetFinished DEF ApplyTargets, Team
<1>14. QED
  BY <1>1, <1>2, <1>3, <1>4, <1>5, <1>6, <1>7, <1>8, <1>9, <1>10, <1>11, <1>12, <1>13, Zenon
     DEF Kernel

LEMMA DueAtHand ==
  ASSUME Control, Path, Arrays, AllRegular, Progress, NEW k \in todo, stage # "none"
  PROVE  TeamDue(k)
<1>1. Regular(g)
  BY DEF AllRegular, Control
<1>2. k \in Teams
  BY TeamAtHand
<1>3. Due(g, TargetOf(k), k, stage, pass, View(k))
  BY <1>2 DEF Progress, TeamsDue
<1>4. QED
  BY <1>1, <1>3 DEF TeamDue

LEMMA ProgressKernel ==
  ASSUME Control, Path, Arrays, AllRegular, Progress, NEW k \in todo, Kernel(k)
  PROVE  Progress'
<1>1. fixed' = fixed /\ todo' = todo \ {k}
  BY KernelIsTeam
<1>2. stage # "none" /\ k \in Teams
  BY TeamAtHand
<1>3. /\ Teams' = Teams /\ ThisBatchSize' = ThisBatchSize /\ EndOfBatch' = EndOfBatch
      /\ Following' = Following /\ NextPass' = NextPass /\ stage' = stage /\ g' = g
      /\ pass' = pass /\ (\A m : TargetOf(m)' = TargetOf(m))
  BY <1>1 DEF fixed, loop, Teams, ThisBatchSize, MaxBatchSize, EndOfBatch, Following, NextPass,
     TargetOf
<1>4. TeamDue(k)
  BY <1>2, DueAtHand
<1>5. /\ NextPass = pass
      /\ stage # "ApplyTargets" => Due(g, TargetOf(k), k, Following, NextPass, View(k)')
      /\ stage = "ApplyTargets" => Finished(g, TargetOf(k), View(k)')
  BY <1>4, DueAfterKernel DEF NextPass
<1>6. stage = "ApplyTargets" => Final(TargetOf(k))'
  <2>1. View(k)'.alphas = alphas'[TargetOf(k)]
        /\ View(k)'.weights = prestencil_weights'[TargetOf(k)]
    BY <1>1, ViewAfter
  <2>2. QED
    BY <1>3, <1>5, <2>1 DEF Finished, Final
<1>7. ASSUME NEW m \in Teams, m # k
      PROVE  View(m)' = View(m) /\ (Final(TargetOf(m))' <=> Final(TargetOf(m)))
  <2>1. m \in BatchSlots /\ TargetOf(m) \in Targets /\ TargetOf(m) # TargetOf(k)
    BY <1>2, <1>7, TeamsInBatch
  <2>2. /\ P'[m] = P[m] /\ RHS'[m] = RHS[m] /\ Z'[m] = Z[m]
        /\ T'[TargetOf(m)] = T[TargetOf(m)]
        /\ curvature_coefficients'[TargetOf(m)] = curvature_coefficients[TargetOf(m)]
        /\ prestencil_weights'[TargetOf(m)] = prestencil_weights[TargetOf(m)]
        /\ alphas'[TargetOf(m)] = alphas[TargetOf(m)]
    BY <1>7, <2>1, OthersKept DEF Arrays
  <2>3. View(m)' = View(m)
    BY <1>1, <2>2, ViewAfter DEF View
  <2>4. QED
    BY <1>3, <2>2, <2>3 DEF Final
<1>8. TeamsDue'
  <2>1. ASSUME NEW m \in Teams
        PROVE  /\ m \in todo' => Due(g, TargetOf(m), m, stage, pass, View(m)')
               /\ m \notin todo' /\ stage # "ApplyTargets" =>
                    Due(g, TargetOf(m), m, Following, NextPass, View(m)')
               /\ m \notin todo' /\ stage = "ApplyTargets" => Final(TargetOf(m))'
    <3>1. CASE m = k
      BY <1>1, <1>5, <1>6, <3>1
    <3>2. CASE m # k
      BY <1>1, <1>2, <1>7, <3>2 DEF Progress, TeamsDue
    <3>3. QED
      BY <3>1, <3>2
  <2>2. QED
    BY <1>3, <2>1 DEF TeamsDue
<1>9. TargetsDue'
  <2>1. ASSUME NEW t \in Targets, t < initial_index_for_batch \/ t >= EndOfBatch
        PROVE  (Final(t)' <=> Final(t)) /\ (Untouched(t)' <=> Untouched(t))
    <3>1. t # TargetOf(k)
      <4>1. initial_index_for_batch \in Nat /\ ThisBatchSize \in Nat /\ k \in 0..ThisBatchSize-1
        BY <1>2, TeamsInBatch DEF Teams, Control
      <4>2. EndOfBatch = initial_index_for_batch + ThisBatchSize
        BY <1>2 DEF EndOfBatch
      <4>3. t \in Nat
        BY BatchesAssumption DEF Targets
      <4>4. QED
        BY <2>1, <4>1, <4>2, <4>3 DEF TargetOf
    <3>2. /\ T'[t] = T[t] /\ prestencil_weights'[t] = prestencil_weights[t]
          /\ alphas'[t] = alphas[t]
      BY <3>1, OthersKept DEF Arrays
    <3>3. QED
      BY <1>1, <1>3, <3>2 DEF Final, Untouched, ProvidedFrames, fixed
  <2>2. initial_index_for_batch' = initial_index_for_batch
    BY <1>1 DEF fixed, loop
  <2>3. QED
    BY <1>3, <2>1, <2>2 DEF Progress, TargetsDue
<1>10. QED
  BY <1>8, <1>9 DEF Progress

LEMMA ProgressStutter ==
  ASSUME Progress, UNCHANGED vars PROVE Progress'
<1>1. /\ g' = g /\ phase' = phase /\ stage' = stage /\ pass' = pass /\ todo' = todo
      /\ number_of_batches' = number_of_batches
      /\ initial_index_for_batch' = initial_index_for_batch /\ calls' = calls
  BY DEF vars, loop
<1>2. /\ P' = P /\ RHS' = RHS /\ Z' = Z /\ T' = T
      /\ curvature_coefficients' = curvature_coefficients
      /\ prestencil_weights' = prestencil_weights /\ alphas' = alphas
  BY DEF vars, byTarget
<1>3. ThisBatchSize' = ThisBatchSize
  BY <1>1 DEF ThisBatchSize, MaxBatchSize
<1>4. Teams' = Teams /\ EndOfBatch' = EndOfBatch
  BY <1>1, <1>3 DEF Teams, EndOfBatch
<1>5. Following' = Following /\ NextPass' = NextPass
  BY <1>1 DEF Following, NextPass
<1>6. ASSUME NEW k
      PROVE  View(k)' = View(k) /\ TargetOf(k)' = TargetOf(k)
  BY <1>1, <1>2 DEF View, TargetOf
<1>7. TeamsDue'
  <2>1. ASSUME NEW k, NEW s, NEW p
        PROVE  Due(g, TargetOf(k), k, s, p, View(k))' <=> Due(g, TargetOf(k), k, s, p, View(k))
    BY <1>1, <1>2 DEF View, TargetOf
  <2>2. ASSUME NEW k PROVE Final(TargetOf(k))' <=> Final(TargetOf(k))
    BY <1>1, <1>2 DEF Final, TargetOf
  <2>3. TeamsDue
    BY DEF Progress
  <2>4. QED
    BY <1>1, <1>4, <1>5, <2>1, <2>2, <2>3 DEF TeamsDue
<1>8. ASSUME NEW t PROVE (Final(t)' <=> Final(t)) /\ (Untouched(t)' <=> Untouched(t))
  BY <1>1, <1>2 DEF Final, Untouched, ProvidedFrames
<1>9. TargetsDue'
  BY <1>1, <1>4, <1>8 DEF Progress, TargetsDue
<1>10. QED
  BY <1>7, <1>9 DEF Progress

LEMMA ProgressStep ==
  AllRegular /\ Control /\ Path /\ Arrays /\ Progress /\ [Next]_vars => Progress'
<1> SUFFICES ASSUME AllRegular, Control, Path, Arrays, Progress, [Next]_vars PROVE Progress'
  OBVIOUS
<1>1. ASSUME NEW q \in Problems, NEW n \in Batches, Call(q, n) PROVE Progress'
  BY <1>1, ProgressCall
<1>2. CASE StartBatch
  BY <1>2, ProgressStart
<1>3. CASE NextStage
  BY <1>3, ProgressNextStage
<1>4. CASE EndBatch
  BY <1>4, ProgressEndBatch
<1>5. CASE ClearP
  BY <1>5, ProgressClear
<1>6. ASSUME NEW k \in todo, Kernel(k) PROVE Progress'
  BY <1>6, ProgressKernel
<1>7. CASE UNCHANGED vars
  BY <1>7, ProgressStutter
<1>8. QED
  BY <1>1, <1>2, <1>3, <1>4, <1>5, <1>6, <1>7 DEF Next, Loop

LEMMA ProgressAlways == AllRegular => (Spec => [](Control /\ Progress))
<1> SUFFICES ASSUME AllRegular PROVE Spec => [](Control /\ Progress)
  OBVIOUS
<1>1. Init => Control /\ Path /\ Arrays /\ Progress
  BY ControlInit, ArraysInit, ProgressInit
<1>2. Control /\ Path /\ Arrays /\ Progress /\ [Next]_vars
        => (Control /\ Path /\ Arrays /\ Progress)'
  BY ControlStep, ArraysStep, ProgressStep
<1>3. QED
  BY <1>1, <1>2, PTL DEF Spec

(* If no problem is among the irregular ones, each target's alphas come    *)
(* from its own coefficients and row, in its final frame, and nothing else *)
(* has entered them: in whatever order teams run, and whatever batches     *)
(* and calls before have left in the arrays.                               *)
THEOREM SolutionsOwn == AllRegular => (Spec => []OwnSolution)
<1>1. Control /\ Progress => OwnSolution
  BY ProgressOwn
<1>2. QED
  BY <1>1, ProgressAlways, PTL

(* Likewise the weights of each target's samples, which are made once.     *)
THEOREM WeightsOwn == AllRegular => (Spec => []OwnWeights)
<1>1. Control /\ Progress => OwnWeights
  BY ProgressOwn
<1>2. QED
  BY <1>1, ProgressAlways, PTL

-----------------------------------------------------------------------------
(* The batches cover the targets: all but the last are full, and there are *)
(* enough of them.                                                         *)
LEMMA BatchesSuffice ==
  ASSUME NEW n \in Nat \ {0}
  PROVE  n * MaxBatchSize(n) >= NumTargets
<1> DEFINE a == NumTargets + n - 1
           M == a \div n
<1>1. NumTargets \in Nat \ {0} /\ a \in Nat
  BY BatchesAssumption
<1>2. a = n * M + (a % n) /\ a % n \in 0..n-1 /\ M \in Nat
  <2>1. \A i \in Nat : /\ i = n * (i \div n) + (i % n)
                       /\ i % n \in 0..n-1 /\ i \div n \in Nat
    OBVIOUS
  <2>2. QED
    BY <1>1, <2>1
<1>3. n * M \in Nat
  BY <1>2
<1> HIDE DEF M
<1>4. n * M >= NumTargets
  BY <1>1, <1>2, <1>3
<1>5. QED
  BY <1>4 DEF MaxBatchSize, M

Coverage ==
  /\ phase = "running" =>
       initial_index_for_batch = batch_num * MaxBatchSize(number_of_batches)
  /\ phase = "idle" /\ calls # 0 => initial_index_for_batch = NumTargets

LEMMA CoverageEndBatch ==
  ASSUME Control, Coverage, EndBatch
  PROVE  Coverage'
<1> DEFINE M == MaxBatchSize(number_of_batches)
           next == initial_index_for_batch + ThisBatchSize
<1>1. /\ phase = "running" /\ stage # "none"
      /\ initial_index_for_batch' = next /\ batch_num' = batch_num + 1
      /\ number_of_batches' = number_of_batches
      /\ phase' = IF LastBatch THEN "idle" ELSE "running"
  BY DEF EndBatch, Control
<1>2. /\ M \in Nat \ {0} /\ number_of_batches \in Nat \ {0} /\ batch_num \in Nat
      /\ NumTargets \in Nat /\ initial_index_for_batch \in Nat
  BY BatchSizes, BatchesAssumption DEF Control
<1>3. initial_index_for_batch = batch_num * M
  BY <1>1 DEF Coverage
<1>4. (batch_num + 1) * M = next \/ next = NumTargets
  <2>1. ThisBatchSize = M \/ next = NumTargets
    BY <1>2 DEF ThisBatchSize
  <2>2. (batch_num + 1) * M = batch_num * M + M
    BY <1>2
  <2> HIDE DEF M
  <2>3. QED
    BY <1>2, <1>3, <2>1, <2>2
<1>5. batch_num + 1 = number_of_batches => next = NumTargets
  <2>1. ASSUME batch_num + 1 = number_of_batches, next # NumTargets
        PROVE  FALSE
    <3>1. number_of_batches * M = next
      BY <1>4, <2>1
    <3>2. number_of_batches * M >= NumTargets
      BY <1>2, BatchesSuffice
    <3>3. next \in Nat /\ next <= NumTargets
      BY <1>1, <1>2, TeamsInBatch
    <3>4. QED
      BY <1>2, <2>1, <3>1, <3>2, <3>3
  <2>2. QED
    BY <2>1
<1>6. LastBatch => next = NumTargets
  BY <1>5 DEF LastBatch
<1>7. ~ LastBatch => next = (batch_num + 1) * M
  BY <1>4 DEF LastBatch
<1>8. MaxBatchSize(number_of_batches)' = M
  BY <1>1 DEF MaxBatchSize
<1>9. QED
  BY <1>1, <1>6, <1>7, <1>8 DEF Coverage

LEMMA CoverageStep ==
  ASSUME Control, Coverage, [Next]_vars
  PROVE  Coverage'
<1>1. ASSUME NEW q \in Problems, NEW n \in Batches, Call(q, n)
      PROVE  Coverage'
  <2>1. /\ phase' = "running" /\ initial_index_for_batch' = 0 /\ batch_num' = 0
        /\ number_of_batches' = n /\ n \in Nat \ {0}
    BY <1>1, BatchesAssumption DEF Call
  <2>2. MaxBatchSize(number_of_batches)' = MaxBatchSize(n)
    BY <2>1 DEF MaxBatchSize
  <2>3. MaxBatchSize(n) \in Nat
    BY <2>1, BatchSizes
  <2>4. QED
    BY <2>1, <2>2, <2>3 DEF Coverage
<1>2. CASE UNCHANGED <<phase, loop, calls>>
  BY <1>2 DEF loop, Coverage, MaxBatchSize
<1>3. CASE EndBatch
  BY <1>3, CoverageEndBatch
<1>4. StartBatch \/ NextStage \/ ClearP \/ UNCHANGED vars => UNCHANGED <<phase, loop, calls>>
  BY DEF StartBatch, NextStage, ClearP, vars
<1>5. ASSUME NEW k \in todo, Kernel(k)
      PROVE  UNCHANGED <<phase, loop, calls>>
  BY <1>5, KernelIsTeam DEF fixed
<1>6. QED
  BY <1>1, <1>2, <1>3, <1>4, <1>5 DEF Next, Loop

-----------------------------------------------------------------------------
(* Every step is a step of TargetSolutions, or one that it does not see.   *)
weighed ==
  IF calls > 0 /\ NeedsWeights(g)
  THEN {t \in Targets : prestencil_weights[t] = RightWeights(t)} ELSE Targets
solved == IF calls = 0 THEN Targets ELSE {t \in Targets : alphas[t] = RightAlphas(t)}

LEMMA RightIs ==
  ASSUME NEW t
  PROVE  /\ RightAlphas(t) = AlphasOf(g, t) /\ RightAlphas(t) # NoAlphas
         /\ NeedsWeights(g) => RightWeights(t) = WeightsOf(g, t)
         /\ RightWeights(t) # <<>>
         /\ g' = g => /\ RightAlphas(t)' = RightAlphas(t)
                      /\ RightWeights(t)' = RightWeights(t)
<1>1. RightAlphas(t) = AlphasOf(g, t)
  BY DEF RightAlphas, AlphasOf
<1>2. RightAlphas(t) # NoAlphas
  BY DEF RightAlphas, NoAlphas, Of, Zeros
<1>3. NeedsWeights(g) => RightWeights(t) = WeightsOf(g, t)
  BY DEF RightWeights, WeightsOf
<1>4. RightWeights(t) # <<>>
  BY DEF RightWeights
<1>5. g' = g => RightAlphas(t)' = RightAlphas(t) /\ RightWeights(t)' = RightWeights(t)
  BY DEF RightAlphas, RightWeights, FinalFrame
<1>6. QED
  BY <1>1, <1>2, <1>3, <1>4, <1>5

LEMMA CallRefines ==
  ASSUME Control, Coverage, Progress, NEW q \in Problems, NEW n \in Batches, Call(q, n)
  PROVE  Abstract!Call
<1>1. /\ phase = "idle" /\ calls' = calls + 1 /\ calls' > 0
      /\ alphas' = [t \in Targets |-> NoAlphas]
      /\ prestencil_weights' = [t \in Targets |-> <<>>]
  BY DEF Call, Control, NewWeights
<1>2. solved = Targets
  <2>1. ASSUME calls # 0, NEW t \in Targets
        PROVE  alphas[t] = RightAlphas(t)
    <3>1. t < initial_index_for_batch
      BY <1>1, <2>1, BatchesAssumption DEF Coverage, Targets
    <3>2. QED
      BY <3>1, RightIs DEF Progress, TargetsDue, Final
  <2>2. QED
    BY <2>1 DEF solved
<1>3. solved' = {}
  <2>1. \A t \in Targets : alphas'[t] # RightAlphas(t)'
    BY <1>1 DEF RightAlphas, NoAlphas, Of, Zeros
  <2>2. QED
    BY <1>1, <2>1 DEF solved, Targets
<1>4. weighed' \in {{}, Targets}
  <2>1. \A t \in Targets : prestencil_weights'[t] # RightWeights(t)'
    BY <1>1 DEF RightWeights
  <2>2. QED
    BY <1>1, <2>1 DEF weighed, Targets
<1>5. QED
  BY <1>1, <1>2, <1>3, <1>4 DEF Abstract!Call, weighed, solved

(* Only two kernels write what the abstraction sees.                       *)
LEMMA OthersWriteNeither ==
  ASSUME NEW k, Kernel(k)
  PROVE  /\ stage # "ApplyTargets" => alphas' = alphas
         /\ stage # "ComputePrestencilWeights" => prestencil_weights' = prestencil_weights
         /\ ~ NeedsWeights(g) => prestencil_weights' = prestencil_weights
         /\ stage = "ComputePrestencilWeights" => ComputePrestencilWeights(k)
BY Zenon
   DEF Kernel, Team, byTarget, NeedsWeights, AssembleStandardPsqrtW, AssemblePsqrtW,
       AssembleCurvaturePsqrtW, AssembleManifoldPsqrtW, ComputeCoarseTangentPlane,
       FixTangentDirectionOrdering, SolveCurvature, SolveProblem, GetAccurateTangentDirections,
       ApplyCurvatureTargets, ComputePrestencilWeights, EvaluateStandardTargets,
       EvaluateManifoldTargets, ApplyTargets

LEMMA CallBegun == Control /\ stage # "none" => calls # 0 /\ calls > 0
BY BatchesAssumption DEF Control

LEMMA SolveRefines ==
  ASSUME Control, Path, Arrays, AllRegular, Progress, NEW k \in todo, Kernel(k),
         stage = "ApplyTargets"
  PROVE  Abstract!Next
<1> DEFINE t == TargetOf(k)
<1>1. /\ TeamDue(k) /\ calls' = calls /\ calls # 0 /\ calls > 0 /\ g' = g /\ t \in Targets
  BY DueAtHand, KernelIsTeam, TeamAtHand, CallBegun DEF fixed
<1>2. Due(g, t, k, "ApplyTargets", pass, View(k)) /\ Finished(g, t, View(k)')
  BY <1>1, DueAfterKernel DEF TeamDue
<1>3. /\ alphas[t] = NoAlphas /\ prestencil_weights[t] = WeightsOf(g, t)
      /\ alphas'[t] = RightAlphas(t)
  BY <1>2, KernelIsTeam, ViewAfter, RightIs DEF Due, View, WeighedBefore, Finished
<1>4. prestencil_weights' = prestencil_weights
      /\ \A u \in Targets \ {t} : alphas'[u] = alphas[u]
  BY OthersWriteNeither, OthersKept DEF Arrays
<1>5. t \in weighed /\ weighed' = weighed
  <2>1. \A u \in Targets : RightWeights(u)' = RightWeights(u)
    BY <1>1, RightIs
  <2>2. weighed' = weighed
    BY <1>1, <1>4, <2>1 DEF weighed, NeedsWeights
  <2>3. QED
    BY <1>1, <1>3, <2>2, RightIs DEF weighed
<1>6. t \notin solved /\ solved' = solved \cup {t}
  <2>1. \A u \in Targets : RightAlphas(u)' = RightAlphas(u)
    BY <1>1, RightIs
  <2>2. solved = {u \in Targets : alphas[u] = RightAlphas(u)}
        /\ solved' = {u \in Targets : alphas'[u] = RightAlphas(u)}
    BY <1>1, <2>1 DEF solved
  <2>3. alphas[t] # RightAlphas(t)
    BY <1>3, RightIs
  <2>4. QED
    BY <1>1, <1>3, <1>4, <2>2, <2>3
<1>7. QED
  <2>1. PICK u \in Targets : u = t
    BY <1>1
  <2>2. Abstract!Solve(u)
    BY <1>1, <1>5, <1>6, <2>1 DEF Abstract!Solve, weighed, solved
  <2>3. QED
    BY <2>2 DEF Abstract!Next

LEMMA WeighRefines ==
  ASSUME Control, Path, Arrays, AllRegular, Progress, NEW k \in todo, Kernel(k),
         stage = "ComputePrestencilWeights", NeedsWeights(g)
  PROVE  Abstract!Next
<1> DEFINE t == TargetOf(k)
<1>1. /\ TeamDue(k) /\ calls' = calls /\ calls # 0 /\ calls > 0 /\ g' = g /\ t \in Targets
  BY DueAtHand, KernelIsTeam, TeamAtHand, CallBegun DEF fixed
<1>2. pass = "geometry" /\ Following \in {"ClearP", "EvaluateStandardTargets"}
  BY <1>1, DueFacts DEF OnPath, TangentStages, Following
<1>3. /\ Due(g, t, k, "ComputePrestencilWeights", pass, View(k))
      /\ Due(g, t, k, Following, pass, View(k)')
  BY <1>1, DueAfterKernel DEF TeamDue
<1>4. prestencil_weights[t] = <<>>
  <2>1. ~ WeighedBefore(g, "ComputePrestencilWeights", pass)
    BY DEF WeighedBefore
  <2>2. QED
    BY <1>3, <2>1 DEF Due, View
<1>5. prestencil_weights'[t] = RightWeights(t)
  <2>1. WeighedBefore(g, Following, pass)
    BY <1>2 DEF WeighedBefore
  <2>2. View(k)'.weights = prestencil_weights'[t]
    BY KernelIsTeam, ViewAfter
  <2>3. QED
    BY <1>3, <2>1, <2>2, RightIs DEF Due
<1>6. alphas' = alphas /\ \A u \in Targets \ {t} : prestencil_weights'[u] = prestencil_weights[u]
  BY OthersWriteNeither, OthersKept DEF Arrays
<1>7. solved' = solved
  <2>1. \A u \in Targets : RightAlphas(u)' = RightAlphas(u)
    BY <1>1, RightIs
  <2>2. QED
    BY <1>1, <1>6, <2>1 DEF solved
<1>8. t \notin weighed /\ weighed' = weighed \cup {t}
  <2>1. \A u \in Targets : RightWeights(u)' = RightWeights(u)
    BY <1>1, RightIs
  <2>2. weighed = {u \in Targets : prestencil_weights[u] = RightWeights(u)}
        /\ weighed' = {u \in Targets : prestencil_weights'[u] = RightWeights(u)}
    BY <1>1, <2>1 DEF weighed
  <2>3. prestencil_weights[t] # RightWeights(t)
    BY <1>4, RightIs
  <2>4. QED
    BY <1>1, <1>5, <1>6, <2>2, <2>3
<1>9. QED
  <2>1. PICK u \in Targets : u = t
    BY <1>1
  <2>2. Abstract!Weigh(u)
    BY <1>1, <1>7, <1>8, <2>1 DEF Abstract!Weigh, weighed, solved
  <2>3. QED
    BY <2>2 DEF Abstract!Next

LEMMA UnseenRefines ==
  ASSUME UNCHANGED <<g, calls, alphas>>,
         NeedsWeights(g) => prestencil_weights' = prestencil_weights
  PROVE  UNCHANGED Abstract!vars
<1>1. \A t : RightAlphas(t)' = RightAlphas(t) /\ RightWeights(t)' = RightWeights(t)
  BY RightIs
<1>2. weighed' = weighed /\ solved' = solved
  BY <1>1 DEF weighed, solved, NeedsWeights
<1>3. QED
  BY <1>2 DEF Abstract!vars, weighed, solved

LEMMA KernelRefines ==
  ASSUME Control, Path, Arrays, AllRegular, Progress, NEW k \in todo, Kernel(k)
  PROVE  [Abstract!Next]_(Abstract!vars)
<1>1. fixed' = fixed /\ TargetOf(k) \in Targets
  BY KernelIsTeam, TeamAtHand
<1>2. CASE stage = "ApplyTargets"
  BY <1>2, SolveRefines
<1>3. CASE stage = "ComputePrestencilWeights" /\ NeedsWeights(g)
  BY <1>3, WeighRefines
<1>4. CASE stage # "ApplyTargets" /\ ~ (stage = "ComputePrestencilWeights" /\ NeedsWeights(g))
  BY <1>1, <1>4, OthersWriteNeither, UnseenRefines DEF fixed
<1>5. QED
  BY <1>2, <1>3, <1>4

LEMMA StepRefines ==
  ASSUME Control, Path, Arrays, AllRegular, Progress, Coverage, [Next]_vars
  PROVE  [Abstract!Next]_(Abstract!vars)
<1>1. ASSUME NEW q \in Problems, NEW n \in Batches, Call(q, n) PROVE Abstract!Next
  BY <1>1, CallRefines DEF Abstract!Next
<1>2. ASSUME NEW k \in todo, Kernel(k) PROVE [Abstract!Next]_(Abstract!vars)
  BY <1>2, KernelRefines
<1>3. CASE StartBatch \/ NextStage \/ EndBatch \/ ClearP \/ UNCHANGED vars
  <2>1. UNCHANGED <<g, calls, alphas, prestencil_weights>>
    BY <1>3 DEF StartBatch, NextStage, EndBatch, ClearP, vars, byTarget
  <2>2. QED
    BY <2>1, UnseenRefines
<1>4. QED
  BY <1>1, <1>2, <1>3 DEF Next, Loop

(* If no problem is irregular, the batches do what TargetSolutions says    *)
(* step by step: a call begins only when all targets are solved, and each  *)
(* target is weighed, if its samples need it, then solved, both once.      *)
THEOREM TargetsSolvedOnce ==
  AllRegular => (Spec => Abstract!Init /\ [][Abstract!Next]_(Abstract!vars))
<1> SUFFICES ASSUME AllRegular
             PROVE  Spec => Abstract!Init /\ [][Abstract!Next]_(Abstract!vars)
  OBVIOUS
<1>1. Init => Control /\ Path /\ Arrays /\ Progress /\ Coverage
  <2>1. Init => Coverage
    BY DEF Init, Coverage
  <2>2. QED
    BY <2>1, ControlInit, ArraysInit, ProgressInit
<1>2. Control /\ Path /\ Arrays /\ Progress /\ Coverage /\ [Next]_vars
        => (Control /\ Path /\ Arrays /\ Progress /\ Coverage)'
  BY ControlStep, ArraysStep, ProgressStep, CoverageStep
<1>3. Control /\ Path /\ Arrays /\ Progress /\ Coverage /\ [Next]_vars
        => [Abstract!Next]_(Abstract!vars)
  BY StepRefines
<1>4. Init => Abstract!Init
  BY DEF Init, Abstract!Init
<1>5. QED
  BY <1>1, <1>2, <1>3, <1>4, PTL DEF Spec
=============================================================================
