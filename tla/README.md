# A formal model of Compadre

Compadre (COMpatible PArticle Discretization and REmap) is a C++ library on top
of Kokkos.  It finds the neighbours of target sites among source sites and
solves, per target, a small least squares problem (generalized moving least
squares, GMLS), whose solutions (the *alphas*) turn samples at the neighbours
into values or derivatives at the target.  Its numerics are floating point
formulas; around them is a layer of control that decides *which* sites, lists
and memory the formulas read and write.  This directory models that layer in
TLA+, checks it with TLC and proves its safety properties with TLAPS.

Paths below are relative to `src/`, the repository; line numbers are those of
the entries in `PROJECT.json`.

## 1. The system

| Part | Source | State | Operations |
|---|---|---|---|
| Neighbour lists | `src/Compadre_NeighborLists.hpp` | counts and row offsets, on device and host, the list of entries, maximum and minimum, a flag that says whether the host mirror is up to date | construction (with the check of the storage), `computeRowOffsets`, accessors, device writes, conversion from 2D arrays |
| Point cloud search | `src/Compadre_PointCloudSearch.hpp` | the kd-tree and the source coordinates | 2D and compressed row searches by radius and by k nearest, each as a dry run that only counts or for real |
| GMLS object | `src/Compadre_GMLS.hpp`, `.cpp` | sites, lists, additional evaluation sites, settings; the connections that the kernels read; solution sets on host and device; coefficient matrices and flags | setters, `addTargets`, `clearTargets`, `generatePolynomialCoefficients`, `generateAlphas`, accessors |
| Solution set | `src/Compadre_SolutionSet.hpp` | target operations, their lookup and offsets, the alphas | adding and clearing operations, indices into the alphas, copies between memory spaces |
| Functors and kernels | `src/Compadre_Functors.hpp` and others | scratch and matrix slices of one batch | one kernel per stage of a batch, one team per target |
| Evaluator | `src/Compadre_Evaluator.hpp` | none of its own | applies alphas to sampled data |
| Kokkos runtime ownership | `src/Compadre_KokkosParser.hpp`, `.cpp` | one flag per object, and Kokkos's own | initialize, finalize, destruction |
| Parallel manager | `src/Compadre_ParallelManager.hpp` | team and scratch sizes | calls of kernels |
| Python module | `pycompadre/` | a search, the GMLS object bound to it | wrappers, `ParticleHelper` |
| Bases, targets, quadrature, dense solvers, utilities | the rest of `src/` | none | formulas |

How they interact.  A user (C++ or the Python helper) makes a `PointCloudSearch`
over the source coordinates and asks it for neighbour lists: a dry run fills the
counts, the user resizes the list to the total that was returned, and the same
search is called for real.  Search and lists share Kokkos views; nothing but the
user's discipline ties the two calls together.  The lists are handed to a `GMLS`
object, which keeps views of everything that is set and, once sources, targets
and lists are there, *connects* them.  `generatePolynomialCoefficients` runs its
kernels, batch by batch, on what is connected, writes the alphas in the device's
solution set and copies its description to the host's.  A batch is a sequence of
kernels (up to thirteen on a manifold, where the geometry is reconstructed first,
twice if its tangents have to be found); each launches one team per target of the
batch, and all teams share the arrays RHS, P and Z, where each has a slice, and
the scratch memory that the parallel manager has reserved.  The evaluator reads
both.  `KokkosParser` starts and stops the runtime under all this.

What is hard about it, and what makes each part correct:

- *Concurrency.*  `computeRowOffsets` is a parallel scan whose functor writes
  the shared array in both of its passes (NeighborLists.hpp:189-196).  The
  offsets that its caller reads must be the prefix sums whatever the threads do.
  In the searches one team per target writes to one array; the rows of teams
  must be disjoint, and are so only as long as the counts match the search.
- *Two calls that must agree.*  A real compressed row search is placed, and its
  scratch sized, by the counts an earlier call has left.  If the user repeats the
  search, it must be exact and stay within memory; if the user does something
  else, a debug build should notice.
- *Resource limits.*  A 2D search may have too few columns.  It must never
  write beyond a row, must say so, and must leave what is needed to recover.
- *Kernels that hand on slices.*  A kernel writes slices that a later one reads,
  in another functor, with dimensions that three places compute from members of
  the GMLS object.  The solver overwrites its operands, one of them transposed.
  What is left of the geometry must not enter the problem; each target must get
  its own solution, in its own frame, once.
- *Objects that share views.*  A `NeighborLists` is copied into every kernel and
  shares its views with the user; what it has computed from them, and its flag
  that the host is behind, are its own.
- *Failures part of the way.*  Checks throw after state has been changed; kernel
  assertions end the process; allocations fail.  Objects are used again.
- *Protocols.*  The setters of a GMLS object may be called in any order, again,
  and with empty views.  Whatever the order, the kernels must solve what was set
  last.  Solutions may be repeated with other arguments: the host must get the
  latest one and coefficients must be kept where the accessor looks for them.
- *Two descriptions of one array.*  The alphas are read by a row from the host's
  solution set and a place from the device's, whose lookups may be one view.
  Operations may be added, repeated and cleared, lists and sites changed after
  the solution: no two alphas may share a place, and each must be read where it
  was written.
- *Numeric edges.*  Batches that do not divide the targets, more batches than
  targets, more threads than parts of a range; a k-th neighbour at distance zero
  or exactly at the radius.
- *Ownership.*  Several parsers and an application share one runtime, which must
  be finalized once, by the one that initialized it.

`PROJECT.json` lists each of these hazards at its line, with the properties that
would catch it going wrong, or why no property does yet.

## 2. The modules

    CompressedRow  (prefix sums, totals, rows)
      +-- RowOffsetScan --- RowOffsetScanProofs
      +-- NeighborLists --- MCNeighborLists, NeighborListsProofs
      +-- PointCloudSearch  (+ SearchGeometry)
      |      +-- CRNeighborSearch --- MCCRNeighborSearch      \
      |      +-- TwoDNeighborSearch --- MCTwoDNeighborSearch  / NeighborSearchProofs
      +-- AlphaLayout
             +-- SolutionSet --- MCSolutionSet, SolutionSetProofs
    LayoutProofs  about CompressedRow and AlphaLayout, used by all other proofs on them
    GMLS --- MCGMLS, GMLSProofs
    BatchLayout  (dimensions, slices)
      |
      +-- TeamScratch
             +-- BatchKernels --- MCBatchKernels, BatchKernelsProofs
                    (implements TargetSolutions)
    KokkosParser --- KokkosParserProofs

**CompressedRow** defines the layout once: `PrefixSum`, `RowOffsets`,
`TotalNeighbors`, `MaxNeighbors`, `Row`.  Recursion is a recursive function, so
that the modules above can be proved about.

**RowOffsetScan** is `NeighborLists::computeRowOffsets` with the OpenMP
`parallel_scan` it runs on.  `Count` and `Fill` are one call of the functor in
the first and second pass; `Rendezvous` and `Combine` are the pool's barrier and
what the root does behind it; `Return` is the caller going on.  `WorkBegin`
and `WorkEnd` are the static partition of the range, with its rounding to the
granularity.  Variables are named as in Kokkos (`update` and `base` are the two
halves of a thread's reduction memory).  Kokkos is vendored in the repository
under `kokkos/`, so the scan is translated from its code.

With this back end the host mirror *is* the array (`create_mirror_view` of a host
view is the view itself, and the `deep_copy` after the scan copies nothing), so the
partial sums between the passes are visible to whoever holds the lists.  Nobody
reads them: the call is synchronous, made by the host before lists are handed to
anyone or again by a user who has searched into them.  For this reason
`NeighborLists` and `CRNeighborSearch` take `computeRowOffsets` as one step, which
`OffsetsPublished` justifies.

**NeighborLists** has the objects of one construction: the constructors and the
conversion from a 2D array, the implicit copy (`Copy`), `setNeighborDevice`, the
three recomputations and `copyDeviceDataToHost`.  Views are shared by all objects
and by the user, who may `Search` into them again; the maximum, the minimum and
the mark `needs_sync_to_host` are each object's.  `table` is history: what
neighbour `j` of target `i` should be.  The assignment of the mark stands inside a
debug assertion, so it depends on `debug`.  With one memory space the mirrors are
the views themselves (`HostNumbers`, `HostLists`, `HostOffsets`); with two, that of
the numbers is written by the constructors only, that of the offsets by
`computeRowOffsets` as well, that of the lists by `copyDeviceDataToHost`.  `Refuses`
has the two debug assertions of `getNeighborHost`.  Of these ways
to make an object, only the constructor that takes row offsets writes the minimum; after
the others it holds one of `Leftover`.

**SearchGeometry** is what the vendored kd-tree returns to the searches, for
sites on a line at integer coordinates.  Radii are multiples of `1/Scale`.  It
keeps the distinctions that matter: a source *at* the radius is not found; a
result set that is full counts on but stores no more, of an arbitrary subset;
after the callback's `sort()` the closest of the stored is in front and the
rest are in any order; a k-th distance of zero gives a tiny positive radius.

**PointCloudSearch** is what all four searches have in common: the sites, the
arguments of a call (`Calls`), the search radii in `epsilons`, the state of each
team (`team`, `found`, `indices`), how the last call ended, the unisolvency check
and the limit on the radius.

**CRNeighborSearch** has both compressed row searches, dry and real.  A call is
`CallRadius` or `CallKnn` (arguments, row offsets, scratch size, storage check),
one `KnnTeam` per target, `KnnEnds` (unisolvency check, then the radius search),
one `RadiusTeam` per target up to the team barrier, one `FillRow` after it, and
`RadiusEnds`.  Between calls the user may store radii or resize the list.  In
the code the check of `max_search_radius` and the check of the counts are kernel
assertions: they end the process (`phase = "aborted"`).  Failed release
assertions throw, and the user goes on.  Memory beyond an array is not modelled;
`overran` remembers that a team has written there, and nothing follows it.
`prepared` and `disciplined` are history: the search whose counts are in place,
and whether the current call repeats it.

**TwoDNeighborSearch** has both 2D searches in the same form, its actions named with
a final `2D` so that one module can speak of both: column 0 holds the
counts, the scratch has as many entries as there are columns, `RadiusEnds`
throws if a row did not fit.

**GMLS** is the life of a GMLS object.  A view is `[n, data]`: its extent, and a
value that stands for its contents.  `pc` and `additional_pc` are the
connections; each setter has the code's own condition on the other two and
renews them.  `ProblemRead` is what the kernels read through the connections and
the device's solution set; `ProblemSet` is what the user has set; alphas and
coefficient matrices hold `Solved(p)` for the problem they were computed from,
so that a stale one can be told from a current one.  A call of
`generatePolynomialCoefficients` is `Generate` (checks, copies, allocations and
each way they fail: `RefuseToKeep`, `Unsolvable`, `OutOfMemory`,
`StartBatches`), `Batch` per pass of the loop and `Finish`.  The loop is split
because the property of interest is about its progress; a user's calls are not
interleaved with it.  Settings that no connection depends on are one value,
`settings`.

**BatchLayout** has the sizes on which the caller of the kernels, the kernels and
`ApplyTargets` have to agree: the multipliers of sampling and basis, sizes of the
bases, `getRHSDims` and `getPDims`, and where the slice of a target begins.  Each of
the three places has its own operators (`CallerDims`, `BasisDims`, `SolutionDims`),
because the code computes them three times, from different expressions.

**TeamScratch** has what `ParallelManager` reserves for teams and threads at each
memory level, and what each kernel and the dense solver take.

**BatchKernels** is the loop of `generatePolynomialCoefficients` at the grain of
teams.  `Call` is what precedes the loop, `StartBatch` clears the arrays, each
kernel is an action of one team, `NextStage` launches the next kernel once all
teams have ended (kernels of one execution space run one after another), `EndBatch`
goes on to the next batch or ends the call.  `Following` is the program: which
kernel follows which, by problem, solver and tangents.  Numbers are replaced by
where they come from: an entry is a record of what it is, of which reconstruction
and target, in which frame, and whether it is sound.  A slice remembers the begin
and row length it was written with, and whoever reads it with others gets
`Garbage`.  So a wrong stride, a stale P, a frame that is replaced between two
kernels, or another target's coefficients show up in the alphas.  The dense solver
takes the two forms of right hand side that its code distinguishes by the shape of
the system (`FormsTaken`).

**TargetSolutions** is what a call promises: each target is given its own solution
once, after its weights, and all of them are solved in the end.  `BatchKernels`
implements it, with fairness.

**AlphaLayout** has the arithmetic of the alphas' array, as operators on the
description that a solution set carries: `getTargetOffsetIndex` (the row of a
site, operation, input and output component), `getAlphaIndex` (where a row of a
target begins), `AlphasExtent` (what is allocated) and `Slots` (what the kernel
that applies the targets writes).  Offsets and columns are the prefix sums of
`CompressedRow`.

**SolutionSet** has the two solution sets of a GMLS object, `h` and `d`, under
`addTargets`, `clearTargets`, the two setters that write to `h`, and
`generatePolynomialCoefficients` as far as it concerns them: `Refused` (a check
fails after `d` was replaced), `OutOfMemory`, `Generate`.  Alphas are not
numbers but the description they were written by, so that a read through
another description can be judged: `Reads` asks whether the place that is read
holds an alpha of the operation, components, site, target and column that were
asked for.  Whether `h` and `d` share views depends on the memory spaces: if
these are one, the assignments in both directions use the implicit copy
constructor, which shares the alphas and the lookup; `addTargets` replaces all
other views and writes *into* the lookup.  If they are two, the converting
constructor copies all but the alphas.  Components are counted the way
`getTargetOutputIndex` does it (`Dimensions`) for the reader and the way
Targets.hpp does it (`Axes`) for the writer.  `GMLS` keeps the view of the same
objects that its own properties need: operations as a set, alphas as a problem.

**KokkosParser** has construction, `initialize`, `finalize`, soft or hard, and
destruction of several parsers.  No constructor writes the member
`_called_initialize` of a parser that finds Kokkos running: until it is written it is
`"unwritten"`, and each time it is tested either branch may be taken.  `owner`,
`robbed` and `last` are history.

The `MC` modules give constants their values.  Definitions called "mutated form"
stand next to the one they change; they are not used by any specification.  Each
is a mistake that could be made in that place of the code and which some
property notices.

## 3. What the runs check

| Run | Properties | States | Time |
|---|---|---|---|
| `row_offset_scan` | `ScanInv OffsetsPublished FinalOffsetsStay ScanEnds` | 5 265 | 1 s |
| `cr_search` | `TypeOK RepeatedSearchIsExact DryRunSuffices KnnFindsNeeded DebugCheckProtects` | 4 179 917 | 85 s |
| `two_d_search` | `TypeOK ReturnedMeansComplete OverflowIsRecoverable DryRunIsTight` | 183 887 | 6 s |
| `neighbor_lists` | `TypeOK DeviceReadsTable HostReadsTable BehindIsMarked` | 2 397 888 | 110 s |
| `kokkos_parser` | `NoRuntimeWithoutParser OnlyOwnerFinalizes` | 1 368 | 1 s |
| `gmls_solve` | `TypeOK EachTargetSolvedOnce HostGetsLatestSolution KeptCoefficients NoStaleCoefficientsInRHS` | 60 600 | 4 s |
| `gmls_setters` | `SolvesWhatWasSet EvaluationRowsMatch` | 1 524 372 | 104 s |
| `batch_kernels` | `TypeOK OwnSolution OwnWeights SlicesApart ScratchSuffices ImplementsTargetSolutions` | 10 217 | 7 s |
| `solution_set` | `TypeOK LookupExact LayoutSound HostReadsOwn EvaluatorReadsOwn DeviceFindsItsOperations ManifoldRowsFit` | 1 152 028 | 90 s |

Three more runs each end in a violation; section 5 is about them.

**row_offset_scan.**  Three threads, four targets, granularity 1 and counts 0 to
2.  The rounded part is two targets, so the last thread has none and still has
to reach the barrier.  `OffsetsPublished` says that the array has the prefix
sums when the call returns; `FinalOffsetsStay` that an offset of the second pass is
never written again; `ScanEnds` that nobody is left at the barrier.  Two threads with work and one without already show every kind
of interleaving of the two passes; the theorems of section 4 lift the bounds.

**cr_search.**  Any sequence of radius searches (by `epsilons` or a uniform
radius), k-nearest searches for 2 and for 4 of 3 sources, dry or real, with and
without a limit on the radius, while the user stores radii, and resizes to what
a dry run returned, in a release and a debug build.  `RepeatedSearchIsExact`: a
real search that repeats the last dry run leaves rows that are complete, without
other entries, closest first, whatever came before.  `DryRunSuffices`: the
repetition stays within the list and its scratch, is not stopped by the check of
the counts and throws only if the list was not resized.  `DebugCheckProtects`: in
a debug build a search that does *not* repeat the dry run is stopped before it
writes beyond the list, except with a uniform radius, for which the code skips
the check.  `KnnFindsNeeded`: the strict comparison of the second search has not
lost the k-th neighbour.

**two_d_search.**  Arrays of 0, 2 and 5 columns, and of the number a dry run
returned.  `ReturnedMeansComplete`: a search that returns has stored everything.
`OverflowIsRecoverable`: one that throws has written beyond no row, has left the
true counts, and distinct true neighbours in what fits.  `DryRunIsTight`: what a
dry run returns is enough and no more than needed.

In both searches there are three sources, two of them at one place in at least
one cloud, and two targets, so that rows differ in length, distances tie, the
k-th distance is zero for one target, and a target has none, some or all of the
sources.  Two rows are enough for one to run into the other.

**neighbor_lists.**  Two targets with up to two neighbours each, lists of one or two
places (too short for some numbers, longer than others need), an object and a
copy of it, one search into views in use; one memory or two, release or debug.
`DeviceReadsTable`: through any object, a neighbour read on the device is the one
last given, by whichever object or search, as long as the offsets belong to the
numbers; after a search they do again once `computeRowOffsets` is called.
`HostReadsTable`: so is one read on the host if nobody has written since some object
copied to it, or else a debug assertion stops the read; and that happens only to an
object that does not know that another one has copied, or, with two memories, where
the numbers were changed after construction.  `BehindIsMarked`: in a debug build, if
the host does not see the lists as they are, somebody has written, and every object
that has is marked.  An object is *not* marked by what its copies or the user
write, nor in a release build; the code does not promise it.

**kokkos_parser.**  Three parsers and the application, unwritten flags, soft and hard
finalize.  `OnlyOwnerFinalizes`: `Kokkos::finalize` is called while Kokkos runs, by the
one who initialized it.  That is not so without exception, and the property names
the exceptions (`Misled`): a hard finalize; an unwritten flag; and a parser whose
runtime one of these has ended, whose own flag nobody has reset.  TLC and the
theorem show that there is no fourth, in the steps that follow such an accident
either.  `NoRuntimeWithoutParser`: whatever has gone wrong, a runtime that a parser
initialized does not outlive it.

**gmls_solve.**  Five targets (or none, when solved before any are set) in 1, 2,
4 or 6 batches: a short last batch, batches that are never run because all
targets are done, more batches than targets.  Constructor choices: QR and LU,
with and without a constraint, a manifold, staggered sampling, host and device
memory shared or separate.  Either allocation may fail.  `EachTargetSolvedOnce`;
`HostGetsLatestSolution`: after a call has returned, host and device have the
solution of the problem it was called for; `KeptCoefficients`: what was kept is
in the matrix that the accessor looks at; `NoStaleCoefficientsInRHS`: no modifier
leaves coefficients of an earlier problem in RHS.

**gmls_setters.**  Two sizes of target sites and lists, two source views of the
same size, empty views of each, additional sites for two targets.
`SolvesWhatWasSet` and `EvaluationRowsMatch` say that the kernels read what was
set last, with a row of additional sites for every target.

**batch_kernels.**  Three targets in one, two (of two and one) or three batches, and
a second call on the same object with other orders, numbers of neighbours or
batches.  There are 27 problems, at least one for each path: on a manifold or not;
tangents computed, oriented by reference normals or provided; QR and LU; with and
without a constraint; scalar, vector, cloned and divergence-free spaces; each kind
of sampling that needs weights.  `OwnSolution`: the alphas of a target, once there,
come from the coefficients and target row of that target, of a system into which
nothing stale has entered, in the target's final frame.  `OwnWeights`: its weights
are computed once, in that frame, also those that the kernel adds to what it
finds.  `SlicesApart`: slices of different teams are apart and within the arrays,
for the dimensions of each place that computes them.  `ScratchSuffices`: each
kernel finds the scratch it takes, with the levels of a host and of a GPU, and so does
the dense solver; and, unless a target has fewer rows than columns
(`EnoughNeighbors`, which one of the problems is not), what the solver does with its
two workspaces stays within them: the vectors of the factorization, a matrix that is
in the corner of a larger slice, a diagonal right hand side.
`ImplementsTargetSolutions`: every target is weighed and solved once, in that
order, and in the end all are.  Three targets give a batch a first team (whose
slice begins at 0 whatever the stride), another, and a short last batch.

**solution_set.**  Two targets with 1 and 2, or 3 and 0 neighbours, one or two
evaluation sites each; operations of rank 0, 1 and 2, requested alone, together
and twice in one vector; scalar and vector samples, an alpha for a constraint, a
manifold; host and device memory one or two.  `LookupExact`: after any calls
every operation is looked up at a place where it is stored, or nowhere.
`LayoutSound`: the alphas' places are distinct and within the array.
`HostReadsOwn`: `getAlpha` on the host returns the alpha that it is asked for
while rows, lists and sites are those of the solution.  `EvaluatorReadsOwn`:
the evaluator, with its row from `h` and the place of the row from `d`, gets to
the right alpha even when they are not, as long as nothing was cleared; for the
additional sites the number of rows must not have changed, since a site's rows
are strided by it.  `DeviceFindsItsOperations`: the device's lookup survives
what is done to the host's, except a clear when they are one view.
`ManifoldRowsFit`: the rows that the gradient of a manifold's geometry uses are
there for any operations.  Two targets of which one has no neighbour, two sites
and three operations give every stride of the layout a chance to be wrong.

### Bounds

Every bound is a constant: `MaxCount` (neighbours of a target, for TLC only),
`NumTargets`, `NumThreads`, `Granularity`, `UserRadii`, `UserColumns`,
`MaxRadii`, `Searches`, the clouds, `Batches`, and `MaxOrder`, which stops
`Generate` from raising the polynomial order for ever where the code would;
`MaxStored`, which bounds the operations that are stored (requesting one twice
in a vector stores it twice), `MaxSites`, `Requests` and `Lists`; in
`NeighborLists` `MaxRow`, `Extents`, `Objects`, `Leftover` and `MaxSearches`; in `BatchKernels`
`Problems` and `MaxCalls`.
Teams have one thread, which is what `Kokkos::AUTO` gives the search kernels on
the host backends.  A radius is compared without rounding.

`CHECK_DEADLOCK` is switched off for `BatchKernels` only, where after `MaxCalls`
calls the user does nothing more; that a call does not stop half way is part of
`ImplementsTargetSolutions`.  Elsewhere, where the system stops (a process that was
aborted, a call that has returned) a named stuttering action says so.

### Fairness

Two runs need it.  `FairSpec` of `RowOffsetScan` has weak fairness of each
thread's next step, of the root's `Combine` and of `Return`: the OpenMP
runtime runs every thread of a parallel region until it is through, the barrier
spins until all have arrived, and the caller goes on when the region ends.  No
fairness between threads is assumed.  `Spec` of `BatchKernels` has weak fairness of
`Loop`, everything that happens within a call: kernels are launched by a loop of
the host and their teams end, since every loop in them is bounded.  Nothing is
assumed of which team runs first, nor that the user calls.  Everything else is safety.  For the
searches and GMLS, the user is not obliged to do anything, and a call ends
because its loops are bounded.

## 4. What is proved

TLC's bounds are lifted by these theorems, for every value of the constants that
the named `ASSUME`s allow (naturals, at least one thread, a positive
granularity, positive numbers of batches, extents that are naturals).

*LayoutProofs.*  Of compressed rows: `RowsDisjoint` (rows of different targets share
no entry) and `RowsFitTotal` (every row lies within the total that a dry run
returns and the constructor checks), for any counts.  `PrefixSum` is defined by
recursion, and the library's induction theorems take an operator, which the
provers cannot instantiate.  The lemmas go by least counterexample instead:
`LeastNat` gives the least element of a non-empty set of naturals;
`PrefixSumExists` shows that the recursion defines a function by looking at the
least length for which it does not; `PrefixSumStep` and `PrefixSumMonotone`
follow.

Of the alphas: the place of an alpha is a number in a mixed radix: target,
site, operation with its components, column.  The proofs take the digits apart
one by one: equal places have equal targets because the blocks of targets are
disjoint (`BlocksDisjoint`); then equal rows, because a column is less than a
row's length (`RowAndColumn`); then equal sites, because a row is less than the
total (`RowInSiteBound`); then equal operations and components, because the
tiles of a prefix sum are disjoint (`RowInSiteUnique`).  `RowsUnique` and `RowsBounded`
say it of rows, `PlaceUnique` and `PlaceAllocated` of places, for any numbers of
targets, operations, components, sites and added alphas.

*NeighborSearchProofs.*  Every invariant of both searches, for any clouds of sites,
any number of targets and columns, any radii and any sequence of calls.  Assumed are
only the named `ASSUME`s of `PointCloudSearch` (sites are indexed from 0, there is
a source, radii are not negative, k and multiplier are positive) and, for
`KnnFindsEnough` and `DryRunEnough`, `LargerRadii`: every k-nearest search has a
multiplier above 1, as the searches of `cr_search` do (which TLC evaluates).
Without it the radius search loses the k-th neighbour, which is at its radius, and
may find nothing at all.

First come the facts about the kd-tree: a result set of any size stores members of
the set it was asked for, no two the same, and all of it, closest first, if there is
room (`StoredIndices`); and a radius larger than the k-th distance has at least k
sources strictly within it.  The longest row, a `CHOOSE`, is bounded by a
least-counterexample argument again.

`SearchInv`, for the compressed rows, has nine parts, each for a question that the
properties leave open.  `ListsInv` and `CallInv` say what is possible in each
phase.  `PreparedInv`: as long as the user has not touched anything, the counts in
place are those of the search that was prepared, by the radii it would use
(`Prepared`), which are in `epsilons` now or will be stored again.  `KnnInv`: radii
that the k-nearest kernel has stored are a function of the arguments, so that a
repetition computes the same ones.  `TeamInv` is about the counts and scratch of
each team, `SizedInv` says when the rows and the scratch are placed and sized by
these counts, `FilledInv` that a team that is done has left an exact row, which no
other team touches, because rows are disjoint (`RowsDisjoint`).  `EndInv` has the
ways a call may end.  From it `SearchTypeCorrect`, `RepetitionExact`,
`DebugProtects` and `KnnFindsEnough`.  That nothing was overrun needs `ScratchInv`
besides, which is inductive only together with `SearchInv` and `LargerRadii`: the
rows are within the list (`RowsFitTotal`), and a scratch of the longest row is not
empty unless nothing is found (`DryRunEnough`).

`SearchInv2D` is shorter, as each 2D call stands alone: column 0 of a team that has
searched is the number it found; a team that is done has stored its neighbours up to
the columns; no row was overrun.  From it `SearchTypeCorrect2D`, `ReturnedComplete`,
`OverflowRecoverable` (where distinct entries give the cardinality) and `DryRunTight`.

*RowOffsetScanProofs.*  `OffsetsPublished` is not inductive: it says nothing of
the state before the call returns.  `ScanInv` adds, per thread, what its partial sum,
base and iterator are in terms of the prefix sums: `update` is the sum of the
targets behind it in its first pass, `base` is the prefix sum in the second, and
offsets behind it are right.  Its proof has a lemma per action.  The three facts
about the partition are that ranges are disjoint, adjacent and cover the targets
(`WorkRangesDisjoint`, `WorkRanges`, `WorkRangesCover`), and `CombineBases`
turns partial sums into the prefix sums at the ranges' ends.  From it:
`ScanInvariant`, `OffsetsPublishedTheorem` and `FinalOffsetsTheorem`.

*GMLSProofs.*  `GMLSInv` is `Shape /\ ConnectionInv /\ BatchInv`.  `Shape` is the
part of typing that is needed (a solution set has its four fields, there is a
positive number of batches).  `ConnectionInv` strengthens `SolvesWhatWasSet` to
states between setters: *once all three are set*, connections are current; the
additional lists have a row per target, or there is no target; the room in the
alphas is that of the longest of them.  `BatchInv` says that the loop has solved
exactly a prefix of the targets, of length the smaller of `batch_num` batches and
all; with `CeilingCovers` (the rounded-up batch size times the batches is at
least the targets) it gives `SolvedOnceTheorem`.  `ConnectionTheorem`,
`SolvesWhatWasSetTheorem` and `EvaluationRowsTheorem` follow from the first.
`LatestInv` is about what a call leaves behind.  Its part `Running` holds while the
loop does: the problem that was asked for is the one that is set, since no setter
comes between, and after the first batch the alphas and the coefficient matrix hold
its solution.  From it, `LatestSolutionTheorem`,
`KeptTheorem` and `NoStaleTheorem`.  `TypeCorrect` needs `TypeInv`: `TypeOK`, and that the
connected targets are ones that were set (what is solved is a problem with those),
that the last call's number of batches is a number, and that the counter of the loop
is 0 between calls, however the last one ended.

*SolutionSetProofs.*  `LayoutAlwaysSound`: `LayoutSound` in every reachable
state.  It speaks only of the alphas there are; `LayoutInv` adds that the host's
description, from which the next solution's is copied, has for *some* number of
operations the offsets and total of its tiles.  Not for the number of those
listed: `clearTargets` empties the list and leaves the rest, and the alphas must
be right in between.  `OperationsLaidOut` is the step of `addTargets`,
`TilesKept` that of the setters.  From unique places to the cardinality in
`LayoutSound` it is an injection into a finite set (`SoundLayout`).  The guard
`Len(lro) \in 0..MaxStored` bounds the model for TLC; the proof uses only that
the length is a number.

The other properties are about what is *read*, through a lookup, a row and a place
that may come from three different moments.  `SetsInv` relates these.  `Laid`: unless
the list is empty, the tables are those of exactly this list (after a clear they are
not, and nothing may be read).  `ListedInv`: the host's lookup is exact.
`SolutionInv`, once solved: the alphas of the device were written by its present
description; until something is cleared, the host's list *extends* that of the
solution, and both lookups *find* every operation of the solution within it, the
host's although `addTargets` has rewritten it.  That is so because an operation that
was stored before is given its *first* place, which cannot be behind the solution's
own list (`LookupFacts`), and because a view that is shared is written by both or
none.  Prefix sums do not depend on what follows (`PrefixSumAgrees`), so the host's
offsets are the device's on the common part (`TablesAgree`).  `NewOperations`, the
loop in `addTargets` that picks what is new, is a recursive function; `UniqueExists`
and `NewOperationsFacts` go by least counterexample.  `ReadsOwn` puts it together,
with `OutputIndex`: the component that a reader counts by all dimensions is the one
that the kernel counted by the local ones.  For rank 2 that is true only off manifolds,
but on a manifold no call with such an operation returns.  From these `SetsTypeCorrect`, `LookupAlwaysExact`,
`HostAlwaysReadsOwn`, `EvaluatorAlwaysReadsOwn`, `DeviceAlwaysFinds` and
`ManifoldRowsAlwaysFit`.

*NeighborListsProofs.*  `ListsTyped`, `DeviceReads`, `HostReads` and
`BehindMarked`, for any numbers of targets and neighbours and any objects.
`ListsInv` adds that the offsets are the prefix sums of the numbers unless they are
stale, that the mirrors equal the views unless somebody has written (that of the
numbers: unless they were changed since construction), and that in a debug build an
object which is not marked has not written.  A write by `setNeighborDevice`
changes one place only: `PlaceInRow` and `PlacesDiffer` (from `RowsDisjoint`) say
that no other neighbour is there.

*BatchKernelsProofs.*  `TeamsApart` and `ScratchEnough` hold
for every problem: slices of any stride up to the allocated one are in order
(`SlicesInOrder`), and the dimensions of all places are at most the caller's
(`DimsGrow`); pairs of sizes fit at any levels if each half does, or their sum
(`PairsFit`).  What the solver does with its workspaces (`WorkspacesFit`) takes a case
for each of the systems it is given: the number of right hand sides is at least that
of the rows wherever the matrix is in a larger slice (`CurvatureSystemFits`,
`ProblemSystemFits`).  `KernelsTyped` is type correctness.  `SolutionsOwn` and
`WeightsOwn` assume `AllRegular`: for a manifold the geometry has no more columns
than the basis, a system for QR is not square, and the basis has as many columns
as coordinates where a tangent plane is found.  The first two are what the runs
`batch_apply` and `batch_square` show to be needed; the instances of
`batch_kernels` satisfy them, which TLC evaluates.  The argument has three parts.
`Control`: the loop has treated a prefix of the targets, and teams that are left
to run are of this batch.  `Path`: the stage is one that the problem goes
through, in its pass.  `Progress`: for each target of the batch, what its slices,
frame, weights and alphas hold is a function (`Due`) of the stage and of whether
its team has run.  There is a lemma per kernel, from what is due before to what is
due after; `OthersKept` says that a team leaves every other target as it was.

`TargetsSolvedOnce` is the refinement without its fairness: under `AllRegular` every
step of `BatchKernels` is one of `TargetSolutions` or a stutter.  Only two kernels are
seen there: the last one of a team gives its target alphas where there were none,
after its weights (`SolveRefines`), and the kernel of the weights gives it those
(`WeighRefines`); both are read off `Progress`.  That the call ends only when all
targets are solved is `Coverage`: while the loop runs, the targets before
`batch_num` batches are solved, and in the end `n` batches of the rounded-up size are
at least all targets (`BatchesSuffice`).

*KokkosParserProofs.*  `OnlyOwnerFinalizesTheorem` and `NoRuntimeWithoutParserTheorem`,
for any number of parsers, with unwritten flags and hard finalizes.  The invariant
relates the flags and the history: the runtime has an owner exactly while it runs; a
parser that owns it is alive with its flag set; a flag that is set belongs to the
owner or to a parser that was robbed.

Only model-checked: `ScanEnds` and the fairness of `ImplementsTargetSolutions`, since
liveness and `ENABLED` are beyond this prover.  Every other property of the passing
runs is a theorem.  What a recursive definition computes for every input can be proved
only as far as least counterexamples go, and no module here declares a `RECURSIVE`
operator.  The theorems are about the models: sites on a line, teams of one thread,
radii compared without rounding (section 6).

## 5. Where the code and its words disagree

Each of these runs checks one statement that a comment or an assertion of the
code makes, and TLC finds a behaviour of the code that violates it.

- `gmls_tangents`, `TangentsOnHost`: the copy is tied to the last batch number,
  which is not reached if the loop breaks off early.
- `batch_apply`, `OwnSolution`: `createGMLSSolutionData` takes the columns of the
  basis, all other places on a manifold the larger of basis and geometry.  With the
  default curvature order and a basis of order one, `ApplyTargets` reads slices at
  other places than they were written.
- `batch_square`, `OwnSolution`: the solver tells the diagonal right hand side of QR
  from the full one of LU by whether the system is square.  A QR problem with as
  many rows as columns is taken for the other.

By reading, without a run:

- The loop bound of the compressed row fill is commented as keeping the write
  within allocated memory (PointCloudSearch.hpp:481); it is the number found.  The
  checks that matter are those of `DebugCheckProtects`, which skip a uniform
  radius.
- `_called_initialize` is not written in a parser that finds Kokkos running
  (KokkosParser.cpp:42), and may read as set: such a parser ends a runtime that is
  not its own.  A *hard* finalize leaves the flag of the parser that had initialized,
  which then does the same.  Both are the `Misled` exceptions of `OnlyOwnerFinalizes`.
  The assignment of parsers is deleted, their implicit copy constructor, which
  would make two owners, is not.
- The flag "computed at once" that the coefficients' accessor asserts is cleared
  by a call with several batches (GMLS.cpp:420) and never set again; the other, that
  coefficients were kept (GMLS.cpp:434), is set and never cleared.  So the accessor
  refuses coefficients that a later call has kept, and hands out an empty matrix
  after a later call that has not.
- With samples of a gradient on staggered edges the order is raised in the member,
  by every call.
- `getPolynomialCoefficientsMemorySize` (GMLS.hpp:635) has the columns of
  `createGMLSSolutionData`, not those of the arrays.
- `Convert2DToCompressedRowNeighborLists`, for lists that the device cannot reach,
  reads `neighbor_lists(i,0)` on the host (NeighborLists.hpp:360), although only
  the copy of it is known to be readable there.
- With two memory spaces, the host mirror of the numbers of neighbours is written
  by constructors only.  After a search that finds more than the one before, the
  assertion at NeighborLists.hpp:248 refuses neighbours that are there, and neither
  `computeRowOffsets` nor `copyDeviceDataToHost` helps; see `Refuses`.
- The constructors at NeighborLists.hpp:82-109 and 115-140 do not write
  `_min_neighbor_list_row_storage_size`.  `getMinNumNeighbors` then returns whatever
  is there, and the assertion that it "was never calculated" need not fire.
- The mark that host lists are stale is set within a debug assertion and in one
  object only: in release builds, and in copies of the writer, `getNeighborHost`
  returns stale neighbours silently.  `BehindIsMarked` says what is left.
- With fewer rows than columns the factorization with column pivoting exceeds its
  workspace of 3M by up to 2(N-M)-1 doubles: into what comes next in scratch memory,
  which on a host is not in use.  With fewer neighbours than columns, the solver of a
  manifold problem with LU copies its matrix beyond its own workspace, into U, which
  is not in use yet.  `ScratchSuffices` asks for enough neighbours for this reason.
- `ParticleHelper::getNeighborLists` (pycompadre/pycompadre.cpp:87) reports that lists
  "were never set" by looking at the lists of the *connections*, which are empty until
  sources and targets are set too.
- `applyStencilAllTargetsAllAdditionalEvaluationSites` (pycompadre.cpp:579-584) gives
  the result a single row if "setAdditionalEvaluationSitesData never called", judged by
  the coordinates in the helper, and writes a row for every additional site of the
  GMLS object, which another helper, or the object itself, may have been given.  Here
  and in `applyStencil` the result of an output with three components is neither shaped
  nor filled.
- `ParticleHelper::setSourceSites` gives the GMLS object new sources and leaves the
  search (pycompadre.cpp:356) with the old ones: lists that are generated after it index
  sites that are no longer there.
- "Be sure to deallocate in reverse order" (pycompadre.cpp:657) is followed by an example
  that deletes the GMLS object before the helper, which keeps raw pointers into it.

The passing properties are stated so that they hold besides: `KeptCoefficients`
excludes histories with several batches, `OnlyOwnerFinalizes` names its
exceptions, `HostReadsTable` is about what `Refuses` lets pass, the workspaces of
`ScratchSuffices` are those of problems with enough neighbours, and `batch_kernels`
has regular problems.  A k-nearest search with the
multiplier 1, which the code accepts, would violate `KnnFindsNeeded`; the searches
of the run have more.

## 6. What is not modelled

- The numbers: bases, targets, quadrature, manifold geometry, QR and LU, weights.
  They are floating point formulas without state.
- Within a team: its threads and vector lanes, and the barriers between them.
- In `BatchKernels`: the array w of weights, of which each kernel that assembles a
  matrix writes its target's rows first; the product with sqrt(w) at
  Functors.hpp:1115-1117 goes over all rows of the slice, but those beyond the
  target's own are zero in P and in w.  Targets with fewer neighbours than the
  maximum: what an earlier kernel left in RHS beyond a shorter target's rows
  (Functors.hpp:561, 731, 1094) meets rows of U that are zero.  Both orders zero on a
  manifold; a plain problem with samples along a manifold, which the code does not
  support; that a constraint on a manifold is not imposed there (it widens slices and
  adds alphas, which is modelled); a staggered order that is not set again before the
  second call; and irregular problems, but for the two runs that show what becomes
  of them.
- In `AlphaLayout` the width of integers.  The code has two products in `int`
  (SolutionSet.hpp:229 and 234) and on a GPU narrows the index of a row to a
  `const int` (ApplyTargetEvaluations.hpp:70); `Place` is the branch for CPUs.
- The flags of the coefficients' accessor (hazard at GMLS.cpp:434), of which there is
  nothing to guarantee, and of `needs_sync_to_host` in release builds.
- `clearTargets` before any `addTargets`, which writes to an unallocated view.
- Which neighbours an alpha is multiplied with: `EvaluatorReadsOwn` is about
  places, and lists set after the solution would pair its alphas with others.
- Extents of tangents, normals and extra data, which the code does not check
  either.
- Writes to lists on the host through the raw view, which nothing tracks.
- MPI, file output, and the examples; vendored Kokkos and nanoflann beyond what
  section 2 names.

## 7. Plan

Done first: the scan, because everything reads its result; the searches, because
their two-call protocol is where memory is at stake; GMLS, because its setters
and flags are the interface; the solution sets, because every result is read
through them; then the kernels of a batch, where all of this is used, and the
lists that searches hand to them.  Next, in this order:

1. The evaluator's sums over neighbours, and the subviews of tensor data.
2. The Python `ParticleHelper`: its copies of views, and helpers that share one GMLS
   object.
3. More proofs: that the searches implement an abstract one, whose rows appear at
   once, and that what is connected in `GMLS` is what the kernels of `BatchKernels` get.
4. Teams of several threads in the searches, in which a variable set by one
   thread is read by others.
