\* Any sequence of searches, dry or real, with the user changing radii and
\* resizing between them, in a release and in a debug build.
SPECIFICATION Spec
CONSTANTS
  Scale = 2
  NumTargets = 2
  Builds = {TRUE, FALSE}
  SrcClouds <- MCSrcClouds
  TrgClouds <- MCTrgClouds
  Searches <- MCSearches
  UserRadii = {1, 5}
  MaxRadii = {0, 3}
INVARIANTS
  TypeOK
  RepeatedSearchIsExact
  DryRunSuffices
  KnnFindsNeeded
  DebugCheckProtects
