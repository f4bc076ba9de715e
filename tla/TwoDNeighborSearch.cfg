\* Any sequence of searches, dry or real, into arrays of 0, 2 or 5 columns
\* or of the size that a dry run returned.
SPECIFICATION Spec2D
CONSTANTS
  Scale = 2
  NumTargets = 2
  SrcClouds <- MCSrcClouds
  TrgClouds <- MCTrgClouds
  Searches <- MCSearches
  UserRadii = {1, 5}
  UserColumns = {0, 2, 5}
  MaxRadii = {0, 3}
INVARIANTS
  TypeOK2D
  ReturnedMeansComplete
  OverflowIsRecoverable
  DryRunIsTight
