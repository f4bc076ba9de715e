SPECIFICATION Spec
CONSTANTS
  Problems <- AsManyNeighborsAsColumns
  NumTargets = 3
  Batches = {1, 2}
  MaxCalls = 1
INVARIANTS
  OwnSolution
CHECK_DEADLOCK FALSE
