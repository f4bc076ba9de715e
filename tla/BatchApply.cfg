SPECIFICATION Spec
CONSTANTS
  Problems <- FinerGeometry
  NumTargets = 3
  Batches = {1, 2}
  MaxCalls = 1
INVARIANTS
  OwnSolution
CHECK_DEADLOCK FALSE
