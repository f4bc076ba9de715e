\* Three targets in one, two or three batches (the last is short in the
\* second case), twice on one object, for every path through the code.
SPECIFICATION Spec
CONSTANTS
  Problems <- RegularProblems
  NumTargets = 3
  Batches = {1, 2, 3}
  MaxCalls = 2
INVARIANTS
  TypeOK
  OwnSolution
  OwnWeights
  SlicesApart
  ScratchSuffices
PROPERTIES
  ImplementsTargetSolutions
CHECK_DEADLOCK FALSE
