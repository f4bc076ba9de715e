\* Five targets on a manifold in four batches, of which three are run.
SPECIFICATION Spec
CONSTANTS
  Configurations <- OneManifold
  SourceSites <- OneSource
  TargetSites <- FiveTargets
  Lists <- FiveRows
  EvaluationSites <- NoEvaluationSites
  Settings = {1, 2}
  Operations = {"ScalarPointEvaluation"}
  Batches = {1, 2, 4, 6}
  Memory = {}
  UserOrder = 2
  MaxOrder = 4
INVARIANTS
  TangentsOnHost
