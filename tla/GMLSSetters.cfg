\* All orders of setting and resetting sites, lists and additional sites,
\* to empty views too, between calls of generatePolynomialCoefficients.
SPECIFICATION Spec
CONSTANTS
  Configurations <- OneConfiguration
  SourceSites <- AnySources
  TargetSites <- AnyTargets
  Lists <- AnyLists
  EvaluationSites <- AnyEvaluationSites
  Settings = {1}
  Operations = {"ScalarPointEvaluation"}
  Batches = {1}
  Memory = {}
  UserOrder = 2
  MaxOrder = 3
INVARIANTS
  SolvesWhatWasSet
  EvaluationRowsMatch
