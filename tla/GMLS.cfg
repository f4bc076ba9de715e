\* Repeated solution with one to six batches of five targets or none, for
\* every solver and constraint, with failures in between.
SPECIFICATION Spec
CONSTANTS
  Configurations <- Solvers
  SourceSites <- OneSource
  TargetSites <- FiveTargets
  Lists <- FiveRows
  EvaluationSites <- NoEvaluationSites
  Settings = {1, 2}
  Operations = {"ScalarPointEvaluation"}
  Batches = {1, 2, 4, 6}
  Memory = {"alphas", "P"}
  UserOrder = 2
  MaxOrder = 4
INVARIANTS
  TypeOK
  EachTargetSolvedOnce
  HostGetsLatestSolution
  KeptCoefficients
  NoStaleCoefficientsInRHS
