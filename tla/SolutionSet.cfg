\* Operations added, repeated and cleared, lists and sites changed, solutions
\* and failures in between, for one memory and for two.
SPECIFICATION Spec
CONSTANTS
  Operations <- TheOperations
  OutputRank <- TheRanks
  Configurations <- TheConfigurations
  Requests <- TheRequests
  n = 2
  Lists <- TheLists
  MaxSites = {1, 2}
  MaxStored = 3
INVARIANTS
  TypeOK
  LookupExact
  LayoutSound
  HostReadsOwn
  EvaluatorReadsOwn
  DeviceFindsItsOperations
  ManifoldRowsFit
