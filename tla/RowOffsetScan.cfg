\* Three threads over four targets: two targets each for the first two
\* threads, none for the third.
SPECIFICATION FairSpec
CONSTANTS
  NumTargets = 4
  NumThreads = 3
  Granularity = 1
  MaxCount = 2
INVARIANTS
  ScanInv
  OffsetsPublished
PROPERTIES
  FinalOffsetsStay
  ScanEnds
