\* The readers of one cluster's cache.
SPECIFICATION FairSpec
CONSTANTS
  Clusters = {"a"}
  Collectors <- AllCollectors
  StaleTolerance = 1
  MaxStale = 2
  Resolutions <- SomeResolutions
CONSTRAINT OneGroup
INVARIANTS
  ReadyIsCurrent
  ExposedIsCurrent
  IInv
PROPERTIES
  OutageIsReported
