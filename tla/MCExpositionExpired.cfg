\* The status that MergeRecovery brings before the first replication run.
SPECIFICATION Spec
CONSTANTS
  Clusters = {"a"}
  Collectors <- ReplicationCollectors
  StaleTolerance = 1
  MaxStale = 2
  Resolutions <- OwnResolutions
CONSTRAINT QuietStart
INVARIANTS
  NothingExpiredIsExposed
