\* ReplaceReplications and MergeRecovery on one list, runs that end.
SPECIFICATION ScheduledFairSpec
CONSTANTS
  Collectors <- ListCollectors
  Schedules <- ListSchedules
  NodeIDs = {n1}
  Resolutions <- BothProfiles
  NoResolution = NoResolution
  EnabledConditional <- RecoveryEnabled
  Groups = {g1}
  Links = {l1}
  MaxRuns <- ReplicationTwice
  Nobody = Nobody
  Absent = Absent
INVARIANTS ReplicationProvenance
PROPERTIES ImplementsCache RunsEnd ShutdownCompletes
