\* The node list: Bootstrap, CollectNodes and CollectNodeResources interleaved.
SPECIFICATION ScheduledSpec
CONSTANTS
  Collectors <- NodeCollectors
  Schedules <- NodeSchedules
  NodeIDs = {n1, n2}
  Resolutions <- NodeProfiles
  NoResolution = NoResolution
  EnabledConditional <- NodeConditional
  Groups = {}
  Links = {}
  MaxRuns <- Twice
  Nobody = Nobody
  Absent = Absent
INVARIANTS SuccessIsPublication IInv
PROPERTIES NoLostNodeUpdate BootstrapRunsOnce ImplementsCache
SYMMETRY NodeSymmetry
