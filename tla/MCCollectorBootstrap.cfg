\* Bootstrap publishes its bare node list over a complete one.
SPECIFICATION ScheduledSpec
CONSTANTS
  Collectors <- NodeCollectors
  Schedules <- NodeSchedules
  NodeIDs = {n1}
  Resolutions <- NodeProfiles
  NoResolution = NoResolution
  EnabledConditional <- NodeConditional
  Groups = {}
  Links = {}
  MaxRuns <- Twice
  Nobody = Nobody
  Absent = Absent
PROPERTIES CompleteNodesKept
