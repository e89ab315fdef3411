SPECIFICATION Spec
CONSTANTS
  Clusters = {a, b}
  Collectors <- RequiredCollectors
  StaleTolerance = 1
  MaxStale = 1
  Resolutions <- OwnResolutions
SYMMETRY ClusterSymmetry
CONSTRAINT QuietStart
INVARIANTS
  UpMeansInitialized
