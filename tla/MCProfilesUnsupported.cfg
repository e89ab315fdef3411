SPECIFICATION Spec
CONSTANTS
  Nodes = {"a", "b"}
  MaxVersion = 4
  Directories <- OwnDirectory
  EnabledConditional = {"vdc_performance"}
  NoResolution = NoResolution
PROPERTIES
  UnsupportedStops
