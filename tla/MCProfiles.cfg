SPECIFICATION FairSpec
CONSTANTS
  Nodes = {"a", "b"}
  MaxVersion = 3
  Directories <- SomeDirectories
  EnabledConditional = {"vdc_performance"}
  NoResolution = NoResolution
INVARIANTS
  IInv
  MatchIsUnique
  OnlySharedEnabled
  ResolutionIsMeet
PROPERTIES
  ResolutionFollows
