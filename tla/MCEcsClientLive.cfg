SPECIFICATION FairSpec
CONSTANTS
  Callers = {"a", "b", "c"}
  Nobody = "nobody"
  Slots = 2
  MaxAttempts = 2
  Threshold = 1
  OpenTicks = 1
  MaxTokens = 1
PROPERTIES
  CallsReturn
