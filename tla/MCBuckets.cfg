SPECIFICATION FairSpec
CONSTANTS
  Namespaces = {"n1", "n2"}
  Names = {"x", "y"}
  Markers = {"m1", "m2"}
  PageSize = 2
  MaxPages = 3
  MaxConcurrent = 3
INVARIANTS
  PublishedIsWhole
  PublishedOnce
  IInv
PROPERTIES
  CollectReturns
