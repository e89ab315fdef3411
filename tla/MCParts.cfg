\* The parts that share no state: Flux resources, Flux performance, limiter, backoff, inventory.
SPECIFICATION PartsSpec
CONSTANTS
  Nodes = {"n1", "n2"}
  Interfaces = {"bond0", "eth0", "eth1", "ib0", "lo"}
  Rows <- NodeRows
  Enabled <- AllEnabled
  Filesystems = {"/data", "/var"}
  NetworkInterfaces = {"bond0", "eth0", "eth1", "ib0"}
  MaxNetworkInterfaces = 2
  PreferBondInterfaces = TRUE
  Bonds = {"bond0"}
  Members = {"eth0", "eth1"}
  MaxStray = 1
  Nil = Nil
\* FluxPerformance
  LabelRows <- AllLabelRows
  VDCs = {"vdc1"}
  VDCEnabled = TRUE
  NamespaceEnabled = TRUE
  MaxRows = 3
\* Three callers, two requests at once and two more in five ticks: a caller may have to
\* sleep for one tick or for two.
  Callers = {"c1", "c2", "c3"}
  Unit = 5
  Rate = 2
  Burst = 2
  MaxTime = 6
\* A duration of five bits, and as many attempts as reach the end of it.
  MaxInt = 15
  MaxAttempt = 5
\* Pages of one or two items, page numbers beyond the end, one of them so large that page
\* times size wraps around, and one beyond the limit.
  Items <- StoredItems
  MaxPageSize = 2
  DefaultSize = 3
  MaxPage = 8
  Filters <- FiltersAsked
  Sorts <- SortsAsked
  Sizes <- SizesAsked
  Pages = {0, 1, 2, 3, 8, 9}
  Unset = Unset
INVARIANTS
  PartsInv ValuesAreReported UsedWithinTotal InterfacesWithinPolicy SeriesAreUnique RowsAreReported
  RateIsBounded NobodySleepsForNothing PauseIsRight PagesAreComplete OrderIsDetermined SlicesAreInBounds
\* A run, a pause and a limiter's bounded time end.
CHECK_DEADLOCK FALSE
