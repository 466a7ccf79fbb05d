SPECIFICATION MachinesSpec
CONSTANTS
  \* RepeatedJobs
  JobIds = {"a", "b", "c"}
  NoJob = "none"
  Intervals = {1, 2, 4}
  MinInterval = 2
  Second = 3
  MaxTime = 5
  \* NetworkLayer
  Conns = {1, 2}
  Fds = {1, 2, 3}
  Other = 9
  Free = 0
  MaxSend = 1
  MaxOther = 2
  \* Reception
  MaxMessage = 3
  PartCounts = {1, 2, 3}
  Units = {3}
  MaxChunkCount = 2
  Width = 16
  Window = 3
  FirstNumber = 14
  MaxInFlight = 4
  MaxRenew = 1
  MaxLoss = 1
  \* NodeStore
  GivenIds = {101, 102}
  Hash <- HashOf
  Primes <- SizesOfTable
  MinSize = 6
  KeepSize = 6
  MaxInsert = 7
  \* Browsing
  Views <- BrowsedViews
  MaxPoints = 1
  NoNode = "none"
  TypeHierarchy <- HierarchyOf
INVARIANTS
  TypesOK
  Punctual
  WholeMessages
  NothingLeft
  FreedLast
  Bootstrapped
  ViewsAgree
  WalkComplete
  RoundTrip
  SameInChunks
  AsAMap
\* everything that is bounded may be used up
CHECK_DEADLOCK FALSE
