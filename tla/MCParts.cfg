SPECIFICATION PartsSpec
CONSTANTS
  NumVirt = 8
  MaxPages = 4
  HeapIds = {1, 2, 3, 4, 5}
  HeapValues = {0, 7, 8}
  INT_MAX = 7
  MAX_THREADS = 5
  QueueWorkers = 2
  TickPoints = {"user", "test", "link_head"}
  BlockBytes = 2
  FilePtrs = 3
  FileBlocks = 2
  WriteMax = 3
  Written = {1, 2}
  StartVpn = 1021
  VpnLimit = 1027
  RegionPages = 3
  Requests <- SomeRequests
  PageSize = 4
  NumPages = 5
  MaxSize = 13
  MatSizes = {1, 2}
  MatValues = {1, 3}
  WordMod = 4
  Callers = {0, 1, 2, 3}
  MainCaller = 0
  Starts = {TRUE, FALSE}
  NumFrames = 6
  Loop = 3
  NULL = NULL
INVARIANT FindsFirstFit
INVARIANT EveryoneInLine
INVARIANT ReadsBack
INVARIANT CopiesExactly
INVARIANT BackedByOwnFrame
INVARIANT SetupOnce
INVARIANT BitsAreASet
INVARIANT ComputesProduct
INVARIANT CountsEveryTurn
INVARIANT RunsOnceOnItsStack
PROPERTY PopsTheLeast
PROPERTY RefinesFIFO
PROPERTY EveryCallerServed
