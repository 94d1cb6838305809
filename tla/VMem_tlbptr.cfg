SPECIFICATION Spec
CONSTANTS
  Threads = {t1, t2}
  t1 = t1
  t2 = t2
  NULL = NULL
  NumPhys = 6
  NumVirt = 4
  PTEntries = 2
  TLB_ENTRIES = 1
  ByteBits = 8
  MaxPages = 1
  MaxRounds = 1
  Starts = {"alloc"}
  Pinned = FALSE
INVARIANT ReadsOwnData
