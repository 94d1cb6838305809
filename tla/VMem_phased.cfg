SPECIFICATION Spec
CONSTANTS
  Threads = {t1, t2}
  t1 = t1
  t2 = t2
  NULL = NULL
  NumPhys = 7
  NumVirt = 4
  PTEntries = 2
  TLB_ENTRIES = 4
  ByteBits = 8
  MaxPages = 2
  MaxRounds = 2
  Starts = {"alloc"}
  Pinned = FALSE
SYMMETRY Symmetry
INVARIANT ReadsOwnData
INVARIANT NothingLeaks
