SPECIFICATION FairSpec
CONSTANTS
  Threads = {t1, t2}
  t1 = t1
  t2 = t2
  NULL = NULL
  NumPhys = 5
  NumVirt = 4
  PTEntries = 2
  TLB_ENTRIES = 2
  ByteBits = 8
  MaxPages = 2
  MaxRounds = 1
  Starts = {"any", "alloc"}
  Pinned = FALSE
INVARIANT TypeOK
INVARIANT VirtExclusive
INVARIANT TLBUnique
PROPERTY RefinesOwnership
PROPERTY CallsReturn
