SPECIFICATION Spec
CONSTANTS
  Threads = {t1, t2}
  t1 = t1
  t2 = t2
  NULL = NULL
  NumPhys = 5
  NumVirt = 4
  PTEntries = 4
  TLB_ENTRIES = 2
  ByteBits = 8
  MaxPages = 2
  MaxRounds = 2
  Starts = {"any"}
  Pinned = TRUE
SYMMETRY Symmetry
INVARIANT FramesExclusive
INVARIANT TLBCoherent
