SPECIFICATION FairSpec
CONSTANTS
  NumWorkers = 3
  Rounds = 2
  Policies = {"RR", "PSJF", "MLFQ"}
  Yields = {"RR", "PSJF"}
  Preemptible = {"create", "join", "destroy", "lock", "cs", "unlock", "yield", "exit",
     "create_add", "unlock_wake"}
  Levels = 2
  MAX_THREADS = 4
  MaxUsed = 1
  NULL = NULL
INVARIANT NobodyLost
INVARIANT NoUseAfterFree
INVARIANT NoLostWakeup
INVARIANT JoinWaits
PROPERTY AllJoined
