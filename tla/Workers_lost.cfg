SPECIFICATION Spec
CONSTANTS
  NumWorkers = 2
  Rounds = 2
  Policies = {"RR"}
  Yields = {"RR"}
  Preemptible = {"create", "join", "destroy", "lock", "cs", "unlock", "yield", "exit",
     "lock_enqueue"}
  Levels = 2
  MAX_THREADS = 4
  MaxUsed = 2
  NULL = NULL
INVARIANT NobodyLost
