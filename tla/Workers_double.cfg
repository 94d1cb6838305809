SPECIFICATION Spec
CONSTANTS
  NumWorkers = 2
  Rounds = 2
  Policies = {"MLFQ"}
  Yields = {"MLFQ"}
  Preemptible = {"create", "join", "destroy", "lock", "cs", "unlock", "yield", "exit"}
  Levels = 2
  MAX_THREADS = 4
  MaxUsed = 2
  NULL = NULL
INVARIANT NoUseAfterFree
