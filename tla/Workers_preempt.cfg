SPECIFICATION Spec
CONSTANTS
  NumWorkers = 2
  Rounds = 2
  Policies = {"MLFQ", "CFS"}
  Yields = {"MLFQ", "CFS"}
  Preemptible = {"create", "join", "destroy", "lock", "cs", "unlock", "yield", "exit",
     "create_add", "join_block", "join_wait", "join_swap", "join_cleanup",
     "lock_block", "lock_enqueue", "lock_swap", "lock_own", "unlock_clear",
     "unlock_wake", "yield_swap", "exit_wake", "exit_swap",
     "sched_in", "sched_out"}
  Levels = 2
  MAX_THREADS = 1
  MaxUsed = 1
  NULL = NULL
INVARIANT TypeOK
INVARIANT MutualExclusion
