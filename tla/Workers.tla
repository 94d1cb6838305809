------------------------------ MODULE Workers ------------------------------
(***************************************************************************)
(* The user-level thread library of project2-release: thread-worker.c.     *)
(* All threads share one processor.  The thread on it runs its program and *)
(* the library calls in it, until it gives the processor up in a library   *)
(* call or the profiling timer fires; then schedule() runs, on its own     *)
(* stack and always from its first line, and resumes some thread.          *)
(*                                                                         *)
(* The program is the one of the benchmarks: main creates the workers,     *)
(* joins them in order and destroys the mutex; each worker locks a mutex,  *)
(* works, unlocks it, perhaps yields, and finally exits.                   *)
(*                                                                         *)
(* A thread's saved context is its pc.  The library does not block SIGPROF *)
(* in its own calls, so a tick can land between any two statements.  Calls *)
(* are split where the scheduler or another thread can tell the difference *)
(* (a tick inside enqueue itself is the subject of RunQueue).  Preemptible *)
(* says at which program points ticks land.                                *)
(***************************************************************************)
EXTENDS Integers, Sequences, FiniteSets

CONSTANTS
  NumWorkers,   \* threads created by main (ids 1, 2, ...; main is 0)
  Rounds,       \* critical sections per worker
  Policies,     \* the schedulers it may have been compiled with
  Yields,       \* those under which workers call worker_yield between rounds
  Preemptible,  \* program points at which a timer tick may land
  Levels,       \* MAX_MLFQ_LEVELS
  MAX_THREADS,  \* size of thread_table
  MaxUsed,      \* bound: elapsed_quanta, time_used or vruntime of a thread
  NULL

ASSUME WorkersAssumption ==
  /\ NumWorkers \in Nat \ {0} /\ Rounds \in Nat \ {0}
  /\ Policies \subseteq {"RR", "PSJF", "MLFQ", "CFS"}
  /\ Levels \in Nat \ {0} /\ MAX_THREADS \in Nat /\ MaxUsed \in Nat
  /\ NULL \notin Nat

Workers == 1 .. NumWorkers
Threads == 0 .. NumWorkers
Main == 0

VARIABLES
  policy,   \* the scheduler compiled in; it never changes
  cpu,      \* what the processor runs: "thread", a point of schedule(), or the end
  running,  \* running_tcb, the thread on the processor when cpu = "thread"
  state,    \* thread_state of every TCB; "none" and "freed" when there is none
  pc,       \* the saved or current context of every thread
  iter,     \* rounds a worker has done; workers main has created or joined
  ready,    \* the scheduler's queues, by level; other policies use level 0
  used,     \* elapsed_quanta (PSJF), time_used (MLFQ), vruntime (CFS)
  priority, \* MLFQ level of a TCB
  table,    \* thread_table
  count,    \* thread_count
  joined,   \* workers whose joined flag is set
  waiting,  \* waiting_thread of every TCB
  locked,   \* mutex->locked
  owner,    \* mutex->owner_tcb
  waitq     \* mutex->wait_queue

schedvars == <<ready, used, priority>>
tablevars == <<table, count>>
joinvars == <<joined, waiting>>
mutexvars == <<locked, owner, waitq>>
vars == <<policy, cpu, running, state, pc, iter, schedvars, tablevars, joinvars, mutexvars>>

States == {"none", "READY", "RUNNING", "BLOCKED", "TERMINATED", "freed"}

\* Program points at which a thread is in its own code, about to call.
UserPoints == {"create", "join", "destroy", "lock", "cs", "unlock", "yield", "exit"}

\* Program points inside library calls.
LibPoints == {"create_add", "join_block", "join_wait", "join_swap",
              "join_cleanup", "lock_block", "lock_enqueue", "lock_swap",
              "lock_own", "unlock_clear", "unlock_wake", "yield_swap",
              "exit_wake", "exit_swap"}

\* schedule() before block_timer_signal and after unblock_timer_signal.
SchedPoints == {"sched_in", "sched_out"}

\* How a run can end other than by main returning: the fallback to main's
\* stale context, a scheduler spinning with the timer blocked, an empty heap
\* popped, a NULL running_tcb dereferenced, a clobbered context resumed.
DeadEnds == {"stale_main", "spin", "underflow", "segv"}

-----------------------------------------------------------------------------
OnCpu(t) == cpu = "thread" /\ running = t
Goto(t, l) == pc' = [pc EXCEPT ![t] = l]
SetState(t, s) == state' = [state EXCEPT ![t] = s]

\* add_to_scheduler
add_to_scheduler(t, q) ==
  LET l == IF policy = "MLFQ" THEN priority[t] ELSE 0
  IN [q EXCEPT ![l] = Append(@, t)]

\* Mutation: the thread is made ready and put nowhere.
MakeReady_lost(t) == SetState(t, "READY") /\ UNCHANGED ready

\* A thread that waited is handed to the scheduler.
MakeReady(t) == SetState(t, "READY") /\ ready' = add_to_scheduler(t, ready)

RemoveNth(s, i) == SubSeq(s, 1, i - 1) \o SubSeq(s, i + 1, Len(s))

\* psjf_cmp and cfs_cmp: by time used, then by id.
Before(a, b) == used[a] < used[b] \/ (used[a] = used[b] /\ a < b)

\* Where the policy finds the next thread: a level and a position in it.
\* The queues are read at the head; heap_pop returns the least.
Picks(q, l, i) ==
  /\ i \in 1 .. Len(q[l])
  /\ CASE policy = "RR" -> l = 0 /\ i = 1
       [] policy = "MLFQ" -> i = 1 /\ \A k \in 0 .. l - 1 : q[k] = <<>>
       [] OTHER -> l = 0 /\ \A j \in 1 .. Len(q[0]) :
                               i = j \/ q[0][i] = q[0][j] \/ Before(q[0][i], q[0][j])

Nothing(q) == \A l \in 0 .. Levels - 1 : q[l] = <<>>

has_blocked_threads == \E t \in table : state[t] = "BLOCKED"

\* What the scheduling function does when no thread is ready.
DeadEnd ==
  CASE policy \in {"PSJF", "CFS"} -> "underflow"
    [] policy = "RR" -> IF count <= 1 \/ has_blocked_threads
                        THEN "stale_main" ELSE "spin"
    [] policy = "MLFQ" -> IF count <= 1 \/ ~has_blocked_threads
                          THEN "stale_main" ELSE "spin"

-----------------------------------------------------------------------------
(***************************************************************************)
(* The timer and the scheduler                                             *)
(***************************************************************************)
\* timer_handler while a thread runs: swapcontext to the scheduler.
Tick(t) ==
  /\ OnCpu(t)
  /\ pc[t] \in Preemptible
  /\ policy = "PSJF" => used[t] < MaxUsed
  /\ cpu' = "sched_in"
  /\ UNCHANGED <<running, state, pc, iter, schedvars, tablevars, joinvars, mutexvars>>

\* timer_handler while schedule() has the timer unblocked: swapcontext saves
\* the scheduler's own context over the one of the current thread.
TickInScheduler ==
  /\ cpu \in SchedPoints \cap Preemptible
  /\ running # NULL
  /\ Goto(running, "clobbered")
  /\ cpu' = "sched_in"
  /\ UNCHANGED <<running, state, iter, schedvars, tablevars, joinvars, mutexvars>>

\* The time a preempted thread is charged: a quantum, or the time it ran.
\* (No decision of the code depends on time_used, so it stops at the bound;
\* at the bound CFS charges less than one unit of time.)
Charge(r) ==
  \/ policy = "PSJF" /\ used' = [used EXCEPT ![r] = @ + 1]
  \/ policy = "MLFQ" /\ used' = [used EXCEPT ![r] = IF @ < MaxUsed THEN @ + 1 ELSE @]
  \/ policy = "CFS" /\ \E d \in 0 .. 1 :
                          used[r] + d <= MaxUsed /\ used' = [used EXCEPT ![r] = @ + d]
  \/ policy = "RR" /\ UNCHANGED used

\* promote_all_threads, every S_PERIOD ticks: it takes the threads of a lower
\* level off its queue and puts them back there, until the queue is empty.
promote_all_threads ==
  IF \A l \in 1 .. Levels - 1 : ready[l] = <<>> THEN "sched_pick" ELSE "spin"

\* schedule() up to the scheduling function (the count of ticks is left out: any
\* tick may end the period), and the part of sched_mlfq that
\* puts the last thread back.  An MLFQ build queues a preempted thread there
\* (so the branch for a RUNNING thread, which demotes, is never taken) and
\* queues a thread that yielded both in schedule() and in sched_mlfq.
schedule ==
  /\ cpu = "sched_in"
  /\ \/ /\ running # NULL /\ state[running] = "RUNNING"
        /\ SetState(running, "READY")
        /\ Charge(running)
        /\ ready' = add_to_scheduler(running, ready)
        /\ cpu' \in {"sched_pick"} \cup (IF policy = "MLFQ" THEN {promote_all_threads} ELSE {})
        /\ UNCHANGED running
     \/ /\ running # NULL /\ state[running] = "READY"
        /\ used' = IF policy = "MLFQ" THEN [used EXCEPT ![running] = 0] ELSE used
        /\ ready' = IF policy = "MLFQ"
                    THEN add_to_scheduler(running, add_to_scheduler(running, ready))
                    ELSE add_to_scheduler(running, ready)
        /\ cpu' = "sched_pick"
        /\ UNCHANGED <<running, state>>
     \/ /\ running # NULL => state[running] \in {"BLOCKED", "TERMINATED"}
        /\ running' = IF running # NULL /\ state[running] = "TERMINATED"
                      THEN NULL ELSE running
        /\ cpu' = "sched_pick"
        /\ UNCHANGED <<state, used, ready>>
  /\ UNCHANGED <<pc, iter, priority, tablevars, joinvars, mutexvars>>

\* sched_cfs computes the time slice of running_tcb before it pops the heap.
NullSlice == policy = "CFS" /\ running = NULL

\* The scheduling function runs the next thread and unblocks the timer.  The
\* memory of a freed TCB may still hold it, or anything else.
RunNext ==
  /\ cpu = "sched_pick" /\ ~NullSlice
  /\ \E l \in 0 .. Levels - 1 : \E i \in 1 .. Len(ready[l]) :
       /\ Picks(ready, l, i)
       /\ running' = ready[l][i]
       /\ SetState(ready[l][i], "RUNNING")
       /\ ready' = [ready EXCEPT ![l] = RemoveNth(@, i)]
       /\ cpu' \in IF state[ready[l][i]] = "freed" THEN {"sched_out", "segv"}
                                                 ELSE {"sched_out"}
  /\ UNCHANGED <<pc, iter, used, priority, tablevars, joinvars, mutexvars>>

\* It finds nobody, or crashes.
RunNobody ==
  /\ cpu = "sched_pick"
  /\ \/ NullSlice /\ cpu' = "segv"
     \/ ~NullSlice /\ Nothing(ready) /\ cpu' = DeadEnd
  /\ UNCHANGED <<running, state, pc, iter, schedvars, tablevars, joinvars, mutexvars>>

\* setcontext(&running_tcb->context).  A context saved by a tick inside
\* schedule() is a frame of the scheduler's stack, since overwritten: it runs
\* schedule() on, or crashes.
Resume ==
  /\ cpu = "sched_out"
  /\ IF pc[running] = "clobbered"
     THEN cpu' \in {"sched_in", "sched_out", "segv"}
     ELSE cpu' = "thread"
  /\ UNCHANGED <<running, state, pc, iter, schedvars, tablevars, joinvars, mutexvars>>

\* A thread gives up the processor and will continue at l.
swapcontext(t, l) == cpu' = "sched_in" /\ Goto(t, l)

-----------------------------------------------------------------------------
(***************************************************************************)
(* main: worker_create, worker_join, worker_mutex_destroy                  *)
(***************************************************************************)
\* The next worker main deals with.
Next1 == iter[Main] + 1
MainNext(last, l) == /\ iter' = [iter EXCEPT ![Main] = IF last THEN 0 ELSE @ + 1]
                     /\ Goto(Main, l)

\* worker_create: the TCB and its entry in thread_table; thread_count is
\* incremented here and in add_thread_to_table, whose failure is ignored.
Create ==
  /\ OnCpu(Main) /\ pc[Main] = "create"
  /\ SetState(Next1, "READY")
  /\ \/ /\ Cardinality(table) < MAX_THREADS
        /\ table' = table \cup {Next1}
        /\ count' = count + 2
     \/ /\ Cardinality(table) >= MAX_THREADS
        /\ count' = count + 1
        /\ UNCHANGED table
  /\ Goto(Main, "create_add")
  /\ UNCHANGED <<cpu, running, iter, schedvars, joinvars, mutexvars>>

CreateAdd ==
  /\ OnCpu(Main) /\ pc[Main] = "create_add"
  /\ ready' = add_to_scheduler(Next1, ready)
  /\ IF Next1 = NumWorkers THEN MainNext(TRUE, "join") ELSE MainNext(FALSE, "create")
  /\ UNCHANGED <<cpu, running, state, used, priority, tablevars, joinvars, mutexvars>>

\* main goes on to the next worker, or past the last.
Joined(w) == IF w = NumWorkers THEN MainNext(TRUE, "destroy") ELSE MainNext(FALSE, "join")

\* cleanup_thread, and worker_join returns.
Cleanup(w) ==
  /\ SetState(w, "freed")
  /\ table' = table \ {w}
  /\ count' = count - 1
  /\ Joined(w)

\* worker_join of a thread that is not in the table fails.
JoinFails ==
  /\ OnCpu(Main) /\ pc[Main] = "join"
  /\ Next1 \notin table
  /\ Joined(Next1)
  /\ UNCHANGED <<cpu, running, state, schedvars, tablevars, joinvars, mutexvars>>

\* Mutation: whether the target has terminated is not looked at.
Terminated_any(w) == TRUE

Terminated(w) == state[w] = "TERMINATED"

\* Mutation: the target is recorded as its own waiter.
waiting_thread_self == Next1

\* What worker_join stores in the target: the caller.
waiting_thread == running

\* worker_join up to the test whether the target has terminated.
Join ==
  /\ OnCpu(Main) /\ pc[Main] = "join"
  /\ Next1 \in table /\ Next1 \notin joined
  /\ joined' = joined \cup {Next1}
  /\ \/ /\ Terminated(Next1)
        /\ Cleanup(Next1)
     \/ /\ ~Terminated(Next1)
        /\ Goto(Main, "join_block")
        /\ UNCHANGED <<state, table, count, iter>>
  /\ UNCHANGED <<cpu, running, schedvars, waiting, mutexvars>>

JoinBlock ==
  /\ OnCpu(Main) /\ pc[Main] = "join_block"
  /\ SetState(Main, "BLOCKED")
  /\ Goto(Main, "join_wait")
  /\ UNCHANGED <<cpu, running, iter, schedvars, tablevars, joinvars, mutexvars>>

JoinWait ==
  /\ OnCpu(Main) /\ pc[Main] = "join_wait"
  /\ waiting' = [waiting EXCEPT ![Next1] = waiting_thread]
  /\ Goto(Main, "join_swap")
  /\ UNCHANGED <<cpu, running, state, iter, schedvars, tablevars, joined, mutexvars>>

JoinSwap ==
  /\ OnCpu(Main) /\ pc[Main] = "join_swap"
  /\ swapcontext(Main, "join_cleanup")
  /\ UNCHANGED <<running, state, iter, schedvars, tablevars, joinvars, mutexvars>>

\* The target is taken to have terminated, whoever woke main.
JoinCleanup ==
  /\ OnCpu(Main) /\ pc[Main] = "join_cleanup"
  /\ Cleanup(Next1)
  /\ UNCHANGED <<cpu, running, schedvars, joinvars, mutexvars>>

\* worker_mutex_destroy, and main returns: the process ends.
Destroy ==
  /\ OnCpu(Main) /\ pc[Main] = "destroy"
  /\ Goto(Main, IF locked \/ waitq # <<>> THEN "destroy_failed" ELSE "end")
  /\ cpu' = "exited"
  /\ UNCHANGED <<running, state, iter, schedvars, tablevars, joinvars, mutexvars>>

-----------------------------------------------------------------------------
(***************************************************************************)
(* Workers: mutex, yield, exit                                             *)
(***************************************************************************)
\* Mutation: the old value of the flag is ignored.
Taken_never == FALSE

\* What atomic_flag_test_and_set returns.
Taken == locked

\* worker_mutex_lock: test-and-set.
Lock(t) ==
  /\ OnCpu(t) /\ pc[t] = "lock"
  /\ locked' = TRUE
  /\ Goto(t, IF Taken THEN "lock_block" ELSE "lock_own")
  /\ UNCHANGED <<cpu, running, state, iter, schedvars, tablevars, joinvars, owner, waitq>>

LockBlock(t) ==
  /\ OnCpu(t) /\ pc[t] = "lock_block"
  /\ SetState(t, "BLOCKED")
  /\ Goto(t, IF state[t] # "BLOCKED" THEN "lock_enqueue" ELSE "lock_swap")
  /\ UNCHANGED <<cpu, running, iter, schedvars, tablevars, joinvars, mutexvars>>

LockEnqueue(t) ==
  /\ OnCpu(t) /\ pc[t] = "lock_enqueue"
  /\ waitq' = Append(waitq, t)
  /\ Goto(t, "lock_swap")
  /\ UNCHANGED <<cpu, running, state, iter, schedvars, tablevars, joinvars, locked, owner>>

LockSwap(t) ==
  /\ OnCpu(t) /\ pc[t] = "lock_swap"
  /\ swapcontext(t, "lock")
  /\ UNCHANGED <<running, state, iter, schedvars, tablevars, joinvars, mutexvars>>

LockOwn(t) ==
  /\ OnCpu(t) /\ pc[t] = "lock_own"
  /\ owner' = t
  /\ Goto(t, "cs")
  /\ UNCHANGED <<cpu, running, state, iter, schedvars, tablevars, joinvars, locked, waitq>>

CriticalSection(t) ==
  /\ OnCpu(t) /\ pc[t] = "cs"
  /\ Goto(t, "unlock")
  /\ UNCHANGED <<cpu, running, state, iter, schedvars, tablevars, joinvars, mutexvars>>

\* The program after its critical section.
AfterUnlock(t) ==
  /\ iter' = [iter EXCEPT ![t] = @ + 1]
  /\ Goto(t, IF iter[t] + 1 = Rounds THEN "exit" ELSE IF policy \in Yields THEN "yield" ELSE "lock")

\* worker_mutex_unlock: only the owner gets past the first test.
Unlock(t) ==
  /\ OnCpu(t) /\ pc[t] = "unlock"
  /\ \/ /\ owner = t
        /\ owner' = NULL
        /\ Goto(t, "unlock_clear")
        /\ UNCHANGED iter
     \/ /\ owner # t
        /\ AfterUnlock(t)
        /\ UNCHANGED owner
  /\ UNCHANGED <<cpu, running, state, schedvars, tablevars, joinvars, locked, waitq>>

UnlockClear(t) ==
  /\ OnCpu(t) /\ pc[t] = "unlock_clear"
  /\ locked' = FALSE
  /\ Goto(t, "unlock_wake")
  /\ UNCHANGED <<cpu, running, state, iter, schedvars, tablevars, joinvars, owner, waitq>>

\* Mutation: nobody is woken.
Wakes_nobody == FALSE

\* Somebody waits for the mutex.
Wakes == waitq # <<>>

\* One waiter becomes ready and will compete for the mutex.
UnlockWake(t) ==
  /\ OnCpu(t) /\ pc[t] = "unlock_wake"
  /\ \/ /\ Wakes
        /\ MakeReady(Head(waitq))
        /\ waitq' = Tail(waitq)
     \/ /\ ~Wakes
        /\ UNCHANGED <<state, ready, waitq>>
  /\ AfterUnlock(t)
  /\ UNCHANGED <<cpu, running, used, priority, tablevars, joinvars, locked, owner>>

\* worker_yield
Yield(t) ==
  /\ OnCpu(t) /\ pc[t] = "yield"
  /\ SetState(t, "READY")
  /\ Goto(t, "yield_swap")
  /\ UNCHANGED <<cpu, running, iter, schedvars, tablevars, joinvars, mutexvars>>

YieldSwap(t) ==
  /\ OnCpu(t) /\ pc[t] = "yield_swap"
  /\ swapcontext(t, "lock")
  /\ UNCHANGED <<running, state, iter, schedvars, tablevars, joinvars, mutexvars>>

\* worker_exit
Exit(t) ==
  /\ OnCpu(t) /\ pc[t] = "exit"
  /\ SetState(t, "TERMINATED")
  /\ count' = count - 1
  /\ Goto(t, "exit_wake")
  /\ UNCHANGED <<cpu, running, iter, schedvars, table, joinvars, mutexvars>>

\* Mutation: the thread that joins is not woken.
HasJoiner_not(t) == FALSE

\* A thread waits in worker_join for t.
HasJoiner(t) == waiting[t] # NULL

ExitWake(t) ==
  /\ OnCpu(t) /\ pc[t] = "exit_wake"
  /\ \/ /\ HasJoiner(t)
        /\ MakeReady(waiting[t])
        /\ waiting' = [waiting EXCEPT ![t] = NULL]
     \/ /\ ~HasJoiner(t)
        /\ UNCHANGED <<state, ready, waiting>>
  /\ Goto(t, "exit_swap")
  /\ UNCHANGED <<cpu, running, iter, used, priority, tablevars, joined, mutexvars>>

ExitSwap(t) ==
  /\ OnCpu(t) /\ pc[t] = "exit_swap"
  /\ swapcontext(t, "gone")
  /\ UNCHANGED <<running, state, iter, schedvars, tablevars, joinvars, mutexvars>>

\* A thread resumed after its exit: worker_start returns into uc_link.
Return(t) ==
  /\ OnCpu(t) /\ pc[t] = "gone"
  /\ cpu' = "sched_in"
  /\ UNCHANGED <<running, state, pc, iter, schedvars, tablevars, joinvars, mutexvars>>

-----------------------------------------------------------------------------
MainStep ==
  \/ Create \/ CreateAdd \/ Join \/ JoinFails \/ JoinBlock \/ JoinWait \/ JoinSwap
  \/ JoinCleanup \/ Destroy

WorkerStep(t) ==
  \/ Lock(t) \/ LockBlock(t) \/ LockEnqueue(t) \/ LockSwap(t) \/ LockOwn(t)
  \/ CriticalSection(t) \/ Unlock(t) \/ UnlockClear(t) \/ UnlockWake(t)
  \/ Yield(t) \/ YieldSwap(t) \/ Exit(t) \/ ExitWake(t) \/ ExitSwap(t)
  \/ Return(t)

Scheduler == schedule \/ RunNext \/ RunNobody \/ Resume

\* The process has ended, or can do nothing any more.
Halted == cpu \in DeadEnds \cup {"exited"} /\ UNCHANGED vars

\* After worker_mutex_init and init_main_thread.  Fields of a TCB that the
\* code leaves uninitialised are 0 or NULL, what fresh memory holds.
Init ==
  /\ policy \in Policies
  /\ cpu = "thread"
  /\ running = Main
  /\ state = [t \in Threads |-> IF t = Main THEN "RUNNING" ELSE "none"]
  /\ pc = [t \in Threads |-> IF t = Main THEN "create" ELSE "lock"]
  /\ iter = [t \in Threads |-> 0]
  /\ ready = [l \in 0 .. Levels - 1 |-> <<>>]
  /\ used = [t \in Threads |-> 0]
  /\ priority = [t \in Threads |-> 0]
  /\ table = {} /\ count = 0
  /\ joined = {} /\ waiting = [t \in Threads |-> NULL]
  /\ locked = FALSE /\ owner = NULL /\ waitq = <<>>

Next ==
  /\ \/ MainStep
     \/ \E t \in Workers : WorkerStep(t)
     \/ Scheduler
     \/ \E t \in Threads : Tick(t)
     \/ TickInScheduler
     \/ Halted
  /\ UNCHANGED policy

Spec == Init /\ [][Next]_vars

\* A quantum is long enough for the thread it is given to to get somewhere,
\* time and again; the scheduler runs to its end.
FairSpec ==
  /\ Spec
  /\ WF_vars(Scheduler /\ UNCHANGED policy)
  /\ SF_vars(MainStep /\ UNCHANGED policy)
  /\ \A t \in Workers : SF_vars(WorkerStep(t) /\ UNCHANGED policy)

-----------------------------------------------------------------------------
(***************************************************************************)
(* Properties                                                              *)
(***************************************************************************)
PCs == UserPoints \cup LibPoints
         \cup {"clobbered", "gone", "end", "destroy_failed"}

\* Every variable has its type.
TypeOK ==
  /\ policy \in Policies
  /\ cpu \in {"thread"} \cup SchedPoints \cup DeadEnds \cup {"sched_pick", "exited"}
  /\ running \in Threads \cup {NULL}
  /\ state \in [Threads -> States]
  /\ pc \in [Threads -> PCs]
  /\ iter \in [Threads -> Nat]
  /\ \A l \in 0 .. Levels - 1 : ready[l] \in Seq(Threads)
  /\ used \in [Threads -> Nat]
  /\ priority \in [Threads -> 0 .. Levels - 1]
  /\ table \subseteq Workers /\ count \in Int
  /\ joined \subseteq Workers /\ waiting \in [Threads -> {Main, NULL}]
  /\ locked \in BOOLEAN /\ owner \in Threads \cup {NULL}
  /\ waitq \in Seq(Threads)

\* From the successful test-and-set to the clearing of the flag.
HoldsMutex(t) == pc[t] \in {"lock_own", "cs", "unlock", "unlock_clear"}

\* At most one thread is between worker_mutex_lock's test-and-set and
\* worker_mutex_unlock's clear, wherever timer ticks land and whatever the
\* scheduler makes of them; and in its critical section that thread is the
\* recorded owner, so that worker_mutex_unlock does not refuse it.
MutualExclusion ==
  /\ \A t, u \in Threads : HoldsMutex(t) /\ HoldsMutex(u) => t = u
  /\ \A t \in Threads : pc[t] \in {"cs", "unlock"} => owner = t

\* How often t stands in the scheduler's queues.
InReady(t) ==
  UNION {{<<l, i>> : i \in {j \in 1 .. Len(ready[l]) : ready[l][j] = t}} :
           l \in 0 .. Levels - 1}
InWait(t) == {i \in 1 .. Len(waitq) : waitq[i] = t}

\* A thread that is not on the processor is where somebody will find it: one
\* blocked in worker_mutex_lock or worker_join is listed with whoever will wake
\* it, a ready one stands in the scheduler's queues, and nobody is in two
\* places or in one place twice.
NobodyLost ==
  \A t \in Threads :
    /\ state[t] = "READY" /\ t # running /\ ~(t = Next1 /\ pc[Main] = "create_add") =>
         InReady(t) # {} /\ InWait(t) = {}
    /\ state[t] = "BLOCKED" /\ ~OnCpu(t) =>
         \/ InWait(t) # {}
         \/ \E w \in Workers : waiting[w] = t /\ state[w] # "freed"
    /\ \A p, q \in InReady(t) : p = q
    /\ \A i, j \in InWait(t) : i = j

\* Nothing the scheduler or the mutex may still resume has been freed by
\* worker_join's cleanup_thread, and only terminated threads are freed.
NoUseAfterFree ==
  \A w \in Workers : state[w] = "freed" =>
    /\ InReady(w) = {} /\ InWait(w) = {} /\ running # w
    /\ pc[w] = "gone"

\* When threads wait for the mutex and nobody holds it, a thread that will
\* take it and wake the next one is on its way.
NoLostWakeup ==
  waitq # <<>> /\ ~locked /\ cpu \notin DeadEnds =>
    \E t \in Workers :
      \/ pc[t] = "unlock_wake" /\ state[t] \in {"READY", "RUNNING"}
      \/ pc[t] = "lock" /\ state[t] \in {"READY", "RUNNING"}

\* When main returns, every worker has finished: worker_join waited for it.
JoinWaits ==
  cpu = "exited" => \A w \in Workers : iter[w] = Rounds /\ pc[w] = "gone"

\* main joins all workers and finds the mutex destroyable.
AllJoined == <>(pc[Main] = "end")
=============================================================================
