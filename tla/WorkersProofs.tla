--------------------------- MODULE WorkersProofs ---------------------------
(***************************************************************************)
(* What the thread library guarantees, for any number of workers and       *)
(* rounds and every scheduling policy.  Mutual exclusion and the types     *)
(* hold wherever ticks land; that nobody is lost, freed too early or left  *)
(* waiting, and that main returns last, hold when no tick lands at a       *)
(* fragile point (SafeTicks).                                              *)
(***************************************************************************)
EXTENDS Workers, SequenceTheorems, FiniteSetTheorems, TLAPS

\* The flag is set as long as somebody is in, which is what makes a
\* successful test-and-set exclusive.
FlagSet == \A t \in Threads : HoldsMutex(t) => locked

\* The inductive invariant.
MutexInv == pc \in [Threads -> PCs] /\ FlagSet /\ MutualExclusion

\* A step that changes at most the context of threads that do not become
\* holders, and nothing of the mutex, keeps the invariant.
Outside ==
  /\ pc' \in [Threads -> PCs]
  /\ \A t \in Threads : pc'[t] = pc[t] \/ pc'[t] \notin {"lock_own", "cs", "unlock", "unlock_clear"}
  /\ UNCHANGED <<locked, owner>>

\* Holders of the mutex neither appear nor change in an Outside step.
LEMMA OutsideKeeps == MutexInv /\ Outside => MutexInv'
  BY DEF MutexInv, Outside, FlagSet, MutualExclusion, HoldsMutex

\* Initially main is in its own code and the workers have not started.
LEMMA MutexInit == Init => MutexInv
  BY WorkersAssumption DEF Init, MutexInv, FlagSet, MutualExclusion, HoldsMutex,
     PCs, UserPoints, LibPoints, Threads, Main

\* main never holds the mutex: its library calls leave the flag and the owner.
LEMMA MainOutside == MutexInv /\ MainStep => Outside
  <1> SUFFICES ASSUME MutexInv, MainStep PROVE Outside
    OBVIOUS
  <1> USE DEF MutexInv, Outside, PCs, UserPoints, LibPoints, Goto, mutexvars
  <1>1. CASE Create BY <1>1 DEF Create
  <1>2. CASE CreateAdd BY <1>2 DEF CreateAdd, MainNext
  <1>3. CASE Join BY <1>3 DEF Join, Cleanup, Joined, MainNext
  <1>4. CASE JoinFails BY <1>4 DEF JoinFails, Joined, MainNext
  <1>5. CASE JoinBlock BY <1>5 DEF JoinBlock
  <1>6. CASE JoinWait BY <1>6 DEF JoinWait
  <1>7. CASE JoinSwap BY <1>7 DEF JoinSwap, swapcontext
  <1>8. CASE JoinCleanup BY <1>8 DEF JoinCleanup, Cleanup, Joined, MainNext
  <1>9. CASE Destroy BY <1>9 DEF Destroy
  <1>10. QED BY <1>1, <1>2, <1>3, <1>4, <1>5, <1>6, <1>7, <1>8, <1>9 DEF MainStep

\* A preemption or a decision of the scheduler moves no thread into the mutex;
\* a tick inside schedule() loses a context, which moves nobody in either.
LEMMA SchedOutside == MutexInv /\ (Scheduler \/ TickInScheduler \/ Halted
                                     \/ (\E t \in Threads : Tick(t))) => Outside
  <1> SUFFICES ASSUME MutexInv,
                      Scheduler \/ TickInScheduler \/ Halted \/ (\E t \in Threads : Tick(t))
               PROVE Outside
    OBVIOUS
  <1> USE DEF MutexInv, Outside, PCs, UserPoints, LibPoints, Goto, mutexvars
  <1>1. CASE schedule BY <1>1 DEF schedule
  <1>2. CASE RunNext BY <1>2 DEF RunNext
  <1>3. CASE RunNobody BY <1>3 DEF RunNobody
  <1>4. CASE Resume BY <1>4 DEF Resume
  <1>5. CASE TickInScheduler BY <1>5 DEF TickInScheduler
  <1>6. CASE Halted BY <1>6 DEF Halted, vars
  <1>7. CASE \E t \in Threads : Tick(t) BY <1>7 DEF Tick
  <1>8. QED BY <1>1, <1>2, <1>3, <1>4, <1>5, <1>6, <1>7 DEF Scheduler

\* One step of a worker: the test-and-set admits a thread only when nobody is
\* in, and the clear happens in the hands of the only holder.
LEMMA WorkerKeeps ==
  ASSUME MutexInv, NEW t \in Workers, WorkerStep(t) PROVE MutexInv'
  <1>0. t \in Threads BY DEF Workers, Threads
  <1> USE <1>0 DEF MutexInv, PCs, UserPoints, LibPoints, Goto, mutexvars
  <1> DEFINE Labels == /\ pc' \in [Threads -> PCs]
                       /\ \A u \in Threads : u # t => pc'[u] = pc[u]
  <1>1. CASE Lock(t)
    <2>1. Labels /\ locked' /\ owner' = owner BY <1>1 DEF Lock, Taken
    <2>2. pc'[t] = IF locked THEN "lock_block" ELSE "lock_own" BY <1>1 DEF Lock, Taken
    <2>3. QED BY <2>1, <2>2 DEF FlagSet, MutualExclusion, HoldsMutex
  <1>2. CASE LockOwn(t)
    <2>1. Labels /\ pc[t] = "lock_own" /\ pc'[t] = "cs" /\ owner' = t /\ locked' = locked
      BY <1>2 DEF LockOwn
    <2>2. QED BY <2>1 DEF FlagSet, MutualExclusion, HoldsMutex
  <1>3. CASE CriticalSection(t)
    <2>1. Labels /\ pc[t] = "cs" /\ pc'[t] = "unlock" /\ owner' = owner /\ locked' = locked
      BY <1>3 DEF CriticalSection
    <2>2. QED BY <2>1 DEF FlagSet, MutualExclusion, HoldsMutex
  <1>4. CASE Unlock(t)
    <2>1. owner = t BY <1>4 DEF Unlock, MutualExclusion
    <2>2. Labels /\ pc[t] = "unlock" /\ pc'[t] = "unlock_clear" /\ locked' = locked
      BY <1>4, <2>1 DEF Unlock
    <2>3. QED BY <2>2 DEF FlagSet, MutualExclusion, HoldsMutex
  <1>5. CASE UnlockClear(t)
    <2>1. Labels /\ pc[t] = "unlock_clear" /\ pc'[t] = "unlock_wake" /\ owner' = owner
      BY <1>5 DEF UnlockClear
    <2>2. \A u \in Threads : ~ (pc'[u] \in {"lock_own", "cs", "unlock", "unlock_clear"})
      BY <2>1 DEF MutualExclusion, HoldsMutex
    <2>3. QED BY <2>1, <2>2 DEF FlagSet, MutualExclusion, HoldsMutex
  <1>6. CASE LockBlock(t)
    <2>1. Outside BY <1>6 DEF LockBlock, Outside
    <2>2. QED BY <2>1, OutsideKeeps
  <1>7. CASE LockEnqueue(t)
    <2>1. Outside BY <1>7 DEF LockEnqueue, Outside
    <2>2. QED BY <2>1, OutsideKeeps
  <1>8. CASE LockSwap(t)
    <2>1. Outside BY <1>8 DEF LockSwap, Outside, swapcontext
    <2>2. QED BY <2>1, OutsideKeeps
  <1>9. CASE UnlockWake(t)
    <2>1. Outside BY <1>9 DEF UnlockWake, Outside, AfterUnlock
    <2>2. QED BY <2>1, OutsideKeeps
  <1>10. CASE Yield(t) \/ YieldSwap(t)
    <2>1. Outside BY <1>10 DEF Yield, YieldSwap, Outside, swapcontext
    <2>2. QED BY <2>1, OutsideKeeps
  <1>11. CASE Exit(t) \/ ExitWake(t) \/ ExitSwap(t) \/ Return(t)
    <2>1. Outside BY <1>11 DEF Exit, ExitWake, ExitSwap, Return, Outside, swapcontext
    <2>2. QED BY <2>1, OutsideKeeps
  <1>12. QED
    BY <1>1, <1>2, <1>3, <1>4, <1>5, <1>6, <1>7, <1>8, <1>9, <1>10, <1>11,
       WorkerStep(t) DEF WorkerStep

\* No step of main, of a worker or of the scheduler breaks the invariant.
LEMMA MutexStep == MutexInv /\ [Next]_vars => MutexInv'
  <1> SUFFICES ASSUME MutexInv, [Next]_vars PROVE MutexInv'
    OBVIOUS
  <1>1. CASE MainStep BY <1>1, MainOutside, OutsideKeeps
  <1>2. CASE \E t \in Workers : WorkerStep(t) BY <1>2, WorkerKeeps
  <1>3. CASE Scheduler \/ TickInScheduler \/ Halted \/ (\E t \in Threads : Tick(t))
    BY <1>3, SchedOutside, OutsideKeeps
  <1>4. CASE UNCHANGED vars
    <2>1. Outside BY <1>4 DEF vars, mutexvars, Outside, MutexInv
    <2>2. QED BY <2>1, OutsideKeeps
  <1>5. QED BY <1>1, <1>2, <1>3, <1>4 DEF Next

\* worker_mutex_lock and worker_mutex_unlock exclude each other, and only the
\* owner unlocks, whatever the timer interrupts and the scheduler does next.
THEOREM MutexExcludes == Spec => []MutualExclusion
  <1>1. MutexInv => MutualExclusion BY DEF MutexInv
  <1>2. QED BY <1>1, MutexInit, MutexStep, PTL DEF Spec

-----------------------------------------------------------------------------
(***************************************************************************)
(* Types                                                                   *)
(***************************************************************************)
\* Program points main passes for each worker in turn.
Creating == {"create", "create_add"}
Joining == {"join", "join_block", "join_wait", "join_swap", "join_cleanup"}

Points == {"thread", "sched_in", "sched_out", "sched_pick", "exited", "stale_main",
           "spin", "underflow", "segv"}

\* TypeOK is inductive once main is known not to count past the last worker.
ProcTyped == policy \in Policies /\ cpu \in Points /\ running \in Threads \cup {NULL}
ThreadTyped == state \in [Threads -> States] /\ iter \in [Threads -> Nat]
CountTyped == pc[Main] \in Creating \cup Joining => iter[Main] < NumWorkers
QueueTyped == ready \in [0 .. Levels - 1 -> Seq(Threads)]
UsedTyped == used \in [Threads -> Nat] /\ priority \in [Threads -> 0 .. Levels - 1]
TableTyped == table \subseteq Workers /\ count \in Int /\ joined \subseteq Workers
WaitTyped == waiting \in [Threads -> {Main, NULL}]
MutexTyped ==
  /\ locked \in BOOLEAN /\ owner \in Threads \cup {NULL} /\ waitq \in Seq(Threads)

Typed ==
  /\ MutexInv /\ ProcTyped /\ ThreadTyped /\ CountTyped /\ QueueTyped /\ UsedTyped
  /\ TableTyped /\ WaitTyped /\ MutexTyped

\* Facts about the constants.
LEMMA Ids ==
  /\ Main = 0 /\ Main \in Threads /\ Main \notin Workers /\ Threads \subseteq Nat
  /\ Workers \subseteq Threads /\ NULL \notin Threads
  /\ \A t \in Threads : t # Main => t \in Workers
  /\ 0 \in 0 .. Levels - 1 /\ NumWorkers \in Workers
  BY WorkersAssumption DEF Main, Threads, Workers

\* What is left of a sequence without its i-th element.
LEMMA Removed ==
  ASSUME NEW S, NEW s \in Seq(S), NEW i \in 1 .. Len(s)
  PROVE  /\ RemoveNth(s, i) \in Seq(S) /\ Len(RemoveNth(s, i)) = Len(s) - 1
         /\ \A j \in 1 .. Len(s) - 1 :
              RemoveNth(s, i)[j] = IF j < i THEN s[j] ELSE s[j + 1]
  <1>1. /\ SubSeq(s, 1, i - 1) \in Seq(S) /\ Len(SubSeq(s, 1, i - 1)) = i - 1
        /\ \A j \in 1 .. i - 1 : SubSeq(s, 1, i - 1)[j] = s[j]
    BY SMT
  <1>2. /\ SubSeq(s, i + 1, Len(s)) \in Seq(S) /\ Len(SubSeq(s, i + 1, Len(s))) = Len(s) - i
        /\ \A j \in 1 .. Len(s) - i : SubSeq(s, i + 1, Len(s))[j] = s[j + i]
    BY SMT
  <1> DEFINE a == SubSeq(s, 1, i - 1)
             b == SubSeq(s, i + 1, Len(s))
  <1>3. /\ a \o b \in Seq(S) /\ Len(a \o b) = Len(a) + Len(b)
        /\ \A j \in 1 .. Len(a) + Len(b) :
             (a \o b)[j] = IF j <= Len(a) THEN a[j] ELSE b[j - Len(a)]
    BY <1>1, <1>2, ConcatProperties
  <1>4. RemoveNth(s, i) = a \o b
    BY DEF RemoveNth
  <1>5. Len(a) = i - 1 /\ Len(b) = Len(s) - i /\ Len(s) \in Nat
    BY <1>1, <1>2
  <1> HIDE DEF a, b
  <1>6. /\ RemoveNth(s, i) \in Seq(S) /\ Len(RemoveNth(s, i)) = Len(s) - 1
    BY <1>3, <1>4, <1>5
  <1>7. ASSUME NEW j \in 1 .. Len(s) - 1
        PROVE  (a \o b)[j] = IF j < i THEN s[j] ELSE s[j + 1]
    <2>1. (a \o b)[j] = IF j <= i - 1 THEN a[j] ELSE b[j - (i - 1)]
      BY <1>3, <1>5
    <2>2. j < i => a[j] = s[j]
      BY <1>1 DEF a
    <2>3. j >= i => b[j - (i - 1)] = s[j - (i - 1) + i]
      BY <1>2 DEF b
    <2> QED
      BY <2>1, <2>2, <2>3
  <1> QED
    BY <1>4, <1>6, <1>7

\* add_to_scheduler keeps the queues queues of threads.
LEMMA AddTyped ==
  ASSUME UsedTyped, NEW t \in Threads, NEW q \in [0 .. Levels - 1 -> Seq(Threads)]
  PROVE  add_to_scheduler(t, q) \in [0 .. Levels - 1 -> Seq(Threads)]
  <1>1. PICK l \in 0 .. Levels - 1 :
          add_to_scheduler(t, q) = [q EXCEPT ![l] = Append(@, t)]
    BY Ids DEF add_to_scheduler, UsedTyped
  <1> QED
    BY <1>1

\* Initially main is about to create the first worker.
LEMMA TypedInit == Init => Typed
  <1> SUFFICES ASSUME Init PROVE Typed
    OBVIOUS
  <1> USE WorkersAssumption, Ids DEF Init
  <1>1. MutexInv
    BY MutexInit
  <1>2. ProcTyped /\ ThreadTyped
    BY DEF ProcTyped, ThreadTyped, Points, States
  <1>3. CountTyped /\ QueueTyped /\ UsedTyped
    BY DEF CountTyped, QueueTyped, UsedTyped
  <1>4. TableTyped /\ WaitTyped /\ MutexTyped
    BY DEF TableTyped, WaitTyped, MutexTyped
  <1> QED
    BY <1>1, <1>2, <1>3, <1>4 DEF Typed

\* While main creates and joins, Next1 is a worker.
LEMMA NextIsWorker ==
  ASSUME Typed, pc[Main] \in Creating \cup Joining
  PROVE  Next1 \in Workers /\ Next1 \in Threads /\ Next1 # Main /\ Next1 = iter[Main] + 1
         /\ iter[Main] \in Nat
  <1>1. iter[Main] \in Nat /\ iter[Main] < NumWorkers
    BY Ids DEF Typed, ThreadTyped, CountTyped
  <1> QED
    BY <1>1, Ids, WorkersAssumption DEF Next1, Workers

\* main's steps keep the types; it counts up to the last worker and starts again.
LEMMA TypedMain ==
  ASSUME Typed, MainStep
  PROVE  /\ cpu' \in Points /\ running' = running /\ ThreadTyped' /\ CountTyped'
         /\ QueueTyped' /\ UsedTyped' /\ TableTyped' /\ WaitTyped' /\ MutexTyped'
  <1>0. /\ state \in [Threads -> States] /\ iter \in [Threads -> Nat] /\ cpu \in Points
        /\ pc \in [Threads -> PCs] /\ waiting \in [Threads -> {Main, NULL}]
        /\ Main \in Threads /\ TableTyped /\ UsedTyped /\ QueueTyped /\ MutexTyped
    BY Ids DEF Typed, ProcTyped, ThreadTyped, WaitTyped, MutexInv
  <1>1. cpu' \in Points /\ running' = running /\ UNCHANGED <<used, priority>> /\ UNCHANGED mutexvars
    BY <1>0 DEF MainStep, Create, CreateAdd, Join, JoinFails, JoinBlock, JoinWait,
       JoinSwap, JoinCleanup, Destroy, swapcontext, Points, schedvars
  <1>2. pc[Main] \in Creating \cup Joining \/ Destroy
    BY DEF MainStep, Create, CreateAdd, Join, JoinFails, JoinBlock, JoinWait,
       JoinSwap, JoinCleanup, Creating, Joining
  <1>3. UsedTyped' /\ MutexTyped'
    BY <1>0, <1>1 DEF UsedTyped, MutexTyped, mutexvars
  <1>4. CASE Destroy
    BY <1>0, <1>1, <1>3, <1>4 DEF Destroy, Goto, schedvars, tablevars, joinvars,
       ThreadTyped, CountTyped,
       QueueTyped, TableTyped, WaitTyped, Creating, Joining
  <1>5. CASE pc[Main] \in Creating \cup Joining
    <2>0. Next1 \in Workers /\ Next1 \in Threads /\ Next1 = iter[Main] + 1 /\ iter[Main] \in Nat
      BY <1>5, NextIsWorker
    <2>1. state' \in [Threads -> States]
      BY <1>0, <2>0 DEF MainStep, Create, CreateAdd, Join, JoinFails, JoinBlock, JoinWait,
         JoinSwap, JoinCleanup, Destroy, Cleanup, SetState, States
    <2>2. ASSUME NEW l, MainNext(TRUE, l)
          PROVE  iter' \in [Threads -> Nat] /\ iter'[Main] = 0
      BY <1>0, <2>2 DEF MainNext
    <2>3. ASSUME NEW l, MainNext(FALSE, l), Next1 # NumWorkers
          PROVE  iter' \in [Threads -> Nat] /\ iter'[Main] = Next1 /\ Next1 < NumWorkers
      BY <1>0, <2>0, <2>3, WorkersAssumption DEF MainNext, Workers
    <2>4. UNCHANGED iter \/ (iter' \in [Threads -> Nat] /\ iter'[Main] < NumWorkers)
      <3>1. 0 < NumWorkers
        BY WorkersAssumption
      <3>2. ASSUME Joined(Next1) PROVE iter' \in [Threads -> Nat] /\ iter'[Main] < NumWorkers
        BY <2>2, <2>3, <3>1, <3>2 DEF Joined
      <3>3. CASE CreateAdd
        BY <2>2, <2>3, <3>1, <3>3 DEF CreateAdd
      <3> QED
        BY <3>2, <3>3 DEF MainStep, Create, Join, JoinFails, JoinBlock, JoinWait,
           JoinSwap, JoinCleanup, Destroy, Cleanup
    <2>5. ThreadTyped' /\ CountTyped'
      BY <1>0, <1>5, <2>0, <2>1, <2>4, WorkersAssumption DEF ThreadTyped, CountTyped, Typed
    <2>6. QueueTyped'
      <3>1. UNCHANGED ready \/ ready' = add_to_scheduler(Next1, ready)
        BY DEF MainStep, Create, CreateAdd, Join, JoinFails, JoinBlock, JoinWait,
           JoinSwap, JoinCleanup, Destroy, schedvars
      <3> QED
        BY <1>0, <2>0, <3>1, AddTyped DEF QueueTyped
    <2>7. TableTyped'
      <3>1. /\ table' \in {table, table \cup {Next1}, table \ {Next1}}
            /\ joined' \in {joined, joined \cup {Next1}}
            /\ count' \in {count, count + 1, count + 2, count - 1}
        BY DEF MainStep, Create, CreateAdd, Join, JoinFails, JoinBlock, JoinWait,
           JoinSwap, JoinCleanup, Destroy, Cleanup, joinvars, tablevars
      <3> QED
        BY <1>0, <2>0, <3>1 DEF TableTyped
    <2>8. WaitTyped'
      <3>1. UNCHANGED waiting \/ (running = Main /\ waiting' = [waiting EXCEPT ![Next1] = running])
        BY DEF MainStep, Create, CreateAdd, Join, JoinFails, JoinBlock, JoinWait, OnCpu,
           JoinSwap, JoinCleanup, Destroy, joinvars, waiting_thread
      <3> QED
        BY <1>0, <2>0, <3>1 DEF WaitTyped
    <2> QED
      BY <1>1, <1>3, <2>5, <2>6, <2>7, <2>8
  <1> QED
    BY <1>2, <1>4, <1>5

\* A worker's steps keep the types.
LEMMA TypedWorker ==
  ASSUME Typed, NEW t \in Workers, WorkerStep(t)
  PROVE  /\ cpu' \in Points /\ running' = running /\ ThreadTyped' /\ CountTyped'
         /\ QueueTyped' /\ UsedTyped' /\ TableTyped' /\ WaitTyped' /\ MutexTyped'
  <1>0. /\ state \in [Threads -> States] /\ iter \in [Threads -> Nat] /\ cpu \in Points
        /\ pc \in [Threads -> PCs] /\ waiting \in [Threads -> {Main, NULL}]
        /\ Main \in Threads /\ t \in Threads /\ t # Main
        /\ locked \in BOOLEAN /\ owner \in Threads \cup {NULL} /\ waitq \in Seq(Threads)
        /\ TableTyped /\ UsedTyped /\ QueueTyped /\ CountTyped
    BY Ids DEF Typed, ProcTyped, ThreadTyped, WaitTyped, MutexInv, MutexTyped
  <1>1. cpu' \in Points /\ running' = running /\ UNCHANGED <<used, priority>>
    BY <1>0 DEF WorkerStep, Lock, LockBlock, LockEnqueue, LockSwap, LockOwn, CriticalSection,
       Unlock, UnlockClear, UnlockWake, Yield, YieldSwap, Exit, ExitWake, ExitSwap, Return,
       swapcontext, Points, schedvars
  <1>2. /\ \/ UNCHANGED iter \/ iter' = [iter EXCEPT ![t] = @ + 1]
        /\ \/ UNCHANGED pc \/ \E l : pc' = [pc EXCEPT ![t] = l]
    BY DEF WorkerStep, Lock, LockBlock, LockEnqueue, LockSwap, LockOwn, CriticalSection,
       Unlock, UnlockClear, UnlockWake, Yield, YieldSwap, Exit, ExitWake, ExitSwap, Return,
       swapcontext, AfterUnlock, Goto
  <1>3. iter' \in [Threads -> Nat] /\ iter'[Main] = iter[Main] /\ pc'[Main] = pc[Main]
    <2>1. iter' \in [Threads -> Nat] /\ iter'[Main] = iter[Main]
      BY <1>0, <1>2, SMTT(60)
    <2>2. pc'[Main] = pc[Main]
      BY <1>0, <1>2
    <2> QED
      BY <2>1, <2>2
  <1>4. CountTyped'
    BY <1>0, <1>3 DEF CountTyped
  <1>5. UsedTyped'
    BY <1>0, <1>1 DEF UsedTyped
  <1>6. TableTyped'
    <2>1. UNCHANGED <<table, joined>> /\ count' \in {count, count - 1}
      BY DEF WorkerStep, Lock, LockBlock, LockEnqueue, LockSwap, LockOwn, CriticalSection,
       Unlock, UnlockClear, UnlockWake, Yield, YieldSwap, Exit, ExitWake, ExitSwap, Return,
       tablevars, joinvars
    <2> QED
      BY <1>0, <2>1 DEF TableTyped
  <1>7. WaitTyped'
    <2>1. UNCHANGED waiting \/ waiting' = [waiting EXCEPT ![t] = NULL]
      BY DEF WorkerStep, Lock, LockBlock, LockEnqueue, LockSwap, LockOwn, CriticalSection,
       Unlock, UnlockClear, UnlockWake, Yield, YieldSwap, Exit, ExitWake, ExitSwap, Return,
       joinvars
    <2> QED
      BY <1>0, <2>1 DEF WaitTyped
  <1>8. MutexTyped'
    <2>1. locked' \in BOOLEAN /\ owner' \in Threads \cup {NULL}
      BY <1>0 DEF WorkerStep, Lock, LockBlock, LockEnqueue, LockSwap, LockOwn, CriticalSection,
       Unlock, UnlockClear, UnlockWake, Yield, YieldSwap, Exit, ExitWake, ExitSwap, Return,
       mutexvars
    <2>2. UNCHANGED waitq \/ waitq' = Append(waitq, t) \/ (waitq # <<>> /\ waitq' = Tail(waitq))
      BY DEF WorkerStep, Lock, LockBlock, LockEnqueue, LockSwap, LockOwn, CriticalSection,
       Unlock, UnlockClear, UnlockWake, Yield, YieldSwap, Exit, ExitWake, ExitSwap, Return,
       mutexvars, Wakes
    <2>3. waitq' \in Seq(Threads)
      <3>1. Append(waitq, t) \in Seq(Threads)
        BY <1>0
      <3>2. waitq # <<>> => Tail(waitq) \in Seq(Threads)
        BY <1>0
      <3> QED
        BY <1>0, <2>2, <3>1, <3>2
    <2> QED
      BY <2>1, <2>3 DEF MutexTyped
  <1>9. \/ UNCHANGED ready /\ (UNCHANGED state \/ \E s \in States : SetState(t, s))
        \/ \E u \in Threads : MakeReady(u)
    <2>1. UnlockWake(t) => UNCHANGED <<state, ready>> \/ (MakeReady(Head(waitq)) /\ waitq # <<>>)
      BY DEF UnlockWake, Wakes
    <2>2. waitq # <<>> => Head(waitq) \in Threads
      BY <1>0
    <2>3. ExitWake(t) => UNCHANGED <<state, ready>> \/ (MakeReady(waiting[t]) /\ waiting[t] # NULL)
      BY DEF ExitWake, HasJoiner
    <2>4. waiting[t] # NULL => waiting[t] \in Threads
      BY <1>0
    <2>5. UnlockWake(t) \/ ExitWake(t) \/
            (UNCHANGED ready /\ (UNCHANGED state \/ \E s \in States : SetState(t, s)))
      BY DEF WorkerStep, Lock, LockBlock, LockEnqueue, LockSwap, LockOwn, CriticalSection,
       Unlock, UnlockClear, Yield, YieldSwap, Exit, ExitSwap, Return, schedvars, States
    <2> QED
      BY <2>1, <2>2, <2>3, <2>4, <2>5
  <1>10. state' \in [Threads -> States]
    BY <1>0, <1>9 DEF SetState, MakeReady, States
  <1>11. QueueTyped'
    BY <1>0, <1>9, AddTyped DEF MakeReady, QueueTyped
  <1> QED
    BY <1>1, <1>3, <1>4, <1>5, <1>6, <1>7, <1>8, <1>10, <1>11 DEF ThreadTyped

\* The scheduler's and the timer's steps keep the types.
LEMMA TypedSched ==
  ASSUME Typed, Scheduler \/ TickInScheduler \/ Halted \/ (\E t \in Threads : Tick(t))
  PROVE  /\ cpu' \in Points /\ running' \in Threads \cup {NULL} /\ ThreadTyped' /\ CountTyped'
         /\ QueueTyped' /\ UsedTyped' /\ TableTyped' /\ WaitTyped' /\ MutexTyped'
  <1>0. /\ state \in [Threads -> States] /\ cpu \in Points
        /\ pc \in [Threads -> PCs] /\ running \in Threads \cup {NULL} /\ NULL \notin Threads
        /\ used \in [Threads -> Nat] /\ UsedTyped /\ ready \in [0 .. Levels - 1 -> Seq(Threads)]
    BY Ids DEF Typed, ProcTyped, ThreadTyped, MutexInv, UsedTyped, QueueTyped
  <1>1. UNCHANGED <<iter, priority, table, count, joined, waiting, locked, owner, waitq>>
    BY DEF Scheduler, TickInScheduler, Halted, Tick, schedule, RunNext, RunNobody, Resume,
       vars, schedvars, tablevars, joinvars, mutexvars
  <1>2. pc' = pc \/ (TickInScheduler /\ pc' = [pc EXCEPT ![running] = "clobbered"])
    BY DEF Scheduler, TickInScheduler, Halted, Tick, schedule, RunNext, RunNobody, Resume,
       vars, Goto
  <1>3. CountTyped'
    BY <1>0, <1>1, <1>2, Ids DEF Typed, CountTyped, Creating, Joining, TickInScheduler
  <1>4. TableTyped' /\ WaitTyped' /\ MutexTyped'
    BY <1>1 DEF Typed, TableTyped, WaitTyped, MutexTyped
  <1>5. CASE RunNext
    <2>0. PICK l \in 0 .. Levels - 1 : \E i \in 1 .. Len(ready[l]) :
            /\ running' = ready[l][i] /\ SetState(ready[l][i], "RUNNING")
            /\ ready' = [ready EXCEPT ![l] = RemoveNth(@, i)]
            /\ cpu' \in IF state[ready[l][i]] = "freed" THEN {"sched_out", "segv"} ELSE {"sched_out"}
      BY <1>5 DEF RunNext
    <2>1. PICK i \in 1 .. Len(ready[l]) :
            /\ running' = ready[l][i] /\ SetState(ready[l][i], "RUNNING")
            /\ ready' = [ready EXCEPT ![l] = RemoveNth(@, i)]
            /\ cpu' \in {"sched_out", "segv"}
      BY <2>0
    <2>2. ready[l][i] \in Threads /\ ready[l] \in Seq(Threads) /\ i \in 1 .. Len(ready[l])
      BY <1>0, <2>1
    <2>3. RemoveNth(ready[l], i) \in Seq(Threads)
      BY <2>2, Removed
    <2>4. ready' \in [0 .. Levels - 1 -> Seq(Threads)]
      BY <1>0, <2>1, <2>3
    <2>5. state' \in [Threads -> States] /\ running' \in Threads /\ cpu' \in Points
      BY <1>0, <2>1, <2>2 DEF SetState, States, Points
    <2>6. UNCHANGED used
      BY <1>5 DEF RunNext
    <2> QED
      BY <1>0, <1>1, <1>3, <1>4, <2>4, <2>5, <2>6 DEF Typed, ThreadTyped, UsedTyped, QueueTyped
  <1>6. CASE schedule
    <2>1. state' \in [Threads -> States]
      BY <1>0, <1>6 DEF schedule, SetState, States
    <2>2. running' \in {running, NULL} /\ cpu' \in {"sched_pick", "spin"}
      BY <1>6 DEF schedule, promote_all_threads
    <2>3. used' \in [Threads -> Nat]
      <3>1. ASSUME running \in Threads, Charge(running) PROVE used' \in [Threads -> Nat]
        BY <1>0, <3>1 DEF Charge
      <3>2. ASSUME running \in Threads PROVE [used EXCEPT ![running] = 0] \in [Threads -> Nat]
        BY <1>0, <3>2
      <3> QED
        BY <1>0, <1>6, <3>1, <3>2 DEF schedule
    <2>4. ready' \in [0 .. Levels - 1 -> Seq(Threads)]
      <3>1. \/ UNCHANGED ready
            \/ /\ running \in Threads
               /\ \/ ready' = add_to_scheduler(running, ready)
                  \/ ready' = add_to_scheduler(running, add_to_scheduler(running, ready))
        BY <1>0, <1>6 DEF schedule
      <3> QED
        BY <1>0, <3>1, AddTyped
    <2> QED
      BY <1>0, <1>1, <1>3, <1>4, <2>1, <2>2, <2>3, <2>4
         DEF Typed, ThreadTyped, UsedTyped, QueueTyped, Points
  <1>7. CASE RunNobody \/ Resume \/ TickInScheduler \/ Halted \/ (\E t \in Threads : Tick(t))
    <2>1. UNCHANGED <<running, state, ready, used>>
      BY <1>7 DEF RunNobody, Resume, TickInScheduler, Halted, Tick, vars, schedvars
    <2>2. cpu' \in Points
      BY <1>0, <1>7, WorkersAssumption
         DEF RunNobody, Resume, TickInScheduler, Halted, Tick, vars, Points, DeadEnd, Typed, ProcTyped
    <2> QED
      BY <1>0, <1>1, <1>3, <1>4, <2>1, <2>2 DEF Typed, ThreadTyped, UsedTyped, QueueTyped
  <1> QED
    BY <1>5, <1>6, <1>7 DEF Scheduler

\* The types are kept by every step.
LEMMA TypedStep == Typed /\ [Next]_vars => Typed'
  <1> SUFFICES ASSUME Typed, [Next]_vars PROVE Typed'
    OBVIOUS
  <1>1. MutexInv'
    BY MutexStep DEF Typed
  <1>2. policy' = policy /\ policy \in Policies /\ running \in Threads \cup {NULL}
    BY DEF Next, vars, Typed, ProcTyped
  <1>3. CASE UNCHANGED vars
    BY <1>1, <1>3 DEF vars, schedvars, tablevars, joinvars, mutexvars, Typed, ProcTyped,
       ThreadTyped, CountTyped, QueueTyped, UsedTyped, TableTyped, WaitTyped, MutexTyped
  <1>4. CASE MainStep
    BY <1>1, <1>2, <1>4, TypedMain DEF Typed, ProcTyped
  <1>5. CASE \E t \in Workers : WorkerStep(t)
    BY <1>1, <1>2, <1>5, TypedWorker DEF Typed, ProcTyped
  <1>6. CASE Scheduler \/ TickInScheduler \/ Halted \/ (\E t \in Threads : Tick(t))
    BY <1>1, <1>2, <1>6, TypedSched DEF Typed, ProcTyped
  <1> QED
    BY <1>3, <1>4, <1>5, <1>6 DEF Next

\* Every variable of the library keeps its type, wherever ticks land: TCBs,
\* queues and the mutex name threads, and worker_join's counting of workers
\* stays within those that were created.
THEOREM WorkersTyped == Spec => []TypeOK
  <1>1. Typed => TypeOK
    BY DEF Typed, TypeOK, MutexInv, ProcTyped, ThreadTyped, QueueTyped, UsedTyped, TableTyped,
       WaitTyped, MutexTyped, Points, SchedPoints, DeadEnds
  <1> QED
    BY <1>1, TypedInit, TypedStep, PTL DEF Spec

-----------------------------------------------------------------------------
(***************************************************************************)
(* Who is where: the inductive invariant                                   *)
(***************************************************************************)
\* Thread t stands in one of the scheduler's queues; it waits for the mutex.
Queued(t) == \E l \in 0 .. Levels - 1 : \E i \in 1 .. Len(ready[l]) : ready[l][i] = t
Waits(t) == \E i \in 1 .. Len(waitq) : waitq[i] = t

\* Program points of main and of the workers.
MainPoints == Creating \cup Joining \cup {"destroy", "end", "destroy_failed"}
WorkerPoints ==
  {"lock", "lock_block", "lock_enqueue", "lock_swap", "lock_own", "cs", "unlock",
   "unlock_clear", "unlock_wake", "yield", "yield_swap", "exit", "exit_wake",
   "exit_swap", "gone"}

\* Points inside a library call that a tick must not hit: from worker_join's test
\* whether the target has terminated until main is recorded as its waiter, from
\* the failed test-and-set until the thread has given the processor up, and
\* worker_exit once the thread is TERMINATED.
Fragile == {"join_block", "join_wait", "lock_block", "lock_enqueue", "lock_swap",
            "exit_wake", "exit_swap"}

\* Points of a worker whose exit is under way or over.
Exiting == {"exit_wake", "exit_swap", "gone"}

\* No thread has two entries in the queues, or two in the mutex's.
ReadyOnce ==
  \A l, k \in 0 .. Levels - 1 :
    \A i \in 1 .. Len(ready[l]), j \in 1 .. Len(ready[k]) :
      ready[l][i] = ready[k][j] => l = k /\ i = j
WaitOnce == \A i, j \in 1 .. Len(waitq) : waitq[i] = waitq[j] => i = j

\* The states of the thread on the processor when it is at point p.  A tick may
\* have come, and the thread been resumed, just before it swaps itself out.
StatesAt(p) ==
  IF p \in {"join_wait", "lock_enqueue", "lock_swap"} THEN {"BLOCKED"}
  ELSE IF p = "join_swap" THEN {"BLOCKED", "RUNNING"}
  ELSE IF p = "yield_swap" THEN {"READY", "RUNNING"}
  ELSE IF p \in Exiting THEN {"TERMINATED"}
  ELSE {"RUNNING"}

\* What the processor does and the state of running_tcb agree.
CpuOK ==
  /\ running # NULL => state[running] \notin {"none", "freed"}
  /\ cpu \in {"thread", "sched_in", "sched_out", "exited"} => running \in Threads
  /\ cpu = "thread" => /\ state[running] \in StatesAt(pc[running])
                       /\ pc[running] \notin {"gone", "end", "destroy_failed"}
  /\ cpu = "sched_out" => state[running] = "RUNNING"
  /\ cpu = "sched_in" /\ state[running] = "READY" => policy \in Yields
  /\ cpu = "exited" <=> pc[Main] \in {"end", "destroy_failed"}
  /\ \A t \in Threads : state[t] = "RUNNING" =>
       t = running /\ cpu \in {"thread", "sched_in", "sched_out", "exited"}

\* Every thread is at a point of its own program; only the thread on the
\* processor is at a fragile point; states and points agree.
PointOK ==
  /\ pc[Main] \in MainPoints
  /\ state[Main] \in {"READY", "RUNNING", "BLOCKED"}
  /\ state[Main] = "BLOCKED" => pc[Main] \in {"join_wait", "join_swap", "join_cleanup"}
  /\ \A t \in Threads : pc[t] \in Fragile => OnCpu(t)
  /\ \A t \in Threads : pc[t] \in {"yield", "yield_swap"} => policy \in Yields
  /\ \A w \in Workers :
       /\ pc[w] \in WorkerPoints
       /\ state[w] \in {"TERMINATED", "freed"} <=> pc[w] \in Exiting
       /\ state[w] = "none" => pc[w] = "lock"
       /\ state[w] = "BLOCKED" => pc[w] \in {"lock", "lock_enqueue", "lock_swap"}

\* A ready thread is in the queues and nobody else is; a blocked worker waits
\* for the mutex and nobody else does.
PlaceOK ==
  \A t \in Threads :
    /\ Queued(t) => /\ state[t] = "READY"
                    /\ t = running => cpu \in {"sched_pick"} \cup DeadEnds
                    /\ ~(pc[Main] = "create_add" /\ t = Next1)
    /\ state[t] = "READY" => \/ Queued(t)
                             \/ t = running /\ cpu \in {"thread", "sched_in"}
                             \/ pc[Main] = "create_add" /\ t = Next1
    /\ Waits(t) => t \in Workers /\ state[t] = "BLOCKED" /\ pc[t] # "lock_enqueue"
    /\ state[t] = "BLOCKED" => t = Main \/ Waits(t) \/ pc[t] = "lock_enqueue"

\* How far main has come in creating and joining.
MainAt ==
  /\ pc[Main] \in Creating \cup Joining => iter[Main] < NumWorkers
  /\ pc[Main] = "create" => table = 1 .. iter[Main]
  /\ pc[Main] = "create_add" =>
       table = 1 .. Next1 /\ state[Next1] = "READY" /\ running # Next1
  /\ pc[Main] \in Creating => joined = {}
  /\ pc[Main] \in Joining =>
       /\ table = Next1 .. NumWorkers
       /\ joined \subseteq 1 .. (IF pc[Main] = "join" THEN iter[Main] ELSE Next1)
  /\ \A w \in Workers :
       /\ state[w] = "none" <=> \/ pc[Main] = "create" /\ w >= Next1
                                \/ pc[Main] = "create_add" /\ w > Next1
       /\ state[w] = "freed" <=> \/ pc[Main] \in Joining /\ w < Next1
                                 \/ pc[Main] \in {"destroy", "end", "destroy_failed"}

\* Who waits in worker_join, and for whom: a target that will still wake main,
\* or has.
JoinOK ==
  /\ \A t \in Threads : waiting[t] # NULL =>
       t = Next1 /\ pc[Main] \in {"join_swap", "join_cleanup"} /\ state[Main] = "BLOCKED"
  /\ pc[Main] \in {"join_block", "join_wait"} => pc[Next1] \notin Exiting
  /\ pc[Main] \in {"join_swap", "join_cleanup"} =>
       \/ /\ state[Main] = "BLOCKED" /\ waiting[Next1] = Main
          /\ pc[Next1] \notin {"exit_swap", "gone"}
       \/ /\ state[Main] # "BLOCKED" /\ state[Next1] = "TERMINATED"

\* A worker exits after its last round.
RoundsOK ==
  \A w \in Workers :
    /\ iter[w] <= Rounds
    /\ iter[w] = Rounds <=> pc[w] \in {"exit"} \cup Exiting

\* A thread is on its way to the free mutex others wait for.
WakeOK ==
  /\ \A t \in Threads : pc[t] \in {"lock_block", "lock_enqueue"} => locked
  /\ waitq # <<>> /\ ~locked =>
       \E t \in Workers : pc[t] \in {"unlock_wake", "lock"} /\ state[t] \in {"READY", "RUNNING"}

\* All of it.
WorkersInv ==
  /\ Typed /\ ReadyOnce /\ WaitOnce /\ CpuOK /\ PointOK /\ PlaceOK /\ MainAt /\ JoinOK
  /\ RoundsOK /\ WakeOK

\* Putting a thread that is not there in a queue.
LEMMA AddEntry ==
  ASSUME QueueTyped, UsedTyped, ReadyOnce, NEW t \in Threads, ~Queued(t),
         ready' = add_to_scheduler(t, ready)
  PROVE  ReadyOnce' /\ \A u \in Threads : Queued(u)' <=> (Queued(u) \/ u = t)
  <1>1. PICK l \in 0 .. Levels - 1 : ready' = [ready EXCEPT ![l] = Append(@, t)]
    BY Ids DEF add_to_scheduler, UsedTyped
  <1>2. /\ ready \in [0 .. Levels - 1 -> Seq(Threads)]
        /\ \A k \in 0 .. Levels - 1 : ready[k] \in Seq(Threads)
    BY DEF QueueTyped
  <1>3. /\ Len(ready'[l]) = Len(ready[l]) + 1 /\ Len(ready[l]) \in Nat
        /\ ready'[l][Len(ready[l]) + 1] = t
        /\ \A i \in 1 .. Len(ready[l]) : ready'[l][i] = ready[l][i]
    BY <1>1, <1>2
  <1>4. \A k \in 0 .. Levels - 1 : k # l => ready'[k] = ready[k]
    BY <1>1, <1>2
  <1>5. ReadyOnce'
    <2> SUFFICES ASSUME NEW m \in 0 .. Levels - 1, NEW k \in 0 .. Levels - 1,
                        NEW i \in 1 .. Len(ready'[m]), NEW j \in 1 .. Len(ready'[k]),
                        ready'[m][i] = ready'[k][j]
                 PROVE  m = k /\ i = j
      BY DEF ReadyOnce
    <2>1. \/ m = l /\ i = Len(ready[l]) + 1 /\ ready'[m][i] = t
          \/ i \in 1 .. Len(ready[m]) /\ ready'[m][i] = ready[m][i] /\ ready[m][i] # t
      BY <1>2, <1>3, <1>4, SMTT(60) DEF Queued
    <2>2. \/ k = l /\ j = Len(ready[l]) + 1 /\ ready'[k][j] = t
          \/ j \in 1 .. Len(ready[k]) /\ ready'[k][j] = ready[k][j] /\ ready[k][j] # t
      BY <1>2, <1>3, <1>4, SMTT(60) DEF Queued
    <2> QED
      BY <2>1, <2>2, SMTT(60) DEF ReadyOnce
  <1>6. ASSUME NEW u \in Threads PROVE Queued(u)' <=> (Queued(u) \/ u = t)
    <2>1. ASSUME NEW k \in 0 .. Levels - 1, NEW i \in 1 .. Len(ready[k])
          PROVE  i \in 1 .. Len(ready'[k]) /\ ready'[k][i] = ready[k][i]
      BY <1>2, <1>3, <1>4
    <2>2. ASSUME NEW k \in 0 .. Levels - 1, NEW i \in 1 .. Len(ready'[k])
          PROVE  (i \in 1 .. Len(ready[k]) /\ ready'[k][i] = ready[k][i]) \/ ready'[k][i] = t
      BY <1>2, <1>3, <1>4
    <2>3. Queued(u) => Queued(u)'
      BY <2>1 DEF Queued
    <2>4. Queued(t)'
      <3>1. Len(ready[l]) + 1 \in 1 .. Len(ready'[l])
        BY <1>3
      <3> QED
        BY <1>3, <3>1 DEF Queued
    <2>5. Queued(u)' => Queued(u) \/ u = t
      BY <2>2 DEF Queued
    <2> QED
      BY <2>3, <2>4, <2>5
  <1> QED
    BY <1>5, <1>6

\* Taking an entry out of a queue takes its thread out of the queues.
LEMMA TakeEntry ==
  ASSUME QueueTyped, ReadyOnce, NEW l \in 0 .. Levels - 1, NEW i \in 1 .. Len(ready[l]),
         ready' = [ready EXCEPT ![l] = RemoveNth(@, i)]
  PROVE  ReadyOnce' /\ \A u \in Threads : Queued(u)' <=> (Queued(u) /\ u # ready[l][i])
  <1>1. /\ ready \in [0 .. Levels - 1 -> Seq(Threads)]
        /\ \A k \in 0 .. Levels - 1 : ready[k] \in Seq(Threads)
    BY DEF QueueTyped
  <1>2. /\ Len(ready'[l]) = Len(ready[l]) - 1 /\ Len(ready[l]) \in Nat
        /\ \A j \in 1 .. Len(ready[l]) - 1 :
             ready'[l][j] = IF j < i THEN ready[l][j] ELSE ready[l][j + 1]
    <2>1. ready'[l] = RemoveNth(ready[l], i)
      BY <1>1
    <2> QED
      BY <1>1, <2>1, Removed, SMTT(60)
  <1>3. \A k \in 0 .. Levels - 1 : k # l => ready'[k] = ready[k]
    BY <1>1
  <1>4. ASSUME NEW k \in 0 .. Levels - 1, NEW j \in 1 .. Len(ready'[k])
        PROVE  \/ (k # l \/ j < i) /\ j \in 1 .. Len(ready[k]) /\ ready'[k][j] = ready[k][j]
               \/ k = l /\ j >= i /\ j + 1 \in 1 .. Len(ready[k]) /\ ready'[k][j] = ready[k][j + 1]
    BY <1>1, <1>2, <1>3
  <1>5. ReadyOnce'
    <2> SUFFICES ASSUME NEW m \in 0 .. Levels - 1, NEW k \in 0 .. Levels - 1,
                        NEW a \in 1 .. Len(ready'[m]), NEW b \in 1 .. Len(ready'[k]),
                        ready'[m][a] = ready'[k][b]
                 PROVE  m = k /\ a = b
      BY DEF ReadyOnce
    <2>1. \/ (m # l \/ a < i) /\ a \in 1 .. Len(ready[m]) /\ ready'[m][a] = ready[m][a]
          \/ m = l /\ a >= i /\ a + 1 \in 1 .. Len(ready[m]) /\ ready'[m][a] = ready[m][a + 1]
      BY <1>4
    <2>2. \/ (k # l \/ b < i) /\ b \in 1 .. Len(ready[k]) /\ ready'[k][b] = ready[k][b]
          \/ k = l /\ b >= i /\ b + 1 \in 1 .. Len(ready[k]) /\ ready'[k][b] = ready[k][b + 1]
      BY <1>4
    <2> QED
      BY <2>1, <2>2 DEF ReadyOnce
  <1>6. ASSUME NEW u \in Threads, Queued(u)' PROVE Queued(u) /\ u # ready[l][i]
    <2>1. PICK k \in 0 .. Levels - 1 : \E j \in 1 .. Len(ready'[k]) : ready'[k][j] = u
      BY <1>6 DEF Queued
    <2>2. PICK j \in 1 .. Len(ready'[k]) : ready'[k][j] = u
      BY <2>1
    <2>3. \/ (k # l \/ j < i) /\ j \in 1 .. Len(ready[k]) /\ ready'[k][j] = ready[k][j]
          \/ k = l /\ j >= i /\ j + 1 \in 1 .. Len(ready[k]) /\ ready'[k][j] = ready[k][j + 1]
      BY <1>4
    <2>4. CASE (k # l \/ j < i) /\ j \in 1 .. Len(ready[k]) /\ ready'[k][j] = ready[k][j]
      BY <2>2, <2>4 DEF Queued, ReadyOnce
    <2>5. CASE k = l /\ j >= i /\ j + 1 \in 1 .. Len(ready[k]) /\ ready'[k][j] = ready[k][j + 1]
      BY <2>2, <2>5 DEF Queued, ReadyOnce
    <2> QED
      BY <2>3, <2>4, <2>5
  <1>7. ASSUME NEW u \in Threads, Queued(u), u # ready[l][i] PROVE Queued(u)'
    <2>1. PICK k \in 0 .. Levels - 1 : \E j \in 1 .. Len(ready[k]) : ready[k][j] = u
      BY <1>7 DEF Queued
    <2>2. PICK j \in 1 .. Len(ready[k]) : ready[k][j] = u
      BY <2>1
    <2>3. CASE k # l
      BY <1>3, <2>2, <2>3 DEF Queued
    <2>4. CASE k = l /\ j < i
      <3>1. j \in 1 .. Len(ready'[k]) /\ ready'[k][j] = u
        BY <1>2, <2>2, <2>4
      <3> QED
        BY <3>1 DEF Queued
    <2>5. CASE k = l /\ j > i
      <3>1. j - 1 \in 1 .. Len(ready'[k]) /\ ready'[k][j - 1] = u
        BY <1>2, <2>2, <2>5
      <3> QED
        BY <3>1 DEF Queued
    <2> QED
      BY <1>7, <2>2, <2>3, <2>4, <2>5
  <1> QED
    BY <1>5, <1>6, <1>7

\* A thread joins the mutex's queue.
LEMMA AddWaiter ==
  ASSUME waitq \in Seq(Threads), WaitOnce, NEW t \in Threads, ~Waits(t),
         waitq' = Append(waitq, t)
  PROVE  WaitOnce' /\ \A u \in Threads : Waits(u)' <=> (Waits(u) \/ u = t)
  <1>1. /\ Len(waitq') = Len(waitq) + 1 /\ Len(waitq) \in Nat /\ waitq'[Len(waitq) + 1] = t
        /\ \A i \in 1 .. Len(waitq) : waitq'[i] = waitq[i]
    OBVIOUS
  <1>2. WaitOnce'
    BY <1>1 DEF WaitOnce, Waits
  <1>3. ASSUME NEW u \in Threads PROVE Waits(u)' <=> (Waits(u) \/ u = t)
    BY <1>1 DEF Waits
  <1> QED
    BY <1>2, <1>3

\* The head of the mutex's queue leaves it.
LEMMA TakeWaiter ==
  ASSUME waitq \in Seq(Threads), WaitOnce, waitq # <<>>, waitq' = Tail(waitq)
  PROVE  /\ WaitOnce' /\ Waits(Head(waitq)) /\ Head(waitq) \in Threads
         /\ \A u \in Threads : Waits(u)' <=> (Waits(u) /\ u # Head(waitq))
  <1>1. /\ Len(waitq') = Len(waitq) - 1 /\ Len(waitq) \in Nat /\ Len(waitq) > 0
        /\ Head(waitq) = waitq[1] /\ Head(waitq) \in Threads
        /\ \A i \in 1 .. Len(waitq) - 1 : waitq'[i] = waitq[i + 1]
    OBVIOUS
  <1>2. WaitOnce'
    BY <1>1 DEF WaitOnce
  <1>3. Waits(Head(waitq))
    BY <1>1 DEF Waits
  <1>4. ASSUME NEW u \in Threads, Waits(u)' PROVE Waits(u) /\ u # Head(waitq)
    <2>1. PICK i \in 1 .. Len(waitq') : waitq'[i] = u
      BY <1>4 DEF Waits
    <2>2. i + 1 \in 1 .. Len(waitq) /\ waitq[i + 1] = u /\ i + 1 # 1 /\ 1 \in 1 .. Len(waitq)
      BY <1>1, <2>1
    <2> QED
      BY <1>1, <2>2 DEF Waits, WaitOnce
  <1>5. ASSUME NEW u \in Threads, Waits(u), u # Head(waitq) PROVE Waits(u)'
    <2>1. PICK i \in 1 .. Len(waitq) : waitq[i] = u
      BY <1>5 DEF Waits
    <2>2. i - 1 \in 1 .. Len(waitq') /\ waitq'[i - 1] = u
      BY <1>1, <1>5, <2>1
    <2> QED
      BY <2>2 DEF Waits
  <1> QED
    BY <1>1, <1>2, <1>3, <1>4, <1>5

\* Queues that are left alone.
LEMMA SameQueues ==
  /\ UNCHANGED ready => (ReadyOnce' <=> ReadyOnce) /\ \A u \in Threads : Queued(u)' <=> Queued(u)
  /\ UNCHANGED waitq => (WaitOnce' <=> WaitOnce) /\ \A u \in Threads : Waits(u)' <=> Waits(u)
  BY SMTT(60) DEF Queued, Waits, ReadyOnce, WaitOnce

-----------------------------------------------------------------------------
(***************************************************************************)
(* Steps of a worker                                                       *)
(***************************************************************************)
\* The moments ticks land at and the program: no tick at a fragile point or in
\* schedule() itself, room for all workers in thread_table, and no worker_yield
\* under MLFQ, which gives a thread that yields two entries.
SafeTicks ==
  /\ Preemptible \subseteq (UserPoints \cup LibPoints) \ Fragile
  /\ "MLFQ" \notin Yields /\ NumWorkers <= MAX_THREADS

\* The invariant without the types and without the mutex's waiters.
Placed ==
  /\ ReadyOnce /\ WaitOnce /\ CpuOK /\ PointOK /\ PlaceOK /\ MainAt /\ JoinOK /\ RoundsOK

\* What the types say of the variables most steps change.
LEMMA Shapes ==
  ASSUME Typed
  PROVE  /\ state \in [Threads -> States] /\ pc \in [Threads -> PCs]
         /\ iter \in [Threads -> Nat] /\ waiting \in [Threads -> {Main, NULL}]
         /\ waitq \in Seq(Threads) /\ QueueTyped /\ UsedTyped /\ running \in Threads \cup {NULL}
         /\ locked \in BOOLEAN /\ table \subseteq Workers /\ joined \subseteq Workers
         /\ ready \in [0 .. Levels - 1 -> Seq(Threads)] /\ cpu \in Points
  BY DEF Typed, MutexInv, ThreadTyped, WaitTyped, MutexTyped, ProcTyped, TableTyped, QueueTyped

\* Points between which a worker moves without its state or place changing.
Plain == {"lock", "lock_block", "lock_own", "cs", "unlock", "unlock_clear", "unlock_wake"}

\* A worker that runs gets from one such point to another.
LEMMA Moves ==
  ASSUME WorkersInv, NEW t \in Workers, OnCpu(t), NEW l \in Plain, pc[t] \in Plain,
         pc' = [pc EXCEPT ![t] = l],
         UNCHANGED <<policy, cpu, running, state, iter, ready, waitq, table, joined, waiting>>
  PROVE  Placed'
  <1>0. /\ pc \in [Threads -> PCs] /\ t \in Threads /\ t # Main /\ Main \in Threads
        /\ cpu = "thread" /\ running = t /\ t # NULL /\ Workers \subseteq Threads
    BY Ids, Shapes DEF WorkersInv, OnCpu
  <1>1. /\ pc'[t] = l /\ \A u \in Threads : u # t => pc'[u] = pc[u]
        /\ pc'[Main] = pc[Main] /\ Next1' = Next1
    BY <1>0 DEF Next1
  <1>2. ReadyOnce' /\ WaitOnce' /\ \A u \in Threads : (Queued(u)' <=> Queued(u)) /\ (Waits(u)' <=> Waits(u))
    BY SameQueues DEF WorkersInv
  <1>3. state[t] = "RUNNING"
    BY <1>0 DEF WorkersInv, CpuOK, StatesAt, Plain, Exiting
  <1>4. CpuOK'
    BY <1>0, <1>1, <1>3 DEF WorkersInv, CpuOK, StatesAt, Plain, Exiting
  <1>5. PointOK'
    BY <1>0, <1>1, <1>3 DEF WorkersInv, PointOK, Plain, Exiting, Fragile, WorkerPoints, OnCpu
  <1>6. PlaceOK'
    BY <1>0, <1>1, <1>2, <1>3 DEF WorkersInv, PlaceOK, Plain
  <1>7. MainAt'
    BY <1>0, <1>1 DEF WorkersInv, MainAt
  <1>8. JoinOK'
    BY <1>0, <1>1, <1>3 DEF WorkersInv, JoinOK, Plain, Exiting
  <1>9. RoundsOK'
    BY <1>0, <1>1 DEF WorkersInv, RoundsOK, Plain, Exiting
  <1> QED
    BY <1>2, <1>4, <1>5, <1>6, <1>7, <1>8, <1>9 DEF Placed

\* A thread that finds the mutex taken becomes BLOCKED; it was running.
LEMMA LockBlockKeeps ==
  ASSUME WorkersInv, NEW t \in Workers, UNCHANGED policy, LockBlock(t)
  PROVE  Placed' /\ WakeOK'
  <1>0. /\ pc \in [Threads -> PCs] /\ state \in [Threads -> States] /\ t \in Threads /\ t # Main
        /\ iter \in [Threads -> Nat] /\ waiting \in [Threads -> {Main, NULL}] /\ Main \in Threads
        /\ cpu = "thread" /\ running = t /\ t # NULL /\ Main # NULL /\ Workers \subseteq Threads
    BY Ids, Shapes DEF WorkersInv, OnCpu, LockBlock
  <1>1. /\ UNCHANGED <<policy, cpu, running, iter, ready, waitq, table, joined, waiting, locked>>
        /\ pc[t] = "lock_block" /\ (state[t] # "BLOCKED" => pc'[t] = "lock_enqueue")
        /\ \A u \in Threads : u # t => pc'[u] = pc[u]
        /\ state'[t] = "BLOCKED" /\ \A u \in Threads : u # t => state'[u] = state[u]
        /\ Next1' = Next1 /\ pc'[Main] = pc[Main]
        /\ state'[Main] = state[Main]
    BY <1>0 DEF LockBlock, schedvars, tablevars, joinvars, mutexvars, Goto, SetState, Next1
  <1>2. pc[Main] \in Creating \cup Joining => Next1 \in Workers
    BY NextIsWorker DEF WorkersInv
  <1>3. state[t] = "RUNNING"
    BY <1>0, <1>1, <1>2 DEF WorkersInv, CpuOK, StatesAt, Exiting
  <1>4. pc'[t] = "lock_enqueue" /\ locked
    BY <1>0, <1>1, <1>2, <1>3 DEF WorkersInv, WakeOK
  <1>5. /\ ReadyOnce' /\ WaitOnce'
        /\ \A u \in Threads : (Queued(u)' <=> Queued(u)) /\ (Waits(u)' <=> Waits(u))
    BY <1>1, SameQueues DEF WorkersInv
  <1>6. CpuOK'
    BY <1>0, <1>1, <1>2, <1>3, <1>4, <1>5 DEF WorkersInv, CpuOK, StatesAt, Exiting
  <1>7. PointOK'
    BY <1>0, <1>1, <1>2, <1>3, <1>4, <1>5 DEF WorkersInv, PointOK, Exiting, Fragile,
       WorkerPoints, MainPoints, Creating, Joining, OnCpu
  <1>8. PlaceOK'
    BY <1>0, <1>1, <1>2, <1>3, <1>4, <1>5 DEF WorkersInv, PlaceOK, DeadEnds
  <1>9. MainAt'
    BY <1>0, <1>1, <1>2, <1>3, <1>4, <1>5 DEF WorkersInv, MainAt, Creating, Joining
  <1>10. JoinOK'
    BY <1>0, <1>1, <1>2, <1>3, <1>4, <1>5 DEF WorkersInv, JoinOK, Exiting, Creating, Joining
  <1>11. RoundsOK'
    BY <1>0, <1>1, <1>2, <1>3, <1>4, <1>5 DEF WorkersInv, RoundsOK, Exiting
  <1>12. WakeOK'
    BY <1>0, <1>1, <1>2, <1>3, <1>4, <1>5 DEF WorkersInv, WakeOK
  <1> QED
    BY <1>5, <1>6, <1>7, <1>8, <1>9, <1>10, <1>11, <1>12 DEF Placed

\* It joins the mutex's queue, where it was not.
LEMMA LockEnqueueKeeps ==
  ASSUME WorkersInv, NEW t \in Workers, UNCHANGED policy, LockEnqueue(t)
  PROVE  Placed' /\ WakeOK'
  <1>0. /\ pc \in [Threads -> PCs] /\ state \in [Threads -> States] /\ t \in Threads /\ t # Main
        /\ iter \in [Threads -> Nat] /\ waiting \in [Threads -> {Main, NULL}] /\ Main \in Threads
        /\ cpu = "thread" /\ running = t /\ t # NULL /\ Main # NULL /\ Workers \subseteq Threads
    BY Ids, Shapes DEF WorkersInv, OnCpu, LockEnqueue
  <1>1. /\ UNCHANGED <<policy, cpu, running, state, iter, ready, table, joined, waiting, locked>>
        /\ pc[t] = "lock_enqueue" /\ waitq' = Append(waitq, t)
        /\ pc'[t] = "lock_swap" /\ \A u \in Threads : u # t => pc'[u] = pc[u]
        /\ Next1' = Next1 /\ pc'[Main] = pc[Main]
        /\ state'[Main] = state[Main]
    BY <1>0 DEF LockEnqueue, schedvars, tablevars, joinvars, mutexvars, Goto, SetState, Next1
  <1>2. pc[Main] \in Creating \cup Joining => Next1 \in Workers
    BY NextIsWorker DEF WorkersInv
  <1>3. state[t] = "BLOCKED"
    BY <1>0, <1>1, <1>2 DEF WorkersInv, CpuOK, StatesAt, Exiting
  <1>4. locked /\ ~Waits(t)
    BY <1>0, <1>1, <1>2, <1>3 DEF WorkersInv, WakeOK, PlaceOK
  <1>5. /\ ReadyOnce' /\ WaitOnce'
        /\ \A u \in Threads : (Queued(u)' <=> Queued(u)) /\ (Waits(u)' <=> (Waits(u) \/ u = t))
    BY <1>0, <1>1, <1>2, <1>3, <1>4, SameQueues, AddWaiter, Shapes DEF WorkersInv
  <1>6. CpuOK'
    BY <1>0, <1>1, <1>2, <1>3, <1>4, <1>5 DEF WorkersInv, CpuOK, StatesAt, Exiting
  <1>7. PointOK'
    BY <1>0, <1>1, <1>2, <1>3, <1>4, <1>5 DEF WorkersInv, PointOK, Exiting, Fragile,
       WorkerPoints, MainPoints, Creating, Joining, OnCpu
  <1>8. PlaceOK'
    BY <1>0, <1>1, <1>2, <1>3, <1>4, <1>5 DEF WorkersInv, PlaceOK, DeadEnds
  <1>9. MainAt'
    BY <1>0, <1>1, <1>2, <1>3, <1>4, <1>5 DEF WorkersInv, MainAt, Creating, Joining
  <1>10. JoinOK'
    BY <1>0, <1>1, <1>2, <1>3, <1>4, <1>5 DEF WorkersInv, JoinOK, Exiting, Creating, Joining
  <1>11. RoundsOK'
    BY <1>0, <1>1, <1>2, <1>3, <1>4, <1>5 DEF WorkersInv, RoundsOK, Exiting
  <1>12. WakeOK'
    BY <1>0, <1>1, <1>2, <1>3, <1>4, <1>5 DEF WorkersInv, WakeOK
  <1> QED
    BY <1>5, <1>6, <1>7, <1>8, <1>9, <1>10, <1>11, <1>12 DEF Placed

\* It gives the processor up and will try again.
LEMMA LockSwapKeeps ==
  ASSUME WorkersInv, NEW t \in Workers, UNCHANGED policy, LockSwap(t)
  PROVE  Placed' /\ WakeOK'
  <1>0. /\ pc \in [Threads -> PCs] /\ state \in [Threads -> States] /\ t \in Threads /\ t # Main
        /\ iter \in [Threads -> Nat] /\ waiting \in [Threads -> {Main, NULL}] /\ Main \in Threads
        /\ cpu = "thread" /\ running = t /\ t # NULL /\ Main # NULL /\ Workers \subseteq Threads
    BY Ids, Shapes DEF WorkersInv, OnCpu, LockSwap
  <1>1. /\ UNCHANGED <<policy, running, state, iter, ready, waitq, table, joined, waiting, locked>>
        /\ pc[t] = "lock_swap" /\ cpu' = "sched_in"
        /\ pc'[t] = "lock" /\ \A u \in Threads : u # t => pc'[u] = pc[u]
        /\ Next1' = Next1 /\ pc'[Main] = pc[Main]
        /\ state'[Main] = state[Main]
    BY <1>0 DEF LockSwap, swapcontext, schedvars, tablevars, joinvars, mutexvars, Goto,
       SetState, Next1
  <1>2. pc[Main] \in Creating \cup Joining => Next1 \in Workers
    BY NextIsWorker DEF WorkersInv
  <1>3. state[t] = "BLOCKED"
    BY <1>0, <1>1, <1>2 DEF WorkersInv, CpuOK, StatesAt, Exiting
  <1>4. /\ ReadyOnce' /\ WaitOnce'
        /\ \A u \in Threads : (Queued(u)' <=> Queued(u)) /\ (Waits(u)' <=> Waits(u))
    BY <1>1, SameQueues DEF WorkersInv
  <1>5. CpuOK'
    BY <1>0, <1>1, <1>2, <1>3, <1>4 DEF WorkersInv, CpuOK, StatesAt, Exiting
  <1>6. PointOK'
    BY <1>0, <1>1, <1>2, <1>3, <1>4 DEF WorkersInv, PointOK, Exiting, Fragile,
       WorkerPoints, MainPoints, Creating, Joining, OnCpu
  <1>7. PlaceOK'
    BY <1>0, <1>1, <1>2, <1>3, <1>4 DEF WorkersInv, PlaceOK, DeadEnds
  <1>8. MainAt'
    BY <1>0, <1>1, <1>2, <1>3, <1>4 DEF WorkersInv, MainAt, Creating, Joining
  <1>9. JoinOK'
    BY <1>0, <1>1, <1>2, <1>3, <1>4 DEF WorkersInv, JoinOK, Exiting, Creating, Joining
  <1>10. RoundsOK'
    BY <1>0, <1>1, <1>2, <1>3, <1>4 DEF WorkersInv, RoundsOK, Exiting
  <1>11. WakeOK'
    BY <1>0, <1>1, <1>2, <1>3, <1>4 DEF WorkersInv, WakeOK
  <1> QED
    BY <1>4, <1>5, <1>6, <1>7, <1>8, <1>9, <1>10, <1>11 DEF Placed

\* worker_yield makes the running thread READY, and it is in no queue yet.
LEMMA YieldKeeps ==
  ASSUME WorkersInv, NEW t \in Workers, UNCHANGED policy, Yield(t)
  PROVE  Placed' /\ WakeOK'
  <1>0. /\ pc \in [Threads -> PCs] /\ state \in [Threads -> States] /\ t \in Threads /\ t # Main
        /\ iter \in [Threads -> Nat] /\ waiting \in [Threads -> {Main, NULL}] /\ Main \in Threads
        /\ cpu = "thread" /\ running = t /\ t # NULL /\ Main # NULL /\ Workers \subseteq Threads
    BY Ids, Shapes DEF WorkersInv, OnCpu, Yield
  <1>1. /\ UNCHANGED <<policy, cpu, running, iter, ready, waitq, table, joined, waiting, locked>>
        /\ pc[t] = "yield"
        /\ pc'[t] = "yield_swap" /\ \A u \in Threads : u # t => pc'[u] = pc[u]
        /\ state'[t] = "READY" /\ \A u \in Threads : u # t => state'[u] = state[u]
        /\ Next1' = Next1 /\ pc'[Main] = pc[Main]
        /\ state'[Main] = state[Main]
    BY <1>0 DEF Yield, schedvars, tablevars, joinvars, mutexvars, Goto, SetState, Next1
  <1>2. pc[Main] \in Creating \cup Joining => Next1 \in Workers
    BY NextIsWorker DEF WorkersInv
  <1>3. state[t] = "RUNNING"
    BY <1>0, <1>1, <1>2 DEF WorkersInv, CpuOK, StatesAt, Exiting
  <1>4. /\ ReadyOnce' /\ WaitOnce'
        /\ \A u \in Threads : (Queued(u)' <=> Queued(u)) /\ (Waits(u)' <=> Waits(u))
    BY <1>1, SameQueues DEF WorkersInv
  <1>5. CpuOK'
    BY <1>0, <1>1, <1>2, <1>3, <1>4 DEF WorkersInv, CpuOK, StatesAt, Exiting
  <1>6. PointOK'
    BY <1>0, <1>1, <1>2, <1>3, <1>4 DEF WorkersInv, PointOK, Exiting, Fragile,
       WorkerPoints, MainPoints, Creating, Joining, OnCpu
  <1>7. PlaceOK'
    BY <1>0, <1>1, <1>2, <1>3, <1>4 DEF WorkersInv, PlaceOK, DeadEnds
  <1>8. MainAt'
    BY <1>0, <1>1, <1>2, <1>3, <1>4 DEF WorkersInv, MainAt, Creating, Joining
  <1>9. JoinOK'
    BY <1>0, <1>1, <1>2, <1>3, <1>4 DEF WorkersInv, JoinOK, Exiting, Creating, Joining
  <1>10. RoundsOK'
    BY <1>0, <1>1, <1>2, <1>3, <1>4 DEF WorkersInv, RoundsOK, Exiting
  <1>11. WakeOK'
    BY <1>0, <1>1, <1>2, <1>3, <1>4 DEF WorkersInv, WakeOK
  <1> QED
    BY <1>4, <1>5, <1>6, <1>7, <1>8, <1>9, <1>10, <1>11 DEF Placed

\* It gives the processor up.
LEMMA YieldSwapKeeps ==
  ASSUME WorkersInv, NEW t \in Workers, UNCHANGED policy, YieldSwap(t)
  PROVE  Placed' /\ WakeOK'
  <1>0. /\ pc \in [Threads -> PCs] /\ state \in [Threads -> States] /\ t \in Threads /\ t # Main
        /\ iter \in [Threads -> Nat] /\ waiting \in [Threads -> {Main, NULL}] /\ Main \in Threads
        /\ cpu = "thread" /\ running = t /\ t # NULL /\ Main # NULL /\ Workers \subseteq Threads
    BY Ids, Shapes DEF WorkersInv, OnCpu, YieldSwap
  <1>1. /\ UNCHANGED <<policy, running, state, iter, ready, waitq, table, joined, waiting, locked>>
        /\ pc[t] = "yield_swap" /\ cpu' = "sched_in"
        /\ pc'[t] = "lock" /\ \A u \in Threads : u # t => pc'[u] = pc[u]
        /\ Next1' = Next1 /\ pc'[Main] = pc[Main]
        /\ state'[Main] = state[Main]
    BY <1>0 DEF YieldSwap, swapcontext, schedvars, tablevars, joinvars, mutexvars, Goto,
       SetState, Next1
  <1>2. pc[Main] \in Creating \cup Joining => Next1 \in Workers
    BY NextIsWorker DEF WorkersInv
  <1>3. state[t] \in {"READY", "RUNNING"}
    BY <1>0, <1>1, <1>2 DEF WorkersInv, CpuOK, StatesAt, Exiting
  <1>4. policy \in Yields
    BY <1>0, <1>1, <1>2, <1>3 DEF WorkersInv, PointOK
  <1>5. /\ ReadyOnce' /\ WaitOnce'
        /\ \A u \in Threads : (Queued(u)' <=> Queued(u)) /\ (Waits(u)' <=> Waits(u))
    BY <1>1, SameQueues DEF WorkersInv
  <1>6. CpuOK'
    BY <1>0, <1>1, <1>2, <1>3, <1>4, <1>5 DEF WorkersInv, CpuOK, StatesAt, Exiting
  <1>7. PointOK'
    BY <1>0, <1>1, <1>2, <1>3, <1>4, <1>5 DEF WorkersInv, PointOK, Exiting, Fragile,
       WorkerPoints, MainPoints, Creating, Joining, OnCpu
  <1>8. PlaceOK'
    BY <1>0, <1>1, <1>2, <1>3, <1>4, <1>5 DEF WorkersInv, PlaceOK, DeadEnds
  <1>9. MainAt'
    BY <1>0, <1>1, <1>2, <1>3, <1>4, <1>5 DEF WorkersInv, MainAt, Creating, Joining
  <1>10. JoinOK'
    BY <1>0, <1>1, <1>2, <1>3, <1>4, <1>5 DEF WorkersInv, JoinOK, Exiting, Creating, Joining
  <1>11. RoundsOK'
    BY <1>0, <1>1, <1>2, <1>3, <1>4, <1>5 DEF WorkersInv, RoundsOK, Exiting
  <1>12. WakeOK'
    BY <1>0, <1>1, <1>2, <1>3, <1>4, <1>5 DEF WorkersInv, WakeOK
  <1> QED
    BY <1>5, <1>6, <1>7, <1>8, <1>9, <1>10, <1>11, <1>12 DEF Placed

\* worker_exit: a thread main joins has not told it yet.
LEMMA ExitKeeps ==
  ASSUME WorkersInv, NEW t \in Workers, UNCHANGED policy, Exit(t)
  PROVE  Placed' /\ WakeOK'
  <1>0. /\ pc \in [Threads -> PCs] /\ state \in [Threads -> States] /\ t \in Threads /\ t # Main
        /\ iter \in [Threads -> Nat] /\ waiting \in [Threads -> {Main, NULL}] /\ Main \in Threads
        /\ cpu = "thread" /\ running = t /\ t # NULL /\ Main # NULL /\ Workers \subseteq Threads
    BY Ids, Shapes DEF WorkersInv, OnCpu, Exit
  <1>1. /\ UNCHANGED <<policy, cpu, running, iter, ready, waitq, table, joined, waiting, locked>>
        /\ pc[t] = "exit"
        /\ pc'[t] = "exit_wake" /\ \A u \in Threads : u # t => pc'[u] = pc[u]
        /\ state'[t] = "TERMINATED" /\ \A u \in Threads : u # t => state'[u] = state[u]
        /\ Next1' = Next1 /\ pc'[Main] = pc[Main]
        /\ state'[Main] = state[Main]
    BY <1>0 DEF Exit, schedvars, tablevars, joinvars, mutexvars, Goto, SetState, Next1
  <1>2. pc[Main] \in Creating \cup Joining => Next1 \in Workers
    BY NextIsWorker DEF WorkersInv
  <1>3. state[t] = "RUNNING"
    BY <1>0, <1>1, <1>2 DEF WorkersInv, CpuOK, StatesAt, Exiting
  <1>4. pc[Main] \notin {"join_block", "join_wait"}
    BY <1>0, <1>1, <1>2, <1>3 DEF WorkersInv, PointOK, Fragile, OnCpu
  <1>5. /\ ReadyOnce' /\ WaitOnce'
        /\ \A u \in Threads : (Queued(u)' <=> Queued(u)) /\ (Waits(u)' <=> Waits(u))
    BY <1>1, SameQueues DEF WorkersInv
  <1>6. CpuOK'
    BY <1>0, <1>1, <1>2, <1>3, <1>4, <1>5 DEF WorkersInv, CpuOK, StatesAt, Exiting
  <1>7. PointOK'
    BY <1>0, <1>1, <1>2, <1>3, <1>4, <1>5 DEF WorkersInv, PointOK, Exiting, Fragile,
       WorkerPoints, MainPoints, Creating, Joining, OnCpu
  <1>8. PlaceOK'
    BY <1>0, <1>1, <1>2, <1>3, <1>4, <1>5 DEF WorkersInv, PlaceOK, DeadEnds
  <1>9. MainAt'
    BY <1>0, <1>1, <1>2, <1>3, <1>4, <1>5 DEF WorkersInv, MainAt, Creating, Joining
  <1>10. JoinOK'
    BY <1>0, <1>1, <1>2, <1>3, <1>4, <1>5 DEF WorkersInv, JoinOK, Exiting, Creating, Joining
  <1>11. RoundsOK'
    BY <1>0, <1>1, <1>2, <1>3, <1>4, <1>5 DEF WorkersInv, RoundsOK, Exiting
  <1>12. WakeOK'
    BY <1>0, <1>1, <1>2, <1>3, <1>4, <1>5 DEF WorkersInv, WakeOK
  <1> QED
    BY <1>5, <1>6, <1>7, <1>8, <1>9, <1>10, <1>11, <1>12 DEF Placed

\* The thread is gone; main does not wait for it any more.
LEMMA ExitSwapKeeps ==
  ASSUME WorkersInv, NEW t \in Workers, UNCHANGED policy, ExitSwap(t)
  PROVE  Placed' /\ WakeOK'
  <1>0. /\ pc \in [Threads -> PCs] /\ state \in [Threads -> States] /\ t \in Threads /\ t # Main
        /\ iter \in [Threads -> Nat] /\ waiting \in [Threads -> {Main, NULL}] /\ Main \in Threads
        /\ cpu = "thread" /\ running = t /\ t # NULL /\ Main # NULL /\ Workers \subseteq Threads
    BY Ids, Shapes DEF WorkersInv, OnCpu, ExitSwap
  <1>1. /\ UNCHANGED <<policy, running, state, iter, ready, waitq, table, joined, waiting, locked>>
        /\ pc[t] = "exit_swap" /\ cpu' = "sched_in"
        /\ pc'[t] = "gone" /\ \A u \in Threads : u # t => pc'[u] = pc[u]
        /\ Next1' = Next1 /\ pc'[Main] = pc[Main]
        /\ state'[Main] = state[Main]
    BY <1>0 DEF ExitSwap, swapcontext, schedvars, tablevars, joinvars, mutexvars, Goto,
       SetState, Next1
  <1>2. pc[Main] \in Creating \cup Joining => Next1 \in Workers
    BY NextIsWorker DEF WorkersInv
  <1>3. state[t] = "TERMINATED"
    BY <1>0, <1>1, <1>2 DEF WorkersInv, CpuOK, StatesAt, Exiting
  <1>4. /\ ReadyOnce' /\ WaitOnce'
        /\ \A u \in Threads : (Queued(u)' <=> Queued(u)) /\ (Waits(u)' <=> Waits(u))
    BY <1>1, SameQueues DEF WorkersInv
  <1>5. CpuOK'
    BY <1>0, <1>1, <1>2, <1>3, <1>4 DEF WorkersInv, CpuOK, StatesAt, Exiting
  <1>6. PointOK'
    BY <1>0, <1>1, <1>2, <1>3, <1>4 DEF WorkersInv, PointOK, Exiting, Fragile,
       WorkerPoints, MainPoints, Creating, Joining, OnCpu
  <1>7. PlaceOK'
    BY <1>0, <1>1, <1>2, <1>3, <1>4 DEF WorkersInv, PlaceOK, DeadEnds
  <1>8. MainAt'
    BY <1>0, <1>1, <1>2, <1>3, <1>4 DEF WorkersInv, MainAt, Creating, Joining
  <1>9. JoinOK'
    BY <1>0, <1>1, <1>2, <1>3, <1>4 DEF WorkersInv, JoinOK, Exiting, Creating, Joining
  <1>10. RoundsOK'
    BY <1>0, <1>1, <1>2, <1>3, <1>4 DEF WorkersInv, RoundsOK, Exiting
  <1>11. WakeOK'
    BY <1>0, <1>1, <1>2, <1>3, <1>4 DEF WorkersInv, WakeOK
  <1> QED
    BY <1>4, <1>5, <1>6, <1>7, <1>8, <1>9, <1>10, <1>11 DEF Placed

\* worker_mutex_unlock hands the first waiter to the scheduler.
LEMMA UnlockWakeKeeps ==
  ASSUME WorkersInv, NEW t \in Workers, UNCHANGED policy, UnlockWake(t), Wakes
  PROVE  Placed' /\ WakeOK'
  <1>0. /\ pc \in [Threads -> PCs] /\ state \in [Threads -> States] /\ t \in Threads /\ t # Main
        /\ iter \in [Threads -> Nat] /\ waiting \in [Threads -> {Main, NULL}] /\ Main \in Threads
        /\ cpu = "thread" /\ running = t /\ t # NULL /\ Main # NULL /\ Workers \subseteq Threads
    BY Ids, Shapes DEF WorkersInv, OnCpu, UnlockWake
  <1>1. /\ UNCHANGED <<policy, cpu, running, table, joined, waiting, locked>>
        /\ pc[t] = "unlock_wake" /\ iter'[t] = iter[t] + 1 /\ iter[t] \in Nat
        /\ \A u \in Threads : u # t => iter'[u] = iter[u] /\ pc'[u] = pc[u]
        /\ iter[t] + 1 = Rounds => pc'[t] = "exit"
        /\ iter[t] + 1 # Rounds => pc'[t] \in {"lock", "yield"} /\ (pc'[t] = "yield" => policy \in Yields)
        /\ Next1' = Next1 /\ pc'[Main] = pc[Main]
    BY <1>0 DEF UnlockWake, AfterUnlock, Wakes, schedvars, tablevars, joinvars, mutexvars,
       Goto, Next1
  <1>2. pc[Main] \in Creating \cup Joining => Next1 \in Workers
    BY NextIsWorker DEF WorkersInv
  <1>3. state[t] = "RUNNING"
    BY <1>0, <1>1, <1>2 DEF WorkersInv, CpuOK, StatesAt, Exiting
  <1>4. iter[t] < Rounds /\ Rounds \in Nat
    BY <1>0, <1>1, <1>2, <1>3, WorkersAssumption DEF WorkersInv, RoundsOK, Exiting
  <1>5. iter[t] + 1 = Rounds <=> pc'[t] = "exit"
    BY <1>0, <1>1, <1>2, <1>3, <1>4
  <1>6. waitq # <<>> /\ waitq' = Tail(waitq) /\ MakeReady(Head(waitq))
    BY DEF UnlockWake, Wakes
  <1>7. /\ Head(waitq) \in Threads /\ Waits(Head(waitq)) /\ WaitOnce'
        /\ \A u \in Threads : Waits(u)' <=> (Waits(u) /\ u # Head(waitq))
    BY <1>0, <1>1, <1>2, <1>3, <1>4, <1>5, <1>6, Shapes, TakeWaiter DEF WorkersInv
  <1>8. PICK h \in Threads : h = Head(waitq)
    BY <1>0, <1>1, <1>2, <1>3, <1>4, <1>5, <1>6, <1>7
  <1>9. h \in Workers /\ state[h] = "BLOCKED" /\ pc[h] # "lock_enqueue" /\ ~Queued(h) /\ h # t
    BY <1>0, <1>1, <1>2, <1>3, <1>4, <1>5, <1>6, <1>7, <1>8 DEF WorkersInv, PlaceOK
  <1>10. pc[h] = "lock" /\ (pc[Main] = "create_add" => h # Next1)
    BY <1>0, <1>1, <1>2, <1>3, <1>4, <1>5, <1>6, <1>7, <1>8, <1>9 DEF WorkersInv, PointOK,
       MainAt, Fragile, OnCpu
  <1>11. /\ state'[h] = "READY" /\ \A u \in Threads : u # h => state'[u] = state[u]
    BY <1>0, <1>1, <1>2, <1>3, <1>4, <1>5, <1>6, <1>7, <1>8, <1>9, <1>10 DEF MakeReady, SetState
  <1>12. ready' = add_to_scheduler(h, ready)
    BY <1>0, <1>1, <1>2, <1>3, <1>4, <1>5, <1>6, <1>7, <1>8, <1>9, <1>10, <1>11 DEF MakeReady
  <1>13. state'[Main] = state[Main]
    BY <1>0, <1>1, <1>2, <1>3, <1>4, <1>5, <1>6, <1>7, <1>8, <1>9, <1>10, <1>11, <1>12, Ids
  <1>14. /\ ReadyOnce' /\ WaitOnce'
        /\ \A u \in Threads : (Queued(u)' <=> (Queued(u) \/ u = h)) /\ (Waits(u)' <=> (Waits(u) /\ u # h))
    BY <1>0, <1>1, <1>2, <1>3, <1>4, <1>5, <1>6, <1>7, <1>8, <1>9, <1>10, <1>11, <1>12,
       <1>13, AddEntry, Shapes DEF WorkersInv
  <1>15. CpuOK'
    BY <1>0, <1>1, <1>2, <1>3, <1>4, <1>5, <1>9, <1>10, <1>11, <1>13, <1>14 DEF
       WorkersInv, CpuOK, StatesAt, Exiting
  <1>16. PointOK'
    BY <1>0, <1>1, <1>2, <1>3, <1>4, <1>5, <1>9, <1>10, <1>11, <1>13, <1>14 DEF
       WorkersInv, PointOK, Exiting, Fragile, WorkerPoints, MainPoints, Creating, Joining,
       OnCpu
  <1>17. PlaceOK'
    BY <1>0, <1>1, <1>2, <1>3, <1>4, <1>5, <1>9, <1>10, <1>11, <1>13, <1>14 DEF
       WorkersInv, PlaceOK, DeadEnds
  <1>18. MainAt'
    BY <1>0, <1>1, <1>2, <1>3, <1>4, <1>5, <1>9, <1>10, <1>11, <1>13, <1>14 DEF
       WorkersInv, MainAt, Creating, Joining
  <1>19. JoinOK'
    BY <1>0, <1>1, <1>2, <1>3, <1>4, <1>5, <1>9, <1>10, <1>11, <1>13, <1>14 DEF
       WorkersInv, JoinOK, Exiting, Creating, Joining
  <1>20. RoundsOK'
    BY <1>0, <1>1, <1>2, <1>3, <1>4, <1>5, <1>9, <1>10, <1>11, <1>13, <1>14 DEF
       WorkersInv, RoundsOK, Exiting
  <1>21. WakeOK'
    BY <1>0, <1>1, <1>2, <1>3, <1>4, <1>5, <1>9, <1>10, <1>11, <1>13, <1>14 DEF
       WorkersInv, WakeOK
  <1> QED
    BY <1>14, <1>15, <1>16, <1>17, <1>18, <1>19, <1>20, <1>21 DEF Placed

\* worker_mutex_unlock when nobody waits.
LEMMA UnlockAloneKeeps ==
  ASSUME WorkersInv, NEW t \in Workers, UNCHANGED policy, UnlockWake(t), ~Wakes
  PROVE  Placed' /\ WakeOK'
  <1>0. /\ pc \in [Threads -> PCs] /\ state \in [Threads -> States] /\ t \in Threads /\ t # Main
        /\ iter \in [Threads -> Nat] /\ waiting \in [Threads -> {Main, NULL}] /\ Main \in Threads
        /\ cpu = "thread" /\ running = t /\ t # NULL /\ Main # NULL /\ Workers \subseteq Threads
    BY Ids, Shapes DEF WorkersInv, OnCpu, UnlockWake
  <1>1. /\ UNCHANGED <<policy, cpu, running, state, ready, waitq, table, joined, waiting, locked>>
        /\ pc[t] = "unlock_wake" /\ iter'[t] = iter[t] + 1 /\ iter[t] \in Nat
        /\ \A u \in Threads : u # t => iter'[u] = iter[u] /\ pc'[u] = pc[u]
        /\ iter[t] + 1 = Rounds => pc'[t] = "exit"
        /\ iter[t] + 1 # Rounds => pc'[t] \in {"lock", "yield"} /\ (pc'[t] = "yield" => policy \in Yields)
        /\ waitq = <<>>
        /\ Next1' = Next1 /\ pc'[Main] = pc[Main]
    BY <1>0 DEF UnlockWake, AfterUnlock, Wakes, schedvars, tablevars, joinvars, mutexvars,
       Goto, SetState, Next1
  <1>2. pc[Main] \in Creating \cup Joining => Next1 \in Workers
    BY NextIsWorker DEF WorkersInv
  <1>3. state[t] = "RUNNING"
    BY <1>0, <1>1, <1>2 DEF WorkersInv, CpuOK, StatesAt, Exiting
  <1>4. iter[t] < Rounds /\ Rounds \in Nat
    BY <1>0, <1>1, <1>2, <1>3, WorkersAssumption, SMTT(60) DEF WorkersInv, RoundsOK, Exiting
  <1>5. iter[t] + 1 = Rounds <=> pc'[t] = "exit"
    BY <1>0, <1>1, <1>2, <1>3, <1>4
  <1>6. /\ ReadyOnce' /\ WaitOnce'
        /\ \A u \in Threads : (Queued(u)' <=> Queued(u)) /\ (Waits(u)' <=> Waits(u))
    BY <1>1, SameQueues DEF WorkersInv
  <1>7. CpuOK'
    BY <1>0, <1>1, <1>2, <1>3, <1>4, <1>5, <1>6 DEF WorkersInv, CpuOK, StatesAt, Exiting
  <1>8. PointOK'
    BY <1>0, <1>1, <1>2, <1>3, <1>4, <1>5, <1>6 DEF WorkersInv, PointOK, Exiting, Fragile,
       WorkerPoints, MainPoints, Creating, Joining, OnCpu
  <1>9. PlaceOK'
    BY <1>0, <1>1, <1>2, <1>3, <1>4, <1>5, <1>6 DEF WorkersInv, PlaceOK, DeadEnds
  <1>10. MainAt'
    BY <1>0, <1>1, <1>2, <1>3, <1>4, <1>5, <1>6 DEF WorkersInv, MainAt, Creating, Joining
  <1>11. JoinOK'
    BY <1>0, <1>1, <1>2, <1>3, <1>4, <1>5, <1>6 DEF WorkersInv, JoinOK, Exiting, Creating,
       Joining
  <1>12. RoundsOK'
    BY <1>0, <1>1, <1>2, <1>3, <1>4, <1>5, <1>6 DEF WorkersInv, RoundsOK, Exiting
  <1>13. WakeOK'
    BY <1>0, <1>1, <1>2, <1>3, <1>4, <1>5, <1>6 DEF WorkersInv, WakeOK
  <1> QED
    BY <1>6, <1>7, <1>8, <1>9, <1>10, <1>11, <1>12, <1>13 DEF Placed

\* worker_exit hands main, which joins this thread, to the scheduler.
LEMMA ExitWakeKeeps ==
  ASSUME WorkersInv, NEW t \in Workers, UNCHANGED policy, ExitWake(t), HasJoiner(t)
  PROVE  Placed' /\ WakeOK'
  <1>0. /\ pc \in [Threads -> PCs] /\ state \in [Threads -> States] /\ t \in Threads /\ t # Main
        /\ iter \in [Threads -> Nat] /\ waiting \in [Threads -> {Main, NULL}] /\ Main \in Threads
        /\ cpu = "thread" /\ running = t /\ t # NULL /\ Main # NULL /\ Workers \subseteq Threads
    BY Ids, Shapes DEF WorkersInv, OnCpu, ExitWake
  <1>1. /\ UNCHANGED <<policy, cpu, running, iter, waitq, table, joined, locked>>
        /\ pc[t] = "exit_wake" /\ waiting[t] # NULL /\ MakeReady(waiting[t])
        /\ pc'[t] = "exit_swap" /\ \A u \in Threads : u # t => pc'[u] = pc[u]
        /\ waiting'[t] = NULL /\ \A u \in Threads : u # t => waiting'[u] = waiting[u]
        /\ Next1' = Next1 /\ pc'[Main] = pc[Main]
    BY <1>0 DEF ExitWake, HasJoiner, schedvars, tablevars, joinvars, mutexvars, Goto, Next1
  <1>2. pc[Main] \in Creating \cup Joining => Next1 \in Workers
    BY NextIsWorker DEF WorkersInv
  <1>3. state[t] = "TERMINATED"
    BY <1>0, <1>1, <1>2 DEF WorkersInv, CpuOK, StatesAt, Exiting
  <1>4. waiting[t] = Main
    BY <1>0, <1>1, <1>2, <1>3
  <1>5. t = Next1 /\ state[Main] = "BLOCKED" /\ pc[Main] \in {"join_swap", "join_cleanup"}
    BY <1>0, <1>1, <1>2, <1>3, <1>4 DEF WorkersInv, JoinOK
  <1>6. /\ state'[Main] = "READY" /\ ready' = add_to_scheduler(Main, ready)
        /\ \A u \in Threads : u # Main => state'[u] = state[u]
    BY <1>0, <1>1, <1>2, <1>3, <1>4, <1>5 DEF MakeReady, SetState
  <1>7. ~Queued(Main) /\ \A w \in Workers : w # Main
    BY <1>0, <1>1, <1>2, <1>3, <1>4, <1>5, <1>6, Ids DEF WorkersInv, PlaceOK
  <1>8. /\ ReadyOnce' /\ WaitOnce'
        /\ \A u \in Threads : (Queued(u)' <=> (Queued(u) \/ u = Main)) /\ (Waits(u)' <=> Waits(u))
    BY <1>0, <1>1, <1>2, <1>3, <1>4, <1>5, <1>6, <1>7, AddEntry, SameQueues, Shapes DEF
       WorkersInv
  <1>9. CpuOK'
    BY <1>0, <1>1, <1>2, <1>3, <1>4, <1>5, <1>6, <1>7, <1>8 DEF WorkersInv, CpuOK,
       StatesAt, Exiting
  <1>10. PointOK'
    BY <1>0, <1>1, <1>2, <1>3, <1>4, <1>5, <1>6, <1>7, <1>8 DEF WorkersInv, PointOK,
       Exiting, Fragile, WorkerPoints, MainPoints, Creating, Joining, OnCpu
  <1>11. PlaceOK'
    BY <1>0, <1>1, <1>2, <1>3, <1>4, <1>5, <1>6, <1>7, <1>8 DEF WorkersInv, PlaceOK, DeadEnds
  <1>12. MainAt'
    BY <1>0, <1>1, <1>2, <1>3, <1>4, <1>5, <1>6, <1>7, <1>8 DEF WorkersInv, MainAt,
       Creating, Joining
  <1>13. JoinOK'
    BY <1>0, <1>1, <1>2, <1>3, <1>4, <1>5, <1>6, <1>7, <1>8 DEF WorkersInv, JoinOK,
       Exiting, Creating, Joining
  <1>14. RoundsOK'
    BY <1>0, <1>1, <1>2, <1>3, <1>4, <1>5, <1>6, <1>7, <1>8 DEF WorkersInv, RoundsOK, Exiting
  <1>15. WakeOK'
    BY <1>0, <1>1, <1>2, <1>3, <1>4, <1>5, <1>6, <1>7, <1>8 DEF WorkersInv, WakeOK
  <1> QED
    BY <1>8, <1>9, <1>10, <1>11, <1>12, <1>13, <1>14, <1>15 DEF Placed

\* worker_exit of a thread nobody joins yet.
LEMMA ExitAloneKeeps ==
  ASSUME WorkersInv, NEW t \in Workers, UNCHANGED policy, ExitWake(t), ~HasJoiner(t)
  PROVE  Placed' /\ WakeOK'
  <1>0. /\ pc \in [Threads -> PCs] /\ state \in [Threads -> States] /\ t \in Threads /\ t # Main
        /\ iter \in [Threads -> Nat] /\ waiting \in [Threads -> {Main, NULL}] /\ Main \in Threads
        /\ cpu = "thread" /\ running = t /\ t # NULL /\ Main # NULL /\ Workers \subseteq Threads
    BY Ids, Shapes DEF WorkersInv, OnCpu, ExitWake
  <1>1. /\ UNCHANGED <<policy, cpu, running, state, iter, ready, waitq, table, joined, waiting, locked>>
        /\ pc[t] = "exit_wake" /\ waiting[t] = NULL
        /\ pc'[t] = "exit_swap" /\ \A u \in Threads : u # t => pc'[u] = pc[u]
        /\ Next1' = Next1 /\ pc'[Main] = pc[Main]
    BY <1>0 DEF ExitWake, HasJoiner, schedvars, tablevars, joinvars, mutexvars, Goto,
       SetState, Next1
  <1>2. pc[Main] \in Creating \cup Joining => Next1 \in Workers
    BY NextIsWorker DEF WorkersInv
  <1>3. state[t] = "TERMINATED"
    BY <1>0, <1>1, <1>2 DEF WorkersInv, CpuOK, StatesAt, Exiting
  <1>4. /\ ReadyOnce' /\ WaitOnce'
        /\ \A u \in Threads : (Queued(u)' <=> Queued(u)) /\ (Waits(u)' <=> Waits(u))
    BY <1>1, SameQueues DEF WorkersInv
  <1>5. CpuOK'
    BY <1>0, <1>1, <1>2, <1>3, <1>4 DEF WorkersInv, CpuOK, StatesAt, Exiting
  <1>6. PointOK'
    BY <1>0, <1>1, <1>2, <1>3, <1>4 DEF WorkersInv, PointOK, Exiting, Fragile,
       WorkerPoints, MainPoints, Creating, Joining, OnCpu
  <1>7. PlaceOK'
    BY <1>0, <1>1, <1>2, <1>3, <1>4 DEF WorkersInv, PlaceOK, DeadEnds
  <1>8. MainAt'
    BY <1>0, <1>1, <1>2, <1>3, <1>4 DEF WorkersInv, MainAt, Creating, Joining
  <1>9. JoinOK'
    BY <1>0, <1>1, <1>2, <1>3, <1>4 DEF WorkersInv, JoinOK, Exiting, Creating, Joining
  <1>10. RoundsOK'
    BY <1>0, <1>1, <1>2, <1>3, <1>4 DEF WorkersInv, RoundsOK, Exiting
  <1>11. WakeOK'
    BY <1>0, <1>1, <1>2, <1>3, <1>4 DEF WorkersInv, WakeOK
  <1> QED
    BY <1>4, <1>5, <1>6, <1>7, <1>8, <1>9, <1>10, <1>11 DEF Placed

\* Every step of a worker.  The points of Plain are passed with the flag set,
\* or on the way to waking a waiter.
LEMMA WorkerPlaced ==
  ASSUME WorkersInv, NEW t \in Workers, UNCHANGED policy, WorkerStep(t)
  PROVE  Placed' /\ WakeOK'
  <1>0. /\ pc \in [Threads -> PCs] /\ t \in Threads /\ Workers \subseteq Threads
        /\ FlagSet /\ MutualExclusion /\ WakeOK
    BY Ids, Shapes DEF WorkersInv, Typed, MutexInv
  <1>1. CASE Lock(t) \/ LockOwn(t) \/ CriticalSection(t) \/ Unlock(t) \/ UnlockClear(t)
    <2>1. OnCpu(t) /\ pc[t] \in {"lock", "lock_own", "cs", "unlock", "unlock_clear"}
      BY <1>1 DEF Lock, LockOwn, CriticalSection, Unlock, UnlockClear
    <2>2. UNCHANGED <<policy, cpu, running, state, ready, waitq, table, joined, waiting>>
      BY <1>1 DEF Lock, LockOwn, CriticalSection, Unlock, UnlockClear, schedvars, tablevars,
         joinvars, mutexvars
    <2>3. Unlock(t) => owner = t
      BY <1>0 DEF Unlock, MutualExclusion
    <2>4. UNCHANGED iter
      BY <1>1, <2>3 DEF Lock, LockOwn, CriticalSection, Unlock, UnlockClear
    <2>5. PICK l \in Plain : pc' = [pc EXCEPT ![t] = l] /\ l # "lock_enqueue"
      BY <1>1, <2>3 DEF Lock, LockOwn, CriticalSection, Unlock, UnlockClear, Goto, Plain
    <2>6. pc[t] \in Plain
      BY <2>1 DEF Plain
    <2>7. Placed'
      BY <2>1, <2>2, <2>4, <2>5, <2>6, Moves
    <2>8. WakeOK'
      <3>1. CASE UnlockClear(t)
        <4>1. \A u \in Threads : pc[u] \in {"lock_block", "lock_enqueue"} => u = t
          BY <2>1 DEF WorkersInv, PointOK, Fragile, OnCpu
        <4>2. pc'[t] = "unlock_wake" /\ \A u \in Threads : u # t => pc'[u] = pc[u]
          BY <1>0, <3>1 DEF UnlockClear, Goto
        <4>3. \A u \in Threads : pc'[u] \notin {"lock_block", "lock_enqueue"}
          BY <4>1, <4>2
        <4>4. state'[t] = "RUNNING"
          BY <2>1, <2>2 DEF WorkersInv, CpuOK, OnCpu, StatesAt, Exiting
        <4> QED
          BY <4>2, <4>3, <4>4 DEF WakeOK
      <3>2. CASE ~UnlockClear(t)
        <4>1. locked'
          BY <1>0, <1>1, <3>2 DEF Lock, LockOwn, CriticalSection, Unlock, FlagSet, HoldsMutex,
             mutexvars
        <4> QED
          BY <4>1 DEF WakeOK
      <3> QED
        BY <3>1, <3>2
    <2> QED
      BY <2>7, <2>8
  <1>2. CASE Return(t)
    BY <1>2 DEF Return, WorkersInv, CpuOK, OnCpu
  <1> QED
    BY <1>1, <1>2, LockBlockKeeps, LockEnqueueKeeps, LockSwapKeeps, UnlockWakeKeeps,
       UnlockAloneKeeps, YieldKeeps, YieldSwapKeeps, ExitKeeps, ExitWakeKeeps,
       ExitAloneKeeps, ExitSwapKeeps DEF WorkerStep

-----------------------------------------------------------------------------
(***************************************************************************)
(* Steps of main                                                           *)
(***************************************************************************)

\* main gets BLOCKED in worker_join; its target will tell it.
LEMMA JoinBlockKeeps ==
  ASSUME WorkersInv, UNCHANGED policy, JoinBlock
  PROVE  Placed' /\ WakeOK'
  <1>0. /\ pc \in [Threads -> PCs] /\ state \in [Threads -> States] /\ Main \in Threads
        /\ iter \in [Threads -> Nat] /\ waiting \in [Threads -> {Main, NULL}]
        /\ cpu = "thread" /\ running = Main /\ Main # NULL /\ Workers \subseteq Threads
        /\ \A w \in Workers : w # Main /\ w \in Nat
        /\ \A u \in Threads : u # Main => u \in Workers
    BY Ids, Shapes DEF WorkersInv, OnCpu, JoinBlock
  <1>1. /\ UNCHANGED <<policy, cpu, running, iter, ready, waitq, table, joined, waiting, locked>>
        /\ pc[Main] = "join_block" /\ pc'[Main] = "join_wait" /\ \A u \in Threads : u # Main => pc'[u] = pc[u]
        /\ state'[Main] = "BLOCKED" /\ \A u \in Threads : u # Main => state'[u] = state[u]
        /\ Next1' = Next1
    BY <1>0 DEF JoinBlock, schedvars, tablevars, joinvars, mutexvars, Goto, SetState, Next1
  <1>2. pc[Main] \in Creating \cup Joining => Next1 \in Workers
    BY NextIsWorker DEF WorkersInv
  <1>3. state[Main] = "RUNNING"
    BY <1>0, <1>1, <1>2 DEF WorkersInv, CpuOK, StatesAt, Exiting
  <1>4. /\ ReadyOnce' /\ WaitOnce'
        /\ \A u \in Threads : (Queued(u)' <=> Queued(u)) /\ (Waits(u)' <=> Waits(u))
    BY <1>1, SameQueues DEF WorkersInv
  <1>5. CpuOK'
    BY <1>0, <1>1, <1>2, <1>3, <1>4 DEF WorkersInv, CpuOK, StatesAt, Exiting
  <1>6. PointOK'
    BY <1>0, <1>1, <1>2, <1>3, <1>4 DEF WorkersInv, PointOK, Exiting, Fragile,
       WorkerPoints, MainPoints, Creating, Joining, OnCpu
  <1>7. PlaceOK'
    BY <1>0, <1>1, <1>2, <1>3, <1>4 DEF WorkersInv, PlaceOK, DeadEnds
  <1>8. MainAt'
    BY <1>0, <1>1, <1>2, <1>3, <1>4 DEF WorkersInv, MainAt, Creating, Joining
  <1>9. JoinOK'
    BY <1>0, <1>1, <1>2, <1>3, <1>4 DEF WorkersInv, JoinOK, Exiting, Creating, Joining
  <1>10. RoundsOK'
    BY <1>0, <1>1, <1>2, <1>3, <1>4 DEF WorkersInv, RoundsOK, Exiting
  <1>11. WakeOK'
    BY <1>0, <1>1, <1>2, <1>3, <1>4 DEF WorkersInv, WakeOK
  <1> QED
    BY <1>4, <1>5, <1>6, <1>7, <1>8, <1>9, <1>10, <1>11 DEF Placed

\* main is recorded with its target.
LEMMA JoinWaitKeeps ==
  ASSUME WorkersInv, UNCHANGED policy, JoinWait
  PROVE  Placed' /\ WakeOK'
  <1>0. /\ pc \in [Threads -> PCs] /\ state \in [Threads -> States] /\ Main \in Threads
        /\ iter \in [Threads -> Nat] /\ waiting \in [Threads -> {Main, NULL}]
        /\ cpu = "thread" /\ running = Main /\ Main # NULL /\ Workers \subseteq Threads
        /\ \A w \in Workers : w # Main /\ w \in Nat
        /\ \A u \in Threads : u # Main => u \in Workers
    BY Ids, Shapes DEF WorkersInv, OnCpu, JoinWait
  <1>1. /\ UNCHANGED <<policy, cpu, running, state, iter, ready, waitq, table, joined, locked>>
        /\ pc[Main] = "join_wait" /\ pc'[Main] = "join_swap" /\ \A u \in Threads : u # Main => pc'[u] = pc[u]
        /\ waiting' = [waiting EXCEPT ![Next1] = Main]
        /\ Next1' = Next1
    BY <1>0 DEF JoinWait, waiting_thread, OnCpu, schedvars, tablevars, joinvars,
       mutexvars, Goto, SetState, Next1
  <1>2. pc[Main] \in Creating \cup Joining => Next1 \in Workers
    BY NextIsWorker DEF WorkersInv
  <1>3. state[Main] = "BLOCKED"
    BY <1>0, <1>1, <1>2 DEF WorkersInv, CpuOK, StatesAt, Exiting
  <1>4. PICK n \in Workers : n = Next1
    BY <1>0, <1>1, <1>2, <1>3 DEF Creating, Joining
  <1>5. waiting'[n] = Main /\ \A u \in Threads : u # n => waiting'[u] = waiting[u]
    BY <1>0, <1>1, <1>2, <1>3, <1>4
  <1>6. /\ ReadyOnce' /\ WaitOnce'
        /\ \A u \in Threads : (Queued(u)' <=> Queued(u)) /\ (Waits(u)' <=> Waits(u))
    BY <1>1, SameQueues DEF WorkersInv
  <1>7. CpuOK'
    BY <1>0, <1>1, <1>2, <1>3, <1>4, <1>5, <1>6 DEF WorkersInv, CpuOK, StatesAt, Exiting
  <1>8. PointOK'
    BY <1>0, <1>1, <1>2, <1>3, <1>4, <1>5, <1>6 DEF WorkersInv, PointOK, Exiting, Fragile,
       WorkerPoints, MainPoints, Creating, Joining, OnCpu
  <1>9. PlaceOK'
    BY <1>0, <1>1, <1>2, <1>3, <1>4, <1>5, <1>6 DEF WorkersInv, PlaceOK, DeadEnds
  <1>10. MainAt'
    BY <1>0, <1>1, <1>2, <1>3, <1>4, <1>5, <1>6 DEF WorkersInv, MainAt, Creating, Joining
  <1>11. JoinOK'
    BY <1>0, <1>1, <1>2, <1>3, <1>4, <1>5, <1>6 DEF WorkersInv, JoinOK, Exiting, Creating,
       Joining
  <1>12. RoundsOK'
    BY <1>0, <1>1, <1>2, <1>3, <1>4, <1>5, <1>6 DEF WorkersInv, RoundsOK, Exiting
  <1>13. WakeOK'
    BY <1>0, <1>1, <1>2, <1>3, <1>4, <1>5, <1>6 DEF WorkersInv, WakeOK
  <1> QED
    BY <1>6, <1>7, <1>8, <1>9, <1>10, <1>11, <1>12, <1>13 DEF Placed

\* main gives the processor up.
LEMMA JoinSwapKeeps ==
  ASSUME WorkersInv, UNCHANGED policy, JoinSwap
  PROVE  Placed' /\ WakeOK'
  <1>0. /\ pc \in [Threads -> PCs] /\ state \in [Threads -> States] /\ Main \in Threads
        /\ iter \in [Threads -> Nat] /\ waiting \in [Threads -> {Main, NULL}]
        /\ cpu = "thread" /\ running = Main /\ Main # NULL /\ Workers \subseteq Threads
        /\ \A w \in Workers : w # Main /\ w \in Nat
        /\ \A u \in Threads : u # Main => u \in Workers
    BY Ids, Shapes DEF WorkersInv, OnCpu, JoinSwap
  <1>1. /\ UNCHANGED <<policy, running, state, iter, ready, waitq, table, joined, waiting, locked>>
        /\ cpu' = "sched_in"
        /\ pc[Main] = "join_swap" /\ pc'[Main] = "join_cleanup" /\ \A u \in Threads : u # Main => pc'[u] = pc[u]
        /\ Next1' = Next1
    BY <1>0 DEF JoinSwap, swapcontext, schedvars, tablevars, joinvars, mutexvars, Goto,
       SetState, Next1
  <1>2. pc[Main] \in Creating \cup Joining => Next1 \in Workers
    BY NextIsWorker DEF WorkersInv
  <1>3. state[Main] \in {"BLOCKED", "RUNNING"}
    BY <1>0, <1>1, <1>2 DEF WorkersInv, CpuOK, StatesAt, Exiting
  <1>4. /\ ReadyOnce' /\ WaitOnce'
        /\ \A u \in Threads : (Queued(u)' <=> Queued(u)) /\ (Waits(u)' <=> Waits(u))
    BY <1>1, SameQueues DEF WorkersInv
  <1>5. CpuOK'
    BY <1>0, <1>1, <1>2, <1>3, <1>4 DEF WorkersInv, CpuOK, StatesAt, Exiting
  <1>6. PointOK'
    BY <1>0, <1>1, <1>2, <1>3, <1>4 DEF WorkersInv, PointOK, Exiting, Fragile,
       WorkerPoints, MainPoints, Creating, Joining, OnCpu
  <1>7. PlaceOK'
    BY <1>0, <1>1, <1>2, <1>3, <1>4 DEF WorkersInv, PlaceOK, DeadEnds
  <1>8. MainAt'
    BY <1>0, <1>1, <1>2, <1>3, <1>4 DEF WorkersInv, MainAt, Creating, Joining
  <1>9. JoinOK'
    BY <1>0, <1>1, <1>2, <1>3, <1>4 DEF WorkersInv, JoinOK, Exiting, Creating, Joining
  <1>10. RoundsOK'
    BY <1>0, <1>1, <1>2, <1>3, <1>4 DEF WorkersInv, RoundsOK, Exiting
  <1>11. WakeOK'
    BY <1>0, <1>1, <1>2, <1>3, <1>4 DEF WorkersInv, WakeOK
  <1> QED
    BY <1>4, <1>5, <1>6, <1>7, <1>8, <1>9, <1>10, <1>11 DEF Placed

\* The process ends.
LEMMA DestroyKeeps ==
  ASSUME WorkersInv, UNCHANGED policy, Destroy
  PROVE  Placed' /\ WakeOK'
  <1>0. /\ pc \in [Threads -> PCs] /\ state \in [Threads -> States] /\ Main \in Threads
        /\ iter \in [Threads -> Nat] /\ waiting \in [Threads -> {Main, NULL}]
        /\ cpu = "thread" /\ running = Main /\ Main # NULL /\ Workers \subseteq Threads
        /\ \A w \in Workers : w # Main /\ w \in Nat
        /\ \A u \in Threads : u # Main => u \in Workers
    BY Ids, Shapes DEF WorkersInv, OnCpu, Destroy
  <1>1. /\ UNCHANGED <<policy, running, state, iter, ready, waitq, table, joined, waiting, locked>>
        /\ cpu' = "exited" /\ pc[Main] = "destroy"
        /\ pc'[Main] \in {"end", "destroy_failed"} /\ \A u \in Threads : u # Main => pc'[u] = pc[u]
        /\ Next1' = Next1
    BY <1>0 DEF Destroy, schedvars, tablevars, joinvars, mutexvars, Goto, SetState, Next1
  <1>2. pc[Main] \in Creating \cup Joining => Next1 \in Workers
    BY NextIsWorker DEF WorkersInv
  <1>3. state[Main] = "RUNNING"
    BY <1>0, <1>1, <1>2 DEF WorkersInv, CpuOK, StatesAt, Exiting
  <1>4. /\ ReadyOnce' /\ WaitOnce'
        /\ \A u \in Threads : (Queued(u)' <=> Queued(u)) /\ (Waits(u)' <=> Waits(u))
    BY <1>1, SameQueues DEF WorkersInv
  <1>5. CpuOK'
    BY <1>0, <1>1, <1>2, <1>3, <1>4 DEF WorkersInv, CpuOK, StatesAt, Exiting
  <1>6. PointOK'
    BY <1>0, <1>1, <1>2, <1>3, <1>4 DEF WorkersInv, PointOK, Exiting, Fragile,
       WorkerPoints, MainPoints, Creating, Joining, OnCpu
  <1>7. PlaceOK'
    BY <1>0, <1>1, <1>2, <1>3, <1>4 DEF WorkersInv, PlaceOK, DeadEnds
  <1>8. MainAt'
    BY <1>0, <1>1, <1>2, <1>3, <1>4 DEF WorkersInv, MainAt, Creating, Joining
  <1>9. JoinOK'
    BY <1>0, <1>1, <1>2, <1>3, <1>4 DEF WorkersInv, JoinOK, Exiting, Creating, Joining
  <1>10. RoundsOK'
    BY <1>0, <1>1, <1>2, <1>3, <1>4 DEF WorkersInv, RoundsOK, Exiting
  <1>11. WakeOK'
    BY <1>0, <1>1, <1>2, <1>3, <1>4 DEF WorkersInv, WakeOK
  <1> QED
    BY <1>4, <1>5, <1>6, <1>7, <1>8, <1>9, <1>10, <1>11 DEF Placed

\* worker_create: the thread table has room for the new thread, which is READY and
\* in no queue.
LEMMA CreateKeeps ==
  ASSUME WorkersInv, UNCHANGED policy, SafeTicks, Create
  PROVE  Placed' /\ WakeOK'
  <1>0. /\ pc \in [Threads -> PCs] /\ state \in [Threads -> States] /\ Main \in Threads
        /\ iter \in [Threads -> Nat] /\ waiting \in [Threads -> {Main, NULL}]
        /\ cpu = "thread" /\ running = Main /\ Main # NULL /\ Workers \subseteq Threads
        /\ \A w \in Workers : w # Main /\ w \in Nat
        /\ \A u \in Threads : u # Main => u \in Workers
    BY Ids, Shapes DEF WorkersInv, OnCpu, Create
  <1>1. /\ UNCHANGED <<policy, cpu, running, iter, ready, waitq, joined, waiting, locked>>
        /\ pc[Main] = "create" /\ pc'[Main] = "create_add" /\ \A u \in Threads : u # Main => pc'[u] = pc[u]
        /\ Next1' = Next1
    BY <1>0 DEF Create, schedvars, tablevars, joinvars, mutexvars, Goto, SetState, Next1
  <1>2. pc[Main] \in Creating \cup Joining => Next1 \in Workers
    BY NextIsWorker DEF WorkersInv
  <1>3. state[Main] = "RUNNING"
    BY <1>0, <1>1, <1>2 DEF WorkersInv, CpuOK, StatesAt, Exiting
  <1>4. PICK n \in Workers : n = Next1
    BY <1>0, <1>1, <1>2, <1>3 DEF Creating, Joining
  <1>5. iter[Main] \in Nat /\ n = iter[Main] + 1 /\ n <= NumWorkers
    BY <1>0, <1>1, <1>2, <1>3, <1>4 DEF Next1, Workers
  <1>6. Cardinality(table) \in Nat /\ Cardinality(table) < MAX_THREADS /\ MAX_THREADS \in Nat
    <2>1. table = 1 .. iter[Main]
      BY <1>1 DEF WorkersInv, MainAt
    <2>2. Cardinality(1 .. iter[Main]) = iter[Main]
      BY <1>5, FS_Interval
    <2> QED
      BY <1>5, <2>1, <2>2, WorkersAssumption DEF SafeTicks
  <1>7. table' = table \cup {n} /\ state'[n] = "READY" /\ \A u \in Threads : u # n => state'[u] = state[u]
    BY <1>0, <1>1, <1>2, <1>3, <1>4, <1>5, <1>6 DEF Create, SetState
  <1>8. state[n] = "none" /\ ~Queued(n)
    BY <1>0, <1>1, <1>2, <1>3, <1>4, <1>5, <1>6, <1>7 DEF WorkersInv, MainAt, PlaceOK
  <1>9. /\ ReadyOnce' /\ WaitOnce'
        /\ \A u \in Threads : (Queued(u)' <=> Queued(u)) /\ (Waits(u)' <=> Waits(u))
    BY <1>1, SameQueues DEF WorkersInv
  <1>10. CpuOK'
    BY <1>0, <1>1, <1>2, <1>3, <1>4, <1>5, <1>7, <1>8, <1>9 DEF WorkersInv, CpuOK,
       StatesAt, Exiting
  <1>11. PointOK'
    BY <1>0, <1>1, <1>2, <1>3, <1>4, <1>5, <1>7, <1>8, <1>9 DEF WorkersInv, PointOK,
       Exiting, Fragile, WorkerPoints, MainPoints, Creating, Joining, OnCpu
  <1>12. PlaceOK'
    BY <1>0, <1>1, <1>2, <1>3, <1>4, <1>5, <1>7, <1>8, <1>9 DEF WorkersInv, PlaceOK, DeadEnds
  <1>13. MainAt'
    BY <1>0, <1>1, <1>2, <1>3, <1>4, <1>5, <1>7, <1>8, <1>9 DEF WorkersInv, MainAt,
       Creating, Joining
  <1>14. JoinOK'
    BY <1>0, <1>1, <1>2, <1>3, <1>4, <1>5, <1>7, <1>8, <1>9 DEF WorkersInv, JoinOK,
       Exiting, Creating, Joining
  <1>15. RoundsOK'
    BY <1>0, <1>1, <1>2, <1>3, <1>4, <1>5, <1>7, <1>8, <1>9 DEF WorkersInv, RoundsOK, Exiting
  <1>16. WakeOK'
    BY <1>0, <1>1, <1>2, <1>3, <1>4, <1>5, <1>7, <1>8, <1>9 DEF WorkersInv, WakeOK
  <1> QED
    BY <1>9, <1>10, <1>11, <1>12, <1>13, <1>14, <1>15, <1>16 DEF Placed

\* The new thread gets into a queue; it was the last one.
LEMMA CreateAddLastKeeps ==
  ASSUME WorkersInv, UNCHANGED policy, CreateAdd, Next1 = NumWorkers
  PROVE  Placed' /\ WakeOK'
  <1>0. /\ pc \in [Threads -> PCs] /\ state \in [Threads -> States] /\ Main \in Threads
        /\ iter \in [Threads -> Nat] /\ waiting \in [Threads -> {Main, NULL}]
        /\ cpu = "thread" /\ running = Main /\ Main # NULL /\ Workers \subseteq Threads
        /\ \A w \in Workers : w # Main /\ w \in Nat
        /\ \A u \in Threads : u # Main => u \in Workers
    BY Ids, Shapes DEF WorkersInv, OnCpu, CreateAdd
  <1>1. /\ UNCHANGED <<policy, cpu, running, state, waitq, table, joined, waiting, locked>>
        /\ pc[Main] = "create_add" /\ pc'[Main] = "join" /\ \A u \in Threads : u # Main => pc'[u] = pc[u]
        /\ ready' = add_to_scheduler(Next1, ready)
        /\ iter' = [iter EXCEPT ![Main] = 0] /\ iter'[Main] = 0
        /\ \A u \in Threads : u # Main => iter'[u] = iter[u]
        /\ Next1' = iter'[Main] + 1
    BY <1>0 DEF CreateAdd, MainNext, schedvars, tablevars, joinvars, mutexvars, Goto,
       SetState, Next1
  <1>2. pc[Main] \in Creating \cup Joining => Next1 \in Workers
    BY NextIsWorker DEF WorkersInv
  <1>3. state[Main] = "RUNNING"
    BY <1>0, <1>1, <1>2 DEF WorkersInv, CpuOK, StatesAt, Exiting
  <1>4. PICK n \in Workers : n = Next1
    BY <1>0, <1>1, <1>2, <1>3 DEF Creating, Joining
  <1>5. iter[Main] \in Nat /\ n = iter[Main] + 1 /\ n <= NumWorkers
    BY <1>0, <1>1, <1>2, <1>3, <1>4 DEF Next1, Workers
  <1>6. ~Queued(n) /\ state[n] = "READY" /\ table = 1 .. n
    BY <1>0, <1>1, <1>2, <1>3, <1>4, <1>5 DEF WorkersInv, PlaceOK, MainAt
  <1>7. /\ ReadyOnce' /\ WaitOnce'
        /\ \A u \in Threads : (Queued(u)' <=> (Queued(u) \/ u = n)) /\ (Waits(u)' <=> Waits(u))
    BY <1>0, <1>1, <1>2, <1>3, <1>4, <1>5, <1>6, AddEntry, SameQueues, Shapes DEF WorkersInv
  <1>8. CpuOK'
    BY <1>0, <1>1, <1>2, <1>3, <1>4, <1>5, <1>6, <1>7 DEF WorkersInv, CpuOK, StatesAt, Exiting
  <1>9. PointOK'
    BY <1>0, <1>1, <1>2, <1>3, <1>4, <1>5, <1>6, <1>7 DEF WorkersInv, PointOK, Exiting,
       Fragile, WorkerPoints, MainPoints, Creating, Joining, OnCpu
  <1>10. PlaceOK'
    BY <1>0, <1>1, <1>2, <1>3, <1>4, <1>5, <1>6, <1>7 DEF WorkersInv, PlaceOK, DeadEnds
  <1>11. MainAt'
    <2>1. \A w \in Workers : (state'[w] = "none" <=> FALSE) /\ (state'[w] = "freed" <=> FALSE)
      BY <1>0, <1>1, <1>4, <1>5, <1>6 DEF WorkersInv, MainAt, Creating, Joining, Workers
    <2>2. table' = 1 .. NumWorkers /\ joined' = {} /\ 0 < NumWorkers
      BY <1>0, <1>1, <1>4, <1>5, <1>6, WorkersAssumption DEF WorkersInv, MainAt, Creating,
         Joining, Workers
    <2>3. \A w \in Workers : w \in Nat /\ 1 <= w /\ w <= NumWorkers
      BY WorkersAssumption DEF Workers
    <2> QED
      BY <1>0, <1>1, <1>3, <1>4, <1>5, <2>1, <2>2, <2>3, WorkersAssumption DEF MainAt,
         Creating, Joining
  <1>12. JoinOK'
    BY <1>0, <1>1, <1>2, <1>3, <1>4, <1>5, <1>6, <1>7 DEF WorkersInv, JoinOK, Exiting,
       Creating, Joining
  <1>13. RoundsOK'
    BY <1>0, <1>1, <1>2, <1>3, <1>4, <1>5, <1>6, <1>7 DEF WorkersInv, RoundsOK, Exiting
  <1>14. WakeOK'
    BY <1>0, <1>1, <1>2, <1>3, <1>4, <1>5, <1>6, <1>7 DEF WorkersInv, WakeOK
  <1> QED
    BY <1>7, <1>8, <1>9, <1>10, <1>11, <1>12, <1>13, <1>14 DEF Placed

\* The new thread gets into a queue; there are more to create.
LEMMA CreateAddMoreKeeps ==
  ASSUME WorkersInv, UNCHANGED policy, CreateAdd, Next1 # NumWorkers
  PROVE  Placed' /\ WakeOK'
  <1>0. /\ pc \in [Threads -> PCs] /\ state \in [Threads -> States] /\ Main \in Threads
        /\ iter \in [Threads -> Nat] /\ waiting \in [Threads -> {Main, NULL}]
        /\ cpu = "thread" /\ running = Main /\ Main # NULL /\ Workers \subseteq Threads
        /\ \A w \in Workers : w # Main /\ w \in Nat
        /\ \A u \in Threads : u # Main => u \in Workers
    BY Ids, Shapes DEF WorkersInv, OnCpu, CreateAdd
  <1>1. /\ UNCHANGED <<policy, cpu, running, state, waitq, table, joined, waiting, locked>>
        /\ pc[Main] = "create_add" /\ pc'[Main] = "create" /\ \A u \in Threads : u # Main => pc'[u] = pc[u]
        /\ ready' = add_to_scheduler(Next1, ready)
        /\ iter'[Main] = Next1
        /\ \A u \in Threads : u # Main => iter'[u] = iter[u]
        /\ Next1' = iter'[Main] + 1
    BY <1>0 DEF CreateAdd, MainNext, schedvars, tablevars, joinvars, mutexvars, Goto,
       SetState, Next1
  <1>2. pc[Main] \in Creating \cup Joining => Next1 \in Workers
    BY NextIsWorker DEF WorkersInv
  <1>3. state[Main] = "RUNNING"
    BY <1>0, <1>1, <1>2 DEF WorkersInv, CpuOK, StatesAt, Exiting
  <1>4. PICK n \in Workers : n = Next1
    BY <1>0, <1>1, <1>2, <1>3 DEF Creating, Joining
  <1>5. iter[Main] \in Nat /\ n = iter[Main] + 1 /\ n <= NumWorkers
    BY <1>0, <1>1, <1>2, <1>3, <1>4 DEF Next1, Workers
  <1>6. ~Queued(n) /\ state[n] = "READY" /\ table = 1 .. n
    BY <1>0, <1>1, <1>2, <1>3, <1>4, <1>5 DEF WorkersInv, PlaceOK, MainAt
  <1>7. /\ ReadyOnce' /\ WaitOnce'
        /\ \A u \in Threads : (Queued(u)' <=> (Queued(u) \/ u = n)) /\ (Waits(u)' <=> Waits(u))
    BY <1>0, <1>1, <1>2, <1>3, <1>4, <1>5, <1>6, AddEntry, SameQueues, Shapes DEF WorkersInv
  <1>8. CpuOK'
    BY <1>0, <1>1, <1>2, <1>3, <1>4, <1>5, <1>6, <1>7 DEF WorkersInv, CpuOK, StatesAt, Exiting
  <1>9. PointOK'
    BY <1>0, <1>1, <1>2, <1>3, <1>4, <1>5, <1>6, <1>7 DEF WorkersInv, PointOK, Exiting,
       Fragile, WorkerPoints, MainPoints, Creating, Joining, OnCpu
  <1>10. PlaceOK'
    BY <1>0, <1>1, <1>2, <1>3, <1>4, <1>5, <1>6, <1>7 DEF WorkersInv, PlaceOK, DeadEnds
  <1>11. MainAt'
    <2>1. \A w \in Workers : (state'[w] = "none" <=> w > n) /\ (state'[w] = "freed" <=> FALSE)
      BY <1>0, <1>1, <1>4, <1>5, <1>6 DEF WorkersInv, MainAt, Creating, Joining, Workers
    <2>2. table' = 1 .. n /\ joined' = {} /\ n < NumWorkers
      BY <1>0, <1>1, <1>4, <1>5, <1>6, WorkersAssumption DEF WorkersInv, MainAt, Creating,
         Joining, Workers
    <2>3. \A w \in Workers : w \in Nat /\ 1 <= w /\ w <= NumWorkers
      BY WorkersAssumption DEF Workers
    <2> QED
      BY <1>0, <1>1, <1>3, <1>4, <1>5, <2>1, <2>2, <2>3, WorkersAssumption DEF MainAt,
         Creating, Joining
  <1>12. JoinOK'
    BY <1>0, <1>1, <1>2, <1>3, <1>4, <1>5, <1>6, <1>7 DEF WorkersInv, JoinOK, Exiting,
       Creating, Joining
  <1>13. RoundsOK'
    BY <1>0, <1>1, <1>2, <1>3, <1>4, <1>5, <1>6, <1>7 DEF WorkersInv, RoundsOK, Exiting
  <1>14. WakeOK'
    BY <1>0, <1>1, <1>2, <1>3, <1>4, <1>5, <1>6, <1>7 DEF WorkersInv, WakeOK
  <1> QED
    BY <1>7, <1>8, <1>9, <1>10, <1>11, <1>12, <1>13, <1>14 DEF Placed

\* worker_join of a thread that runs on.
LEMMA JoinKeeps ==
  ASSUME WorkersInv, UNCHANGED policy, Join, ~Terminated(Next1)
  PROVE  Placed' /\ WakeOK'
  <1>0. /\ pc \in [Threads -> PCs] /\ state \in [Threads -> States] /\ Main \in Threads
        /\ iter \in [Threads -> Nat] /\ waiting \in [Threads -> {Main, NULL}]
        /\ cpu = "thread" /\ running = Main /\ Main # NULL /\ Workers \subseteq Threads
        /\ \A w \in Workers : w # Main /\ w \in Nat
        /\ \A u \in Threads : u # Main => u \in Workers
    BY Ids, Shapes DEF WorkersInv, OnCpu, Join
  <1>1. /\ UNCHANGED <<policy, cpu, running, state, iter, ready, waitq, table, waiting, locked>>
        /\ pc[Main] = "join" /\ pc'[Main] = "join_block" /\ \A u \in Threads : u # Main => pc'[u] = pc[u]
        /\ joined' = joined \cup {Next1} /\ state[Next1] # "TERMINATED"
        /\ Next1' = Next1
    BY <1>0 DEF Join, Terminated, schedvars, tablevars, joinvars, mutexvars, Goto,
       SetState, Next1
  <1>2. pc[Main] \in Creating \cup Joining => Next1 \in Workers
    BY NextIsWorker DEF WorkersInv
  <1>3. state[Main] = "RUNNING"
    BY <1>0, <1>1, <1>2 DEF WorkersInv, CpuOK, StatesAt, Exiting
  <1>4. PICK n \in Workers : n = Next1
    BY <1>0, <1>1, <1>2, <1>3 DEF Creating, Joining
  <1>5. iter[Main] \in Nat /\ n = iter[Main] + 1 /\ n <= NumWorkers
    BY <1>0, <1>1, <1>2, <1>3, <1>4 DEF Next1, Workers
  <1>6. state[n] \notin {"TERMINATED", "freed"}
    BY <1>0, <1>1, <1>2, <1>3, <1>4, <1>5 DEF WorkersInv, MainAt, Joining, Creating
  <1>7. pc[n] \notin Exiting
    BY <1>0, <1>1, <1>2, <1>3, <1>4, <1>5, <1>6 DEF WorkersInv, PointOK
  <1>8. /\ ReadyOnce' /\ WaitOnce'
        /\ \A u \in Threads : (Queued(u)' <=> Queued(u)) /\ (Waits(u)' <=> Waits(u))
    BY <1>1, SameQueues DEF WorkersInv
  <1>9. CpuOK'
    BY <1>0, <1>1, <1>2, <1>3, <1>4, <1>5, <1>6, <1>7, <1>8 DEF WorkersInv, CpuOK,
       StatesAt, Exiting
  <1>10. PointOK'
    BY <1>0, <1>1, <1>2, <1>3, <1>4, <1>5, <1>6, <1>7, <1>8 DEF WorkersInv, PointOK,
       Exiting, Fragile, WorkerPoints, MainPoints, Creating, Joining, OnCpu
  <1>11. PlaceOK'
    BY <1>0, <1>1, <1>2, <1>3, <1>4, <1>5, <1>6, <1>7, <1>8 DEF WorkersInv, PlaceOK, DeadEnds
  <1>12. MainAt'
    BY <1>0, <1>1, <1>2, <1>3, <1>4, <1>5, <1>6, <1>7, <1>8 DEF WorkersInv, MainAt,
       Creating, Joining
  <1>13. JoinOK'
    BY <1>0, <1>1, <1>2, <1>3, <1>4, <1>5, <1>6, <1>7, <1>8 DEF WorkersInv, JoinOK,
       Exiting, Creating, Joining
  <1>14. RoundsOK'
    BY <1>0, <1>1, <1>2, <1>3, <1>4, <1>5, <1>6, <1>7, <1>8 DEF WorkersInv, RoundsOK, Exiting
  <1>15. WakeOK'
    BY <1>0, <1>1, <1>2, <1>3, <1>4, <1>5, <1>6, <1>7, <1>8 DEF WorkersInv, WakeOK
  <1> QED
    BY <1>8, <1>9, <1>10, <1>11, <1>12, <1>13, <1>14, <1>15 DEF Placed

\* cleanup_thread of a thread that has terminated; the last one.
LEMMA CleanupLastKeeps ==
  ASSUME WorkersInv, UNCHANGED policy, OnCpu(Main), pc[Main] \in {"join", "join_cleanup"},
         state[Next1] = "TERMINATED", joined' \in {joined, joined \cup {Next1}}, Cleanup(Next1),
         UNCHANGED <<cpu, running, ready, waiting, waitq, locked>>, Next1 = NumWorkers,
         pc[Main] = "join_cleanup" => state[Main] # "BLOCKED"
  PROVE  Placed' /\ WakeOK'
  <1>0. /\ pc \in [Threads -> PCs] /\ state \in [Threads -> States] /\ Main \in Threads
        /\ iter \in [Threads -> Nat] /\ waiting \in [Threads -> {Main, NULL}]
        /\ cpu = "thread" /\ running = Main /\ Main # NULL /\ Workers \subseteq Threads
        /\ \A w \in Workers : w # Main /\ w \in Nat
        /\ \A u \in Threads : u # Main => u \in Workers
    BY Ids, Shapes DEF WorkersInv, OnCpu, OnCpu
  <1>1. /\ UNCHANGED <<policy, cpu, running, ready, waiting, waitq, locked>>
        /\ pc'[Main] = "destroy" /\ \A u \in Threads : u # Main => pc'[u] = pc[u]
        /\ table' = table \ {Next1} /\ state' = [state EXCEPT ![Next1] = "freed"]
        /\ iter' = [iter EXCEPT ![Main] = 0] /\ iter'[Main] = 0
        /\ \A u \in Threads : u # Main => iter'[u] = iter[u]
        /\ Next1' = iter'[Main] + 1
    BY <1>0 DEF Cleanup, Joined, MainNext, Goto, SetState, Next1
  <1>2. pc[Main] \in Creating \cup Joining => Next1 \in Workers
    BY NextIsWorker DEF WorkersInv
  <1>3. state[Main] = "RUNNING"
    BY <1>0, <1>1, <1>2 DEF WorkersInv, CpuOK, StatesAt, Exiting
  <1>4. PICK n \in Workers : n = Next1
    BY <1>0, <1>1, <1>2, <1>3 DEF Creating, Joining
  <1>5. iter[Main] \in Nat /\ n = iter[Main] + 1 /\ n <= NumWorkers
    BY <1>0, <1>1, <1>2, <1>3, <1>4 DEF Next1, Workers
  <1>6. state'[n] = "freed" /\ \A u \in Threads : u # n => state'[u] = state[u]
    BY <1>0, <1>1, <1>2, <1>3, <1>4, <1>5
  <1>7. state[n] = "TERMINATED" /\ \A u \in Threads : waiting[u] = NULL
    BY <1>0, <1>1, <1>2, <1>3, <1>4, <1>5, <1>6 DEF WorkersInv, JoinOK
  <1>8. /\ ReadyOnce' /\ WaitOnce'
        /\ \A u \in Threads : (Queued(u)' <=> Queued(u)) /\ (Waits(u)' <=> Waits(u))
    BY <1>1, SameQueues DEF WorkersInv
  <1>9. CpuOK'
    BY <1>0, <1>1, <1>2, <1>3, <1>4, <1>5, <1>6, <1>7, <1>8 DEF WorkersInv, CpuOK,
       StatesAt, Exiting
  <1>10. PointOK'
    BY <1>0, <1>1, <1>2, <1>3, <1>4, <1>5, <1>6, <1>7, <1>8 DEF WorkersInv, PointOK,
       Exiting, Fragile, WorkerPoints, MainPoints, Creating, Joining, OnCpu
  <1>11. PlaceOK'
    BY <1>0, <1>1, <1>2, <1>3, <1>4, <1>5, <1>6, <1>7, <1>8 DEF WorkersInv, PlaceOK, DeadEnds
  <1>12. MainAt'
    <2>1. \A w \in Workers : (state'[w] = "none" <=> FALSE) /\ (state'[w] = "freed" <=> TRUE)
      BY <1>0, <1>1, <1>4, <1>5, <1>6, <1>7 DEF WorkersInv, MainAt, Creating, Joining, Workers
    <2>2. 0 < NumWorkers
      BY <1>0, <1>1, <1>4, <1>5, <1>6, <1>7, WorkersAssumption DEF WorkersInv, MainAt,
         Creating, Joining, Workers
    <2>3. \A w \in Workers : w \in Nat /\ 1 <= w /\ w <= NumWorkers
      BY WorkersAssumption DEF Workers
    <2> QED
      BY <1>0, <1>1, <1>3, <1>4, <1>5, <2>1, <2>2, <2>3, WorkersAssumption DEF MainAt,
         Creating, Joining
  <1>13. JoinOK'
    BY <1>0, <1>1, <1>2, <1>3, <1>4, <1>5, <1>6, <1>7, <1>8 DEF WorkersInv, JoinOK,
       Exiting, Creating, Joining
  <1>14. RoundsOK'
    BY <1>0, <1>1, <1>2, <1>3, <1>4, <1>5, <1>6, <1>7, <1>8 DEF WorkersInv, RoundsOK, Exiting
  <1>15. WakeOK'
    BY <1>0, <1>1, <1>2, <1>3, <1>4, <1>5, <1>6, <1>7, <1>8 DEF WorkersInv, WakeOK
  <1> QED
    BY <1>8, <1>9, <1>10, <1>11, <1>12, <1>13, <1>14, <1>15 DEF Placed

\* cleanup_thread of a thread that has terminated; there are more to join.
LEMMA CleanupMoreKeeps ==
  ASSUME WorkersInv, UNCHANGED policy, OnCpu(Main), pc[Main] \in {"join", "join_cleanup"},
         state[Next1] = "TERMINATED", joined' \in {joined, joined \cup {Next1}}, Cleanup(Next1),
         UNCHANGED <<cpu, running, ready, waiting, waitq, locked>>, Next1 # NumWorkers,
         pc[Main] = "join_cleanup" => state[Main] # "BLOCKED"
  PROVE  Placed' /\ WakeOK'
  <1>0. /\ pc \in [Threads -> PCs] /\ state \in [Threads -> States] /\ Main \in Threads
        /\ iter \in [Threads -> Nat] /\ waiting \in [Threads -> {Main, NULL}]
        /\ cpu = "thread" /\ running = Main /\ Main # NULL /\ Workers \subseteq Threads
        /\ \A w \in Workers : w # Main /\ w \in Nat
        /\ \A u \in Threads : u # Main => u \in Workers
    BY Ids, Shapes DEF WorkersInv, OnCpu, OnCpu
  <1>1. /\ UNCHANGED <<policy, cpu, running, ready, waiting, waitq, locked>>
        /\ pc'[Main] = "join" /\ \A u \in Threads : u # Main => pc'[u] = pc[u]
        /\ table' = table \ {Next1} /\ state' = [state EXCEPT ![Next1] = "freed"]
        /\ iter'[Main] = Next1
        /\ \A u \in Threads : u # Main => iter'[u] = iter[u]
        /\ Next1' = iter'[Main] + 1
    BY <1>0 DEF Cleanup, Joined, MainNext, Goto, SetState, Next1
  <1>2. pc[Main] \in Creating \cup Joining => Next1 \in Workers
    BY NextIsWorker DEF WorkersInv
  <1>3. state[Main] = "RUNNING"
    BY <1>0, <1>1, <1>2 DEF WorkersInv, CpuOK, StatesAt, Exiting
  <1>4. PICK n \in Workers : n = Next1
    BY <1>0, <1>1, <1>2, <1>3 DEF Creating, Joining
  <1>5. iter[Main] \in Nat /\ n = iter[Main] + 1 /\ n <= NumWorkers
    BY <1>0, <1>1, <1>2, <1>3, <1>4 DEF Next1, Workers
  <1>6. state'[n] = "freed" /\ \A u \in Threads : u # n => state'[u] = state[u]
    BY <1>0, <1>1, <1>2, <1>3, <1>4, <1>5
  <1>7. state[n] = "TERMINATED" /\ \A u \in Threads : waiting[u] = NULL
    BY <1>0, <1>1, <1>2, <1>3, <1>4, <1>5, <1>6 DEF WorkersInv, JoinOK
  <1>8. /\ ReadyOnce' /\ WaitOnce'
        /\ \A u \in Threads : (Queued(u)' <=> Queued(u)) /\ (Waits(u)' <=> Waits(u))
    BY <1>1, SameQueues DEF WorkersInv
  <1>9. CpuOK'
    BY <1>0, <1>1, <1>2, <1>3, <1>4, <1>5, <1>6, <1>7, <1>8 DEF WorkersInv, CpuOK,
       StatesAt, Exiting
  <1>10. PointOK'
    BY <1>0, <1>1, <1>2, <1>3, <1>4, <1>5, <1>6, <1>7, <1>8 DEF WorkersInv, PointOK,
       Exiting, Fragile, WorkerPoints, MainPoints, Creating, Joining, OnCpu
  <1>11. PlaceOK'
    BY <1>0, <1>1, <1>2, <1>3, <1>4, <1>5, <1>6, <1>7, <1>8 DEF WorkersInv, PlaceOK, DeadEnds
  <1>12. MainAt'
    <2>1. \A w \in Workers : (state'[w] = "none" <=> FALSE) /\ (state'[w] = "freed" <=> w < n + 1)
      BY <1>0, <1>1, <1>4, <1>5, <1>6, <1>7 DEF WorkersInv, MainAt, Creating, Joining, Workers
    <2>2. /\ table' = n + 1 .. NumWorkers /\ joined' \subseteq 1 .. n /\ n < NumWorkers
          /\ Next1' = n + 1 /\ iter'[Main] = n
      BY <1>0, <1>1, <1>4, <1>5, <1>6, <1>7, WorkersAssumption, SMTT(60) DEF WorkersInv, MainAt,
         Creating, Joining, Workers
    <2>3. \A w \in Workers : w \in Nat /\ 1 <= w /\ w <= NumWorkers
      BY WorkersAssumption DEF Workers
    <2> QED
      BY <1>0, <1>1, <1>5, <2>1, <2>2, <2>3, ZenonT(60) DEF MainAt, Creating, Joining
  <1>13. JoinOK'
    BY <1>0, <1>1, <1>2, <1>3, <1>4, <1>5, <1>6, <1>7, <1>8 DEF WorkersInv, JoinOK,
       Exiting, Creating, Joining
  <1>14. RoundsOK'
    BY <1>0, <1>1, <1>2, <1>3, <1>4, <1>5, <1>6, <1>7, <1>8 DEF WorkersInv, RoundsOK, Exiting
  <1>15. WakeOK'
    BY <1>0, <1>1, <1>2, <1>3, <1>4, <1>5, <1>6, <1>7, <1>8 DEF WorkersInv, WakeOK
  <1> QED
    BY <1>8, <1>9, <1>10, <1>11, <1>12, <1>13, <1>14, <1>15 DEF Placed

\* Every step of main.  worker_join never fails to find its target, and when
\* main comes back from waiting in it the target has terminated.
LEMMA MainPlaced ==
  ASSUME WorkersInv, SafeTicks, UNCHANGED policy, MainStep
  PROVE  Placed' /\ WakeOK'
  <1>1. CASE CreateAdd
    BY <1>1, CreateAddLastKeeps, CreateAddMoreKeeps
  <1>2. CASE Join
    <2>1. CASE Terminated(Next1)
      <3>1. /\ OnCpu(Main) /\ pc[Main] = "join" /\ joined' = joined \cup {Next1}
            /\ Cleanup(Next1) /\ UNCHANGED <<cpu, running, ready, waiting, waitq, locked>>
        BY <1>2, <2>1 DEF Join, schedvars, mutexvars
      <3>2. state[Next1] = "TERMINATED"
        BY <2>1 DEF Terminated
      <3> QED
        BY <3>1, <3>2, CleanupLastKeeps, CleanupMoreKeeps
    <2>2. CASE ~Terminated(Next1)
      BY <1>2, <2>2, JoinKeeps
    <2> QED
      BY <2>1, <2>2
  <1>3. CASE JoinFails
    <2>1. pc[Main] = "join" /\ Next1 \notin table
      BY <1>3 DEF JoinFails
    <2>2. Next1 \in Workers /\ table = Next1 .. NumWorkers
      BY <2>1, NextIsWorker DEF WorkersInv, MainAt, Joining
    <2> QED
      BY <2>1, <2>2, WorkersAssumption DEF Workers
  <1>4. CASE JoinCleanup
    <2>1. /\ OnCpu(Main) /\ pc[Main] = "join_cleanup" /\ joined' = joined
          /\ Cleanup(Next1) /\ UNCHANGED <<cpu, running, ready, waiting, waitq, locked>>
      BY <1>4 DEF JoinCleanup, schedvars, mutexvars, joinvars
    <2>2. state[Main] = "RUNNING"
      BY <2>1 DEF WorkersInv, CpuOK, OnCpu, StatesAt, Exiting
    <2>3. state[Next1] = "TERMINATED" /\ state[Main] # "BLOCKED"
      BY <2>1, <2>2 DEF WorkersInv, JoinOK
    <2> QED
      BY <2>1, <2>3, CleanupLastKeeps, CleanupMoreKeeps
  <1> QED
    BY <1>1, <1>2, <1>3, <1>4, CreateKeeps, JoinBlockKeeps, JoinWaitKeeps, JoinSwapKeeps,
       DestroyKeeps DEF MainStep

-----------------------------------------------------------------------------
(***************************************************************************)
(* Steps of the timer and of the scheduler                                 *)
(***************************************************************************)
\* While the scheduler runs, nobody is inside a library call.
LEMMA NobodyInside ==
  ASSUME WorkersInv, cpu # "thread"
  PROVE  \A t \in Threads : pc[t] \notin Fragile
  BY DEF WorkersInv, PointOK, OnCpu

\* A tick in the program's own code: the thread is running, and outside the library.
LEMMA TickKeeps ==
  ASSUME WorkersInv, UNCHANGED policy, SafeTicks, NEW t \in Threads, Tick(t)
  PROVE  Placed' /\ WakeOK'
  <1>0. /\ pc \in [Threads -> PCs] /\ state \in [Threads -> States] /\ Main \in Threads
        /\ running \in Threads \cup {NULL} /\ NULL \notin Threads /\ Workers \subseteq Threads
        /\ cpu = "thread"
    BY Ids, Shapes DEF WorkersInv, OnCpu, Tick
  <1>1. /\ UNCHANGED <<policy, running, state, pc, iter, ready, waitq, table, joined, waiting, locked>>
        /\ cpu' = "sched_in" /\ running = t /\ pc[t] \in (UserPoints \cup LibPoints) \ Fragile
        /\ Next1' = Next1
    BY <1>0 DEF Tick, OnCpu, SafeTicks, schedvars, tablevars, joinvars, mutexvars, Goto,
       SetState, Next1
  <1>2. pc[Main] \in Creating \cup Joining => Next1 \in Workers
    BY NextIsWorker DEF WorkersInv
  <1>3. /\ state[t] \in {"RUNNING", "READY", "BLOCKED"}
        /\ state[t] = "READY" => policy \in Yields
    BY <1>0, <1>1, <1>2 DEF WorkersInv, CpuOK, PointOK, StatesAt, Exiting, UserPoints,
       LibPoints, Fragile
  <1>4. \A u \in Threads : pc[u] \notin Fragile
    BY <1>0, <1>1, <1>2, <1>3 DEF WorkersInv, PointOK, OnCpu, Fragile
  <1>5. /\ ReadyOnce' /\ WaitOnce'
        /\ \A u \in Threads : (Queued(u)' <=> Queued(u)) /\ (Waits(u)' <=> Waits(u))
    BY <1>1, SameQueues DEF WorkersInv
  <1>6. CpuOK'
    BY <1>0, <1>1, <1>2, <1>3, <1>4, <1>5 DEF WorkersInv, CpuOK, StatesAt, Exiting
  <1>7. PointOK'
    BY <1>0, <1>1, <1>2, <1>3, <1>4, <1>5 DEF WorkersInv, PointOK, Exiting, Fragile,
       WorkerPoints, MainPoints, Creating, Joining, OnCpu
  <1>8. PlaceOK'
    BY <1>0, <1>1, <1>2, <1>3, <1>4, <1>5 DEF WorkersInv, PlaceOK, DeadEnds
  <1>9. MainAt'
    BY <1>0, <1>1, <1>2, <1>3, <1>4, <1>5 DEF WorkersInv, MainAt, Creating, Joining
  <1>10. JoinOK'
    BY <1>0, <1>1, <1>2, <1>3, <1>4, <1>5 DEF WorkersInv, JoinOK, Exiting, Creating, Joining
  <1>11. RoundsOK'
    BY <1>0, <1>1, <1>2, <1>3, <1>4, <1>5 DEF WorkersInv, RoundsOK, Exiting
  <1>12. WakeOK'
    BY <1>0, <1>1, <1>2, <1>3, <1>4, <1>5 DEF WorkersInv, WakeOK
  <1> QED
    BY <1>5, <1>6, <1>7, <1>8, <1>9, <1>10, <1>11, <1>12 DEF Placed

\* schedule() puts a preempted thread back.
LEMMA PreemptKeeps ==
  ASSUME WorkersInv, UNCHANGED policy, schedule, state[running] = "RUNNING"
  PROVE  Placed' /\ WakeOK'
  <1>0. /\ pc \in [Threads -> PCs] /\ state \in [Threads -> States] /\ Main \in Threads
        /\ running \in Threads \cup {NULL} /\ NULL \notin Threads /\ Workers \subseteq Threads
        /\ cpu = "sched_in"
    BY Ids, Shapes DEF WorkersInv, OnCpu, schedule
  <1>1. /\ UNCHANGED <<policy, running, pc, iter, waitq, table, joined, waiting, locked>>
        /\ running # NULL => cpu' \in {"sched_pick", "spin"} /\ ready' = add_to_scheduler(running, ready)
        /\ running # NULL => SetState(running, "READY")
        /\ Next1' = Next1
    BY <1>0 DEF schedule, promote_all_threads, schedvars, tablevars, joinvars, mutexvars,
       Goto, Next1
  <1>2. pc[Main] \in Creating \cup Joining => Next1 \in Workers
    BY NextIsWorker DEF WorkersInv
  <1>3. \A u \in Threads : pc[u] \notin Fragile
    BY <1>0, NobodyInside
  <1>4. running \in Threads
    BY <1>0 DEF WorkersInv, CpuOK
  <1>5. /\ pc[Main] = "create_add" => running # Next1 /\ state[Next1] = "READY" /\ ~Queued(Next1)
    BY <1>0, <1>1, <1>2, <1>3, <1>4 DEF WorkersInv, MainAt, PlaceOK, Creating
  <1>6. /\ state'[running] = "READY" /\ \A u \in Threads : u # running => state'[u] = state[u]
        /\ state'[running'] = "READY" /\ cpu' \in {"sched_pick", "spin"} /\ running # NULL
    BY <1>0, <1>1, <1>2, <1>3, <1>4, <1>5 DEF SetState
  <1>7. ~Queued(running)
    BY <1>0, <1>1, <1>2, <1>3, <1>4, <1>5, <1>6 DEF WorkersInv, PlaceOK
  <1>8. PICK r \in Threads : r = running
    BY <1>0, <1>1, <1>2, <1>3, <1>4, <1>5, <1>6, <1>7
  <1>9. /\ ReadyOnce' /\ WaitOnce'
        /\ \A u \in Threads : (Queued(u)' <=> (Queued(u) \/ u = r)) /\ (Waits(u)' <=> Waits(u))
    BY <1>0, <1>1, <1>2, <1>3, <1>4, <1>5, <1>6, <1>7, <1>8, AddEntry, SameQueues, Shapes
       DEF WorkersInv
  <1>10. CpuOK'
    BY <1>0, <1>1, <1>2, <1>3, <1>4, <1>5, <1>6, <1>7, <1>8, <1>9 DEF WorkersInv, CpuOK,
       StatesAt, Exiting
  <1>11. PointOK'
    BY <1>0, <1>1, <1>2, <1>3, <1>4, <1>5, <1>6, <1>7, <1>8, <1>9 DEF WorkersInv, PointOK,
       Exiting, Fragile, WorkerPoints, MainPoints, Creating, Joining, OnCpu
  <1>12. PlaceOK'
    BY <1>0, <1>1, <1>2, <1>3, <1>4, <1>5, <1>6, <1>7, <1>8, <1>9 DEF WorkersInv, PlaceOK,
       DeadEnds
  <1>13. MainAt'
    BY <1>0, <1>1, <1>2, <1>3, <1>4, <1>5, <1>6, <1>7, <1>8, <1>9 DEF WorkersInv, MainAt,
       Creating, Joining
  <1>14. JoinOK'
    BY <1>0, <1>1, <1>2, <1>3, <1>4, <1>5, <1>6, <1>7, <1>8, <1>9 DEF WorkersInv, JoinOK,
       Exiting, Creating, Joining
  <1>15. RoundsOK'
    BY <1>0, <1>1, <1>2, <1>3, <1>4, <1>5, <1>6, <1>7, <1>8, <1>9 DEF WorkersInv,
       RoundsOK, Exiting
  <1>16. WakeOK'
    BY <1>0, <1>1, <1>2, <1>3, <1>4, <1>5, <1>6, <1>7, <1>8, <1>9 DEF WorkersInv, WakeOK
  <1> QED
    BY <1>9, <1>10, <1>11, <1>12, <1>13, <1>14, <1>15, <1>16 DEF Placed

\* schedule() puts a thread that yielded in a queue.
LEMMA YieldedKeeps ==
  ASSUME WorkersInv, UNCHANGED policy, SafeTicks, schedule, state[running] = "READY"
  PROVE  Placed' /\ WakeOK'
  <1>0. /\ pc \in [Threads -> PCs] /\ state \in [Threads -> States] /\ Main \in Threads
        /\ running \in Threads \cup {NULL} /\ NULL \notin Threads /\ Workers \subseteq Threads
        /\ cpu = "sched_in"
    BY Ids, Shapes DEF WorkersInv, OnCpu, schedule
  <1>1. /\ UNCHANGED <<policy, running, state, pc, iter, waitq, table, joined, waiting, locked>>
        /\ running # NULL => cpu' = "sched_pick" /\ (policy # "MLFQ" => ready' = add_to_scheduler(running, ready))
        /\ Next1' = Next1
    BY <1>0 DEF schedule, schedvars, tablevars, joinvars, mutexvars, Goto, SetState, Next1
  <1>2. pc[Main] \in Creating \cup Joining => Next1 \in Workers
    BY NextIsWorker DEF WorkersInv
  <1>3. \A u \in Threads : pc[u] \notin Fragile
    BY <1>0, NobodyInside
  <1>4. running \in Threads
    BY <1>0 DEF WorkersInv, CpuOK
  <1>5. /\ pc[Main] = "create_add" => running # Next1 /\ state[Next1] = "READY" /\ ~Queued(Next1)
    BY <1>0, <1>1, <1>2, <1>3, <1>4 DEF WorkersInv, MainAt, PlaceOK, Creating
  <1>6. running # NULL /\ policy # "MLFQ"
    BY <1>0, <1>1, <1>2, <1>3, <1>4, <1>5 DEF WorkersInv, CpuOK, SafeTicks
  <1>7. ~Queued(running)
    BY <1>0, <1>1, <1>2, <1>3, <1>4, <1>5, <1>6 DEF WorkersInv, PlaceOK, DeadEnds
  <1>8. PICK r \in Threads : r = running
    BY <1>0, <1>1, <1>2, <1>3, <1>4, <1>5, <1>6, <1>7
  <1>9. /\ ReadyOnce' /\ WaitOnce'
        /\ \A u \in Threads : (Queued(u)' <=> (Queued(u) \/ u = r)) /\ (Waits(u)' <=> Waits(u))
    BY <1>0, <1>1, <1>2, <1>3, <1>4, <1>5, <1>6, <1>7, <1>8, AddEntry, SameQueues, Shapes
       DEF WorkersInv
  <1>10. CpuOK'
    BY <1>0, <1>1, <1>2, <1>3, <1>4, <1>5, <1>6, <1>7, <1>8, <1>9 DEF WorkersInv, CpuOK,
       StatesAt, Exiting
  <1>11. PointOK'
    BY <1>0, <1>1, <1>2, <1>3, <1>4, <1>5, <1>6, <1>7, <1>8, <1>9 DEF WorkersInv, PointOK,
       Exiting, Fragile, WorkerPoints, MainPoints, Creating, Joining, OnCpu
  <1>12. PlaceOK'
    BY <1>0, <1>1, <1>2, <1>3, <1>4, <1>5, <1>6, <1>7, <1>8, <1>9 DEF WorkersInv, PlaceOK,
       DeadEnds
  <1>13. MainAt'
    BY <1>0, <1>1, <1>2, <1>3, <1>4, <1>5, <1>6, <1>7, <1>8, <1>9 DEF WorkersInv, MainAt,
       Creating, Joining
  <1>14. JoinOK'
    BY <1>0, <1>1, <1>2, <1>3, <1>4, <1>5, <1>6, <1>7, <1>8, <1>9 DEF WorkersInv, JoinOK,
       Exiting, Creating, Joining
  <1>15. RoundsOK'
    BY <1>0, <1>1, <1>2, <1>3, <1>4, <1>5, <1>6, <1>7, <1>8, <1>9 DEF WorkersInv,
       RoundsOK, Exiting
  <1>16. WakeOK'
    BY <1>0, <1>1, <1>2, <1>3, <1>4, <1>5, <1>6, <1>7, <1>8, <1>9 DEF WorkersInv, WakeOK
  <1> QED
    BY <1>9, <1>10, <1>11, <1>12, <1>13, <1>14, <1>15, <1>16 DEF Placed

\* schedule() after a thread has blocked or exited.
LEMMA LeftKeeps ==
  ASSUME WorkersInv, UNCHANGED policy, schedule, state[running] \notin {"RUNNING", "READY"}
  PROVE  Placed' /\ WakeOK'
  <1>0. /\ pc \in [Threads -> PCs] /\ state \in [Threads -> States] /\ Main \in Threads
        /\ running \in Threads \cup {NULL} /\ NULL \notin Threads /\ Workers \subseteq Threads
        /\ cpu = "sched_in"
    BY Ids, Shapes DEF WorkersInv, OnCpu, schedule
  <1>1. /\ UNCHANGED <<policy, state, pc, iter, ready, waitq, table, joined, waiting, locked>>
        /\ cpu' = "sched_pick" /\ running' \in {running, NULL}
        /\ Next1' = Next1
    BY <1>0 DEF schedule, schedvars, tablevars, joinvars, mutexvars, Goto, SetState, Next1
  <1>2. pc[Main] \in Creating \cup Joining => Next1 \in Workers
    BY NextIsWorker DEF WorkersInv
  <1>3. \A u \in Threads : pc[u] \notin Fragile
    BY <1>0, NobodyInside
  <1>4. running \in Threads
    BY <1>0 DEF WorkersInv, CpuOK
  <1>5. /\ ReadyOnce' /\ WaitOnce'
        /\ \A u \in Threads : (Queued(u)' <=> Queued(u)) /\ (Waits(u)' <=> Waits(u))
    BY <1>1, SameQueues DEF WorkersInv
  <1>6. CpuOK'
    BY <1>0, <1>1, <1>2, <1>3, <1>4, <1>5 DEF WorkersInv, CpuOK, StatesAt, Exiting
  <1>7. PointOK'
    BY <1>0, <1>1, <1>2, <1>3, <1>4, <1>5 DEF WorkersInv, PointOK, Exiting, Fragile,
       WorkerPoints, MainPoints, Creating, Joining, OnCpu
  <1>8. PlaceOK'
    BY <1>0, <1>1, <1>2, <1>3, <1>4, <1>5 DEF WorkersInv, PlaceOK, DeadEnds
  <1>9. MainAt'
    BY <1>0, <1>1, <1>2, <1>3, <1>4, <1>5 DEF WorkersInv, MainAt, Creating, Joining
  <1>10. JoinOK'
    BY <1>0, <1>1, <1>2, <1>3, <1>4, <1>5 DEF WorkersInv, JoinOK, Exiting, Creating, Joining
  <1>11. RoundsOK'
    BY <1>0, <1>1, <1>2, <1>3, <1>4, <1>5 DEF WorkersInv, RoundsOK, Exiting
  <1>12. WakeOK'
    BY <1>0, <1>1, <1>2, <1>3, <1>4, <1>5 DEF WorkersInv, WakeOK
  <1> QED
    BY <1>5, <1>6, <1>7, <1>8, <1>9, <1>10, <1>11, <1>12 DEF Placed

\* The scheduling function runs a thread that was in its queues.
LEMMA RunNextKeeps ==
  ASSUME WorkersInv, UNCHANGED policy, RunNext
  PROVE  Placed' /\ WakeOK'
  <1>0. /\ pc \in [Threads -> PCs] /\ state \in [Threads -> States] /\ Main \in Threads
        /\ running \in Threads \cup {NULL} /\ NULL \notin Threads /\ Workers \subseteq Threads
        /\ cpu = "sched_pick"
    BY Ids, Shapes DEF WorkersInv, OnCpu, RunNext
  <1>1. /\ UNCHANGED <<policy, pc, iter, waitq, table, joined, waiting, locked>>
        /\ Next1' = Next1
    BY <1>0 DEF RunNext, schedvars, tablevars, joinvars, mutexvars, Goto, SetState, Next1
  <1>2. pc[Main] \in Creating \cup Joining => Next1 \in Workers
    BY NextIsWorker DEF WorkersInv
  <1>3. \A u \in Threads : pc[u] \notin Fragile
    BY <1>0, NobodyInside
  <1>4. /\ pc[Main] = "create_add" => running # Next1 /\ state[Next1] = "READY" /\ ~Queued(Next1)
    BY <1>0, <1>1, <1>2, <1>3 DEF WorkersInv, MainAt, PlaceOK, Creating
  <1>5. PICK l \in 0 .. Levels - 1 : \E i \in 1 .. Len(ready[l]) :
          /\ running' = ready[l][i] /\ SetState(ready[l][i], "RUNNING")
          /\ ready' = [ready EXCEPT ![l] = RemoveNth(@, i)]
          /\ cpu' \in IF state[ready[l][i]] = "freed" THEN {"sched_out", "segv"} ELSE {"sched_out"}
    BY DEF RunNext
  <1>6. PICK i \in 1 .. Len(ready[l]) :
          /\ running' = ready[l][i] /\ SetState(ready[l][i], "RUNNING")
          /\ ready' = [ready EXCEPT ![l] = RemoveNth(@, i)]
          /\ cpu' \in IF state[ready[l][i]] = "freed" THEN {"sched_out", "segv"} ELSE {"sched_out"}
    BY <1>5
  <1>7. PICK r \in Threads : r = ready[l][i] /\ Queued(r)
    <2>1. ready[l] \in Seq(Threads)
      BY Shapes DEF WorkersInv
    <2>2. ready[l][i] \in Threads
      BY <2>1
    <2> QED
      BY <2>2 DEF Queued
  <1>8. Queued(r) /\ state[r] = "READY"
    BY <1>7 DEF WorkersInv, PlaceOK
  <1>9. running' = r /\ cpu' = "sched_out" /\ r # NULL
    BY <1>0, <1>6, <1>7, <1>8
  <1>10. state'[r] = "RUNNING" /\ \A u \in Threads : u # r => state'[u] = state[u]
    BY <1>0, <1>6, <1>7 DEF SetState
  <1>11. /\ ReadyOnce' /\ WaitOnce'
        /\ \A u \in Threads : (Queued(u)' <=> (Queued(u) /\ u # r)) /\ (Waits(u)' <=> Waits(u))
    BY <1>1, <1>6, <1>7, TakeEntry, SameQueues, Shapes DEF WorkersInv
  <1>12. CpuOK'
    BY <1>0, <1>1, <1>2, <1>3, <1>4, <1>8, <1>9, <1>10, <1>11 DEF WorkersInv, CpuOK,
       StatesAt, Exiting
  <1>13. PointOK'
    BY <1>0, <1>1, <1>2, <1>3, <1>4, <1>8, <1>9, <1>10, <1>11 DEF WorkersInv, PointOK,
       Exiting, Fragile, WorkerPoints, MainPoints, Creating, Joining, OnCpu
  <1>14. PlaceOK'
    BY <1>0, <1>1, <1>2, <1>3, <1>4, <1>8, <1>9, <1>10, <1>11 DEF WorkersInv, PlaceOK, DeadEnds
  <1>15. MainAt'
    BY <1>0, <1>1, <1>2, <1>3, <1>4, <1>8, <1>9, <1>10, <1>11 DEF WorkersInv, MainAt,
       Creating, Joining
  <1>16. JoinOK'
    BY <1>0, <1>1, <1>2, <1>3, <1>4, <1>8, <1>9, <1>10, <1>11 DEF WorkersInv, JoinOK,
       Exiting, Creating, Joining
  <1>17. RoundsOK'
    BY <1>0, <1>1, <1>2, <1>3, <1>4, <1>8, <1>9, <1>10, <1>11 DEF WorkersInv, RoundsOK, Exiting
  <1>18. WakeOK'
    BY <1>0, <1>1, <1>2, <1>3, <1>4, <1>8, <1>9, <1>10, <1>11 DEF WorkersInv, WakeOK
  <1> QED
    BY <1>11, <1>12, <1>13, <1>14, <1>15, <1>16, <1>17, <1>18 DEF Placed

\* It finds nobody.
LEMMA RunNobodyKeeps ==
  ASSUME WorkersInv, UNCHANGED policy, RunNobody
  PROVE  Placed' /\ WakeOK'
  <1>0. /\ pc \in [Threads -> PCs] /\ state \in [Threads -> States] /\ Main \in Threads
        /\ running \in Threads \cup {NULL} /\ NULL \notin Threads /\ Workers \subseteq Threads
        /\ cpu = "sched_pick"
    BY Ids, Shapes DEF WorkersInv, OnCpu, RunNobody
  <1>1. /\ UNCHANGED <<policy, running, state, pc, iter, ready, waitq, table, joined, waiting, locked>>
        /\ Next1' = Next1
    BY <1>0 DEF RunNobody, schedvars, tablevars, joinvars, mutexvars, Goto, SetState, Next1
  <1>2. pc[Main] \in Creating \cup Joining => Next1 \in Workers
    BY NextIsWorker DEF WorkersInv
  <1>3. \A u \in Threads : pc[u] \notin Fragile
    BY <1>0, NobodyInside
  <1>4. policy \in {"RR", "PSJF", "MLFQ", "CFS"}
    BY WorkersAssumption DEF WorkersInv, Typed, ProcTyped
  <1>5. cpu' \in {"stale_main", "spin", "underflow", "segv"}
    BY <1>0, <1>1, <1>2, <1>3, <1>4 DEF RunNobody, DeadEnd
  <1>6. /\ ReadyOnce' /\ WaitOnce'
        /\ \A u \in Threads : (Queued(u)' <=> Queued(u)) /\ (Waits(u)' <=> Waits(u))
    BY <1>1, SameQueues DEF WorkersInv
  <1>7. CpuOK'
    BY <1>0, <1>1, <1>2, <1>3, <1>4, <1>5, <1>6 DEF WorkersInv, CpuOK, StatesAt, Exiting
  <1>8. PointOK'
    BY <1>0, <1>1, <1>2, <1>3, <1>4, <1>5, <1>6 DEF WorkersInv, PointOK, Exiting, Fragile,
       WorkerPoints, MainPoints, Creating, Joining, OnCpu
  <1>9. PlaceOK'
    BY <1>0, <1>1, <1>2, <1>3, <1>4, <1>5, <1>6 DEF WorkersInv, PlaceOK, DeadEnds
  <1>10. MainAt'
    BY <1>0, <1>1, <1>2, <1>3, <1>4, <1>5, <1>6 DEF WorkersInv, MainAt, Creating, Joining
  <1>11. JoinOK'
    BY <1>0, <1>1, <1>2, <1>3, <1>4, <1>5, <1>6 DEF WorkersInv, JoinOK, Exiting, Creating,
       Joining
  <1>12. RoundsOK'
    BY <1>0, <1>1, <1>2, <1>3, <1>4, <1>5, <1>6 DEF WorkersInv, RoundsOK, Exiting
  <1>13. WakeOK'
    BY <1>0, <1>1, <1>2, <1>3, <1>4, <1>5, <1>6 DEF WorkersInv, WakeOK
  <1> QED
    BY <1>6, <1>7, <1>8, <1>9, <1>10, <1>11, <1>12, <1>13 DEF Placed

\* The thread goes on where it left off, in its own code.
LEMMA ResumeKeeps ==
  ASSUME WorkersInv, UNCHANGED policy, Resume
  PROVE  Placed' /\ WakeOK'
  <1>0. /\ pc \in [Threads -> PCs] /\ state \in [Threads -> States] /\ Main \in Threads
        /\ running \in Threads \cup {NULL} /\ NULL \notin Threads /\ Workers \subseteq Threads
        /\ cpu = "sched_out"
    BY Ids, Shapes DEF WorkersInv, OnCpu, Resume
  <1>1. /\ UNCHANGED <<policy, running, state, pc, iter, ready, waitq, table, joined, waiting, locked>>
        /\ pc[running] # "clobbered" => cpu' = "thread"
        /\ Next1' = Next1
    BY <1>0 DEF Resume, schedvars, tablevars, joinvars, mutexvars, Goto, SetState, Next1
  <1>2. pc[Main] \in Creating \cup Joining => Next1 \in Workers
    BY NextIsWorker DEF WorkersInv
  <1>3. \A u \in Threads : pc[u] \notin Fragile
    BY <1>0, NobodyInside
  <1>4. running \in Threads
    BY <1>0 DEF WorkersInv, CpuOK
  <1>5. state[running] = "RUNNING"
    BY <1>0, <1>1, <1>2, <1>3, <1>4 DEF WorkersInv, CpuOK
  <1>6. pc[running] \in MainPoints \cup WorkerPoints /\ pc[running] \notin Exiting \cup {"end", "destroy_failed"}
    <2>1. CASE running = Main
      BY <1>0, <1>5, <2>1 DEF WorkersInv, CpuOK, PointOK, MainPoints, Exiting, Creating, Joining
    <2>2. CASE running \in Workers
      BY <1>0, <1>5, <2>2 DEF WorkersInv, PointOK, WorkerPoints, Exiting
    <2> QED
      BY <1>4, <2>1, <2>2, Ids
  <1>7. cpu' = "thread" /\ "RUNNING" \in StatesAt(pc[running])
    BY <1>0, <1>1, <1>2, <1>3, <1>4, <1>5, <1>6 DEF MainPoints, WorkerPoints, Creating,
       Joining, StatesAt, Fragile, Exiting
  <1>8. /\ ReadyOnce' /\ WaitOnce'
        /\ \A u \in Threads : (Queued(u)' <=> Queued(u)) /\ (Waits(u)' <=> Waits(u))
    BY <1>1, SameQueues DEF WorkersInv
  <1>9. CpuOK'
    BY <1>0, <1>1, <1>2, <1>3, <1>4, <1>5, <1>6, <1>7, <1>8 DEF WorkersInv, CpuOK,
       StatesAt, Exiting
  <1>10. PointOK'
    BY <1>0, <1>1, <1>2, <1>3, <1>4, <1>5, <1>6, <1>7, <1>8 DEF WorkersInv, PointOK,
       Exiting, Fragile, WorkerPoints, MainPoints, Creating, Joining, OnCpu
  <1>11. PlaceOK'
    BY <1>0, <1>1, <1>2, <1>3, <1>4, <1>5, <1>6, <1>7, <1>8 DEF WorkersInv, PlaceOK, DeadEnds
  <1>12. MainAt'
    BY <1>0, <1>1, <1>2, <1>3, <1>4, <1>5, <1>6, <1>7, <1>8 DEF WorkersInv, MainAt,
       Creating, Joining
  <1>13. JoinOK'
    BY <1>0, <1>1, <1>2, <1>3, <1>4, <1>5, <1>6, <1>7, <1>8 DEF WorkersInv, JoinOK,
       Exiting, Creating, Joining
  <1>14. RoundsOK'
    BY <1>0, <1>1, <1>2, <1>3, <1>4, <1>5, <1>6, <1>7, <1>8 DEF WorkersInv, RoundsOK, Exiting
  <1>15. WakeOK'
    BY <1>0, <1>1, <1>2, <1>3, <1>4, <1>5, <1>6, <1>7, <1>8 DEF WorkersInv, WakeOK
  <1> QED
    BY <1>8, <1>9, <1>10, <1>11, <1>12, <1>13, <1>14, <1>15 DEF Placed

-----------------------------------------------------------------------------
(***************************************************************************)
(* The invariant holds, and what it gives                                  *)
(***************************************************************************)
\* Initially main is about to create the first worker, and nobody waits.
LEMMA PlacedInit == Init => WorkersInv
  <1> SUFFICES ASSUME Init PROVE WorkersInv
    OBVIOUS
  <1>1. /\ cpu = "thread" /\ running = Main /\ state[Main] = "RUNNING" /\ pc[Main] = "create"
        /\ Main # NULL /\ table = {} /\ joined = {} /\ ~locked /\ waitq = <<>>
        /\ \A w \in Workers : state[w] = "none" /\ pc[w] = "lock" /\ iter[w] = 0
        /\ \A t \in Threads : waiting[t] = NULL
        /\ iter[Main] = 0 /\ \A l \in 0 .. Levels - 1 : ready[l] = <<>>
    BY Ids DEF Init
  <1>2. ReadyOnce /\ WaitOnce /\ \A t \in Threads : ~Queued(t) /\ ~Waits(t)
    BY <1>1 DEF ReadyOnce, WaitOnce, Queued, Waits
  <1>3. /\ \A t \in Threads : t # Main => t \in Workers
        /\ \A w \in Workers : w \in Nat /\ w >= 1 /\ w # Main
    BY Ids, WorkersAssumption DEF Workers
  <1>4. CpuOK
    BY <1>1, <1>3, Ids DEF CpuOK, StatesAt, Exiting
  <1>5. PointOK
    BY <1>1, <1>3, Ids DEF PointOK, MainPoints, WorkerPoints, Fragile, Exiting, Creating
  <1>6. PlaceOK
    BY <1>1, <1>2, <1>3 DEF PlaceOK
  <1>7. MainAt
    BY <1>1, <1>3, WorkersAssumption DEF MainAt, Next1, Creating, Joining
  <1>8. JoinOK
    BY <1>1 DEF JoinOK
  <1>9. RoundsOK
    BY <1>1, WorkersAssumption DEF RoundsOK, Exiting
  <1>10. WakeOK
    BY <1>1, <1>3 DEF WakeOK
  <1> QED
    BY <1>2, <1>4, <1>5, <1>6, <1>7, <1>8, <1>9, <1>10, TypedInit DEF WorkersInv

\* A step that changes nothing the invariant speaks of.
LEMMA StutterPlaced ==
  ASSUME WorkersInv, UNCHANGED vars
  PROVE  Placed' /\ WakeOK'
  <1>1. /\ UNCHANGED <<policy, cpu, running, state, pc, iter, table, joined, waiting, locked, waitq>>
        /\ Next1' = Next1
    BY DEF vars, tablevars, joinvars, mutexvars, Next1
  <1>2. ReadyOnce' /\ WaitOnce' /\ \A t \in Threads : (Queued(t)' <=> Queued(t)) /\ (Waits(t)' <=> Waits(t))
    BY SameQueues DEF vars, schedvars, mutexvars, WorkersInv
  <1>3. CpuOK' /\ PointOK'
    BY <1>1 DEF WorkersInv, CpuOK, PointOK, OnCpu
  <1>4. PlaceOK'
    BY <1>1, <1>2 DEF WorkersInv, PlaceOK
  <1>5. MainAt' /\ JoinOK' /\ RoundsOK' /\ WakeOK'
    BY <1>1 DEF WorkersInv, MainAt, JoinOK, RoundsOK, WakeOK
  <1> QED
    BY <1>2, <1>3, <1>4, <1>5 DEF Placed

\* Every step keeps the invariant.
LEMMA PlacedStep ==
  ASSUME SafeTicks
  PROVE  WorkersInv /\ [Next]_vars => WorkersInv'
  <1> SUFFICES ASSUME WorkersInv, [Next]_vars PROVE WorkersInv'
    OBVIOUS
  <1>1. Typed'
    BY TypedStep DEF WorkersInv
  <1> SUFFICES Placed' /\ WakeOK'
    BY <1>1 DEF WorkersInv, Placed
  <1>2. CASE UNCHANGED vars
    BY <1>2, StutterPlaced
  <1>3. CASE Next
    <2>1. UNCHANGED policy
      BY <1>3 DEF Next
    <2>2. CASE MainStep
      BY <2>1, <2>2, MainPlaced
    <2>3. CASE \E t \in Workers : WorkerStep(t)
      BY <2>1, <2>3, WorkerPlaced
    <2>4. CASE schedule
      BY <2>1, <2>4, PreemptKeeps, YieldedKeeps, LeftKeeps
    <2>5. CASE RunNext \/ RunNobody \/ Resume
      BY <2>1, <2>5, RunNextKeeps, RunNobodyKeeps, ResumeKeeps
    <2>6. CASE \E t \in Threads : Tick(t)
      BY <2>1, <2>6, TickKeeps
    <2>7. CASE TickInScheduler
      BY <2>7 DEF TickInScheduler, SafeTicks, SchedPoints, UserPoints, LibPoints
    <2>8. CASE Halted
      BY <2>8, StutterPlaced DEF Halted
    <2> QED
      BY <1>3, <2>2, <2>3, <2>4, <2>5, <2>6, <2>7, <2>8 DEF Next, Scheduler
  <1> QED
    BY <1>2, <1>3

\* The entries of a thread in the queues, and in the mutex's queue.
LEMMA Entries ==
  ASSUME NEW t \in Threads
  PROVE  /\ InReady(t) # {} <=> Queued(t)
         /\ InWait(t) # {} <=> Waits(t)
         /\ ReadyOnce => \A p, q \in InReady(t) : p = q
         /\ WaitOnce => \A i, j \in InWait(t) : i = j
  <1>1. \A p : p \in InReady(t) <=>
          \E l \in 0 .. Levels - 1 : \E i \in 1 .. Len(ready[l]) :
            p = <<l, i>> /\ ready[l][i] = t
    BY DEF InReady
  <1>2. InReady(t) # {} <=> Queued(t)
    BY <1>1 DEF Queued
  <1>3. ASSUME ReadyOnce, NEW p \in InReady(t), NEW q \in InReady(t) PROVE p = q
    <2>1. PICK l \in 0 .. Levels - 1 : \E i \in 1 .. Len(ready[l]) :
            p = <<l, i>> /\ ready[l][i] = t
      BY <1>1
    <2>2. PICK k \in 0 .. Levels - 1 : \E i \in 1 .. Len(ready[k]) :
            q = <<k, i>> /\ ready[k][i] = t
      BY <1>1
    <2>3. PICK i \in 1 .. Len(ready[l]) : p = <<l, i>> /\ ready[l][i] = t
      BY <2>1
    <2>4. PICK j \in 1 .. Len(ready[k]) : q = <<k, j>> /\ ready[k][j] = t
      BY <2>2
    <2>5. l = k /\ i = j
      BY <1>3, <2>3, <2>4 DEF ReadyOnce
    <2> QED
      BY <2>3, <2>4, <2>5
  <1>4. InWait(t) # {} <=> Waits(t)
    BY DEF InWait, Waits
  <1>5. WaitOnce => \A i, j \in InWait(t) : i = j
    BY DEF InWait, WaitOnce
  <1> QED
    BY <1>2, <1>3, <1>4, <1>5

\* With ticks anywhere but at the fragile points, no thread is lost: worker_mutex_lock
\* and worker_join list the threads they block with whoever will wake them, and
\* add_to_scheduler, the scheduling functions and the wake-ups keep every ready
\* thread in exactly one queue.
THEOREM NobodyIsLost ==
  ASSUME SafeTicks
  PROVE  Spec => []NobodyLost
  <1>1. WorkersInv => NobodyLost
    <2> SUFFICES ASSUME WorkersInv, NEW t \in Threads
                 PROVE  /\ state[t] = "READY" /\ t # running
                             /\ ~(t = Next1 /\ pc[Main] = "create_add") =>
                             InReady(t) # {} /\ InWait(t) = {}
                        /\ state[t] = "BLOCKED" /\ ~OnCpu(t) =>
                             \/ InWait(t) # {}
                             \/ \E w \in Workers : waiting[w] = t /\ state[w] # "freed"
                        /\ \A p, q \in InReady(t) : p = q
                        /\ \A i, j \in InWait(t) : i = j
      BY DEF NobodyLost
    <2>1. state[t] = "READY" /\ t # running /\ ~(t = Next1 /\ pc[Main] = "create_add") =>
            InReady(t) # {} /\ InWait(t) = {}
      BY Entries DEF WorkersInv, PlaceOK
    <2>2. ASSUME state[t] = "BLOCKED", ~OnCpu(t), ~Waits(t)
          PROVE  \E w \in Workers : waiting[w] = t /\ state[w] # "freed"
      <3>1. t = Main
        BY <2>2 DEF WorkersInv, PlaceOK, PointOK, Fragile
      <3>2. pc[Main] \in {"join_swap", "join_cleanup"}
        BY <2>2, <3>1 DEF WorkersInv, PointOK, Fragile
      <3>3. Next1 \in Workers /\ waiting[Next1] = Main
        BY <2>2, <3>1, <3>2, NextIsWorker DEF WorkersInv, JoinOK, Joining
      <3>4. state[Next1] # "freed"
        BY <3>2, <3>3, Ids DEF WorkersInv, MainAt
      <3> QED
        BY <3>1, <3>3, <3>4
    <2>3. state[t] = "BLOCKED" /\ ~OnCpu(t) =>
            InWait(t) # {} \/ \E w \in Workers : waiting[w] = t /\ state[w] # "freed"
      BY <2>2, Entries
    <2> QED
      BY <2>1, <2>3, Entries DEF WorkersInv
  <1> QED
    BY <1>1, PlacedInit, PlacedStep, PTL DEF Spec

\* What worker_join's cleanup_thread frees is a thread that has exited, that no
\* queue holds and that is not running_tcb.
THEOREM FreedIsGone ==
  ASSUME SafeTicks
  PROVE  Spec => []NoUseAfterFree
  <1>1. WorkersInv => NoUseAfterFree
    <2> SUFFICES ASSUME WorkersInv, NEW w \in Workers, state[w] = "freed"
                 PROVE  /\ InReady(w) = {} /\ InWait(w) = {} /\ running # w /\ pc[w] = "gone"
      BY DEF NoUseAfterFree
    <2>0. w \in Threads /\ w # NULL
      BY Ids
    <2>1. ~Queued(w) /\ ~Waits(w)
      BY <2>0 DEF WorkersInv, PlaceOK
    <2>2. running # w
      BY <2>0 DEF WorkersInv, CpuOK
    <2>3. pc[w] = "gone"
      BY <2>0, <2>2 DEF WorkersInv, PointOK, Exiting, Fragile, OnCpu
    <2> QED
      BY <2>0, <2>1, <2>2, <2>3, Entries
  <1> QED
    BY <1>1, PlacedInit, PlacedStep, PTL DEF Spec

\* When threads wait for a free mutex, worker_mutex_unlock is about to wake one
\* or a woken thread is on its way to worker_mutex_lock's test-and-set.
THEOREM WakeupsArrive ==
  ASSUME SafeTicks
  PROVE  Spec => []NoLostWakeup
  <1>1. WorkersInv => NoLostWakeup
    <2> SUFFICES ASSUME WorkersInv, waitq # <<>>, ~locked
                 PROVE  \E t \in Workers :
                          \/ pc[t] = "unlock_wake" /\ state[t] \in {"READY", "RUNNING"}
                          \/ pc[t] = "lock" /\ state[t] \in {"READY", "RUNNING"}
      BY DEF NoLostWakeup
    <2> QED
      BY DEF WorkersInv, WakeOK
  <1> QED
    BY <1>1, PlacedInit, PlacedStep, PTL DEF Spec

\* When main returns, worker_join has waited for every worker.
THEOREM MainIsLast ==
  ASSUME SafeTicks
  PROVE  Spec => []JoinWaits
  <1>1. WorkersInv => JoinWaits
    <2> SUFFICES ASSUME WorkersInv, cpu = "exited", NEW w \in Workers
                 PROVE  iter[w] = Rounds /\ pc[w] = "gone"
      BY DEF JoinWaits
    <2>1. state[w] = "freed"
      BY DEF WorkersInv, CpuOK, MainAt
    <2>2. pc[w] \in Exiting /\ pc[w] \notin Fragile
      BY <2>1, Ids DEF WorkersInv, PointOK, OnCpu
    <2> QED
      BY <2>2 DEF WorkersInv, RoundsOK, Exiting, Fragile
  <1> QED
    BY <1>1, PlacedInit, PlacedStep, PTL DEF Spec
=============================================================================
