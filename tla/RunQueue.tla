------------------------------ MODULE RunQueue ------------------------------
(***************************************************************************)
(* The linked list of datastructures.c as the round-robin run queue.  The  *)
(* thread that runs enqueues others, one statement at a time: the workers  *)
(* it creates, and the ones it wakes with an unlock.  Ticks land between   *)
(* its statements.  A thread that is preempted or yields goes to the end   *)
(* of the queue; one that exits or blocks does not.  Either way schedule() *)
(* dequeues the next, with the timer blocked.                              *)
(*                                                                         *)
(* A node is a number.  malloc returns any node that is not in use; a      *)
(* dequeued node is free at once.                                          *)
(***************************************************************************)
EXTENDS Integers, Sequences, FiniteSets

CONSTANTS
  NumWorkers,     \* workers that exist at a time
  Interruptible,  \* points of a thread at which a tick may land
  NULL

Main == 0
Threads == 0 .. NumWorkers
\* One node per thread suffices, and one more for a preempted enqueue.
Nodes == 1 .. NumWorkers + 2

VARIABLES
  head, tail,  \* the queue
  next, data,  \* fields of the nodes
  used,        \* nodes that are allocated
  running,     \* running_tcb; NULL when nobody is left to run
  away,        \* threads that are blocked, have exited or are not created yet
  pc,          \* where every thread is, in its own code or in enqueue
  node         \* the local variable of its enqueue

vars == <<head, tail, next, data, used, running, away, pc, node>>

Init ==
  /\ head = NULL /\ tail = NULL
  /\ next = [n \in Nodes |-> NULL]
  /\ data = [n \in Nodes |-> NULL]
  /\ used = {}
  /\ running = Main
  /\ away = Threads \ {Main}
  /\ pc = [t \in Threads |-> "user"]
  /\ node = [t \in Threads |-> NULL]

-----------------------------------------------------------------------------
At(l) == running # NULL /\ pc[running] = l
Goto(l) == pc' = [pc EXCEPT ![running] = l]

\* enqueue, called by worker_create or worker_mutex_unlock: the new node.  (An
\* exited worker's number may be given to a worker that is created.)
NewNode ==
  /\ At("user")
  /\ \E t \in away, n \in Nodes \ used :
       /\ away' = away \ {t}
       /\ used' = used \cup {n}
       /\ data' = [data EXCEPT ![n] = t]
       /\ next' = [next EXCEPT ![n] = NULL]
       /\ node' = [node EXCEPT ![running] = n]
  /\ Goto("test")
  /\ UNCHANGED <<head, tail, running>>

\* the test of queue->tail,
TestTail ==
  /\ At("test")
  /\ Goto(IF tail # NULL THEN "link_tail" ELSE "link_head")
  /\ UNCHANGED <<head, tail, next, data, used, running, away, node>>

\* Mutation: the last node is not linked to the new one.
Linked_lost == next

Linked == [next EXCEPT ![tail] = node[running]]

\* the link from the last node, a store through NULL if the queue has been
\* emptied since the test,
LinkTail ==
  /\ At("link_tail")
  /\ \/ tail # NULL /\ next' = Linked /\ Goto("set_tail")
     \/ tail = NULL /\ Goto("segv") /\ UNCHANGED next
  /\ UNCHANGED <<head, tail, data, used, running, away, node>>

\* or from the queue itself,
LinkHead ==
  /\ At("link_head")
  /\ head' = node[running]
  /\ Goto("set_tail")
  /\ UNCHANGED <<tail, next, data, used, running, away, node>>

\* and the new tail.
SetTail ==
  /\ At("set_tail")
  /\ tail' = node[running]
  /\ node' = [node EXCEPT ![running] = NULL]
  /\ Goto("user")
  /\ UNCHANGED <<head, next, data, used, running, away>>

-----------------------------------------------------------------------------
\* dequeue in sched_rr, from a queue with these fields: the first node goes,
\* the tail is reset when it was the last, and its thread runs.
dequeue(first, last, links, threads) ==
  LET rest == IF first = NULL THEN NULL ELSE links[first]
  IN /\ running' = IF first = NULL THEN NULL ELSE threads[first]
     /\ head' = rest
     /\ tail' = IF first # NULL /\ rest = NULL THEN NULL ELSE last

\* Mutation: the last node, not the first, is taken.
First_last(n) == IF tail = NULL THEN n ELSE tail

\* The head of the queue once n is in it.
First(n) == IF tail = NULL THEN n ELSE head

\* A tick, or worker_yield: schedule() appends the thread that runs, in node n.
Tick ==
  /\ running # NULL /\ pc[running] \in Interruptible
  /\ \E n \in Nodes \ used :
       LET linked == [[next EXCEPT ![n] = NULL] EXCEPT
                        ![IF tail = NULL THEN n ELSE tail] = IF tail = NULL THEN NULL ELSE n]
           filled == [data EXCEPT ![n] = running]
       IN /\ dequeue(First(n), n, linked, filled)
          /\ next' = linked
          /\ data' = filled
          /\ used' = (used \cup {n}) \ {First(n)}
  /\ UNCHANGED <<away, pc, node>>

\* The thread that runs exits, or blocks in worker_join or worker_mutex_lock.
Leave ==
  /\ At("user")
  /\ dequeue(head, tail, next, data)
  /\ used' = used \ {head}
  /\ away' = away \cup {running}
  /\ UNCHANGED <<next, data, pc, node>>

\* Nobody is left to run (where sched_rr ends then is told in Workers), or the
\* program has crashed.
Over == (running = NULL \/ At("segv")) /\ UNCHANGED vars

Next ==
  \/ NewNode \/ TestTail \/ LinkTail \/ LinkHead \/ SetTail
  \/ Tick \/ Leave \/ Over

Spec == Init /\ [][Next]_vars

-----------------------------------------------------------------------------
\* The threads in the list from a node on, k nodes at most.
Chain[k \in 0 .. NumWorkers + 2] ==
  [n \in Nodes \cup {NULL} |->
     IF n = NULL \/ k = 0 THEN <<>> ELSE <<data[n]>> \o Chain[k - 1][next[n]]]

\* The threads in the run queue, in order.
Line == Chain[NumWorkers + 2][head]

\* The threads whose enqueue has not reached its link.
Entering == {data[node[t]] : t \in {u \in Threads : pc[u] \in {"test", "link_tail", "link_head"}}}

\* Every thread that does not run, is not away and has been put in the run
\* queue stands there, once, and no other thread does: one that drops out of
\* the list would never run again.  And no enqueue stores through a NULL tail.
EveryoneInLine ==
  /\ \A t \in Threads :
       Cardinality({i \in 1 .. Len(Line) : Line[i] = t}) =
         IF t = running \/ t \in away \cup Entering THEN 0 ELSE 1
  /\ \A t \in Threads : pc[t] # "segv"

FIFO == INSTANCE ReadyFIFO WITH turn <- running, line <- Line

\* enqueue and dequeue implement a first-in first-out line.
RefinesFIFO == FIFO!Spec
=============================================================================
