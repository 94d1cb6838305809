------------------------------ MODULE Counter -------------------------------
(***************************************************************************)
(* threads.c of proj1-submit: main creates two threads that add to x under *)
(* a mutex, joins them in turn and prints x.  x = x + 1 is a load and a    *)
(* store.                                                                  *)
(***************************************************************************)
EXTENDS Integers

CONSTANTS
  NumAdders,  \* threads main creates and joins
  Loop,       \* loop: turns of each thread
  NULL

Adders == 1 .. NumAdders

VARIABLES
  x,                \* the counter
  mutex,            \* holder of mutex
  pc,               \* of each adder: "none", "loop", "load", "store", "unlock", "done"
  i,                \* turns done by each adder
  loaded,           \* the value of x an adder adds to
  created, joined   \* how far main has come

vars == <<x, mutex, pc, i, loaded, created, joined>>

Init ==
  /\ x = 0 /\ mutex = NULL
  /\ pc = [t \in Adders |-> "none"]
  /\ i = [t \in Adders |-> 0]
  /\ loaded = [t \in Adders |-> 0]
  /\ created = 0 /\ joined = 0

Goto(t, l) == pc' = [pc EXCEPT ![t] = l]

\* pthread_create of each thread,
Create ==
  /\ created < NumAdders
  /\ created' = created + 1
  /\ Goto(created + 1, "loop")
  /\ UNCHANGED <<x, mutex, i, loaded, joined>>

\* then pthread_join of each.
Join ==
  /\ created = NumAdders /\ joined < NumAdders
  /\ pc[joined + 1] = "done"
  /\ joined' = joined + 1
  /\ UNCHANGED <<x, mutex, pc, i, loaded, created>>

\* Mutation: the mutex is not waited for.
Free_always == TRUE

\* pthread_mutex_lock blocks while somebody holds it.
Free == mutex = NULL

\* add_counter: the loop and the lock,
Lock(t) ==
  /\ pc[t] = "loop"
  /\ \/ i[t] < Loop /\ Free /\ mutex' = t /\ Goto(t, "load")
     \/ i[t] = Loop /\ Goto(t, "done") /\ UNCHANGED mutex
  /\ UNCHANGED <<x, i, loaded, created, joined>>

\* the two halves of x = x + 1,
Load(t) ==
  /\ pc[t] = "load"
  /\ loaded' = [loaded EXCEPT ![t] = x]
  /\ Goto(t, "store")
  /\ UNCHANGED <<x, mutex, i, created, joined>>

Store(t) ==
  /\ pc[t] = "store"
  /\ x' = loaded[t] + 1
  /\ Goto(t, "unlock")
  /\ UNCHANGED <<mutex, i, loaded, created, joined>>

\* and the unlock.
Unlock(t) ==
  /\ pc[t] = "unlock"
  /\ mutex' = NULL
  /\ i' = [i EXCEPT ![t] = @ + 1]
  /\ Goto(t, "loop")
  /\ UNCHANGED <<x, loaded, created, joined>>

\* main has printed x and returned.
Printed == joined = NumAdders
Returned == Printed /\ UNCHANGED vars

Next ==
  \/ Create \/ Join \/ Returned
  \/ \E t \in Adders : Lock(t) \/ Load(t) \/ Store(t) \/ Unlock(t)

Spec == Init /\ [][Next]_vars

-----------------------------------------------------------------------------
\* What main of threads.c prints is the number of turns of all threads it has
\* created: no addition is lost, and none is under way when all are joined.
CountsEveryTurn == Printed => x = NumAdders * Loop
=============================================================================
