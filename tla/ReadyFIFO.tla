----------------------------- MODULE ReadyFIFO -----------------------------
(***************************************************************************)
(* What the round-robin run queue of thread-worker.c promises: threads wait *)
(* in one line; a thread that is created or woken joins its end, and so    *)
(* does the running one when it is preempted; when the running thread is   *)
(* preempted, exits or blocks, the one in front runs.                      *)
(***************************************************************************)
EXTENDS Naturals, Sequences

CONSTANTS Threads, Main, NULL

VARIABLES
  turn,   \* the thread on the processor, or NULL
  line    \* the threads waiting for it

Init == turn = Main /\ line = <<>>

\* A thread that neither runs nor waits joins the line.
Arrive(t) ==
  /\ turn # NULL /\ turn # t /\ \A i \in 1 .. Len(line) : line[i] # t
  /\ line' = Append(line, t)
  /\ UNCHANGED turn

\* The running thread is preempted.
Rotate ==
  /\ turn # NULL
  /\ turn' = Head(Append(line, turn))
  /\ line' = Tail(Append(line, turn))

\* It exits or blocks; nobody runs when nobody waits.
Depart ==
  /\ turn # NULL
  /\ \/ line # <<>> /\ turn' = Head(line) /\ line' = Tail(line)
     \/ line = <<>> /\ turn' = NULL /\ UNCHANGED line

Next == Rotate \/ Depart \/ \E t \in Threads : Arrive(t)

Spec == Init /\ [][Next]_<<turn, line>>
=============================================================================
