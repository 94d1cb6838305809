------------------------------ MODULE Context -------------------------------
(***************************************************************************)
(* ucontext.c of proj1-submit: main saves its context, runs a worker on a  *)
(* stack of its own with setcontext, and is resumed through uc_link right  *)
(* after its getcontext, where a flag tells the second return from the     *)
(* first.                                                                  *)
(***************************************************************************)
EXTENDS Integers

VARIABLES
  pc,               \* what runs: main's statements, "worker", or the end
  resumed_to_main,  \* the flag
  stack,            \* w1_stack: "none", "live" or "freed"
  runs              \* how often the worker has run

vars == <<pc, resumed_to_main, stack, runs>>

Init ==
  /\ pc = "getcontext" /\ resumed_to_main = FALSE
  /\ stack = "none" /\ runs = 0

\* getcontext(&main_ctx), which may fail.
GetContext ==
  /\ pc = "getcontext"
  /\ pc' \in {"test", "failed"}
  /\ UNCHANGED <<resumed_to_main, stack, runs>>

\* Mutation: the flag is not looked at.
Resumed_never == FALSE

Resumed == resumed_to_main

\* The test of the flag, where main's saved context continues.
Test ==
  /\ pc = "test"
  /\ \/ /\ Resumed
        /\ stack' = "freed"
        /\ pc' = "ended"
        /\ UNCHANGED resumed_to_main
     \/ /\ ~Resumed
        /\ resumed_to_main' = TRUE
        /\ pc' = "init"
        /\ UNCHANGED stack
  /\ UNCHANGED runs

\* init_context: getcontext and malloc may fail.
init_context ==
  /\ pc = "init"
  /\ \/ pc' = "failed" /\ UNCHANGED stack
     \/ pc' = "setcontext" /\ stack' = "live"
  /\ UNCHANGED <<resumed_to_main, runs>>

SetContext ==
  /\ pc = "setcontext"
  /\ pc' \in {"worker", "failed"}
  /\ UNCHANGED <<resumed_to_main, stack, runs>>

\* The worker returns, and uc_link resumes main_ctx.
worker1 ==
  /\ pc = "worker"
  /\ runs' = runs + 1
  /\ pc' = "test"
  /\ UNCHANGED <<resumed_to_main, stack>>

Ended == pc \in {"ended", "failed"} /\ UNCHANGED vars

Next == GetContext \/ Test \/ init_context \/ SetContext \/ worker1 \/ Ended

Spec == Init /\ [][Next]_vars

-----------------------------------------------------------------------------
\* The second return of ucontext.c's getcontext is told from the first: the
\* worker never runs twice, its stack is there while it runs, and main ends
\* well only after the worker has run and its stack has been freed.
RunsOnceOnItsStack ==
  /\ runs <= 1
  /\ pc = "worker" => stack = "live"
  /\ stack = "freed" <=> pc = "ended"
  /\ pc = "ended" => runs = 1
=============================================================================
