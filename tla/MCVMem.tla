------------------------------- MODULE MCVMem -------------------------------
(***************************************************************************)
(* VMem for TLC: the threads are interchangeable, so the runs that check   *)
(* invariants only explore one state of each class of permuted threads.    *)
(***************************************************************************)
EXTENDS VMem, TLC

Symmetry == Permutations(Threads)
=============================================================================
