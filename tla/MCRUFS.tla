------------------------------- MODULE MCRUFS -------------------------------
(***************************************************************************)
(* RUFS for TLC: file names are interchangeable.                           *)
(***************************************************************************)
EXTENDS RUFS, TLC

Symmetry == Permutations(Names)
=============================================================================
