----------------------------- MODULE Namespace -----------------------------
(***************************************************************************)
(* What a file system promises of its names: a tree that only grows, in    *)
(* which a directory or file appears at once, below a directory that is    *)
(* already there, and nothing happens to it in a crash.                    *)
(***************************************************************************)
EXTENDS Integers, Sequences

CONSTANT Paths   \* sequences of names, <<>> the root

VARIABLE kind    \* what every path leads to: "none", "dir" or "file"

Init == kind = [p \in Paths |-> "none"]

\* The path p, which leads nowhere yet, appears below a directory.
Add(p, k) ==
  /\ kind[p] = "none"
  /\ IF p = <<>> THEN k = "dir" ELSE kind[SubSeq(p, 1, Len(p) - 1)] = "dir"
  /\ kind' = [kind EXCEPT ![p] = k]

\* The paths that a step changes.
Changed == {p \in Paths : kind'[p] # kind[p]}

Next == \E p \in Changed, k \in {"dir", "file"} : Add(p, k)

Spec == Init /\ [][Next]_kind
=============================================================================
