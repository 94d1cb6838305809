--------------------------- MODULE PageOwnership ---------------------------
(***************************************************************************)
(* What n_malloc and n_free promise about virtual pages, without bitmaps,  *)
(* page tables, TLB or locks: a caller acquires the lowest contiguous      *)
(* block of available pages that is long enough, gives its own pages back  *)
(* from the lowest up, and may lose pages for good when a call fails.      *)
(***************************************************************************)
EXTENDS Integers

CONSTANTS Threads, Pages, Limit

VARIABLES
  own,    \* the pages each thread owns
  avail   \* the pages nobody owns and that can be acquired

Init == own = [t \in Threads |-> {}] /\ avail \in SUBSET Pages

Block(a, n) == a .. a + n - 1

\* n_malloc: first fit, and only by a thread that owns nothing.
Acquire(t, n) ==
  /\ own[t] = {}
  /\ \E a \in Pages :
       /\ Block(a, n) \subseteq avail
       /\ \A b \in Pages : b < a => ~(Block(b, n) \subseteq avail)
       /\ own' = [own EXCEPT ![t] = Block(a, n)]
       /\ avail' = avail \ Block(a, n)

\* One page of n_free.
Release(t) ==
  \E p \in own[t] :
    /\ \A q \in own[t] : p <= q
    /\ own' = [own EXCEPT ![t] = @ \ {p}]
    /\ avail' = avail \cup {p}

\* A failed n_malloc, or an n_free that finds no mapping, forgets pages
\* without making them available.
Abandon(t) ==
  \E S \in SUBSET own[t] :
    /\ S # own[t]
    /\ own' = [own EXCEPT ![t] = S]
    /\ UNCHANGED avail

Next ==
  \E t \in Threads :
    (\E n \in 1 .. Limit : Acquire(t, n)) \/ Release(t) \/ Abandon(t)

Spec == Init /\ [][Next]_<<own, avail>>
=============================================================================
