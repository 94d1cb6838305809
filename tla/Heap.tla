-------------------------------- MODULE Heap --------------------------------
(***************************************************************************)
(* The binary heap of datastructures.c, the run queue of the PSJF and CFS  *)
(* schedulers: heap_push and heap_pop, one comparison per step, through    *)
(* psjf_cmp and cfs_cmp, which return the difference of two longs as an    *)
(* int.  What the code leaves in the array beyond size is never read and   *)
(* left out.                                                               *)
(***************************************************************************)
EXTENDS Integers, FiniteSets

CONSTANTS
  Ids,          \* the threads, by their id
  Values,       \* elapsed_quanta (psjf_cmp) or vruntime (cfs_cmp)
  INT_MAX,      \* the largest int
  MAX_THREADS,  \* length of the array
  NULL

VARIABLES
  threads,  \* heap->threads
  size,     \* heap->size
  val,      \* the values of the threads in the heap, 0 for the others
  pc,       \* "idle", "up" in heap_push, "down" in heap_pop
  i,        \* the local index of the loop
  min,      \* what heap_pop is about to return
  held,     \* history: the threads pushed and not yet popped
  wide      \* history: values too far apart since the heap was last empty

vars == <<threads, size, val, pc, i, min, held, wide>>

Slots == 0 .. MAX_THREADS - 1

\* init_heap
Init ==
  /\ threads = [k \in Slots |-> NULL]
  /\ size = 0
  /\ val = [t \in Ids |-> 0]
  /\ pc = "idle" /\ i = 0 /\ min = NULL
  /\ held = {} /\ wide = FALSE

\* The conversion of the difference to int.
ToInt(d) == ((d + INT_MAX + 1) % (2 * INT_MAX + 2)) - INT_MAX - 1

cmp(a, b) == ToInt(IF val[a] # val[b] THEN val[a] - val[b] ELSE a - b)

\* The heap->cmp(...) < 0 of the loops.
Less(j, k) == cmp(threads[j], threads[k]) < 0

\* The three assignments of a swap in the array.
Swapped(a, j, k) == [a EXCEPT ![j] = a[k], ![k] = a[j]]

Parent(k) == (k - 1) \div 2

-----------------------------------------------------------------------------
\* heap_push: the thread goes to the end.  Callers push a thread that is not
\* in the heap.  heap_push does not look at the length of the array; here
\* there are no more threads than it has slots.
heap_push(t, x) ==
  /\ pc = "idle"
  /\ t \notin held
  /\ val' = [val EXCEPT ![t] = x]
  /\ threads' = [threads EXCEPT ![size] = t]
  /\ i' = size
  /\ size' = size + 1
  /\ pc' = "up"
  /\ held' = held \cup {t}
  /\ wide' = \/ wide /\ held # {}
             \/ \E u \in held : val[u] - x > INT_MAX \/ x - val[u] > INT_MAX
  /\ UNCHANGED min

\* The loop of heap_push.
SiftUp ==
  /\ pc = "up"
  /\ \/ /\ i > 0 /\ Less(i, Parent(i))
        /\ threads' = Swapped(threads, i, Parent(i))
        /\ i' = Parent(i)
        /\ UNCHANGED pc
     \/ /\ ~(i > 0 /\ Less(i, Parent(i)))
        /\ pc' = "idle" /\ i' = 0
        /\ UNCHANGED threads
  /\ UNCHANGED <<size, val, min, held, wide>>

\* heap_pop of a heap with something in it.
heap_pop ==
  /\ pc = "idle" /\ size > 0
  /\ min' = threads[0]
  /\ size' = size - 1
  /\ threads' = [threads EXCEPT ![0] = threads[size - 1], ![size - 1] = NULL]
  /\ i' = 0
  /\ pc' = "down"
  /\ val' = [val EXCEPT ![threads[0]] = 0]
  /\ held' = held \ {threads[0]}
  /\ UNCHANGED wide

\* Mutation: the right child is not looked at.
Smallest_left == IF 2 * i + 1 < size /\ Less(2 * i + 1, i) THEN 2 * i + 1 ELSE i

\* The index of the least of i and its children.
Smallest ==
  LET left == 2 * i + 1
      right == 2 * i + 2
      s == IF left < size /\ Less(left, i) THEN left ELSE i
  IN IF right < size /\ Less(right, s) THEN right ELSE s

\* The loop of heap_pop.
SiftDown ==
  /\ pc = "down"
  /\ \/ /\ Smallest # i
        /\ threads' = Swapped(threads, i, Smallest)
        /\ i' = Smallest
        /\ UNCHANGED <<pc, min>>
     \/ /\ Smallest = i
        /\ pc' = "idle" /\ i' = 0 /\ min' = NULL
        /\ UNCHANGED threads
  /\ UNCHANGED <<size, val, held, wide>>

Next ==
  \/ \E t \in Ids, x \in Values : heap_push(t, x)
  \/ SiftUp \/ heap_pop \/ SiftDown

Spec == Init /\ [][Next]_vars

-----------------------------------------------------------------------------
\* The order psjf_cmp and cfs_cmp stand for: by value, then by id.
Precedes(a, b) == val[a] < val[b] \/ (val[a] = val[b] /\ a <= b)

\* heap_pop hands the scheduler a thread that was pushed and not yet popped,
\* none is lost, and it comes before all others in the order of the policy
\* unless two values in the heap have been more than INT_MAX apart.
PopsTheLeast ==
  [][size' < size =>
       /\ min' \in held /\ Cardinality(held) = size
       /\ wide \/ \A t \in held : Precedes(min', t)]_vars
=============================================================================
