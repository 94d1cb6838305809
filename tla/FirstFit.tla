------------------------------ MODULE FirstFit ------------------------------
(***************************************************************************)
(* The search loop of get_next_avail (my_vm.c) as it runs inside           *)
(* virt_bit_lock: one pass over the bitmap with a running count of         *)
(* consecutive free pages.  VMem uses what the loop is shown to compute    *)
(* here, the lowest free block, as a single action.                        *)
(***************************************************************************)
EXTENDS Integers

CONSTANTS
  NumVirt,  \* num_virt_pages
  MaxPages  \* bound: largest request

ASSUME FirstFitAssumption == NumVirt \in Nat \ {0} /\ MaxPages \in Nat

VARIABLES
  bits,        \* virt_bitmap
  old,         \* virt_bitmap when the call started
  num_pages,   \* the request
  vpn,         \* loop variable
  free_pages,  \* consecutive free pages just before vpn
  ret,         \* start_vpn returned, 0 for NULL
  running      \* the loop has not ended

vars == <<bits, old, num_pages, vpn, free_pages, ret, running>>

Pages == 0 .. NumVirt - 1
Block(v, n) == v .. v + n - 1

\* Any bitmap and any request n_malloc lets through (num_pages > 0).
Init ==
  /\ old \in SUBSET Pages
  /\ bits = old
  /\ num_pages \in 1 .. MaxPages
  /\ vpn = 1
  /\ free_pages = 0
  /\ ret = 0
  /\ running = TRUE

\* free_pages after the page vpn has been looked at.
Counted == IF vpn \in bits THEN 0 ELSE free_pages + 1

\* Mutation: one too low.
start_vpn_low == vpn - num_pages

start_vpn == vpn - num_pages + 1

\* One turn: not enough pages yet, or the block is marked and returned.
Turn ==
  /\ running /\ vpn < NumVirt
  /\ free_pages' = Counted
  /\ \/ /\ Counted < num_pages
        /\ vpn' = vpn + 1
        /\ UNCHANGED <<bits, ret, running>>
     \/ /\ Counted >= num_pages
        /\ bits' = bits \cup Block(start_vpn, num_pages)
        /\ ret' = start_vpn
        /\ running' = FALSE
        /\ UNCHANGED vpn
  /\ UNCHANGED <<old, num_pages>>

\* The loop ends without a block: return NULL.
NotFound ==
  /\ running /\ vpn >= NumVirt
  /\ running' = FALSE
  /\ UNCHANGED <<bits, old, num_pages, vpn, free_pages, ret>>

Returned == ~running /\ UNCHANGED vars

Next == Turn \/ NotFound \/ Returned

Spec == Init /\ [][Next]_vars

-----------------------------------------------------------------------------
\* Every variable has its type: the loop never leaves the bitmap.
TypeOK ==
  /\ old \subseteq Pages /\ bits \subseteq Pages
  /\ num_pages \in 1 .. MaxPages
  /\ vpn \in 1 .. NumVirt
  /\ free_pages \in 0 .. NumVirt
  /\ ret \in 0 .. NumVirt
  /\ running \in BOOLEAN

\* A block of n free pages at v, page 0 excluded, in the bitmap at the call.
FreeBlock(v, n) == v >= 1 /\ v + n - 1 < NumVirt /\ Block(v, n) \cap old = {}

\* get_next_avail returns the lowest block that is long enough and marks
\* exactly its pages; it returns NULL only when there is no such block, and
\* then leaves the bitmap alone.
FindsFirstFit ==
  ~running =>
    \/ /\ ret = 0 /\ bits = old
       /\ \A v \in Pages : ~FreeBlock(v, num_pages)
    \/ /\ FreeBlock(ret, num_pages)
       /\ \A v \in Pages : v < ret => ~FreeBlock(v, num_pages)
       /\ bits = old \cup Block(ret, num_pages)

\* The loop invariant: free_pages counts the free pages that end just before
\* vpn, the page before them is not free (or is page 0), and no block that
\* ends before vpn is long enough.
LoopInv ==
  /\ running => /\ bits = old /\ ret = 0
                /\ free_pages < num_pages
                /\ free_pages < vpn
                /\ Block(vpn - free_pages, free_pages) \cap old = {}
                /\ vpn - free_pages > 1 => vpn - free_pages - 1 \in old
  /\ running => \A v \in Pages : v + num_pages - 1 < vpn => ~FreeBlock(v, num_pages)
=============================================================================
