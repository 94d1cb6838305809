------------------------------ MODULE DataCopy ------------------------------
(***************************************************************************)
(* The loop of put_data and get_data (my_vm.c): a transfer of size bytes   *)
(* at va is cut at page boundaries; each piece is translated on its own,   *)
(* and the call gives up at the first page that is not mapped.             *)
(***************************************************************************)
EXTENDS Integers

CONSTANTS
  PGSIZE,   \* page size in bytes
  NumPages, \* pages of the address space
  MaxSize   \* bound: largest transfer

VARIABLES
  va, size,         \* arguments
  mapped,           \* pages translate() succeeds on
  curr_va,          \* as in the code
  bytes_remaining,
  copied,           \* bytes copied: <<page, offset in its frame, buffer index>>
  status            \* "running", "ok" (0) or "failed" (-1)

vars == <<va, size, mapped, curr_va, bytes_remaining, copied, status>>

OFF(a) == a % PGSIZE
PageOf(a) == a \div PGSIZE

\* A transfer that stays inside the address space.
Init ==
  /\ va \in PGSIZE .. NumPages * PGSIZE - 1
  /\ size \in 1 .. MaxSize
  /\ va + size <= NumPages * PGSIZE
  /\ mapped \in SUBSET (1 .. NumPages - 1)
  /\ curr_va = va
  /\ bytes_remaining = size
  /\ copied = {}
  /\ status = "running"

\* Mutation: the offset in the page is forgotten.
Piece_whole == IF bytes_remaining < PGSIZE THEN bytes_remaining ELSE PGSIZE

\* bytes_to_copy
Piece ==
  LET space_in_page == PGSIZE - OFF(curr_va)
  IN IF bytes_remaining < space_in_page THEN bytes_remaining ELSE space_in_page

\* One turn: memcpy of the piece to phys_mem + page_base + offset.
Copy ==
  /\ status = "running" /\ bytes_remaining > 0
  /\ PageOf(curr_va) \in mapped
  /\ copied' = copied \cup
       {<<PageOf(curr_va), OFF(curr_va) + k, curr_va - va + k>> : k \in 0 .. Piece - 1}
  /\ curr_va' = curr_va + Piece
  /\ bytes_remaining' = bytes_remaining - Piece
  /\ UNCHANGED <<va, size, mapped, status>>

TranslateFails ==
  /\ status = "running" /\ bytes_remaining > 0
  /\ PageOf(curr_va) \notin mapped
  /\ status' = "failed"
  /\ UNCHANGED <<va, size, mapped, curr_va, bytes_remaining, copied>>

Finish ==
  /\ status = "running" /\ bytes_remaining = 0
  /\ status' = "ok"
  /\ UNCHANGED <<va, size, mapped, curr_va, bytes_remaining, copied>>

Returned == status # "running" /\ UNCHANGED vars

Next == Copy \/ TranslateFails \/ Finish \/ Returned

Spec == Init /\ [][Next]_vars

-----------------------------------------------------------------------------
\* Where each byte of the buffer belongs.
Wanted(n) == {<<PageOf(va + k), OFF(va + k), k>> : k \in 0 .. n - 1}

\* A transfer that succeeds has moved every byte between its own place in its
\* own page and its own place in the buffer; one that fails has met a page that
\* is not mapped and has moved exactly the bytes before the first such page.
CopiesExactly ==
  /\ status = "ok" => copied = Wanted(size)
  /\ status = "failed" =>
       /\ PageOf(curr_va) \notin mapped /\ curr_va < va + size
       /\ copied = Wanted(curr_va - va)
       /\ \A k \in 0 .. size - 1 :
            PageOf(va + k) \notin mapped => k >= curr_va - va

=============================================================================
