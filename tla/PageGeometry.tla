---------------------------- MODULE PageGeometry ----------------------------
(***************************************************************************)
(* Byte addresses of my_vm.c: how a virtual address is cut into directory  *)
(* index, table index and offset for each supported page size, and how     *)
(* n_malloc and n_free turn a size in bytes into pages, and page numbers    *)
(* into addresses and back.  A size is given as <<q, r>>: q whole pages and *)
(* r more bytes.  One caller; the frames of page tables are left out.      *)
(***************************************************************************)
EXTENDS Integers, Sequences, FiniteSets

CONSTANTS
  SizeExp,   \* PGSIZE = 2^SizeExp
  StartVpn,  \* pages below are taken: the search starts near a table's end
  NumVirt,   \* num_virt_pages
  NumFrames, \* num_phys_pages
  MaxPages,  \* bound: pages per n_malloc
  Sizes      \* the requests, in bytes

\* The #if ladder of my_vm.h, for pages of 4, 8, 16, 32 and 64 KB.
PGSIZE == 2 ^ SizeExp
PTXSHIFT == SizeExp
PDXSHIFT == <<22, 23, 25, 27, 29>>[SizeExp - 11]
PXSIZE == <<1024, 1024, 2048, 4096, 8192>>[SizeExp - 11]   \* PXMASK + 1
PFN_SHIFT == 12

PDX(va) == (va \div 2 ^ PDXSHIFT) % PXSIZE
PTX(va) == (va \div 2 ^ PTXSHIFT) % PXSIZE
Slot(va) == <<PDX(va), PTX(va)>>
Shift(a) == a \div 2 ^ PFN_SHIFT        \* a >> PFN_SHIFT

VARIABLES
  virt,     \* virt_bitmap
  phys,     \* phys_bitmap
  pt,       \* the page-table entries, by Slot
  regions,  \* what the caller holds: [va, size, n, pa], pa the frames' addresses
  cur       \* the n_malloc under way, with the frames so far

vars == <<virt, phys, pt, regions, cur>>

NoCall == [va |-> 0, size |-> <<0, 0>>, n |-> 0, pa |-> <<>>]

\* Every slot the reachable addresses use.
AllSlots == {Slot(v * 2 ^ PFN_SHIFT + i * PGSIZE) :
               v \in StartVpn .. NumVirt, i \in 0 .. MaxPages}

Init ==
  /\ virt = 0 .. StartVpn - 1
  /\ phys = {0}
  /\ pt = [s \in AllSlots |-> 0]
  /\ regions = {}
  /\ cur = NoCall

\* Mutation: rounded down.
num_pages_down(size) == size[1]

\* (num_bytes + PGSIZE - 1) / PGSIZE on 32 bits: a last page that is not full
\* counts, and a size less than a page below 4 GB wraps around to none.
num_pages(size) == (size[1] + (IF size[2] > 0 THEN 1 ELSE 0)) % 2 ^ (32 - SizeExp)

PageVa(r, i) == r.va + i * PGSIZE

FreeBlock(v, n) == v + n - 1 < NumVirt /\ (v .. v + n - 1) \cap virt = {}

\* n_malloc: get_next_avail shifts the page number by PFN_SHIFT.
n_malloc(size) ==
  LET n == num_pages(size) IN
  /\ cur = NoCall
  /\ n > 0
  /\ Cardinality(phys) + n <= NumFrames    \* exhaustion is VMem's subject
  /\ \E v \in StartVpn .. NumVirt - 1 :
       /\ FreeBlock(v, n)
       /\ \A w \in StartVpn .. v - 1 : ~FreeBlock(w, n)
       /\ virt' = virt \cup v .. v + n - 1
       /\ cur' = [va |-> v * 2 ^ PFN_SHIFT, size |-> size, n |-> n, pa |-> <<>>]
  /\ UNCHANGED <<phys, pt, regions>>

\* It returns NULL: nothing is asked for, or there is no room.
n_malloc_fails(size) ==
  /\ cur = NoCall
  /\ \/ num_pages(size) = 0
     \/ \A v \in StartVpn .. NumVirt - 1 : ~FreeBlock(v, num_pages(size))
  /\ UNCHANGED vars

\* One page of its loop: allocate_phys_page, map_page; the last one returns.
MapNext ==
  /\ cur # NoCall
  /\ \E f \in (0 .. NumFrames - 1) \ phys :
       LET va == PageVa(cur, Len(cur.pa))
           pa == f * PGSIZE
           r == [cur EXCEPT !.pa = Append(@, pa)]
       IN /\ 0 .. f - 1 \subseteq phys
          /\ phys' = phys \cup {f, Shift(pa)}
          /\ virt' = virt \cup {Shift(va)}
          /\ pt' = [pt EXCEPT ![Slot(va)] = pa]
          /\ \/ Len(r.pa) < r.n /\ cur' = r /\ UNCHANGED regions
             \/ Len(r.pa) = r.n /\ cur' = NoCall /\ regions' = regions \cup {r}

\* n_free of a region, given its size: entries that are 0 are skipped.
n_free(r) ==
  LET live == {i \in 0 .. num_pages(r.size) - 1 : pt[Slot(PageVa(r, i))] # 0}
      slots == {Slot(PageVa(r, i)) : i \in live}
  IN /\ cur = NoCall
     /\ phys' = phys \ {Shift(pt[s]) : s \in slots}
     /\ virt' = virt \ {Shift(PageVa(r, i)) : i \in live}
     /\ pt' = [s \in DOMAIN pt |-> IF s \in slots THEN 0 ELSE pt[s]]
     /\ regions' = regions \ {r}
     /\ UNCHANGED cur

Next ==
  \/ \E size \in Sizes : n_malloc(size) \/ n_malloc_fails(size)
  \/ MapNext
  \/ \E r \in regions : n_free(r)

Spec == Init /\ [][Next]_vars

-----------------------------------------------------------------------------
Pages(r) == {Shift(PageVa(r, i)) : i \in 0 .. r.n - 1}
FramesOf(r) == {Shift(r.pa[i]) : i \in 1 .. r.n}

\* A translation of any byte the caller asked n_malloc for leads to the frame
\* n_malloc allocated for its page, no two regions share a frame, and between
\* calls the bitmaps mark exactly the pages and frames of the live regions: the
\* numbers n_free recovers from addresses are the ones n_malloc has marked.
BackedByOwnFrame ==
  /\ \A r \in regions :
       /\ r.size[1] < r.n \/ r.size = <<r.n, 0>>
       /\ \A i \in 0 .. r.n - 1 : pt[Slot(PageVa(r, i))] = r.pa[i + 1]
  /\ \A r, q \in regions : r # q => FramesOf(r) \cap FramesOf(q) = {}
  /\ cur = NoCall =>
       /\ virt = 0 .. StartVpn - 1 \cup UNION {Pages(r) : r \in regions}
       /\ phys = {0} \cup UNION {FramesOf(r) : r \in regions}
=============================================================================
