-------------------------------- MODULE VMem --------------------------------
(***************************************************************************)
(* The user-level virtual memory library of proj3-code (my_vm.c) after     *)
(* set_physical_mem() has run, called by several pthreads at once.         *)
(*                                                                         *)
(* Addresses are page numbers: a virtual page number (vpn) for a va, a     *)
(* frame number for a pa, and 0 in a page-directory or page-table entry    *)
(* means "unmapped", as in the code (frame 0 holds the page directory, so  *)
(* no entry can point to it).  A frame of simulated physical memory is     *)
(* PTEntries words; a word is a page-table entry or user data, and user    *)
(* data is the name of the thread that wrote it.                           *)
(*                                                                         *)
(* Critical sections under virt_bit_lock and tlb_lock contain no other     *)
(* lock and only touch state that is always accessed under that lock, so   *)
(* each is one atomic action.  A read-modify-write of a byte of            *)
(* phys_bitmap takes two actions, since n_free also changes that bitmap    *)
(* without phys_bit_lock; page_table_lock and phys_bit_lock are explicit.  *)
(***************************************************************************)
EXTENDS Integers

CONSTANTS
  Threads,      \* the pthreads that call the library
  NULL,         \* no thread
  NumPhys,      \* num_phys_pages
  NumVirt,      \* num_virt_pages
  PTEntries,    \* PXMASK + 1: entries of a page table and of the directory
  TLB_ENTRIES,  \* slots of the TLB
  ByteBits,     \* bits per bitmap byte (8)
  MaxPages,     \* bound: largest allocation, in pages
  MaxRounds,    \* bound: n_malloc calls per thread
  Starts,       \* kinds of program: "alloc", whose threads allocate, use and
                \* free in separate phases; "any", whose threads do as they like
  Pinned        \* has main allocated one page that stays allocated?

ASSUME VMemAssumption ==
  /\ NULL \notin Threads
  /\ Threads \cap Int = {}
  /\ NumPhys \in Nat \ {0} /\ NumVirt \in Nat \ {0} /\ PTEntries \in Nat \ {0}
  /\ NumVirt <= PTEntries * PTEntries
  /\ TLB_ENTRIES \in Nat \ {0} /\ ByteBits \in Nat \ {0}
  /\ MaxPages \in Nat \ {0} /\ MaxRounds \in Nat
  /\ Starts \subseteq {"any", "alloc"} /\ Pinned \in BOOLEAN
  /\ Pinned => NumPhys > 2 /\ NumVirt > 1 /\ PTEntries > 1

VARIABLES
  phys,        \* phys_bitmap: the frames whose bit is set
  virt,        \* virt_bitmap: the vpns whose bit is set
  mem,         \* phys_mem: the words of every frame
  tlb,         \* tlb_store.entries
  count,       \* tlb_store.count
  next_evict,  \* tlb_store.next_evict
  ptlock,      \* holder of page_table_lock
  physlock,    \* holder of phys_bit_lock
  pc,          \* where each thread is in its library call
  base,        \* first vpn of the thread's region
  num,         \* its length in pages
  idx,         \* i: the page the call is working on
  frame,       \* curr_pa: frame allocated for that page
  tab,         \* new_table_pa / pde: frame of its page table
  byte,        \* byte of phys_bitmap loaded by a set_bit or clear_bit
  pte,         \* the pte translate() read, on its way into the TLB
  ptr,         \* what the pointer returned by translate() points to
  tgt,         \* whose region a put_data or get_data walks
  mode,        \* "put" or "get"
  seen,        \* the words get_data has copied out
  rounds,      \* n_malloc calls made
  phase        \* phase of the callers' program

vmvars == <<phys, virt, mem, tlb, count, next_evict, ptlock, physlock>>
regvars == <<base, num>>
accvars == <<pte, ptr, tgt, mode, seen>>
alcvars == <<frame, tab, byte>>
vars == <<vmvars, pc, base, num, idx, alcvars, accvars, rounds, phase>>

-----------------------------------------------------------------------------
Frames == 0 .. NumPhys - 1
Vpns == 0 .. NumVirt - 1
Slots == 0 .. TLB_ENTRIES - 1
Entries == 0 .. PTEntries - 1
Words == Frames \cup Threads
Zeroes == [s \in Entries |-> 0]

\* my_vm.h PDX() and PTX(), on page numbers.
PDX(v) == v \div PTEntries
PTX(v) == v % PTEntries

\* The page the call of thread t is working on.
Cur(t) == base[t] + idx[t]

\* page_dir is frame 0.  Abstraction: a directory entry that user data has
\* overwritten counts as unmapped, and a store through it is lost; the code
\* would follow it out of physical memory.
Pde(v) == mem[0][PDX(v)]
Pte(v) == mem[Pde(v)][PTX(v)]
Mapped(v) == Pde(v) \in Frames \ {0} /\ Pte(v) # 0

\* The frames whose bits share a byte of phys_bitmap with frame f.
ByteOf(f) == {g \in Frames : g \div ByteBits = f \div ByteBits}

NoPtr == [kind |-> "none", at |-> 0, slot |-> 0]

\* Program points between calls of the library.
Rest == {"idle", "held", "written"}

PCs == Rest \cup
  {"alloc", "allocw", "map", "tab", "tabw", "new", "pbit", "pbitw", "vbit",
   "tadd", "free", "fpage", "fvirt", "ftlb", "fdir", "fdirw", "check",
   "walk", "refill", "access", "fault"}

Goto(t, l) == pc' = [pc EXCEPT ![t] = l]

\* A thread between regions has forgotten everything about the last one.
Forget(t) ==
  /\ base' = [base EXCEPT ![t] = 0]
  /\ num' = [num EXCEPT ![t] = 0]
  /\ idx' = [idx EXCEPT ![t] = 0]

-----------------------------------------------------------------------------
(***************************************************************************)
(* The TLB (tlb_lock)                                                      *)
(***************************************************************************)
EmptyEntry == [valid |-> FALSE, vpn |-> 0, pte |-> 0]

\* Mutations: the last slot is not looked at; the tag is not compared.
Hit_short(i, v) == i < TLB_ENTRIES - 1 /\ tlb[i].valid /\ tlb[i].vpn = v
Hit_untagged(i, v) == tlb[i].valid

Hit(i, v) == tlb[i].valid /\ tlb[i].vpn = v

\* The loops over the TLB stop at the first matching slot.
FirstHit(i, v) == Hit(i, v) /\ \A j \in Slots : j < i => ~Hit(j, v)

\* Mutation: next_evict runs past the last slot.
NextVictim_nowrap == next_evict + 1

\* Round robin over the slots.
NextVictim == (next_evict + 1) % TLB_ENTRIES

\* A known vpn is updated in place; otherwise the next unused slot is
\* filled, and once all have been used the victim is chosen round robin.
TLB_add(v, e) ==
  \/ /\ \E i \in Slots : /\ FirstHit(i, v)
                         /\ tlb' = [tlb EXCEPT ![i].pte = e]
     /\ UNCHANGED <<count, next_evict>>
  \/ /\ \A i \in Slots : ~Hit(i, v)
     /\ count < TLB_ENTRIES
     /\ tlb' = [tlb EXCEPT ![count] = [valid |-> TRUE, vpn |-> v, pte |-> e]]
     /\ count' = count + 1
     /\ UNCHANGED next_evict
  \/ /\ \A i \in Slots : ~Hit(i, v)
     /\ count >= TLB_ENTRIES
     /\ tlb' = [tlb EXCEPT ![next_evict] =
                             [valid |-> TRUE, vpn |-> v, pte |-> e]]
     /\ next_evict' = NextVictim
     /\ UNCHANGED count

\* Mutation: the slot keeps its translation.
TLB_invalidate_old(v) == UNCHANGED <<tlb, count, next_evict>>

TLB_invalidate(v) ==
  /\ \/ \E i \in Slots : /\ FirstHit(i, v)
                         /\ tlb' = [tlb EXCEPT ![i].valid = FALSE]
     \/ /\ \A i \in Slots : ~Hit(i, v)
        /\ UNCHANGED tlb
  /\ UNCHANGED <<count, next_evict>>

-----------------------------------------------------------------------------
(***************************************************************************)
(* Bits of phys_bitmap                                                     *)
(***************************************************************************)
\* What allocate_phys_page's scan finds.
LowestFree(f) == f \in Frames \ phys /\ \A g \in 0 .. f - 1 : g \in phys

PhysFull == Frames \subseteq phys

\* set_bit / clear_bit, first half: load the byte that holds the bit of f.
LoadByte(t, f) == byte' = [byte EXCEPT ![t] = phys \cap ByteOf(f)]

\* Second half: store the loaded byte back with the bit changed.
StoreSet(t, f) == phys' = (phys \ ByteOf(f)) \cup byte[t] \cup {f}
\* Mutation: the bit stays.
StoreClear_not(t, f) == UNCHANGED phys

StoreClear(t, f) == phys' = (phys \ ByteOf(f)) \cup (byte[t] \ {f})
ForgetByte(t) == byte' = [byte EXCEPT ![t] = {}]

\* Mutation: allocate_phys_page does not take phys_bit_lock.
AllocLoad_unlocked(t, f) ==
  /\ LowestFree(f)
  /\ LoadByte(t, f)
  /\ UNCHANGED physlock

\* allocate_phys_page up to the load in set_bit, and its store and unlock.
AllocLoad(t, f) ==
  /\ physlock = NULL
  /\ LowestFree(f)
  /\ LoadByte(t, f)
  /\ physlock' = t

AllocStore(t, f) ==
  /\ StoreSet(t, f)
  /\ ForgetByte(t)
  /\ physlock' = NULL

-----------------------------------------------------------------------------
(***************************************************************************)
(* n_malloc                                                                *)
(***************************************************************************)
\* Mutation: the loop over the block stops one page short.
Block_short(v, n) == v .. v + n - 2

\* The pages get_next_avail tests for a block of n pages at v.
Block(v, n) == v .. v + n - 1

FreeBlock(v, n) == /\ v >= 1 /\ v + n - 1 < NumVirt
                   /\ Block(v, n) \cap virt = {}

\* Mutation: some free block, not the lowest.
get_next_avail_anyfit(v, n) ==
  /\ FreeBlock(v, n)
  /\ virt' = virt \cup Block(v, n)

\* get_next_avail marks the lowest free block, vpn 0 excluded.
get_next_avail(v, n) ==
  /\ FreeBlock(v, n)
  /\ \A w \in 1 .. v - 1 : ~FreeBlock(w, n)
  /\ virt' = virt \cup Block(v, n)

\* The call up to get_next_avail's unlock.
n_malloc(t, n) ==
  /\ pc[t] = "idle"
  /\ phase \in {"any", "alloc"}
  /\ rounds[t] < MaxRounds
  /\ rounds' = [rounds EXCEPT ![t] = @ + 1]
  /\ \/ \E v \in Vpns :
          /\ get_next_avail(v, n)
          /\ base' = [base EXCEPT ![t] = v]
          /\ num' = [num EXCEPT ![t] = n]
          /\ Goto(t, "alloc")
     \/ /\ \A v \in Vpns : ~FreeBlock(v, n)
        /\ UNCHANGED <<virt, base, num, pc>>
  /\ UNCHANGED <<phys, mem, tlb, count, next_evict, ptlock, physlock, idx,
                 alcvars, accvars, phase>>

\* n_malloc gives up at page i: n_free(base_va, i * PGSIZE), then NULL.
\* Only the pages already mapped are handed to n_free.
GiveUp(t) ==
  /\ num' = [num EXCEPT ![t] = idx[t]]
  /\ idx' = [idx EXCEPT ![t] = 0]
  /\ frame' = [frame EXCEPT ![t] = 0]
  /\ Goto(t, "free")

\* The head of n_malloc's loop: a frame for page i, or out of memory, or done.
AllocPage(t) ==
  /\ pc[t] = "alloc"
  /\ \/ /\ idx[t] < num[t]
        /\ \E f \in Frames : /\ AllocLoad(t, f)
                             /\ frame' = [frame EXCEPT ![t] = f]
        /\ Goto(t, "allocw")
        /\ UNCHANGED <<num, idx>>
     \/ /\ idx[t] < num[t]
        /\ physlock = NULL /\ PhysFull
        /\ GiveUp(t)
        /\ UNCHANGED <<physlock, byte>>
     \/ /\ idx[t] = num[t]
        /\ Goto(t, "held")
        /\ idx' = [idx EXCEPT ![t] = 0]
        /\ UNCHANGED <<physlock, byte, frame, num>>
  /\ UNCHANGED <<phys, virt, mem, tlb, count, next_evict, ptlock, base, tab,
                 accvars, rounds, phase>>

AllocPageStore(t) ==
  /\ pc[t] = "allocw"
  /\ AllocStore(t, frame[t])
  /\ Goto(t, "map")
  /\ UNCHANGED <<virt, mem, tlb, count, next_evict, ptlock, regvars, idx,
                 frame, tab, accvars, rounds, phase>>

\* map_page: enter page_table_lock; the page table exists.
MapPage(t) ==
  /\ pc[t] = "map"
  /\ ptlock = NULL
  /\ \/ /\ Pde(Cur(t)) # 0
        /\ mem' = [mem EXCEPT ![Pde(Cur(t))][PTX(Cur(t))] = frame[t]]
        /\ Goto(t, "pbit")
        /\ UNCHANGED ptlock
     \/ /\ Pde(Cur(t)) = 0
        /\ ptlock' = t
        /\ Goto(t, "tab")
        /\ UNCHANGED mem
  /\ UNCHANGED <<phys, virt, tlb, count, next_evict, physlock, regvars, idx,
                 alcvars, accvars, rounds, phase>>

\* map_page: a frame for the missing page table, or none is left.
AllocTable(t) ==
  /\ pc[t] = "tab"
  /\ \/ /\ \E f \in Frames : /\ AllocLoad(t, f)
                             /\ tab' = [tab EXCEPT ![t] = f]
        /\ Goto(t, "tabw")
        /\ UNCHANGED <<ptlock, num, idx, frame>>
     \/ /\ physlock = NULL /\ PhysFull
        /\ ptlock' = NULL
        /\ GiveUp(t)
        /\ UNCHANGED <<physlock, byte, tab>>
  /\ UNCHANGED <<phys, virt, mem, tlb, count, next_evict, base, accvars,
                 rounds, phase>>

AllocTableStore(t) ==
  /\ pc[t] = "tabw"
  /\ AllocStore(t, tab[t])
  /\ Goto(t, "new")
  /\ UNCHANGED <<virt, mem, tlb, count, next_evict, ptlock, regvars, idx,
                 frame, tab, accvars, rounds, phase>>

\* map_page: clear the new table, hang it into the directory, map the page.
MapNew(t) ==
  /\ pc[t] = "new"
  /\ mem' = [mem EXCEPT ![tab[t]] = [Zeroes EXCEPT ![PTX(Cur(t))] = frame[t]],
                        ![0][PDX(Cur(t))] = tab[t]]
  /\ ptlock' = NULL
  /\ tab' = [tab EXCEPT ![t] = 0]
  /\ Goto(t, "pbit")
  /\ UNCHANGED <<phys, virt, tlb, count, next_evict, physlock, regvars, idx,
                 frame, byte, accvars, rounds, phase>>

\* map_page sets the bit of the frame again, under phys_bit_lock.
MarkPhys(t) ==
  /\ pc[t] = "pbit"
  /\ physlock = NULL
  /\ physlock' = t
  /\ LoadByte(t, frame[t])
  /\ Goto(t, "pbitw")
  /\ UNCHANGED <<phys, virt, mem, tlb, count, next_evict, ptlock, regvars,
                 idx, frame, tab, accvars, rounds, phase>>

MarkPhysStore(t) ==
  /\ pc[t] = "pbitw"
  /\ AllocStore(t, frame[t])
  /\ Goto(t, "vbit")
  /\ UNCHANGED <<virt, mem, tlb, count, next_evict, ptlock, regvars, idx,
                 frame, tab, accvars, rounds, phase>>

\* ... and the bit of the virtual page, under virt_bit_lock.
MarkVirt(t) ==
  /\ pc[t] = "vbit"
  /\ virt' = virt \cup {Cur(t)}
  /\ Goto(t, "tadd")
  /\ UNCHANGED <<phys, mem, tlb, count, next_evict, ptlock, physlock,
                 regvars, idx, alcvars, accvars, rounds, phase>>

\* The compulsory miss: TLB_add(va, pa), then n_malloc's next page.
MapTLB(t) ==
  /\ pc[t] = "tadd"
  /\ TLB_add(Cur(t), frame[t])
  /\ frame' = [frame EXCEPT ![t] = 0]
  /\ idx' = [idx EXCEPT ![t] = @ + 1]
  /\ Goto(t, "alloc")
  /\ UNCHANGED <<phys, virt, mem, ptlock, physlock, regvars, tab, byte,
                 accvars, rounds, phase>>

-----------------------------------------------------------------------------
(***************************************************************************)
(* n_free: the whole loop runs under page_table_lock                       *)
(***************************************************************************)
\* The caller frees its region.
n_free(t) ==
  /\ pc[t] \in {"held", "written"}
  /\ phase \in {"any", "free"}
  /\ Goto(t, "free")
  /\ UNCHANGED <<vmvars, regvars, idx, alcvars, accvars, rounds, phase>>

FreeLock(t) ==
  /\ pc[t] = "free"
  /\ ptlock = NULL
  /\ ptlock' = t
  /\ Goto(t, "fpage")
  /\ UNCHANGED <<phys, virt, mem, tlb, count, next_evict, physlock, regvars,
                 idx, alcvars, accvars, rounds, phase>>

\* One page: skip it when it is not mapped, else clear its entry and the
\* bit of its frame.  An entry that is user data is a wild frame number.
\* Past the last page: unlock and return.
FreePage(t) ==
  /\ pc[t] = "fpage"
  /\ \/ /\ idx[t] < num[t]
        /\ ~Mapped(Cur(t))
        /\ idx' = [idx EXCEPT ![t] = @ + 1]
        /\ UNCHANGED <<phys, mem, ptlock, pc, base, num, tab>>
     \/ /\ idx[t] < num[t]
        /\ Mapped(Cur(t)) /\ Pte(Cur(t)) \in Frames
        /\ physlock = NULL
        /\ tab' = [tab EXCEPT ![t] = Pde(Cur(t))]
        /\ mem' = [mem EXCEPT ![Pde(Cur(t))][PTX(Cur(t))] = 0]
        /\ phys' = phys \ {Pte(Cur(t))}
        /\ Goto(t, "fvirt")
        /\ UNCHANGED <<ptlock, regvars, idx>>
     \/ /\ idx[t] < num[t]
        /\ Mapped(Cur(t)) /\ Pte(Cur(t)) \notin Frames
        /\ Goto(t, "fault")
        /\ UNCHANGED <<phys, mem, ptlock, regvars, idx, tab>>
     \/ /\ idx[t] = num[t]
        /\ ptlock' = NULL
        /\ Forget(t)
        /\ Goto(t, "idle")
        /\ UNCHANGED <<phys, mem, tab>>
  /\ UNCHANGED <<virt, tlb, count, next_evict, physlock, frame, byte,
                 accvars, rounds, phase>>

FreeVirt(t) ==
  /\ pc[t] = "fvirt"
  /\ virt' = virt \ {Cur(t)}
  /\ Goto(t, "ftlb")
  /\ UNCHANGED <<phys, mem, tlb, count, next_evict, ptlock, physlock,
                 regvars, idx, alcvars, accvars, rounds, phase>>

\* page_table_empty
TableEmpty(f) == mem[f] = Zeroes

\* TLB_invalidate, then the test whether the page table has become empty.
FreeTLB(t) ==
  /\ pc[t] = "ftlb"
  /\ TLB_invalidate(Cur(t))
  /\ \/ /\ TableEmpty(tab[t])
        /\ Goto(t, "fdir")
        /\ UNCHANGED <<idx, tab>>
     \/ /\ ~TableEmpty(tab[t])
        /\ tab' = [tab EXCEPT ![t] = 0]
        /\ idx' = [idx EXCEPT ![t] = @ + 1]
        /\ Goto(t, "fpage")
  /\ UNCHANGED <<phys, virt, mem, ptlock, physlock, regvars, frame, byte,
                 accvars, rounds, phase>>

\* The empty page table leaves the directory; clear_bit on its frame does
\* NOT take phys_bit_lock: its load and its store interleave with others.
FreeTable(t) ==
  /\ pc[t] = "fdir"
  /\ mem' = [mem EXCEPT ![0][PDX(Cur(t))] = 0]
  /\ LoadByte(t, tab[t])
  /\ Goto(t, "fdirw")
  /\ UNCHANGED <<phys, virt, tlb, count, next_evict, ptlock, physlock,
                 regvars, idx, frame, tab, accvars, rounds, phase>>

FreeTableStore(t) ==
  /\ pc[t] = "fdirw"
  /\ StoreClear(t, tab[t])
  /\ ForgetByte(t)
  /\ mem' = [mem EXCEPT ![tab[t]] = Zeroes]
  /\ tab' = [tab EXCEPT ![t] = 0]
  /\ idx' = [idx EXCEPT ![t] = @ + 1]
  /\ Goto(t, "fpage")
  /\ UNCHANGED <<virt, tlb, count, next_evict, ptlock, physlock, regvars,
                 frame, accvars, rounds, phase>>

-----------------------------------------------------------------------------
(***************************************************************************)
(* put_data and get_data, one page per turn of their loops                 *)
(***************************************************************************)
\* A thread fills its own region.
put_data(t) ==
  /\ pc[t] = "held"
  /\ phase \in {"any", "use"}
  /\ tgt' = [tgt EXCEPT ![t] = t]
  /\ mode' = [mode EXCEPT ![t] = "put"]
  /\ Goto(t, "check")
  /\ UNCHANGED <<vmvars, regvars, idx, alcvars, pte, ptr, seen, rounds, phase>>

\* u's region holds data.
Filled(u) == pc[u] = "written" \/ mode[u] = "get"

\* A thread reads a region that has been filled: its own, or in a phase in
\* which nobody frees, anyone's.
get_data(t, u) ==
  /\ pc[t] = "written"
  /\ Filled(u)
  /\ \/ phase = "any" /\ t = u
     \/ phase = "use"
  /\ tgt' = [tgt EXCEPT ![t] = u]
  /\ mode' = [mode EXCEPT ![t] = "get"]
  /\ Goto(t, "check")
  /\ UNCHANGED <<vmvars, regvars, idx, alcvars, pte, ptr, seen, rounds, phase>>

\* Mutation: the loop does not move on.
NextPage_again(t) == UNCHANGED idx

\* The loops go on with the next page.
NextPage(t) == idx' = [idx EXCEPT ![t] = @ + 1]

\* The page being accessed.
At(t) == base[tgt[t]] + idx[t]

\* The call returns to program point l.
Return(t, l) ==
  /\ Goto(t, l)
  /\ idx' = [idx EXCEPT ![t] = 0]
  /\ seen' = [seen EXCEPT ![t] = {}]
  /\ tgt' = [tgt EXCEPT ![t] = NULL]
  /\ mode' = [mode EXCEPT ![t] = "none"]

\* TLB_check: on a hit the caller gets a pointer INTO the TLB slot.
TLB_check(t) ==
  /\ pc[t] = "check"
  /\ \/ /\ idx[t] < num[tgt[t]]
        /\ \E i \in Slots :
             /\ FirstHit(i, At(t))
             /\ ptr' = [ptr EXCEPT ![t] =
                          [kind |-> "tlb", at |-> i, slot |-> 0]]
        /\ Goto(t, "access")
        /\ UNCHANGED <<idx, seen, tgt, mode>>
     \/ /\ idx[t] < num[tgt[t]]
        /\ \A i \in Slots : ~Hit(i, At(t))
        /\ Goto(t, "walk")
        /\ UNCHANGED <<idx, seen, tgt, mode, ptr>>
     \/ /\ idx[t] = num[tgt[t]]
        /\ Return(t, "written")
        /\ UNCHANGED ptr
  /\ UNCHANGED <<vmvars, regvars, alcvars, pte, rounds, phase>>

\* translate's walk under page_table_lock, and the failure of the call when
\* the page is not mapped.
Walk(t) ==
  /\ pc[t] = "walk"
  /\ ptlock = NULL
  /\ \/ /\ Mapped(At(t))
        /\ ptr' = [ptr EXCEPT ![t] =
                     [kind |-> "pt", at |-> Pde(At(t)), slot |-> PTX(At(t))]]
        /\ pte' = [pte EXCEPT ![t] = Pte(At(t))]
        /\ Goto(t, "refill")
        /\ UNCHANGED <<idx, seen, tgt, mode>>
     \/ /\ ~Mapped(At(t))
        /\ Return(t, IF mode[t] = "put" THEN "held" ELSE "written")
        /\ UNCHANGED <<ptr, pte>>
  /\ UNCHANGED <<vmvars, regvars, alcvars, rounds, phase>>

\* translate adds the pte it read to the TLB after the unlock.
Refill(t) ==
  /\ pc[t] = "refill"
  /\ TLB_add(At(t), pte[t])
  /\ pte' = [pte EXCEPT ![t] = 0]
  /\ Goto(t, "access")
  /\ UNCHANGED <<phys, virt, mem, ptlock, physlock, regvars, idx, alcvars,
                 ptr, tgt, mode, seen, rounds, phase>>

\* *pte
Deref(p) == IF p.kind = "tlb" THEN tlb[p.at].pte ELSE mem[p.at][p.slot]

\* The pointer is dereferenced and the page copied with no lock held.
Access(t) ==
  /\ pc[t] = "access"
  /\ LET f == Deref(ptr[t]) IN
     \/ /\ f \in Frames
        /\ \/ /\ mode[t] = "put"
              /\ mem' = [mem EXCEPT ![f] = [s \in Entries |-> t]]
              /\ UNCHANGED seen
           \/ /\ mode[t] = "get"
              /\ seen' = [seen EXCEPT ![t] = {mem[f][s] : s \in Entries}]
              /\ UNCHANGED mem
        /\ NextPage(t)
        /\ ptr' = [ptr EXCEPT ![t] = NoPtr]
        /\ Goto(t, "check")
     \/ /\ f \notin Frames
        /\ Goto(t, "fault")
        /\ UNCHANGED <<mem, seen, idx, ptr>>
  /\ UNCHANGED <<phys, virt, tlb, count, next_evict, ptlock, physlock,
                 regvars, alcvars, pte, tgt, mode, rounds, phase>>

-----------------------------------------------------------------------------
\* The callers of multi_test.c: main creates all threads for one kind of
\* call and joins them before the next kind.
Advance ==
  /\ phase # "any"
  /\ \A t \in Threads : pc[t] \in Rest
  /\ \/ phase = "alloc" /\ phase' = "use"
     \/ phase = "use" /\ phase' = "free"
     \/ phase = "free" /\ (\A t \in Threads : pc[t] = "idle") /\ phase' = "alloc"
  /\ UNCHANGED <<vmvars, pc, regvars, idx, alcvars, accvars, rounds>>

\* All callers have finished.
Terminated ==
  /\ \A t \in Threads : pc[t] = "idle" /\ rounds[t] = MaxRounds
  /\ UNCHANGED vars

\* A wild access may kill the process: nothing runs any more.
Running == \A t \in Threads : pc[t] # "fault"
Crashed == ~Running /\ UNCHANGED vars

\* One step inside a library call.
Work(t) ==
  \/ AllocPage(t) \/ AllocPageStore(t) \/ MapPage(t) \/ AllocTable(t)
  \/ AllocTableStore(t) \/ MapNew(t) \/ MarkPhys(t) \/ MarkPhysStore(t)
  \/ MarkVirt(t) \/ MapTLB(t)
  \/ FreeLock(t) \/ FreePage(t) \/ FreeVirt(t) \/ FreeTLB(t)
  \/ FreeTable(t) \/ FreeTableStore(t)
  \/ TLB_check(t) \/ Walk(t) \/ Refill(t) \/ Access(t)

\* A new call.
Call(t) ==
  \/ \E n \in 1 .. MaxPages : n_malloc(t, n)
  \/ n_free(t)
  \/ put_data(t)
  \/ \E u \in Threads : get_data(t, u)

\* Right after set_physical_mem(); or with one page of main's as well, whose
\* data frame (1) was allocated before its page table (2).
Init ==
  /\ phys = IF Pinned THEN {0, 1, 2} ELSE {0}
  /\ virt = IF Pinned THEN {1} ELSE {}
  /\ mem = [f \in Frames |->
              IF Pinned /\ f = 0 THEN [Zeroes EXCEPT ![0] = 2]
              ELSE IF Pinned /\ f = 2 THEN [Zeroes EXCEPT ![1] = 1]
              ELSE Zeroes]
  /\ tlb = [i \in Slots |->
              IF Pinned /\ i = 0 THEN [valid |-> TRUE, vpn |-> 1, pte |-> 1]
              ELSE EmptyEntry]
  /\ count = IF Pinned THEN 1 ELSE 0
  /\ next_evict = 0
  /\ ptlock = NULL
  /\ physlock = NULL
  /\ pc = [t \in Threads |-> "idle"]
  /\ base = [t \in Threads |-> 0]
  /\ num = [t \in Threads |-> 0]
  /\ idx = [t \in Threads |-> 0]
  /\ frame = [t \in Threads |-> 0]
  /\ tab = [t \in Threads |-> 0]
  /\ byte = [t \in Threads |-> {}]
  /\ pte = [t \in Threads |-> 0]
  /\ ptr = [t \in Threads |-> NoPtr]
  /\ tgt = [t \in Threads |-> NULL]
  /\ mode = [t \in Threads |-> "none"]
  /\ seen = [t \in Threads |-> {}]
  /\ rounds = [t \in Threads |-> 0]
  /\ phase \in Starts

Next ==
  \/ Running /\ \E t \in Threads : Work(t) \/ Call(t)
  \/ Running /\ Advance
  \/ Terminated
  \/ Crashed

Spec == Init /\ [][Next]_vars

\* The operating system keeps running every thread that is inside a call.
FairSpec == Spec /\ \A t \in Threads : WF_vars(Running /\ Work(t))

-----------------------------------------------------------------------------
(***************************************************************************)
(* Properties                                                              *)
(***************************************************************************)
Ptrs == [kind : {"none", "tlb", "pt"}, at : Nat, slot : Nat]

\* Every variable has its type; the bitmaps, page tables and TLB of my_vm.c
\* never hold anything but page numbers (and, in a frame, user data).
TypeOK ==
  /\ phys \subseteq Frames
  /\ virt \subseteq Vpns
  /\ mem \in [Frames -> [Entries -> Words]]
  /\ tlb \in [Slots -> [valid : BOOLEAN, vpn : Nat, pte : Words]]
  /\ count \in 0 .. TLB_ENTRIES
  /\ next_evict \in Slots
  /\ ptlock \in Threads \cup {NULL}
  /\ physlock \in Threads \cup {NULL}
  /\ pc \in [Threads -> PCs]
  /\ base \in [Threads -> Nat]
  /\ num \in [Threads -> Nat]
  /\ idx \in [Threads -> Nat]
  /\ frame \in [Threads -> Frames]
  /\ tab \in [Threads -> Frames]
  /\ byte \in [Threads -> SUBSET Frames]
  /\ pte \in [Threads -> Words]
  /\ ptr \in [Threads -> Ptrs]
  /\ tgt \in [Threads -> Threads \cup {NULL}]
  /\ mode \in [Threads -> {"none", "put", "get"}]
  /\ seen \in [Threads -> SUBSET Words]
  /\ rounds \in [Threads -> Nat]
  /\ phase \in {"any", "alloc", "use", "free"}

\* The first page of t's region that n_free has not yet given back.
FirstOwned(t) ==
  IF pc[t] \in {"free", "fpage", "fvirt"} THEN idx[t]
  ELSE IF pc[t] \in {"ftlb", "fdir", "fdirw"} THEN idx[t] + 1
  ELSE IF pc[t] = "fault" THEN num[t]
  ELSE 0

\* The virtual pages thread t owns: handed out by get_next_avail to t and
\* not yet given back.
Owned(t) == (base[t] + FirstOwned(t)) .. (base[t] + num[t] - 1)

\* No virtual page belongs to two threads, and every owned page is marked in
\* virt_bitmap (so get_next_avail cannot hand it out again), whatever the
\* interleaving of n_malloc's, their failures half way, and n_free's.
VirtExclusive ==
  /\ \A t \in Threads : Owned(t) \subseteq virt
  /\ \A t, u \in Threads : t # u => Owned(t) \cap Owned(u) = {}

\* How far each call has come in its region: a page is being worked on only
\* while idx is inside the region, and a thread at rest is at its start.
RegionOK ==
  \A t \in Threads :
    /\ base[t] + num[t] <= NumVirt
    /\ num[t] > 0 => base[t] >= 1
    /\ pc[t] = "idle" => num[t] = 0
    /\ pc[t] \in Rest => idx[t] = 0
    /\ pc[t] \in {"alloc", "free", "fpage"} => idx[t] <= num[t]
    /\ pc[t] \in {"allocw", "map", "tab", "tabw", "new", "pbit", "pbitw",
                  "vbit", "tadd", "fvirt", "ftlb", "fdir", "fdirw"} =>
         idx[t] < num[t]

\* A put_data or get_data under way has a region to walk.
TargetOK ==
  \A t \in Threads :
    pc[t] \in {"check", "walk", "refill", "access"} => tgt[t] \in Threads

\* TLB_add and TLB_invalidate keep at most one valid slot per vpn and never
\* use a slot beyond count, so a lookup cannot depend on the slot order and
\* one invalidation removes a translation for good.
TLBUnique ==
  /\ \A i \in Slots : i >= count => ~tlb[i].valid
  /\ \A i, j \in Slots : i # j /\ tlb[i].valid => ~Hit(j, tlb[i].vpn)

\* Threads that hold a frame they have allocated and not yet mapped.
HasFrame(t) == pc[t] \in {"map", "tab", "tabw", "new"}
Dirs == {d \in Entries : mem[0][d] # 0}

\* Physical frames have one use each and every frame in use is marked in
\* phys_bitmap: page tables, mapped pages and frames about to be mapped are
\* all different, so no thread's data can overwrite a page table or another
\* thread's page.
FramesExclusive ==
  LET live == {v \in Vpns : Mapped(v)}
      tables == {mem[0][d] : d \in Dirs}
      pages == {Pte(v) : v \in live}
  IN /\ \A d, e \in Dirs : d # e => mem[0][d] # mem[0][e]
     /\ \A v, w \in live : v # w => Pte(v) # Pte(w)
     /\ ({0} \cup tables) \cap pages = {}
     /\ {0} \cup tables \cup pages \subseteq phys
     /\ \A t \in Threads : HasFrame(t) =>
          /\ frame[t] \in phys \ ({0} \cup tables \cup pages)
          /\ \A u \in Threads : u # t /\ HasFrame(u) => frame[u] # frame[t]
          /\ pc[t] = "new" =>
               tab[t] \in phys \ ({0, frame[t]} \cup tables \cup pages)

\* A valid TLB slot agrees with the page tables, except for the one page an
\* n_free is about to invalidate; although n_free gives the page back to
\* get_next_avail before it invalidates the slot, and map_page and translate
\* fill the TLB after releasing page_table_lock, no stale translation stays.
TLBCoherent ==
  \A i \in Slots : tlb[i].valid =>
    \/ Mapped(tlb[i].vpn) /\ Pte(tlb[i].vpn) = tlb[i].pte
    \/ \E t \in Threads : pc[t] \in {"fvirt", "ftlb"} /\ Cur(t) = tlb[i].vpn

\* get_data returns what the owner of the region has put there.
ReadsOwnData ==
  \A t \in Threads : seen[t] \subseteq {tgt[t]}

\* When all threads have freed what they got, n_malloc and n_free have
\* returned every page and every frame.
NothingLeaks ==
  (\A t \in Threads : pc[t] = "idle") =>
     virt = (IF Pinned THEN {1} ELSE {}) /\ phys = (IF Pinned THEN {0, 1, 2} ELSE {0})

\* Every call of the library returns, whatever locks the others take.
CallsReturn ==
  \A t \in Threads : (pc[t] \notin Rest) ~> (pc[t] \in Rest \/ ~Running)

(***************************************************************************)
(* VMem implements PageOwnership.                                          *)
(***************************************************************************)
UserPages == 1 .. NumVirt - 1

Ownership == INSTANCE PageOwnership
  WITH Pages <- UserPages, Limit <- MaxPages,
       own <- [t \in Threads |-> Owned(t)],
       avail <- UserPages \ virt

\* Seen through who owns which page, every step of the library is a first-fit
\* acquisition, the return of the caller's lowest page, a loss of own pages,
\* or nothing: map_page's second set_bit, TLB traffic and page-table work
\* never change who owns what.
RefinesOwnership == Ownership!Spec

=============================================================================
