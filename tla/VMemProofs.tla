----------------------------- MODULE VMemProofs -----------------------------
(***************************************************************************)
(* Proofs about VMem for any number of threads, frames, pages and TLB      *)
(* slots, any bound on calls, and both kinds of callers.                   *)
(***************************************************************************)
EXTENDS VMem, TLAPS

-----------------------------------------------------------------------------
(***************************************************************************)
(* Type correctness                                                        *)
(***************************************************************************)

\* The constants every typing argument needs: frame 0 exists, an entry that
\* is 0 is a word, slot 0 exists.
LEMMA ConstantTypes ==
  /\ 0 \in Frames /\ Frames \subseteq Words /\ 0 \in Words
  /\ Threads \subseteq Words
  /\ Zeroes \in [Entries -> Words]
  /\ 0 \in Slots
  /\ Frames \subseteq Nat /\ Entries \subseteq Nat /\ Slots \subseteq Nat
  BY VMemAssumption DEF Frames, Words, Zeroes, Slots, Entries

\* The state set_physical_mem leaves, with or without a page of main's.
LEMMA TypeInit == Init => TypeOK
  <1> SUFFICES ASSUME Init PROVE TypeOK
    OBVIOUS
  <1> USE VMemAssumption, ConstantTypes
  <1>1. mem \in [Frames -> [Entries -> Words]]
    <2>1. CASE Pinned
      <3>1. 1 \in Words /\ 2 \in Words
        BY <2>1 DEF Words, Frames
      <3> QED
        BY <2>1, <3>1 DEF Init
    <2>2. CASE ~Pinned
      BY <2>2 DEF Init
    <2> QED
      BY <2>1, <2>2
  <1>2. tlb \in [Slots -> [valid : BOOLEAN, vpn : Nat, pte : Words]]
    <2>1. CASE Pinned
      <3>1. 1 \in Words
        BY <2>1 DEF Words, Frames
      <3> QED
        BY <2>1, <3>1 DEF Init, EmptyEntry
    <2>2. CASE ~Pinned
      BY <2>2 DEF Init, EmptyEntry
    <2> QED
      BY <2>1, <2>2
  <1>3. phys \subseteq Frames /\ virt \subseteq Vpns /\ count \in 0 .. TLB_ENTRIES
    BY DEF Init, Frames, Vpns
  <1>4. pc \in [Threads -> PCs] /\ ptr \in [Threads -> Ptrs]
    BY DEF Init, PCs, Rest, NoPtr, Ptrs
  <1> QED
    BY <1>1, <1>2, <1>3, <1>4 DEF Init, TypeOK

\* The actions of n_malloc after get_next_avail that leave page tables and
\* TLB alone.
LEMMA TypeAlloc ==
  ASSUME TypeOK, NEW t \in Threads,
         \/ AllocPage(t) \/ AllocPageStore(t) \/ AllocTable(t)
         \/ AllocTableStore(t) \/ MarkPhys(t) \/ MarkPhysStore(t)
  PROVE  TypeOK'
  <1> USE VMemAssumption, ConstantTypes DEF TypeOK
  <1>1. CASE AllocPage(t)
    BY <1>1 DEF AllocPage, AllocLoad, LoadByte, GiveUp, Goto, PCs, Rest, accvars
  <1>2. CASE AllocPageStore(t)
    BY <1>2 DEF AllocPageStore, AllocStore, StoreSet, ForgetByte, Goto, PCs,
                Rest, accvars, regvars
  <1>3. CASE AllocTable(t)
    BY <1>3 DEF AllocTable, AllocLoad, LoadByte, GiveUp, Goto, PCs, Rest, accvars
  <1>4. CASE AllocTableStore(t)
    BY <1>4 DEF AllocTableStore, AllocStore, StoreSet, ForgetByte, Goto, PCs,
                Rest, accvars, regvars
  <1>5. CASE MarkPhys(t)
    BY <1>5 DEF MarkPhys, LoadByte, Goto, PCs, Rest, accvars, regvars
  <1>6. CASE MarkPhysStore(t)
    BY <1>6 DEF MarkPhysStore, AllocStore, StoreSet, ForgetByte, Goto, PCs,
                Rest, accvars, regvars
  <1> QED
    BY <1>1, <1>2, <1>3, <1>4, <1>5, <1>6

\* Storing a word into a frame, or a frame of words into memory, keeps
\* memory typed, even at an index outside it.
LEMMA StoreWord ==
  ASSUME TypeOK, NEW f, NEW s, NEW w \in Words
  PROVE  [mem EXCEPT ![f][s] = w] \in [Frames -> [Entries -> Words]]
  <1> SUFFICES ASSUME NEW g \in Frames
               PROVE  [mem EXCEPT ![f][s] = w][g] \in [Entries -> Words]
    BY DEF TypeOK
  <1>1. CASE g = f
    BY <1>1 DEF TypeOK
  <1>2. CASE g # f
    BY <1>2 DEF TypeOK
  <1> QED
    BY <1>1, <1>2

\* Overwriting a whole frame keeps the type of phys_mem.
LEMMA StoreFrame ==
  ASSUME TypeOK, NEW f, NEW c \in [Entries -> Words]
  PROVE  [mem EXCEPT ![f] = c] \in [Frames -> [Entries -> Words]]
  BY DEF TypeOK

\* map_page keeps the types: it writes frame numbers into page tables.
LEMMA TypeMap ==
  ASSUME TypeOK, NEW t \in Threads, MapPage(t) \/ MapNew(t)
  PROVE  TypeOK'
  <1> USE VMemAssumption, ConstantTypes
  <1>0. frame[t] \in Words /\ tab[t] \in Words
    BY DEF TypeOK
  <1>1. CASE MapPage(t)
    <2>1. mem' \in [Frames -> [Entries -> Words]]
      BY <1>0, <1>1, StoreWord DEF MapPage, TypeOK
    <2> QED
      BY <1>1, <2>1 DEF MapPage, TypeOK, Goto, PCs, Rest, alcvars, accvars, regvars
  <1>2. CASE MapNew(t)
    <2> DEFINE c == [Zeroes EXCEPT ![PTX(Cur(t))] = frame[t]]
               m == [mem EXCEPT ![tab[t]] = c]
    <2>1. c \in [Entries -> Words]
      BY <1>0
    <2>2. m \in [Frames -> [Entries -> Words]]
      BY <2>1, StoreFrame
    <2>3. mem' = [m EXCEPT ![0][PDX(Cur(t))] = tab[t]]
      BY <1>2 DEF MapNew
    <2> HIDE DEF c, m
    <2>4. mem' \in [Frames -> [Entries -> Words]]
      <3> SUFFICES ASSUME NEW g \in Frames
                   PROVE  [m EXCEPT ![0][PDX(Cur(t))] = tab[t]][g] \in [Entries -> Words]
        BY <2>2, <2>3
      <3>1. CASE g = 0
        BY <1>0, <2>2, <3>1
      <3>2. CASE g # 0
        BY <2>2, <3>2
      <3> QED
        BY <3>1, <3>2
    <2> QED
      BY <1>2, <2>4 DEF MapNew, TypeOK, Goto, PCs, Rest, accvars, regvars
  <1> QED
    BY <1>1, <1>2

TLBEntry == [valid : BOOLEAN, vpn : Nat, pte : Words]

\* Rewriting one field or the whole of a slot keeps the TLB typed.
LEMMA TypeSlot ==
  ASSUME TypeOK, NEW i \in Slots, NEW v \in Nat, NEW e \in Words
  PROVE  /\ [tlb EXCEPT ![i].pte = e] \in [Slots -> TLBEntry]
         /\ [tlb EXCEPT ![i].valid = FALSE] \in [Slots -> TLBEntry]
         /\ [tlb EXCEPT ![i] = [valid |-> TRUE, vpn |-> v, pte |-> e]]
              \in [Slots -> TLBEntry]
  <1>1. tlb \in [Slots -> TLBEntry]
    BY DEF TypeOK, TLBEntry
  <1>2. [tlb[i] EXCEPT !.pte = e] \in TLBEntry
    BY <1>1 DEF TLBEntry
  <1>3. [tlb[i] EXCEPT !.valid = FALSE] \in TLBEntry
    BY <1>1 DEF TLBEntry
  <1>4. [valid |-> TRUE, vpn |-> v, pte |-> e] \in TLBEntry
    BY DEF TLBEntry
  <1> QED
    BY <1>1, <1>2, <1>3, <1>4

\* TLB_add and TLB_invalidate keep the TLB typed.
LEMMA TypeTLB ==
  ASSUME TypeOK, NEW v \in Nat, NEW e \in Words,
         TLB_add(v, e) \/ TLB_invalidate(v)
  PROVE  /\ tlb' \in [Slots -> TLBEntry]
         /\ count' \in 0 .. TLB_ENTRIES
         /\ next_evict' \in Slots
  <1> USE VMemAssumption
  <1>1. CASE TLB_add(v, e)
    <2>1. tlb' \in [Slots -> TLBEntry]
      <3>1. CASE \E i \in Slots : FirstHit(i, v) /\ tlb' = [tlb EXCEPT ![i].pte = e]
        <4> PICK i \in Slots : tlb' = [tlb EXCEPT ![i].pte = e]
          BY <3>1
        <4> QED
          BY TypeSlot
      <3>2. ASSUME count < TLB_ENTRIES,
                   tlb' = [tlb EXCEPT ![count] = [valid |-> TRUE, vpn |-> v, pte |-> e]]
            PROVE  tlb' \in [Slots -> TLBEntry]
        <4>1. count \in Slots
          BY <3>2 DEF TypeOK, Slots
        <4> QED
          BY <3>2, <4>1, TypeSlot
      <3>3. ASSUME tlb' = [tlb EXCEPT ![next_evict] =
                             [valid |-> TRUE, vpn |-> v, pte |-> e]]
            PROVE  tlb' \in [Slots -> TLBEntry]
        <4>1. next_evict \in Slots
          BY DEF TypeOK
        <4> QED
          BY <3>3, <4>1, TypeSlot
      <3> QED
        BY <1>1, <3>1, <3>2, <3>3 DEF TLB_add, NextVictim, NextVictim
    <2>2. count' \in 0 .. TLB_ENTRIES
      BY <1>1 DEF TLB_add, NextVictim, TypeOK
    <2>3. next_evict' \in Slots
      BY <1>1, SMTT(60) DEF TLB_add, NextVictim, TypeOK, Slots
    <2> QED
      BY <2>1, <2>2, <2>3
  <1>2. CASE TLB_invalidate(v)
    <2>1. tlb \in [Slots -> TLBEntry]
      BY DEF TypeOK, TLBEntry
    <2>2. tlb' \in [Slots -> TLBEntry]
      BY <1>2, <2>1, TypeSlot DEF TLB_invalidate
    <2> QED
      BY <1>2, <2>2 DEF TLB_invalidate, TypeOK
  <1> QED
    BY <1>1, <1>2

\* map_page's last step and translate's refill.
LEMMA TypeFillTLB ==
  ASSUME TypeOK, TargetOK, NEW t \in Threads, MapTLB(t) \/ Refill(t)
  PROVE  TypeOK'
  <1> USE VMemAssumption, ConstantTypes
  <1>1. CASE MapTLB(t)
    <2>1. Cur(t) \in Nat /\ frame[t] \in Words
      BY DEF TypeOK, Cur
    <2>2. TLB_add(Cur(t), frame[t])
      BY <1>1 DEF MapTLB
    <2> QED
      BY <1>1, <2>1, <2>2, TypeTLB
         DEF MapTLB, TypeOK, TLBEntry, Goto, PCs, Rest, accvars, regvars
  <1>2. CASE Refill(t)
    <2>1. At(t) \in Nat /\ pte[t] \in Words
      BY <1>2 DEF TypeOK, TargetOK, At, Refill
    <2>2. TLB_add(At(t), pte[t])
      BY <1>2 DEF Refill
    <2> QED
      BY <1>2, <2>1, <2>2, TypeTLB
         DEF Refill, TypeOK, TLBEntry, Goto, PCs, Rest, alcvars, regvars
  <1> QED
    BY <1>1, <1>2

\* n_free.
LEMMA TypeFree ==
  ASSUME TypeOK, NEW t \in Threads,
         \/ n_free(t) \/ FreeLock(t) \/ FreePage(t) \/ FreeTLB(t)
         \/ FreeVirt(t) \/ FreeTable(t) \/ FreeTableStore(t)
  PROVE  TypeOK'
  <1> USE VMemAssumption, ConstantTypes
  <1>1. CASE n_free(t)
    BY <1>1 DEF n_free, TypeOK, Goto, PCs, Rest, vmvars, regvars, alcvars, accvars
  <1>2. CASE FreeLock(t)
    BY <1>2 DEF FreeLock, TypeOK, Goto, PCs, Rest, regvars, alcvars, accvars
  <1>3. CASE FreePage(t)
    <2>1. mem' \in [Frames -> [Entries -> Words]]
      BY <1>3, StoreWord DEF FreePage, TypeOK
    <2>2. tab' \in [Threads -> Frames]
      BY <1>3 DEF FreePage, TypeOK, Mapped
    <2> QED
      BY <1>3, <2>1, <2>2
         DEF FreePage, TypeOK, Forget, Goto, PCs, Rest, regvars, accvars
  <1>4. CASE FreeTLB(t)
    <2>1. Cur(t) \in Nat
      BY DEF TypeOK, Cur
    <2>2. TLB_invalidate(Cur(t))
      BY <1>4 DEF FreeTLB
    <2> QED
      BY <1>4, <2>1, <2>2, TypeTLB
         DEF FreeTLB, TypeOK, TLBEntry, Goto, PCs, Rest, regvars, accvars
  <1>5. CASE FreeVirt(t)
    BY <1>5 DEF FreeVirt, TypeOK, Goto, PCs, Rest, regvars, alcvars, accvars
  <1>6. CASE FreeTable(t)
    <2>1. mem' \in [Frames -> [Entries -> Words]]
      BY <1>6, StoreWord DEF FreeTable
    <2> QED
      BY <1>6, <2>1 DEF FreeTable, TypeOK, LoadByte, Goto, PCs, Rest, regvars, accvars
  <1>7. CASE FreeTableStore(t)
    <2>1. mem' \in [Frames -> [Entries -> Words]]
      BY <1>7, StoreFrame DEF FreeTableStore
    <2> QED
      BY <1>7, <2>1 DEF FreeTableStore, TypeOK, StoreClear, ForgetByte, Goto,
                        PCs, Rest, regvars, accvars
  <1> QED
    BY <1>1, <1>2, <1>3, <1>4, <1>5, <1>6, <1>7

\* put_data and get_data.
LEMMA TypeData ==
  ASSUME TypeOK, TargetOK, NEW t \in Threads,
         \/ put_data(t) \/ (\E u \in Threads : get_data(t, u))
         \/ TLB_check(t) \/ Walk(t) \/ Access(t)
  PROVE  TypeOK'
  <1> USE VMemAssumption, ConstantTypes
  <1>1. CASE put_data(t)
    BY <1>1 DEF put_data, TypeOK, Goto, PCs, Rest, vmvars, regvars, alcvars
  <1>2. ASSUME NEW u \in Threads, get_data(t, u) PROVE TypeOK'
    BY <1>2 DEF get_data, TypeOK, Goto, PCs, Rest, vmvars, regvars, alcvars
  <1>3. CASE TLB_check(t)
    <2>1. ptr' \in [Threads -> Ptrs]
      BY <1>3 DEF TLB_check, TypeOK, Ptrs
    <2> QED
      BY <1>3, <2>1 DEF TLB_check, TypeOK, Return, Goto, PCs, Rest, vmvars,
                        regvars, alcvars
  <1>4. CASE Walk(t)
    <2>1. CASE Mapped(At(t))
      <3>1. At(t) \in Nat
        BY <1>4 DEF Walk, TypeOK, TargetOK, At
      <3>2. PTX(At(t)) \in Entries
        BY <3>1 DEF PTX, Entries
      <3>3. Pde(At(t)) \in Frames
        BY <2>1 DEF Mapped
      <3>4. Pte(At(t)) \in Words
        BY <3>2, <3>3 DEF Pte, TypeOK
      <3>5. [kind |-> "pt", at |-> Pde(At(t)), slot |-> PTX(At(t))] \in Ptrs
        BY <3>2, <3>3 DEF Ptrs
      <3> QED
        BY <1>4, <2>1, <3>4, <3>5 DEF Walk, TypeOK, Goto, PCs, Rest, vmvars,
                                      regvars, alcvars
    <2>2. CASE ~Mapped(At(t))
      BY <1>4, <2>2 DEF Walk, TypeOK, Return, Goto, PCs, Rest, vmvars,
                        regvars, alcvars
    <2> QED
      BY <2>1, <2>2
  <1>5. CASE Access(t)
    <2> DEFINE f == Deref(ptr[t])
    <2>1. CASE f \in Frames
      <3>1. [s \in Entries |-> t] \in [Entries -> Words]
        OBVIOUS
      <3>2. mem' \in [Frames -> [Entries -> Words]]
        BY <1>5, <2>1, <3>1, StoreFrame DEF Access, NextPage, TypeOK
      <3>0. mem[f] \in [Entries -> Words]
        BY <2>1 DEF TypeOK
      <3>3. {mem[f][s] : s \in Entries} \subseteq Words
        BY <3>0
      <3>4. seen' \in [Threads -> SUBSET Words]
        BY <1>5, <2>1, <3>3 DEF Access, NextPage, TypeOK
      <3>5. NoPtr \in Ptrs
        BY DEF NoPtr, Ptrs
      <3>6. /\ idx' = [idx EXCEPT ![t] = @ + 1]
            /\ ptr' = [ptr EXCEPT ![t] = NoPtr]
            /\ pc' = [pc EXCEPT ![t] = "check"]
        BY <1>5, <2>1 DEF Access, NextPage, Goto
      <3>7. /\ idx' \in [Threads -> Nat] /\ ptr' \in [Threads -> Ptrs]
            /\ pc' \in [Threads -> PCs]
        BY <3>5, <3>6 DEF TypeOK, PCs
      <3> QED
        BY <1>5, <3>2, <3>4, <3>7 DEF Access, NextPage, TypeOK, regvars, alcvars
    <2>2. CASE f \notin Frames
      BY <1>5, <2>2 DEF Access, NextPage, TypeOK, Goto, PCs, Rest, regvars, alcvars
    <2> QED
      BY <2>1, <2>2
  <1> QED
    BY <1>1, <1>2, <1>3, <1>4, <1>5

-----------------------------------------------------------------------------
(***************************************************************************)
(* Who owns which virtual page                                             *)
(*                                                                         *)
(* VirtExclusive is not inductive alone: map_page sets and n_free clears   *)
(* the bit of Cur(t), which must be known to be t's own page.  RegionOK    *)
(* says so, and TargetOK that a data call has a region.                    *)
(***************************************************************************)
IndInv == TypeOK /\ TargetOK /\ RegionOK /\ VirtExclusive

\* The inductive invariant holds after set_physical_mem.
LEMMA IndInit == Init => IndInv
  <1> SUFFICES ASSUME Init PROVE IndInv
    OBVIOUS
  <1>1. TypeOK
    BY TypeInit
  <1>2. TargetOK /\ RegionOK
    BY VMemAssumption DEF Init, TargetOK, RegionOK
  <1>3. \A t \in Threads : Owned(t) = {}
    <2> TAKE t \in Threads
    <2>1. base[t] = 0 /\ num[t] = 0 /\ FirstOwned(t) = 0
      BY DEF Init, FirstOwned
    <2> QED
      BY <2>1 DEF Owned
  <1>4. VirtExclusive
    BY <1>3 DEF VirtExclusive
  <1> QED
    BY <1>1, <1>2, <1>4 DEF IndInv

\* The three ways in which a step of thread t changes ownership, as in
\* PageOwnership; Cur(t) is the page the call works on.
Keeps(t) == Owned(t)' = Owned(t) /\ virt' = virt
Takes(t) ==
  /\ Owned(t) = {}
  /\ \E n \in 1 .. MaxPages : \E v \in Vpns :
       /\ get_next_avail(v, n)
       /\ Owned(t)' = Block(v, n)
Returns(t) ==
  /\ Cur(t) \in Owned(t) /\ \A p \in Owned(t) : Cur(t) <= p
  /\ Owned(t)' = Owned(t) \ {Cur(t)}
  /\ virt' = virt \ {Cur(t)}
Loses(t) ==
  /\ Owned(t)' \subseteq Owned(t) /\ Owned(t)' # Owned(t)
  /\ virt' = virt
Moves(t) == Keeps(t) \/ Takes(t) \/ Returns(t) \/ Loses(t)

\* Reading Owned off the program counter.
LEMMA OwnedAt ==
  ASSUME NEW t
  PROVE  /\ pc[t] \in {"free", "fpage", "fvirt"} =>
              Owned(t) = (base[t] + idx[t]) .. (base[t] + num[t] - 1)
         /\ pc[t] \in {"ftlb", "fdir", "fdirw"} =>
              Owned(t) = (base[t] + (idx[t] + 1)) .. (base[t] + num[t] - 1)
         /\ pc[t] = "fault" =>
              Owned(t) = (base[t] + num[t]) .. (base[t] + num[t] - 1)
         /\ pc[t] \in PCs \ {"free", "fpage", "fvirt", "ftlb", "fdir",
                             "fdirw", "fault"} =>
              Owned(t) = (base[t] + 0) .. (base[t] + num[t] - 1)
  BY DEF Owned, FirstOwned

\* A step that leaves the program counter, region and progress of u alone
\* leaves u's pages alone.
LEMMA OwnedSame ==
  ASSUME NEW u, pc'[u] = pc[u], base'[u] = base[u], num'[u] = num[u],
         idx'[u] = idx[u]
  PROVE  Owned(u)' = Owned(u)
  BY DEF Owned, FirstOwned

\* Every action of t changes at most t's own control state.
LEMMA OthersStay ==
  ASSUME TypeOK, NEW t \in Threads, Work(t) \/ Call(t)
  PROVE  \A u \in Threads \ {t} :
           pc'[u] = pc[u] /\ base'[u] = base[u] /\ num'[u] = num[u] /\ idx'[u] = idx[u]
           /\ tgt'[u] = tgt[u]
  <1> USE DEF TypeOK, Goto, regvars, accvars
  <1>1. CASE \/ AllocPage(t) \/ AllocPageStore(t) \/ MapPage(t) \/ AllocTable(t)
             \/ AllocTableStore(t) \/ MapNew(t)
    BY <1>1 DEF AllocPage, AllocPageStore, MapPage, AllocTable, AllocTableStore,
                MapNew, GiveUp
  <1>2. CASE MarkPhys(t) \/ MarkPhysStore(t) \/ MarkVirt(t) \/ MapTLB(t)
    BY <1>2 DEF MarkPhys, MarkPhysStore, MarkVirt, MapTLB
  <1>3. CASE \/ n_free(t) \/ FreeLock(t) \/ FreePage(t) \/ FreeVirt(t)
             \/ FreeTLB(t) \/ FreeTable(t) \/ FreeTableStore(t)
    BY <1>3 DEF n_free, FreeLock, FreePage, FreeVirt, FreeTLB, FreeTable,
                FreeTableStore, Forget
  <1>4. CASE TLB_check(t) \/ Walk(t) \/ Refill(t) \/ Access(t)
    BY <1>4 DEF TLB_check, Walk, Refill, Access, NextPage, Return
  <1>5. CASE put_data(t) \/ \E u \in Threads : get_data(t, u)
    BY <1>5 DEF put_data, get_data
  <1>6. CASE \E n \in 1 .. MaxPages : n_malloc(t, n)
    BY <1>6 DEF n_malloc
  <1> QED
    BY <1>1, <1>2, <1>3, <1>4, <1>5, <1>6 DEF Work, Call

\* One action at a time: how it moves pages and where it leaves the call.
LEMMA MovesMalloc ==
  ASSUME IndInv, NEW t \in Threads, NEW n \in 1 .. MaxPages, n_malloc(t, n)
  PROVE  (Keeps(t) \/ Takes(t)) /\ virt' \subseteq Vpns
  <1> USE VMemAssumption
  <1>1. pc[t] = "idle" /\ num[t] = 0 /\ base[t] \in Nat /\ num[t] \in Nat
    BY DEF IndInv, TypeOK, RegionOK, n_malloc
  <1>2. Owned(t) = {}
    BY <1>1, OwnedAt DEF PCs, Rest
  <1>3. ASSUME NEW v \in Vpns, get_next_avail(v, n),
               base' = [base EXCEPT ![t] = v], num' = [num EXCEPT ![t] = n],
               Goto(t, "alloc")
        PROVE  Takes(t) /\ virt' \subseteq Vpns
    <2>1. pc'[t] = "alloc" /\ base'[t] = v /\ num'[t] = n
      BY <1>3 DEF IndInv, TypeOK, Goto
    <2>2. Owned(t)' = (v + 0) .. (v + n - 1)
      BY <2>1, OwnedAt DEF Owned, FirstOwned
    <2>3. Owned(t)' = Block(v, n)
      BY <2>2 DEF Block, Vpns
    <2>4. Block(v, n) \subseteq Vpns
      BY <1>3 DEF get_next_avail, FreeBlock, Block, Vpns
    <2> QED
      BY <1>2, <1>3, <2>3, <2>4 DEF Takes, get_next_avail, IndInv, TypeOK
  <1>4. ASSUME UNCHANGED <<virt, base, num, pc>>, idx' = idx
        PROVE  Keeps(t) /\ virt' \subseteq Vpns
    BY <1>4, OwnedSame DEF Keeps, IndInv, TypeOK
  <1> QED
    BY <1>3, <1>4 DEF n_malloc

\* Intervals of pages: the end cut off, the first page cut off, nothing left.
LEMMA Intervals ==
  ASSUME NEW b \in Nat, NEW n \in Nat, NEW i \in Nat
  PROVE  /\ i < n => /\ (b + 0) .. (b + i - 1) \subseteq (b + 0) .. (b + n - 1)
                     /\ (b + 0) .. (b + i - 1) # (b + 0) .. (b + n - 1)
                     /\ b + i \in (b + i) .. (b + n - 1)
                     /\ \A p \in (b + i) .. (b + n - 1) : b + i <= p
                     /\ (b + (i + 1)) .. (b + n - 1) =
                          ((b + i) .. (b + n - 1)) \ {b + i}
         /\ (b + n) .. (b + n - 1) = {}
  <1>1. i < n => b + i \in (b + 0) .. (b + n - 1) /\ b + i \notin (b + 0) .. (b + i - 1)
    OBVIOUS
  <1>2. i < n => (b + 0) .. (b + i - 1) \subseteq (b + 0) .. (b + n - 1)
    OBVIOUS
  <1>3. i < n => (b + (i + 1)) .. (b + n - 1) = ((b + i) .. (b + n - 1)) \ {b + i}
    OBVIOUS
  <1> QED
    BY <1>1, <1>2, <1>3

\* n_malloc, past get_next_avail, never gains a page; giving up loses some.
LEMMA MovesAlloc ==
  ASSUME IndInv, NEW t \in Threads,
         \/ AllocPage(t) \/ AllocPageStore(t) \/ MapPage(t) \/ AllocTable(t)
         \/ AllocTableStore(t) \/ MapNew(t) \/ MarkPhys(t) \/ MarkPhysStore(t)
         \/ MarkVirt(t) \/ MapTLB(t)
  PROVE  Keeps(t) \/ Loses(t)
  <1> USE DEF Goto, regvars, Owned, FirstOwned
  <1>0. /\ base[t] \in Nat /\ num[t] \in Nat /\ idx[t] \in Nat
        /\ pc \in [Threads -> PCs] /\ idx \in [Threads -> Nat] /\ num \in [Threads -> Nat]
    BY DEF IndInv, TypeOK
  <1>1. ASSUME pc[t] \in {"alloc", "tab"}, idx[t] < num[t], GiveUp(t),
               UNCHANGED <<virt, base>>
        PROVE  Loses(t)
    <2>1. pc'[t] = "free" /\ num'[t] = idx[t] /\ idx'[t] = 0 /\ base'[t] = base[t]
      BY <1>0, <1>1 DEF GiveUp
    <2>2. /\ Owned(t) = (base[t] + 0) .. (base[t] + num[t] - 1)
          /\ Owned(t)' = (base[t] + 0) .. (base[t] + idx[t] - 1)
      BY <1>1, <2>1
    <2> HIDE DEF Owned, FirstOwned
    <2> QED
      BY <1>0, <1>1, <2>2, Intervals DEF Loses
  <1>2. CASE AllocPage(t)
    <2>1. ASSUME idx[t] < num[t], GiveUp(t) PROVE Loses(t)
      BY <1>1, <1>2, <2>1 DEF AllocPage
    <2>2. ASSUME ~GiveUp(t) \/ ~(idx[t] < num[t]) PROVE Keeps(t)
      BY <1>0, <1>2, <2>2 DEF AllocPage, Keeps
    <2> QED
      BY <2>1, <2>2
  <1>3. CASE AllocTable(t)
    <2>0. idx[t] < num[t]
      BY <1>3 DEF AllocTable, IndInv, RegionOK
    <2>1. ASSUME GiveUp(t) PROVE Loses(t)
      BY <1>1, <1>3, <2>0, <2>1 DEF AllocTable
    <2>2. ASSUME ~GiveUp(t) PROVE Keeps(t)
      BY <1>0, <1>3, <2>2 DEF AllocTable, Keeps
    <2> QED
      BY <2>1, <2>2
  <1>4. CASE AllocPageStore(t) \/ AllocTableStore(t) \/ MarkPhysStore(t)
    BY <1>0, <1>4 DEF AllocPageStore, AllocTableStore, MarkPhysStore, Keeps
  <1>5. CASE MapPage(t) \/ MapNew(t) \/ MarkPhys(t)
    BY <1>0, <1>5 DEF MapPage, MapNew, MarkPhys, Keeps
  <1>6. CASE MarkVirt(t)
    <2>1. idx[t] < num[t]
      BY <1>6 DEF MarkVirt, IndInv, RegionOK
    <2>2. Cur(t) \in Owned(t)
      BY <1>0, <1>6, <2>1 DEF MarkVirt, Cur
    <2>3. virt' = virt
      BY <1>6, <2>2 DEF MarkVirt, IndInv, VirtExclusive
    <2> QED
      BY <1>0, <1>6, <2>3 DEF MarkVirt, Keeps
  <1>7. CASE MapTLB(t)
    BY <1>0, <1>7 DEF MapTLB, Keeps
  <1> QED
    BY <1>2, <1>3, <1>4, <1>5, <1>6, <1>7

\* n_free keeps, returns or loses pages of its own caller.
LEMMA MovesFree ==
  ASSUME IndInv, NEW t \in Threads,
         \/ n_free(t) \/ FreeLock(t) \/ FreePage(t) \/ FreeVirt(t)
         \/ FreeTLB(t) \/ FreeTable(t) \/ FreeTableStore(t)
  PROVE  Keeps(t) \/ Returns(t) \/ Loses(t)
  <1> USE DEF Goto, regvars, Owned, FirstOwned
  <1>0. /\ base[t] \in Nat /\ num[t] \in Nat /\ idx[t] \in Nat
        /\ pc \in [Threads -> PCs] /\ idx \in [Threads -> Nat]
        /\ num \in [Threads -> Nat] /\ base \in [Threads -> Nat]
    BY DEF IndInv, TypeOK
  <1>1. CASE n_free(t)
    <2>1. idx[t] = 0
      BY <1>1 DEF n_free, IndInv, RegionOK, Rest
    <2> QED
      BY <1>0, <1>1, <2>1 DEF n_free, vmvars, Keeps
  <1>2. CASE FreeLock(t) \/ FreeTable(t)
    BY <1>0, <1>2 DEF FreeLock, FreeTable, Keeps
  <1>3. CASE FreePage(t)
    <2>1. ASSUME idx[t] < num[t],
                 \/ pc' = pc /\ idx' = [idx EXCEPT ![t] = @ + 1]
                 \/ pc' = [pc EXCEPT ![t] = "fault"] /\ idx' = idx,
                 UNCHANGED <<base, num, virt>>
          PROVE  Loses(t)
      <3>1. Owned(t) = (base[t] + idx[t]) .. (base[t] + num[t] - 1)
        BY <1>3 DEF FreePage
      <3>2. \/ Owned(t)' = (base[t] + (idx[t] + 1)) .. (base[t] + num[t] - 1)
            \/ Owned(t)' = (base[t] + num[t]) .. (base[t] + num[t] - 1)
        BY <1>0, <1>3, <2>1 DEF FreePage
      <3>3. base[t] + idx[t] \in Owned(t) /\ base[t] + idx[t] \notin Owned(t)'
        BY <1>0, <2>1, <3>1, <3>2
      <3>4. Owned(t)' \subseteq Owned(t)
        BY <1>0, <2>1, <3>1, <3>2
      <3> QED
        BY <2>1, <3>3, <3>4 DEF Loses
    <2>2. ASSUME Goto(t, "fvirt"), UNCHANGED <<base, num, idx, virt>>
          PROVE  Keeps(t)
      BY <1>0, <1>3, <2>2 DEF FreePage, Keeps
    <2>3. ASSUME idx[t] = num[t], Forget(t), Goto(t, "idle"), virt' = virt
          PROVE  Keeps(t)
      <3>1. Owned(t) = (base[t] + num[t]) .. (base[t] + num[t] - 1)
        BY <1>3, <2>3 DEF FreePage
      <3>2. Owned(t)' = (0 + 0) .. (0 + 0 - 1)
        BY <1>0, <2>3 DEF Forget
      <3>3. Owned(t) = {} /\ Owned(t)' = {}
        BY <1>0, <3>1, <3>2
      <3> QED
        BY <2>3, <3>3 DEF Keeps
    <2> QED
      BY <1>3, <2>1, <2>2, <2>3 DEF FreePage
  <1>4. CASE FreeVirt(t)
    <2>1. idx[t] < num[t]
      BY <1>4 DEF FreeVirt, IndInv, RegionOK
    <2>2. /\ Owned(t) = (base[t] + idx[t]) .. (base[t] + num[t] - 1)
          /\ Owned(t)' = (base[t] + (idx[t] + 1)) .. (base[t] + num[t] - 1)
      BY <1>0, <1>4 DEF FreeVirt
    <2>3. Cur(t) = base[t] + idx[t]
      BY DEF Cur
    <2> HIDE DEF Owned, FirstOwned
    <2>4. Owned(t)' = Owned(t) \ {Cur(t)}
      <3>1. (base[t] + (idx[t] + 1)) .. (base[t] + num[t] - 1)
               = ((base[t] + idx[t]) .. (base[t] + num[t] - 1)) \ {base[t] + idx[t]}
        BY <1>0, <2>1, Intervals
      <3> QED
        BY <2>2, <2>3, <3>1, Zenon
    <2>5. Cur(t) \in Owned(t) /\ \A p \in Owned(t) : Cur(t) <= p
      BY <1>0, <2>1, <2>2, <2>3, Intervals
    <2> QED
      BY <1>4, <2>4, <2>5 DEF FreeVirt, Returns
  <1>5. CASE FreeTLB(t) \/ FreeTableStore(t)
    BY <1>0, <1>5 DEF FreeTLB, FreeTableStore, Keeps
  <1> QED
    BY <1>1, <1>2, <1>3, <1>4, <1>5

\* put_data and get_data move no pages, except in a crash.
LEMMA MovesData ==
  ASSUME IndInv, NEW t \in Threads,
         \/ put_data(t) \/ (\E u \in Threads : get_data(t, u))
         \/ TLB_check(t) \/ Walk(t) \/ Refill(t) \/ Access(t)
  PROVE  Keeps(t) \/ Loses(t)
  <1> USE DEF Goto, regvars, vmvars, Owned, FirstOwned
  <1>0. /\ base[t] \in Nat /\ num[t] \in Nat
        /\ pc \in [Threads -> PCs]
    BY DEF IndInv, TypeOK
  <1>1. CASE put_data(t) \/ \E u \in Threads : get_data(t, u)
    BY <1>0, <1>1 DEF put_data, get_data, Keeps
  <1>2. CASE TLB_check(t) \/ Walk(t) \/ Refill(t)
    BY <1>0, <1>2 DEF TLB_check, Walk, Refill, Return, Keeps
  <1>3. CASE Access(t)
    <2>1. CASE pc' = [pc EXCEPT ![t] = "check"]
      BY <1>0, <1>3, <2>1 DEF Access, NextPage, Keeps
    <2>2. CASE pc' = [pc EXCEPT ![t] = "fault"]
      <3>1. /\ Owned(t) = (base[t] + 0) .. (base[t] + num[t] - 1)
            /\ Owned(t)' = (base[t] + num[t]) .. (base[t] + num[t] - 1)
            /\ virt' = virt
        BY <1>0, <1>3, <2>2 DEF Access, NextPage
      <3> HIDE DEF Owned, FirstOwned
      <3>2. Owned(t)' = {}
        BY <1>0, <3>1, Intervals
      <3> QED
        BY <3>1, <3>2 DEF Keeps, Loses
    <2> QED
      BY <1>3, <2>1, <2>2 DEF Access, NextPage
  <1> QED
    BY <1>1, <1>2, <1>3

\* Progress within the region is preserved for the thread that moves.
LEMMA RegionStep ==
  ASSUME IndInv, NEW t \in Threads, Work(t) \/ Call(t)
  PROVE  RegionOK' /\ TargetOK'
  <1> USE VMemAssumption DEF Goto, regvars, accvars, Rest
  <1>0. /\ base \in [Threads -> Nat] /\ num \in [Threads -> Nat]
        /\ idx \in [Threads -> Nat] /\ pc \in [Threads -> PCs]
        /\ tgt \in [Threads -> Threads \cup {NULL}]
    BY DEF IndInv, TypeOK
  <1> DEFINE
       Here(p, b, n, i, g) ==
         /\ b + n <= NumVirt
         /\ n > 0 => b >= 1
         /\ p = "idle" => n = 0
         /\ p \in Rest => i = 0
         /\ p \in {"alloc", "free", "fpage"} => i <= n
         /\ p \in {"allocw", "map", "tab", "tabw", "new", "pbit", "pbitw",
                   "vbit", "tadd", "fvirt", "ftlb", "fdir", "fdirw"} => i < n
         /\ p \in {"check", "walk", "refill", "access"} => g \in Threads
  <1>1. \A u \in Threads : Here(pc[u], base[u], num[u], idx[u], tgt[u])
    BY DEF IndInv, RegionOK, TargetOK
  <1>2. Here(pc'[t], base'[t], num'[t], idx'[t], tgt'[t])
    <2>1. CASE \/ AllocPage(t) \/ AllocTable(t)
      BY <1>0, <1>1, <2>1 DEF AllocPage, AllocTable, GiveUp
    <2>2. CASE \/ AllocPageStore(t) \/ MapPage(t) \/ AllocTableStore(t) \/ MapNew(t)
               \/ MarkPhys(t) \/ MarkPhysStore(t) \/ MarkVirt(t) \/ MapTLB(t)
      BY <1>0, <1>1, <2>2 DEF AllocPageStore, MapPage, AllocTableStore, MapNew,
                              MarkPhys, MarkPhysStore, MarkVirt, MapTLB
    <2>3. CASE n_free(t) \/ FreeLock(t) \/ FreeVirt(t) \/ FreeTable(t)
      BY <1>0, <1>1, <2>3 DEF n_free, FreeLock, FreeVirt, FreeTable
    <2>4. CASE FreePage(t)
      BY <1>0, <1>1, <2>4 DEF FreePage, Forget
    <2>5. CASE FreeTLB(t) \/ FreeTableStore(t)
      BY <1>0, <1>1, <2>5 DEF FreeTLB, FreeTableStore
    <2>6. CASE TLB_check(t) \/ Walk(t)
      BY <1>0, <1>1, <2>6 DEF TLB_check, Walk, Return
    <2>7. CASE Refill(t) \/ Access(t)
      BY <1>0, <1>1, <2>7 DEF Refill, Access, NextPage
    <2>8. CASE put_data(t) \/ \E u \in Threads : get_data(t, u)
      BY <1>0, <1>1, <2>8 DEF put_data, get_data
    <2>9. CASE \E n \in 1 .. MaxPages : n_malloc(t, n)
      BY <1>0, <1>1, <2>9 DEF n_malloc, get_next_avail, FreeBlock, Vpns
    <2> QED
      BY <2>1, <2>2, <2>3, <2>4, <2>5, <2>6, <2>7, <2>8, <2>9 DEF Work, Call
  <1>3. \A u \in Threads \ {t} : Here(pc'[u], base'[u], num'[u], idx'[u], tgt'[u])
    <2> HIDE DEF Here
    <2> QED
      BY <1>1, OthersStay DEF IndInv
  <1>4. \A u \in Threads : Here(pc'[u], base'[u], num'[u], idx'[u], tgt'[u])
    BY <1>2, <1>3
  <1> QED
    BY <1>4 DEF RegionOK, TargetOK

\* Ownership moves of one thread keep all threads' pages apart.
LEMMA ExclusiveStep ==
  ASSUME IndInv, NEW t \in Threads, Moves(t),
         \A u \in Threads \ {t} : Owned(u)' = Owned(u)
  PROVE  VirtExclusive'
  <1> USE DEF IndInv, VirtExclusive
  <1>1. CASE Keeps(t) \/ Loses(t)
    BY <1>1 DEF Keeps, Loses
  <1>2. CASE Returns(t)
    BY <1>2 DEF Returns
  <1>3. CASE Takes(t)
    BY <1>3 DEF Takes, get_next_avail, FreeBlock
  <1> QED
    BY <1>1, <1>2, <1>3 DEF Moves

\* Every step moves only pages of the thread that takes it.
LEMMA MovesStep ==
  ASSUME IndInv, NEW t \in Threads, Work(t) \/ Call(t)
  PROVE  Moves(t) /\ \A u \in Threads \ {t} : Owned(u)' = Owned(u)
  <1>1. Moves(t)
    BY MovesMalloc, MovesAlloc, MovesFree, MovesData DEF Work, Call, Moves
  <1>2. ASSUME NEW u \in Threads \ {t} PROVE Owned(u)' = Owned(u)
    BY <1>2, OthersStay, OwnedSame DEF IndInv
  <1> QED
    BY <1>1, <1>2

\* Every step of a thread keeps the types.
LEMMA TypeStep ==
  ASSUME IndInv, NEW t \in Threads, Work(t) \/ Call(t)
  PROVE  TypeOK'
  <1> USE VMemAssumption, ConstantTypes
  <1>1. CASE MarkVirt(t)
    <2>1. virt' \subseteq Vpns
      <3>1. Keeps(t) \/ Loses(t)
        BY <1>1, MovesAlloc
      <3> QED
        BY <3>1 DEF Keeps, Loses, IndInv, TypeOK
    <2> QED
      BY <1>1, <2>1 DEF MarkVirt, IndInv, TypeOK, Goto, PCs, Rest, regvars,
                        alcvars, accvars
  <1>2. ASSUME NEW n \in 1 .. MaxPages, n_malloc(t, n) PROVE TypeOK'
    <2>1. virt' \subseteq Vpns
      BY <1>2, MovesMalloc
    <2> QED
      BY <1>2, <2>1 DEF n_malloc, IndInv, TypeOK, Goto, PCs, Rest, Vpns, alcvars, accvars
  <1> QED
    BY <1>1, <1>2, TypeAlloc, TypeMap, TypeFillTLB, TypeFree, TypeData
       DEF Work, Call, IndInv

\* The invariant is inductive.
LEMMA IndStep == IndInv /\ [Next]_vars => IndInv'
  <1> SUFFICES ASSUME IndInv, [Next]_vars PROVE IndInv'
    OBVIOUS
  <1>1. ASSUME NEW t \in Threads, Work(t) \/ Call(t) PROVE IndInv'
    BY <1>1, TypeStep, RegionStep, MovesStep, ExclusiveStep DEF IndInv
  <1>2. ASSUME UNCHANGED <<vmvars, pc, regvars, idx, alcvars, accvars, rounds>>,
               phase' \in {"any", "alloc", "use", "free"}
        PROVE  IndInv'
    <2>1. TypeOK'
      BY <1>2 DEF IndInv, TypeOK, vmvars, regvars, alcvars, accvars
    <2>2. RegionOK' /\ TargetOK'
      BY <1>2 DEF IndInv, RegionOK, TargetOK, regvars, accvars
    <2>3. \A u : Owned(u)' = Owned(u)
      BY <1>2, OwnedSame DEF regvars
    <2>4. VirtExclusive'
      BY <1>2, <2>3 DEF IndInv, VirtExclusive, vmvars
    <2> QED
      BY <2>1, <2>2, <2>4 DEF IndInv
  <1>3. CASE Advance
    BY <1>2, <1>3 DEF Advance
  <1>4. CASE UNCHANGED vars
    BY <1>2, <1>4 DEF vars, regvars, IndInv, TypeOK
  <1> QED
    BY <1>1, <1>3, <1>4 DEF Next, Terminated, Crashed

\* Every state my_vm.c reaches is well typed: bitmaps, page tables and TLB
\* only ever hold page numbers, frame numbers and user data, whatever number
\* of threads calls the library and however their calls interleave.
THEOREM TypeCorrect == Spec => []TypeOK
  <1>1. IndInv => TypeOK
    BY DEF IndInv
  <1> QED
    BY <1>1, IndInit, IndStep, PTL DEF Spec

\* No two threads ever own the same virtual page, and no owned page looks
\* free to get_next_avail: n_malloc never hands out a page twice.
THEOREM PagesExclusive == Spec => []VirtExclusive
  <1>1. IndInv => VirtExclusive
    BY DEF IndInv
  <1> QED
    BY <1>1, IndInit, IndStep, PTL DEF Spec

-----------------------------------------------------------------------------
(***************************************************************************)
(* The TLB                                                                 *)
(***************************************************************************)
LEMMA UniqueAdd ==
  ASSUME TypeOK, TLBUnique, NEW v \in Nat, NEW e \in Words, TLB_add(v, e)
  PROVE  TLBUnique'
  <1> USE VMemAssumption DEF TypeOK, TLBUnique, Hit
  <1>1. ASSUME NEW i \in Slots, Hit(i, v), tlb' = [tlb EXCEPT ![i].pte = e],
               UNCHANGED count
        PROVE  TLBUnique'
    <2>1. \A j \in Slots : tlb'[j].valid = tlb[j].valid /\ tlb'[j].vpn = tlb[j].vpn
      BY <1>1
    <2> QED
      BY <1>1, <2>1
  <1>2. ASSUME NEW i \in Slots, \A j \in Slots : ~Hit(j, v),
               tlb' = [tlb EXCEPT ![i] = [valid |-> TRUE, vpn |-> v, pte |-> e]],
               i < count', count <= count', count' \in Nat
        PROVE  TLBUnique'
    <2>1. /\ tlb'[i].valid /\ tlb'[i].vpn = v
          /\ \A j \in Slots : j # i => tlb'[j] = tlb[j]
      BY <1>2
    <2>2. \A j \in Slots : j >= count' => ~tlb'[j].valid
      BY <1>2, <2>1, SMTT(60) DEF Slots
    <2>3. \A j, k \in Slots : j # k /\ tlb'[j].valid =>
                                ~(tlb'[k].valid /\ tlb'[k].vpn = tlb'[j].vpn)
      BY <1>2, <2>1
    <2> QED
      BY <2>2, <2>3
  <1>3. ASSUME count < TLB_ENTRIES, count' = count + 1
        PROVE  count \in Slots /\ count < count' /\ count <= count' /\ count' \in Nat
    BY <1>3 DEF Slots
  <1>4. ASSUME count >= TLB_ENTRIES, count' = count
        PROVE  next_evict \in Slots /\ next_evict < count' /\ count' \in Nat /\ count <= count'
    BY <1>4 DEF Slots
  <1> QED
    BY <1>1, <1>2, <1>3, <1>4 DEF TLB_add, NextVictim, FirstHit

\* TLB_invalidate keeps at most one valid slot per vpn.
LEMMA UniqueInvalidate ==
  ASSUME TypeOK, TLBUnique, NEW v, TLB_invalidate(v)
  PROVE  TLBUnique'
  <1> USE VMemAssumption DEF TypeOK, TLBUnique, Hit
  <1>1. ASSUME NEW i \in Slots, tlb' = [tlb EXCEPT ![i].valid = FALSE],
               UNCHANGED count
        PROVE  TLBUnique'
    <2>1. \A j \in Slots : tlb'[j].vpn = tlb[j].vpn /\ (tlb'[j].valid => tlb[j].valid)
      BY <1>1
    <2> QED
      BY <1>1, <2>1
  <1> QED
    BY <1>1 DEF TLB_invalidate

\* The TLB at the start holds at most main's page.
LEMMA UniqueInit == Init => TLBUnique
  BY VMemAssumption DEF Init, TLBUnique, Hit, EmptyEntry, Slots

\* No step makes a second valid slot for a page.
LEMMA UniqueStep == IndInv /\ TLBUnique /\ [Next]_vars => TLBUnique'
  <1>0. SUFFICES ASSUME IndInv, TLBUnique, [Next]_vars PROVE TLBUnique'
    OBVIOUS
  <1>1. ASSUME UNCHANGED <<tlb, count>> PROVE TLBUnique'
    BY <1>0, <1>1 DEF TLBUnique, Hit
  <1>2. ASSUME NEW t \in Threads, MapTLB(t) PROVE TLBUnique'
    <2>1. Cur(t) \in Nat /\ frame[t] \in Words
      <3>1. base[t] \in Nat /\ idx[t] \in Nat /\ frame[t] \in Frames
        BY <1>0 DEF IndInv, TypeOK
      <3>2. Cur(t) \in Nat
        BY <3>1 DEF Cur
      <3>3. frame[t] \in Words
        BY <3>1 DEF Words
      <3> QED
        BY <3>2, <3>3
    <2> QED
      BY <1>0, <1>2, <2>1, UniqueAdd DEF MapTLB, IndInv
  <1>3. ASSUME NEW t \in Threads, Refill(t) PROVE TLBUnique'
    <2>1. At(t) \in Nat /\ pte[t] \in Words
      BY <1>3, <1>0 DEF IndInv, TypeOK, TargetOK, At, Refill
    <2> QED
      BY <1>0, <1>3, <2>1, UniqueAdd DEF Refill, IndInv
  <1>4. ASSUME NEW t \in Threads, FreeTLB(t) PROVE TLBUnique'
    BY <1>0, <1>4, UniqueInvalidate DEF FreeTLB, IndInv
  <1>5. ASSUME NEW t \in Threads,
               \/ AllocPage(t) \/ AllocPageStore(t) \/ MapPage(t) \/ AllocTable(t)
               \/ AllocTableStore(t) \/ MapNew(t) \/ MarkPhys(t) \/ MarkPhysStore(t)
               \/ MarkVirt(t) \/ FreeLock(t) \/ FreePage(t) \/ FreeVirt(t)
               \/ FreeTable(t) \/ FreeTableStore(t)
        PROVE  UNCHANGED <<tlb, count>>
    BY <1>5 DEF AllocPage, AllocPageStore, MapPage, AllocTable, AllocTableStore,
       MapNew, MarkPhys, MarkPhysStore, MarkVirt, FreeLock, FreePage, FreeVirt,
       FreeTable, FreeTableStore
  <1>6. ASSUME NEW t \in Threads, TLB_check(t) \/ Walk(t) \/ Access(t) \/ Call(t)
        PROVE  UNCHANGED <<tlb, count>>
    BY <1>6 DEF TLB_check, Walk, Access, NextPage, Call, n_malloc, n_free, put_data,
                get_data, vmvars
  <1>7. CASE Advance \/ UNCHANGED vars
    BY <1>1, <1>7 DEF Advance, vars, vmvars
  <1> QED
    BY <1>0, <1>1, <1>2, <1>3, <1>4, <1>5, <1>6, <1>7
       DEF Next, Terminated, Crashed, Work

\* A virtual page has at most one valid TLB slot, whatever the number of
\* slots and however adds, refills, evictions and invalidations interleave.
THEOREM OneSlotPerPage == Spec => []TLBUnique
  BY UniqueInit, UniqueStep, IndInit, IndStep, PTL DEF Spec

-----------------------------------------------------------------------------
(***************************************************************************)
(* Refinement                                                              *)
(***************************************************************************)
LEMMA OwnedUser ==
  ASSUME IndInv, NEW t \in Threads
  PROVE  Owned(t) \subseteq UserPages
  <1>1. /\ base[t] \in Nat /\ num[t] \in Nat /\ FirstOwned(t) \in Nat
        /\ base[t] + num[t] <= NumVirt /\ (num[t] > 0 => base[t] >= 1)
    BY DEF IndInv, TypeOK, RegionOK, FirstOwned
  <1> QED
    BY <1>1, VMemAssumption DEF Owned, UserPages

\* The library implements PageOwnership: for any number of threads and pages,
\* every step is a first-fit acquisition by a thread that owns nothing, the
\* return of that thread's lowest page, a loss of its own pages, or no change.
THEOREM ImplementsOwnership == Spec => RefinesOwnership
  <1> DEFINE O == [t \in Threads |-> Owned(t)]
             A == UserPages \ virt
  <1>1. Init => Ownership!Init
    <2> SUFFICES ASSUME Init PROVE Ownership!Init
      OBVIOUS
    <2>1. \A t \in Threads : Owned(t) = {}
      <3> TAKE t \in Threads
      <3>1. base[t] = 0 /\ num[t] = 0 /\ FirstOwned(t) = 0
        BY DEF Init, FirstOwned
      <3> QED
        BY <3>1 DEF Owned
    <2> QED
      BY <2>1 DEF Ownership!Init
  <1>2. ASSUME IndInv, [Next]_vars
        PROVE  [Ownership!Next]_(<<O, A>>)
    <2>1. ASSUME NEW t \in Threads, Moves(t),
                 \A u \in Threads \ {t} : Owned(u)' = Owned(u)
          PROVE  [Ownership!Next]_(<<O, A>>)
      <3>0. O' = [O EXCEPT ![t] = Owned(t)']
        BY <2>1
      <3>1. CASE Keeps(t)
        BY <2>1, <3>1 DEF Keeps
      <3>2. CASE Loses(t)
        <4>1. Ownership!Abandon(t)
          <5>1. /\ Owned(t)' \in SUBSET O[t] /\ Owned(t)' # O[t]
                /\ A' = A
            BY <3>2 DEF Loses
          <5> QED
            BY <3>0, <5>1 DEF Ownership!Abandon
        <4> QED
          BY <4>1 DEF Ownership!Next
      <3>3. CASE Returns(t)
        <4>1. Cur(t) \in UserPages
          BY <1>2, <3>3, OwnedUser DEF Returns
        <4>2. A' = A \cup {Cur(t)}
          BY <3>3, <4>1 DEF Returns
        <4>3. Ownership!Release(t)
          BY <3>0, <3>3, <4>2 DEF Returns, Ownership!Release
        <4> QED
          BY <4>3 DEF Ownership!Next
      <3>4. CASE Takes(t)
        <4>1. PICK n \in 1 .. MaxPages, v \in Vpns :
                get_next_avail(v, n) /\ Owned(t)' = Block(v, n)
          BY <3>4 DEF Takes
        <4>2. /\ v \in UserPages /\ n \in Nat \ {0} /\ v + n - 1 < NumVirt
              /\ Block(v, n) \subseteq UserPages
          BY <4>1, VMemAssumption DEF get_next_avail, FreeBlock, UserPages, Vpns, Block
        <4>3. Block(v, n) \subseteq A /\ A' = A \ Block(v, n)
          BY <4>1, <4>2 DEF get_next_avail, FreeBlock
        <4>4. ASSUME NEW b \in UserPages, b < v
              PROVE  ~(Block(b, n) \subseteq A)
          <5>1. b \in 1 .. v - 1 /\ b + n - 1 < NumVirt
            BY <4>2, <4>4, VMemAssumption DEF UserPages
          <5>2. ~FreeBlock(b, n)
            BY <4>1, <5>1 DEF get_next_avail
          <5>3. Block(b, n) \cap virt # {}
            BY <5>1, <5>2 DEF FreeBlock
          <5> QED
            BY <5>3
        <4>5. O[t] = {} /\ O' = [O EXCEPT ![t] = Block(v, n)]
          BY <3>0, <3>4, <4>1 DEF Takes
        <4>6. Ownership!Acquire(t, n)
          BY <4>2, <4>3, <4>4, <4>5 DEF Ownership!Acquire, Ownership!Block, Block
        <4> QED
          BY <4>6 DEF Ownership!Next
      <3> QED
        BY <2>1, <3>1, <3>2, <3>3, <3>4 DEF Moves
    <2>2. CASE Advance \/ UNCHANGED vars
      <3>1. \A u : Owned(u)' = Owned(u)
        BY <2>2, OwnedSame DEF Advance, vars, vmvars, regvars
      <3> QED
        BY <2>2, <3>1 DEF Advance, vars, vmvars
    <2> QED
      BY <1>2, <2>1, <2>2, MovesStep DEF Next, Terminated, Crashed
  <1> QED
    BY <1>1, <1>2, IndInit, IndStep, PTL DEF Spec, RefinesOwnership, Ownership!Spec
=============================================================================
