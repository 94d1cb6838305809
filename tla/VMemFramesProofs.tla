-------------------------- MODULE VMemFramesProofs --------------------------
(***************************************************************************)
(* Physical frames, translations and user data of VMem, for any number of  *)
(* threads, frames, pages and TLB slots and both kinds of callers.         *)
(*                                                                         *)
(* Two races break them (the runs vm_bitrace and vm_tlbptr): the clear_bit *)
(* of n_free outside phys_bit_lock and the pointer into a TLB slot used    *)
(* outside tlb_lock.  The theorems say that there is no third one: in      *)
(* every behaviour in which neither race strikes, every frame has one use, *)
(* every valid TLB slot agrees with the page tables, no access is wild and *)
(* every read returns what the owner wrote.                                *)
(***************************************************************************)
EXTENDS VMemProofs

-----------------------------------------------------------------------------
(***************************************************************************)
(* The two races, as conditions on single steps                            *)
(***************************************************************************)
\* Between the load and the store of the clear_bit in n_free nobody sets a
\* bit of the same byte of phys_bitmap.
NoLostUpdate ==
  \A t \in Threads : pc[t] = "fdirw" /\ pc'[t] = "fdirw" =>
    phys' \cap ByteOf(tab[t]) \subseteq phys

\* No TLB slot is given to another page while a put_data or get_data still
\* holds a pointer into it.
NoRedirect ==
  \A t \in Threads : pc[t] = "access" /\ ptr[t].kind = "tlb" =>
    tlb'[ptr[t].at].vpn = tlb[ptr[t].at].vpn

Careful == NoLostUpdate /\ NoRedirect

-----------------------------------------------------------------------------
(***************************************************************************)
(* The inductive invariant                                                 *)
(*                                                                         *)
(* FramesExclusive and TLBCoherent are not inductive: they do not say      *)
(* which thread put a page into the tables or which frame a pointer in     *)
(* flight leads to.  The invariant ties the tables to the program          *)
(* counters: a page is mapped exactly when some thread has placed it       *)
(* (LiveOK), and every frame has one of the uses page directory, page      *)
(* table, live page or held by one thread.                                 *)
(***************************************************************************)
\* Program points by what the call has done to the page it is at: not yet in
\* the tables; in the tables; out of them again; before the loop of n_free.
AllocAt == {"alloc", "allocw", "map", "tab", "tabw", "new"}
EnterAt == {"pbit", "pbitw", "vbit", "tadd"}
ClearedAt == {"fvirt", "ftlb", "fdir", "fdirw"}
FreeAt == {"free", "fpage"}
\* Inside put_data or get_data.
DataAt == {"check", "walk", "refill", "access"}
\* Where page_table_lock is held.
TableAt == {"tab", "tabw", "new", "fpage"} \cup ClearedAt

\* The pages of its region thread t has in the page tables.
PlacedIn(p, b, n, i) ==
  IF p \in AllocAt THEN b .. b + i - 1
  ELSE IF p \in EnterAt THEN b .. b + i
  ELSE IF p \in FreeAt THEN b + i .. b + n - 1
  ELSE IF p \in ClearedAt THEN b + i + 1 .. b + n - 1
  ELSE b .. b + n - 1

Placed(t) == PlacedIn(pc[t], base[t], num[t], idx[t])

\* The page main holds for good.
MainPages == IF Pinned THEN {1} ELSE {}

\* v is the page of somebody.
Live(v) == v \in MainPages \/ \E t \in Threads : v \in Placed(t)

\* Nobody has made a wild access; data is used in no phase but its own.
PhaseOK ==
  \A t \in Threads :
    /\ pc[t] # "fault"
    /\ phase = "use" => pc[t] \in Rest \cup DataAt
    /\ pc[t] \in DataAt => phase \in {"any", "use"}

\* put_data walks the caller's region, get_data a region that stays filled.
CallOK ==
  \A t \in Threads :
    /\ mode[t] = "none" <=> pc[t] \notin DataAt
    /\ pc[t] \in DataAt =>
         \/ tgt[t] = t
         \/ phase = "use" /\ mode[t] = "get" /\ Filled(tgt[t])
    /\ pc[t] = "check" => idx[t] <= num[tgt[t]]
    /\ pc[t] \in {"walk", "refill", "access"} => idx[t] < num[tgt[t]]

\* Who holds the two locks that last longer than one step.
LockOK ==
  \A t \in Threads :
    /\ pc[t] \in TableAt => ptlock = t
    /\ pc[t] \in {"allocw", "tabw", "pbitw"} => physlock = t

\* main's page is nobody else's.
MainOK ==
  /\ MainPages \subseteq virt
  /\ \A t \in Threads : Owned(t) \cap MainPages = {}

\* The byte loaded by a set_bit or clear_bit under way misses no bit that has
\* been set since; the frame being allocated is still free.
ByteOK ==
  \A t \in Threads :
    /\ pc[t] = "allocw" => frame[t] \notin phys
    /\ pc[t] = "tabw" => tab[t] \notin phys
    /\ pc[t] \in {"allocw", "pbitw"} => phys \cap ByteOf(frame[t]) \subseteq byte[t]
    /\ pc[t] = "tabw" => phys \cap ByteOf(tab[t]) \subseteq byte[t]
    /\ pc[t] = "fdirw" => byte[t] = phys \cap ByteOf(tab[t])

\* The directory and its page tables: marked frames, all different, that hold
\* frame numbers and no user data.
TablesOK ==
  /\ 0 \in phys
  /\ \A d \in Entries : mem[0][d] \in Frames
  /\ \A d \in Entries : mem[0][d] # 0 =>
       /\ mem[0][d] \in phys
       /\ \A s \in Entries : mem[mem[0][d]][s] \in Frames
       /\ \A e \in Entries : e # d => mem[0][e] # mem[0][d]

\* The page tables map exactly the live pages.
LiveOK == \A v \in Vpns : Mapped(v) <=> Live(v)

\* Live pages have a marked frame each, and it is no page table.
PagesOK ==
  \A v \in Vpns : Live(v) =>
    /\ Pte(v) \in phys \ {0}
    /\ \A d \in Entries : mem[0][d] # Pte(v)
    /\ \A w \in Vpns : Live(w) /\ w # v => Pte(w) # Pte(v)

\* f is marked and neither the directory, a page table nor a live page.
Unused(f) ==
  /\ f \in phys \ {0}
  /\ \A d \in Entries : mem[0][d] # f
  /\ \A v \in Vpns : Live(v) => Pte(v) # f

\* The frames thread t holds in the middle of map_page or n_free.
HeldBy(t) ==
  /\ HasFrame(t) => Unused(frame[t])
  /\ pc[t] \in {"new", "fdirw"} => Unused(tab[t])
  /\ pc[t] \in {"tab", "tabw", "new"} => Pde(Cur(t)) = 0
  /\ pc[t] \in EnterAt => Pte(Cur(t)) = frame[t]
  /\ pc[t] \in {"fvirt", "ftlb", "fdir"} => tab[t] = Pde(Cur(t)) /\ tab[t] # 0
  /\ pc[t] \in {"fvirt", "ftlb"} => ~Live(Cur(t))
  /\ pc[t] = "fdir" => TableEmpty(tab[t])

\* No frame is held twice.
HeldApart ==
  \A t, u \in Threads : HasFrame(u) =>
    /\ HasFrame(t) /\ u # t => frame[u] # frame[t]
    /\ pc[t] \in {"new", "fdirw"} => frame[u] # tab[t]

HeldOK == HeldApart /\ \A t \in Threads : HeldBy(t)

\* A valid slot translates a live page, or the page an n_free is about to
\* invalidate.
SlotsOK ==
  \A i \in Slots : tlb[i].valid =>
    /\ tlb[i].vpn \in Vpns
    /\ \/ Live(tlb[i].vpn) /\ Pte(tlb[i].vpn) = tlb[i].pte
       \/ \E t \in Threads : pc[t] \in {"fvirt", "ftlb"} /\ Cur(t) = tlb[i].vpn

\* The pointer p leads to the entry of page v: to a TLB slot or to the page
\* table.
Leads(p, v) ==
  \/ /\ p.kind = "tlb" /\ p.at \in Slots
     /\ tlb[p.at].vpn = v /\ tlb[p.at].pte = Pte(v)
  \/ p.kind = "pt" /\ p.at = Pde(v) /\ p.slot = PTX(v)

\* The pointers of the accesses in flight.
AccessOK ==
  \A t \in Threads :
    /\ pc[t] \in {"refill", "access"} => Leads(ptr[t], At(t))
    /\ pc[t] = "refill" => pte[t] = Pte(At(t)) /\ ptr[t].kind = "pt"

\* How many pages of t's region hold t's data.
FilledTo(t) ==
  IF mode[t] = "put" THEN idx[t] ELSE IF Filled(t) THEN num[t] ELSE 0

\* They do.
FilledOK ==
  \A t \in Threads : \A v \in base[t] .. base[t] + FilledTo(t) - 1 :
    \A s \in Entries : mem[Pte(v)][s] = t

\* What a get_data has copied is the data of the region it reads.
ReadOK ==
  ReadsOwnData /\ \A t \in Threads : pc[t] \notin DataAt => seen[t] = {}

\* All of it.
FrameInv ==
  /\ IndInv /\ TLBUnique
  /\ PhaseOK /\ CallOK /\ LockOK /\ MainOK /\ ByteOK
  /\ TablesOK /\ LiveOK /\ PagesOK /\ HeldOK /\ SlotsOK /\ AccessOK /\ FilledOK
  /\ ReadOK

-----------------------------------------------------------------------------
(***************************************************************************)
(* Places and pages                                                        *)
(***************************************************************************)

\* A virtual page has an entry of the directory and an entry of a table.
LEMMA Place == \A v \in Vpns : PDX(v) \in Entries /\ PTX(v) \in Entries
  BY VMemAssumption DEF Vpns, PDX, PTX, Entries

\* Two pages never share an entry of a page table.
LEMMA SamePlace ==
  ASSUME NEW v \in Vpns, NEW w \in Vpns, PDX(v) = PDX(w), PTX(v) = PTX(w)
  PROVE  v = w
  BY VMemAssumption DEF Vpns, PDX, PTX

\* Reading Placed off the program counter.
LEMMA PlacedAt ==
  ASSUME NEW t
  PROVE  /\ pc[t] \in AllocAt => Placed(t) = base[t] .. base[t] + idx[t] - 1
         /\ pc[t] \in EnterAt => Placed(t) = base[t] .. base[t] + idx[t]
         /\ pc[t] \in FreeAt =>
              Placed(t) = base[t] + idx[t] .. base[t] + num[t] - 1
         /\ pc[t] \in ClearedAt =>
              Placed(t) = base[t] + idx[t] + 1 .. base[t] + num[t] - 1
         /\ pc[t] \in Rest \cup DataAt \cup {"fault"} =>
              Placed(t) = base[t] .. base[t] + num[t] - 1
  BY DEF Placed, PlacedIn, AllocAt, EnterAt, FreeAt, ClearedAt, Rest, DataAt

\* The pages of t that are in the page tables are pages t owns.
LEMMA PlacedOwned ==
  ASSUME IndInv, NEW t \in Threads, pc[t] # "fault"
  PROVE  Placed(t) \subseteq Owned(t) /\ Placed(t) \subseteq Vpns
  <1>0. /\ base[t] \in Nat /\ num[t] \in Nat /\ idx[t] \in Nat /\ pc[t] \in PCs
        /\ pc[t] \in {"allocw", "map", "tab", "tabw", "new", "pbit", "pbitw",
                      "vbit", "tadd"} => idx[t] < num[t]
        /\ pc[t] = "alloc" => idx[t] <= num[t]
    BY DEF IndInv, TypeOK, RegionOK
  <1>1. Placed(t) \subseteq Owned(t)
    <2>1. CASE pc[t] \in AllocAt \cup EnterAt
      BY <1>0, <2>1, OwnedAt, SMTT(60)
         DEF Placed, PlacedIn, AllocAt, EnterAt, PCs
    <2>2. CASE pc[t] \in FreeAt \cup ClearedAt
      <3>1. \/ Owned(t) = (base[t] + idx[t]) .. (base[t] + num[t] - 1)
            \/ /\ Owned(t) = (base[t] + (idx[t] + 1)) .. (base[t] + num[t] - 1)
               /\ pc[t] \in ClearedAt
        BY <2>2, OwnedAt DEF FreeAt, ClearedAt
      <3>2. CASE pc[t] \in FreeAt
        BY <1>0, <3>1, <3>2, PlacedAt DEF FreeAt, ClearedAt
      <3>3. CASE pc[t] \in ClearedAt
        BY <1>0, <3>1, <3>3, PlacedAt
      <3> QED
        BY <2>2, <3>2, <3>3
    <2>3. CASE pc[t] \in Rest \cup DataAt
      <3>1. Owned(t) = (base[t] + 0) .. (base[t] + num[t] - 1)
        BY <1>0, <2>3, OwnedAt DEF Rest, DataAt, PCs
      <3>2. Placed(t) = base[t] .. base[t] + num[t] - 1
        BY <2>3, PlacedAt
      <3> QED
        BY <1>0, <3>1, <3>2
    <2> QED
      BY <1>0, <2>1, <2>2, <2>3
         DEF PCs, Rest, AllocAt, EnterAt, FreeAt, ClearedAt, DataAt
  <1>2. UserPages \subseteq Vpns
    BY VMemAssumption DEF UserPages, Vpns
  <1> QED
    BY <1>1, <1>2, OwnedUser

\* The page a call works on: its own, until n_free has given it back, and in
\* the page tables from the moment map_page has entered it until n_free
\* clears its entry.
LEMMA CurOwned ==
  ASSUME IndInv, NEW t \in Threads
  PROVE  /\ pc[t] \in (AllocAt \ {"alloc"}) \cup EnterAt \cup {"fvirt"} => Cur(t) \in Owned(t)
         /\ pc[t] = "fpage" /\ idx[t] < num[t] => Cur(t) \in Owned(t) /\ Cur(t) \in Placed(t)
         /\ pc[t] \in (AllocAt \ {"alloc"}) \cup EnterAt \cup ClearedAt => Cur(t) \in Vpns
         /\ pc[t] \in AllocAt \cup ClearedAt => Cur(t) \notin Placed(t)
         /\ pc[t] \in EnterAt => Cur(t) \in Placed(t)
  <1>0. /\ base[t] \in Nat /\ num[t] \in Nat /\ idx[t] \in Nat /\ pc[t] \in PCs
        /\ base[t] + num[t] <= NumVirt
        /\ pc[t] \in {"allocw", "map", "tab", "tabw", "new", "pbit", "pbitw",
                      "vbit", "tadd", "fvirt", "ftlb", "fdir", "fdirw"} => idx[t] < num[t]
    BY DEF IndInv, TypeOK, RegionOK
  <1>1. pc[t] \in (AllocAt \ {"alloc"}) \cup EnterAt \cup {"fvirt"} => Cur(t) \in Owned(t)
    BY <1>0, OwnedAt, SMTT(60) DEF AllocAt, EnterAt, PCs, Cur
  <1>2. pc[t] = "fpage" /\ idx[t] < num[t] => Cur(t) \in Owned(t) /\ Cur(t) \in Placed(t)
    BY <1>0, OwnedAt
       DEF Placed, PlacedIn, AllocAt, EnterAt, FreeAt, Cur
  <1>3. pc[t] \in (AllocAt \ {"alloc"}) \cup EnterAt \cup ClearedAt => Cur(t) \in Vpns
    BY <1>0, VMemAssumption DEF AllocAt, EnterAt, ClearedAt, Cur, Vpns
  <1>4. pc[t] \in AllocAt \cup ClearedAt => Cur(t) \notin Placed(t)
    BY <1>0, SMTT(60) DEF AllocAt, EnterAt, FreeAt, ClearedAt, Cur, Placed, PlacedIn
  <1>5. pc[t] \in EnterAt => Cur(t) \in Placed(t)
    BY <1>0 DEF AllocAt, EnterAt, Cur, Placed, PlacedIn
  <1> QED
    BY <1>1, <1>2, <1>3, <1>4, <1>5

\* Two threads have no page in common, and none with main.
LEMMA PlacedApart ==
  ASSUME IndInv, PhaseOK, MainOK, NEW t \in Threads, NEW v \in Owned(t)
  PROVE  /\ v \notin MainPages
         /\ \A u \in Threads : u # t => v \notin Placed(u)
  BY PlacedOwned DEF IndInv, VirtExclusive, MainOK, PhaseOK

\* An action of t changes no other thread's locals.
LEMMA OthersKeep ==
  ASSUME TypeOK, NEW t \in Threads, Work(t) \/ Call(t)
  PROVE  \A u \in Threads \ {t} :
           /\ frame'[u] = frame[u] /\ tab'[u] = tab[u] /\ byte'[u] = byte[u]
           /\ pte'[u] = pte[u] /\ ptr'[u] = ptr[u] /\ mode'[u] = mode[u]
           /\ seen'[u] = seen[u]
  <1> USE DEF TypeOK, alcvars, accvars
  <1>1. CASE \/ AllocPage(t) \/ AllocPageStore(t) \/ MapPage(t) \/ AllocTable(t)
             \/ AllocTableStore(t) \/ MapNew(t)
    BY <1>1 DEF AllocPage, AllocPageStore, MapPage, AllocTable, AllocTableStore,
                MapNew, GiveUp, AllocLoad, AllocStore, LoadByte, ForgetByte
  <1>2. CASE MarkPhys(t) \/ MarkPhysStore(t) \/ MarkVirt(t) \/ MapTLB(t)
    BY <1>2 DEF MarkPhys, MarkPhysStore, MarkVirt, MapTLB, AllocStore, LoadByte,
                ForgetByte
  <1>3. CASE \/ n_free(t) \/ FreeLock(t) \/ FreePage(t) \/ FreeVirt(t)
             \/ FreeTLB(t) \/ FreeTable(t) \/ FreeTableStore(t)
    BY <1>3 DEF n_free, FreeLock, FreePage, FreeVirt, FreeTLB, FreeTable,
                FreeTableStore, LoadByte, ForgetByte
  <1>4. CASE TLB_check(t) \/ Walk(t) \/ Refill(t) \/ Access(t)
    BY <1>4 DEF TLB_check, Walk, Refill, Access, Return
  <1>5. CASE put_data(t) \/ \E u \in Threads : get_data(t, u)
    BY <1>5 DEF put_data, get_data
  <1>6. CASE \E n \in 1 .. MaxPages : n_malloc(t, n)
    BY <1>6 DEF n_malloc
  <1> QED
    BY <1>1, <1>2, <1>3, <1>4, <1>5, <1>6 DEF Work, Call

\* ... nor another thread's pages.
LEMMA PlacedOthers ==
  ASSUME TypeOK, NEW t \in Threads, Work(t) \/ Call(t)
  PROVE  \A u \in Threads \ {t} : Placed(u)' = Placed(u) /\ Cur(u)' = Cur(u)
  BY OthersStay DEF Placed, Cur

\* A live page has an entry in a page table that is a frame.
LEMMA LivePage ==
  ASSUME TypeOK, TablesOK, LiveOK, PagesOK, NEW v \in Vpns, Live(v)
  PROVE  /\ Mapped(v) /\ Pde(v) \in Frames \ {0} /\ Pte(v) \in Frames \ {0}
         /\ Pte(v) \in phys /\ PDX(v) \in Entries /\ PTX(v) \in Entries
         /\ Pde(v) = mem[0][PDX(v)]
  <1>1. Pte(v) \in phys \ {0} /\ Mapped(v)
    BY DEF LiveOK, PagesOK
  <1> QED
    BY <1>1, Place DEF Mapped, TypeOK, Pde

\* The page a put_data or get_data is about to access is live, and belongs
\* to the thread whose region it walks.
LEMMA TargetPage ==
  ASSUME IndInv, PhaseOK, CallOK, NEW t \in Threads,
         \/ pc[t] \in {"walk", "refill", "access"}
         \/ pc[t] = "check" /\ idx[t] < num[tgt[t]]
  PROVE  /\ tgt[t] \in Threads /\ At(t) \in Placed(tgt[t])
         /\ At(t) \in Vpns /\ Live(At(t))
         /\ At(t) \in base[tgt[t]] .. base[tgt[t]] + num[tgt[t]] - 1
         /\ mode[t] = "get" => FilledTo(tgt[t]) = num[tgt[t]]
  <1> DEFINE g == tgt[t]
  <1>1. g \in Threads /\ idx[t] < num[g]
    BY DEF IndInv, TargetOK, CallOK
  <1>2. pc[g] \in Rest \cup DataAt
    BY <1>1 DEF CallOK, PhaseOK, DataAt
  <1>3. Placed(g) = base[g] .. base[g] + num[g] - 1
    BY <1>2, PlacedAt
  <1>4. base[g] \in Nat /\ num[g] \in Nat /\ idx[t] \in Nat
    BY <1>1 DEF IndInv, TypeOK
  <1>5. At(t) \in base[g] .. base[g] + num[g] - 1
    BY <1>1, <1>4 DEF At
  <1>6. Placed(g) \subseteq Vpns
    BY <1>1, PlacedOwned DEF PhaseOK
  <1>7. mode[t] = "get" => FilledTo(g) = num[g]
    <2> SUFFICES ASSUME mode[t] = "get" PROVE FilledTo(g) = num[g]
      OBVIOUS
    <2>1. Filled(g) /\ mode[g] # "put"
      BY <1>1 DEF CallOK, Filled, DataAt
    <2> QED
      BY <2>1 DEF FilledTo
  <1> QED
    BY <1>1, <1>3, <1>5, <1>6, <1>7 DEF Live

\* What the pointer of an access in flight leads to.
LEMMA DerefIs ==
  ASSUME AccessOK, NEW t \in Threads, pc[t] = "access"
  PROVE  Deref(ptr[t]) = Pte(At(t))
  BY DEF AccessOK, Leads, Deref, Pte

\* n_free finds every page of the region mapped.
LEMMA FreesMapped ==
  ASSUME IndInv, TablesOK, LiveOK, PagesOK, NEW t \in Threads, pc[t] = "fpage",
         idx[t] < num[t]
  PROVE  /\ Cur(t) \in Placed(t) /\ Cur(t) \in Owned(t) /\ Cur(t) \in Vpns
         /\ Live(Cur(t)) /\ Mapped(Cur(t)) /\ Pte(Cur(t)) \in Frames
         /\ Pde(Cur(t)) \in Frames \ {0}
  <1>1. Cur(t) \in Placed(t) /\ Cur(t) \in Owned(t)
    BY CurOwned
  <1>2. Cur(t) \in Vpns
    BY <1>1, PlacedOwned
  <1>3. Live(Cur(t))
    BY <1>1 DEF Live
  <1> QED
    BY <1>1, <1>2, <1>3, LivePage DEF IndInv

\* How an action changes which pages of its thread are in the page tables.
LEMMA PlacedSame ==
  ASSUME IndInv, NEW t \in Threads,
         \/ AllocPage(t) \/ AllocPageStore(t) \/ AllocTable(t) \/ AllocTableStore(t)
         \/ MarkPhys(t) \/ MarkPhysStore(t) \/ MarkVirt(t) \/ MapTLB(t)
         \/ FreeLock(t) \/ FreeVirt(t) \/ FreeTLB(t) \/ FreeTable(t)
         \/ FreeTableStore(t) \/ TLB_check(t) \/ Walk(t) \/ Refill(t)
         \/ (Access(t) /\ pc'[t] # "fault") \/ Call(t)
  PROVE  Placed(t)' = Placed(t)
  <1> USE DEF Goto, regvars
  <1>0. /\ base[t] \in Nat /\ num[t] \in Nat /\ idx[t] \in Nat
        /\ pc \in [Threads -> PCs] /\ idx \in [Threads -> Nat]
        /\ num \in [Threads -> Nat] /\ base \in [Threads -> Nat]
        /\ pc[t] \in Rest => idx[t] = 0
        /\ pc[t] = "idle" => num[t] = 0
    BY DEF IndInv, TypeOK, RegionOK
  <1>1. ASSUME pc'[t] = pc[t] \/ (\E A \in {AllocAt, EnterAt, FreeAt, ClearedAt} : {pc[t], pc'[t]} \subseteq A)
                 \/ {pc[t], pc'[t]} \subseteq Rest \cup DataAt,
               base'[t] = base[t], num'[t] = num[t],
               idx'[t] = idx[t] \/ pc[t] \in Rest \cup DataAt
        PROVE  Placed(t)' = Placed(t)
    BY <1>1 DEF Placed, PlacedIn, AllocAt, EnterAt, FreeAt, ClearedAt, Rest, DataAt
  <1>2. CASE \/ AllocPageStore(t) \/ AllocTableStore(t) \/ MarkPhys(t)
             \/ MarkPhysStore(t) \/ MarkVirt(t) \/ FreeLock(t) \/ FreeVirt(t) \/ FreeTable(t)
    BY <1>0, <1>1, <1>2 DEF AllocPageStore, AllocTableStore, MarkPhys, MarkPhysStore,
       MarkVirt, FreeLock, FreeVirt, FreeTable, AllocAt, EnterAt, FreeAt, ClearedAt
  <1>3. CASE TLB_check(t) \/ Walk(t) \/ Refill(t) \/ (Access(t) /\ pc'[t] # "fault")
    BY <1>0, <1>1, <1>3 DEF TLB_check, Walk, Refill, Access, Return, Rest, DataAt
  <1>4. CASE put_data(t) \/ \E u \in Threads : get_data(t, u)
    BY <1>0, <1>1, <1>4 DEF put_data, get_data, Rest, DataAt
  <1>5. CASE n_free(t)
    <2>1. pc[t] \in Rest /\ pc'[t] \in FreeAt /\ idx[t] = 0
          /\ base'[t] = base[t] /\ num'[t] = num[t] /\ idx'[t] = idx[t]
      BY <1>0, <1>5 DEF n_free, Rest, FreeAt
    <2>2. Placed(t) = base[t] .. base[t] + num[t] - 1
      BY <2>1, PlacedAt
    <2>3. Placed(t)' = base[t] + 0 .. base[t] + num[t] - 1
      BY <2>1 DEF Placed, PlacedIn, FreeAt, AllocAt, EnterAt
    <2> QED
      BY <1>0, <2>2, <2>3
  <1>6. CASE \E n \in 1 .. MaxPages : n_malloc(t, n)
    <2>1. pc[t] = "idle" /\ num[t] = 0 /\ idx[t] = 0 /\ idx'[t] = 0
      BY <1>0, <1>6 DEF n_malloc, Rest
    <2>2. Placed(t) = {}
      BY <1>0, <2>1, PlacedAt DEF Rest
    <2>3. CASE pc'[t] = "alloc"
      <3>1. Placed(t)' = base'[t] .. base'[t] + 0 - 1
        BY <2>1, <2>3 DEF Placed, PlacedIn, AllocAt
      <3>2. base'[t] \in Nat
        BY <1>0, <1>6 DEF n_malloc, Vpns
      <3> QED
        BY <2>2, <3>1, <3>2
    <2>4. CASE pc'[t] # "alloc"
      BY <1>0, <1>1, <1>6, <2>4 DEF n_malloc
    <2> QED
      BY <2>3, <2>4
  <1>7. CASE AllocPage(t) \/ AllocTable(t)
    <2>0. pc[t] \in AllocAt /\ base'[t] = base[t]
      BY <1>7 DEF AllocPage, AllocTable, AllocAt
    <2>1. Placed(t) = base[t] .. base[t] + idx[t] - 1
      BY <2>0, PlacedAt
    <2>2. CASE pc'[t] \in AllocAt
      BY <1>0, <1>1, <1>7, <2>0, <2>2 DEF AllocPage, AllocTable, GiveUp, AllocAt
    <2>3. CASE GiveUp(t)
      <3>1. pc'[t] \in FreeAt /\ num'[t] = idx[t] /\ idx'[t] = 0
        BY <1>0, <2>3 DEF GiveUp, FreeAt
      <3>2. Placed(t)' = base[t] + 0 .. base[t] + idx[t] - 1
        BY <2>0, <3>1 DEF Placed, PlacedIn, FreeAt, AllocAt, EnterAt
      <3> QED
        BY <1>0, <2>1, <3>2
    <2>4. CASE idx[t] = num[t] /\ pc'[t] = "held" /\ num'[t] = num[t]
      BY <2>0, <2>1, <2>4 DEF Placed, PlacedIn, FreeAt, AllocAt, EnterAt, ClearedAt
    <2> QED
      BY <1>0, <1>7, <2>2, <2>3, <2>4 DEF AllocPage, AllocTable, AllocAt
  <1>8. CASE MapTLB(t)
    <2>1. /\ pc[t] \in EnterAt /\ pc'[t] \in AllocAt /\ idx'[t] = idx[t] + 1
          /\ base'[t] = base[t]
      BY <1>0, <1>8 DEF MapTLB, EnterAt, AllocAt
    <2>2. Placed(t) = base[t] .. base[t] + idx[t]
      BY <2>1, PlacedAt
    <2>3. Placed(t)' = base[t] .. base[t] + (idx[t] + 1) - 1
      BY <2>1 DEF Placed, PlacedIn
    <2> QED
      BY <1>0, <2>2, <2>3
  <1>9. CASE FreeTLB(t) \/ FreeTableStore(t)
    <2>1. /\ pc[t] \in ClearedAt /\ base'[t] = base[t] /\ num'[t] = num[t]
          /\ \/ pc'[t] \in ClearedAt /\ idx'[t] = idx[t]
             \/ pc'[t] \in FreeAt /\ idx'[t] = idx[t] + 1
      BY <1>0, <1>9 DEF FreeTLB, FreeTableStore, ClearedAt, FreeAt
    <2>2. Placed(t) = base[t] + idx[t] + 1 .. base[t] + num[t] - 1
      BY <2>1, PlacedAt
    <2>3. \/ Placed(t)' = base[t] + idx[t] + 1 .. base[t] + num[t] - 1
          \/ Placed(t)' = base[t] + (idx[t] + 1) .. base[t] + num[t] - 1
      BY <2>1 DEF Placed, PlacedIn, FreeAt, ClearedAt, AllocAt, EnterAt
    <2> QED
      BY <1>0, <2>2, <2>3
  <1> QED
    BY <1>2, <1>3, <1>4, <1>5, <1>6, <1>7, <1>8, <1>9 DEF Call

\* map_page enters the current page.
LEMMA PlacedMap ==
  ASSUME IndInv, NEW t \in Threads, MapPage(t) \/ MapNew(t)
  PROVE  /\ pc'[t] = "pbit" => Placed(t)' = Placed(t) \cup {Cur(t)}
         /\ pc'[t] # "pbit" => Placed(t)' = Placed(t)
         /\ Cur(t)' = Cur(t)
  <1>0. /\ base[t] \in Nat /\ idx[t] \in Nat /\ pc \in [Threads -> PCs]
    BY DEF IndInv, TypeOK
  <1>1. /\ pc[t] \in AllocAt /\ pc'[t] \in {"pbit", "tab"}
        /\ base' = base /\ num' = num /\ idx' = idx
    BY <1>0 DEF MapPage, MapNew, Goto, regvars, AllocAt
  <1>2. Placed(t) = base[t] .. base[t] + idx[t] - 1
    BY <1>1, PlacedAt
  <1>3. pc'[t] = "pbit" => Placed(t)' = base[t] .. base[t] + idx[t]
    BY <1>1 DEF Placed, PlacedIn, EnterAt, AllocAt
  <1>4. pc'[t] # "pbit" => Placed(t)' = Placed(t)
    BY <1>1 DEF Placed, PlacedIn, AllocAt
  <1>5. base[t] .. base[t] + idx[t] = (base[t] .. base[t] + idx[t] - 1) \cup {base[t] + idx[t]}
    BY <1>0
  <1> QED
    BY <1>1, <1>2, <1>3, <1>4, <1>5 DEF Cur

\* n_free takes the current page out.
LEMMA PlacedFree ==
  ASSUME IndInv, NEW t \in Threads, FreePage(t),
         idx[t] < num[t] => Mapped(Cur(t)) /\ Pte(Cur(t)) \in Frames
  PROVE  /\ idx[t] < num[t] => /\ Placed(t)' = Placed(t) \ {Cur(t)}
                               /\ pc'[t] = "fvirt" /\ Cur(t)' = Cur(t)
         /\ idx[t] = num[t] => Placed(t)' = Placed(t) /\ pc'[t] = "idle"
         /\ idx[t] <= num[t]
  <1>0. /\ base[t] \in Nat /\ idx[t] \in Nat /\ num[t] \in Nat
        /\ pc \in [Threads -> PCs] /\ base \in [Threads -> Nat]
        /\ num \in [Threads -> Nat] /\ idx \in [Threads -> Nat]
        /\ pc[t] = "fpage" /\ idx[t] <= num[t]
    BY DEF IndInv, TypeOK, RegionOK, FreePage
  <1>1. Placed(t) = base[t] + idx[t] .. base[t] + num[t] - 1
    BY <1>0, PlacedAt DEF FreeAt
  <1>2. CASE idx[t] < num[t]
    <2>1. pc'[t] = "fvirt" /\ base' = base /\ num' = num /\ idx' = idx
      BY <1>0, <1>2 DEF FreePage, Goto, regvars
    <2>2. Placed(t)' = base[t] + idx[t] + 1 .. base[t] + num[t] - 1
      BY <2>1 DEF Placed, PlacedIn, ClearedAt, AllocAt, EnterAt, FreeAt
    <2>3. base[t] + idx[t] + 1 .. base[t] + num[t] - 1
            = (base[t] + idx[t] .. base[t] + num[t] - 1) \ {base[t] + idx[t]}
      BY <1>0, <1>2
    <2> QED
      BY <1>0, <1>1, <1>2, <2>1, <2>2, <2>3 DEF Cur
  <1>3. CASE idx[t] = num[t]
    <2>1. pc'[t] = "idle" /\ base'[t] = 0 /\ num'[t] = 0
      BY <1>0, <1>3 DEF FreePage, Goto, Forget
    <2>2. Placed(t)' = 0 .. 0 + 0 - 1
      BY <2>1 DEF Placed, PlacedIn, ClearedAt, AllocAt, EnterAt, FreeAt
    <2>3. Placed(t) = {} /\ Placed(t)' = {}
      BY <1>0, <1>1, <1>3, <2>2
    <2> QED
      BY <1>0, <1>3, <2>1, <2>3
  <1> QED
    BY <1>0, <1>2, <1>3

-----------------------------------------------------------------------------
(***************************************************************************)
(* Control: phases, calls, locks                                           *)
(***************************************************************************)
\* No access and no n_free follows a wild frame number.
LEMMA NoFault ==
  ASSUME FrameInv, NEW t \in Threads, Work(t) \/ Call(t)
  PROVE  pc'[t] # "fault"
  <1>0. pc \in [Threads -> PCs] /\ pc[t] # "fault"
    BY DEF FrameInv, IndInv, TypeOK, PhaseOK
  <1>1. CASE FreePage(t)
    <2>1. idx[t] < num[t] => Mapped(Cur(t)) /\ Pte(Cur(t)) \in Frames
      BY <1>1, FreesMapped DEF FrameInv, FreePage
    <2>2. idx[t] \in Nat /\ num[t] \in Nat
      BY DEF FrameInv, IndInv, TypeOK
    <2>3. /\ idx[t] < num[t] => pc'[t] = "fvirt"
          /\ idx[t] = num[t] => pc'[t] = "idle"
          /\ idx[t] <= num[t]
      BY <1>1, <2>1, PlacedFree DEF FrameInv
    <2> QED
      BY <2>2, <2>3
  <1>2. CASE Access(t)
    <2>1. pc[t] = "access"
      BY <1>2 DEF Access
    <2>2. Deref(ptr[t]) = Pte(At(t))
      BY <2>1, DerefIs DEF FrameInv
    <2>3. At(t) \in Vpns /\ Live(At(t))
      BY <2>1, TargetPage DEF FrameInv
    <2>4. Deref(ptr[t]) \in Frames
      BY <2>2, <2>3, LivePage DEF FrameInv, IndInv
    <2> QED
      BY <1>0, <1>2, <2>4 DEF Access, Goto
  <1>3. CASE ~FreePage(t) /\ ~Access(t)
    <2>1. CASE \/ AllocPage(t) \/ AllocPageStore(t) \/ MapPage(t) \/ AllocTable(t)
               \/ AllocTableStore(t) \/ MapNew(t) \/ MarkPhys(t) \/ MarkPhysStore(t)
               \/ MarkVirt(t) \/ MapTLB(t)
      BY <1>0, <2>1 DEF AllocPage, AllocPageStore, MapPage, AllocTable,
         AllocTableStore, MapNew, MarkPhys, MarkPhysStore, MarkVirt, MapTLB, GiveUp, Goto
    <2>2. CASE FreeLock(t) \/ FreeVirt(t) \/ FreeTLB(t) \/ FreeTable(t) \/ FreeTableStore(t)
      BY <1>0, <2>2 DEF FreeLock, FreeVirt, FreeTLB, FreeTable, FreeTableStore, Goto
    <2>3. CASE TLB_check(t) \/ Walk(t) \/ Refill(t) \/ Call(t)
      BY <1>0, <2>3 DEF TLB_check, Walk, Refill, Call, n_malloc, n_free, put_data,
                        get_data, Return, Goto
    <2> QED
      BY <1>3, <2>1, <2>2, <2>3 DEF Work
  <1> QED
    BY <1>1, <1>2, <1>3

\* The phase changes only in Advance.
LEMMA PhaseStays ==
  ASSUME NEW t \in Threads, Work(t) \/ Call(t)
  PROVE  phase' = phase
  BY DEF Work, Call, AllocPage, AllocPageStore, MapPage, AllocTable,
     AllocTableStore, MapNew, MarkPhys, MarkPhysStore, MarkVirt, MapTLB, FreeLock,
     FreePage, FreeVirt, FreeTLB, FreeTable, FreeTableStore, TLB_check, Walk, Refill,
     Access, n_malloc, n_free, put_data, get_data

\* In the phase in which everybody may read everybody's region, no region
\* changes and what is filled stays filled.
LEMMA UsePhase ==
  ASSUME IndInv, PhaseOK, CallOK, NEW t \in Threads, Work(t) \/ Call(t), phase = "use"
  PROVE  /\ base'[t] = base[t] /\ num'[t] = num[t]
         /\ Filled(t) => Filled(t)'
  <1>0. /\ pc \in [Threads -> PCs] /\ mode \in [Threads -> {"none", "put", "get"}]
        /\ pc[t] \in Rest \cup DataAt
        /\ mode[t] = "none" <=> pc[t] \notin DataAt
    BY DEF IndInv, TypeOK, PhaseOK, CallOK
  <1>1. ~(\/ AllocPage(t) \/ AllocPageStore(t) \/ MapPage(t) \/ AllocTable(t)
          \/ AllocTableStore(t) \/ MapNew(t) \/ MarkPhys(t) \/ MarkPhysStore(t)
          \/ MarkVirt(t) \/ MapTLB(t))
    BY <1>0 DEF AllocPage, AllocPageStore, MapPage, AllocTable, AllocTableStore,
       MapNew, MarkPhys, MarkPhysStore, MarkVirt, MapTLB, Rest, DataAt
  <1>2. ~(\/ FreeLock(t) \/ FreePage(t) \/ FreeVirt(t) \/ FreeTLB(t)
          \/ FreeTable(t) \/ FreeTableStore(t) \/ n_free(t)
          \/ \E n \in 1 .. MaxPages : n_malloc(t, n))
    BY <1>0 DEF FreeLock, FreePage, FreeVirt, FreeTLB, FreeTable, FreeTableStore,
       n_free, n_malloc, Rest, DataAt
  <1>3. CASE TLB_check(t) \/ Walk(t)
    BY <1>0, <1>3 DEF TLB_check, Walk, Return, Goto, Filled, Rest, DataAt, regvars
  <1>4. CASE Refill(t) \/ Access(t)
    BY <1>0, <1>4 DEF Refill, Access, Goto, Filled, Rest, DataAt, regvars
  <1>5. CASE put_data(t) \/ \E u \in Threads : get_data(t, u)
    BY <1>0, <1>5 DEF put_data, get_data, Goto, Filled, Rest, DataAt, regvars
  <1> QED
    BY <1>1, <1>2, <1>3, <1>4, <1>5 DEF Work, Call

\* The region another thread's data call walks does not change under it.
LEMMA TargetStays ==
  ASSUME IndInv, PhaseOK, CallOK, NEW t \in Threads, Work(t) \/ Call(t),
         NEW u \in Threads \ {t}, pc[u] \in DataAt
  PROVE  /\ tgt[u] \in Threads /\ tgt'[u] = tgt[u]
         /\ base'[tgt[u]] = base[tgt[u]] /\ num'[tgt[u]] = num[tgt[u]]
         /\ At(u)' = At(u)
         /\ tgt[u] # u => phase = "use" /\ Filled(tgt[u])'
  <1>1. tgt[u] \in Threads /\ (tgt[u] = u \/ (phase = "use" /\ Filled(tgt[u])))
    BY DEF IndInv, TargetOK, CallOK, DataAt
  <1>2. tgt'[u] = tgt[u] /\ idx'[u] = idx[u]
    BY OthersStay DEF IndInv
  <1>3. base'[tgt[u]] = base[tgt[u]] /\ num'[tgt[u]] = num[tgt[u]]
    <2>1. CASE tgt[u] = t
      BY <1>1, <2>1, UsePhase
    <2>2. CASE tgt[u] # t
      BY <1>1, <2>2, OthersStay DEF IndInv
    <2> QED
      BY <2>1, <2>2
  <1>4. ASSUME tgt[u] # u PROVE Filled(tgt[u])'
    <2>1. CASE tgt[u] = t
      BY <1>1, <1>2, <1>4, <2>1, UsePhase DEF Filled
    <2>2. CASE tgt[u] # t
      BY <1>1, <1>4, <2>2, OthersStay, OthersKeep DEF IndInv, Filled
    <2> QED
      BY <2>1, <2>2
  <1> QED
    BY <1>1, <1>2, <1>3, <1>4 DEF At

\* A data call walks within the region; nobody walks a region being freed.
LEMMA CallStep ==
  ASSUME FrameInv, NEW t \in Threads, Work(t) \/ Call(t)
  PROVE  PhaseOK' /\ CallOK'
  <1> USE DEF Rest, DataAt
  <1>0. /\ pc \in [Threads -> PCs] /\ mode \in [Threads -> {"none", "put", "get"}]
        /\ idx \in [Threads -> Nat] /\ num \in [Threads -> Nat]
        /\ tgt \in [Threads -> Threads \cup {NULL}] /\ NULL \notin Threads
        /\ phase' = phase /\ pc'[t] # "fault"
    BY PhaseStays, NoFault, VMemAssumption DEF FrameInv, IndInv, TypeOK
  <1>1. /\ pc[t] # "fault" /\ (phase = "use" => pc[t] \in Rest \cup DataAt)
        /\ pc[t] \in DataAt => phase \in {"any", "use"}
        /\ mode[t] = "none" <=> pc[t] \notin DataAt
        /\ pc[t] \in DataAt => tgt[t] \in Threads
        /\ pc[t] \in DataAt =>
             tgt[t] = t \/ (phase = "use" /\ mode[t] = "get" /\ Filled(tgt[t]))
        /\ pc[t] = "check" => idx[t] <= num[tgt[t]]
        /\ pc[t] \in {"walk", "refill", "access"} => idx[t] < num[tgt[t]]
        /\ pc[t] \in Rest => idx[t] = 0
    BY DEF FrameInv, PhaseOK, CallOK, IndInv, TargetOK, RegionOK
  <1>2. PhaseOK'
    <2>1. /\ phase = "use" => pc'[t] \in Rest \cup DataAt
          /\ pc'[t] \in DataAt => phase \in {"any", "use"}
      <3>1. CASE \/ AllocPage(t) \/ AllocPageStore(t) \/ MapPage(t) \/ AllocTable(t)
                 \/ AllocTableStore(t) \/ MapNew(t) \/ MarkPhys(t) \/ MarkPhysStore(t)
                 \/ MarkVirt(t) \/ MapTLB(t)
        BY <1>0, <1>1, <3>1 DEF AllocPage, AllocPageStore, MapPage, AllocTable,
           AllocTableStore, MapNew, MarkPhys, MarkPhysStore, MarkVirt, MapTLB, GiveUp, Goto
      <3>2. CASE \/ FreeLock(t) \/ FreePage(t) \/ FreeVirt(t) \/ FreeTLB(t)
                 \/ FreeTable(t) \/ FreeTableStore(t)
        BY <1>0, <1>1, <3>2 DEF FreeLock, FreePage, FreeVirt, FreeTLB, FreeTable,
                                FreeTableStore, Goto
      <3>3. CASE TLB_check(t) \/ Walk(t) \/ Refill(t) \/ Access(t) \/ Call(t)
        BY <1>0, <1>1, <3>3 DEF TLB_check, Walk, Refill, Access, Call, n_malloc,
                                n_free, put_data, get_data, Return, Goto
      <3> QED
        BY <3>1, <3>2, <3>3 DEF Work
    <2>2. \A u \in Threads \ {t} : pc'[u] = pc[u]
      BY OthersStay DEF FrameInv, IndInv
    <2> QED
      BY <1>0, <2>1, <2>2 DEF FrameInv, PhaseOK
  <1>3. ASSUME NEW u \in Threads \ {t}
        PROVE  /\ mode'[u] = "none" <=> pc'[u] \notin DataAt
               /\ pc'[u] \in DataAt =>
                    \/ tgt'[u] = u
                    \/ phase' = "use" /\ mode'[u] = "get" /\ Filled(tgt[u])' /\ tgt'[u] = tgt[u]
               /\ pc'[u] = "check" => idx'[u] <= num'[tgt'[u]]
               /\ pc'[u] \in {"walk", "refill", "access"} => idx'[u] < num'[tgt'[u]]
    <2>1. /\ pc'[u] = pc[u] /\ mode'[u] = mode[u] /\ idx'[u] = idx[u]
      BY OthersStay, OthersKeep DEF FrameInv, IndInv
    <2>2. /\ mode[u] = "none" <=> pc[u] \notin DataAt
          /\ pc[u] \in DataAt => tgt[u] = u \/ (phase = "use" /\ mode[u] = "get")
          /\ pc[u] = "check" => idx[u] <= num[tgt[u]]
          /\ pc[u] \in {"walk", "refill", "access"} => idx[u] < num[tgt[u]]
      BY DEF FrameInv, CallOK
    <2>3. pc[u] \in DataAt => /\ tgt'[u] = tgt[u] /\ num'[tgt[u]] = num[tgt[u]]
                              /\ tgt[u] # u => Filled(tgt[u])'
      BY TargetStays DEF FrameInv
    <2> QED
      BY <1>0, <2>1, <2>2, <2>3
  <1>4. /\ mode'[t] = "none" <=> pc'[t] \notin DataAt
        /\ pc'[t] \in DataAt =>
             \/ tgt'[t] = t
             \/ phase' = "use" /\ mode'[t] = "get" /\ Filled(tgt[t])'
        /\ pc'[t] = "check" => idx'[t] <= num'[tgt'[t]]
        /\ pc'[t] \in {"walk", "refill", "access"} => idx'[t] < num'[tgt'[t]]
    <2>1. CASE \/ AllocPage(t) \/ AllocPageStore(t) \/ MapPage(t) \/ AllocTable(t)
               \/ AllocTableStore(t) \/ MapNew(t) \/ MarkPhys(t) \/ MarkPhysStore(t)
               \/ MarkVirt(t) \/ MapTLB(t)
      BY <1>0, <1>1, <2>1 DEF AllocPage, AllocPageStore, MapPage, AllocTable,
         AllocTableStore, MapNew, MarkPhys, MarkPhysStore, MarkVirt, MapTLB, GiveUp,
         Goto, accvars
    <2>2. CASE \/ FreeLock(t) \/ FreePage(t) \/ FreeVirt(t) \/ FreeTLB(t)
               \/ FreeTable(t) \/ FreeTableStore(t)
      BY <1>0, <1>1, <2>2 DEF FreeLock, FreePage, FreeVirt, FreeTLB, FreeTable,
                              FreeTableStore, Goto, accvars
    <2>3. CASE n_free(t) \/ \E n \in 1 .. MaxPages : n_malloc(t, n)
      BY <1>0, <1>1, <2>3 DEF n_malloc, n_free, Goto, accvars
    <2>4. CASE put_data(t)
      BY <1>0, <1>1, <2>4 DEF put_data, Goto, regvars
    <2>5. ASSUME NEW u \in Threads, get_data(t, u)
          PROVE  /\ mode'[t] = "get" /\ pc'[t] = "check" /\ idx'[t] <= num'[tgt'[t]]
                 /\ tgt'[t] = t \/ (phase' = "use" /\ Filled(tgt[t])')
      <3>1. /\ pc' = [pc EXCEPT ![t] = "check"] /\ mode' = [mode EXCEPT ![t] = "get"]
            /\ tgt' = [tgt EXCEPT ![t] = u] /\ idx' = idx /\ num' = num /\ pc[t] = "written"
            /\ t = u \/ (phase = "use" /\ Filled(u))
        BY <2>5 DEF get_data, Goto, regvars
      <3>2. Filled(u) => Filled(u)'
        BY <1>0, <3>1 DEF Filled
      <3>3. tgt[t]' = u /\ (Filled(u)' => Filled(tgt[t])')
        BY <1>0, <3>1 DEF Filled
      <3> QED
        BY <1>0, <1>1, <3>1, <3>2, <3>3
    <2>6. CASE TLB_check(t) \/ Walk(t) \/ Refill(t) \/ Access(t)
      <3>1. CASE pc'[t] \in DataAt
        <4>1. /\ tgt' = tgt /\ mode' = mode /\ num' = num
              /\ \/ idx' = idx /\ pc[t] = "check" /\ idx[t] < num[tgt[t]]
                 \/ idx' = idx /\ pc[t] \in {"walk", "refill"} /\ pc'[t] # "check"
                 \/ idx'[t] = idx[t] + 1 /\ pc[t] = "access" /\ pc'[t] = "check"
          BY <1>0, <2>6, <3>1 DEF TLB_check, Walk, Refill, Access, NextPage, Return,
                                  Goto, regvars
        <4>2. tgt[t] # t => Filled(tgt[t])'
          <5> SUFFICES ASSUME tgt[t] # t PROVE Filled(tgt[t])'
            OBVIOUS
          <5>1. tgt[t] \in Threads \ {t} /\ Filled(tgt[t])
            BY <1>1, <4>1
          <5> QED
            BY <4>1, <5>1, OthersStay, OthersKeep DEF Filled, FrameInv, IndInv
        <4> QED
          BY <1>0, <1>1, <3>1, <4>1, <4>2
      <3>2. CASE pc'[t] \notin DataAt
        BY <1>0, <1>1, <2>6, <3>2 DEF TLB_check, Walk, Refill, Access, Return, Goto
      <3> QED
        BY <3>1, <3>2
    <2> QED
      BY <2>1, <2>2, <2>3, <2>4, <2>5, <2>6 DEF Work, Call
  <1>5. CallOK'
    <2>1. ASSUME NEW u \in Threads
          PROVE  /\ mode'[u] = "none" <=> pc'[u] \notin DataAt
                 /\ pc'[u] \in DataAt =>
                      \/ tgt'[u] = u
                      \/ phase' = "use" /\ mode'[u] = "get" /\ Filled(tgt[u])'
                 /\ pc'[u] = "check" => idx'[u] <= num'[tgt'[u]]
                 /\ pc'[u] \in {"walk", "refill", "access"} => idx'[u] < num'[tgt'[u]]
      <3>1. CASE u = t
        BY <1>4, <3>1
      <3>2. CASE u # t
        BY <1>3, <3>2
      <3> QED
        BY <3>1, <3>2
    <2> QED
      BY <2>1 DEF CallOK
  <1> QED
    BY <1>2, <1>5

\* A lock passes only from its holder to nobody or from nobody to the thread
\* that takes it.
LEMMA LockStep ==
  ASSUME FrameInv, NEW t \in Threads, Work(t) \/ Call(t)
  PROVE  LockOK'
  <1> USE DEF TableAt, ClearedAt
  <1>0. /\ pc \in [Threads -> PCs] /\ NULL \notin Threads
        /\ pc[t] \in TableAt => ptlock = t
        /\ pc[t] \in {"allocw", "tabw", "pbitw"} => physlock = t
    BY VMemAssumption DEF FrameInv, IndInv, TypeOK, LockOK
  <1>1. /\ pc'[t] \in TableAt => ptlock' = t
        /\ pc'[t] \in {"allocw", "tabw", "pbitw"} => physlock' = t
        /\ ptlock' = ptlock \/ ptlock = NULL \/ ptlock = t
        /\ physlock' = physlock \/ physlock = NULL \/ physlock = t
    <2> USE DEF Goto
    <2>1. CASE \/ AllocPage(t) \/ MapPage(t) \/ AllocTable(t)
      BY <1>0, <2>1 DEF AllocPage, AllocLoad, MapPage, AllocTable, GiveUp
    <2>2. CASE \/ AllocPageStore(t) \/ AllocTableStore(t) \/ MapNew(t)
               \/ MarkPhys(t) \/ MarkPhysStore(t) \/ MarkVirt(t) \/ MapTLB(t)
      BY <1>0, <2>2 DEF AllocPageStore, AllocTableStore, MapNew, MarkPhys,
         MarkPhysStore, MarkVirt, MapTLB, AllocStore
    <2>3. CASE \/ FreeLock(t) \/ FreePage(t) \/ FreeVirt(t) \/ FreeTLB(t)
               \/ FreeTable(t) \/ FreeTableStore(t)
      BY <1>0, <2>3 DEF FreeLock, FreePage, FreeVirt, FreeTLB, FreeTable, FreeTableStore
    <2>4. CASE TLB_check(t) \/ Walk(t) \/ Refill(t) \/ Access(t)
      BY <1>0, <2>4 DEF TLB_check, Walk, Refill, Access, Return, vmvars
    <2>5. CASE Call(t)
      BY <1>0, <2>5 DEF Call, n_malloc, n_free, put_data, get_data, vmvars
    <2> QED
      BY <2>1, <2>2, <2>3, <2>4, <2>5 DEF Work
  <1>2. \A u \in Threads \ {t} : pc'[u] = pc[u]
    BY OthersStay DEF FrameInv, IndInv
  <1>3. ASSUME NEW u \in Threads \ {t}
        PROVE  /\ pc'[u] \in TableAt => ptlock' = u
               /\ pc'[u] \in {"allocw", "tabw", "pbitw"} => physlock' = u
    BY <1>0, <1>1, <1>2 DEF FrameInv, LockOK
  <1> QED
    BY <1>1, <1>3 DEF LockOK

\* main's page stays marked, and nobody gets it.
LEMMA MainStep ==
  ASSUME FrameInv, NEW t \in Threads, Work(t) \/ Call(t)
  PROVE  MainOK'
  <1>1. Moves(t) /\ \A u \in Threads \ {t} : Owned(u)' = Owned(u)
    BY MovesStep DEF FrameInv
  <1>2. MainPages \subseteq virt /\ \A u \in Threads : Owned(u) \cap MainPages = {}
    BY DEF FrameInv, MainOK
  <1>3. MainPages \subseteq virt' /\ Owned(t)' \cap MainPages = {}
    <2>1. CASE Keeps(t) \/ Loses(t)
      BY <1>2, <2>1 DEF Keeps, Loses
    <2>2. CASE Takes(t)
      BY <1>2, <2>2 DEF Takes, get_next_avail, FreeBlock
    <2>3. CASE Returns(t)
      BY <1>2, <2>3 DEF Returns
    <2> QED
      BY <1>1, <2>1, <2>2, <2>3 DEF Moves
  <1> QED
    BY <1>1, <1>2, <1>3 DEF MainOK, MainPages

-----------------------------------------------------------------------------
(***************************************************************************)
(* The bitmap of frames                                                    *)
(***************************************************************************)
\* A step that sets the bit of f: the store of a set_bit under phys_bit_lock.
Marks(t, f) == physlock = t /\ phys \subseteq phys' /\ f \in phys'

\* What each action does to phys_bitmap: nothing; a store under
\* phys_bit_lock, which loses no bit; or the clearing of one bit.
LEMMA PhysStep ==
  ASSUME FrameInv, NEW t \in Threads, Work(t) \/ Call(t)
  PROVE  /\ AllocPageStore(t) \/ MarkPhysStore(t) => Marks(t, frame[t])
         /\ AllocTableStore(t) => Marks(t, tab[t])
         /\ FreePage(t) => phys' = phys \/ /\ physlock = NULL /\ idx[t] < num[t]
                                           /\ phys' = phys \ {Pte(Cur(t))}
         /\ FreeTableStore(t) => phys' = phys \ {tab[t]}
         /\ \/ AllocPageStore(t) \/ MarkPhysStore(t) \/ AllocTableStore(t)
            \/ FreePage(t) \/ FreeTableStore(t) \/ phys' = phys
  <1>1. CASE AllocPageStore(t) \/ MarkPhysStore(t)
    <2>1. /\ physlock = t /\ phys \cap ByteOf(frame[t]) \subseteq byte[t]
          /\ phys' = (phys \ ByteOf(frame[t])) \cup byte[t] \cup {frame[t]}
      BY <1>1 DEF FrameInv, LockOK, ByteOK, AllocPageStore, MarkPhysStore, AllocStore,
                  StoreSet
    <2>2. ~AllocTableStore(t) /\ ~FreePage(t) /\ ~FreeTableStore(t)
      BY <1>1 DEF AllocPageStore, MarkPhysStore, AllocTableStore, FreePage, FreeTableStore
    <2>3. Marks(t, frame[t])
      BY <2>1 DEF Marks
    <2> QED
      BY <1>1, <2>2, <2>3
  <1>2. CASE AllocTableStore(t)
    <2>1. /\ physlock = t /\ phys \cap ByteOf(tab[t]) \subseteq byte[t]
          /\ phys' = (phys \ ByteOf(tab[t])) \cup byte[t] \cup {tab[t]}
      BY <1>2 DEF FrameInv, LockOK, ByteOK, AllocTableStore, AllocStore, StoreSet
    <2>2. /\ ~AllocPageStore(t) /\ ~MarkPhysStore(t)
          /\ ~FreePage(t) /\ ~FreeTableStore(t)
      BY <1>2 DEF AllocPageStore, MarkPhysStore, AllocTableStore, FreePage, FreeTableStore
    <2>3. Marks(t, tab[t])
      BY <2>1 DEF Marks
    <2> QED
      BY <1>2, <2>2, <2>3
  <1>3. CASE FreeTableStore(t)
    <2>1. /\ byte[t] = phys \cap ByteOf(tab[t])
          /\ phys' = (phys \ ByteOf(tab[t])) \cup (byte[t] \ {tab[t]})
      BY <1>3 DEF FrameInv, ByteOK, FreeTableStore, StoreClear
    <2>2. tab[t] \in Frames /\ tab[t] \in ByteOf(tab[t])
      BY DEF FrameInv, IndInv, TypeOK, ByteOf
    <2>3. /\ ~AllocPageStore(t) /\ ~MarkPhysStore(t) /\ ~AllocTableStore(t)
          /\ ~FreePage(t)
      BY <1>3 DEF AllocPageStore, MarkPhysStore, AllocTableStore, FreePage, FreeTableStore
    <2>4. phys' = phys \ {tab[t]}
      BY <2>1, <2>2
    <2> QED
      BY <1>3, <2>3, <2>4
  <1>4. CASE FreePage(t)
    <2>1. /\ ~AllocPageStore(t) /\ ~MarkPhysStore(t) /\ ~AllocTableStore(t)
          /\ ~FreeTableStore(t)
      BY <1>4 DEF AllocPageStore, MarkPhysStore, AllocTableStore, FreePage, FreeTableStore
    <2> QED
      BY <1>4, <2>1 DEF FreePage
  <1>5. CASE \/ AllocPage(t) \/ MapPage(t) \/ AllocTable(t) \/ MapNew(t)
             \/ MarkPhys(t) \/ MarkVirt(t) \/ MapTLB(t) \/ FreeLock(t) \/ FreeVirt(t)
             \/ FreeTLB(t) \/ FreeTable(t) \/ TLB_check(t) \/ Walk(t) \/ Refill(t)
             \/ Access(t) \/ Call(t)
    <2>1. phys' = phys
      BY <1>5 DEF AllocPage, MapPage, AllocTable, MapNew, MarkPhys, MarkVirt, MapTLB,
         FreeLock, FreeVirt, FreeTLB, FreeTable, TLB_check, Walk, Refill, Access, Call,
         n_malloc, n_free, put_data, get_data, vmvars
    <2> QED
      BY <1>1, <1>2, <1>3, <1>4, <2>1
  <1> QED
    BY <1>1, <1>2, <1>3, <1>4, <1>5 DEF Work

\* A loaded byte stays current until it is stored.
LEMMA ByteStep ==
  ASSUME FrameInv, NEW t \in Threads, Work(t) \/ Call(t), NoLostUpdate
  PROVE  ByteOK'
  <1>0. /\ pc \in [Threads -> PCs] /\ NULL \notin Threads
        /\ byte \in [Threads -> SUBSET Frames]
        /\ frame \in [Threads -> Frames] /\ tab \in [Threads -> Frames]
    BY VMemAssumption DEF FrameInv, IndInv, TypeOK
  <1>1. ASSUME NEW u \in Threads \ {t}
        PROVE  /\ pc'[u] = "allocw" => frame'[u] \notin phys'
               /\ pc'[u] = "tabw" => tab'[u] \notin phys'
               /\ pc'[u] \in {"allocw", "pbitw"} => phys' \cap ByteOf(frame'[u]) \subseteq byte'[u]
               /\ pc'[u] = "tabw" => phys' \cap ByteOf(tab'[u]) \subseteq byte'[u]
               /\ pc'[u] = "fdirw" => byte'[u] = phys' \cap ByteOf(tab'[u])
    <2>1. /\ pc'[u] = pc[u] /\ frame'[u] = frame[u] /\ tab'[u] = tab[u]
          /\ byte'[u] = byte[u]
      BY OthersStay, OthersKeep DEF FrameInv, IndInv
    <2>2. /\ pc[u] = "allocw" => frame[u] \notin phys
          /\ pc[u] = "tabw" => tab[u] \notin phys
          /\ pc[u] \in {"allocw", "pbitw"} => phys \cap ByteOf(frame[u]) \subseteq byte[u]
          /\ pc[u] = "tabw" => phys \cap ByteOf(tab[u]) \subseteq byte[u]
          /\ pc[u] = "fdirw" => byte[u] = phys \cap ByteOf(tab[u])
          /\ pc[u] \in {"allocw", "tabw", "pbitw"} => physlock = u
          /\ pc[u] = "fdirw" => ptlock = u
      BY DEF FrameInv, ByteOK, LockOK, TableAt, ClearedAt
    <2>3. CASE pc[u] \in {"allocw", "tabw", "pbitw"}
      <3>1. phys' \subseteq phys
        BY <1>0, <2>2, <2>3, PhysStep DEF Marks
      <3> QED
        BY <2>1, <2>2, <2>3, <3>1
    <2>4. CASE pc[u] = "fdirw"
      <3>1. ~FreePage(t) /\ ~FreeTableStore(t)
        BY <2>2, <2>4 DEF FrameInv, LockOK, TableAt, ClearedAt, FreePage, FreeTableStore
      <3>2. phys \subseteq phys'
        BY <3>1, PhysStep DEF Marks
      <3>3. phys' \cap ByteOf(tab[u]) \subseteq phys
        BY <2>1, <2>4 DEF NoLostUpdate
      <3> QED
        BY <2>1, <2>2, <2>4, <3>2, <3>3
    <2> QED
      BY <2>1, <2>3, <2>4
  <1>2. /\ pc'[t] = "allocw" => frame'[t] \notin phys'
        /\ pc'[t] = "tabw" => tab'[t] \notin phys'
        /\ pc'[t] \in {"allocw", "pbitw"} => phys' \cap ByteOf(frame'[t]) \subseteq byte'[t]
        /\ pc'[t] = "tabw" => phys' \cap ByteOf(tab'[t]) \subseteq byte'[t]
        /\ pc'[t] = "fdirw" => byte'[t] = phys' \cap ByteOf(tab'[t])
    <2> USE DEF Goto
    <2>1. CASE AllocPage(t) \/ AllocTable(t)
      BY <1>0, <2>1 DEF AllocPage, AllocTable, AllocLoad, LoadByte, LowestFree, GiveUp
    <2>2. CASE MarkPhys(t) \/ FreeTable(t)
      BY <1>0, <2>2 DEF MarkPhys, FreeTable, LoadByte
    <2>3. CASE \/ AllocPageStore(t) \/ MapPage(t) \/ AllocTableStore(t) \/ MapNew(t)
               \/ MarkPhysStore(t) \/ MarkVirt(t) \/ MapTLB(t)
      BY <1>0, <2>3 DEF AllocPageStore, MapPage, AllocTableStore, MapNew,
         MarkPhysStore, MarkVirt, MapTLB
    <2>4. CASE \/ FreeLock(t) \/ FreePage(t) \/ FreeVirt(t) \/ FreeTLB(t)
               \/ FreeTableStore(t)
      BY <1>0, <2>4 DEF FreeLock, FreePage, FreeVirt, FreeTLB, FreeTableStore
    <2>5. CASE TLB_check(t) \/ Walk(t) \/ Refill(t) \/ Access(t) \/ Call(t)
      BY <1>0, <2>5 DEF TLB_check, Walk, Refill, Access, Return, Call, n_malloc,
                        n_free, put_data, get_data
    <2> QED
      BY <2>1, <2>2, <2>3, <2>4, <2>5 DEF Work
  <1> QED
    <2>1. \A u \in Threads :
             /\ pc'[u] = "allocw" => frame'[u] \notin phys'
             /\ pc'[u] = "tabw" => tab'[u] \notin phys'
             /\ pc'[u] \in {"allocw", "pbitw"} => phys' \cap ByteOf(frame'[u]) \subseteq byte'[u]
             /\ pc'[u] = "tabw" => phys' \cap ByteOf(tab'[u]) \subseteq byte'[u]
             /\ pc'[u] = "fdirw" => byte'[u] = phys' \cap ByteOf(tab'[u])
      BY <1>1, <1>2
    <2> QED
      BY <2>1 DEF ByteOK, ByteOf

-----------------------------------------------------------------------------
(***************************************************************************)
(* Page tables                                                             *)
(***************************************************************************)
\* The step changes neither the directory nor a page table.
SameTables ==
  /\ \A d \in Entries : mem'[0][d] = mem[0][d]
  /\ \A d \in Entries : mem[0][d] # 0 => mem'[mem[0][d]] = mem[mem[0][d]]

\* Then every translation stays what it is.
LEMMA SameMap ==
  ASSUME TablesOK, SameTables, NEW v \in Vpns
  PROVE  /\ Pde(v)' = Pde(v)
         /\ Pde(v) # 0 => Pte(v)' = Pte(v)
         /\ Mapped(v)' <=> Mapped(v)
  <1>1. PDX(v) \in Entries /\ PTX(v) \in Entries
    BY Place
  <1>2. Pde(v)' = Pde(v)
    BY <1>1 DEF Pde, SameTables
  <1>3. Pde(v) # 0 => Pte(v)' = Pte(v)
    BY <1>1, <1>2 DEF Pte, Pde, SameTables
  <1> QED
    BY <1>2, <1>3 DEF Mapped

\* Which pages are live after a step of t.
LEMMA LiveStep ==
  ASSUME IndInv, PhaseOK, MainOK, NEW t \in Threads, Work(t) \/ Call(t)
  PROVE  /\ Placed(t)' = Placed(t) => \A v : Live(v)' <=> Live(v)
         /\ \A c : Placed(t)' = Placed(t) \cup {c} =>
              \A v : Live(v)' <=> (Live(v) \/ v = c)
         /\ \A c \in Owned(t) : Placed(t)' = Placed(t) \ {c} =>
              \A v : Live(v)' <=> (Live(v) /\ v # c)
  <1>1. \A u \in Threads \ {t} : Placed(u)' = Placed(u)
    BY PlacedOthers DEF IndInv
  <1>2. \A v : Live(v) <=> (v \in MainPages \/ \E u \in Threads : v \in Placed(u))
    BY DEF Live
  <1>3. \A v : Live(v)' <=> (v \in MainPages \/ \E u \in Threads : v \in Placed(u)')
    BY DEF Live, MainPages
  <1>4. \A c \in Owned(t) : c \notin MainPages /\ \A u \in Threads : u # t => c \notin Placed(u)
    BY PlacedApart
  <1>5. Placed(t)' = Placed(t) => \A v : Live(v)' <=> Live(v)
    BY <1>1, <1>2, <1>3
  <1>6. ASSUME NEW c, Placed(t)' = Placed(t) \cup {c}, NEW v
        PROVE  Live(v)' <=> (Live(v) \/ v = c)
    BY <1>1, <1>2, <1>3, <1>6
  <1>7. ASSUME NEW c \in Owned(t), Placed(t)' = Placed(t) \ {c}, NEW v
        PROVE  Live(v)' <=> (Live(v) /\ v # c)
    BY <1>1, <1>2, <1>3, <1>4, <1>7
  <1> QED
    BY <1>5, <1>6, <1>7

\* A step that changes no table and no page, and clears no bit of a frame in
\* use.
LEMMA QuietTables ==
  ASSUME TypeOK, TablesOK, LiveOK, PagesOK, SameTables,
         \A v \in Vpns : Live(v)' <=> Live(v),
         \A f \in phys : f \in phys' \/ Unused(f)
  PROVE  TablesOK' /\ LiveOK' /\ PagesOK'
  <1>1. /\ 0 \in phys' /\ \A d \in Entries : mem[0][d] # 0 => mem[0][d] \in phys'
        /\ \A v \in Vpns : Live(v) => Pte(v) \in phys'
    BY DEF TablesOK, PagesOK, Unused
  <1>2. TablesOK'
    BY <1>1 DEF TablesOK, SameTables
  <1>3. LiveOK'
    BY SameMap DEF LiveOK
  <1>4. \A v \in Vpns : Live(v) => Pte(v)' = Pte(v)
    BY SameMap, LivePage
  <1>5. PagesOK'
    <2>1. ASSUME NEW v \in Vpns, Live(v)
          PROVE  /\ Pte(v)' \in phys' \ {0}
                 /\ \A d \in Entries : mem'[0][d] # Pte(v)'
                 /\ \A w \in Vpns : Live(w)' /\ w # v => Pte(w)' # Pte(v)'
      BY <1>1, <1>4, <2>1 DEF PagesOK, SameTables
    <2> QED
      BY <2>1 DEF PagesOK
  <1> QED
    BY <1>2, <1>3, <1>5

\* map_page with its page table in place: one entry is written.
LEMMA EnterPage ==
  ASSUME TypeOK, TablesOK, LiveOK, PagesOK, NEW c \in Vpns, NEW f,
         Unused(f), Pde(c) # 0, phys' = phys, ~Live(c),
         mem' = [mem EXCEPT ![Pde(c)][PTX(c)] = f],
         \A v \in Vpns : Live(v)' <=> (Live(v) \/ v = c)
  PROVE  /\ TablesOK' /\ LiveOK' /\ PagesOK'
         /\ Pte(c)' = f
         /\ \A v \in Vpns : Live(v) => Pde(v)' = Pde(v) /\ Pte(v)' = Pte(v)
         /\ \A d \in Entries : mem'[0][d] = mem[0][d]
  <1>0. /\ PDX(c) \in Entries /\ PTX(c) \in Entries /\ Pde(c) = mem[0][PDX(c)]
        /\ Pde(c) \in Frames \ {0} /\ f \in Frames /\ f # 0 /\ 0 \in Frames
    BY Place, ConstantTypes DEF Pde, TablesOK, TypeOK, Unused
  <1>1. /\ mem'[0] = mem[0]
        /\ mem'[Pde(c)][PTX(c)] = f
        /\ \A g \in Frames : \A s \in Entries :
             g # Pde(c) \/ s # PTX(c) => mem'[g][s] = mem[g][s]
    BY <1>0 DEF TypeOK
  <1>2. \A v \in Vpns : Pde(v)' = Pde(v)
    BY <1>1 DEF Pde
  <1>3. Pte(c)' = f
    BY <1>1, <1>2 DEF Pte
  <1>4. ASSUME NEW v \in Vpns, v # c, Pde(v) # 0 PROVE Pte(v)' = Pte(v)
    <2>1. PDX(v) \in Entries /\ PTX(v) \in Entries /\ Pde(v) \in Frames /\ Pde(v) = mem[0][PDX(v)]
      BY Place DEF Pde, TablesOK
    <2>2. Pde(v) # Pde(c) \/ PTX(v) # PTX(c)
      BY <1>0, <1>4, <2>1, SamePlace DEF TablesOK
    <2> QED
      BY <1>1, <1>2, <2>1, <2>2 DEF Pte
  <1>5. TablesOK'
    <2>1. ASSUME NEW d \in Entries, mem[0][d] # 0, NEW s \in Entries
          PROVE  mem'[mem[0][d]][s] \in Frames
      BY <1>0, <1>1, <2>1 DEF TablesOK
    <2> QED
      BY <1>1, <2>1 DEF TablesOK
  <1>6. \A v \in Vpns : Mapped(v)' <=> (Mapped(v) \/ v = c)
    BY <1>0, <1>2, <1>3, <1>4 DEF Mapped
  <1>7. LiveOK'
    BY <1>6 DEF LiveOK
  <1>8. \A v \in Vpns : Live(v) => Pde(v)' = Pde(v) /\ Pte(v)' = Pte(v) /\ v # c
    BY <1>2, <1>4, LivePage
  <1>9. PagesOK'
    <2>1. ASSUME NEW v \in Vpns, Live(v) \/ v = c
          PROVE  /\ Pte(v)' \in phys \ {0}
                 /\ \A d \in Entries : mem[0][d] # Pte(v)'
      BY <1>3, <1>8, <2>1 DEF PagesOK, Unused
    <2>2. ASSUME NEW v \in Vpns, NEW w \in Vpns, Live(v) \/ v = c, Live(w) \/ w = c, w # v
          PROVE  Pte(w)' # Pte(v)'
      BY <1>3, <1>8, <2>2 DEF PagesOK, Unused
    <2> QED
      BY <1>1, <2>1, <2>2 DEF PagesOK
  <1> QED
    BY <1>1, <1>3, <1>5, <1>7, <1>8, <1>9

\* map_page with a new page table.
LEMMA EnterTable ==
  ASSUME TypeOK, TablesOK, LiveOK, PagesOK, NEW c \in Vpns, NEW f, NEW h,
         Unused(f), Unused(h), h # f, Pde(c) = 0, phys' = phys, ~Live(c),
         mem' = [mem EXCEPT ![h] = [Zeroes EXCEPT ![PTX(c)] = f], ![0][PDX(c)] = h],
         \A v \in Vpns : Live(v)' <=> (Live(v) \/ v = c)
  PROVE  /\ TablesOK' /\ LiveOK' /\ PagesOK'
         /\ Pte(c)' = f
         /\ \A v \in Vpns : Live(v) => Pde(v)' = Pde(v) /\ Pte(v)' = Pte(v)
         /\ \A d \in Entries : mem'[0][d] = mem[0][d] \/ mem'[0][d] = h
  <1>0. /\ PDX(c) \in Entries /\ PTX(c) \in Entries /\ mem[0][PDX(c)] = 0
        /\ f \in Frames /\ f # 0 /\ h \in Frames /\ h # 0 /\ 0 \in Frames
    BY Place, ConstantTypes DEF Pde, TypeOK, Unused
  <1>1. /\ mem'[0][PDX(c)] = h
        /\ \A d \in Entries : d # PDX(c) => mem'[0][d] = mem[0][d]
        /\ mem'[h][PTX(c)] = f
        /\ \A s \in Entries : s # PTX(c) => mem'[h][s] = 0
        /\ \A g \in Frames : g # 0 /\ g # h => mem'[g] = mem[g]
    <2>1. mem'[0] = [mem[0] EXCEPT ![PDX(c)] = h]
      BY <1>0 DEF TypeOK
    <2>2. mem'[h] = [Zeroes EXCEPT ![PTX(c)] = f]
      BY <1>0 DEF TypeOK
    <2>3. \A g \in Frames : g # 0 /\ g # h => mem'[g] = mem[g]
      BY <1>0 DEF TypeOK
    <2>4. mem[0] \in [Entries -> Words]
      BY <1>0 DEF TypeOK
    <2>5. mem'[0][PDX(c)] = h /\ \A d \in Entries : d # PDX(c) => mem'[0][d] = mem[0][d]
      BY <1>0, <2>1, <2>4
    <2>6. mem'[h][PTX(c)] = f /\ \A s \in Entries : s # PTX(c) => mem'[h][s] = 0
      BY <1>0, <2>2 DEF Zeroes
    <2> QED
      BY <2>3, <2>5, <2>6
  <1>2. \A v \in Vpns : Pde(v)' = IF PDX(v) = PDX(c) THEN h ELSE Pde(v)
    BY <1>1, Place DEF Pde
  <1>3. Pte(c)' = f
    BY <1>0, <1>1, <1>2 DEF Pte
  <1>4. ASSUME NEW v \in Vpns, v # c, PDX(v) = PDX(c) PROVE ~Mapped(v)' /\ ~Mapped(v)
    <2>1. PTX(v) # PTX(c) /\ PTX(v) \in Entries
      BY <1>4, SamePlace, Place
    <2>2. Pte(v)' = 0
      BY <1>1, <1>2, <1>4, <2>1 DEF Pte
    <2>3. Pde(v) = 0
      BY <1>0, <1>4 DEF Pde
    <2> QED
      BY <2>2, <2>3 DEF Mapped
  <1>5. ASSUME NEW v \in Vpns, PDX(v) # PDX(c)
        PROVE  Pde(v)' = Pde(v) /\ (Pde(v) # 0 => Pte(v)' = Pte(v))
    <2>1. Pde(v) # 0 => Pde(v) \in Frames /\ Pde(v) # h
      BY Place DEF Unused, Pde, TablesOK
    <2> QED
      BY <1>1, <1>2, <1>5, <2>1 DEF Pte
  <1>6. TablesOK'
    <2>1. ASSUME NEW d \in Entries
          PROVE  /\ mem'[0][d] \in Frames
                 /\ mem'[0][d] # 0 =>
                     /\ mem'[0][d] \in phys
                     /\ \A s \in Entries : mem'[mem'[0][d]][s] \in Frames
                     /\ \A e \in Entries : e # d => mem'[0][e] # mem'[0][d]
      <3>1. CASE d = PDX(c)
        <4>1. mem'[0][d] = h /\ h \in phys
          BY <1>1, <3>1 DEF Unused
        <4>2. \A s \in Entries : mem'[h][s] \in Frames
          BY <1>0, <1>1
        <4>3. \A e \in Entries : e # d => mem'[0][e] # h
          BY <1>1, <3>1 DEF Unused
        <4> QED
          BY <1>0, <4>1, <4>2, <4>3
      <3>2. CASE d # PDX(c)
        <4>1. mem'[0][d] = mem[0][d] /\ mem[0][d] # h
          BY <1>1, <3>2 DEF Unused
        <4>2. mem[0][d] \in Frames
          BY DEF TablesOK
        <4>3. mem[0][d] # 0 => /\ mem[0][d] \in phys /\ mem'[mem[0][d]] = mem[mem[0][d]]
                               /\ \A s \in Entries : mem[mem[0][d]][s] \in Frames
          BY <1>1, <4>1, <4>2 DEF TablesOK
        <4>4. ASSUME mem[0][d] # 0, NEW e \in Entries, e # d PROVE mem'[0][e] # mem[0][d]
          BY <1>1, <4>1, <4>4, ZenonT(60) DEF TablesOK
        <4> QED
          BY <4>1, <4>2, <4>3, <4>4
      <3> QED
        BY <3>1, <3>2
    <2> QED
      BY <2>1 DEF TablesOK
  <1>7. \A v \in Vpns : Mapped(v)' <=> (Mapped(v) \/ v = c)
    <2> TAKE v \in Vpns
    <2>1. CASE v = c
      BY <1>0, <1>2, <1>3, <2>1 DEF Mapped
    <2>2. CASE v # c /\ PDX(v) = PDX(c)
      BY <1>4, <2>2
    <2>3. CASE PDX(v) # PDX(c)
      BY <1>5, <2>3 DEF Mapped
    <2> QED
      BY <2>1, <2>2, <2>3
  <1>8. LiveOK'
    BY <1>7 DEF LiveOK
  <1>9. \A v \in Vpns : Live(v) => Pde(v)' = Pde(v) /\ Pte(v)' = Pte(v) /\ v # c
    BY <1>4, <1>5, LivePage
  <1>10. PagesOK'
    <2>1. ASSUME NEW v \in Vpns, Live(v) \/ v = c
          PROVE  /\ Pte(v)' \in phys \ {0}
                 /\ \A d \in Entries : mem'[0][d] # Pte(v)'
      <3>1. Pte(v)' # h
        BY <1>3, <1>9, <2>1 DEF Unused
      <3> QED
        <4>1. Pte(v)' \in phys \ {0} /\ \A d \in Entries : mem[0][d] # Pte(v)'
          BY <1>3, <1>9, <2>1 DEF PagesOK, Unused
        <4> QED
          BY <1>1, <3>1, <4>1
    <2>2. ASSUME NEW v \in Vpns, NEW w \in Vpns, Live(v) \/ v = c, Live(w) \/ w = c, w # v
          PROVE  Pte(w)' # Pte(v)'
      BY <1>3, <1>9, <2>2 DEF PagesOK, Unused
    <2> QED
      BY <2>1, <2>2 DEF PagesOK
  <1> QED
    BY <1>1, <1>3, <1>6, <1>8, <1>9, <1>10

\* n_free clears the entry of a page and the bit of its frame.
LEMMA ClearPage ==
  ASSUME TypeOK, TablesOK, LiveOK, PagesOK, NEW c \in Vpns, Live(c),
         phys' = phys \ {Pte(c)},
         mem' = [mem EXCEPT ![Pde(c)][PTX(c)] = 0],
         \A v \in Vpns : Live(v)' <=> (Live(v) /\ v # c)
  PROVE  /\ TablesOK' /\ LiveOK' /\ PagesOK'
         /\ \A v \in Vpns : Pde(v)' = Pde(v)
         /\ \A v \in Vpns : Live(v) /\ v # c => Pte(v)' = Pte(v)
         /\ \A d \in Entries : mem'[0][d] = mem[0][d]
  <1>0. /\ PDX(c) \in Entries /\ PTX(c) \in Entries /\ Pde(c) = mem[0][PDX(c)]
        /\ Pde(c) \in Frames \ {0} /\ 0 \in Frames /\ Pte(c) # 0
    BY LivePage, ConstantTypes
  <1>1. /\ mem'[0] = mem[0]
        /\ mem'[Pde(c)][PTX(c)] = 0
        /\ \A g \in Frames : \A s \in Entries :
             g # Pde(c) \/ s # PTX(c) => mem'[g][s] = mem[g][s]
    BY <1>0 DEF TypeOK
  <1>2. \A v \in Vpns : Pde(v)' = Pde(v)
    BY <1>1 DEF Pde
  <1>3. Pte(c)' = 0
    BY <1>1, <1>2 DEF Pte
  <1>4. ASSUME NEW v \in Vpns, v # c, Pde(v) # 0 PROVE Pte(v)' = Pte(v)
    <2>1. PDX(v) \in Entries /\ PTX(v) \in Entries /\ Pde(v) \in Frames /\ Pde(v) = mem[0][PDX(v)]
      BY Place DEF Pde, TablesOK
    <2>2. Pde(v) # Pde(c) \/ PTX(v) # PTX(c)
      BY <1>0, <1>4, <2>1, SamePlace DEF TablesOK
    <2> QED
      BY <1>1, <1>2, <2>1, <2>2 DEF Pte
  <1>5. TablesOK'
    <2>1. ASSUME NEW d \in Entries, mem[0][d] # 0, NEW s \in Entries
          PROVE  mem'[mem[0][d]][s] \in Frames
      BY <1>0, <1>1, <2>1 DEF TablesOK
    <2>2. 0 \in phys' /\ \A d \in Entries : mem[0][d] # 0 => mem[0][d] \in phys'
      BY <1>0 DEF TablesOK, PagesOK
    <2> QED
      BY <1>1, <2>1, <2>2 DEF TablesOK
  <1>6. \A v \in Vpns : Mapped(v)' <=> (Mapped(v) /\ v # c)
    BY <1>2, <1>3, <1>4 DEF Mapped
  <1>7. LiveOK'
    BY <1>6 DEF LiveOK
  <1>8. \A v \in Vpns : Live(v) /\ v # c => Pte(v)' = Pte(v)
    BY <1>4, LivePage
  <1>9. PagesOK'
    <2>1. ASSUME NEW v \in Vpns, Live(v), v # c
          PROVE  /\ Pte(v)' \in phys' \ {0}
                 /\ \A d \in Entries : mem[0][d] # Pte(v)'
                 /\ \A w \in Vpns : Live(w) /\ w # c /\ w # v => Pte(w)' # Pte(v)'
      BY <1>8, <2>1 DEF PagesOK
    <2> QED
      BY <1>1, <2>1 DEF PagesOK
  <1> QED
    BY <1>1, <1>2, <1>5, <1>7, <1>8, <1>9

\* n_free takes an empty page table out of the directory.
LEMMA DropTable ==
  ASSUME TypeOK, TablesOK, LiveOK, PagesOK, NEW c \in Vpns,
         Pde(c) # 0, TableEmpty(Pde(c)), phys' = phys,
         mem' = [mem EXCEPT ![0][PDX(c)] = 0],
         \A v \in Vpns : Live(v)' <=> Live(v)
  PROVE  /\ TablesOK' /\ LiveOK' /\ PagesOK'
         /\ \A v \in Vpns : Live(v) => Pde(v)' = Pde(v) /\ Pte(v)' = Pte(v)
         /\ \A d \in Entries : mem'[0][d] = 0 \/ mem'[0][d] = mem[0][d]
         /\ \A d \in Entries : mem'[0][d] # Pde(c)
         /\ \A v \in Vpns : Live(v) => Pte(v) # Pde(c)
         /\ Pde(c) \in phys
  <1>0. /\ PDX(c) \in Entries /\ PTX(c) \in Entries /\ Pde(c) = mem[0][PDX(c)]
        /\ 0 \in Frames
    BY Place, ConstantTypes DEF Pde
  <1>1. /\ \A d \in Entries : mem'[0][d] = IF d = PDX(c) THEN 0 ELSE mem[0][d]
        /\ \A g \in Frames : g # 0 => mem'[g] = mem[g]
    <2>1. mem'[0] = [mem[0] EXCEPT ![PDX(c)] = 0] /\ mem[0] \in [Entries -> Words]
      BY <1>0 DEF TypeOK
    <2>2. \A g \in Frames : g # 0 => mem'[g] = mem[g]
      BY <1>0 DEF TypeOK
    <2> QED
      BY <1>0, <2>1, <2>2
  <1>2. \A v \in Vpns : Pde(v)' = IF PDX(v) = PDX(c) THEN 0 ELSE Pde(v)
    BY <1>1, Place DEF Pde
  <1>3. ASSUME NEW v \in Vpns, PDX(v) = PDX(c) PROVE ~Mapped(v) /\ ~Mapped(v)'
    <2>1. Pte(v) = 0
      BY <1>0, <1>3, Place DEF Pte, Pde, TableEmpty, Zeroes
    <2> QED
      BY <1>2, <1>3, <2>1 DEF Mapped
  <1>4. ASSUME NEW v \in Vpns, PDX(v) # PDX(c)
        PROVE  Pde(v)' = Pde(v) /\ (Pde(v) # 0 => Pte(v)' = Pte(v))
    <2>1. Pde(v) # 0 => Pde(v) \in Frames
      BY Place DEF Pde, TablesOK
    <2> QED
      BY <1>1, <1>2, <1>4, <2>1 DEF Pte
  <1>5. TablesOK'
    <2>1. ASSUME NEW d \in Entries
          PROVE  /\ mem'[0][d] \in Frames
                 /\ mem'[0][d] # 0 =>
                     /\ mem'[0][d] \in phys
                     /\ \A s \in Entries : mem'[mem'[0][d]][s] \in Frames
                     /\ \A e \in Entries : e # d => mem'[0][e] # mem'[0][d]
      <3>1. CASE d = PDX(c)
        BY <1>0, <1>1, <3>1
      <3>2. CASE d # PDX(c)
        BY <1>0, <1>1, <3>2 DEF TablesOK
      <3> QED
        BY <3>1, <3>2
    <2> QED
      BY <2>1 DEF TablesOK
  <1>6. \A v \in Vpns : Mapped(v)' <=> Mapped(v)
    <2> TAKE v \in Vpns
    <2>1. CASE PDX(v) = PDX(c)
      BY <1>3, <2>1
    <2>2. CASE PDX(v) # PDX(c)
      BY <1>4, <2>2 DEF Mapped
    <2> QED
      BY <2>1, <2>2
  <1>7. LiveOK'
    BY <1>6 DEF LiveOK
  <1>8. \A v \in Vpns : Live(v) => Pde(v)' = Pde(v) /\ Pte(v)' = Pte(v)
    BY <1>3, <1>4, LivePage
  <1>9. PagesOK'
    <2>1. ASSUME NEW v \in Vpns, Live(v)
          PROVE  /\ Pte(v)' \in phys \ {0}
                 /\ \A d \in Entries : mem'[0][d] # Pte(v)'
                 /\ \A w \in Vpns : Live(w) /\ w # v => Pte(w)' # Pte(v)'
      BY <1>1, <1>8, <2>1 DEF PagesOK
    <2> QED
      BY <2>1 DEF PagesOK
  <1>10. /\ \A d \in Entries : mem'[0][d] # Pde(c)
         /\ \A v \in Vpns : Live(v) => Pte(v) # Pde(c)
         /\ Pde(c) \in phys
    BY <1>0, <1>1 DEF TablesOK, PagesOK
  <1> QED
    BY <1>1, <1>5, <1>7, <1>8, <1>9, <1>10

-----------------------------------------------------------------------------
(***************************************************************************)
(* Frames on their way into or out of the page tables                      *)
(***************************************************************************)
\* Pages that stay live keep their translation.
Kept ==
  \A v \in Vpns : Live(v) /\ Live(v)' => Pde(v)' = Pde(v) /\ Pte(v)' = Pte(v)

\* An unused frame stays unused when nothing comes to use it.
LEMMA UnusedStays ==
  ASSUME NEW f, Unused(f), f \in phys',
         \A d \in Entries : mem'[0][d] = mem[0][d] \/ mem'[0][d] # f,
         \A v \in Vpns : Live(v)' => (Live(v) /\ Pte(v)' = Pte(v)) \/ Pte(v)' # f
  PROVE  Unused(f)'
  BY DEF Unused

\* A frame whose bit is clear has no use.
LEMMA ClearIsUnused ==
  ASSUME TablesOK, PagesOK, NEW f, f \notin phys
  PROVE  /\ f # 0 /\ \A d \in Entries : mem[0][d] # f
         /\ \A v \in Vpns : Live(v) => Pte(v) # f
  <1>1. f # 0
    BY DEF TablesOK
  <1> QED
    BY <1>1 DEF TablesOK, PagesOK

\* Frames on their way stay apart: t brings a new one only by setting a bit
\* that was clear or by taking a table out of the directory.
LEMMA ApartStep ==
  ASSUME FrameInv, NEW t \in Threads, Work(t) \/ Call(t),
         HasFrame(t)' => frame'[t] = frame[t] /\ (HasFrame(t) \/ frame[t] \notin phys),
         pc'[t] = "new" => HasFrame(t),
         pc'[t] \in {"new", "fdirw"} =>
           tab'[t] = tab[t] /\ (tab[t] \notin phys \/ \E d \in Entries : mem[0][d] = tab[t])
  PROVE  HeldApart'
  <1>1. \A u \in Threads \ {t} :
          /\ frame'[u] = frame[u] /\ tab'[u] = tab[u]
          /\ pc'[u] = pc[u] /\ HasFrame(u)' = HasFrame(u)
    BY OthersStay, OthersKeep DEF FrameInv, IndInv, HasFrame
  <1>2. \A u \in Threads : HasFrame(u) => /\ frame[u] \in phys
                                          /\ \A d \in Entries : mem[0][d] # frame[u]
    BY DEF FrameInv, HeldOK, HeldBy, Unused
  <1>3. \A u, w \in Threads : HasFrame(u) =>
          /\ HasFrame(w) /\ u # w => frame[u] # frame[w]
          /\ pc[w] \in {"new", "fdirw"} => frame[u] # tab[w]
    BY DEF FrameInv, HeldOK, HeldApart
  <1>4. \A u \in Threads \ {t} : pc[u] \in {"new", "fdirw"} => tab[u] \in phys
    BY DEF FrameInv, HeldOK, HeldBy, Unused
  <1>5. HasFrame(t)' /\ pc'[t] \in {"new", "fdirw"} => HasFrame(t)
    BY DEF HasFrame
  <1>6. ASSUME NEW u \in Threads, NEW w \in Threads, HasFrame(u)'
        PROVE  /\ HasFrame(w)' /\ u # w => frame'[u] # frame'[w]
               /\ pc'[w] \in {"new", "fdirw"} => frame'[u] # tab'[w]
    <2>1. CASE u = t /\ w = t
      BY <1>2, <1>5, <1>6, <2>1
    <2>2. CASE u = t /\ w # t
      BY <1>1, <1>2, <1>3, <1>4, <1>6, <2>2
    <2>3. CASE u # t /\ w = t
      BY <1>1, <1>2, <1>3, <1>6, <2>3
    <2>4. CASE u # t /\ w # t
      BY <1>1, <1>3, <1>6, <2>4
    <2> QED
      BY <2>1, <2>2, <2>3, <2>4
  <1> QED
    BY <1>6 DEF HeldApart

\* What the step of t means for the frames another thread holds.
LEMMA HeldOthers ==
  ASSUME FrameInv, NEW t \in Threads, Work(t) \/ Call(t), NEW u \in Threads \ {t},
         Kept, Live(Cur(u)) => Live(Cur(u))',
         HasFrame(u) => Unused(frame[u])',
         pc[u] \in ClearedAt \cup {"tab", "tabw", "new"} =>
           /\ SameTables /\ phys \subseteq phys'
           /\ \A v \in Vpns : Live(v)' => Live(v)
  PROVE  HeldBy(u)'
  <1>1. /\ frame'[u] = frame[u] /\ tab'[u] = tab[u] /\ pc'[u] = pc[u]
        /\ Cur(u)' = Cur(u)
    BY OthersStay, OthersKeep, PlacedOthers DEF FrameInv, IndInv
  <1>2. HeldBy(u) /\ TablesOK /\ PagesOK /\ LiveOK /\ TypeOK /\ IndInv
    BY DEF FrameInv, HeldOK, IndInv
  <1>3. HasFrame(u)' => Unused(frame[u])' /\ frame'[u] = frame[u]
    BY <1>1 DEF HasFrame
  <1>4. ASSUME pc[u] \in {"new", "fdirw"} PROVE Unused(tab[u])'
    <2>1. Unused(tab[u]) /\ SameTables /\ phys \subseteq phys' /\ \A v \in Vpns : Live(v)' => Live(v)
      BY <1>2, <1>4 DEF HeldBy, ClearedAt
    <2>2. \A v \in Vpns : Live(v) => Pte(v)' = Pte(v)
      BY <1>2, <2>1, SameMap, LivePage
    <2> QED
      BY <1>1, <2>1, <2>2 DEF Unused, SameTables
  <1>5. ASSUME pc[u] \in EnterAt PROVE Pte(Cur(u))' = frame[u]
    <2>1. Cur(u) \in Vpns /\ Live(Cur(u))
      BY <1>2, <1>5, CurOwned DEF Live
    <2>2. Pte(Cur(u)) = frame[u]
      BY <1>2, <1>5 DEF HeldBy
    <2>3. Cur(u)' = Cur(u) /\ Live(Cur(u))'
      BY <1>1, <2>1
    <2> DEFINE c == Cur(u)
    <2>4. c' = c
      BY <1>1
    <2>5. \A v \in Vpns : v = c => Pte(v)' = Pte(v)
      BY <2>1, <2>3, <2>4 DEF Kept, Live
    <2> QED
      BY <2>1, <2>2, <2>3, <2>5 DEF Pte, Pde
  <1>6. ASSUME pc[u] \in {"fvirt", "ftlb", "fdir"}
        PROVE  /\ tab[u] = Pde(Cur(u))' /\ tab[u] # 0
               /\ pc[u] = "fdir" => TableEmpty(tab[u])'
               /\ pc[u] # "fdir" => ~Live(Cur(u))'
    <2>1. /\ tab[u] = Pde(Cur(u)) /\ tab[u] # 0 /\ SameTables
          /\ pc[u] = "fdir" => mem[tab[u]] = Zeroes
      BY <1>2, <1>6 DEF HeldBy, ClearedAt, TableEmpty
    <2>2. Cur(u) \in Vpns
      BY <1>2, <1>6, CurOwned DEF ClearedAt
    <2>3. PDX(Cur(u)) \in Entries
      BY <2>2, Place
    <2>4. mem'[0][PDX(Cur(u))] = mem[0][PDX(Cur(u))] /\ mem'[tab[u]] = mem[tab[u]]
      BY <2>1, <2>3 DEF SameTables, Pde
    <2> QED
      <3>1. pc[u] # "fdir" => ~Live(Cur(u))'
        <4> SUFFICES ASSUME pc[u] # "fdir" PROVE ~Live(Cur(u))'
          OBVIOUS
        <4> PICK c : c = Cur(u)
          OBVIOUS
        <4>1. ~Live(c) /\ c \in Vpns /\ ~Live(c)'
          BY <1>2, <1>6, <2>2 DEF HeldBy, ClearedAt
        <4> QED
          BY <1>1, <4>1 DEF Live
      <3> QED
        BY <1>1, <2>1, <2>4, <3>1 DEF Pde, TableEmpty
  <1>7. ASSUME pc[u] \in {"tab", "tabw", "new"} PROVE Pde(Cur(u))' = 0
    <2>1. Pde(Cur(u)) = 0 /\ SameTables
      BY <1>2, <1>7 DEF HeldBy
    <2>2. PDX(Cur(u)) \in Entries
      BY <1>2, <1>7, CurOwned, Place DEF AllocAt
    <2> QED
      BY <1>1, <2>1, <2>2 DEF SameTables, Pde
  <1> QED
    BY <1>1, <1>3, <1>4, <1>5, <1>6, <1>7 DEF HeldBy

\* A step that leaves page tables and pages alone.
LEMMA QuietStep ==
  ASSUME FrameInv, NEW t \in Threads, Work(t) \/ Call(t),
         SameTables, Placed(t)' = Placed(t),
         phys \subseteq phys' \/ (pc[t] = "fdirw" /\ phys' = phys \ {tab[t]}),
         HeldBy(t)', HeldApart'
  PROVE  /\ TablesOK' /\ LiveOK' /\ PagesOK' /\ HeldOK' /\ Kept
         /\ \A v : Live(v)' <=> Live(v)
  <1>1. \A v : Live(v)' <=> Live(v)
    BY LiveStep DEF FrameInv
  <1>2. \A f \in phys : f \in phys' \/ Unused(f)
    BY DEF FrameInv, HeldOK, HeldBy
  <1>3. TypeOK /\ TablesOK /\ LiveOK /\ PagesOK
    BY DEF FrameInv, IndInv
  <1>4. TablesOK' /\ LiveOK' /\ PagesOK'
    BY <1>1, <1>2, <1>3, QuietTables
  <1>5. \A v \in Vpns : Live(v) => Pde(v)' = Pde(v) /\ Pte(v)' = Pte(v)
    BY <1>3, SameMap, LivePage
  <1>6. Kept
    BY <1>5 DEF Kept
  <1>7. ASSUME NEW u \in Threads \ {t} PROVE HeldBy(u)'
    <2>1. Cur(u)' = Cur(u)
      BY PlacedOthers DEF FrameInv, IndInv
    <2>2. Live(Cur(u)) => Live(Cur(u))'
      <3>1. Live(Cur(u))' <=> (Cur(u)' \in MainPages \/ \E w \in Threads : Cur(u)' \in Placed(w)')
        BY DEF Live, MainPages
      <3>2. \A v : Live(v)' <=> (v \in MainPages \/ \E w \in Threads : v \in Placed(w)')
        BY DEF Live, MainPages
      <3> QED
        BY <1>1, <2>1, <3>1, <3>2
    <2>3. HasFrame(u) => Unused(frame[u])'
      <3> SUFFICES ASSUME HasFrame(u) PROVE Unused(frame[u])'
        OBVIOUS
      <3> DEFINE f == frame[u]
      <3>1. Unused(f) /\ (pc[t] = "fdirw" => f # tab[t]) /\ frame'[u] = frame[u]
        BY OthersKeep DEF FrameInv, HeldOK, HeldBy, HeldApart, IndInv
      <3>2. f \in phys'
        BY <3>1 DEF Unused
      <3>3. \A v \in Vpns : Live(v)' => Live(v) /\ Pte(v)' = Pte(v)
        BY <1>1, <1>5
      <3> HIDE DEF f
      <3>4. \A g : g = f => Unused(g)'
        BY <3>1, <3>2, <3>3, UnusedStays DEF SameTables
      <3> QED
        BY <3>1, <3>4 DEF f, Unused
    <2>4. pc[u] \in ClearedAt \cup {"tab", "tabw", "new"} => phys \subseteq phys'
      BY DEF FrameInv, LockOK, TableAt, ClearedAt
    <2> QED
      BY <1>1, <1>6, <2>2, <2>3, <2>4, HeldOthers
  <1>8. HeldOK'
    BY <1>7 DEF HeldOK
  <1> QED
    BY <1>1, <1>4, <1>6, <1>8

\* n_malloc before and after map_page, n_free's steps that leave the tables
\* alone, and the calls that change no memory.
LEMMA QuietActions ==
  ASSUME FrameInv, NEW t \in Threads, mem' = mem, phys \subseteq phys',
         \/ AllocPage(t) \/ AllocPageStore(t) \/ AllocTable(t) \/ AllocTableStore(t)
         \/ (MapPage(t) /\ pc'[t] = "tab") \/ MarkPhys(t) \/ MarkPhysStore(t)
         \/ MarkVirt(t) \/ MapTLB(t) \/ FreeLock(t) \/ FreeVirt(t) \/ FreeTLB(t)
         \/ (FreePage(t) /\ pc'[t] = "idle") \/ TLB_check(t) \/ Walk(t) \/ Refill(t)
         \/ Access(t) \/ Call(t)
  PROVE  /\ TablesOK' /\ LiveOK' /\ PagesOK' /\ HeldOK' /\ Kept
         /\ \A v : Live(v)' <=> Live(v)
  <1> USE DEF Goto, HasFrame, EnterAt
  <1>0. /\ pc \in [Threads -> PCs] /\ frame \in [Threads -> Frames]
        /\ tab \in [Threads -> Frames]
        /\ HeldBy(t) /\ TablesOK /\ PagesOK /\ IndInv /\ TypeOK
        /\ pc[t] = "allocw" => frame[t] \notin phys
        /\ pc[t] = "tabw" => tab[t] \notin phys
    BY DEF FrameInv, IndInv, TypeOK, HeldOK, ByteOK
  <1>1. SameTables
    BY DEF SameTables
  <1>2. Work(t) \/ Call(t)
    BY DEF Work
  <1>3. Placed(t)' = Placed(t)
    <2>1. CASE MapPage(t) /\ pc'[t] = "tab"
      BY <1>0, <2>1, PlacedMap
    <2>2. CASE FreePage(t) /\ pc'[t] = "idle"
      <3>1. idx[t] < num[t] => Mapped(Cur(t)) /\ Pte(Cur(t)) \in Frames
        BY <2>2, FreesMapped DEF FrameInv, FreePage
      <3>2. idx[t] \in Nat /\ num[t] \in Nat
        BY <1>0 DEF TypeOK
      <3> QED
        BY <1>0, <2>2, <3>1, <3>2, PlacedFree
    <2>3. pc'[t] # "fault"
      BY <1>2, NoFault
    <2> QED
      BY <1>0, <2>1, <2>2, <2>3, PlacedSame
  <1>4. \A v : Live(v)' <=> Live(v)
    BY <1>2, <1>3, LiveStep DEF FrameInv
  <1>5. /\ \A v : Pte(v)' = Pte(v) /\ Pde(v)' = Pde(v)
        /\ \A g : TableEmpty(g)' <=> TableEmpty(g)
    BY DEF Pte, Pde, TableEmpty
  <1>6. \A g : Unused(g)' <=> /\ g \in phys' \ {0}
                              /\ \A d \in Entries : mem[0][d] # g
                              /\ \A v \in Vpns : Live(v) => Pte(v) # g
    BY <1>4, <1>5 DEF Unused
  <1>7. \A g : g \in phys' /\ (Unused(g) \/ g \notin phys) => Unused(g)'
    BY <1>0, <1>6, ClearIsUnused DEF Unused
  <1>8. /\ HeldBy(t)'
        /\ HasFrame(t)' => frame'[t] = frame[t] /\ (HasFrame(t) \/ frame[t] \notin phys)
        /\ pc'[t] = "new" => HasFrame(t)
        /\ pc'[t] \in {"new", "fdirw"} => tab'[t] = tab[t] /\ tab[t] \notin phys
    <2>1. Unused(frame[t]) /\ frame'[t] = frame[t] => Unused(frame[t])'
      BY <1>7 DEF Unused
    <2>2. CASE \/ AllocPage(t) \/ AllocTable(t) \/ (MapPage(t) /\ pc'[t] = "tab")
      <3>1. /\ pc'[t] \in {"allocw", "tabw", "tab", "free", "held"}
            /\ HasFrame(t)' => HasFrame(t) /\ frame'[t] = frame[t]
            /\ pc'[t] \in {"tab", "tabw"} =>
                 base' = base /\ idx' = idx /\ (pc[t] = "tab" \/ Pde(Cur(t)) = 0)
        BY <1>0, <2>2 DEF AllocPage, AllocTable, MapPage, GiveUp, alcvars, regvars
      <3>2. pc'[t] \in {"tab", "tabw"} => Pde(Cur(t))' = 0
        BY <1>0, <3>1 DEF HeldBy, Pde, Cur
      <3> QED
        BY <1>0, <2>1, <3>1, <3>2 DEF HeldBy
    <2>3. CASE AllocPageStore(t)
      <3>1. /\ pc'[t] = "map" /\ frame' = frame /\ pc[t] = "allocw" /\ frame[t] \in phys'
        BY <1>0, <1>2, <2>3, PhysStep DEF AllocPageStore, Marks
      <3>2. Unused(frame[t])'
        BY <1>0, <1>7, <3>1 DEF Unused
      <3> QED
        BY <1>0, <3>1, <3>2 DEF HeldBy
    <2>4. CASE AllocTableStore(t)
      <3>1. /\ pc'[t] = "new" /\ frame' = frame /\ tab' = tab /\ pc[t] = "tabw" /\ tab[t] \in phys'
            /\ base' = base /\ idx' = idx
        BY <1>0, <1>2, <2>4, PhysStep DEF AllocTableStore, Marks, regvars
      <3>2. Unused(tab[t])' /\ Unused(frame[t])'
        BY <1>0, <1>7, <2>1, <3>1 DEF Unused, HeldBy
      <3>3. Pde(Cur(t))' = 0
        BY <1>0, <3>1 DEF HeldBy, Pde, Cur
      <3> QED
        BY <1>0, <3>1, <3>2, <3>3 DEF HeldBy
    <2>5. CASE MarkPhys(t) \/ MarkPhysStore(t) \/ MarkVirt(t)
      <3>1. /\ pc'[t] \in EnterAt /\ pc[t] \in EnterAt /\ frame' = frame
            /\ idx' = idx /\ base' = base
        BY <1>0, <2>5 DEF MarkPhys, MarkPhysStore, MarkVirt, regvars, alcvars
      <3>2. Cur(t)' = Cur(t)
        BY <3>1 DEF Cur
      <3>3. Pte(Cur(t))' = frame[t]
        BY <1>0, <3>1, <3>2 DEF HeldBy, Pte, Pde
      <3> QED
        BY <1>0, <3>1, <3>3 DEF HeldBy
    <2>6. CASE MapTLB(t) \/ FreeLock(t) \/ (FreePage(t) /\ pc'[t] = "idle")
      BY <1>0, <2>6 DEF MapTLB, FreeLock, HeldBy
    <2>7. CASE FreeVirt(t) \/ FreeTLB(t)
      <3>1. \/ pc'[t] = "fpage"
            \/ /\ pc'[t] \in {"ftlb", "fdir"} /\ pc[t] \in {"fvirt", "ftlb"} /\ tab' = tab
               /\ idx' = idx /\ base' = base /\ (pc'[t] = "fdir" => TableEmpty(tab[t]))
        BY <1>0, <2>7 DEF FreeVirt, FreeTLB, regvars, alcvars
      <3>2. CASE pc'[t] = "fpage"
        BY <3>2 DEF HeldBy
      <3>3. CASE pc'[t] # "fpage"
        <4>1. Cur(t)' = Cur(t) /\ tab' = tab
          BY <3>1, <3>3 DEF Cur
        <4>2. /\ tab'[t] = Pde(Cur(t))' /\ tab'[t] # 0
              /\ pc'[t] = "fdir" => TableEmpty(tab[t])'
          BY <1>0, <3>1, <3>3, <4>1 DEF HeldBy, Pde, TableEmpty
        <4>3. pc'[t] = "ftlb" => ~Live(Cur(t))'
          <5> SUFFICES ASSUME pc'[t] = "ftlb" PROVE ~Live(Cur(t))'
            OBVIOUS
          <5> PICK c : c = Cur(t)
            OBVIOUS
          <5>1. ~Live(c)'
            BY <1>0, <1>4, <3>1, <3>3 DEF HeldBy
          <5> QED
            BY <4>1, <5>1 DEF Live
        <4> QED
          BY <3>1, <3>3, <4>2, <4>3 DEF HeldBy
      <3> QED
        BY <3>2, <3>3
    <2>8. CASE TLB_check(t) \/ Walk(t) \/ Refill(t) \/ Access(t)
      <3>1. pc'[t] \in Rest \cup DataAt \cup {"fault"}
        BY <1>0, <2>8 DEF TLB_check, Walk, Refill, Access, Return, Rest, DataAt
      <3> QED
        BY <3>1 DEF HeldBy, Rest, DataAt
    <2>9. CASE Call(t)
      <3>1. pc'[t] \in Rest \cup DataAt \cup {"alloc", "free"}
        BY <1>0, <2>9 DEF Call, n_malloc, n_free, put_data, get_data, Rest, DataAt
      <3> QED
        BY <3>1 DEF HeldBy, Rest, DataAt
    <2> QED
      BY <2>2, <2>3, <2>4, <2>5, <2>6, <2>7, <2>8, <2>9
  <1>9. HeldApart'
    BY <1>2, <1>8, ApartStep
  <1> QED
    BY <1>1, <1>2, <1>3, <1>8, <1>9, QuietStep

\* put_data writes a data frame, never a table.
LEMMA WriteStep ==
  ASSUME FrameInv, NEW t \in Threads, Access(t)
  PROVE  /\ TablesOK' /\ LiveOK' /\ PagesOK' /\ HeldOK' /\ Kept
         /\ \A v : Live(v)' <=> Live(v)
  <1>0. /\ IndInv /\ TypeOK /\ TablesOK /\ PagesOK /\ LiveOK /\ pc[t] = "access"
        /\ pc'[t] # "fault" /\ pc \in [Threads -> PCs] /\ phys' = phys
    BY NoFault DEF FrameInv, IndInv, TypeOK, Access, Work
  <1>1. At(t) \in Vpns /\ Live(At(t)) /\ Deref(ptr[t]) = Pte(At(t))
    BY <1>0, TargetPage, DerefIs DEF FrameInv
  <1>2. \A d \in Entries : mem[0][d] # Pte(At(t))
    BY <1>0, <1>1 DEF PagesOK
  <1>3. Pte(At(t)) # 0 /\ Pte(At(t)) \in Frames
    BY <1>0, <1>1, LivePage
  <1>4. \A g \in Frames : g # Pte(At(t)) => mem'[g] = mem[g]
    BY <1>0, <1>1, <1>3 DEF Access, TypeOK
  <1>5. SameTables
    BY <1>0, <1>2, <1>3, <1>4, ConstantTypes DEF SameTables, TablesOK
  <1>6. Placed(t)' = Placed(t)
    BY <1>0, PlacedSame
  <1>7. pc'[t] = "check"
    BY <1>0, <1>1, <1>3 DEF Access, Goto
  <1>8. HeldBy(t)'
    BY <1>7 DEF HeldBy, HasFrame, EnterAt
  <1>9. HeldApart'
    BY <1>7, ApartStep DEF HasFrame, Work
  <1> QED
    BY <1>0, <1>5, <1>6, <1>8, <1>9, QuietStep DEF Work

\* n_free clears a frame that was a page table and is unused now.
LEMMA FreeTableStoreStep ==
  ASSUME FrameInv, NEW t \in Threads, FreeTableStore(t)
  PROVE  /\ TablesOK' /\ LiveOK' /\ PagesOK' /\ HeldOK' /\ Kept
         /\ \A v : Live(v)' <=> Live(v)
  <1>0. /\ IndInv /\ TypeOK /\ TablesOK /\ PagesOK /\ LiveOK /\ pc[t] = "fdirw"
        /\ pc \in [Threads -> PCs] /\ phys' = phys \ {tab[t]} /\ tab[t] \in Frames
        /\ Unused(tab[t])
    BY PhysStep DEF FrameInv, IndInv, TypeOK, FreeTableStore, Work, HeldOK, HeldBy
  <1>1. \A g \in Frames : g # tab[t] => mem'[g] = mem[g]
    BY <1>0 DEF FreeTableStore, TypeOK
  <1>2. SameTables
    BY <1>0, <1>1, ConstantTypes DEF SameTables, TablesOK, Unused
  <1>3. Placed(t)' = Placed(t)
    BY <1>0, PlacedSame
  <1>4. pc'[t] = "fpage"
    BY <1>0 DEF FreeTableStore, Goto
  <1>5. HeldBy(t)'
    BY <1>4 DEF HeldBy, HasFrame, EnterAt
  <1>6. HeldApart'
    BY <1>4, ApartStep DEF HasFrame, Work
  <1> QED
    BY <1>0, <1>2, <1>3, <1>5, <1>6, QuietStep DEF Work

\* map_page: the page is not in the tables yet.
LEMMA NotLiveYet ==
  ASSUME FrameInv, NEW t \in Threads, pc[t] \in {"map", "new"}
  PROVE  Cur(t) \in Vpns /\ ~Live(Cur(t)) /\ Unused(frame[t])
  <1>1. Cur(t) \in Vpns /\ Cur(t) \in Owned(t) /\ Cur(t) \notin Placed(t)
    BY CurOwned DEF FrameInv, AllocAt
  <1>2. ~Live(Cur(t))
    BY <1>1, PlacedApart DEF FrameInv, Live
  <1> QED
    BY <1>1, <1>2 DEF FrameInv, HeldOK, HeldBy, HasFrame

\* The other threads when t enters a page under page_table_lock.
LEMMA EnterOthers ==
  ASSUME FrameInv, NEW t \in Threads, MapPage(t) \/ MapNew(t), NEW c,
         NEW u \in Threads \ {t}, ptlock \in {NULL, t}, phys' = phys,
         \A v : Live(v)' <=> (Live(v) \/ v = c), Kept, Pte(c)' = frame[t], HasFrame(t),
         c \in Vpns, ~Live(c),
         \A d \in Entries : \/ mem'[0][d] = mem[0][d]
                            \/ pc[t] = "new" /\ mem'[0][d] = tab[t]
  PROVE  HeldBy(u)'
  <1>1. pc[u] \notin ClearedAt \cup {"tab", "tabw", "new"}
    BY VMemAssumption DEF FrameInv, LockOK, TableAt
  <1>2. Cur(u)' = Cur(u) /\ frame'[u] = frame[u]
    BY PlacedOthers, OthersKeep DEF FrameInv, IndInv, Work
  <1>3. Live(Cur(u)) => Live(Cur(u))'
    <2>1. Live(Cur(u))' <=> (Cur(u)' \in MainPages \/ \E w \in Threads : Cur(u)' \in Placed(w)')
      BY DEF Live, MainPages
    <2>2. \A v : Live(v)' <=> (v \in MainPages \/ \E w \in Threads : v \in Placed(w)')
      BY DEF Live, MainPages
    <2> QED
      BY <1>2, <2>1, <2>2
  <1>4. HasFrame(u) => Unused(frame[u])'
    <2> SUFFICES ASSUME HasFrame(u) PROVE Unused(frame[u])'
      OBVIOUS
    <2> DEFINE f == frame[u]
    <2>1. Unused(f) /\ f # frame[t] /\ (pc[t] = "new" => f # tab[t])
      BY DEF FrameInv, HeldOK, HeldBy, HeldApart
    <2>2. /\ f \in phys'
          /\ \A d \in Entries : mem'[0][d] = mem[0][d] \/ mem'[0][d] # f
          /\ \A v \in Vpns : Live(v)' => (Live(v) /\ Pte(v)' = Pte(v)) \/ Pte(v)' # f
      <3>1. f \in phys' /\ \A d \in Entries : mem'[0][d] = mem[0][d] \/ mem'[0][d] # f
        BY <2>1 DEF Unused
      <3>2. ASSUME NEW v \in Vpns, Live(v)'
            PROVE  (Live(v) /\ Pte(v)' = Pte(v)) \/ Pte(v)' # f
        <4>1. CASE v = c
          BY <2>1, <4>1 DEF Pte, Pde
        <4>2. CASE v # c
          BY <3>2, <4>2 DEF Kept
        <4> QED
          BY <4>1, <4>2
      <3> QED
        BY <3>1, <3>2
    <2> HIDE DEF f
    <2>3. \A g : g = f => Unused(g)'
      BY <2>1, <2>2, UnusedStays
    <2> QED
      BY <1>2, <2>3 DEF f, Unused
  <1> QED
    BY <1>1, <1>3, <1>4, HeldOthers DEF Work

\* map_page enters a page, in an existing or in a new page table.
LEMMA EnterStep ==
  ASSUME FrameInv, NEW t \in Threads, MapPage(t) \/ MapNew(t), pc'[t] = "pbit"
  PROVE  /\ TablesOK' /\ LiveOK' /\ PagesOK' /\ HeldOK' /\ Kept
         /\ \A v : Live(v)' <=> (Live(v) \/ v = Cur(t))
         /\ Cur(t) \in Vpns /\ ~Live(Cur(t))
  <1> PICK c : c = Cur(t)
    OBVIOUS
  <1>0. /\ IndInv /\ TypeOK /\ TablesOK /\ PagesOK /\ LiveOK
        /\ pc \in [Threads -> PCs] /\ HasFrame(t) /\ NULL \notin Threads
        /\ pc[t] \in {"map", "new"} /\ phys' = phys /\ frame' = frame
    BY VMemAssumption DEF FrameInv, IndInv, TypeOK, MapPage, MapNew, HasFrame, alcvars
  <1>1. c \in Vpns /\ ~Live(c) /\ Unused(frame[t])
    BY <1>0, NotLiveYet
  <1>2. Placed(t)' = Placed(t) \cup {c} /\ Cur(t)' = Cur(t)
    BY <1>0, PlacedMap
  <1>3. \A v : Live(v)' <=> (Live(v) \/ v = c)
    BY <1>0, <1>2, LiveStep DEF FrameInv, Work
  <1>4. /\ TablesOK' /\ LiveOK' /\ PagesOK' /\ Pte(c)' = frame[t]
        /\ \A v \in Vpns : Live(v) => Pde(v)' = Pde(v) /\ Pte(v)' = Pte(v)
        /\ \A d \in Entries : \/ mem'[0][d] = mem[0][d]
                              \/ pc[t] = "new" /\ mem'[0][d] = tab[t]
        /\ ptlock \in {NULL, t}
    <2>1. CASE MapPage(t)
      <3>1. /\ Pde(c) # 0 /\ mem' = [mem EXCEPT ![Pde(c)][PTX(c)] = frame[t]]
            /\ ptlock = NULL
        BY <1>0, <2>1 DEF MapPage, Goto
      <3> QED
        BY <1>0, <1>1, <1>3, <3>1, EnterPage
    <2>2. CASE MapNew(t)
      <3>0. pc[t] = "new" /\ ptlock = t /\ tab[t] # frame[t] /\ Unused(tab[t])
        BY <1>0, <2>2 DEF MapNew, FrameInv, LockOK, TableAt, HeldOK, HeldApart, HeldBy
      <3>1. mem' = [mem EXCEPT ![tab[t]] = [Zeroes EXCEPT ![PTX(c)] = frame[t]],
                               ![0][PDX(c)] = tab[t]]
        BY <2>2 DEF MapNew
      <3>2. Pde(c) = 0
        BY <3>0 DEF FrameInv, HeldOK, HeldBy
      <3> QED
        BY <1>0, <1>1, <1>3, <3>0, <3>1, <3>2, EnterTable
    <2> QED
      BY <2>1, <2>2
  <1>5. Kept
    BY <1>4 DEF Kept
  <1>6. HeldBy(t)'
    <2>1. Pte(Cur(t))' = frame[t]
      BY <1>2, <1>4 DEF Pte, Pde
    <2> QED
      BY <1>0, <2>1 DEF HeldBy, HasFrame, EnterAt
  <1>7. HeldApart'
    BY ApartStep DEF HasFrame, Work
  <1>8. ASSUME NEW u \in Threads \ {t} PROVE HeldBy(u)'
    BY <1>0, <1>1, <1>3, <1>4, <1>5, EnterOthers
  <1> QED
    BY <1>1, <1>3, <1>4, <1>5, <1>6, <1>7, <1>8 DEF HeldOK

\* n_free clears the entry of its current page.
LEMMA ClearStep ==
  ASSUME FrameInv, NEW t \in Threads, FreePage(t), pc'[t] = "fvirt"
  PROVE  /\ TablesOK' /\ LiveOK' /\ PagesOK' /\ HeldOK' /\ Kept
         /\ \A v : Live(v)' <=> (Live(v) /\ v # Cur(t))
         /\ Cur(t) \in Owned(t) /\ Cur(t)' = Cur(t) /\ ptlock = t
  <1> PICK c : c = Cur(t)
    OBVIOUS
  <1>0. /\ IndInv /\ TypeOK /\ TablesOK /\ PagesOK /\ LiveOK
        /\ pc \in [Threads -> PCs] /\ pc[t] = "fpage" /\ ptlock = t
        /\ idx[t] \in Nat /\ num[t] \in Nat /\ tab \in [Threads -> Frames]
    BY DEF FrameInv, IndInv, TypeOK, FreePage, LockOK, TableAt
  <1>1. idx[t] < num[t] => Mapped(Cur(t)) /\ Pte(Cur(t)) \in Frames
    BY <1>0, FreesMapped
  <1>2. /\ idx[t] < num[t] /\ Placed(t)' = Placed(t) \ {c} /\ Cur(t)' = c
    BY <1>0, <1>1, PlacedFree
  <1>3. c \in Owned(t) /\ c \in Vpns /\ Live(c) /\ Pde(c) \in Frames \ {0}
    BY <1>0, <1>2, FreesMapped
  <1>4. \A v : Live(v)' <=> (Live(v) /\ v # c)
    BY <1>0, <1>2, <1>3, LiveStep DEF FrameInv, Work
  <1>5. /\ phys' = phys \ {Pte(c)} /\ mem' = [mem EXCEPT ![Pde(c)][PTX(c)] = 0]
        /\ tab' = [tab EXCEPT ![t] = Pde(c)]
    BY <1>0, <1>1, <1>2 DEF FreePage
  <1>6. /\ TablesOK' /\ LiveOK' /\ PagesOK'
        /\ \A v \in Vpns : Pde(v)' = Pde(v)
        /\ \A v \in Vpns : Live(v) /\ v # c => Pte(v)' = Pte(v)
        /\ \A d \in Entries : mem'[0][d] = mem[0][d]
    BY <1>0, <1>3, <1>4, <1>5, ClearPage
  <1>7. Kept
    BY <1>4, <1>6 DEF Kept
  <1>8. HeldBy(t)'
    <2>1. tab'[t] = Pde(Cur(t))' /\ tab'[t] # 0
      BY <1>0, <1>2, <1>3, <1>5, <1>6 DEF Pde
    <2>2. ~Live(Cur(t))'
      <3>1. ~Live(c)'
        BY <1>4
      <3> QED
        BY <1>2, <3>1 DEF Live
    <2> QED
      BY <2>1, <2>2 DEF HeldBy, HasFrame, EnterAt
  <1>9. HeldApart'
    BY ApartStep DEF HasFrame, Work
  <1>10. ASSUME NEW u \in Threads \ {t} PROVE HeldBy(u)'
    <2>1. pc[u] \notin ClearedAt \cup {"tab", "tabw", "new"}
      BY <1>0 DEF FrameInv, LockOK, TableAt
    <2>2. Cur(u)' = Cur(u) /\ frame'[u] = frame[u] /\ Placed(u)' = Placed(u)
          /\ pc'[u] = pc[u]
      BY PlacedOthers, OthersKeep, OthersStay DEF FrameInv, IndInv, Work
    <2>3. HasFrame(u) => Unused(frame[u])'
      <3> SUFFICES ASSUME HasFrame(u) PROVE Unused(frame[u])'
        OBVIOUS
      <3> PICK f : f = frame[u]
        OBVIOUS
      <3>1. Unused(f)
        BY DEF FrameInv, HeldOK, HeldBy
      <3>2. f \in phys'
        BY <1>3, <1>5, <3>1 DEF Unused
      <3>3. \A v \in Vpns : Live(v)' => Live(v) /\ Pte(v)' = Pte(v)
        BY <1>4, <1>6
      <3>4. Unused(f)'
        BY <1>6, <3>1, <3>2, <3>3, UnusedStays
      <3> QED
        BY <2>2, <3>4 DEF Unused
    <2>4. CASE pc[u] \in EnterAt
      <3>1. Cur(u) \in Placed(u)
        BY <1>0, <2>4, CurOwned
      <3>2. Live(Cur(u))'
        BY <2>2, <3>1 DEF Live
      <3> QED
        BY <1>7, <2>1, <2>3, <3>2, HeldOthers DEF Work
    <2>5. CASE pc[u] \notin EnterAt
      BY <2>1, <2>2, <2>3, <2>5 DEF HeldBy, ClearedAt, HasFrame
    <2> QED
      BY <2>4, <2>5
  <1> QED
    BY <1>0, <1>2, <1>3, <1>4, <1>6, <1>7, <1>8, <1>9, <1>10 DEF HeldOK

\* n_free takes an empty page table out of the directory.
LEMMA DropStep ==
  ASSUME FrameInv, NEW t \in Threads, FreeTable(t)
  PROVE  /\ TablesOK' /\ LiveOK' /\ PagesOK' /\ HeldOK' /\ Kept
         /\ \A v : Live(v)' <=> Live(v)
  <1> PICK c : c = Cur(t)
    OBVIOUS
  <1>0. /\ IndInv /\ TypeOK /\ TablesOK /\ PagesOK /\ LiveOK
        /\ pc \in [Threads -> PCs] /\ pc[t] = "fdir" /\ pc'[t] = "fdirw"
        /\ ptlock = t /\ phys' = phys /\ tab' = tab
        /\ mem' = [mem EXCEPT ![0][PDX(c)] = 0]
    BY DEF FrameInv, IndInv, TypeOK, FreeTable, LockOK, TableAt, ClearedAt, Goto
  <1>1. tab[t] = Pde(c) /\ tab[t] # 0 /\ TableEmpty(Pde(c)) /\ c \in Vpns
    BY <1>0, CurOwned DEF FrameInv, HeldOK, HeldBy, ClearedAt
  <1>2. Placed(t)' = Placed(t)
    BY <1>0, PlacedSame
  <1>3. \A v : Live(v)' <=> Live(v)
    BY <1>0, <1>2, LiveStep DEF FrameInv, Work
  <1>4. /\ TablesOK' /\ LiveOK' /\ PagesOK'
        /\ \A v \in Vpns : Live(v) => Pde(v)' = Pde(v) /\ Pte(v)' = Pte(v)
        /\ \A d \in Entries : mem'[0][d] = 0 \/ mem'[0][d] = mem[0][d]
        /\ \A d \in Entries : mem'[0][d] # Pde(c)
        /\ \A v \in Vpns : Live(v) => Pte(v) # Pde(c)
        /\ Pde(c) \in phys
    BY <1>0, <1>1, <1>3, DropTable
  <1>5. Kept
    BY <1>4 DEF Kept
  <1>6. HeldBy(t)'
    <2> PICK h : h = Pde(c)
      OBVIOUS
    <2>1. \A v \in Vpns : Live(v)' => Pte(v)' # h
      BY <1>3, <1>4
    <2>2. Unused(h)'
      BY <1>0, <1>1, <1>4, <2>1 DEF Unused
    <2> QED
      BY <1>0, <1>1, <2>2 DEF HeldBy, HasFrame, EnterAt, Unused
  <1>7. HeldApart'
    <2>1. \E d \in Entries : mem[0][d] = tab[t]
      BY <1>1, Place DEF Pde
    <2> QED
      BY <1>0, <2>1, ApartStep DEF HasFrame, Work
  <1>8. ASSUME NEW u \in Threads \ {t} PROVE HeldBy(u)'
    <2>1. pc[u] \notin ClearedAt \cup {"tab", "tabw", "new"}
      BY <1>0 DEF FrameInv, LockOK, TableAt
    <2>2. Cur(u)' = Cur(u) /\ frame'[u] = frame[u] /\ Placed(u)' = Placed(u)
          /\ pc'[u] = pc[u]
      BY PlacedOthers, OthersKeep, OthersStay DEF FrameInv, IndInv, Work
    <2>3. HasFrame(u) => Unused(frame[u])'
      <3> SUFFICES ASSUME HasFrame(u) PROVE Unused(frame[u])'
        OBVIOUS
      <3> PICK f : f = frame[u]
        OBVIOUS
      <3>1. Unused(f)
        BY DEF FrameInv, HeldOK, HeldBy
      <3>2. f \in phys' /\ f # 0
        BY <1>0, <3>1 DEF Unused
      <3>3. \A v \in Vpns : Live(v)' => Live(v) /\ Pte(v)' = Pte(v)
        BY <1>3, <1>4
      <3>4. Unused(f)'
        BY <1>4, <3>1, <3>2, <3>3, UnusedStays
      <3> QED
        BY <2>2, <3>4 DEF Unused
    <2>4. CASE pc[u] \in EnterAt
      <3>1. Cur(u) \in Placed(u)
        BY <1>0, <2>4, CurOwned
      <3>2. Live(Cur(u))'
        BY <2>2, <3>1 DEF Live
      <3> QED
        BY <1>5, <2>1, <2>3, <3>2, HeldOthers DEF Work
    <2>5. CASE pc[u] \notin EnterAt
      BY <2>1, <2>2, <2>3, <2>5 DEF HeldBy, ClearedAt, HasFrame
    <2> QED
      BY <2>4, <2>5
  <1> QED
    BY <1>3, <1>4, <1>5, <1>6, <1>7, <1>8 DEF HeldOK

\* The memory part of the invariant, for every action.
LEMMA MemStep ==
  ASSUME FrameInv, NEW t \in Threads, Work(t) \/ Call(t)
  PROVE  /\ TablesOK' /\ LiveOK' /\ PagesOK' /\ HeldOK' /\ Kept
         /\ \A v : Live(v)' => Live(v) \/ (pc'[t] = "pbit" /\ v = Cur(t) /\ ~Live(v))
         /\ \A v : Live(v) => Live(v)' \/ (FreePage(t) /\ pc'[t] = "fvirt" /\ v = Cur(t)
                                           /\ v = Cur(t)' /\ v \in Owned(t))
  <1>0. pc \in [Threads -> PCs]
    BY DEF FrameInv, IndInv, TypeOK
  <1>1. CASE MapPage(t) \/ MapNew(t)
    <2>1. CASE pc'[t] = "pbit"
      BY <1>1, <2>1, EnterStep
    <2>2. CASE pc'[t] # "pbit"
      <3>1. MapPage(t) /\ mem' = mem /\ phys' = phys /\ pc'[t] = "tab"
        BY <1>0, <1>1, <2>2 DEF MapPage, MapNew, Goto
      <3> QED
        BY <3>1, QuietActions
    <2> QED
      BY <2>1, <2>2
  <1>2. CASE FreePage(t)
    <2>1. CASE pc'[t] = "fvirt"
      BY <1>2, <2>1, ClearStep
    <2>2. CASE pc'[t] # "fvirt"
      <3>1. idx[t] < num[t] => Mapped(Cur(t)) /\ Pte(Cur(t)) \in Frames
        BY <1>2, FreesMapped DEF FrameInv, FreePage
      <3>2. idx[t] \in Nat /\ num[t] \in Nat
        BY DEF FrameInv, IndInv, TypeOK
      <3>3. idx[t] = num[t] /\ pc'[t] = "idle"
        BY <1>2, <2>2, <3>1, <3>2, PlacedFree DEF FrameInv
      <3>4. mem' = mem /\ phys' = phys
        BY <1>0, <1>2, <3>2, <3>3 DEF FreePage, Goto
      <3> QED
        BY <1>2, <3>3, <3>4, QuietActions
    <2> QED
      BY <2>1, <2>2
  <1>3. CASE FreeTable(t) \/ FreeTableStore(t) \/ Access(t)
    BY <1>3, DropStep, FreeTableStoreStep, WriteStep
  <1>4. CASE \/ AllocPage(t) \/ AllocPageStore(t) \/ AllocTable(t) \/ AllocTableStore(t)
             \/ MarkPhys(t) \/ MarkPhysStore(t) \/ MarkVirt(t) \/ MapTLB(t)
             \/ FreeLock(t) \/ FreeVirt(t) \/ FreeTLB(t) \/ TLB_check(t) \/ Walk(t)
             \/ Refill(t) \/ Call(t)
    <2>1. mem' = mem
      BY <1>4 DEF AllocPage, AllocPageStore, AllocTable, AllocTableStore, MarkPhys,
         MarkPhysStore, MarkVirt, MapTLB, FreeLock, FreeVirt, FreeTLB, TLB_check, Walk,
         Refill, Call, n_malloc, n_free, put_data, get_data, vmvars
    <2>2. ~FreePage(t) /\ ~FreeTableStore(t)
      <3>1. CASE Call(t)
        BY <3>1 DEF Call, n_malloc, n_free, put_data, get_data, FreePage, FreeTableStore
      <3> QED
        BY <1>4, <3>1 DEF AllocPage, AllocPageStore, AllocTable, AllocTableStore, MarkPhys,
           MarkPhysStore, MarkVirt, MapTLB, FreeLock, FreeVirt, FreeTLB, TLB_check, Walk,
           Refill, FreePage, FreeTableStore
    <2>3. phys \subseteq phys'
      BY <2>2, PhysStep DEF Marks
    <2> QED
      BY <1>4, <2>1, <2>3, QuietActions
  <1> QED
    BY <1>1, <1>2, <1>3, <1>4 DEF Work

-----------------------------------------------------------------------------
(***************************************************************************)
(* The TLB                                                                 *)
(***************************************************************************)
\* TLB_add touches at most one slot and makes it a valid slot for v.
LEMMA AddSlot ==
  ASSUME TypeOK, NEW v, NEW e, TLB_add(v, e), NEW i \in Slots
  PROVE  tlb'[i] = tlb[i] \/ (tlb'[i].valid /\ tlb'[i].vpn = v /\ tlb'[i].pte = e)
  <1>0. tlb[i] \in [valid : BOOLEAN, vpn : Nat, pte : Words]
    BY DEF TypeOK
  <1>1. ASSUME NEW j \in Slots, Hit(j, v), tlb' = [tlb EXCEPT ![j].pte = e]
        PROVE  tlb'[i] = tlb[i] \/ (tlb'[i].valid /\ tlb'[i].vpn = v /\ tlb'[i].pte = e)
    BY <1>0, <1>1 DEF Hit, TypeOK
  <1>2. ASSUME NEW j, tlb' = [tlb EXCEPT ![j] = [valid |-> TRUE, vpn |-> v, pte |-> e]]
        PROVE  tlb'[i] = tlb[i] \/ (tlb'[i].valid /\ tlb'[i].vpn = v /\ tlb'[i].pte = e)
    BY <1>0, <1>2 DEF TypeOK
  <1> QED
    BY <1>1, <1>2 DEF TLB_add, FirstHit

\* TLB_invalidate leaves no valid slot for v and changes nothing else.
LEMMA InvalidateSlot ==
  ASSUME TypeOK, TLBUnique, NEW v, TLB_invalidate(v), NEW i \in Slots
  PROVE  /\ tlb'[i].vpn = tlb[i].vpn /\ tlb'[i].pte = tlb[i].pte
         /\ tlb'[i].valid => tlb[i].valid /\ tlb[i].vpn # v
  <1>0. tlb[i] \in [valid : BOOLEAN, vpn : Nat, pte : Words]
    BY DEF TypeOK
  <1>1. CASE \A j \in Slots : ~Hit(j, v)
    BY <1>0, <1>1 DEF TLB_invalidate, FirstHit, Hit
  <1>2. ASSUME NEW j \in Slots, Hit(j, v), tlb' = [tlb EXCEPT ![j].valid = FALSE]
        PROVE  /\ tlb'[i].vpn = tlb[i].vpn /\ tlb'[i].pte = tlb[i].pte
               /\ tlb'[i].valid => tlb[i].valid /\ tlb[i].vpn # v
    <2>1. CASE i = j
      BY <1>0, <1>2, <2>1 DEF TypeOK
    <2>2. CASE i # j
      BY <1>0, <1>2, <2>2 DEF TypeOK, TLBUnique, Hit
    <2> QED
      BY <2>1, <2>2
  <1> QED
    BY <1>1, <1>2 DEF TLB_invalidate, FirstHit

\* What a step may do to a slot: leave its translation, or make it a correct
\* translation of a live page.
SlotMoves(i) ==
  \/ /\ tlb'[i].vpn = tlb[i].vpn /\ tlb'[i].pte = tlb[i].pte
     /\ tlb'[i].valid => tlb[i].valid
  \/ /\ tlb'[i].valid /\ tlb'[i].vpn \in Vpns /\ Live(tlb[i].vpn)'
     /\ tlb'[i].pte = Pte(tlb[i].vpn)'

\* map_page's TLB_add and translate's refill, both outside page_table_lock,
\* add the translation the page tables hold at that moment.
LEMMA SlotStep ==
  ASSUME FrameInv, NEW t \in Threads, Work(t) \/ Call(t), NEW i \in Slots
  PROVE  SlotMoves(i)
  <1>0. /\ IndInv /\ TypeOK /\ TLBUnique /\ PhaseOK /\ CallOK /\ HeldBy(t)
    BY DEF FrameInv, IndInv, HeldOK
  <1>1. ASSUME NEW v \in Vpns, NEW e, TLB_add(v, e), Live(v), e = Pte(v), mem' = mem,
               pc'[t] \notin {"fvirt", "pbit"}
        PROVE  SlotMoves(i)
    <2>1. Live(v)' /\ Pte(v)' = e
      BY <1>1, MemStep DEF Pte, Pde
    <2>2. CASE tlb'[i] = tlb[i]
      BY <2>2 DEF SlotMoves
    <2>3. CASE tlb'[i].valid /\ tlb'[i].vpn = v /\ tlb'[i].pte = e
      BY <2>1, <2>3 DEF SlotMoves, Live, Pte, Pde
    <2> QED
      BY <1>0, <1>1, <2>2, <2>3, AddSlot
  <1>2. CASE MapTLB(t)
    <2>1. /\ TLB_add(Cur(t), frame[t]) /\ mem' = mem /\ pc'[t] = "alloc" /\ pc[t] = "tadd"
      BY <1>0, <1>2 DEF MapTLB, TypeOK, Goto
    <2>2. Cur(t) \in Vpns /\ Live(Cur(t)) /\ frame[t] = Pte(Cur(t))
      BY <1>0, <2>1, CurOwned DEF EnterAt, Live, HeldBy
    <2> QED
      BY <1>1, <2>1, <2>2
  <1>3. CASE Refill(t)
    <2>1. /\ TLB_add(At(t), pte[t]) /\ mem' = mem /\ pc'[t] = "access" /\ pc[t] = "refill"
      BY <1>0, <1>3 DEF Refill, TypeOK, Goto
    <2>2. At(t) \in Vpns /\ Live(At(t)) /\ pte[t] = Pte(At(t))
      BY <1>0, <2>1, TargetPage DEF FrameInv, AccessOK
    <2> QED
      BY <1>1, <2>1, <2>2
  <1>4. CASE FreeTLB(t)
    BY <1>0, <1>4, InvalidateSlot DEF FreeTLB, SlotMoves
  <1>5. CASE \/ AllocPage(t) \/ AllocPageStore(t) \/ MapPage(t) \/ AllocTable(t)
             \/ AllocTableStore(t) \/ MapNew(t) \/ MarkPhys(t) \/ MarkPhysStore(t)
             \/ MarkVirt(t) \/ FreeLock(t) \/ FreePage(t) \/ FreeVirt(t)
             \/ FreeTable(t) \/ FreeTableStore(t) \/ TLB_check(t) \/ Walk(t)
             \/ Access(t) \/ Call(t)
    <2>1. tlb' = tlb
      BY <1>5 DEF AllocPage, AllocPageStore, MapPage, AllocTable, AllocTableStore,
         MapNew, MarkPhys, MarkPhysStore, MarkVirt, FreeLock, FreePage, FreeVirt,
         FreeTable, FreeTableStore, TLB_check, Walk, Access, Call, n_malloc, n_free,
         put_data, get_data, vmvars
    <2> QED
      BY <2>1 DEF SlotMoves
  <1> QED
    BY <1>2, <1>3, <1>4, <1>5 DEF Work

\* A page that stops being live does so in FreePage, and its slot is the one
\* n_free is about to invalidate.
LEMMA CoherentStep ==
  ASSUME FrameInv, NEW t \in Threads, Work(t) \/ Call(t)
  PROVE  SlotsOK'
  <1>0. /\ IndInv /\ TypeOK /\ TLBUnique /\ SlotsOK /\ pc \in [Threads -> PCs]
    BY DEF FrameInv, IndInv, TypeOK
  <1>1. SUFFICES ASSUME NEW i \in Slots, tlb'[i].valid
                 PROVE  /\ tlb'[i].vpn \in Vpns
                        /\ \/ Live(tlb[i].vpn)' /\ Pte(tlb[i].vpn)' = tlb'[i].pte
                           \/ \E u \in Threads : pc'[u] \in {"fvirt", "ftlb"} /\ Cur(u)' = tlb'[i].vpn
    BY DEF SlotsOK
  <1>2. SlotMoves(i)
    BY SlotStep
  <1>3. CASE tlb'[i].vpn \in Vpns /\ Live(tlb[i].vpn)' /\ tlb'[i].pte = Pte(tlb[i].vpn)'
    BY <1>3
  <1>4. CASE tlb'[i].vpn = tlb[i].vpn /\ tlb'[i].pte = tlb[i].pte /\ tlb[i].valid
    <2> PICK v : v = tlb[i].vpn
      OBVIOUS
    <2>1. /\ v \in Vpns
          /\ \/ Live(v) /\ Pte(v) = tlb[i].pte
             \/ \E u \in Threads : pc[u] \in {"fvirt", "ftlb"} /\ Cur(u) = v
      BY <1>0, <1>4 DEF SlotsOK
    <2>2. CASE Live(v) /\ Pte(v) = tlb[i].pte
      <3>1. CASE Live(v)'
        <4>1. Pte(v)' = Pte(v)
          BY <2>1, <2>2, <3>1, MemStep DEF Kept
        <4> QED
          BY <1>4, <2>1, <2>2, <3>1, <4>1 DEF Live, Pte, Pde
      <3>2. CASE ~Live(v)'
        <4>1. FreePage(t) /\ pc'[t] = "fvirt" /\ v = Cur(t)'
          BY <2>2, <3>2, MemStep
        <4> QED
          BY <1>4, <2>1, <4>1
      <3> QED
        BY <3>1, <3>2
    <2>3. ASSUME NEW u \in Threads, pc[u] \in {"fvirt", "ftlb"}, Cur(u) = v
          PROVE  \E w \in Threads : pc'[w] \in {"fvirt", "ftlb"} /\ Cur(w)' = tlb'[i].vpn
      <3>1. CASE u # t
        <4>1. pc'[u] = pc[u] /\ Cur(u)' = Cur(u)
          BY <1>0, <3>1, OthersStay, PlacedOthers
        <4> QED
          BY <1>4, <2>3, <4>1
      <3>2. CASE u = t /\ pc[t] = "fvirt"
        <4>1. FreeVirt(t)
          BY <3>2 DEF Work, Call, AllocPage, AllocPageStore, MapPage, AllocTable,
             AllocTableStore, MapNew, MarkPhys, MarkPhysStore, MarkVirt, MapTLB,
             FreeLock, FreePage, FreeTLB, FreeTable, FreeTableStore, TLB_check, Walk,
             Refill, Access, n_malloc, n_free, put_data, get_data
        <4>2. pc'[t] = "ftlb" /\ Cur(t)' = Cur(t)
          BY <1>0, <4>1 DEF FreeVirt, Goto, Cur, regvars
        <4> QED
          BY <1>4, <2>3, <3>2, <4>2
      <3>3. CASE u = t /\ pc[t] = "ftlb"
        <4>1. FreeTLB(t)
          BY <3>3 DEF Work, Call, AllocPage, AllocPageStore, MapPage, AllocTable,
             AllocTableStore, MapNew, MarkPhys, MarkPhysStore, MarkVirt, MapTLB,
             FreeLock, FreePage, FreeVirt, FreeTable, FreeTableStore, TLB_check, Walk,
             Refill, Access, n_malloc, n_free, put_data, get_data
        <4>2. tlb[i].vpn # Cur(t)
          BY <1>0, <1>1, <4>1, InvalidateSlot DEF FreeTLB
        <4> QED
          BY <2>3, <3>3, <4>2
      <3> QED
        BY <2>3, <3>1, <3>2, <3>3
    <2> QED
      BY <1>4, <2>1, <2>2, <2>3
  <1> QED
    BY <1>1, <1>2, <1>3, <1>4 DEF SlotMoves

-----------------------------------------------------------------------------
(***************************************************************************)
(* Pointers of the accesses in flight                                      *)
(***************************************************************************)
\* The page another thread's access is at stays live: only its owner can
\* free it, and the owner is either that thread or in the phase of use.
LEMMA AccessedStays ==
  ASSUME FrameInv, NEW t \in Threads, Work(t) \/ Call(t), NEW u \in Threads \ {t},
         \/ pc[u] \in {"walk", "refill", "access"}
         \/ pc[u] = "check" /\ idx[u] < num[tgt[u]]
  PROVE  /\ At(u)' = At(u) /\ At(u) \in Vpns /\ Live(At(u)) /\ (Live(At(u)))'
         /\ (Pde(At(u)))' = Pde(At(u)) /\ (Pte(At(u)))' = Pte(At(u))
  <1> PICK a : a = At(u)
    OBVIOUS
  <1>0. IndInv /\ PhaseOK /\ CallOK /\ MainOK /\ u \in Threads
    BY DEF FrameInv
  <1>1. /\ tgt[u] \in Threads /\ a \in Placed(tgt[u]) /\ a \in Vpns /\ Live(a)
    BY <1>0, TargetPage
  <1>2. At(u)' = a /\ (tgt[u] # u => phase = "use")
    BY <1>0, TargetStays DEF DataAt
  <1>3. Live(a)'
    <2> SUFFICES ASSUME ~Live(a)' PROVE FALSE
      OBVIOUS
    <2>1. FreePage(t) /\ a \in Owned(t)
      BY <1>1, MemStep
    <2>2. tgt[u] = t
      BY <1>0, <1>1, <2>1, PlacedApart
    <2>3. phase = "use" /\ pc[t] = "fpage"
      BY <1>2, <2>1, <2>2 DEF FreePage
    <2> QED
      BY <1>0, <2>3 DEF PhaseOK, Rest, DataAt
  <1>4. Pde(a)' = Pde(a) /\ Pte(a)' = Pte(a)
    BY <1>1, <1>3, MemStep DEF Kept
  <1> QED
    BY <1>1, <1>2, <1>3, <1>4 DEF Live, Pde, Pte

\* A pointer into a TLB slot keeps leading to its page unless the slot is
\* given to another page.
LEMMA PointerStays ==
  ASSUME FrameInv, NEW t \in Threads, Work(t) \/ Call(t), NEW p, NEW a,
         Leads(p, a), Pde(a)' = Pde(a), Pte(a)' = Pte(a),
         p.kind = "tlb" => tlb'[p.at].vpn = tlb[p.at].vpn
  PROVE  Leads(p, a)'
  <1>1. CASE p.kind = "pt" /\ p.at = Pde(a) /\ p.slot = PTX(a)
    BY <1>1 DEF Leads
  <1>2. CASE p.kind = "tlb" /\ p.at \in Slots /\ tlb[p.at].vpn = a /\ tlb[p.at].pte = Pte(a)
    <2>1. tlb'[p.at].vpn = a
      BY <1>2
    <2>2. SlotMoves(p.at)
      BY <1>2, SlotStep
    <2>3. CASE tlb'[p.at].pte = tlb[p.at].pte
      BY <1>2, <2>1, <2>3 DEF Leads
    <2>4. CASE tlb'[p.at].pte = Pte(tlb[p.at].vpn)'
      <3>1. Pte(tlb[p.at].vpn)' = Pte(a)'
        BY <2>1 DEF Pte, Pde
      <3> QED
        BY <1>2, <2>1, <2>4, <3>1 DEF Leads
    <2> QED
      BY <2>2, <2>3, <2>4 DEF SlotMoves
  <1> QED
    BY <1>1, <1>2 DEF Leads

\* The pointer translate() hands out leads to the frame of its page.
LEMMA AccessOwn ==
  ASSUME FrameInv, NEW t \in Threads, Work(t) \/ Call(t), NoRedirect
  PROVE  /\ pc'[t] \in {"refill", "access"} => Leads(ptr[t], At(t))'
         /\ pc'[t] = "refill" => pte'[t] = (Pte(At(t)))' /\ ptr'[t].kind = "pt"
  <1>0. /\ IndInv /\ TypeOK /\ PhaseOK /\ CallOK /\ SlotsOK /\ AccessOK /\ HeldOK
        /\ pc \in [Threads -> PCs] /\ ptr \in [Threads -> Ptrs]
        /\ pte \in [Threads -> Words]
    BY DEF FrameInv, IndInv, TypeOK
  <1>1. CASE TLB_check(t) /\ pc'[t] = "access"
    <2>1. PICK i \in Slots : FirstHit(i, At(t))
                             /\ ptr'[t] = [kind |-> "tlb", at |-> i, slot |-> 0]
      BY <1>0, <1>1 DEF TLB_check, Goto, Return
    <2>2. pc[t] = "check" /\ idx[t] < num[tgt[t]]
      BY <1>0, <1>1 DEF TLB_check, Goto, Return
    <2>3. Live(At(t))
      BY <1>0, <2>2, TargetPage
    <2>4. tlb[i].vpn = At(t) /\ tlb[i].valid
      BY <2>1 DEF FirstHit, Hit
    <2>5. ~\E u \in Threads : pc[u] \in {"fvirt", "ftlb"} /\ Cur(u) = tlb[i].vpn
      BY <1>0, <2>3, <2>4 DEF HeldOK, HeldBy
    <2>6. tlb[i].pte = Pte(At(t))
      BY <1>0, <2>4, <2>5 DEF SlotsOK
    <2>7. /\ mem' = mem /\ tlb' = tlb /\ base' = base /\ tgt' = tgt /\ idx' = idx
      BY <1>0, <1>1 DEF TLB_check, Goto, Return, vmvars, regvars
    <2>8. At(t)' = At(t) /\ (Pte(At(t)))' = Pte(At(t))
      BY <2>7 DEF At, Pte, Pde
    <2> QED
      BY <1>1, <2>1, <2>4, <2>6, <2>7, <2>8 DEF Leads
  <1>2. CASE Walk(t) /\ pc'[t] = "refill"
    <2>1. /\ ptr'[t] = [kind |-> "pt", at |-> Pde(At(t)), slot |-> PTX(At(t))]
          /\ pte'[t] = Pte(At(t))
          /\ mem' = mem /\ base' = base /\ tgt' = tgt /\ idx' = idx
      BY <1>0, <1>2 DEF Walk, Goto, Return, vmvars, regvars
    <2>2. /\ At(t)' = At(t) /\ (Pte(At(t)))' = Pte(At(t)) /\ (Pde(At(t)))' = Pde(At(t))
          /\ PTX(At(t))' = PTX(At(t))
      BY <2>1 DEF At, Pte, Pde, PTX
    <2> QED
      BY <1>2, <2>1, <2>2 DEF Leads
  <1>3. CASE Refill(t)
    <2>1. /\ ptr'[t] = ptr[t] /\ pc[t] = "refill" /\ pc'[t] = "access"
          /\ mem' = mem /\ base' = base /\ tgt' = tgt /\ idx' = idx
      BY <1>0, <1>3 DEF Refill, Goto, regvars
    <2>2. /\ At(t)' = At(t) /\ (Pte(At(t)))' = Pte(At(t)) /\ (Pde(At(t)))' = Pde(At(t))
          /\ PTX(At(t))' = PTX(At(t))
      BY <2>1 DEF At, Pte, Pde, PTX
    <2>3. ptr[t].kind = "pt" /\ Leads(ptr[t], At(t))
      BY <1>0, <2>1 DEF AccessOK
    <2> QED
      BY <2>1, <2>2, <2>3 DEF Leads
  <1>4. CASE \/ TLB_check(t) /\ pc'[t] # "access"
             \/ Walk(t) /\ pc'[t] # "refill"
             \/ Access(t)
    <2>1. pc'[t] \notin {"refill", "access"}
      BY <1>0, <1>4 DEF TLB_check, Walk, Access, Goto, Return
    <2> QED
      BY <2>1
  <1>5. CASE Call(t)
    <2>1. pc'[t] \notin {"refill", "access"}
      BY <1>0, <1>5 DEF Call, n_malloc, n_free, put_data, get_data, Goto
    <2> QED
      BY <2>1
  <1>6. CASE \/ AllocPage(t) \/ AllocPageStore(t) \/ MapPage(t) \/ AllocTable(t)
             \/ AllocTableStore(t) \/ MapNew(t) \/ MarkPhys(t) \/ MarkPhysStore(t)
             \/ MarkVirt(t) \/ MapTLB(t)
    <2>1. pc'[t] \notin {"refill", "access"}
      BY <1>0, <1>6 DEF AllocPage, AllocPageStore, MapPage, AllocTable,
         AllocTableStore, MapNew, MarkPhys, MarkPhysStore, MarkVirt, MapTLB, Goto, GiveUp
    <2> QED
      BY <2>1
  <1>7. CASE \/ FreeLock(t) \/ FreePage(t) \/ FreeVirt(t) \/ FreeTLB(t)
             \/ FreeTable(t) \/ FreeTableStore(t)
    <2>1. pc'[t] \notin {"refill", "access"}
      BY <1>0, <1>7 DEF FreeLock, FreePage, FreeVirt, FreeTLB, FreeTable,
         FreeTableStore, Goto
    <2> QED
      BY <2>1
  <1> QED
    BY <1>1, <1>2, <1>3, <1>4, <1>5, <1>6, <1>7 DEF Work

\* Every access in flight keeps its pointer to the right frame.
LEMMA AccessStep ==
  ASSUME FrameInv, NEW t \in Threads, Work(t) \/ Call(t), NoRedirect
  PROVE  AccessOK'
  <1> SUFFICES ASSUME NEW u \in Threads, pc'[u] \in {"refill", "access"}
               PROVE  /\ Leads(ptr[u], At(u))'
                      /\ pc'[u] = "refill" => pte'[u] = (Pte(At(u)))' /\ ptr'[u].kind = "pt"
    BY DEF AccessOK
  <1>1. CASE u = t
    BY <1>1, AccessOwn
  <1>2. CASE u # t
    <2> PICK a : a = At(u)
      OBVIOUS
    <2>1. /\ pc'[u] = pc[u] /\ ptr'[u] = ptr[u] /\ pte'[u] = pte[u]
      BY <1>2, OthersStay, OthersKeep DEF FrameInv, IndInv
    <2>2. /\ At(u)' = a /\ Pde(a)' = Pde(a) /\ Pte(a)' = Pte(a)
      BY <1>2, <2>1, AccessedStays DEF Pde, Pte
    <2>3. /\ Leads(ptr[u], a)
          /\ pc[u] = "refill" => pte[u] = Pte(a) /\ ptr[u].kind = "pt"
      BY <2>1 DEF FrameInv, AccessOK
    <2> PICK p : p = ptr[u]
      OBVIOUS
    <2>4. p.kind = "tlb" => tlb'[p.at].vpn = tlb[p.at].vpn
      BY <2>1, <2>3 DEF NoRedirect
    <2>5. Leads(p, a)'
      BY <2>2, <2>3, <2>4, PointerStays
    <2>6. (Pte(At(u)))' = Pte(a)'
      BY <2>2 DEF Pte, Pde
    <2> QED
      BY <2>1, <2>2, <2>3, <2>5, <2>6 DEF Leads, Pte, Pde
  <1> QED
    BY <1>1, <1>2

-----------------------------------------------------------------------------
(***************************************************************************)
(* User data                                                               *)
(***************************************************************************)
\* What a step does to the contents of a live page: nothing, or thread t
\* fills the page its put_data is at.
DataKept(t, v) ==
  \/ mem'[Pte(v)] = mem[Pte(v)]
  \/ /\ Access(t) /\ mode[t] = "put" /\ v = At(t)
     /\ mem'[Pte(v)] = [s \in Entries |-> t]

\* No work on page tables and no access to another page writes to a live page.
LEMMA DataStays ==
  ASSUME FrameInv, NEW t \in Threads, Work(t) \/ Call(t), NEW v \in Vpns, Live(v)
  PROVE  DataKept(t, v)
  <1> PICK f : f = Pte(v)
    OBVIOUS
  <1>0. /\ IndInv /\ TypeOK /\ TablesOK /\ PagesOK /\ LiveOK /\ HeldBy(t)
        /\ mem \in [Frames -> [Entries -> Words]]
    BY DEF FrameInv, IndInv, TypeOK, HeldOK
  <1>1. /\ f \in Frames \ {0} /\ \A d \in Entries : mem[0][d] # f
    BY <1>0, LivePage DEF PagesOK
  <1>2. \A w \in Vpns : Pde(w) # f
    BY <1>1, Place DEF Pde
  <1>3. CASE MapPage(t)
    <2>1. Cur(t) \in Vpns /\ pc[t] = "map"
      BY <1>0, <1>3, CurOwned DEF MapPage, AllocAt
    <2>2. mem'[f] = mem[f]
      BY <1>0, <1>1, <1>2, <1>3, <2>1 DEF MapPage
    <2> QED
      BY <2>2 DEF DataKept
  <1>4. CASE MapNew(t)
    <2>1. tab[t] # f
      BY <1>0, <1>4 DEF MapNew, HeldBy, Unused
    <2>2. mem'[f] = mem[f]
      BY <1>0, <1>1, <1>4, <2>1 DEF MapNew
    <2> QED
      BY <2>2 DEF DataKept
  <1>5. CASE FreePage(t)
    <2>1. idx[t] < num[t] => Cur(t) \in Vpns
      BY <1>0, <1>5, FreesMapped DEF FreePage
    <2>2. mem'[f] = mem[f]
      BY <1>0, <1>1, <1>2, <1>5, <2>1 DEF FreePage
    <2> QED
      BY <2>2 DEF DataKept
  <1>6. CASE FreeTable(t)
    <2>1. mem'[f] = mem[f]
      BY <1>0, <1>1, <1>6 DEF FreeTable
    <2> QED
      BY <2>1 DEF DataKept
  <1>7. CASE FreeTableStore(t)
    <2>1. tab[t] # f
      BY <1>0, <1>7 DEF FreeTableStore, HeldBy, Unused
    <2>2. mem'[f] = mem[f]
      BY <1>0, <1>1, <1>7, <2>1 DEF FreeTableStore
    <2> QED
      BY <2>2 DEF DataKept
  <1>8. CASE Access(t)
    <2>1. pc[t] = "access"
      BY <1>8 DEF Access
    <2>2. At(t) \in Vpns /\ Live(At(t)) /\ Deref(ptr[t]) = Pte(At(t))
      BY <2>1, TargetPage, DerefIs DEF FrameInv
    <2>3. CASE mem' = mem
      BY <2>3 DEF DataKept
    <2>4. CASE mode[t] = "put" /\ mem' = [mem EXCEPT ![Pte(At(t))] = [s \in Entries |-> t]]
      <3>1. CASE v = At(t)
        <4>1. mem'[f] = [s \in Entries |-> t]
          BY <1>0, <1>1, <2>4, <3>1
        <4> QED
          BY <1>8, <2>4, <3>1, <4>1 DEF DataKept
      <3>2. CASE v # At(t)
        <4>1. Pte(At(t)) # f
          BY <1>0, <2>2, <3>2 DEF PagesOK
        <4>2. mem'[f] = mem[f]
          BY <1>0, <1>1, <2>4, <4>1
        <4> QED
          BY <4>2 DEF DataKept
      <3> QED
        BY <3>1, <3>2
    <2> QED
      BY <1>8, <2>2, <2>3, <2>4 DEF Access
  <1>9. CASE \/ AllocPage(t) \/ AllocPageStore(t) \/ AllocTable(t)
             \/ AllocTableStore(t) \/ MarkPhys(t) \/ MarkPhysStore(t)
             \/ MarkVirt(t) \/ MapTLB(t) \/ FreeLock(t) \/ FreeVirt(t)
             \/ FreeTLB(t) \/ TLB_check(t) \/ Walk(t) \/ Refill(t) \/ Call(t)
    <2>1. mem' = mem
      BY <1>9 DEF AllocPage, AllocPageStore, AllocTable, AllocTableStore,
         MarkPhys, MarkPhysStore, MarkVirt, MapTLB, FreeLock, FreeVirt,
         FreeTLB, TLB_check, Walk, Refill, Call, n_malloc, n_free,
         put_data, get_data, vmvars
    <2> QED
      BY <2>1 DEF DataKept
  <1> QED
    BY <1>3, <1>4, <1>5, <1>6, <1>7, <1>8, <1>9 DEF Work

\* The pages a thread has filled are pages of its region.
LEMMA FilledPlaced ==
  ASSUME IndInv, PhaseOK, CallOK, NEW t \in Threads
  PROVE  /\ base[t] \in Nat /\ FilledTo(t) \in Nat
         /\ base[t] .. base[t] + FilledTo(t) - 1 \subseteq Placed(t)
         /\ Placed(t) \subseteq Vpns /\ Placed(t) \subseteq Owned(t)
         /\ mode[t] = "put" => tgt[t] = t
  <1>0. /\ base[t] \in Nat /\ num[t] \in Nat /\ idx[t] \in Nat
        /\ mode[t] \in {"none", "put", "get"}
    BY DEF IndInv, TypeOK
  <1>1. Placed(t) \subseteq Vpns /\ Placed(t) \subseteq Owned(t)
    BY PlacedOwned DEF PhaseOK
  <1>2. mode[t] = "put" => pc[t] \in DataAt /\ tgt[t] = t
    BY DEF CallOK
  <1>3. mode[t] = "put" => idx[t] <= num[t]
    BY <1>0, <1>2 DEF CallOK, DataAt
  <1>4. Filled(t) => pc[t] \in Rest \cup DataAt
    BY DEF Filled, CallOK, Rest
  <1>5. FilledTo(t) # 0 => pc[t] \in Rest \cup DataAt
    BY <1>2, <1>4 DEF FilledTo
  <1>6. FilledTo(t) \in Nat /\ FilledTo(t) <= num[t]
    BY <1>0, <1>3 DEF FilledTo
  <1>7. CASE FilledTo(t) = 0
    BY <1>0, <1>1, <1>2, <1>7
  <1>8. CASE FilledTo(t) # 0
    <2>1. Placed(t) = base[t] .. base[t] + num[t] - 1
      BY <1>5, <1>8, PlacedAt
    <2> QED
      BY <1>0, <1>1, <1>2, <1>6, <2>1
  <1> QED
    BY <1>7, <1>8

\* How far its region is filled changes in three ways: not at all, by the
\* page a put_data has just written, or to nothing.
LEMMA FilledMoves ==
  ASSUME FrameInv, NEW t \in Threads, Work(t) \/ Call(t)
  PROVE  \/ FilledTo(t)' = 0
         \/ base'[t] = base[t] /\ FilledTo(t)' = FilledTo(t)
         \/ /\ Access(t) /\ mode[t] = "put" /\ tgt[t] = t /\ base'[t] = base[t]
            /\ FilledTo(t) = idx[t] /\ FilledTo(t)' = idx[t] + 1
  <1> USE DEF Goto, regvars
  <1>0. /\ IndInv /\ PhaseOK /\ CallOK /\ pc \in [Threads -> PCs]
        /\ idx \in [Threads -> Nat] /\ mode \in [Threads -> {"none", "put", "get"}]
        /\ num \in [Threads -> Nat]
        /\ mode[t] = "none" <=> pc[t] \notin DataAt
        /\ pc[t] \in Rest => idx[t] = 0
    BY DEF FrameInv, IndInv, TypeOK, CallOK, RegionOK
  <1>1. CASE TLB_check(t)
    <2>1. pc[t] = "check" /\ mode[t] # "none" /\ base'[t] = base[t] /\ num'[t] = num[t]
      BY <1>0, <1>1 DEF TLB_check, DataAt
    <2>2. CASE pc'[t] = "written"
      <3>1. mode'[t] = "none" /\ idx[t] = num[tgt[t]]
        BY <1>0, <1>1, <2>1, <2>2 DEF TLB_check, Return
      <3>2. mode[t] = "put" => idx[t] = num[t]
        BY <1>0, <3>1, FilledPlaced
      <3> QED
        BY <1>0, <2>1, <2>2, <3>1, <3>2 DEF FilledTo, Filled
    <2>3. CASE pc'[t] # "written"
      <3>1. mode' = mode /\ idx' = idx
        BY <1>0, <1>1, <2>3 DEF TLB_check, Return
      <3> QED
        BY <2>1, <2>3, <3>1 DEF FilledTo, Filled
    <2> QED
      BY <2>2, <2>3
  <1>2. CASE Walk(t)
    <2>1. pc[t] = "walk" /\ base'[t] = base[t] /\ num'[t] = num[t]
      BY <1>2 DEF Walk
    <2>2. Mapped(At(t))
      BY <1>0, <2>1, TargetPage DEF FrameInv, LiveOK
    <2>3. mode' = mode /\ idx' = idx /\ pc'[t] = "refill"
      BY <1>0, <1>2, <2>2 DEF Walk
    <2> QED
      BY <2>1, <2>3 DEF FilledTo, Filled
  <1>3. CASE Refill(t)
    <2>1. /\ pc[t] = "refill" /\ base'[t] = base[t] /\ num'[t] = num[t]
          /\ mode' = mode /\ idx' = idx /\ pc'[t] = "access"
      BY <1>0, <1>3 DEF Refill
    <2> QED
      BY <2>1 DEF FilledTo, Filled
  <1>4. CASE Access(t)
    <2>1. /\ pc[t] = "access" /\ base'[t] = base[t] /\ num'[t] = num[t] /\ mode' = mode
          /\ pc'[t] # "fault"
      BY <1>0, <1>4, NoFault DEF Access, Work
    <2>2. idx'[t] = idx[t] + 1 /\ pc'[t] = "check" /\ mode[t] # "none"
      BY <1>0, <1>4, <2>1 DEF Access, NextPage
    <2>3. CASE mode[t] = "put"
      <3>1. tgt[t] = t
        BY <1>0, <2>3, FilledPlaced
      <3> QED
        BY <1>4, <2>1, <2>2, <2>3, <3>1 DEF FilledTo
    <2>4. CASE mode[t] = "get"
      BY <2>1, <2>4 DEF FilledTo, Filled
    <2> QED
      BY <1>0, <2>2, <2>3, <2>4
  <1>5. CASE put_data(t)
    <2>1. mode'[t] = "put" /\ idx'[t] = 0
      BY <1>0, <1>5 DEF put_data, Rest
    <2> QED
      BY <2>1 DEF FilledTo
  <1>6. CASE \E u \in Threads : get_data(t, u)
    <2>1. /\ pc[t] = "written" /\ mode[t] = "none" /\ mode'[t] = "get"
          /\ base'[t] = base[t] /\ num'[t] = num[t]
      BY <1>0, <1>6 DEF get_data, DataAt
    <2> QED
      BY <2>1 DEF FilledTo, Filled
  <1>7. ASSUME mode'[t] = "none", pc'[t] # "written"
        PROVE  FilledTo(t)' = 0
    BY <1>7 DEF FilledTo, Filled
  <1>8. CASE \/ AllocPage(t) \/ AllocPageStore(t) \/ MapPage(t) \/ AllocTable(t)
             \/ AllocTableStore(t) \/ MapNew(t) \/ MarkPhys(t) \/ MarkPhysStore(t)
             \/ MarkVirt(t) \/ MapTLB(t)
    <2>1. mode[t] = "none" /\ mode' = mode
      BY <1>0, <1>8 DEF AllocPage, AllocPageStore, MapPage, AllocTable,
         AllocTableStore, MapNew, MarkPhys, MarkPhysStore, MarkVirt, MapTLB,
         DataAt, accvars
    <2>2. pc'[t] # "written"
      BY <1>0, <1>8 DEF AllocPage, AllocPageStore, MapPage, AllocTable,
         AllocTableStore, MapNew, MarkPhys, MarkPhysStore, MarkVirt, MapTLB, GiveUp
    <2> QED
      BY <1>7, <2>1, <2>2
  <1>9. CASE \/ FreeLock(t) \/ FreePage(t) \/ FreeVirt(t) \/ FreeTLB(t)
             \/ FreeTable(t) \/ FreeTableStore(t) \/ n_free(t)
    <2>1. mode[t] = "none" /\ mode' = mode
      BY <1>0, <1>9 DEF FreeLock, FreePage, FreeVirt, FreeTLB, FreeTable,
         FreeTableStore, n_free, DataAt, accvars
    <2>2. pc'[t] # "written"
      BY <1>0, <1>9 DEF FreeLock, FreePage, FreeVirt, FreeTLB, FreeTable,
         FreeTableStore, n_free
    <2> QED
      BY <1>7, <2>1, <2>2
  <1>10. CASE \E n \in 1 .. MaxPages : n_malloc(t, n)
    <2>1. mode[t] = "none" /\ mode' = mode /\ pc'[t] # "written"
      BY <1>0, <1>10 DEF n_malloc, DataAt, accvars
    <2> QED
      BY <1>7, <2>1
  <1> QED
    BY <1>1, <1>2, <1>3, <1>4, <1>5, <1>6, <1>8, <1>9, <1>10 DEF Work, Call

\* Filled pages keep the name of their owner.
LEMMA FilledStep ==
  ASSUME FrameInv, NEW t \in Threads, Work(t) \/ Call(t)
  PROVE  FilledOK'
  <1>0. /\ IndInv /\ PhaseOK /\ CallOK /\ MainOK /\ FilledOK
    BY DEF FrameInv
  <1>1. SUFFICES ASSUME NEW u \in Threads,
                        NEW v \in (base[u] .. base[u] + FilledTo(u) - 1)'
                 PROVE  \A s \in Entries : mem'[Pte(v)'][s] = u
    BY DEF FilledOK
  <1>2. ASSUME v \in base[u] .. base[u] + FilledTo(u) - 1, Live(v)',
               u # t => ~(Access(t) /\ v = At(t) /\ mode[t] = "put")
        PROVE  \A s \in Entries : mem'[Pte(v)'][s] = u
    <2>1. v \in Placed(u) /\ v \in Vpns /\ Live(v)
      BY <1>0, <1>2, FilledPlaced DEF Live
    <2>2. Pte(v)' = Pte(v)
      BY <1>2, <2>1, MemStep DEF Kept
    <2>3. \A s \in Entries : mem[Pte(v)][s] = u
      BY <1>0, <1>2 DEF FilledOK
    <2>4. DataKept(t, v)
      BY <2>1, DataStays
    <2> QED
      BY <1>2, <2>2, <2>3, <2>4 DEF DataKept
  <1>3. CASE u # t
    <2>1. /\ pc'[u] = pc[u] /\ base'[u] = base[u] /\ num'[u] = num[u]
          /\ idx'[u] = idx[u] /\ mode'[u] = mode[u]
      BY <1>3, OthersStay, OthersKeep DEF FrameInv, IndInv
    <2>2. FilledTo(u)' = FilledTo(u)
      BY <2>1 DEF FilledTo, Filled
    <2>3. v \in base[u] .. base[u] + FilledTo(u) - 1
      BY <2>1, <2>2
    <2>4. v \in Placed(u) /\ Live(v)
      BY <1>0, <2>3, FilledPlaced DEF Live
    <2>5. v \notin Owned(t)
      BY <1>0, <1>3, <2>4, PlacedApart
    <2>6. Live(v)'
      BY <2>4, <2>5, MemStep
    <2>7. ~(Access(t) /\ v = At(t) /\ mode[t] = "put")
      <3> SUFFICES ASSUME v = At(t), mode[t] = "put", Access(t) PROVE FALSE
        OBVIOUS
      <3>1. tgt[t] = t /\ pc[t] = "access"
        BY <1>0, FilledPlaced DEF Access
      <3>2. v \in Placed(t)
        BY <1>0, <3>1, TargetPage
      <3> QED
        BY <1>0, <2>5, <3>2, FilledPlaced
    <2> QED
      BY <1>2, <2>3, <2>6, <2>7
  <1>4. CASE u = t
    <2>0. FilledTo(t) \in Nat /\ base[t] \in Nat
      BY <1>0, FilledPlaced
    <2>1. FilledTo(t)' # 0
      <3> SUFFICES ASSUME FilledTo(t)' = 0 PROVE FALSE
        OBVIOUS
      <3>1. base'[t] \in Nat
        BY TypeStep DEF FrameInv, TypeOK
      <3> QED
        BY <1>1, <1>4, <3>1
    <2>2. pc'[t] # "fvirt"
      <3>1. PhaseOK' /\ CallOK'
        BY CallStep
      <3> QED
        BY <2>1, <3>1 DEF FilledTo, Filled, CallOK, DataAt
    <2>3. ASSUME v \in base[t] .. base[t] + FilledTo(t) - 1
          PROVE  \A s \in Entries : mem'[Pte(v)'][s] = t
      <3>1. Live(v)
        BY <1>0, <2>3, FilledPlaced DEF Live
      <3>2. Live(v)'
        BY <2>2, <3>1, MemStep
      <3> QED
        BY <1>2, <1>4, <2>3, <3>2
    <2>4. CASE base'[t] = base[t] /\ FilledTo(t)' = FilledTo(t)
      BY <1>1, <1>4, <2>3, <2>4
    <2>5. CASE /\ Access(t) /\ mode[t] = "put" /\ tgt[t] = t /\ base'[t] = base[t]
               /\ FilledTo(t) = idx[t] /\ FilledTo(t)' = idx[t] + 1
      <3>1. v \in base[t] .. base[t] + FilledTo(t) - 1 \/ v = base[t] + idx[t]
        BY <1>1, <1>4, <2>0, <2>5
      <3>2. CASE v = base[t] + idx[t]
        <4>1. v = At(t) /\ pc[t] = "access"
          BY <2>5, <3>2 DEF At, Access
        <4>2. v \in Vpns /\ Live(v)
          BY <1>0, <4>1, TargetPage
        <4>3. Live(v)' /\ Pte(v)' = Pte(v)
          BY <2>2, <4>2, MemStep DEF Kept
        <4>4. mem'[Pte(v)] = [s \in Entries |-> t]
          <5>1. Deref(ptr[t]) = Pte(v)
            BY <4>1, DerefIs DEF FrameInv
          <5>2. pc'[t] # "fault"
            BY NoFault
          <5>3. Pte(v) \in Frames
            BY <4>2, LivePage DEF FrameInv, IndInv
          <5> QED
            BY <1>0, <2>5, <5>1, <5>3 DEF Access, IndInv, TypeOK
        <4> QED
          BY <1>4, <4>3, <4>4
      <3> QED
        BY <1>4, <2>3, <3>1, <3>2
    <2> QED
      BY <2>1, <2>4, <2>5, FilledMoves
  <1> QED
    BY <1>3, <1>4

\* get_data copies what the owner of the region has written.
LEMMA ReadStep ==
  ASSUME FrameInv, NEW t \in Threads, Work(t) \/ Call(t)
  PROVE  ReadOK'
  <1> USE DEF Goto
  <1>0. /\ IndInv /\ PhaseOK /\ CallOK /\ FilledOK /\ AccessOK
        /\ pc \in [Threads -> PCs] /\ seen \in [Threads -> SUBSET Words]
        /\ tgt \in [Threads -> Threads \cup {NULL}]
        /\ seen[t] \subseteq {tgt[t]} /\ (pc[t] \notin DataAt => seen[t] = {})
    BY DEF FrameInv, IndInv, TypeOK, ReadOK, ReadsOwnData
  <1>1. SUFFICES /\ seen'[t] \subseteq {tgt'[t]}
                 /\ pc'[t] \notin DataAt => seen'[t] = {}
    BY <1>0, OthersStay, OthersKeep DEF ReadOK, ReadsOwnData, FrameInv, IndInv
  <1>2. CASE TLB_check(t) \/ Walk(t)
    <2>1. seen'[t] = {} \/ (seen' = seen /\ tgt' = tgt /\ pc'[t] \in DataAt)
      BY <1>0, <1>2 DEF TLB_check, Walk, Return, DataAt
    <2> QED
      BY <1>0, <2>1
  <1>3. CASE Refill(t)
    BY <1>0, <1>3 DEF Refill, DataAt
  <1>4. CASE Access(t)
    <2>1. pc[t] = "access" /\ pc'[t] # "fault" /\ tgt' = tgt
      BY <1>4, NoFault DEF Access
    <2>2. pc'[t] \in DataAt
      BY <1>0, <1>4, <2>1 DEF Access, DataAt
    <2>3. CASE seen' = seen
      BY <1>0, <2>1, <2>2, <2>3
    <2>4. CASE /\ mode[t] = "get"
               /\ seen' = [seen EXCEPT ![t] = {mem[Deref(ptr[t])][s] : s \in Entries}]
      <3>1. /\ Deref(ptr[t]) = Pte(At(t)) /\ tgt[t] \in Threads
            /\ At(t) \in base[tgt[t]] .. base[tgt[t]] + FilledTo(tgt[t]) - 1
        BY <1>0, <2>1, <2>4, DerefIs, TargetPage
      <3>2. \A s \in Entries : mem[Deref(ptr[t])][s] = tgt[t]
        BY <1>0, <3>1 DEF FilledOK
      <3>3. seen'[t] = {mem[Deref(ptr[t])][s] : s \in Entries}
        BY <1>0, <2>4
      <3> QED
        BY <2>1, <2>2, <3>2, <3>3
    <2> QED
      BY <1>4, <2>1, <2>3, <2>4 DEF Access
  <1>5. CASE put_data(t) \/ \E u \in Threads : get_data(t, u)
    <2>1. seen' = seen /\ pc[t] \in Rest /\ pc'[t] = "check"
      BY <1>0, <1>5 DEF put_data, get_data, Rest
    <2>2. seen'[t] = {}
      BY <1>0, <2>1 DEF Rest, DataAt
    <2> QED
      BY <2>2
  <1>6. CASE \/ AllocPage(t) \/ AllocPageStore(t) \/ MapPage(t) \/ AllocTable(t)
             \/ AllocTableStore(t) \/ MapNew(t) \/ MarkPhys(t) \/ MarkPhysStore(t)
             \/ MarkVirt(t) \/ MapTLB(t)
    <2>1. seen' = seen /\ pc[t] \notin DataAt
      BY <1>6 DEF AllocPage, AllocPageStore, MapPage, AllocTable,
         AllocTableStore, MapNew, MarkPhys, MarkPhysStore, MarkVirt, MapTLB,
         DataAt, accvars
    <2> QED
      BY <1>0, <2>1
  <1>7. CASE \/ FreeLock(t) \/ FreePage(t) \/ FreeVirt(t) \/ FreeTLB(t)
             \/ FreeTable(t) \/ FreeTableStore(t) \/ n_free(t)
             \/ \E n \in 1 .. MaxPages : n_malloc(t, n)
    <2>1. seen' = seen /\ pc[t] \notin DataAt
      BY <1>7 DEF FreeLock, FreePage, FreeVirt, FreeTLB, FreeTable,
         FreeTableStore, n_free, n_malloc, DataAt, accvars
    <2> QED
      BY <1>0, <2>1
  <1> QED
    BY <1>2, <1>3, <1>4, <1>5, <1>6, <1>7 DEF Work, Call

-----------------------------------------------------------------------------
(***************************************************************************)
(* The invariant holds at the start and is kept by every careful step      *)
(***************************************************************************)
\* After set_physical_mem() only main's page, if there is one, is live.
LEMMA MainLive ==
  ASSUME Init
  PROVE  /\ \A t \in Threads : Placed(t) = {} /\ Owned(t) = {}
         /\ \A v : Live(v) <=> v \in MainPages
         /\ MainPages \subseteq Vpns
  <1>1. \A t \in Threads : Placed(t) = {}
    <2> TAKE t \in Threads
    <2>1. pc[t] \in Rest /\ base[t] = 0 /\ num[t] = 0
      BY DEF Init, Rest
    <2> QED
      BY <2>1, PlacedAt
  <1>2. \A t \in Threads : Owned(t) = {}
    <2> TAKE t \in Threads
    <2>1. pc[t] = "idle" /\ base[t] = 0 /\ num[t] = 0
      BY DEF Init
    <2> QED
      BY <2>1, OwnedAt DEF PCs, Rest
  <1>3. \A v : Live(v) <=> v \in MainPages
    BY <1>1 DEF Live
  <1>4. MainPages \subseteq Vpns
    BY VMemAssumption DEF MainPages, Vpns
  <1> QED
    BY <1>1, <1>2, <1>3, <1>4

\* The page tables at the start: an empty directory, or one table with the
\* one page of main's.
LEMMA MainTable ==
  ASSUME Init
  PROVE  /\ Pinned => /\ {0, 1, 2} \subseteq Frames /\ {0, 1} \subseteq Entries
                      /\ phys = {0, 1, 2}
                      /\ \A d \in Entries : mem[0][d] = IF d = 0 THEN 2 ELSE 0
                      /\ \A s \in Entries : mem[2][s] = IF s = 1 THEN 1 ELSE 0
                      /\ PDX(1) = 0 /\ PTX(1) = 1
                      /\ \A v \in Vpns : PDX(v) = 0 /\ PTX(v) = 1 => v = 1
         /\ ~Pinned => phys = {0} /\ 0 \in Frames /\ \A d \in Entries : mem[0][d] = 0
  <1>1. CASE Pinned
    <2>1. {0, 1, 2} \subseteq Frames /\ {0, 1} \subseteq Entries /\ 1 \in Vpns
      BY <1>1, VMemAssumption DEF Frames, Entries, Vpns
    <2>2. PDX(1) = 0 /\ PTX(1) = 1
      BY <1>1, VMemAssumption DEF PDX, PTX
    <2>3. \A v \in Vpns : PDX(v) = 0 /\ PTX(v) = 1 => v = 1
      BY <2>1, <2>2, SamePlace
    <2>4. mem[0] = [Zeroes EXCEPT ![0] = 2] /\ mem[2] = [Zeroes EXCEPT ![1] = 1]
      BY <1>1, <2>1 DEF Init
    <2>5. /\ \A d \in Entries : mem[0][d] = IF d = 0 THEN 2 ELSE 0
          /\ \A s \in Entries : mem[2][s] = IF s = 1 THEN 1 ELSE 0
      BY <2>4 DEF Zeroes
    <2> QED
      BY <1>1, <2>1, <2>2, <2>3, <2>5 DEF Init
  <1>2. CASE ~Pinned
    <2>1. 0 \in Frames /\ mem[0] = Zeroes
      BY <1>2, ConstantTypes DEF Init
    <2> QED
      BY <1>2, <2>1 DEF Init, Zeroes
  <1> QED
    BY <1>1, <1>2

\* The page tables and the TLB right after set_physical_mem().
LEMMA TablesInit ==
  ASSUME Init
  PROVE  TablesOK /\ LiveOK /\ PagesOK /\ SlotsOK
  <1>0. /\ \A v : Live(v) <=> v \in MainPages
        /\ \A v \in Vpns : PDX(v) \in Entries /\ PTX(v) \in Entries
        /\ MainPages \subseteq Vpns
    BY MainLive, Place
  <1>1. CASE Pinned
    <2>1. /\ {0, 1, 2} \subseteq Frames /\ {0, 1} \subseteq Entries
          /\ phys = {0, 1, 2}
          /\ \A d \in Entries : mem[0][d] = IF d = 0 THEN 2 ELSE 0
          /\ \A s \in Entries : mem[2][s] = IF s = 1 THEN 1 ELSE 0
          /\ PDX(1) = 0 /\ PTX(1) = 1
          /\ \A v \in Vpns : PDX(v) = 0 /\ PTX(v) = 1 => v = 1
      BY <1>1, MainTable
    <2>2. MainPages = {1} /\ 1 \in Vpns
      BY <1>0, <1>1 DEF MainPages
    <2>3. TablesOK
      BY <2>1 DEF TablesOK
    <2>4. Pde(1) = 2 /\ Pte(1) = 1
      BY <2>1 DEF Pde, Pte
    <2>5. ASSUME NEW v \in Vpns, v # 1 PROVE ~Mapped(v)
      <3>1. CASE PDX(v) # 0
        <4>1. Pde(v) = 0
          BY <1>0, <2>1, <3>1 DEF Pde
        <4> QED
          BY <4>1 DEF Mapped
      <3>2. CASE PDX(v) = 0
        <4>1. Pde(v) = 2 /\ PTX(v) # 1
          BY <2>1, <2>5, <3>2 DEF Pde
        <4>2. Pte(v) = 0
          BY <1>0, <2>1, <4>1 DEF Pte
        <4> QED
          BY <4>2 DEF Mapped
      <3> QED
        BY <3>1, <3>2
    <2>6. LiveOK
      BY <1>0, <2>1, <2>2, <2>4, <2>5 DEF LiveOK, Mapped
    <2>7. PagesOK
      <3> SUFFICES ASSUME NEW v \in Vpns, Live(v)
                   PROVE  /\ Pte(v) \in phys \ {0}
                          /\ \A d \in Entries : mem[0][d] # Pte(v)
                          /\ \A w \in Vpns : Live(w) /\ w # v => Pte(w) # Pte(v)
        BY DEF PagesOK
      <3>1. v = 1 /\ \A w \in Vpns : Live(w) => w = 1
        BY <1>0, <2>2
      <3> QED
        BY <2>1, <2>4, <3>1
    <2>8. SlotsOK
      <3> SUFFICES ASSUME NEW i \in Slots, tlb[i].valid
                   PROVE  /\ tlb[i].vpn \in Vpns
                          /\ Live(tlb[i].vpn) /\ Pte(tlb[i].vpn) = tlb[i].pte
        BY DEF SlotsOK
      <3>1. tlb[i] = [valid |-> TRUE, vpn |-> 1, pte |-> 1]
        BY <1>1 DEF Init, EmptyEntry
      <3> QED
        BY <1>0, <2>2, <2>4, <3>1
    <2> QED
      BY <2>3, <2>6, <2>7, <2>8
  <1>2. CASE ~Pinned
    <2>1. phys = {0} /\ 0 \in Frames /\ \A d \in Entries : mem[0][d] = 0
      BY <1>2, MainTable
    <2>2. \A v : ~Live(v)
      BY <1>0, <1>2 DEF MainPages
    <2>3. TablesOK
      BY <2>1 DEF TablesOK
    <2>4. \A v \in Vpns : ~Mapped(v)
      BY <1>0, <2>1 DEF Mapped, Pde
    <2>5. SlotsOK
      BY <1>2 DEF Init, EmptyEntry, SlotsOK
    <2> QED
      BY <2>2, <2>3, <2>4, <2>5 DEF LiveOK, PagesOK
  <1> QED
    BY <1>1, <1>2

\* The invariant holds right after set_physical_mem().
LEMMA FrameInit == Init => FrameInv
  <1> SUFFICES ASSUME Init PROVE FrameInv
    OBVIOUS
  <1>0. \A t \in Threads : pc[t] = "idle"
    BY DEF Init
  <1>1. IndInv
    BY IndInit
  <1>2. TLBUnique
    BY VMemAssumption DEF Init, TLBUnique, Hit, EmptyEntry, Slots
  <1>3. PhaseOK
    BY VMemAssumption, <1>0 DEF Init, PhaseOK, Rest, DataAt
  <1>4. CallOK
    BY <1>0 DEF Init, CallOK, DataAt
  <1>5. LockOK /\ ByteOK
    BY <1>0 DEF LockOK, ByteOK, TableAt, ClearedAt
  <1>6. MainOK
    <2>1. MainPages \subseteq virt
      BY DEF Init, MainPages
    <2> QED
      BY <2>1, MainLive DEF MainOK
  <1>7. TablesOK /\ LiveOK /\ PagesOK /\ SlotsOK
    BY TablesInit
  <1>8. HeldOK /\ AccessOK
    BY <1>0 DEF HeldOK, HeldApart, HeldBy, HasFrame, EnterAt, AccessOK
  <1>9. FilledOK
    <2>1. \A t \in Threads : FilledTo(t) = 0 /\ base[t] = 0
      BY DEF Init, FilledTo, Filled
    <2> QED
      BY <2>1 DEF FilledOK
  <1>10. ReadOK
    BY DEF Init, ReadOK, ReadsOwnData
  <1> QED
    BY <1>1, <1>2, <1>3, <1>4, <1>5, <1>6, <1>7, <1>8, <1>9, <1>10 DEF FrameInv

\* main joins its threads between two phases: nothing but the phase changes.
LEMMA FrameQuiet ==
  ASSUME FrameInv,
         UNCHANGED <<vmvars, pc, base, num, idx, alcvars, accvars, rounds>>,
         phase' = phase \/ \A t \in Threads : pc[t] \in Rest
  PROVE  /\ PhaseOK' /\ CallOK' /\ LockOK' /\ MainOK' /\ ByteOK'
         /\ TablesOK' /\ LiveOK' /\ PagesOK' /\ HeldOK' /\ SlotsOK' /\ AccessOK'
         /\ FilledOK' /\ ReadOK'
  <1> USE DEF vmvars, alcvars, accvars
  <1>1. PhaseOK'
    BY DEF FrameInv, PhaseOK, Rest, DataAt
  <1>2. CallOK'
    BY DEF FrameInv, CallOK, Filled, Rest, DataAt
  <1>3. LockOK' /\ ByteOK'
    BY DEF FrameInv, LockOK, ByteOK
  <1>4. MainOK'
    BY DEF FrameInv, MainOK, Owned, FirstOwned
  <1>5. TablesOK'
    BY DEF FrameInv, TablesOK
  <1>6. /\ \A v : Live(v)' <=> Live(v)
        /\ \A v : Pde(v)' = Pde(v) /\ Pte(v)' = Pte(v)
        /\ \A t \in Threads : Cur(t)' = Cur(t) /\ At(t)' = At(t)
    BY DEF Live, Placed, Pde, Pte, Cur, At
  <1>7. LiveOK'
    BY <1>6 DEF FrameInv, LiveOK, Mapped
  <1>8. PagesOK'
    BY <1>6 DEF FrameInv, PagesOK
  <1>9. HeldOK'
    BY <1>6 DEF FrameInv, HeldOK, HeldApart, HeldBy, HasFrame, Unused, TableEmpty,
       Pde, Pte, Live, Placed, Cur
  <1>10. SlotsOK'
    BY <1>6 DEF FrameInv, SlotsOK, Live, Placed, Pte, Pde, Cur
  <1>11. AccessOK'
    BY DEF FrameInv, AccessOK, Leads, At, Pte, Pde
  <1>12. FilledOK'
    BY DEF FrameInv, FilledOK, FilledTo, Filled, Pte, Pde
  <1>13. ReadOK'
    BY DEF FrameInv, ReadOK, ReadsOwnData
  <1> QED
    BY <1>1, <1>2, <1>3, <1>4, <1>5, <1>7, <1>8, <1>9, <1>10, <1>11, <1>12, <1>13

\* A step that does neither of the two things Careful excludes keeps the
\* whole invariant.
LEMMA FrameStep == FrameInv /\ [Next]_vars /\ [Careful]_vars => FrameInv'
  <1> SUFFICES ASSUME FrameInv, [Next]_vars, [Careful]_vars PROVE FrameInv'
    OBVIOUS
  <1>0. IndInv' /\ TLBUnique'
    BY IndStep, UniqueStep DEF FrameInv
  <1>1. ASSUME NEW t \in Threads, Work(t) \/ Call(t), Careful PROVE FrameInv'
    <2>1. NoLostUpdate /\ NoRedirect
      BY <1>1 DEF Careful
    <2>2. PhaseOK' /\ CallOK' /\ LockOK' /\ MainOK' /\ ByteOK'
      BY <1>1, <2>1, CallStep, LockStep, MainStep, ByteStep
    <2>3. TablesOK' /\ LiveOK' /\ PagesOK' /\ HeldOK'
      BY <1>1, MemStep
    <2>4. SlotsOK' /\ AccessOK'
      BY <1>1, <2>1, CoherentStep, AccessStep
    <2>5. FilledOK' /\ ReadOK'
      BY <1>1, FilledStep, ReadStep
    <2> QED
      BY <1>0, <2>2, <2>3, <2>4, <2>5 DEF FrameInv
  <1>2. CASE UNCHANGED vars
    <2>1. UNCHANGED <<vmvars, pc, base, num, idx, alcvars, accvars, rounds>> /\ phase' = phase
      BY <1>2 DEF vars, vmvars, alcvars, accvars
    <2> QED
      BY <1>0, <2>1, FrameQuiet DEF FrameInv
  <1>3. CASE Advance
    <2>1. /\ UNCHANGED <<vmvars, pc, base, num, idx, alcvars, accvars, rounds>>
          /\ \A t \in Threads : pc[t] \in Rest
      BY <1>3 DEF Advance, vmvars, alcvars, accvars, regvars
    <2> QED
      BY <1>0, <2>1, FrameQuiet DEF FrameInv
  <1> QED
    BY <1>1, <1>2, <1>3 DEF Next, Terminated, Crashed

\* The invariant says that every frame has one use.
LEMMA InvFrames == FrameInv => FramesExclusive
  <1> SUFFICES ASSUME FrameInv PROVE FramesExclusive
    OBVIOUS
  <1> USE DEF Dirs
  <1>0. TypeOK /\ TablesOK /\ LiveOK /\ PagesOK /\ HeldOK
    BY DEF FrameInv, IndInv
  <1>1. \A v \in Vpns : Mapped(v) => Live(v)
    BY <1>0 DEF LiveOK
  <1>2. \A d, e \in Dirs : d # e => mem[0][d] # mem[0][e]
    BY <1>0 DEF TablesOK
  <1>3. \A v, w \in Vpns : Mapped(v) /\ Mapped(w) /\ v # w => Pte(v) # Pte(w)
    BY <1>0, <1>1 DEF PagesOK
  <1>4. \A v \in Vpns : Mapped(v) =>
          Pte(v) \in phys /\ Pte(v) # 0 /\ \A d \in Entries : Pte(v) # mem[0][d]
    BY <1>0, <1>1 DEF PagesOK
  <1>5. 0 \in phys /\ \A d \in Dirs : mem[0][d] \in phys
    BY <1>0 DEF TablesOK
  <1>6. ASSUME NEW f, Unused(f)
        PROVE  /\ f \in phys /\ f # 0 /\ \A d \in Entries : f # mem[0][d]
               /\ \A v \in Vpns : Mapped(v) => f # Pte(v)
    BY <1>1, <1>6 DEF Unused
  <1>7. ASSUME NEW t \in Threads, HasFrame(t)
        PROVE  /\ Unused(frame[t])
               /\ \A u \in Threads : u # t /\ HasFrame(u) => frame[u] # frame[t]
               /\ pc[t] = "new" => Unused(tab[t]) /\ tab[t] # frame[t]
    BY <1>0, <1>7 DEF HeldOK, HeldApart, HeldBy
  <1>8. ASSUME NEW t \in Threads, HasFrame(t)
        PROVE  /\ frame[t] \in phys \ ({0} \cup {mem[0][d] : d \in Dirs}
                                        \cup {Pte(v) : v \in {v \in Vpns : Mapped(v)}})
               /\ \A u \in Threads : u # t /\ HasFrame(u) => frame[u] # frame[t]
               /\ pc[t] = "new" =>
                    tab[t] \in phys \ ({0, frame[t]} \cup {mem[0][d] : d \in Dirs}
                                        \cup {Pte(v) : v \in {v \in Vpns : Mapped(v)}})
    BY <1>6, <1>7, <1>8
  <1> QED
    BY <1>2, <1>3, <1>4, <1>5, <1>8 DEF FramesExclusive

-----------------------------------------------------------------------------
(***************************************************************************)
(* The theorems                                                            *)
(***************************************************************************)
\* Unless one of the two races strikes, every frame has one use and is marked
\* in phys_bitmap: page tables, mapped pages and frames about to be mapped are
\* all different, whatever n_malloc, n_free, put_data and get_data calls
\* interleave, for any number of threads, frames, pages and TLB slots.
THEOREM FramesHaveOneUse == Spec /\ [][Careful]_vars => []FramesExclusive
  BY FrameInit, FrameStep, InvFrames, PTL DEF Spec

\* Under the same condition no stale translation stays in the TLB, although
\* map_page and translate fill it after the unlock of page_table_lock and
\* n_free gives a page back before it invalidates the slot.
THEOREM TLBAgrees == Spec /\ [][Careful]_vars => []TLBCoherent
  <1>1. FrameInv => TLBCoherent
    BY DEF FrameInv, SlotsOK, LiveOK, TLBCoherent
  <1> QED
    BY <1>1, FrameInit, FrameStep, PTL DEF Spec

\* Under the same condition get_data returns what the owner of the region has
\* put there with put_data: no frame is written through a stale translation.
THEOREM ReadsWhatWasWritten == Spec /\ [][Careful]_vars => []ReadsOwnData
  <1>1. FrameInv => ReadsOwnData
    BY DEF FrameInv, ReadOK
  <1> QED
    BY <1>1, FrameInit, FrameStep, PTL DEF Spec

\* Under the same condition no call dereferences user data as a frame number.
THEOREM NoWildAccess == Spec /\ [][Careful]_vars => []Running
  <1>1. FrameInv => Running
    BY DEF FrameInv, PhaseOK, Running
  <1> QED
    BY <1>1, FrameInit, FrameStep, PTL DEF Spec

-----------------------------------------------------------------------------
(***************************************************************************)
(* A page of main's that stays allocated shuts out the first race          *)
(***************************************************************************)
\* All regions lie in the part of the address space the first page table maps
\* (4 MB with the constants of my_vm.h), as main's page does.
OneTable == \A t \in Threads : base[t] + num[t] <= PTEntries

\* Nobody is between the load and the store of the clear_bit in n_free.
NoTableFreed == \A t \in Threads : pc[t] # "fdirw"

\* While main's page is mapped, the one page table is never empty.
LEMMA TableStays ==
  ASSUME FrameInv, Pinned, OneTable, NEW t \in Threads
  PROVE  pc[t] # "fdir"
  <1> SUFFICES ASSUME pc[t] = "fdir" PROVE FALSE
    OBVIOUS
  <1>1. Cur(t) \in Vpns /\ 1 \in Vpns
    BY CurOwned, VMemAssumption DEF FrameInv, ClearedAt, Vpns
  <1>2. PDX(Cur(t)) = 0 /\ PDX(1) = 0
    <2>1. base[t] \in Nat /\ num[t] \in Nat /\ idx[t] \in Nat /\ idx[t] < num[t]
      BY DEF FrameInv, IndInv, TypeOK, RegionOK
    <2>2. Cur(t) \in 0 .. PTEntries - 1
      BY <2>1, VMemAssumption DEF OneTable, Cur
    <2> QED
      BY <2>2, VMemAssumption DEF PDX
  <1>3. Live(1)
    BY DEF Live, MainPages
  <1>4. Pte(1) # 0 /\ PTX(1) \in Entries
    BY <1>1, <1>3, Place DEF FrameInv, LiveOK, Mapped
  <1>5. Pde(Cur(t)) = Pde(1)
    BY <1>2 DEF Pde
  <1>6. mem[Pde(1)] = Zeroes
    BY <1>5 DEF FrameInv, HeldOK, HeldBy, TableEmpty
  <1> QED
    BY <1>4, <1>6 DEF Pte, Zeroes

\* So n_free never gets to the clear_bit outside phys_bit_lock.
LEMMA PinnedStep ==
  ASSUME Pinned
  PROVE  /\ Init => FrameInv /\ NoTableFreed
         /\ FrameInv /\ NoTableFreed /\ OneTable /\ [Next]_vars /\ [NoRedirect]_vars
              => FrameInv' /\ NoTableFreed'
  <1>1. Init => FrameInv /\ NoTableFreed
    BY FrameInit DEF Init, NoTableFreed
  <1>2. ASSUME FrameInv, NoTableFreed, OneTable, [Next]_vars, [NoRedirect]_vars
        PROVE  FrameInv' /\ NoTableFreed'
    <2>1. NoLostUpdate
      BY <1>2 DEF NoTableFreed, NoLostUpdate
    <2>2. FrameInv'
      BY <1>2, <2>1, FrameStep DEF Careful
    <2>3. ASSUME NEW t \in Threads, Work(t) \/ Call(t) PROVE pc'[t] # "fdirw"
      <3>0. pc[t] \notin {"fdir", "fdirw"} /\ pc \in [Threads -> PCs]
        BY <1>2, TableStays DEF NoTableFreed, FrameInv, IndInv, TypeOK
      <3>1. CASE \/ AllocPage(t) \/ AllocPageStore(t) \/ MapPage(t) \/ AllocTable(t)
                 \/ AllocTableStore(t) \/ MapNew(t) \/ MarkPhys(t) \/ MarkPhysStore(t)
                 \/ MarkVirt(t) \/ MapTLB(t)
        BY <3>0, <3>1 DEF AllocPage, AllocPageStore, MapPage, AllocTable,
           AllocTableStore, MapNew, MarkPhys, MarkPhysStore, MarkVirt, MapTLB, Goto, GiveUp
      <3>2. CASE \/ FreeLock(t) \/ FreePage(t) \/ FreeVirt(t) \/ FreeTLB(t)
                 \/ FreeTable(t) \/ FreeTableStore(t)
        BY <3>0, <3>2 DEF FreeLock, FreePage, FreeVirt, FreeTLB, FreeTable,
           FreeTableStore, Goto
      <3>3. CASE TLB_check(t) \/ Walk(t) \/ Refill(t) \/ Access(t) \/ Call(t)
        BY <3>0, <3>3 DEF TLB_check, Walk, Refill, Access, Return, Goto, Call,
           n_malloc, n_free, put_data, get_data
      <3> QED
        BY <2>3, <3>1, <3>2, <3>3 DEF Work
    <2>4. ASSUME NEW t \in Threads, Work(t) \/ Call(t) PROVE NoTableFreed'
      <3>1. \A u \in Threads \ {t} : pc'[u] = pc[u]
        BY <1>2, <2>4, OthersStay DEF FrameInv, IndInv
      <3> QED
        BY <1>2, <2>3, <2>4, <3>1 DEF NoTableFreed
    <2>5. ASSUME pc' = pc PROVE NoTableFreed'
      BY <1>2, <2>5 DEF NoTableFreed
    <2> QED
      BY <1>2, <2>2, <2>4, <2>5 DEF Next, Advance, Terminated, Crashed, vars
  <1> QED
    BY <1>1, <1>2

\* While main holds a page and every region lies in the same page table as it,
\* the pointer into a TLB slot is the only hazard left: unless a slot changes
\* its page under a running access, frames have one use, the TLB agrees with
\* the page tables and every read returns what was written.
THEOREM PinnedIsSafe ==
  ASSUME Pinned
  PROVE  Spec /\ []OneTable /\ [][NoRedirect]_vars =>
           [](FramesExclusive /\ TLBCoherent /\ ReadsOwnData)
  <1>1. FrameInv => FramesExclusive /\ TLBCoherent /\ ReadsOwnData
    BY InvFrames DEF FrameInv, SlotsOK, LiveOK, TLBCoherent, ReadOK
  <1>2. /\ Init => FrameInv /\ NoTableFreed
        /\ FrameInv /\ NoTableFreed /\ OneTable /\ [Next]_vars /\ [NoRedirect]_vars
             => FrameInv' /\ NoTableFreed'
    BY PinnedStep
  <1> QED
    BY <1>1, <1>2, PTL DEF Spec
=============================================================================
