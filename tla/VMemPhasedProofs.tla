-------------------------- MODULE VMemPhasedProofs --------------------------
(***************************************************************************)
(* Nothing leaks in VMem, and programs that allocate, use and free in      *)
(* separate phases need no condition at all.                               *)
(*                                                                         *)
(* VMemFramesProofs shows that what is in use is marked.  The converse,    *)
(* that what is marked is in use, fails in two ways the code has: a call   *)
(* that runs out of frames forgets a frame and some pages, and the store   *)
(* of a set_bit can bring back a bit that an n_free has cleared since the  *)
(* byte was loaded.  Without these two nothing is lost.  In a program with *)
(* phases none of the four bad things of this module and the last can      *)
(* happen, if memory and TLB have room for what its threads hold.          *)
(***************************************************************************)
EXTENDS VMemFramesProofs, FiniteSetTheorems

-----------------------------------------------------------------------------
(***************************************************************************)
(* What can make a frame or a page be forgotten, as conditions on steps    *)
(***************************************************************************)
\* Between the load and the store of a set_bit nobody clears a bit of the
\* same byte of phys_bitmap.
NoRevival ==
  \A t \in Threads :
    /\ pc[t] \in {"allocw", "pbitw"} /\ pc'[t] = pc[t] =>
         phys \cap ByteOf(frame[t]) \subseteq phys'
    /\ pc[t] = "tabw" /\ pc'[t] = pc[t] =>
         phys \cap ByteOf(tab[t]) \subseteq phys'

\* No n_malloc runs out of frames half way.
NoGiveUp == \A t \in Threads : pc[t] \in AllocAt => pc'[t] \notin FreeAt

Thrifty == NoRevival /\ NoGiveUp

-----------------------------------------------------------------------------
(***************************************************************************)
(* The inductive invariant: whatever is marked is used                     *)
(***************************************************************************)
\* Where a call holds the frame of a page table that is not in the directory.
HasTable(t) == pc[t] \in {"new", "fdirw"}

\* Frame f is the directory, a page table, the frame of a live page, or on
\* its way into or out of the page tables.
Used(f) ==
  \/ f = 0
  \/ \E d \in Entries : mem[0][d] = f
  \/ \E v \in Vpns : Live(v) /\ Pte(v) = f
  \/ \E t \in Threads : (HasFrame(t) /\ frame[t] = f) \/ (HasTable(t) /\ tab[t] = f)

PhysUsed == \A f \in phys : Used(f)

\* The byte a set_bit has loaded holds no bit that has been cleared since.
FreshOK ==
  \A t \in Threads :
    /\ pc[t] \in {"allocw", "pbitw"} => byte[t] \subseteq phys \cap ByteOf(frame[t])
    /\ pc[t] = "tabw" => byte[t] \subseteq phys \cap ByteOf(tab[t])

\* Where n_free has cleared the entry of its page and not yet looked whether
\* the page table has become empty, or has found it empty.
Emptying(t) == pc[t] \in {"fvirt", "ftlb", "fdir"}

\* A page table has an entry for each of its pages only, and is in the
\* directory only while it has a page or is being emptied.
TablesUsed ==
  \A d \in Entries : mem[0][d] # 0 =>
    /\ \A s \in Entries : mem[mem[0][d]][s] # 0 =>
         \E v \in Vpns : PDX(v) = d /\ PTX(v) = s
    /\ \E v \in Vpns :
         PDX(v) = d /\ (Live(v) \/ \E t \in Threads : Emptying(t) /\ Cur(t) = v)

\* A marked page is main's or belongs to a thread.
VirtUsed == \A v \in virt : v \in MainPages \/ \E t \in Threads : v \in Owned(t)

\* main's page stays where it is.
MainPlace == Pinned => Pde(1) = 2 /\ Pte(1) = 1

UsedInv == PhysUsed /\ FreshOK /\ TablesUsed /\ VirtUsed /\ MainPlace

-----------------------------------------------------------------------------
(***************************************************************************)
(* Programs with phases                                                    *)
(***************************************************************************)
\* A frame for the directory, for each page table and for each page that can
\* be held at a time.
EnoughFrames ==
  NumPhys >= 1 + PTEntries + Cardinality(Threads) * MaxPages + Cardinality(MainPages)

\* A TLB slot for each page that can be held at a time.
EnoughSlots == TLB_ENTRIES >= Cardinality(Threads) * MaxPages

\* Threads are inside calls of the phase only, with regions of legal size.
PhasesOK ==
  /\ phase # "any"
  /\ \A t \in Threads :
       /\ pc[t] \in AllocAt \cup EnterAt => phase = "alloc"
       /\ pc[t] \in DataAt => phase = "use"
       /\ pc[t] \in FreeAt \cup ClearedAt => phase = "free"
       /\ pc[t] \notin {"walk", "refill"}
       /\ num[t] <= MaxPages

\* A valid slot of a page that is not main's.
Busy(i) == tlb[i].valid /\ tlb[i].vpn \notin MainPages

\* The slot the next new page gets, and after how many of them slot i gets
\* its turn.
NextSlot == IF count < TLB_ENTRIES THEN count ELSE next_evict
Turns(i) == IF i >= NextSlot THEN i - NextSlot ELSE i - NextSlot + TLB_ENTRIES

\* While pages are allocated, the busy slots are the ones whose turn comes
\* last: none is taken away before all are busy.
SlotsInTurn ==
  /\ count < TLB_ENTRIES => next_evict = 0
  /\ phase = "alloc" =>
       \A i, j \in Slots : Busy(i) /\ Turns(i) < Turns(j) => Busy(j)

\* Until pages are freed, a page has its slot from the moment n_malloc is done
\* with it.
HasSlot(v) == \E i \in Slots : Hit(i, v)
SlotKept ==
  \A t \in Threads :
    /\ phase # "free" =>
         \A v \in Placed(t) : HasSlot(v) \/ (pc[t] \in EnterAt /\ v = Cur(t))
    /\ pc[t] \in EnterAt => ~HasSlot(Cur(t))

PhasedInv == PhasesOK /\ SlotsInTurn /\ SlotKept

-----------------------------------------------------------------------------
(***************************************************************************)
(* How a step changes the directory and the page tables in it              *)
(***************************************************************************)
\* The page an n_malloc enters into the page tables in this step.
Enters(t) == (MapPage(t) /\ pc'[t] = "pbit") \/ MapNew(t)

\* The two ways of entering a page, the clearing of an entry, the removal of
\* a page table; every other step leaves the tables alone.
LEMMA TableChanges ==
  ASSUME FrameInv, NEW t \in Threads, Work(t) \/ Call(t)
  PROVE  \/ SameTables
         \/ /\ MapPage(t) /\ pc'[t] = "pbit" /\ Pde(Cur(t)) # 0
            /\ mem' = [mem EXCEPT ![Pde(Cur(t))][PTX(Cur(t))] = frame[t]]
         \/ MapNew(t)
         \/ /\ FreePage(t) /\ pc'[t] = "fvirt" /\ idx[t] < num[t]
            /\ mem' = [mem EXCEPT ![Pde(Cur(t))][PTX(Cur(t))] = 0]
         \/ FreeTable(t)
  <1>0. /\ pc \in [Threads -> PCs] /\ TypeOK /\ TablesOK /\ PagesOK /\ IndInv
        /\ LiveOK /\ 0 \in Frames
    BY ConstantTypes DEF FrameInv, IndInv, TypeOK
  <1>1. CASE mem' = mem
    BY <1>1 DEF SameTables
  <1>2. CASE MapPage(t)
    <2>1. CASE Pde(Cur(t)) # 0
      BY <1>0, <1>2, <2>1 DEF MapPage, Goto
    <2>2. CASE Pde(Cur(t)) = 0
      BY <1>1, <1>2, <2>2 DEF MapPage
    <2> QED
      BY <2>1, <2>2
  <1>3. CASE FreePage(t)
    <2>1. CASE mem' # mem
      BY <1>0, <1>3, <2>1 DEF FreePage, Goto
    <2> QED
      BY <1>1, <2>1
  <1>4. CASE FreeTableStore(t)
    <2>1. Unused(tab[t]) /\ mem' = [mem EXCEPT ![tab[t]] = Zeroes]
      BY <1>4 DEF FrameInv, HeldOK, HeldBy, FreeTableStore
    <2>2. \A g \in Frames : g # tab[t] => mem'[g] = mem[g]
      BY <1>0, <2>1 DEF TypeOK
    <2> QED
      BY <1>0, <2>1, <2>2 DEF SameTables, TablesOK, Unused
  <1>5. CASE Access(t)
    <2>1. pc[t] = "access" /\ pc'[t] # "fault"
      BY <1>5, NoFault DEF Access
    <2>2. At(t) \in Vpns /\ Live(At(t)) /\ Deref(ptr[t]) = Pte(At(t))
      BY <1>0, <2>1, TargetPage, DerefIs DEF FrameInv
    <2>3. /\ \A d \in Entries : mem[0][d] # Pte(At(t))
          /\ Pte(At(t)) # 0 /\ Pte(At(t)) \in Frames
      BY <1>0, <2>2, LivePage DEF PagesOK
    <2>4. \A g \in Frames : g # Pte(At(t)) => mem'[g] = mem[g]
      BY <1>0, <1>5, <2>2, <2>3 DEF Access, TypeOK
    <2> QED
      BY <1>0, <2>3, <2>4 DEF SameTables, TablesOK
  <1>6. CASE \/ AllocPage(t) \/ AllocPageStore(t) \/ AllocTable(t) \/ AllocTableStore(t)
             \/ MarkPhys(t) \/ MarkPhysStore(t) \/ MarkVirt(t) \/ MapTLB(t)
             \/ FreeLock(t) \/ FreeVirt(t) \/ FreeTLB(t) \/ TLB_check(t) \/ Walk(t)
             \/ Refill(t) \/ Call(t)
    <2>1. mem' = mem
      BY <1>6 DEF AllocPage, AllocPageStore, AllocTable, AllocTableStore, MarkPhys,
         MarkPhysStore, MarkVirt, MapTLB, FreeLock, FreeVirt, FreeTLB, TLB_check, Walk,
         Refill, Call, n_malloc, n_free, put_data, get_data, vmvars
    <2> QED
      BY <1>1, <2>1
  <1> QED
    BY <1>2, <1>3, <1>4, <1>5, <1>6 DEF Work

\* An entry of the directory stays, unless map_page hangs a new table into it
\* or n_free takes its empty table out.
LEMMA DirStep ==
  ASSUME FrameInv, NEW t \in Threads, Work(t) \/ Call(t), NEW d \in Entries
  PROVE  \/ mem'[0][d] = mem[0][d]
         \/ /\ MapNew(t) /\ d = PDX(Cur(t))
            /\ mem[0][d] = 0 /\ mem'[0][d] = tab[t]
         \/ /\ FreeTable(t) /\ d = PDX(Cur(t))
            /\ mem[0][d] = tab[t] /\ mem'[0][d] = 0
  <1> PICK c : c = Cur(t)
    OBVIOUS
  <1>0. /\ TypeOK /\ 0 \in Frames /\ mem[0] \in [Entries -> Words]
    BY ConstantTypes DEF FrameInv, IndInv, TypeOK
  <1>1. CASE SameTables
    BY <1>1 DEF SameTables
  <1>2. ASSUME NEW g \in Frames \ {0}, NEW w, NEW s, mem' = [mem EXCEPT ![g][s] = w]
        PROVE  mem'[0][d] = mem[0][d]
    BY <1>0, <1>2 DEF TypeOK
  <1>3. CASE MapPage(t) /\ Pde(c) # 0 /\ mem' = [mem EXCEPT ![Pde(c)][PTX(c)] = frame[t]]
    <2>1. c \in Vpns
      BY <1>3, NotLiveYet DEF MapPage
    <2>2. Pde(c) \in Frames
      BY <2>1, Place DEF FrameInv, TablesOK, Pde
    <2> QED
      BY <1>2, <1>3, <2>2
  <1>4. CASE MapNew(t)
    <2>1. /\ mem' = [mem EXCEPT ![tab[t]] = [Zeroes EXCEPT ![PTX(c)] = frame[t]],
                                ![0][PDX(c)] = tab[t]]
          /\ pc[t] = "new"
      BY <1>4 DEF MapNew
    <2>2. c \in Vpns /\ Pde(c) = 0 /\ Unused(tab[t])
      BY <2>1, NotLiveYet DEF FrameInv, HeldOK, HeldBy
    <2>3. PDX(c) \in Entries /\ tab[t] # 0 /\ tab[t] \in Frames
      BY <1>0, <2>2, Place DEF Unused, TypeOK
    <2>4. mem'[0] = [mem[0] EXCEPT ![PDX(c)] = tab[t]]
      BY <1>0, <2>1, <2>3 DEF TypeOK
    <2> QED
      BY <1>0, <1>4, <2>2, <2>3, <2>4 DEF Pde
  <1>5. CASE FreePage(t) /\ idx[t] < num[t] /\ mem' = [mem EXCEPT ![Pde(c)][PTX(c)] = 0]
    <2>1. Pde(c) \in Frames \ {0}
      BY <1>5, FreesMapped DEF FrameInv, FreePage
    <2> QED
      BY <1>2, <1>5, <2>1
  <1>6. CASE FreeTable(t)
    <2>1. mem' = [mem EXCEPT ![0][PDX(c)] = 0] /\ pc[t] = "fdir"
      BY <1>6 DEF FreeTable
    <2>2. tab[t] = Pde(c) /\ c \in Vpns
      BY <2>1, CurOwned DEF FrameInv, HeldOK, HeldBy, ClearedAt
    <2>3. mem'[0] = [mem[0] EXCEPT ![PDX(c)] = 0] /\ PDX(c) \in Entries
      BY <1>0, <2>1, <2>2, Place DEF TypeOK
    <2> QED
      BY <1>0, <1>6, <2>2, <2>3 DEF Pde
  <1> QED
    BY <1>1, <1>3, <1>4, <1>5, <1>6, TableChanges

\* An entry of a page table that is not zero was so before, or is the one
\* map_page has just entered.
LEMMA EntryStep ==
  ASSUME FrameInv, NEW t \in Threads, Work(t) \/ Call(t), NEW d \in Entries,
         NEW s \in Entries, mem'[0][d] # 0, mem'[mem'[0][d]][s] # 0
  PROVE  \/ mem'[0][d] = mem[0][d] /\ mem[mem[0][d]][s] # 0
         \/ Enters(t) /\ Cur(t) \in Vpns /\ PDX(Cur(t)) = d /\ PTX(Cur(t)) = s
  <1> PICK c : c = Cur(t)
    OBVIOUS
  <1>0. /\ TypeOK /\ TablesOK /\ 0 \in Frames /\ mem[0] \in [Entries -> Words]
    BY ConstantTypes DEF FrameInv, IndInv, TypeOK
  <1>1. CASE SameTables
    BY <1>1 DEF SameTables
  <1>2. CASE MapPage(t) /\ pc'[t] = "pbit" /\ Pde(c) # 0
             /\ mem' = [mem EXCEPT ![Pde(c)][PTX(c)] = frame[t]]
    <2>1. c \in Vpns
      BY <1>2, NotLiveYet DEF MapPage
    <2>2. PDX(c) \in Entries /\ PTX(c) \in Entries /\ Pde(c) \in Frames /\ Pde(c) = mem[0][PDX(c)]
      BY <1>0, <2>1, Place DEF TablesOK, Pde
    <2>3. mem'[0][d] = mem[0][d] /\ mem[0][d] \in Frames
      BY <1>0, <1>2, <2>2 DEF TypeOK, TablesOK
    <2>4. CASE d = PDX(c) /\ s = PTX(c)
      BY <1>2, <2>1, <2>4 DEF Enters
    <2>5. CASE d # PDX(c) \/ s # PTX(c)
      <3>1. mem[0][d] # Pde(c) \/ s # PTX(c)
        BY <1>0, <2>2, <2>3, <2>5 DEF TablesOK
      <3>2. mem'[mem[0][d]][s] = mem[mem[0][d]][s]
        BY <1>0, <1>2, <2>2, <2>3, <3>1 DEF TypeOK
      <3> QED
        BY <2>3, <3>2
    <2> QED
      BY <2>4, <2>5
  <1>3. CASE MapNew(t)
    <2>1. /\ mem' = [mem EXCEPT ![tab[t]] = [Zeroes EXCEPT ![PTX(c)] = frame[t]],
                                ![0][PDX(c)] = tab[t]]
          /\ pc[t] = "new"
      BY <1>3 DEF MapNew
    <2>2. c \in Vpns /\ Pde(c) = 0 /\ Unused(tab[t])
      BY <2>1, NotLiveYet DEF FrameInv, HeldOK, HeldBy
    <2>3. PDX(c) \in Entries /\ PTX(c) \in Entries /\ tab[t] # 0 /\ tab[t] \in Frames
      BY <1>0, <2>2, Place DEF Unused, TypeOK
    <2>4. /\ mem'[0] = [mem[0] EXCEPT ![PDX(c)] = tab[t]]
          /\ mem'[tab[t]] = [Zeroes EXCEPT ![PTX(c)] = frame[t]]
          /\ \A g \in Frames : g # 0 /\ g # tab[t] => mem'[g] = mem[g]
      BY <1>0, <2>1, <2>3 DEF TypeOK
    <2>5. CASE d = PDX(c)
      <3>1. mem'[0][d] = tab[t]
        BY <1>0, <2>3, <2>4, <2>5
      <3>2. s # PTX(c) => mem'[tab[t]][s] = 0
        BY <2>4 DEF Zeroes
      <3> QED
        BY <1>3, <2>2, <2>5, <3>1, <3>2 DEF Enters
    <2>6. CASE d # PDX(c)
      <3>1. mem'[0][d] = mem[0][d] /\ mem[0][d] # tab[t] /\ mem[0][d] \in Frames
        BY <1>0, <2>2, <2>3, <2>4, <2>6 DEF Unused, TablesOK
      <3> QED
        BY <2>4, <3>1
    <2> QED
      BY <2>5, <2>6
  <1>4. CASE FreePage(t) /\ idx[t] < num[t] /\ mem' = [mem EXCEPT ![Pde(c)][PTX(c)] = 0]
    <2>1. Pde(c) \in Frames \ {0}
      BY <1>4, FreesMapped DEF FrameInv, FreePage
    <2>2. mem'[0][d] = mem[0][d] /\ mem[0][d] \in Frames
      BY <1>0, <1>4, <2>1 DEF TypeOK, TablesOK
    <2>3. mem'[mem[0][d]][s] = mem[mem[0][d]][s] \/ mem'[mem[0][d]][s] = 0
      BY <1>0, <1>4, <2>1, <2>2 DEF TypeOK
    <2> QED
      BY <2>2, <2>3
  <1>5. CASE FreeTable(t)
    <2>1. mem' = [mem EXCEPT ![0][PDX(c)] = 0] /\ pc[t] = "fdir"
      BY <1>5 DEF FreeTable
    <2>2. c \in Vpns
      BY <2>1, CurOwned DEF FrameInv, ClearedAt
    <2>3. mem'[0] = [mem[0] EXCEPT ![PDX(c)] = 0] /\ \A g \in Frames : g # 0 => mem'[g] = mem[g]
      BY <1>0, <2>1, <2>2, Place DEF TypeOK
    <2>4. mem'[0][d] = mem[0][d] /\ mem[0][d] \in Frames
      BY <1>0, <2>3 DEF TablesOK
    <2> QED
      BY <2>3, <2>4
  <1> QED
    BY <1>1, <1>2, <1>3, <1>4, <1>5, TableChanges

-----------------------------------------------------------------------------
(***************************************************************************)
(* Marked frames are used                                                  *)
(***************************************************************************)
\* A call sets no bit but that of the frame it has allocated.
LEMMA PhysAdds ==
  ASSUME FrameInv, FreshOK, NEW t \in Threads, Work(t) \/ Call(t), NEW f \in phys'
  PROVE  \/ f \in phys
         \/ AllocPageStore(t) /\ f = frame[t]
         \/ AllocTableStore(t) /\ f = tab[t]
  <1>1. CASE AllocPageStore(t)
    BY <1>1 DEF AllocPageStore, AllocStore, StoreSet, FreshOK
  <1>2. CASE AllocTableStore(t)
    BY <1>2 DEF AllocTableStore, AllocStore, StoreSet, FreshOK
  <1>3. CASE MarkPhysStore(t)
    <2>1. phys' = (phys \ ByteOf(frame[t])) \cup byte[t] \cup {frame[t]} /\ byte[t] \subseteq phys
      BY <1>3 DEF MarkPhysStore, AllocStore, StoreSet, FreshOK
    <2>2. pc[t] \in EnterAt /\ Cur(t) \in Vpns /\ Live(Cur(t))
      BY <1>3, CurOwned DEF MarkPhysStore, EnterAt, FrameInv, Live
    <2>3. Pte(Cur(t)) = frame[t] /\ Pte(Cur(t)) \in phys
      BY <2>2 DEF FrameInv, HeldOK, HeldBy, PagesOK
    <2> QED
      BY <2>1, <2>3
  <1> QED
    BY <1>1, <1>2, <1>3, PhysStep

\* Steps from the points where a call holds a frame in its hands.
LEMMA HandsStep ==
  ASSUME FrameInv, NEW t \in Threads, Work(t) \/ Call(t), HasFrame(t) \/ HasTable(t)
  PROVE  \/ (MapPage(t) \/ AllocTable(t) \/ AllocTableStore(t) \/ MapNew(t)) /\ HasFrame(t)
         \/ FreeTableStore(t) /\ pc[t] = "fdirw"
  BY DEF HasFrame, HasTable, Work, Call, AllocPage, AllocPageStore, MapPage, AllocTable,
     AllocTableStore, MapNew, MarkPhys, MarkPhysStore, MarkVirt, MapTLB,
     FreeLock, FreePage, FreeVirt, FreeTLB, FreeTable, FreeTableStore, TLB_check, Walk,
     Refill, Access, n_malloc, n_free, put_data, get_data

\* A call never drops the frame it holds, unless it gives up.
LEMMA HandsKeep ==
  ASSUME FrameInv, NEW t \in Threads, Work(t) \/ Call(t), NoGiveUp
  PROVE  /\ HasFrame(t) => \/ HasFrame(t)' /\ frame'[t] = frame[t]
                           \/ \E v \in Vpns : Live(v)' /\ Pte(v)' = frame[t]
         /\ HasTable(t) => \/ mem'[0][PDX(Cur(t))] = tab[t] /\ PDX(Cur(t)) \in Entries
                           \/ tab[t] \notin phys'
  <1> PICK c : c = Cur(t)
    OBVIOUS
  <1>0. pc \in [Threads -> PCs] /\ TypeOK /\ IndInv /\ 0 \in Frames
    BY ConstantTypes DEF FrameInv, IndInv, TypeOK
  <1>1. CASE Enters(t)
    <2>1. MapPage(t) \/ MapNew(t)
      BY <1>1 DEF Enters
    <2>2. pc'[t] = "pbit" /\ frame' = frame
      BY <1>0, <1>1 DEF Enters, MapNew, MapPage, Goto, alcvars
    <2>3. c \in Vpns /\ Cur(t)' = c
      BY <1>0, <2>1, NotLiveYet, PlacedMap DEF MapPage, MapNew
    <2>4. Live(c)'
      BY <2>1, <2>2, EnterStep DEF Live
    <2>5. HeldBy(t)'
      BY <2>1, <2>2, EnterStep DEF HeldOK
    <2>6. Pte(Cur(t))' = frame[t]
      BY <2>2, <2>5 DEF HeldBy, EnterAt, Pte, Pde
    <2>7. Pte(c)' = frame[t]
      BY <2>3, <2>6 DEF Pte, Pde
    <2>8. HasTable(t) => mem'[0][PDX(c)] = tab[t] /\ PDX(c) \in Entries
      <3> SUFFICES ASSUME HasTable(t) PROVE mem'[0][PDX(c)] = tab[t] /\ PDX(c) \in Entries
        OBVIOUS
      <3>1. MapNew(t)
        BY <2>1 DEF HasTable, MapPage
      <3>2. /\ mem' = [mem EXCEPT ![tab[t]] = [Zeroes EXCEPT ![PTX(c)] = frame[t]],
                                  ![0][PDX(c)] = tab[t]]
            /\ Unused(tab[t])
        BY <3>1 DEF MapNew, FrameInv, HeldOK, HeldBy
      <3>3. PDX(c) \in Entries /\ tab[t] # 0 /\ tab[t] \in Frames
        BY <1>0, <2>3, <3>2, Place DEF Unused, TypeOK
      <3> QED
        BY <1>0, <3>2, <3>3 DEF TypeOK
    <2> QED
      BY <2>3, <2>4, <2>7, <2>8
  <1>2. CASE MapPage(t) /\ ~Enters(t)
    BY <1>0, <1>2 DEF MapPage, Enters, Goto, alcvars, HasFrame, HasTable
  <1>3. CASE AllocTable(t)
    BY <1>0, <1>3 DEF AllocTable, GiveUp, Goto, HasFrame, HasTable, NoGiveUp, AllocAt, FreeAt
  <1>4. CASE AllocTableStore(t)
    BY <1>0, <1>4 DEF AllocTableStore, Goto, HasFrame, HasTable
  <1>5. CASE FreeTableStore(t)
    BY <1>5, PhysStep DEF FreeTableStore, HasFrame, HasTable
  <1> QED
    BY <1>1, <1>2, <1>3, <1>4, <1>5, HandsStep DEF Enters

\* What was used and is still marked is used.
LEMMA UsedStays ==
  ASSUME FrameInv, NEW t \in Threads, Work(t) \/ Call(t), NoGiveUp, NEW f \in phys',
         Used(f)
  PROVE  Used(f)'
  <1>0. pc \in [Threads -> PCs] /\ TypeOK /\ IndInv
    BY DEF FrameInv, IndInv, TypeOK
  <1>1. ASSUME NEW d \in Entries, mem[0][d] = f, f # 0 PROVE Used(f)'
    <2>1. CASE mem'[0][d] = f
      BY <2>1 DEF Used
    <2>2. CASE FreeTable(t) /\ f = tab[t]
      <3>1. pc'[t] = "fdirw" /\ tab'[t] = f
        BY <1>0, <2>2 DEF FreeTable, Goto
      <3> QED
        BY <3>1 DEF Used, HasTable
    <2> QED
      BY <1>1, <2>1, <2>2, DirStep
  <1>2. ASSUME NEW v \in Vpns, Live(v), Pte(v) = f PROVE Used(f)'
    <2>1. CASE Live(v)'
      <3>1. Pte(v)' = f
        BY <1>2, <2>1, MemStep DEF Kept
      <3> QED
        BY <2>1, <3>1 DEF Used
    <2>2. CASE ~Live(v)'
      <3>1. FreePage(t) /\ pc'[t] = "fvirt" /\ v = Cur(t)
        BY <1>2, <2>2, MemStep
      <3>2. phys' = phys \ {Pte(v)}
        BY <1>0, <3>1 DEF FreePage, Goto
      <3> QED
        BY <1>2, <3>2
    <2> QED
      BY <2>1, <2>2
  <1>3. ASSUME NEW u \in Threads, u # t,
               (HasFrame(u) /\ frame[u] = f) \/ (HasTable(u) /\ tab[u] = f)
        PROVE  Used(f)'
    BY <1>0, <1>3, OthersStay, OthersKeep DEF Used, HasFrame, HasTable
  <1>4. CASE (HasFrame(t) /\ frame[t] = f) \/ (HasTable(t) /\ tab[t] = f)
    BY <1>4, HandsKeep DEF Used
  <1>5. CASE f = 0
    BY <1>5 DEF Used
  <1> QED
    BY <1>1, <1>2, <1>3, <1>4, <1>5 DEF Used

\* Every marked frame stays used.
LEMMA PhysUsedStep ==
  ASSUME FrameInv, PhysUsed, FreshOK, NEW t \in Threads, Work(t) \/ Call(t), NoGiveUp
  PROVE  PhysUsed'
  <1>0. pc \in [Threads -> PCs]
    BY DEF FrameInv, IndInv, TypeOK
  <1>1. ASSUME NEW f \in phys' PROVE Used(f)'
    <2>1. CASE f \in phys
      BY <2>1, UsedStays DEF PhysUsed
    <2>2. CASE AllocPageStore(t) /\ f = frame[t]
      <3>1. pc'[t] = "map" /\ frame'[t] = f
        BY <1>0, <2>2 DEF AllocPageStore, Goto
      <3> QED
        BY <3>1 DEF Used, HasFrame
    <2>3. CASE AllocTableStore(t) /\ f = tab[t]
      <3>1. pc'[t] = "new" /\ tab'[t] = f
        BY <1>0, <2>3 DEF AllocTableStore, Goto
      <3> QED
        BY <3>1 DEF Used, HasTable
    <2> QED
      BY <2>1, <2>2, <2>3, PhysAdds
  <1> QED
    BY <1>1 DEF PhysUsed

\* A byte loaded by a set_bit stays free of cleared bits.
LEMMA FreshStep ==
  ASSUME FrameInv, FreshOK, NEW t \in Threads, Work(t) \/ Call(t), NoRevival
  PROVE  FreshOK'
  <1>0. /\ pc \in [Threads -> PCs] /\ byte \in [Threads -> SUBSET Frames]
        /\ frame \in [Threads -> Frames] /\ tab \in [Threads -> Frames]
        /\ \A f : ByteOf(f)' = ByteOf(f)
    BY DEF FrameInv, IndInv, TypeOK, ByteOf
  <1>1. ASSUME NEW u \in Threads \ {t}
        PROVE  /\ pc'[u] \in {"allocw", "pbitw"} => byte'[u] \subseteq phys' \cap ByteOf(frame'[u])
               /\ pc'[u] = "tabw" => byte'[u] \subseteq phys' \cap ByteOf(tab'[u])
    <2>1. /\ pc'[u] = pc[u] /\ frame'[u] = frame[u] /\ tab'[u] = tab[u]
          /\ byte'[u] = byte[u]
      BY OthersStay, OthersKeep DEF FrameInv, IndInv
    <2> QED
      BY <2>1 DEF FreshOK, NoRevival
  <1>2. /\ pc'[t] \in {"allocw", "pbitw"} => byte'[t] \subseteq phys' \cap ByteOf(frame'[t])
        /\ pc'[t] = "tabw" => byte'[t] \subseteq phys' \cap ByteOf(tab'[t])
    <2> USE DEF Goto
    <2>1. CASE AllocPage(t) \/ AllocTable(t)
      BY <1>0, <2>1 DEF AllocPage, AllocTable, AllocLoad, LoadByte, GiveUp
    <2>2. CASE MarkPhys(t) \/ FreeTable(t)
      BY <1>0, <2>2 DEF MarkPhys, FreeTable, LoadByte
    <2>3. CASE \/ AllocPageStore(t) \/ MapPage(t) \/ AllocTableStore(t) \/ MapNew(t)
               \/ MarkPhysStore(t) \/ MarkVirt(t) \/ MapTLB(t)
      BY <1>0, <2>3 DEF AllocPageStore, MapPage, AllocTableStore, MapNew,
         MarkPhysStore, MarkVirt, MapTLB
    <2>4. CASE \/ FreeLock(t) \/ FreePage(t) \/ FreeVirt(t) \/ FreeTLB(t)
               \/ FreeTableStore(t)
      BY <1>0, <2>4 DEF FreeLock, FreePage, FreeVirt, FreeTLB, FreeTableStore
    <2>5. CASE TLB_check(t) \/ Walk(t) \/ Refill(t) \/ Access(t) \/ Call(t)
      BY <1>0, <2>5 DEF TLB_check, Walk, Refill, Access, Return, Call, n_malloc,
                        n_free, put_data, get_data
    <2> QED
      BY <2>1, <2>2, <2>3, <2>4, <2>5 DEF Work
  <1> QED
    <2>1. \A u \in Threads :
             /\ pc'[u] \in {"allocw", "pbitw"} => byte'[u] \subseteq phys' \cap ByteOf(frame'[u])
             /\ pc'[u] = "tabw" => byte'[u] \subseteq phys' \cap ByteOf(tab'[u])
      BY <1>1, <1>2
    <2> QED
      BY <2>1 DEF FreshOK, ByteOf

-----------------------------------------------------------------------------
(***************************************************************************)
(* Page tables in the directory, marked pages, main's page                 *)
(***************************************************************************)
\* n_free leaves a page table in the directory only with another page in it.
LEMMA EmptyingStep ==
  ASSUME FrameInv, TablesUsed, NEW t \in Threads, Work(t) \/ Call(t), Emptying(t),
         NEW d \in Entries, d = PDX(Cur(t)), mem'[0][d] # 0
  PROVE  \E v \in Vpns :
           PDX(v) = d /\ (Live(v)' \/ \E u \in Threads : Emptying(u)' /\ Cur(u)' = v)
  <1> PICK c : c = Cur(t)
    OBVIOUS
  <1>0. /\ pc \in [Threads -> PCs] /\ TypeOK /\ IndInv /\ TablesOK /\ LiveOK
        /\ tab[t] = Pde(c) /\ tab[t] # 0 /\ c \in Vpns
    BY CurOwned DEF FrameInv, IndInv, TypeOK, Emptying, HeldOK, HeldBy, ClearedAt
  <1>1. FreeVirt(t) \/ FreeTLB(t) \/ FreeTable(t)
    BY DEF Emptying, Work, Call, AllocPage, AllocPageStore, MapPage, AllocTable,
       AllocTableStore, MapNew, MarkPhys, MarkPhysStore, MarkVirt, MapTLB,
       FreeLock, FreePage, FreeVirt, FreeTLB, FreeTable, FreeTableStore, TLB_check, Walk,
       Refill, Access, n_malloc, n_free, put_data, get_data
  <1>2. CASE pc'[t] \in {"ftlb", "fdir"}
    <2>1. Cur(t)' = c /\ Emptying(t)'
      BY <1>0, <1>1, <1>2 DEF FreeVirt, FreeTLB, FreeTable, Goto, Cur, regvars, Emptying
    <2> QED
      BY <1>0, <2>1
  <1>3. CASE FreeTLB(t) /\ ~TableEmpty(tab[t])
    <2>1. tab[t] = mem[0][d] /\ mem[0][d] \in Frames
      BY <1>0 DEF Pde, TablesOK
    <2>2. PICK s \in Entries : mem[mem[0][d]][s] # 0
      BY <1>0, <1>3, <2>1 DEF TableEmpty, Zeroes, TypeOK
    <2>3. PICK v \in Vpns : PDX(v) = d /\ PTX(v) = s
      BY <1>0, <2>1, <2>2 DEF TablesUsed
    <2>4. Live(v)
      BY <1>0, <2>1, <2>2, <2>3 DEF LiveOK, Mapped, Pde, Pte
    <2>5. ~FreePage(t)
      BY <1>3 DEF FreeTLB, FreePage
    <2>6. Live(v)'
      BY <2>4, <2>5, MemStep
    <2> QED
      BY <2>3, <2>6
  <1>4. CASE FreeTable(t)
    <2>1. mem'[0] = [mem[0] EXCEPT ![d] = 0]
      BY <1>0, <1>4, ConstantTypes DEF FreeTable, TypeOK
    <2> QED
      BY <1>0, <2>1, ConstantTypes DEF TypeOK
  <1> QED
    BY <1>0, <1>1, <1>2, <1>3, <1>4 DEF FreeVirt, FreeTLB, Goto

\* Every page table in the directory keeps a page, or is being emptied.
LEMMA TablesUsedStep ==
  ASSUME FrameInv, TablesUsed, NEW t \in Threads, Work(t) \/ Call(t)
  PROVE  TablesUsed'
  <1>0. /\ pc \in [Threads -> PCs] /\ IndInv /\ TypeOK
    BY DEF FrameInv, IndInv, TypeOK
  <1>1. ASSUME NEW d \in Entries, mem'[0][d] # 0, NEW s \in Entries, mem'[mem'[0][d]][s] # 0
        PROVE  \E v \in Vpns : PDX(v) = d /\ PTX(v) = s
    <2>1. CASE mem'[0][d] = mem[0][d] /\ mem[mem[0][d]][s] # 0
      BY <1>1, <2>1 DEF TablesUsed
    <2> QED
      BY <1>1, <2>1, EntryStep
  <1>2. ASSUME NEW d \in Entries, mem'[0][d] # 0
        PROVE  \E v \in Vpns :
                 PDX(v) = d /\ (Live(v)' \/ \E u \in Threads : Emptying(u)' /\ Cur(u)' = v)
    <2>1. CASE MapNew(t) /\ d = PDX(Cur(t))
      <3> PICK c : c = Cur(t)
        OBVIOUS
      <3>1. pc'[t] = "pbit"
        BY <1>0, <2>1 DEF MapNew, Goto
      <3>2. c \in Vpns /\ Live(c)'
        BY <2>1, <3>1, EnterStep
      <3> QED
        BY <2>1, <3>2
    <2>2. CASE mem'[0][d] = mem[0][d]
      <3>1. PICK v \in Vpns :
              PDX(v) = d /\ (Live(v) \/ \E u \in Threads : Emptying(u) /\ Cur(u) = v)
        BY <1>2, <2>2 DEF TablesUsed
      <3>2. CASE Live(v)
        <4>1. CASE Live(v)'
          BY <3>1, <4>1
        <4>2. CASE ~Live(v)'
          <5>1. pc'[t] = "fvirt" /\ v = Cur(t)'
            BY <3>2, <4>2, MemStep
          <5> QED
            BY <3>1, <5>1 DEF Emptying
        <4> QED
          BY <4>1, <4>2
      <3>3. ASSUME NEW u \in Threads, u # t, Emptying(u), Cur(u) = v
            PROVE  Emptying(u)' /\ Cur(u)' = v
        BY <1>0, <3>3, OthersStay, PlacedOthers DEF Emptying
      <3>4. CASE Emptying(t) /\ Cur(t) = v
        BY <1>2, <3>1, <3>4, EmptyingStep
      <3> QED
        BY <3>1, <3>2, <3>3, <3>4
    <2> QED
      BY <1>2, <2>1, <2>2, DirStep
  <1> QED
    <2>1. \A v : PDX(v)' = PDX(v) /\ PTX(v)' = PTX(v)
      BY DEF PDX, PTX
    <2> QED
      BY <1>1, <1>2, <2>1 DEF TablesUsed

\* A call that does not give up forgets no page: it leaves all as it is, takes
\* a block or gives its lowest page back.
LEMMA NothingForgotten ==
  ASSUME FrameInv, NoGiveUp, NEW t \in Threads, Work(t) \/ Call(t)
  PROVE  Keeps(t) \/ Takes(t) \/ Returns(t)
  <1> USE DEF Goto, regvars, vmvars
  <1>0. /\ base[t] \in Nat /\ num[t] \in Nat /\ idx[t] \in Nat /\ IndInv
        /\ pc \in [Threads -> PCs] /\ idx \in [Threads -> Nat]
        /\ num \in [Threads -> Nat] /\ base \in [Threads -> Nat]
    BY DEF FrameInv, IndInv, TypeOK
  <1>1. CASE AllocPage(t) \/ AllocTable(t)
    <2>1. ~GiveUp(t) /\ pc[t] \in AllocAt
      BY <1>0, <1>1 DEF NoGiveUp, AllocAt, FreeAt, AllocPage, AllocTable, GiveUp
    <2> QED
      BY <1>0, <1>1, <2>1 DEF AllocPage, AllocTable, Keeps, Owned, FirstOwned
  <1>2. CASE AllocPageStore(t) \/ AllocTableStore(t) \/ MarkPhysStore(t)
    BY <1>0, <1>2 DEF AllocPageStore, AllocTableStore, MarkPhysStore, Keeps, Owned, FirstOwned
  <1>3. CASE MapPage(t) \/ MapNew(t) \/ MarkPhys(t)
    BY <1>0, <1>3 DEF MapPage, MapNew, MarkPhys, Keeps, Owned, FirstOwned
  <1>4. CASE MarkVirt(t)
    <2>1. Cur(t) \in Owned(t)
      BY <1>0, <1>4, CurOwned DEF MarkVirt, EnterAt
    <2>2. virt' = virt
      BY <1>0, <1>4, <2>1 DEF MarkVirt, IndInv, VirtExclusive
    <2> QED
      BY <1>0, <1>4, <2>2 DEF MarkVirt, Keeps, Owned, FirstOwned
  <1>5. CASE MapTLB(t)
    BY <1>0, <1>5 DEF MapTLB, Keeps, Owned, FirstOwned
  <1>6. CASE n_free(t)
    <2>1. idx[t] = 0
      BY <1>0, <1>6 DEF n_free, IndInv, RegionOK, Rest
    <2> QED
      BY <1>0, <1>6, <2>1 DEF n_free, Keeps, Owned, FirstOwned
  <1>7. CASE FreeLock(t) \/ FreeTable(t)
    BY <1>0, <1>7 DEF FreeLock, FreeTable, Keeps, Owned, FirstOwned
  <1>8. CASE FreePage(t)
    <2>1. idx[t] < num[t] => Mapped(Cur(t)) /\ Pte(Cur(t)) \in Frames
      BY <1>0, <1>8, FreesMapped DEF FrameInv, FreePage
    <2>2. CASE idx[t] < num[t]
      <3>1. pc' = [pc EXCEPT ![t] = "fvirt"] /\ UNCHANGED <<base, num, idx, virt>>
        BY <1>0, <1>8, <2>1, <2>2 DEF FreePage
      <3> QED
        BY <1>0, <1>8, <3>1 DEF FreePage, Keeps, Owned, FirstOwned
    <2>3. CASE idx[t] = num[t]
      <3>1. /\ pc[t] = "fpage" /\ pc'[t] = "idle" /\ base'[t] = 0 /\ num'[t] = 0
            /\ virt' = virt
        BY <1>0, <1>8, <2>3 DEF FreePage, Forget
      <3>2. /\ Owned(t) = (base[t] + num[t]) .. (base[t] + num[t] - 1)
            /\ Owned(t)' = (0 + 0) .. (0 + 0 - 1)
        BY <2>3, <3>1 DEF Owned, FirstOwned
      <3>3. Owned(t) = {} /\ Owned(t)' = {}
        BY <1>0, <3>2
      <3> QED
        BY <3>1, <3>3 DEF Keeps
    <2> QED
      BY <1>0, <1>8, <2>2, <2>3 DEF FreePage
  <1>9. CASE FreeVirt(t)
    <2>1. Cur(t) \in virt /\ virt' = virt \ {Cur(t)}
      BY <1>0, <1>9, CurOwned DEF FreeVirt, IndInv, VirtExclusive
    <2>2. virt' # virt
      BY <2>1
    <2> QED
      BY <1>0, <1>9, <2>2, MovesFree DEF Keeps, Loses
  <1>10. CASE FreeTLB(t) \/ FreeTableStore(t)
    BY <1>0, <1>10 DEF FreeTLB, FreeTableStore, Keeps, Owned, FirstOwned
  <1>11. CASE put_data(t) \/ \E u \in Threads : get_data(t, u)
    BY <1>0, <1>11 DEF put_data, get_data, Keeps, Owned, FirstOwned
  <1>12. CASE TLB_check(t) \/ Walk(t) \/ Refill(t)
    BY <1>0, <1>12 DEF TLB_check, Walk, Refill, Return, Keeps, Owned, FirstOwned
  <1>13. CASE Access(t)
    <2>1. pc'[t] # "fault"
      BY NoFault
    <2> QED
      BY <1>0, <1>13, <2>1 DEF Access, NextPage, Keeps, Owned, FirstOwned
  <1>14. CASE \E n \in 1 .. MaxPages : n_malloc(t, n)
    BY <1>0, <1>14, MovesMalloc
  <1> QED
    BY <1>1, <1>2, <1>3, <1>4, <1>5, <1>6, <1>7, <1>8, <1>9, <1>10, <1>11, <1>12,
       <1>13, <1>14 DEF Work, Call

\* Every marked page keeps its owner.
LEMMA VirtUsedStep ==
  ASSUME FrameInv, VirtUsed, NEW t \in Threads, Work(t) \/ Call(t), NoGiveUp
  PROVE  VirtUsed'
  <1>0. \A u \in Threads \ {t} : Owned(u)' = Owned(u)
    BY MovesStep DEF FrameInv
  <1>1. ASSUME NEW v \in virt' PROVE v \in MainPages \/ \E u \in Threads : v \in Owned(u)'
    <2>1. CASE v \in virt /\ v \notin Owned(t)
      BY <1>0, <2>1 DEF VirtUsed
    <2>2. CASE Keeps(t)
      BY <1>1, <2>1, <2>2 DEF Keeps
    <2>3. CASE Takes(t)
      BY <1>1, <2>1, <2>3 DEF Takes, get_next_avail
    <2>4. CASE Returns(t)
      BY <1>1, <2>1, <2>4 DEF Returns
    <2> QED
      BY <2>2, <2>3, <2>4, NothingForgotten
  <1> QED
    BY <1>1 DEF VirtUsed, MainPages

\* main's page stays where it is: a live page keeps its place.
LEMMA MainPlaceStep ==
  ASSUME FrameInv, MainPlace, NEW t \in Threads, Work(t) \/ Call(t)
  PROVE  MainPlace'
  <1> SUFFICES ASSUME Pinned PROVE Pde(1)' = 2 /\ Pte(1)' = 1
    BY DEF MainPlace
  <1>1. 1 \in Vpns
    BY VMemAssumption DEF Vpns
  <1>2. Live(1) /\ Live(1)'
    BY DEF Live, MainPages
  <1> QED
    BY <1>1, <1>2, MemStep DEF Kept, MainPlace

-----------------------------------------------------------------------------
(***************************************************************************)
(* Whatever is marked stays used                                           *)
(***************************************************************************)
\* Right after set_physical_mem() only main's page and its table are marked.
LEMMA UsedInit == Init => UsedInv
  <1> SUFFICES ASSUME Init PROVE UsedInv
    OBVIOUS
  <1>0. /\ \A v : Live(v) <=> v \in MainPages
        /\ \A t \in Threads : pc[t] = "idle"
        /\ MainPages \subseteq Vpns
    BY MainLive DEF Init
  <1>1. FreshOK
    BY <1>0 DEF FreshOK
  <1>2. VirtUsed
    BY DEF Init, VirtUsed, MainPages
  <1>3. CASE Pinned
    <2>1. /\ {0, 1, 2} \subseteq Frames /\ {0, 1} \subseteq Entries
          /\ phys = {0, 1, 2}
          /\ \A d \in Entries : mem[0][d] = IF d = 0 THEN 2 ELSE 0
          /\ \A s \in Entries : mem[2][s] = IF s = 1 THEN 1 ELSE 0
          /\ PDX(1) = 0 /\ PTX(1) = 1
      BY <1>3, MainTable
    <2>2. Pde(1) = 2 /\ Pte(1) = 1 /\ Live(1) /\ 1 \in Vpns
      BY <1>0, <1>3, <2>1 DEF Pde, Pte, MainPages
    <2>3. MainPlace
      BY <2>2 DEF MainPlace
    <2>4. PhysUsed
      BY <2>1, <2>2 DEF PhysUsed, Used
    <2>5. TablesUsed
      <3> SUFFICES ASSUME NEW d \in Entries, mem[0][d] # 0
                   PROVE  /\ \A s \in Entries : mem[mem[0][d]][s] # 0 =>
                               \E v \in Vpns : PDX(v) = d /\ PTX(v) = s
                          /\ \E v \in Vpns : PDX(v) = d /\ Live(v)
        BY DEF TablesUsed
      <3>1. d = 0 /\ mem[0][d] = 2
        BY <2>1
      <3> QED
        BY <2>1, <2>2, <3>1
    <2> QED
      BY <1>1, <1>2, <2>3, <2>4, <2>5 DEF UsedInv
  <1>4. CASE ~Pinned
    <2>1. phys = {0} /\ \A d \in Entries : mem[0][d] = 0
      BY <1>4, MainTable
    <2> QED
      BY <1>1, <1>2, <1>4, <2>1 DEF UsedInv, PhysUsed, Used, TablesUsed, MainPlace
  <1> QED
    BY <1>3, <1>4

\* A step that changes nothing but the phase.
LEMMA UsedQuiet ==
  ASSUME UsedInv, UNCHANGED <<phys, virt, mem, pc, base, num, idx, frame, tab, byte>>
  PROVE  UsedInv'
  <1>1. /\ \A v : Live(v)' <=> Live(v)
        /\ \A v : Pde(v)' = Pde(v) /\ Pte(v)' = Pte(v)
        /\ \A v : PDX(v)' = PDX(v) /\ PTX(v)' = PTX(v)
        /\ \A t \in Threads : Cur(t)' = Cur(t) /\ Owned(t)' = Owned(t)
    BY DEF Live, Placed, Pde, Pte, PDX, PTX, Cur, Owned, FirstOwned
  <1>2. PhysUsed'
    BY <1>1 DEF UsedInv, PhysUsed, Used, HasFrame, HasTable
  <1>3. FreshOK'
    BY DEF UsedInv, FreshOK, ByteOf
  <1>4. TablesUsed'
    BY <1>1 DEF UsedInv, TablesUsed, Emptying
  <1>5. VirtUsed' /\ MainPlace'
    BY <1>1 DEF UsedInv, VirtUsed, MainPlace, Pde, Pte
  <1> QED
    BY <1>2, <1>3, <1>4, <1>5 DEF UsedInv

\* Every thrifty step keeps the invariant.
LEMMA UsedStep == FrameInv /\ UsedInv /\ [Next]_vars /\ [Thrifty]_vars => UsedInv'
  <1> SUFFICES ASSUME FrameInv, UsedInv, [Next]_vars, [Thrifty]_vars PROVE UsedInv'
    OBVIOUS
  <1>1. ASSUME NEW t \in Threads, Work(t) \/ Call(t), Thrifty PROVE UsedInv'
    BY <1>1, PhysUsedStep, FreshStep, TablesUsedStep, VirtUsedStep, MainPlaceStep
       DEF UsedInv, Thrifty
  <1>2. CASE UNCHANGED vars
    BY <1>2, UsedQuiet DEF vars, vmvars, alcvars
  <1>3. CASE Advance
    BY <1>3, UsedQuiet DEF Advance, vmvars, alcvars, regvars
  <1> QED
    BY <1>1, <1>2, <1>3 DEF Next, Terminated, Crashed

\* When nobody is inside a call or holds a region, what is used is main's.
LEMMA UsedIsEnough == FrameInv /\ UsedInv => NothingLeaks
  <1> SUFFICES ASSUME FrameInv, UsedInv, \A t \in Threads : pc[t] = "idle"
               PROVE  /\ virt = IF Pinned THEN {1} ELSE {}
                      /\ phys = IF Pinned THEN {0, 1, 2} ELSE {0}
    BY DEF NothingLeaks
  <1>1. \A t \in Threads : Placed(t) = {} /\ Owned(t) = {}
    <2> TAKE t \in Threads
    <2>1. pc[t] = "idle" /\ base[t] \in Nat /\ num[t] = 0
      BY DEF FrameInv, IndInv, TypeOK, RegionOK
    <2>2. Placed(t) = base[t] .. base[t] + 0 - 1
      BY <2>1, PlacedAt DEF Rest
    <2>3. Owned(t) = (base[t] + 0) .. (base[t] + 0 - 1)
      BY <2>1, OwnedAt DEF PCs, Rest
    <2> QED
      BY <2>1, <2>2, <2>3
  <1>2. \A v : Live(v) <=> v \in MainPages
    BY <1>1 DEF Live
  <1>3. virt = MainPages
    BY <1>1 DEF FrameInv, MainOK, UsedInv, VirtUsed
  <1>4. TablesOK /\ PagesOK /\ LiveOK
    BY DEF FrameInv
  <1>5. Pinned => /\ 1 \in Vpns /\ Pde(1) = 2 /\ Pte(1) = 1 /\ PDX(1) \in Entries
                  /\ {0, 1, 2} \subseteq phys
    <2> SUFFICES ASSUME Pinned
                 PROVE  /\ 1 \in Vpns /\ Pde(1) = 2 /\ Pte(1) = 1 /\ PDX(1) \in Entries
                        /\ {0, 1, 2} \subseteq phys
      OBVIOUS
    <2>1. 1 \in Vpns /\ Live(1) /\ Pde(1) = 2 /\ Pte(1) = 1
      BY <1>2, VMemAssumption DEF Vpns, MainPages, UsedInv, MainPlace
    <2>2. 1 \in phys
      BY <1>4, <2>1 DEF PagesOK
    <2>3. PDX(1) \in Entries /\ mem[0][PDX(1)] = 2
      BY <2>1, Place DEF Pde
    <2>4. 2 \in phys /\ 0 \in phys
      BY <1>4, <2>3 DEF TablesOK
    <2> QED
      BY <2>1, <2>2, <2>3, <2>4
  <1>6. ASSUME NEW f \in phys PROVE f = 0 \/ (Pinned /\ f \in {1, 2})
    <2>1. Used(f)
      BY DEF UsedInv, PhysUsed
    <2>2. ASSUME NEW d \in Entries, mem[0][d] = f, f # 0 PROVE Pinned /\ f = 2
      <3>1. PICK v \in Vpns : PDX(v) = d /\ Live(v)
        BY <2>2 DEF UsedInv, TablesUsed, Emptying
      <3>2. Pinned /\ v = 1
        BY <1>2, <3>1 DEF MainPages
      <3> QED
        BY <1>5, <2>2, <3>1, <3>2 DEF Pde
    <2>3. ASSUME NEW v \in Vpns, Live(v), Pte(v) = f PROVE Pinned /\ f = 1
      BY <1>2, <1>5, <2>3 DEF MainPages
    <2>4. \A t \in Threads : ~HasFrame(t) /\ ~HasTable(t)
      BY DEF HasFrame, HasTable
    <2> QED
      BY <2>1, <2>2, <2>3, <2>4 DEF Used
  <1>7. 0 \in phys
    BY <1>4 DEF TablesOK
  <1> QED
    BY <1>3, <1>5, <1>6, <1>7 DEF MainPages

\* When all threads have freed what they got, every page and every frame has
\* been returned, unless one of the four things has happened that the code
\* lets happen: the lost update of a clear_bit, the redirected TLB pointer,
\* the set_bit that brings a cleared bit back, the n_malloc that runs out of
\* frames half way.
THEOREM NothingIsLost == Spec /\ [][Careful /\ Thrifty]_vars => []NothingLeaks
  <1>1. Init => FrameInv /\ UsedInv
    BY FrameInit, UsedInit
  <1>2. FrameInv /\ UsedInv /\ [Next]_vars /\ [Careful /\ Thrifty]_vars => FrameInv' /\ UsedInv'
    BY FrameStep, UsedStep
  <1> QED
    BY <1>1, <1>2, UsedIsEnough, PTL DEF Spec

-----------------------------------------------------------------------------
(***************************************************************************)
(* What threads do in which phase                                          *)
(***************************************************************************)
\* The steps of n_malloc, put_data and get_data, n_free; translate never
\* walks the page tables.
Allocating(t) ==
  \/ AllocPage(t) \/ AllocPageStore(t) \/ MapPage(t) \/ AllocTable(t)
  \/ AllocTableStore(t) \/ MapNew(t) \/ MarkPhys(t) \/ MarkPhysStore(t)
  \/ MarkVirt(t) \/ MapTLB(t) \/ \E n \in 1 .. MaxPages : n_malloc(t, n)
UsingData(t) ==
  TLB_check(t) \/ Access(t) \/ put_data(t) \/ \E u \in Threads : get_data(t, u)
Freeing(t) ==
  \/ FreeLock(t) \/ FreePage(t) \/ FreeVirt(t) \/ FreeTLB(t)
  \/ FreeTable(t) \/ FreeTableStore(t) \/ n_free(t)

\* Every call belongs to its phase.
LEMMA ByPhase ==
  ASSUME PhasesOK, NEW t \in Threads, Work(t) \/ Call(t)
  PROVE  /\ phase' = phase
         /\ \/ phase = "alloc" /\ Allocating(t)
            \/ phase = "use" /\ UsingData(t)
            \/ phase = "free" /\ Freeing(t)
  <1>0. /\ pc[t] \in AllocAt \cup EnterAt => phase = "alloc"
        /\ pc[t] \in DataAt => phase = "use"
        /\ pc[t] \in FreeAt \cup ClearedAt => phase = "free"
        /\ pc[t] \notin {"walk", "refill"} /\ phase # "any"
    BY DEF PhasesOK
  <1>1. CASE \/ AllocPage(t) \/ AllocPageStore(t) \/ MapPage(t) \/ AllocTable(t)
             \/ AllocTableStore(t) \/ MapNew(t) \/ MarkPhys(t) \/ MarkPhysStore(t)
             \/ MarkVirt(t) \/ MapTLB(t)
    <2>1. pc[t] \in AllocAt \cup EnterAt
      BY <1>1 DEF AllocPage, AllocPageStore, MapPage, AllocTable, AllocTableStore,
         MapNew, MarkPhys, MarkPhysStore, MarkVirt, MapTLB, AllocAt, EnterAt
    <2> QED
      BY <1>0, <1>1, <2>1, PhaseStays DEF Allocating
  <1>2. CASE \/ FreeLock(t) \/ FreePage(t) \/ FreeVirt(t) \/ FreeTLB(t)
             \/ FreeTable(t) \/ FreeTableStore(t)
    <2>1. pc[t] \in FreeAt \cup ClearedAt
      BY <1>2 DEF FreeLock, FreePage, FreeVirt, FreeTLB, FreeTable, FreeTableStore,
         FreeAt, ClearedAt
    <2> QED
      BY <1>0, <1>2, <2>1, PhaseStays DEF Freeing
  <1>3. CASE TLB_check(t) \/ Walk(t) \/ Refill(t) \/ Access(t)
    <2>1. (TLB_check(t) \/ Access(t)) /\ pc[t] \in DataAt
      BY <1>0, <1>3 DEF TLB_check, Walk, Refill, Access, DataAt
    <2> QED
      BY <1>0, <2>1, PhaseStays DEF UsingData
  <1>4. CASE Call(t)
    BY <1>0, <1>4 DEF Call, n_malloc, n_free, put_data, get_data, Allocating, UsingData, Freeing
  <1> QED
    BY <1>1, <1>2, <1>3, <1>4 DEF Work

\* No bit is cleared while pages are allocated, none set while they are freed,
\* and no TLB slot changes while they are used.
LEMMA PhaseEffects ==
  ASSUME FrameInv, PhasesOK, NEW t \in Threads, Work(t) \/ Call(t)
  PROVE  /\ phase = "alloc" => phys \subseteq phys'
         /\ phase = "free" => phys' \subseteq phys
         /\ phase = "use" => tlb' = tlb
  <1>1. CASE phase = "alloc"
    <2>1. ~FreePage(t) /\ ~FreeTableStore(t)
      BY <1>1 DEF PhasesOK, FreePage, FreeTableStore, FreeAt, ClearedAt
    <2> QED
      BY <1>1, <2>1, PhysStep DEF Marks
  <1>2. CASE phase = "free"
    <2>1. ~AllocPageStore(t) /\ ~AllocTableStore(t) /\ ~MarkPhysStore(t)
      BY <1>2 DEF PhasesOK, AllocPageStore, AllocTableStore, MarkPhysStore, AllocAt, EnterAt
    <2> QED
      BY <1>2, <2>1, PhysStep
  <1>3. CASE phase = "use"
    <2>1. UsingData(t)
      BY <1>3, ByPhase
    <2> QED
      BY <1>3, <2>1 DEF UsingData, TLB_check, Access, put_data, get_data, vmvars
  <1> QED
    BY <1>1, <1>2, <1>3

\* In phases none of the races can strike.
LEMMA PhasesAreCareful ==
  ASSUME FrameInv, PhasesOK, NEW t \in Threads, Work(t) \/ Call(t)
  PROVE  Careful /\ NoRevival
  <1>1. NoLostUpdate
    BY PhaseEffects DEF NoLostUpdate, PhasesOK, ClearedAt
  <1>2. NoRedirect
    BY PhaseEffects DEF NoRedirect, PhasesOK, DataAt
  <1>3. NoRevival
    BY PhaseEffects DEF NoRevival, PhasesOK, AllocAt, EnterAt
  <1> QED
    BY <1>1, <1>2, <1>3 DEF Careful

-----------------------------------------------------------------------------
(***************************************************************************)
(* Counting: there is always a frame left                                  *)
(***************************************************************************)
\* What the elements of a finite set S are mapped onto is no larger than S.
LEMMA Covered ==
  ASSUME NEW S, IsFiniteSet(S), NEW T, NEW f, \A y \in T : \E x \in S : f[x] = y
  PROVE  IsFiniteSet(T) /\ Cardinality(T) <= Cardinality(S)
  <1>1. CASE T = {}
    BY <1>1, FS_EmptySet, FS_CardinalityType
  <1>2. ASSUME NEW z \in T PROVE IsFiniteSet(T) /\ Cardinality(T) <= Cardinality(S)
    <2> DEFINE h == [x \in S |-> IF f[x] \in T THEN f[x] ELSE z]
    <2>1. h \in Surjection(S, T)
      <3>1. h \in [S -> T]
        BY <1>2
      <3>2. \A y \in T : \E x \in S : h[x] = y
        OBVIOUS
      <3> QED
        BY <3>1, <3>2 DEF Surjection
    <2> QED
      BY <2>1, FS_Surjection
  <1> QED
    BY <1>1, <1>2

\* The places where a thread can hold a page: its k-th one.
Places == Threads \X (0 .. MaxPages - 1)

\* There are as many as the threads can hold pages at a time.
LEMMA PlacesCount ==
  ASSUME IsFiniteSet(Threads)
  PROVE  /\ IsFiniteSet(Places)
         /\ Cardinality(Places) = Cardinality(Threads) * MaxPages
         /\ Cardinality(Places) \in Nat
  <1>1. IsFiniteSet(0 .. MaxPages - 1) /\ Cardinality(0 .. MaxPages - 1) = MaxPages
    BY FS_Interval, VMemAssumption
  <1> QED
    BY <1>1, FS_Product, FS_CardinalityType DEF Places

\* The place of a page that a thread has in the page tables, which is not the
\* place of the page its call is about to enter.
LEMMA PlaceOf ==
  ASSUME FrameInv, PhasesOK, phase = "alloc", NEW u \in Threads, NEW v \in Placed(u)
  PROVE  \E k \in 0 .. MaxPages - 1 :
           v = base[u] + k /\ (pc[u] \in AllocAt => k # idx[u])
  <1>0. /\ base[u] \in Nat /\ num[u] \in Nat /\ idx[u] \in Nat /\ num[u] <= MaxPages
        /\ MaxPages \in Nat /\ pc[u] \in PCs
        /\ pc[u] \notin DataAt \cup FreeAt \cup ClearedAt \cup {"fault"}
        /\ pc[u] \in Rest => idx[u] = 0
        /\ pc[u] = "alloc" => idx[u] <= num[u]
        /\ pc[u] \in (AllocAt \ {"alloc"}) \cup EnterAt => idx[u] < num[u]
    BY VMemAssumption DEF FrameInv, IndInv, TypeOK, RegionOK, PhasesOK, PhaseOK, AllocAt, EnterAt
  <1>1. CASE pc[u] \in AllocAt
    <2>1. v \in base[u] .. base[u] + idx[u] - 1 /\ idx[u] <= num[u]
      BY <1>0, <1>1, PlacedAt
    <2>2. PICK b, i, n, M \in Nat : b = base[u] /\ i = idx[u] /\ n = num[u] /\ M = MaxPages
      BY <1>0
    <2>3. v \in b .. b + i - 1 /\ i <= n /\ n <= M
      BY <1>0, <2>1, <2>2
    <2>4. v - b \in 0 .. M - 1 /\ v = b + (v - b) /\ v - b # i
      BY <2>3
    <2> QED
      BY <2>2, <2>4
  <1>2. CASE pc[u] \notin AllocAt
    <2>1. v \in base[u] .. base[u] + num[u] - 1
      <3>1. CASE pc[u] \in EnterAt
        <4>1. v \in base[u] .. base[u] + idx[u] /\ idx[u] < num[u]
          BY <1>0, <3>1, PlacedAt
        <4> QED
          BY <1>0, <4>1
      <3>2. CASE pc[u] \in Rest
        BY <3>2, PlacedAt
      <3> QED
        BY <1>0, <1>2, <3>1, <3>2 DEF PCs, Rest, AllocAt, EnterAt, DataAt, FreeAt, ClearedAt
    <2>2. v - base[u] \in 0 .. MaxPages - 1 /\ v = base[u] + (v - base[u])
      BY <1>0, <2>1
    <2> QED
      BY <1>2, <2>2
  <1> QED
    BY <1>1, <1>2

\* Every used frame but the directory has a place: an entry of the directory,
\* a page of main's or a place of a thread.  The call that is looking for a
\* frame leaves one of them empty.
FrameOfEntry(d) ==
  IF mem[0][d] # 0 THEN mem[0][d]
  ELSE tab[CHOOSE u \in Threads : pc[u] = "new" /\ PDX(Cur(u)) = d]
FrameOfPlace(p) ==
  IF HasFrame(p[1]) /\ p[2] = idx[p[1]] THEN frame[p[1]] ELSE Pte(base[p[1]] + p[2])

\* The place of a frame in the hands of an n_malloc.
LEMMA UsedPlaces ==
  ASSUME FrameInv, PhasesOK, phase = "alloc", NEW f, Used(f), f # 0
  PROVE  \/ \E d \in Entries : FrameOfEntry(d) = f /\ (mem[0][d] # 0 \/
              \E u \in Threads : pc[u] = "new" /\ PDX(Cur(u)) = d)
         \/ \E v \in MainPages : Pte(v) = f
         \/ \E p \in Places : FrameOfPlace(p) = f /\ (pc[p[1]] = "alloc" => p[2] # idx[p[1]])
  <1>0. /\ \A u \in Threads : pc[u] # "fdirw" /\ idx[u] \in Nat /\ num[u] \in Nat
                              /\ num[u] <= MaxPages /\ base[u] \in Nat
                              /\ (HasFrame(u) => idx[u] < num[u])
        /\ MaxPages \in Nat
    BY VMemAssumption DEF PhasesOK, ClearedAt, FrameInv, IndInv, TypeOK, RegionOK, HasFrame
  <1>1. ASSUME NEW d \in Entries, mem[0][d] = f
        PROVE  FrameOfEntry(d) = f /\ mem[0][d] # 0
    BY <1>1 DEF FrameOfEntry
  <1>2. ASSUME NEW u \in Threads, NEW v \in Placed(u), Pte(v) = f
        PROVE  \E p \in Places : FrameOfPlace(p) = f /\ (pc[p[1]] = "alloc" => p[2] # idx[p[1]])
    <2>1. PICK k \in 0 .. MaxPages - 1 :
            v = base[u] + k /\ (pc[u] \in AllocAt => k # idx[u])
      BY PlaceOf
    <2>2. FrameOfPlace(<<u, k>>) = f
      BY <1>2, <2>1 DEF FrameOfPlace, HasFrame, AllocAt
    <2>3. <<u, k>> \in Places /\ (pc[u] = "alloc" => k # idx[u])
      BY <2>1 DEF Places, AllocAt
    <2> QED
      BY <2>2, <2>3
  <1>3. ASSUME NEW u \in Threads, HasFrame(u), frame[u] = f
        PROVE  \E p \in Places : FrameOfPlace(p) = f /\ (pc[p[1]] = "alloc" => p[2] # idx[p[1]])
    <2>1. <<u, idx[u]>> \in Places
      BY <1>0, <1>3 DEF Places
    <2>2. FrameOfPlace(<<u, idx[u]>>) = f /\ pc[u] # "alloc"
      BY <1>3 DEF FrameOfPlace, HasFrame
    <2> QED
      BY <2>1, <2>2
  <1>4. ASSUME NEW u \in Threads, HasTable(u), tab[u] = f
        PROVE  \E d \in Entries : /\ FrameOfEntry(d) = f
                                  /\ \E w \in Threads : pc[w] = "new" /\ PDX(Cur(w)) = d
    <2>1. pc[u] = "new"
      BY <1>0, <1>4 DEF HasTable
    <2>2. \A w \in Threads : pc[w] = "new" => w = u
      BY <2>1 DEF FrameInv, LockOK, TableAt
    <2>3. PDX(Cur(u)) \in Entries /\ mem[0][PDX(Cur(u))] = 0
      BY <2>1, CurOwned, Place DEF FrameInv, HeldOK, HeldBy, Pde, AllocAt
    <2>4. FrameOfEntry(PDX(Cur(u))) = f
      BY <1>4, <2>1, <2>2, <2>3 DEF FrameOfEntry
    <2> QED
      BY <2>1, <2>3, <2>4
  <1> QED
    BY <1>1, <1>2, <1>3, <1>4 DEF Used, Live

\* When n_malloc or map_page looks for a frame, one is free.
LEMMA NeverFull ==
  ASSUME FrameInv, UsedInv, PhasesOK, phase = "alloc", IsFiniteSet(Threads), EnoughFrames,
         NEW t \in Threads,
         \/ pc[t] = "alloc" /\ idx[t] < num[t]
         \/ pc[t] = "tab"
  PROVE  ~PhysFull
  <1> SUFFICES ASSUME PhysFull PROVE FALSE
    OBVIOUS
  <1>0. /\ NumPhys \in Nat /\ PTEntries \in Nat /\ MaxPages \in Nat
        /\ idx[t] \in Nat /\ num[t] \in Nat /\ num[t] <= MaxPages
    BY VMemAssumption DEF FrameInv, IndInv, TypeOK, PhasesOK
  <1> DEFINE E == IF pc[t] = "tab" THEN Entries \ {PDX(Cur(t))} ELSE Entries
             P == IF pc[t] = "tab" THEN Places ELSE Places \ {<<t, idx[t]>>}
             G == {f \in Frames : \E d \in E : FrameOfEntry(d) = f}
             H == {f \in Frames : \E p \in P : FrameOfPlace(p) = f}
             M == {f \in Frames : \E v \in MainPages : Pte(v) = f}
  <1>1. Frames \subseteq {0} \cup ((G \cup H) \cup M)
    <2> SUFFICES ASSUME NEW f \in Frames, f # 0 PROVE f \in G \/ f \in H \/ f \in M
      OBVIOUS
    <2>1. Used(f)
      BY DEF PhysFull, UsedInv, PhysUsed
    <2>2. ASSUME NEW d \in Entries, FrameOfEntry(d) = f,
                 mem[0][d] # 0 \/ \E u \in Threads : pc[u] = "new" /\ PDX(Cur(u)) = d
          PROVE  f \in G
      <3>1. CASE pc[t] = "tab"
        <4>1. mem[0][PDX(Cur(t))] = 0 /\ \A u \in Threads : pc[u] # "new"
          BY <3>1 DEF FrameInv, HeldOK, HeldBy, Pde, LockOK, TableAt
        <4> QED
          BY <2>2, <3>1, <4>1
      <3>2. CASE pc[t] # "tab"
        BY <2>2, <3>2
      <3> QED
        BY <3>1, <3>2
    <2>3. ASSUME NEW p \in Places, FrameOfPlace(p) = f, pc[p[1]] = "alloc" => p[2] # idx[p[1]]
          PROVE  f \in H
      BY <2>3
    <2> HIDE DEF G, H
    <2> QED
      BY <2>1, <2>2, <2>3, UsedPlaces
  <1>2. /\ IsFiniteSet(Entries) /\ Cardinality(Entries) = PTEntries
        /\ IsFiniteSet(Frames) /\ Cardinality(Frames) = NumPhys
    <2>1. \A n \in Nat \ {0} : IsFiniteSet(0 .. n - 1) /\ Cardinality(0 .. n - 1) = n
      <3> SUFFICES ASSUME NEW n \in Nat \ {0}
                   PROVE  IsFiniteSet(0 .. n - 1) /\ Cardinality(0 .. n - 1) = n
        OBVIOUS
      <3>1. n - 1 \in Int /\ 0 <= n - 1 /\ (n - 1) - 0 + 1 = n
        OBVIOUS
      <3> QED
        BY <3>1, FS_Interval
    <2> QED
      BY <2>1, VMemAssumption DEF Entries, Frames
  <1>3. /\ IsFiniteSet(MainPages) /\ Cardinality(MainPages) \in Nat
    BY FS_Singleton, FS_EmptySet, FS_CardinalityType DEF MainPages
  <1>4. /\ IsFiniteSet(E) /\ IsFiniteSet(P)
        /\ Cardinality(E) \in Nat /\ Cardinality(P) \in Nat
        /\ Cardinality(E) + Cardinality(P) < PTEntries + Cardinality(Threads) * MaxPages
    <2>0. /\ IsFiniteSet(Places) /\ Cardinality(Places) \in Nat
          /\ Cardinality(Places) = Cardinality(Threads) * MaxPages
      BY PlacesCount
    <2>1. CASE pc[t] = "tab"
      <3>1. PDX(Cur(t)) \in Entries
        BY <2>1, CurOwned, Place DEF FrameInv, AllocAt
      <3>2. IsFiniteSet(E) /\ Cardinality(E) = PTEntries - 1 /\ P = Places
        BY <1>2, <2>1, <3>1, FS_RemoveElement
      <3>3. Cardinality(E) \in Nat
        BY <3>2, FS_CardinalityType
      <3> HIDE DEF E, P
      <3> QED
        BY <1>0, <2>0, <3>2, <3>3
    <2>2. CASE pc[t] = "alloc" /\ idx[t] < num[t]
      <3>1. <<t, idx[t]>> \in Places
        BY <1>0, <2>2 DEF Places
      <3>2. IsFiniteSet(P) /\ Cardinality(P) = Cardinality(Places) - 1 /\ E = Entries
        BY <2>0, <2>2, <3>1, FS_RemoveElement
      <3>3. Cardinality(P) \in Nat
        BY <3>2, FS_CardinalityType
      <3> HIDE DEF E, P
      <3> QED
        BY <1>0, <1>2, <2>0, <3>2, <3>3
    <2> QED
      BY <2>1, <2>2
  <1> HIDE DEF E, P
  <1>5. IsFiniteSet(G) /\ Cardinality(G) <= Cardinality(E)
    <2>1. \A f \in G : \E d \in E : [x \in E |-> FrameOfEntry(x)][d] = f
      OBVIOUS
    <2> HIDE DEF G
    <2> QED
      BY <1>4, <2>1, Covered
  <1>6. IsFiniteSet(H) /\ Cardinality(H) <= Cardinality(P)
    <2>1. \A f \in H : \E p \in P : [x \in P |-> FrameOfPlace(x)][p] = f
      OBVIOUS
    <2> HIDE DEF H
    <2> QED
      BY <1>4, <2>1, Covered
  <1>7. IsFiniteSet(M) /\ Cardinality(M) <= Cardinality(MainPages)
    <2>1. \A f \in M : \E v \in MainPages : [x \in MainPages |-> Pte(x)][v] = f
      OBVIOUS
    <2> HIDE DEF M
    <2> QED
      BY <1>3, <2>1, Covered
  <1> HIDE DEF G, H, M
  <1>8. /\ Cardinality(G) \in Nat /\ Cardinality(H) \in Nat /\ Cardinality(M) \in Nat
    BY <1>5, <1>6, <1>7, FS_CardinalityType
  <1>9. /\ IsFiniteSet(G \cup H) /\ Cardinality(G \cup H) \in Nat
        /\ Cardinality(G \cup H) <= Cardinality(G) + Cardinality(H)
    <2>1. Cardinality(G \cap H) \in Nat
      BY <1>5, FS_Intersection, FS_CardinalityType
    <2>2. IsFiniteSet(G \cup H) /\ Cardinality(G \cup H) \in Nat
      BY <1>5, <1>6, FS_Union, FS_CardinalityType
    <2>3. Cardinality(G \cup H) = Cardinality(G) + Cardinality(H) - Cardinality(G \cap H)
      BY <1>5, <1>6, FS_Union
    <2> QED
      BY <1>8, <2>1, <2>2, <2>3
  <1>10. /\ IsFiniteSet((G \cup H) \cup M) /\ Cardinality((G \cup H) \cup M) \in Nat
         /\ Cardinality((G \cup H) \cup M) <= Cardinality(G \cup H) + Cardinality(M)
    <2>1. Cardinality((G \cup H) \cap M) \in Nat
      BY <1>9, FS_Intersection, FS_CardinalityType
    <2>2. IsFiniteSet((G \cup H) \cup M) /\ Cardinality((G \cup H) \cup M) \in Nat
      BY <1>7, <1>9, FS_Union, FS_CardinalityType
    <2>3. Cardinality((G \cup H) \cup M)
            = Cardinality(G \cup H) + Cardinality(M) - Cardinality((G \cup H) \cap M)
      BY <1>7, <1>9, FS_Union
    <2> QED
      BY <1>8, <1>9, <2>1, <2>2, <2>3
  <1>11. Cardinality(Frames) <= Cardinality((G \cup H) \cup M) + 1
    <2> DEFINE K == (G \cup H) \cup M
    <2>1. IsFiniteSet(K) /\ Cardinality(K) \in Nat /\ Frames \subseteq {0} \cup K
      BY <1>1, <1>10
    <2> HIDE DEF K
    <2>2. IsFiniteSet(K \cup {0}) /\ Cardinality(K \cup {0}) <= Cardinality(K) + 1
      BY <2>1, FS_AddElement
    <2>3. Cardinality(Frames) <= Cardinality(K \cup {0})
      BY <2>1, <2>2, FS_Subset
    <2>4. Cardinality(Frames) \in Nat /\ Cardinality(K \cup {0}) \in Nat
      BY <1>2, <2>2, FS_CardinalityType
    <2>5. Cardinality(Frames) <= Cardinality(K) + 1
      BY <2>1, <2>2, <2>3, <2>4
    <2> QED
      BY <2>5 DEF K
  <1>12. NumPhys >= 1 + PTEntries + Cardinality(Threads) * MaxPages + Cardinality(MainPages)
    BY DEF EnoughFrames
  <1>13. Cardinality(Threads) * MaxPages \in Nat
    BY <1>0, FS_CardinalityType
  <1> QED
    BY <1>0, <1>2, <1>3, <1>4, <1>5, <1>6, <1>7, <1>8, <1>9, <1>10, <1>11, <1>12, <1>13

\* So no n_malloc gives up.
LEMMA PhasesAreThrifty ==
  ASSUME FrameInv, UsedInv, PhasesOK, IsFiniteSet(Threads), EnoughFrames,
         NEW t \in Threads, Work(t) \/ Call(t)
  PROVE  Thrifty
  <1>0. pc \in [Threads -> PCs] /\ idx[t] \in Nat /\ num[t] \in Nat
    BY DEF FrameInv, IndInv, TypeOK
  <1>1. ASSUME NEW u \in Threads, pc[u] \in AllocAt PROVE pc'[u] \notin FreeAt
    <2>1. CASE u # t
      <3>1. pc'[u] = pc[u]
        BY <2>1, OthersStay DEF FrameInv, IndInv
      <3> QED
        BY <1>1, <3>1 DEF AllocAt, FreeAt
    <2>2. CASE u = t
      <3>0. phase = "alloc"
        BY <1>1 DEF PhasesOK
      <3>1. Allocating(t)
        BY <3>0, ByPhase
      <3>2. CASE AllocPage(t) \/ AllocTable(t)
        <4>1. idx[t] < num[t] \/ AllocTable(t) => ~PhysFull
          BY <3>0, <3>2, NeverFull DEF AllocPage, AllocTable
        <4> QED
          BY <1>0, <2>2, <3>2, <4>1 DEF AllocPage, AllocTable, Goto, FreeAt
      <3>3. CASE ~AllocPage(t) /\ ~AllocTable(t)
        BY <1>0, <2>2, <3>1, <3>3 DEF Allocating, AllocPageStore, MapPage, AllocTableStore,
           MapNew, MarkPhys, MarkPhysStore, MarkVirt, MapTLB, n_malloc, Goto, FreeAt
      <3> QED
        BY <3>2, <3>3
    <2> QED
      BY <2>1, <2>2
  <1> QED
    BY <1>1, PhasesAreCareful DEF Thrifty, NoGiveUp

-----------------------------------------------------------------------------
(***************************************************************************)
(* A new page never takes the TLB slot of another                          *)
(***************************************************************************)
\* The slots and their turns.
LEMMA TurnOf ==
  ASSUME TypeOK
  PROVE  /\ TLB_ENTRIES \in Nat \ {0} /\ NextSlot \in Slots
         /\ Turns(NextSlot) = 0
         /\ \A i \in Slots : Turns(i) \in 0 .. TLB_ENTRIES - 1
         /\ \A i \in Slots : i # NextSlot => Turns(i) > 0
  <1>1. /\ TLB_ENTRIES \in Nat \ {0} /\ count \in 0 .. TLB_ENTRIES
        /\ next_evict \in 0 .. TLB_ENTRIES - 1
    BY VMemAssumption DEF TypeOK, Slots
  <1>2. NextSlot \in 0 .. TLB_ENTRIES - 1
    BY <1>1 DEF NextSlot
  <1> QED
    BY <1>1, <1>2 DEF Turns, Slots

\* While there is a page to enter, not every slot is busy: each busy slot has
\* a page of a thread, which is not the page being entered.
LEMMA SlotLeft ==
  ASSUME FrameInv, PhasedInv, IsFiniteSet(Threads), EnoughSlots,
         NEW t \in Threads, pc[t] = "tadd"
  PROVE  ~Busy(NextSlot)
  <1> SUFFICES ASSUME Busy(NextSlot) PROVE FALSE
    OBVIOUS
  <1>0. /\ phase = "alloc" /\ PhasesOK /\ SlotsInTurn
        /\ idx[t] \in Nat /\ num[t] \in Nat /\ idx[t] < num[t] /\ num[t] <= MaxPages
        /\ MaxPages \in Nat
    BY VMemAssumption DEF PhasedInv, PhasesOK, EnterAt, FrameInv, IndInv, TypeOK, RegionOK
  <1>1. \A i \in Slots : Busy(i)
    <2>1. /\ NextSlot \in Slots /\ Turns(NextSlot) = 0
          /\ \A i \in Slots : i # NextSlot => Turns(i) > 0
      BY TurnOf DEF FrameInv, IndInv
    <2> QED
      BY <1>0, <2>1 DEF SlotsInTurn
  <1>2. ASSUME NEW i \in Slots
        PROVE  \E p \in Places \ {<<t, idx[t]>>} : tlb[i].vpn = base[p[1]] + p[2]
    <2>1. tlb[i].valid /\ tlb[i].vpn \notin MainPages
      BY <1>1 DEF Busy
    <2>2. \A u \in Threads : pc[u] \notin {"fvirt", "ftlb"}
      BY <1>0 DEF PhasesOK, ClearedAt
    <2>3. Live(tlb[i].vpn)
      BY <2>1, <2>2 DEF FrameInv, SlotsOK
    <2>4. PICK u \in Threads : tlb[i].vpn \in Placed(u)
      BY <2>1, <2>3 DEF Live
    <2>5. PICK k \in 0 .. MaxPages - 1 : tlb[i].vpn = base[u] + k
      BY <1>0, <2>4, PlaceOf
    <2>6. <<u, k>> # <<t, idx[t]>>
      <3> SUFFICES ASSUME u = t, k = idx[t] PROVE FALSE
        OBVIOUS
      <3>1. Hit(i, Cur(t))
        BY <2>1, <2>5 DEF Hit, Cur
      <3> QED
        BY <3>1 DEF PhasedInv, SlotKept, HasSlot, EnterAt
    <2>7. <<u, k>> \in Places \ {<<t, idx[t]>>}
      BY <2>6 DEF Places
    <2>8. <<u, k>>[1] = u /\ <<u, k>>[2] = k
      OBVIOUS
    <2> QED
      BY <2>5, <2>7, <2>8
  <1> DEFINE S == Places \ {<<t, idx[t]>>}
             g == [p \in S |-> CHOOSE i \in Slots : Hit(i, base[p[1]] + p[2])]
  <1>3. \A i \in Slots : \E p \in S : g[p] = i
    <2> TAKE i \in Slots
    <2>1. PICK p \in S : tlb[i].vpn = base[p[1]] + p[2]
      BY <1>2
    <2>2. Hit(i, base[p[1]] + p[2])
      BY <1>1, <2>1 DEF Busy, Hit
    <2>3. \A j \in Slots : Hit(j, base[p[1]] + p[2]) => j = i
      BY <1>1, <2>1 DEF Busy, FrameInv, TLBUnique
    <2> QED
      BY <2>1, <2>2, <2>3
  <1>4. /\ IsFiniteSet(Places) /\ Cardinality(Places) \in Nat
        /\ Cardinality(Places) = Cardinality(Threads) * MaxPages
    BY PlacesCount
  <1>5. IsFiniteSet(S) /\ Cardinality(S) = Cardinality(Places) - 1
    <2>1. <<t, idx[t]>> \in Places
      BY <1>0 DEF Places
    <2> QED
      BY <1>4, <2>1, FS_RemoveElement
  <1> HIDE DEF S, g
  <1>6. Cardinality(Slots) <= Cardinality(S)
    BY <1>3, <1>5, Covered
  <1>7. Cardinality(Slots) = TLB_ENTRIES /\ TLB_ENTRIES \in Nat
    <2>1. TLB_ENTRIES \in Nat \ {0}
      BY VMemAssumption
    <2>2. TLB_ENTRIES - 1 \in Int /\ 0 <= TLB_ENTRIES - 1 /\ (TLB_ENTRIES - 1) - 0 + 1 = TLB_ENTRIES
      BY <2>1
    <2>3. Cardinality(0 .. TLB_ENTRIES - 1) = TLB_ENTRIES
      BY <2>2, FS_Interval
    <2> QED
      BY <2>1, <2>3 DEF Slots
  <1>8. TLB_ENTRIES >= Cardinality(Places)
    BY <1>4 DEF EnoughSlots
  <1> QED
    BY <1>4, <1>5, <1>6, <1>7, <1>8

\* The compulsory miss of n_malloc fills the next slot and moves the turn on.
LEMMA FillsNext ==
  ASSUME FrameInv, PhasedInv, NEW t \in Threads, MapTLB(t)
  PROVE  /\ tlb' = [tlb EXCEPT ![NextSlot] = [valid |-> TRUE, vpn |-> Cur(t), pte |-> frame[t]]]
         /\ NextSlot' = IF NextSlot + 1 = TLB_ENTRIES THEN 0 ELSE NextSlot + 1
         /\ count' < TLB_ENTRIES => next_evict' = 0
  <1>0. /\ TLB_ENTRIES \in Nat \ {0} /\ count \in 0 .. TLB_ENTRIES
        /\ next_evict \in 0 .. TLB_ENTRIES - 1
        /\ count < TLB_ENTRIES => next_evict = 0
    BY VMemAssumption DEF FrameInv, IndInv, TypeOK, Slots, PhasedInv, SlotsInTurn
  <1>1. \A i \in Slots : ~Hit(i, Cur(t))
    BY DEF MapTLB, PhasedInv, SlotKept, HasSlot, EnterAt
  <1>2. CASE count < TLB_ENTRIES
    <2>1. /\ tlb' = [tlb EXCEPT ![count] = [valid |-> TRUE, vpn |-> Cur(t), pte |-> frame[t]]]
          /\ count' = count + 1 /\ next_evict' = next_evict
      BY <1>0, <1>1, <1>2 DEF MapTLB, TLB_add, FirstHit
    <2> QED
      BY <1>0, <1>2, <2>1 DEF NextSlot
  <1>3. CASE count >= TLB_ENTRIES
    <2>1. /\ tlb' = [tlb EXCEPT ![next_evict] = [valid |-> TRUE, vpn |-> Cur(t), pte |-> frame[t]]]
          /\ count' = count /\ next_evict' = (next_evict + 1) % TLB_ENTRIES
      BY <1>0, <1>1, <1>3 DEF MapTLB, TLB_add, FirstHit, NextVictim
    <2>2. (next_evict + 1) % TLB_ENTRIES = IF next_evict + 1 = TLB_ENTRIES THEN 0 ELSE next_evict + 1
      BY <1>0
    <2>3. NextSlot = next_evict /\ NextSlot' = next_evict' /\ ~(count' < TLB_ENTRIES)
      BY <1>0, <1>3, <2>1 DEF NextSlot
    <2> QED
      BY <2>1, <2>2, <2>3
  <1> QED
    BY <1>0, <1>2, <1>3

\* The slots stay in turn.
LEMMA TurnStep ==
  ASSUME FrameInv, PhasedInv, NEW t \in Threads, Work(t) \/ Call(t)
  PROVE  SlotsInTurn'
  <1>0. PhasesOK /\ SlotsInTurn
    BY DEF PhasedInv
  <1>1. CASE UNCHANGED <<tlb, count, next_evict>>
    <2>1. phase' = phase
      BY PhaseStays
    <2> QED
      BY <1>0, <1>1, <2>1 DEF SlotsInTurn, Busy, Turns, NextSlot
  <1>2. CASE MapTLB(t)
    <2> PICK s : s = NextSlot
      OBVIOUS
    <2> PICK n : n = NextSlot'
      OBVIOUS
    <2>0. /\ TLB_ENTRIES \in Nat \ {0} /\ s \in 0 .. TLB_ENTRIES - 1
          /\ n = (IF s + 1 = TLB_ENTRIES THEN 0 ELSE s + 1)
      BY <1>2, TurnOf, FillsNext DEF FrameInv, IndInv, Slots
    <2>1. \A i \in Slots : Turns(i) = IF i >= s THEN i - s ELSE i - s + TLB_ENTRIES
      BY DEF Turns
    <2>2. \A i \in Slots : Turns(i)' = IF i >= n THEN i - n ELSE i - n + TLB_ENTRIES
      BY DEF Turns
    <2>3. Turns(s)' = TLB_ENTRIES - 1 /\ \A i \in Slots : Turns(i)' <= TLB_ENTRIES - 1
      BY <2>0, <2>2 DEF Slots
    <2>4. \A i \in Slots : i # s => Turns(i)' = Turns(i) - 1
      BY <2>0, <2>1, <2>2 DEF Slots
    <2>5. \A i \in Slots : Turns(i) \in Nat /\ Turns(i)' \in Nat
      BY <2>0, <2>1, <2>2 DEF Slots
    <2>6. \A i \in Slots : i # s => (Busy(i)' <=> Busy(i))
      BY <1>2, FillsNext DEF Busy, FrameInv, IndInv, TypeOK, MainPages
    <2>7. Busy(s)'
      <3>1. Cur(t) \notin MainPages
        BY <1>2, CurOwned, PlacedApart DEF FrameInv, MapTLB, EnterAt
      <3>2. tlb'[s] = [valid |-> TRUE, vpn |-> Cur(t), pte |-> frame[t]]
        BY <1>2, <2>0, FillsNext DEF FrameInv, IndInv, TypeOK, Slots
      <3> QED
        BY <3>1, <3>2 DEF Busy, MainPages
    <2>8. phase = "alloc"
      BY <1>0, <1>2 DEF PhasesOK, MapTLB, EnterAt
    <2>9. ASSUME NEW i \in Slots, NEW j \in Slots, Busy(i)', Turns(i)' < Turns(j)'
          PROVE  Busy(j)'
      <3>1. i # s
        BY <2>3, <2>5, <2>9
      <3>2. CASE j # s
        <4>1. Turns(i) < Turns(j)
          BY <2>4, <2>5, <2>9, <3>1, <3>2
        <4> QED
          BY <1>0, <2>6, <2>8, <2>9, <3>1, <3>2, <4>1 DEF SlotsInTurn
      <3> QED
        BY <2>7, <3>2
    <2> QED
      BY <1>2, <2>9, FillsNext DEF SlotsInTurn
  <1>3. CASE FreeTLB(t)
    <2>1. count' = count /\ next_evict' = next_evict /\ phase' = phase /\ phase # "alloc"
      BY <1>0, <1>3 DEF FreeTLB, TLB_invalidate, PhasesOK, ClearedAt
    <2> QED
      BY <1>0, <2>1 DEF SlotsInTurn
  <1>4. ~Refill(t)
    BY <1>0 DEF PhasesOK, Refill
  <1> QED
    BY <1>1, <1>2, <1>3, <1>4 DEF Work, Call, AllocPage, AllocPageStore, MapPage, AllocTable,
       AllocTableStore, MapNew, MarkPhys, MarkPhysStore, MarkVirt, FreeLock, FreePage,
       FreeVirt, FreeTable, FreeTableStore, TLB_check, Walk, Access, n_malloc, n_free,
       put_data, get_data, vmvars

\* A page keeps its slot, and the page being entered has none.
LEMMA KeptStep ==
  ASSUME FrameInv, PhasedInv, IsFiniteSet(Threads), EnoughSlots,
         NEW t \in Threads, Work(t) \/ Call(t)
  PROVE  SlotKept'
  <1>0. /\ PhasesOK /\ SlotKept /\ phase' = phase
        /\ pc \in [Threads -> PCs] /\ IndInv
        /\ \A u \in Threads \ {t} : pc'[u] = pc[u] /\ Placed(u)' = Placed(u) /\ Cur(u)' = Cur(u)
    BY PhaseStays, OthersStay, PlacedOthers DEF PhasedInv, FrameInv, IndInv, TypeOK
  <1>1. ASSUME tlb' = tlb, Placed(t)' = Placed(t),
               pc[t] \in EnterAt \/ pc'[t] \in EnterAt =>
                 pc[t] \in EnterAt /\ pc'[t] \in EnterAt /\ Cur(t)' = Cur(t)
        PROVE  SlotKept'
    <2>1. \A v : HasSlot(v)' <=> HasSlot(v)
      BY <1>1 DEF HasSlot, Hit
    <2>2. \A u \in Threads :
            /\ Placed(u)' = Placed(u) /\ (pc'[u] \in EnterAt <=> pc[u] \in EnterAt)
            /\ pc[u] \in EnterAt => Cur(u)' = Cur(u)
      BY <1>0, <1>1
    <2> QED
      BY <1>0, <2>1, <2>2 DEF SlotKept, EnterAt
  <1>2. CASE phase = "free"
    <2>1. \A u \in Threads : pc'[u] \notin EnterAt
      <3>1. Freeing(t)
        BY <1>0, <1>2, ByPhase
      <3>2. pc'[t] \notin EnterAt
        BY <1>0, <3>1 DEF Freeing, FreeLock, FreePage, FreeVirt, FreeTLB, FreeTable,
           FreeTableStore, n_free, Goto, EnterAt
      <3> QED
        BY <1>0, <1>2, <3>2 DEF PhasesOK
    <2> QED
      BY <1>0, <1>2, <2>1 DEF SlotKept, EnterAt
  <1>3. CASE phase = "use"
    <2>1. UsingData(t) /\ pc[t] \notin EnterAt
      BY <1>0, <1>3, ByPhase DEF PhasesOK
    <2>2. tlb' = tlb
      BY <1>0, <1>3, PhaseEffects
    <2>3. Placed(t)' = Placed(t)
      BY <1>0, <2>1, PlacedSame, NoFault DEF UsingData, Call, Work
    <2>4. pc'[t] \notin EnterAt
      BY <1>0, <2>1 DEF UsingData, TLB_check, Access, Return, put_data, get_data, Goto, EnterAt
    <2> QED
      BY <1>1, <2>1, <2>2, <2>3, <2>4
  <1>4. CASE phase = "alloc" /\ Enters(t)
    <2> PICK c : c = Cur(t)
      OBVIOUS
    <2>1. /\ MapPage(t) \/ MapNew(t)
          /\ tlb' = tlb /\ pc'[t] = "pbit" /\ pc[t] \in {"map", "new"}
      BY <1>0, <1>4 DEF Enters, MapPage, MapNew, Goto
    <2>2. Placed(t)' = Placed(t) \cup {c} /\ Cur(t)' = c
      BY <1>0, <2>1, PlacedMap
    <2>3. \A v : HasSlot(v)' <=> HasSlot(v)
      BY <2>1 DEF HasSlot, Hit
    <2>4. ~HasSlot(c)
      <3>1. ~Live(c) /\ \A u \in Threads : pc[u] \notin {"fvirt", "ftlb"}
        BY <1>0, <1>4, <2>1, NotLiveYet DEF PhasesOK, ClearedAt
      <3> QED
        BY <3>1 DEF HasSlot, Hit, FrameInv, SlotsOK
    <2>5. pc[t] \notin EnterAt /\ pc'[t] \in EnterAt
      BY <2>1 DEF EnterAt
    <2>6. \A v \in Placed(t) : HasSlot(v)
      BY <1>0, <1>4, <2>5 DEF SlotKept
    <2>7. \A u \in Threads \ {t} :
            /\ \A v \in Placed(u)' : HasSlot(v)' \/ (pc'[u] \in EnterAt /\ v = Cur(u)')
            /\ pc'[u] \in EnterAt => ~HasSlot(Cur(u))
      BY <1>0, <1>4, <2>3 DEF SlotKept
    <2>8. \A u \in Threads \ {t} : pc'[u] \in EnterAt => ~HasSlot(Cur(u))'
      BY <1>0, <2>1, <2>7 DEF HasSlot, Hit
    <2>9. ~HasSlot(Cur(t))'
      BY <2>1, <2>2, <2>4 DEF HasSlot, Hit
    <2>10. \A v \in Placed(t)' : HasSlot(v)' \/ (pc'[t] \in EnterAt /\ v = Cur(t)')
      BY <2>2, <2>3, <2>5, <2>6
    <2> QED
      BY <2>7, <2>8, <2>9, <2>10 DEF SlotKept, EnterAt
  <1>5. CASE MapTLB(t)
    <2> PICK s : s = NextSlot
      OBVIOUS
    <2> PICK c : c = Cur(t)
      OBVIOUS
    <2>1. /\ pc[t] = "tadd" /\ pc'[t] = "alloc" /\ phase = "alloc"
          /\ pc[t] \in EnterAt /\ pc'[t] \notin EnterAt
      BY <1>0, <1>5 DEF MapTLB, Goto, EnterAt, PhasesOK
    <2>2. s \in Slots /\ ~Busy(s)
      BY <2>1, SlotLeft, TurnOf DEF FrameInv, IndInv
    <2>3. /\ tlb'[s] = [valid |-> TRUE, vpn |-> c, pte |-> frame[t]]
          /\ \A i \in Slots : i # s => tlb'[i] = tlb[i]
      BY <1>5, <2>2, FillsNext DEF FrameInv, IndInv, TypeOK
    <2>4. HasSlot(c)'
      BY <2>2, <2>3 DEF HasSlot, Hit
    <2>5. ASSUME NEW v, v \notin MainPages, HasSlot(v) PROVE HasSlot(v)'
      <3>1. PICK i \in Slots : Hit(i, v)
        BY <2>5 DEF HasSlot
      <3>2. Busy(i)
        BY <2>5, <3>1 DEF Busy, Hit
      <3>3. tlb'[i] = tlb[i]
        BY <2>2, <2>3, <3>2
      <3> QED
        BY <3>1, <3>3 DEF HasSlot, Hit
    <2>6. ASSUME NEW v, v # c, HasSlot(v)' PROVE HasSlot(v)
      <3>1. PICK i \in Slots : tlb'[i].valid /\ tlb'[i].vpn = v
        BY <2>6 DEF HasSlot, Hit
      <3>2. i # s
        BY <2>3, <2>6, <3>1
      <3> QED
        BY <2>3, <3>1, <3>2 DEF HasSlot, Hit
    <2>7. \A u \in Threads : \A v \in Placed(u) : v \notin MainPages
      BY <1>0, PlacedOwned, PlacedApart DEF FrameInv, PhaseOK
    <2>8. Placed(t)' = Placed(t)
      BY <1>0, <1>5, PlacedSame
    <2>9. \A v \in Placed(t) : HasSlot(v)'
      <3> TAKE v \in Placed(t)
      <3>1. HasSlot(v) \/ v = c
        BY <1>0, <2>1 DEF SlotKept
      <3> QED
        BY <2>4, <2>5, <2>7, <3>1
    <2>10. ASSUME NEW u \in Threads \ {t}
           PROVE  /\ \A v \in Placed(u) : HasSlot(v)' \/ (pc[u] \in EnterAt /\ v = Cur(u))
                  /\ pc[u] \in EnterAt => ~HasSlot(Cur(u))'
      <3>1. \A v \in Placed(u) : HasSlot(v) \/ (pc[u] \in EnterAt /\ v = Cur(u))
        BY <1>0, <2>1 DEF SlotKept
      <3>2. ASSUME pc[u] \in EnterAt PROVE ~HasSlot(Cur(u))'
        <4> PICK d : d = Cur(u)
          OBVIOUS
        <4>1. d # c
          BY <1>0, <2>1, <3>2, CurOwned, PlacedApart DEF FrameInv
        <4>2. ~HasSlot(d)
          BY <1>0, <3>2 DEF SlotKept
        <4>3. ~HasSlot(d)'
          BY <2>6, <4>1, <4>2
        <4>4. Cur(u)' = d
          BY <1>0
        <4> QED
          BY <4>3, <4>4 DEF HasSlot, Hit
      <3> QED
        BY <2>5, <2>7, <3>1, <3>2
    <2> QED
      BY <1>0, <2>1, <2>8, <2>9, <2>10 DEF SlotKept, EnterAt
  <1>6. CASE phase = "alloc" /\ ~Enters(t) /\ ~MapTLB(t)
    <2>0. Allocating(t)
      BY <1>0, <1>6, ByPhase
    <2>1. tlb' = tlb
      BY <1>6, <2>0 DEF Allocating, AllocPage, AllocPageStore, MapPage, AllocTable,
         AllocTableStore, MapNew, MarkPhys, MarkPhysStore, MarkVirt, n_malloc
    <2>2. Placed(t)' = Placed(t)
      <3>1. CASE MapPage(t)
        BY <1>0, <1>6, <3>1, PlacedMap DEF Enters
      <3> QED
        BY <1>0, <1>6, <2>0, <3>1, PlacedSame DEF Allocating, Call, Enters
    <2>3. CASE MarkPhys(t) \/ MarkPhysStore(t) \/ MarkVirt(t)
      <3>1. pc[t] \in EnterAt /\ pc'[t] \in EnterAt /\ Cur(t)' = Cur(t)
        BY <1>0, <2>3 DEF MarkPhys, MarkPhysStore, MarkVirt, Goto, EnterAt, Cur, regvars
      <3> QED
        BY <1>1, <2>1, <2>2, <3>1
    <2>4. CASE ~(MarkPhys(t) \/ MarkPhysStore(t) \/ MarkVirt(t))
      <3>1. pc[t] \notin EnterAt /\ pc'[t] \notin EnterAt
        BY <1>0, <1>6, <2>0, <2>4 DEF Allocating, AllocPage, AllocPageStore, MapPage, AllocTable,
           AllocTableStore, n_malloc, Goto, GiveUp, EnterAt, Enters
      <3> QED
        BY <1>1, <2>1, <2>2, <3>1
    <2> QED
      BY <2>3, <2>4
  <1> QED
    BY <1>0, <1>2, <1>3, <1>4, <1>5, <1>6, ByPhase

-----------------------------------------------------------------------------
(***************************************************************************)
(* Programs with phases are safe                                           *)
(***************************************************************************)
\* Calls stay in their phase; a page that is looked up is in the TLB.
LEMMA PhasesStep ==
  ASSUME FrameInv, PhasedInv, NoGiveUp, NEW t \in Threads, Work(t) \/ Call(t)
  PROVE  PhasesOK'
  <1>0. /\ PhasesOK /\ SlotKept /\ phase' = phase /\ phase # "any" /\ num[t] <= MaxPages
        /\ pc \in [Threads -> PCs] /\ num \in [Threads -> Nat] /\ idx[t] \in Nat
        /\ \A u \in Threads \ {t} : pc'[u] = pc[u] /\ num'[u] = num[u]
    BY PhaseStays, OthersStay DEF PhasedInv, PhasesOK, FrameInv, IndInv, TypeOK
  <1> USE DEF AllocAt, EnterAt, DataAt, FreeAt, ClearedAt, Rest
  <1> SUFFICES /\ pc'[t] \in AllocAt \cup EnterAt => phase = "alloc"
               /\ pc'[t] \in DataAt => phase = "use"
               /\ pc'[t] \in FreeAt \cup ClearedAt => phase = "free"
               /\ pc'[t] \notin {"walk", "refill"}
               /\ num'[t] <= MaxPages
    BY <1>0 DEF PhasesOK
  <1>1. CASE phase = "alloc" /\ Allocating(t)
    <2>0. pc'[t] \notin FreeAt
      <3>1. pc[t] \in AllocAt => pc'[t] \notin FreeAt
        BY DEF NoGiveUp
      <3>2. pc[t] \notin AllocAt => pc'[t] \notin FreeAt
        BY <1>0, <1>1 DEF Allocating, AllocPage, AllocPageStore, MapPage, AllocTable,
           AllocTableStore, MapNew, MarkPhys, MarkPhysStore, MarkVirt, MapTLB, n_malloc, Goto
      <3> QED
        BY <3>1, <3>2
    <2>1. CASE \/ AllocPageStore(t) \/ MapPage(t) \/ AllocTableStore(t) \/ MapNew(t)
               \/ MarkPhys(t) \/ MarkPhysStore(t) \/ MarkVirt(t) \/ MapTLB(t)
      BY <1>0, <1>1, <2>1 DEF AllocPageStore, MapPage, AllocTableStore,
         MapNew, MarkPhys, MarkPhysStore, MarkVirt, MapTLB, Goto, regvars
    <2>2. CASE AllocPage(t) \/ AllocTable(t)
      BY <1>0, <1>1, <2>0, <2>2 DEF AllocPage, AllocTable, GiveUp, Goto
    <2>3. CASE \E n \in 1 .. MaxPages : n_malloc(t, n)
      <3>1. PICK n \in 1 .. MaxPages : n_malloc(t, n)
        BY <2>3
      <3>2. CASE num' = [num EXCEPT ![t] = n] /\ Goto(t, "alloc")
        BY <1>0, <1>1, <3>2 DEF Goto
      <3>3. CASE num' = num /\ pc' = pc
        BY <1>0, <3>1, <3>3 DEF n_malloc
      <3> QED
        BY <3>1, <3>2, <3>3 DEF n_malloc
    <2> QED
      BY <1>1, <2>1, <2>2, <2>3 DEF Allocating
  <1>2. CASE phase = "use" /\ UsingData(t)
    <2>1. num'[t] = num[t]
      BY <1>2 DEF UsingData, TLB_check, Access, put_data, get_data, regvars
    <2>2. CASE TLB_check(t)
      <3>1. CASE idx[t] < num[tgt[t]]
        <4>1. PICK u \in Threads : u = tgt[t] /\ At(t) \in Placed(u)
          BY <2>2, <3>1, TargetPage DEF FrameInv, TLB_check
        <4>2. HasSlot(At(t))
          <5>1. pc[u] \notin EnterAt
            BY <1>0, <1>2 DEF PhasesOK
          <5> HIDE DEF EnterAt
          <5> QED
            BY <1>0, <1>2, <4>1, <5>1 DEF SlotKept
        <4>3. idx[t] < num[u] /\ num[u] \in Nat
          BY <1>0, <3>1, <4>1
        <4>4. idx[t] # num[tgt[t]]
          BY <1>0, <4>1, <4>3
        <4>5. pc' = [pc EXCEPT ![t] = "access"]
          BY <2>2, <4>2, <4>4 DEF TLB_check, HasSlot, Goto
        <4> QED
          BY <1>0, <1>2, <2>1, <4>5
      <3>2. CASE ~(idx[t] < num[tgt[t]])
        BY <1>0, <1>2, <2>1, <2>2, <3>2 DEF TLB_check, Return, Goto
      <3> QED
        BY <3>1, <3>2
    <2>3. CASE Access(t)
      BY <1>0, <1>2, <2>1, <2>3, NoFault DEF Access, Goto
    <2>4. CASE put_data(t) \/ \E u \in Threads : get_data(t, u)
      BY <1>0, <1>2, <2>1, <2>4 DEF put_data, get_data, Goto
    <2> QED
      BY <1>2, <2>2, <2>3, <2>4 DEF UsingData
  <1>3. CASE phase = "free" /\ Freeing(t)
    <2>1. CASE FreePage(t)
      <3>1. pc'[t] \in {"fpage", "fvirt", "idle"}
        BY <1>0, <2>1, NoFault DEF FreePage, Goto
      <3>2. num'[t] = num[t] \/ num'[t] = 0
        BY <1>0, <2>1 DEF FreePage, Forget, regvars
      <3> QED
        BY <1>0, <1>3, <3>1, <3>2, VMemAssumption
    <2>2. CASE \/ FreeLock(t) \/ FreeVirt(t) \/ FreeTLB(t) \/ FreeTable(t)
               \/ FreeTableStore(t) \/ n_free(t)
      BY <1>0, <1>3, <2>2 DEF FreeLock, FreeVirt, FreeTLB, FreeTable, FreeTableStore,
         n_free, Goto, regvars
    <2> QED
      BY <1>3, <2>1, <2>2 DEF Freeing
  <1> QED
    BY <1>0, <1>1, <1>2, <1>3, ByPhase

\* Before the first call and between the phases nothing is in the way.
LEMMA NobodyBusy ==
  ASSUME FrameInv, \A t \in Threads : pc[t] = "idle"
  PROVE  /\ \A i \in Slots : ~Busy(i)
         /\ \A t \in Threads : Placed(t) = {}
  <1>1. \A t \in Threads : Placed(t) = {}
    <2> TAKE t \in Threads
    <2>1. pc[t] = "idle" /\ base[t] \in Nat /\ num[t] = 0
      BY DEF FrameInv, IndInv, TypeOK, RegionOK
    <2>2. Placed(t) = base[t] .. base[t] + 0 - 1
      BY <2>1, PlacedAt DEF Rest
    <2> QED
      BY <2>1, <2>2
  <1>2. \A i \in Slots : ~Busy(i)
    BY <1>1 DEF Busy, FrameInv, SlotsOK, Live
  <1> QED
    BY <1>1, <1>2

\* A program with phases starts with allocating.
LEMMA PhasedInit == Init /\ Starts = {"alloc"} => PhasedInv
  <1> SUFFICES ASSUME Init, phase = "alloc" PROVE PhasedInv
    BY DEF Init
  <1>1. /\ \A i \in Slots : ~Busy(i)
        /\ \A t \in Threads : Placed(t) = {}
    BY FrameInit, NobodyBusy DEF Init
  <1>2. PhasesOK
    BY VMemAssumption DEF Init, PhasesOK, AllocAt, EnterAt, DataAt, FreeAt, ClearedAt
  <1>3. SlotsInTurn
    BY <1>1 DEF Init, SlotsInTurn
  <1>4. SlotKept
    BY <1>1 DEF Init, SlotKept, EnterAt
  <1> QED
    BY <1>2, <1>3, <1>4 DEF PhasedInv

\* The next phase begins when everybody is between calls.
LEMMA PhasedAdvance ==
  ASSUME FrameInv, PhasedInv, Advance
  PROVE  PhasedInv'
  <1>0. /\ UNCHANGED <<tlb, count, next_evict, pc, base, num, idx>>
        /\ PhasesOK /\ SlotsInTurn /\ SlotKept
        /\ \A t \in Threads : pc[t] \in Rest
    BY DEF Advance, vmvars, regvars, PhasedInv
  <1>1. PhasesOK'
    BY <1>0 DEF Advance, PhasesOK, Rest, AllocAt, EnterAt, DataAt, FreeAt, ClearedAt
  <1>2. CASE phase = "free"
    <2>1. \A t \in Threads : pc[t] = "idle"
      BY <1>2 DEF Advance
    <2>2. /\ \A i \in Slots : ~Busy(i)'
          /\ \A t \in Threads : Placed(t)' = {}
      BY <1>0, <2>1, NobodyBusy DEF Busy, MainPages, Placed
    <2>3. SlotsInTurn' /\ SlotKept'
      BY <1>0, <2>1, <2>2 DEF SlotsInTurn, SlotKept, EnterAt
    <2> QED
      BY <1>1, <2>3 DEF PhasedInv
  <1>3. CASE phase # "free"
    <2>1. phase' # "alloc"
      BY <1>3 DEF Advance
    <2>2. SlotsInTurn'
      BY <1>0, <2>1 DEF SlotsInTurn
    <2>3. SlotKept'
      BY <1>0, <1>3 DEF SlotKept, HasSlot, Hit, Placed, Cur
    <2> QED
      BY <1>1, <2>2, <2>3 DEF PhasedInv
  <1> QED
    BY <1>2, <1>3

\* A program with phases stays clear of everything that can go wrong.
LEMMA PhasedStep ==
  ASSUME Starts = {"alloc"}, IsFiniteSet(Threads), EnoughFrames, EnoughSlots,
         FrameInv, UsedInv, PhasedInv, [Next]_vars
  PROVE  FrameInv' /\ UsedInv' /\ PhasedInv'
  <1>1. ASSUME NEW t \in Threads, Work(t) \/ Call(t)
        PROVE  PhasedInv' /\ Careful /\ Thrifty
    <2>1. Careful /\ Thrifty
      BY <1>1, PhasesAreCareful, PhasesAreThrifty DEF PhasedInv
    <2>2. PhasesOK' /\ SlotsInTurn' /\ SlotKept'
      BY <1>1, <2>1, PhasesStep, TurnStep, KeptStep DEF Thrifty
    <2> QED
      BY <2>1, <2>2 DEF PhasedInv
  <1>2. CASE UNCHANGED vars
    <2>1. PhasedInv'
      BY <1>2 DEF vars, vmvars, regvars, PhasedInv, PhasesOK, SlotsInTurn, SlotKept, Busy, Turns,
         NextSlot, HasSlot, Hit, Placed, Cur
    <2> QED
      BY <1>2, <2>1, FrameStep, UsedStep
  <1>3. CASE Advance
    <2>1. UsedInv'
      BY <1>3, UsedQuiet DEF Advance, vmvars, alcvars, regvars
    <2>2. FrameInv'
      <3>1. /\ UNCHANGED <<vmvars, pc, base, num, idx, alcvars, accvars, rounds>>
            /\ \A t \in Threads : pc[t] \in Rest
        BY <1>3 DEF Advance, vmvars, alcvars, accvars, regvars
      <3>2. IndInv' /\ TLBUnique'
        BY IndStep, UniqueStep DEF FrameInv
      <3> QED
        BY <3>1, <3>2, FrameQuiet DEF FrameInv
    <2> QED
      BY <1>3, <2>1, <2>2, PhasedAdvance
  <1>4. CASE \E t \in Threads : Work(t) \/ Call(t)
    BY <1>1, <1>4, FrameStep, UsedStep
  <1> QED
    BY <1>2, <1>3, <1>4 DEF Next, Terminated, Crashed

\* A program that allocates, uses and frees in separate phases, as
\* multi_test.c does, needs no condition on the order of steps: if memory has
\* a frame and the TLB a slot for every page that its threads can hold at a
\* time, no frame gets a second use, no translation is stale, no access is
\* wild, every read returns what was written and everything is returned.
THEOREM PhasedIsSafe ==
  ASSUME Starts = {"alloc"}, IsFiniteSet(Threads), EnoughFrames, EnoughSlots
  PROVE  Spec => [](FramesExclusive /\ TLBCoherent /\ ReadsOwnData /\ Running /\ NothingLeaks)
  <1>1. Init => FrameInv /\ UsedInv /\ PhasedInv
    BY FrameInit, UsedInit, PhasedInit
  <1>2. FrameInv /\ UsedInv /\ PhasedInv /\ [Next]_vars => FrameInv' /\ UsedInv' /\ PhasedInv'
    BY PhasedStep
  <1>3. FrameInv /\ UsedInv =>
          FramesExclusive /\ TLBCoherent /\ ReadsOwnData /\ Running /\ NothingLeaks
    BY InvFrames, UsedIsEnough DEF FrameInv, SlotsOK, LiveOK, TLBCoherent, ReadOK, PhaseOK, Running
  <1> QED
    BY <1>1, <1>2, <1>3, PTL DEF Spec
=============================================================================
