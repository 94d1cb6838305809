--------------------------- MODULE RUFSTreeProofs ---------------------------
(***************************************************************************)
(* The names of rufs.c form a tree that only grows, and directories and    *)
(* files stay apart, across calls, crashes and failed reads and writes,    *)
(* for any number of inodes, blocks, pointers, names and faults, as long   *)
(* as no write of a bitmap is lost.  Builds on the invariant of the disk   *)
(* of RUFSProofs.                                                          *)
(***************************************************************************)
EXTENDS RUFSProofs, WellFoundedInduction, FiniteSetTheorems

AddPoints == {"ino", "dir_add", "dir_alloc", "dir_block", "dir_inode"}

\* The directory inode is about to get the block blk, its first, for the
\* pointer i: all its slots are in use, and no inode has the block yet.
FreshCopy(i) ==
  /\ IsFirstPtr(inode[at], i) /\ NoSlot(inode[at])
  /\ blk \in Blocks /\ cp = [inode[at] EXCEPT !.ptr[i] = blk]
  /\ \A m \in Inodes, j \in Ptrs : inode[m].valid => inode[m].ptr[j] # blk

\* How far the handler's copy of a directory has moved from the disk.
CopyOK ==
  /\ pc \in {"ino", "dir_add", "dir_alloc"} => cp = inode[at]
  /\ pc = "dir_alloc" => NoSlot(inode[at])
  /\ pc = "dir_block" => \E i \in Ptrs : FreshCopy(i)
  /\ pc = "dir_inode" =>
       \/ cp = inode[at]
       \/ /\ \E i \in Ptrs : FreshCopy(i)
          /\ ents[blk] = [ZeroBlock EXCEPT ![0] = NewEntry]

\* A call that adds a name has a name, works in a valid directory, and has a
\* block for the new inode only when that is a directory.
CallOK ==
  /\ pc \in AddPoints \cup {"new_block", "new_inode"} =>
       name \in Names /\ inode[at].valid /\ inode[at].dir /\ call \in {"mkdir", "create"}
  /\ pc \in AddPoints => cp.dir
  /\ pc = "write" => ~cp.dir /\ ~inode[at].dir
  /\ pc = "new_block" => call = "mkdir"
  /\ pc = "new_inode" /\ blk # 0 =>
       call = "mkdir" /\ ents[blk] = ZeroBlock /\ blk \notin filled

\* KindsApart, pointer by pointer, on the disk and in the handler's copy.  E
\* stands for the entries of the blocks, F for the blocks with file data.
KindOf(E, F, n) ==
  \A i \in Ptrs : n.ptr[i] # 0 =>
    IF n.dir THEN n.ptr[i] \notin F ELSE E[n.ptr[i]] = ZeroBlock
KindOK ==
  /\ \A n \in Inodes : inode[n].valid => KindOf(ents, filled, inode[n])
  /\ pc \in AddPoints \cup {"write"} => KindOf(ents, filled, cp)

\* The entry at a place of a directory, and the places in use.
At(E, n, e) == E[n.ptr[e[1]]][e[2]]
Used(E, n, e) == n.ptr[e[1]] # 0 /\ At(E, n, e).name # NULL

\* The entries of a directory fill its blocks from the front.
Packed(E, n) ==
  /\ \A i, k \in Ptrs : k < i /\ n.ptr[i] # 0 => n.ptr[k] # 0
  /\ \A d, e \in Places : Before(d, e) /\ Used(E, n, e) => Used(E, n, d)
PackedOK ==
  /\ \A n \in Inodes : inode[n].valid /\ inode[n].dir => Packed(ents, inode[n])
  /\ pc = "dir_inode" => Packed(ents, cp)

\* NamesUnique, place by place; and the name a handler adds is not there yet.
Unique(E, n) ==
  \A d, e \in Places :
    Used(E, n, d) /\ Used(E, n, e) /\ At(E, n, d).name = At(E, n, e).name => d = e
NameOK == failed \cap {"bitmap", "find"} = {} =>
  /\ \A n \in Inodes : inode[n].valid /\ inode[n].dir => Unique(ents, inode[n])
  /\ pc \in {"dir_alloc", "dir_block"} => ~HasEntry(inode[at], name)
  /\ pc = "dir_inode" => Unique(ents, cp)

\* The entry is where the handler has put it.
EntryIn(E, n, x) == \E e \in Places : n.ptr[e[1]] # 0 /\ At(E, n, e) = x
EntryOK == failed \cap {"bitmap", "write", "inode"} = {} =>
  /\ pc = "dir_inode" => EntryIn(ents, cp, NewEntry)
  /\ pc \in {"new_block", "new_inode"} => EntryIn(ents, inode[at], NewEntry)

\* Every entry names a valid inode but the one being created.
LeadOK == failed = {} /\ dbitmap # Blocks =>
  \A b \in Blocks, s \in Slots : ents[b][s].name # NULL =>
    \/ inode[ents[b][s].ino].valid
    \/ pc \in {"dir_inode", "new_block", "new_inode"} /\ ents[b][s].ino = new

\* The recorded size is the number of entries, but for the entry just added.
UsedIn(E, n) == {e \in BlocksOf(n) \X Slots : E[e[1]][e[2]].name # NULL}
SizeOK == failed \subseteq {"read"} =>
  /\ \A n \in Inodes : inode[n].valid /\ inode[n].dir /\ ~(pc = "dir_inode" /\ n = at) =>
       inode[n].size = Cardinality(UsedIn(ents, inode[n]))
  /\ pc = "dir_inode" => cp.size + 1 = Cardinality(UsedIn(ents, cp))

Tree == CopyOK /\ CallOK /\ KindOK /\ PackedOK /\ NameOK /\ EntryOK /\ LeadOK /\ SizeOK

\* The inductive invariant, on top of FaultInv.
TreeInv == MarksKept => Tree

-----------------------------------------------------------------------------
(***************************************************************************)
(* A directory and its entries                                             *)
(***************************************************************************)
\* A place is a pointer and a slot.
LEMMA PlaceIsPair ==
  ASSUME NEW e \in Places
  PROVE  e[1] \in Ptrs /\ e[2] \in Slots /\ e = <<e[1], e[2]>>
  BY DEF Places

\* Nothing is said of a directory that depends on more than its pointers and
\* the entries of its own blocks.
LEMMA SameBlocks ==
  ASSUME NEW E, NEW G, NEW m, NEW n, n.ptr = m.ptr,
         \A i \in Ptrs : n.ptr[i] # 0 => E[n.ptr[i]] = G[n.ptr[i]]
  PROVE  /\ \A e \in Places : n.ptr[e[1]] # 0 => At(E, n, e) = At(G, m, e)
         /\ \A e \in Places : Used(E, n, e) <=> Used(G, m, e)
         /\ Packed(E, n) <=> Packed(G, m)
         /\ Unique(E, n) <=> Unique(G, m)
         /\ UsedIn(E, n) = UsedIn(G, m)
         /\ \A x : EntryIn(E, n, x) <=> EntryIn(G, m, x)
  <1>1. \A e \in Places : n.ptr[e[1]] # 0 => At(E, n, e) = At(G, m, e)
    BY PlaceIsPair DEF At
  <1>2. \A e \in Places : Used(E, n, e) <=> Used(G, m, e) BY <1>1 DEF Used
  <1>3. Packed(E, n) <=> Packed(G, m) BY <1>2 DEF Packed
  <1>4. Unique(E, n) <=> Unique(G, m) BY <1>1, <1>2 DEF Unique, Used
  <1>5. UsedIn(E, n) = UsedIn(G, m)
    <2>1. BlocksOf(n) = BlocksOf(m) /\ \A b \in BlocksOf(n) : E[b] = G[b] BY DEF BlocksOf
    <2>2. QED BY <2>1 DEF UsedIn
  <1>6. \A x : EntryIn(E, n, x) <=> EntryIn(G, m, x) BY <1>1 DEF EntryIn
  <1>7. QED BY <1>1, <1>2, <1>3, <1>4, <1>5, <1>6

\* A directory has finitely many entries.
LEMMA FiniteUsed ==
  ASSUME NEW n \in Inode, NEW E PROVE IsFiniteSet(UsedIn(E, n)) /\ Cardinality(UsedIn(E, n)) \in Nat
  <1>1. IsFiniteSet(Blocks \X Slots)
    <2>1. IsFiniteSet(Blocks) BY FS_Interval, RUFSAssumption DEF Blocks
    <2>2. IsFiniteSet(Slots) BY FS_Interval, RUFSAssumption DEF Slots
    <2>3. QED BY <2>1, <2>2, FS_Product
  <1>2. UsedIn(E, n) \in SUBSET (Blocks \X Slots) BY DEF UsedIn, BlocksOf, Inode
  <1>3. QED BY <1>1, <1>2, FS_Subset, FS_CardinalityType

\* The entry x goes to the place p of a directory n, the first that is not in
\* use, and changes the entries E to G.
PutsEntry(E, G, n, x, p) ==
  /\ n \in Inode /\ E \in [Blocks -> [Slots -> Entry]] /\ G \in [Blocks -> [Slots -> Entry]]
  /\ x \in Entry /\ x.name # NULL /\ p \in Places /\ n.ptr[p[1]] # 0 /\ ~Used(E, n, p)
  /\ \A i, j \in Ptrs : n.ptr[i] = n.ptr[j] /\ n.ptr[i] # 0 => i = j
  /\ \A d \in Places : Before(d, p) /\ n.ptr[d[1]] # 0 => Used(E, n, d)
  /\ \A b \in Blocks, s \in Slots :
       G[b][s] = IF b = n.ptr[p[1]] /\ s = p[2] THEN x ELSE E[b][s]
  /\ Packed(E, n)

\* Nothing else changes, and x is the last entry of the directory.
LEMMA PutEntry ==
  ASSUME NEW E, NEW G, NEW n, NEW x, NEW p, PutsEntry(E, G, n, x, p)
  PROVE  /\ At(G, n, p) = x
         /\ \A e \in Places : e # p /\ n.ptr[e[1]] # 0 => At(G, n, e) = At(E, n, e)
         /\ \A e \in Places : Used(G, n, e) <=> e = p \/ Used(E, n, e)
         /\ Packed(G, n) /\ EntryIn(G, n, x)
         /\ Unique(E, n) /\ (\A e \in Places : Used(E, n, e) => At(E, n, e).name # x.name)
              => Unique(G, n)
         /\ Cardinality(UsedIn(G, n)) = Cardinality(UsedIn(E, n)) + 1
  <1> USE DEF PutsEntry
  <1>0. \A e \in Places : n.ptr[e[1]] # 0 => n.ptr[e[1]] \in Blocks BY PlaceIsPair DEF Inode
  <1>1. At(G, n, p) = x BY <1>0, PlaceIsPair DEF At
  <1>2. \A e \in Places : e # p /\ n.ptr[e[1]] # 0 => At(G, n, e) = At(E, n, e)
    BY <1>0, PlaceIsPair DEF At
  <1>3. \A e \in Places : Used(G, n, e) <=> e = p \/ Used(E, n, e) BY <1>1, <1>2 DEF Used
  <1>4. Packed(G, n)
    <2>1. \A i, k \in Ptrs : k < i /\ n.ptr[i] # 0 => n.ptr[k] # 0 BY DEF Packed
    <2>2. \A d \in Places : Before(d, p) => n.ptr[d[1]] # 0
      BY <2>1, PlaceIsPair DEF Before
    <2>3. \A d, e \in Places : Before(d, e) /\ Used(E, n, e) => Used(E, n, d) BY DEF Packed
    <2>4. QED BY <1>3, <2>1, <2>2, <2>3 DEF Packed
  <1>5. EntryIn(G, n, x) BY <1>1 DEF EntryIn
  <1>6. Unique(E, n) /\ (\A e \in Places : Used(E, n, e) => At(E, n, e).name # x.name)
          => Unique(G, n)
    BY <1>1, <1>2, <1>3 DEF Unique, Used
  <1>7. Cardinality(UsedIn(G, n)) = Cardinality(UsedIn(E, n)) + 1
    <2> DEFINE q == <<n.ptr[p[1]], p[2]>>
    <2>1. q \in BlocksOf(n) \X Slots BY PlaceIsPair DEF BlocksOf
    <2>2. q \notin UsedIn(E, n) BY DEF UsedIn, Used, At
    <2>3. UsedIn(G, n) = UsedIn(E, n) \cup {q}
      <3>1. \A b \in BlocksOf(n) : b \in Blocks BY DEF BlocksOf, Inode
      <3>2. \A e \in BlocksOf(n) \X Slots : e \in UsedIn(G, n) <=> e = q \/ e \in UsedIn(E, n)
        BY <3>1 DEF UsedIn
      <3>3. QED BY <2>1, <3>2 DEF UsedIn
    <2>4. QED BY <2>2, <2>3, FiniteUsed, FS_AddElement
  <1>8. QED BY <1>1, <1>2, <1>3, <1>4, <1>5, <1>6, <1>7

\* A directory n that is full gets the block b, all zero, for its first free
\* pointer i, and becomes m.
GetsBlock(E, n, b, i, m) ==
  /\ n \in Inode /\ E \in [Blocks -> [Slots -> Entry]] /\ b \in Blocks /\ i \in Ptrs
  /\ IsFirstPtr(n, i) /\ (\A k \in Ptrs : n.ptr[k] # b) /\ E[b] = ZeroBlock
  /\ (\A e \in Places : n.ptr[e[1]] # 0 => Used(E, n, e)) /\ Packed(E, n)
  /\ m \in Inode /\ m = [n EXCEPT !.ptr[i] = b]

\* Nothing is in the block, and its first place is the one that the next entry
\* goes to.
LEMMA GetBlock ==
  ASSUME NEW E, NEW n, NEW b, NEW i, NEW m, GetsBlock(E, n, b, i, m)
  PROVE  /\ \A k \in Ptrs : m.ptr[k] = IF k = i THEN b ELSE n.ptr[k]
         /\ \A e \in Places : m.ptr[e[1]] # 0 /\ e[1] # i => At(E, m, e) = At(E, n, e)
         /\ \A e \in Places : Used(E, m, e) <=> Used(E, n, e)
         /\ Packed(E, m) /\ (Unique(E, n) => Unique(E, m))
         /\ UsedIn(E, m) = UsedIn(E, n)
         /\ <<i, 0>> \in Places /\ ~Used(E, m, <<i, 0>>)
         /\ \A d \in Places : Before(d, <<i, 0>>) /\ m.ptr[d[1]] # 0 => Used(E, m, d)
  <1> USE DEF GetsBlock
  <1>0. b # 0 /\ n.ptr[i] = 0 /\ 0 \in Slots /\ \A s \in Slots : ZeroBlock[s].name = NULL
    BY Empties DEF Blocks, IsFirstPtr, ZeroBlock, NoEntry
  <1>1. \A k \in Ptrs : m.ptr[k] = IF k = i THEN b ELSE n.ptr[k] BY DEF Inode
  <1>2. \A e \in Places : m.ptr[e[1]] # 0 /\ e[1] # i => At(E, m, e) = At(E, n, e)
    BY <1>1, PlaceIsPair DEF At
  <1>3. \A e \in Places : e[1] = i => At(E, m, e).name = NULL
    BY <1>0, <1>1, PlaceIsPair DEF At
  <1>4. \A e \in Places : Used(E, m, e) <=> Used(E, n, e)
    BY <1>0, <1>1, <1>2, <1>3, PlaceIsPair DEF Used
  <1>5. \A j, k \in Ptrs : k < j /\ n.ptr[j] # 0 => n.ptr[k] # 0 BY DEF Packed
  <1>6. \A j, k \in Ptrs : k < j /\ m.ptr[j] # 0 => m.ptr[k] # 0
    <2>1. \A k \in Ptrs : k < i => n.ptr[k] # 0 BY RUFSAssumption DEF IsFirstPtr, Ptrs
    <2>2. QED BY <1>0, <1>1, <1>5, <2>1
  <1>7. Packed(E, m) BY <1>4, <1>6 DEF Packed
  <1>8. Unique(E, n) => Unique(E, m)
    BY <1>0, <1>2, <1>3, <1>4 DEF Unique, Used
  <1>9. UsedIn(E, m) = UsedIn(E, n)
    <2>1. BlocksOf(m) = BlocksOf(n) \cup {b}
      <3>1. BlocksOf(m) \subseteq BlocksOf(n) \cup {b} BY <1>1 DEF BlocksOf
      <3>2. b \in BlocksOf(m) BY <1>0, <1>1 DEF BlocksOf
      <3>3. BlocksOf(n) \subseteq BlocksOf(m)
        <4> SUFFICES ASSUME NEW k \in Ptrs, n.ptr[k] # 0 PROVE n.ptr[k] \in BlocksOf(m)
          BY DEF BlocksOf
        <4>1. m.ptr[k] = n.ptr[k] BY <1>0, <1>1
        <4>2. QED BY <4>1 DEF BlocksOf
      <3>4. QED BY <3>1, <3>2, <3>3
    <2>2. \A s \in Slots : E[b][s].name = NULL BY <1>0
    <2>3. QED BY <2>1, <2>2 DEF UsedIn
  <1>10. <<i, 0>> \in Places /\ ~Used(E, m, <<i, 0>>) BY <1>0, <1>3 DEF Places, Used
  <1>11. \A d \in Places : Before(d, <<i, 0>>) /\ m.ptr[d[1]] # 0 => Used(E, m, d)
    <2> SUFFICES ASSUME NEW d \in Places, Before(d, <<i, 0>>), m.ptr[d[1]] # 0 PROVE Used(E, m, d)
      OBVIOUS
    <2>1. d[1] # i BY PlaceIsPair, RUFSAssumption DEF Before, Slots, Ptrs
    <2>2. n.ptr[d[1]] # 0 BY <1>1, <2>1, PlaceIsPair
    <2>3. QED BY <1>4, <2>2
  <1>12. QED BY <1>1, <1>2, <1>4, <1>7, <1>8, <1>9, <1>10, <1>11

-----------------------------------------------------------------------------
(***************************************************************************)
(* Steps that leave the tree alone                                         *)
(***************************************************************************)
\* A disk that has just been created, or is being formatted, has no inode and
\* no entry.
LEMMA PristineTree ==
  Pristine /\ pc \notin AddPoints \cup {"new_block", "new_inode", "write"} => Tree
  <1> SUFFICES ASSUME Pristine, pc \notin AddPoints \cup {"new_block", "new_inode", "write"} PROVE Tree
    OBVIOUS
  <1> USE DEF Pristine, AddPoints
  <1>1. \A b \in Blocks, s \in Slots : ents[b][s].name = NULL BY DEF ZeroBlock, NoEntry
  <1>2. CopyOK /\ CallOK /\ KindOK /\ PackedOK BY DEF CopyOK, CallOK, KindOK, PackedOK
  <1>3. NameOK /\ EntryOK /\ LeadOK /\ SizeOK BY <1>1 DEF NameOK, EntryOK, LeadOK, SizeOK
  <1>4. QED BY <1>2, <1>3 DEF Tree

\* A call that returns or dies with inodes and entries as they were.  Only
\* faults and a full disk end a call whose entry has been written.
LEMMA RestTree ==
  ASSUME Tree, TypeOK', failed \subseteq failed', UNCHANGED <<inode, ents, filled>>,
         dbitmap \subseteq dbitmap',
         pc' \notin AddPoints \cup {"new_block", "new_inode", "write"},
         \/ pc \notin {"dir_inode", "new_block", "new_inode"}
         \/ failed' # {} \/ dbitmap' = Blocks,
         pc # "dir_inode" \/ ~(failed' \subseteq {"read"})
  PROVE  Tree'
  <1> USE DEF Tree, AddPoints
  <1>1. CopyOK' /\ CallOK' /\ EntryOK' BY DEF CopyOK, CallOK, EntryOK
  <1>2. KindOK' BY DEF KindOK
  <1>3. PackedOK' BY DEF PackedOK
  <1>4. NameOK' BY DEF NameOK
  <1>5. LeadOK' BY DEF LeadOK, TypeOK
  <1>6. SizeOK' BY DEF SizeOK
  <1>7. QED BY <1>1, <1>2, <1>3, <1>4, <1>5, <1>6

\* Formatting, mounting, unmounting and crashing.
LEMMA MkfsTree ==
  ASSUME DiskInv, Tree, TypeOK', MarksKept', failed \subseteq failed',
         Mkfs \/ Mount \/ Unmount \/ Crash
  PROVE  Tree'
  <1>0. Pristine' /\ (pc \notin AddPoints \cup {"new_block", "new_inode", "write"})' => Tree'
    BY PristineTree, PTL
  <1>1. CASE DevInit \/ MkfsSuper \/ MkfsIBitmap \/ MkfsDBitmap \/ MkfsRootBlock
    <2>1. Pristine BY <1>1 DEF DiskInv, Formatting, DevInit, MkfsSuper, MkfsIBitmap, MkfsDBitmap, MkfsRootBlock
    <2>2. Pristine'
      BY <1>1, <2>1, Empties DEF Pristine, DevInit, MkfsSuper, MkfsIBitmap, MkfsDBitmap, MkfsRootBlock, bio_write
    <2>3. pc' \notin AddPoints \cup {"new_block", "new_inode", "write"}
      BY <1>1 DEF AddPoints, DevInit, MkfsSuper, MkfsIBitmap, MkfsDBitmap, MkfsRootBlock, bio_write
    <2>4. QED BY <1>0, <2>2, <2>3
  <1>2. CASE MkfsRoot
    <2>1. Pristine BY <1>2 DEF DiskInv, Formatting, MkfsRoot
    <2>2. /\ UNCHANGED <<ents, filled>> /\ pc' = "idle"
          /\ UNCHANGED inode \/ inode' = [inode EXCEPT ![Root] = RootInode]
      BY <1>2 DEF MkfsRoot, writei
    <2>3. CASE UNCHANGED inode BY <1>0, <2>1, <2>2, <2>3 DEF Pristine, AddPoints
    <2>4. CASE inode' = [inode EXCEPT ![Root] = RootInode]
      <3>1. /\ \A b \in Blocks : ents'[b] = ZeroBlock
            /\ \A s \in Slots : ZeroBlock[s].name = NULL
            /\ filled' = {}
        BY <2>1, <2>2 DEF Pristine, ZeroBlock, NoEntry
      <3>2. \A n \in Inodes : inode'[n].valid => n = Root
        BY <2>1, <2>4, Empties DEF DiskInv, TypeOK, Pristine
      <3>3. /\ inode'[Root].valid /\ inode'[Root].dir /\ inode'[Root].size = 0
            /\ inode'[Root] \in Inode
            /\ \A i \in Ptrs : inode'[Root].ptr[i] = IF i = 0 THEN 1 ELSE 0
        BY <2>4, Empties DEF DiskInv, TypeOK, RootInode, NoPtrs
      <3>4. CopyOK' /\ CallOK' /\ EntryOK' BY <2>2 DEF CopyOK, CallOK, EntryOK, AddPoints
      <3>5. KindOK' BY <2>2, <3>1, <3>2, <3>3 DEF KindOK, KindOf, AddPoints
      <3>6. \A e \in Places : ~Used(ents', inode'[Root], e)
        BY <3>1, <3>3, PlaceIsPair, Empties DEF Used, At
      <3>7. PackedOK'
        <4>1. \A i, k \in Ptrs : k < i => inode'[Root].ptr[i] = 0 BY <3>3, RUFSAssumption DEF Ptrs
        <4>2. Packed(ents', inode'[Root]) BY <3>6, <4>1 DEF Packed
        <4>3. QED BY <2>2, <3>2, <4>2 DEF PackedOK
      <3>8. NameOK' BY <2>2, <3>2, <3>6 DEF NameOK, Unique
      <3>9. LeadOK' BY <3>1 DEF LeadOK
      <3>10. SizeOK'
        <4>1. UsedIn(ents', inode'[Root]) = {} BY <3>1, <3>3, Empties DEF UsedIn, BlocksOf, Inode
        <4>2. QED BY <2>2, <3>2, <3>3, <4>1, FS_EmptySet DEF SizeOK
      <3>11. QED BY <3>4, <3>5, <3>7, <3>8, <3>9, <3>10 DEF Tree
    <2>5. QED BY <2>2, <2>3, <2>4
  <1>3. CASE Mount \/ Unmount \/ Crash
    <2>1. UNCHANGED ondisk BY <1>3 DEF Mount, Unmount, Crash
    <2>2. QED BY <1>3, <2>1, RestTree DEF Mount, Unmount, Crash, ondisk, AddPoints, Fault
  <1>4. QED BY <1>1, <1>2, <1>3 DEF Mkfs

\* A call begins with a copy of an inode that it has found.
LEMMA BeginTree ==
  ASSUME DiskInv, Tree, TypeOK', MarksKept', failed \subseteq failed', Begin
  PROVE  Tree'
  <1>1. /\ UNCHANGED <<inode, ents, filled, dbitmap>> /\ pc = "idle"
        /\ at' \in Inodes /\ inode[at'].valid /\ cp' = inode[at'] /\ pc' \in {"ino", "write"}
        /\ pc' = "ino" => name' \in Names /\ call' \in {"mkdir", "create"} /\ inode[at'].dir
        /\ pc' = "write" => ~inode[at'].dir
    BY DEF Begin, BeginAdd, BeginWrite, Writable, ondisk
  <1> USE <1>1 DEF Tree, AddPoints
  <1>2. CopyOK' /\ CallOK' /\ EntryOK' BY DEF CopyOK, CallOK, EntryOK
  <1>3. KindOK' BY DEF KindOK
  <1>4. PackedOK' /\ NameOK' BY DEF PackedOK, NameOK
  <1>5. LeadOK' BY DEF LeadOK, TypeOK
  <1>6. SizeOK' BY DEF SizeOK
  <1>7. QED BY <1>2, <1>3, <1>4, <1>5, <1>6

\* get_avail_ino
LEMMA InoTree ==
  ASSUME DiskInv, Tree, TypeOK', MarksKept', failed \subseteq failed', AllocIno
  PROVE  Tree'
  <1>1. UNCHANGED <<inode, ents, filled, dbitmap>> /\ pc = "ino" BY DEF AllocIno
  <1>2. CASE Return BY <1>1, <1>2, RestTree DEF Return, AddPoints
  <1>3. CASE ~Return
    <2>1. pc' = "dir_add" /\ UNCHANGED <<at, cp, call, name>> BY <1>3 DEF AllocIno
    <2> USE <1>1, <2>1 DEF Tree, AddPoints
    <2>2. CopyOK' /\ CallOK' /\ EntryOK' BY DEF CopyOK, CallOK, EntryOK
    <2>3. KindOK' BY DEF KindOK
    <2>4. PackedOK' /\ NameOK' BY DEF PackedOK, NameOK
    <2>5. LeadOK' BY DEF LeadOK, TypeOK
    <2>6. SizeOK' BY DEF SizeOK
    <2>7. QED BY <2>2, <2>3, <2>4, <2>5, <2>6
  <1>4. QED BY <1>2, <1>3

\* A call that cannot read gives up.
LEMMA ReadFailsTree ==
  ASSUME DiskInv, Tree, TypeOK', MarksKept', failed \subseteq failed', ReadFails
  PROVE  Tree'
  BY RestTree DEF ReadFails, Return, Fault, ondisk, AddPoints

\* Whatever is said of the directories other than the one that is worked on
\* stays true when entries change in blocks that are not theirs.
LEMMA OthersTree ==
  ASSUME DiskInv, Tree, NEW n \in Inodes, inode[n].valid, inode'[n] = inode[n],
         failed \subseteq failed', pc = "dir_inode" => n # at,
         \A i \in Ptrs : inode[n].ptr[i] # 0 =>
           /\ ents'[inode[n].ptr[i]] = ents[inode[n].ptr[i]]
           /\ inode[n].ptr[i] \in filled' => inode[n].ptr[i] \in filled
  PROVE  /\ KindOf(ents', filled', inode'[n])
         /\ inode[n].dir => Packed(ents', inode'[n])
         /\ inode[n].dir /\ failed' \cap {"bitmap", "find"} = {} => Unique(ents', inode'[n])
         /\ inode[n].dir /\ failed' \subseteq {"read"} =>
              inode'[n].size = Cardinality(UsedIn(ents', inode'[n]))
  <1>1. KindOf(ents', filled', inode'[n]) BY DEF Tree, KindOK, KindOf
  <1>2. /\ Packed(ents', inode'[n]) <=> Packed(ents, inode[n])
        /\ Unique(ents', inode'[n]) <=> Unique(ents, inode[n])
        /\ UsedIn(ents', inode'[n]) = UsedIn(ents, inode[n])
    BY SameBlocks
  <1>3. inode[n].dir => Packed(ents', inode'[n]) BY <1>2 DEF Tree, PackedOK
  <1>4. inode[n].dir /\ failed' \cap {"bitmap", "find"} = {} => Unique(ents', inode'[n])
    BY <1>2 DEF Tree, NameOK
  <1>5. inode[n].dir /\ failed' \subseteq {"read"} =>
          inode'[n].size = Cardinality(UsedIn(ents', inode'[n]))
    BY <1>2 DEF Tree, SizeOK
  <1>6. QED BY <1>1, <1>3, <1>4, <1>5

\* dir_add puts the entry into a block of its directory.
LEMMA DirAddPuts ==
  ASSUME DiskInv, Tree, TypeOK', DirAdd, pc' = "dir_inode"
  PROVE  /\ \E p \in Places : PutsEntry(ents, ents', cp, NewEntry, p)
         /\ \A m \in Inodes : inode[m].valid /\ m # at =>
              \A k \in Ptrs : inode[m].ptr[k] # 0 => ents'[inode[m].ptr[k]] = ents[inode[m].ptr[k]]
  <1>0. /\ UNCHANGED <<inode, filled, dbitmap>> /\ pc = "dir_add" /\ cp = inode[at]
        /\ at \in Inodes /\ inode[at].valid /\ inode[at].dir /\ cp \in Inode
        /\ name \in Names /\ new \in Inodes
    BY DEF DirAdd, Tree, CopyOK, CallOK, AddPoints, DiskInv, TypeOK
  <1>1. PICK i \in Ptrs, s \in Slots :
          IsFirstSlot(cp, i, s) /\ ents' = [ents EXCEPT ![cp.ptr[i]][s] = NewEntry]
    BY DEF DirAdd, Return
  <1> DEFINE p == <<i, s>>
             B == cp.ptr[i]
  <1>2. /\ p \in Places /\ p[1] = i /\ p[2] = s /\ cp.ptr[p[1]] # 0 /\ ~Used(ents, cp, p)
        /\ B \in Blocks
    BY <1>0, <1>1 DEF IsFirstSlot, IsEntry, Places, Used, At, Inode
  <1>3. \A b \in Blocks, r \in Slots :
          ents'[b][r] = IF b = B /\ r = s THEN NewEntry ELSE ents[b][r]
    BY <1>1, <1>2 DEF DiskInv, TypeOK
  <1>4. NewEntry \in Entry /\ NewEntry.name # NULL BY <1>0, RUFSAssumption DEF NewEntry, Entry
  <1>5. \A d \in Places : Before(d, p) /\ cp.ptr[d[1]] # 0 => Used(ents, cp, d)
    BY <1>1 DEF IsFirstSlot, IsEntry, Used, At
  <1>6. /\ \A j, k \in Ptrs : cp.ptr[j] = cp.ptr[k] /\ cp.ptr[j] # 0 => j = k
        /\ \A m \in Inodes, k \in Ptrs : inode[m].valid /\ m # at => inode[m].ptr[k] # B
    BY <1>0, <1>2 DEF DiskInv, Working
  <1>7. Packed(ents, cp) BY <1>0 DEF Tree, PackedOK
  <1>8. ents \in [Blocks -> [Slots -> Entry]] /\ ents' \in [Blocks -> [Slots -> Entry]]
    BY DEF DiskInv, TypeOK
  <1>9. PutsEntry(ents, ents', cp, NewEntry, p)
    <2> HIDE DEF p
    <2>1. \A b \in Blocks, r \in Slots :
            ents'[b][r] = IF b = cp.ptr[p[1]] /\ r = p[2] THEN NewEntry ELSE ents[b][r]
      BY <1>2, <1>3
    <2>2. \A j, k \in Ptrs : cp.ptr[j] = cp.ptr[k] /\ cp.ptr[j] # 0 => j = k BY <1>6
    <2>3. p \in Places /\ cp.ptr[p[1]] # 0 /\ ~Used(ents, cp, p) BY <1>2
    <2>4. cp \in Inode BY <1>0
    <2>5. QED BY <1>4, <1>5, <1>7, <1>8, <2>1, <2>2, <2>3, <2>4 DEF PutsEntry
  <1>10. \A m \in Inodes : inode[m].valid /\ m # at =>
           \A k \in Ptrs : inode[m].ptr[k] # 0 => ents'[inode[m].ptr[k]] = ents[inode[m].ptr[k]]
    <2>1. \A b \in Blocks : b # B => ents'[b] = ents[b] BY <1>1, <1>2, <1>8
    <2>2. QED BY <1>6, <2>1 DEF DiskInv, TypeOK, Inode
  <1>11. QED BY <1>2, <1>9, <1>10

\* dir_add: the entry goes to the first free slot, or a block is needed.
LEMMA DirAddTree ==
  ASSUME DiskInv, Tree, TypeOK', MarksKept', failed \subseteq failed', DirAdd
  PROVE  Tree'
  <1>0. /\ UNCHANGED <<inode, filled, dbitmap>> /\ pc = "dir_add" /\ cp = inode[at]
        /\ at \in Inodes /\ inode[at].valid /\ inode[at].dir /\ cp \in Inode
        /\ name \in Names /\ new \in Inodes /\ call \in {"mkdir", "create"}
    BY DEF DirAdd, Tree, CopyOK, CallOK, AddPoints, DiskInv, TypeOK
  <1>1. CASE Return /\ UNCHANGED ents BY <1>0, <1>1, RestTree DEF Return, AddPoints
  <1>2. CASE Unseen /\ NoSlot(cp) /\ pc' = "dir_alloc" /\ UNCHANGED <<locals, ents>>
    <2> USE <1>0, <1>2 DEF locals, AddPoints
    <2>1. CopyOK' /\ CallOK' /\ EntryOK'
      BY DEF Tree, CopyOK, CallOK, EntryOK, NoSlot, HasEntry, IsEntry
    <2>2. KindOK' /\ PackedOK' BY DEF Tree, KindOK, PackedOK
    <2>3. NameOK'
      <3>1. HasEntry(inode[at], name) => "find" \in failed' BY DEF Unseen, NameTaken, Fault
      <3>2. HasEntry(inode[at], name)' <=> HasEntry(inode[at], name) BY DEF HasEntry, IsEntry
      <3>3. QED BY <3>1, <3>2 DEF Tree, NameOK
    <2>4. LeadOK' BY DEF Tree, LeadOK, TypeOK
    <2>5. SizeOK' BY DEF Tree, SizeOK
    <2>6. QED BY <2>1, <2>2, <2>3, <2>4, <2>5 DEF Tree
  <1>3. CASE /\ Unseen /\ pc' = "dir_inode" /\ UNCHANGED locals
             /\ \E i \in Ptrs, s \in Slots :
                  IsFirstSlot(cp, i, s) /\ ents' = [ents EXCEPT ![cp.ptr[i]][s] = NewEntry]
    <2>1. PICK p \in Places : PutsEntry(ents, ents', cp, NewEntry, p) BY <1>3, DirAddPuts
    <2>2. \E B \in Blocks, s \in Slots : \A b \in Blocks, r \in Slots :
            ents'[b][r] = IF b = B /\ r = s THEN NewEntry ELSE ents[b][r]
      <3>1. cp.ptr[p[1]] \in Blocks /\ p[2] \in Slots BY <2>1, PlaceIsPair DEF PutsEntry, Inode
      <3>2. QED BY <2>1, <3>1 DEF PutsEntry
    <2>4. NewEntry.name = name /\ NewEntry.ino = new BY DEF NewEntry
    <2>5. UNCHANGED NewEntry BY <1>3 DEF NewEntry, locals
    <2>10. /\ Packed(ents', cp) /\ EntryIn(ents', cp, NewEntry)
           /\ Unique(ents, cp) /\ (\A e \in Places : Used(ents, cp, e) => At(ents, cp, e).name # NewEntry.name)
                => Unique(ents', cp)
           /\ Cardinality(UsedIn(ents', cp)) = Cardinality(UsedIn(ents, cp)) + 1
      BY <2>1, PutEntry
    <2>11. \A m \in Inodes : inode[m].valid /\ m # at =>
             \A k \in Ptrs : inode[m].ptr[k] # 0 => ents'[inode[m].ptr[k]] = ents[inode[m].ptr[k]]
      BY <1>3, DirAddPuts
    <2>12. \A m \in Inodes : inode[m].valid /\ m # at =>
             /\ KindOf(ents', filled', inode'[m])
             /\ inode[m].dir => Packed(ents', inode'[m])
             /\ inode[m].dir /\ failed' \cap {"bitmap", "find"} = {} => Unique(ents', inode'[m])
             /\ inode[m].dir /\ failed' \subseteq {"read"} =>
                  inode'[m].size = Cardinality(UsedIn(ents', inode'[m]))
      BY <1>0, <2>11, OthersTree
    <2>13. UNCHANGED <<at, cp, call, name, new, blk>> BY <1>3 DEF locals
    <2>14. CopyOK' /\ CallOK' BY <1>0, <1>3, <2>13 DEF CopyOK, CallOK, AddPoints
    <2>15. KindOK'
      <3>1. KindOf(ents', filled', cp) BY <1>0 DEF Tree, KindOK, KindOf
      <3>2. QED BY <1>0, <2>12, <2>13, <3>1 DEF KindOK
    <2>16. PackedOK' BY <1>0, <2>10, <2>12, <2>13 DEF PackedOK
    <2>17. NameOK'
      <3>1. CASE failed' \cap {"bitmap", "find"} = {}
        <4>1. ~HasEntry(inode[at], name) BY <1>3, <3>1 DEF Unseen, NameTaken, Fault
        <4>2. \A e \in Places : Used(ents, cp, e) => At(ents, cp, e).name # NewEntry.name
          BY <1>0, <2>4, <4>1 DEF HasEntry, IsEntry, Used, At
        <4>3. Unique(ents, cp) BY <1>0, <3>1 DEF Tree, NameOK
        <4>4. Unique(ents', cp) BY <2>10, <4>2, <4>3
        <4>5. QED BY <1>0, <1>3, <2>12, <2>13, <3>1, <4>4 DEF NameOK
      <3>2. QED BY <3>1 DEF NameOK
    <2>18. EntryOK' BY <1>3, <2>5, <2>10, <2>13 DEF EntryOK
    <2>19. LeadOK'
      <3> SUFFICES ASSUME failed' = {}, dbitmap' # Blocks, NEW b \in Blocks, NEW r \in Slots,
                          ents'[b][r].name # NULL
                   PROVE  \/ inode'[ents'[b][r].ino].valid
                          \/ /\ pc' \in {"dir_inode", "new_block", "new_inode"}
                             /\ ents'[b][r].ino = new'
        BY DEF LeadOK
      <3>1. failed = {} /\ dbitmap # Blocks BY <1>0
      <3>2. ents'[b][r] = NewEntry \/ ents'[b][r] = ents[b][r] BY <2>2
      <3>3. CASE ents'[b][r] = NewEntry BY <1>3, <2>4, <2>13, <3>3
      <3>4. CASE ents'[b][r] = ents[b][r]
        <4>1. ents[b][r].name # NULL BY <3>4
        <4>2. inode[ents[b][r].ino].valid BY <1>0, <3>1, <4>1 DEF Tree, LeadOK
        <4>3. QED BY <1>0, <3>4, <4>2
      <3>5. QED BY <3>2, <3>3, <3>4
    <2>20. SizeOK'
      <3>1. CASE failed' \subseteq {"read"}
        <4>1. cp.size = Cardinality(UsedIn(ents, cp)) BY <1>0, <3>1 DEF Tree, SizeOK
        <4>2. QED BY <1>0, <1>3, <2>10, <2>12, <2>13, <3>1, <4>1 DEF SizeOK
      <3>2. QED BY <3>1 DEF SizeOK
    <2>21. QED BY <2>14, <2>15, <2>16, <2>17, <2>18, <2>19, <2>20 DEF Tree
  <1>4. QED BY <1>1, <1>2, <1>3 DEF DirAdd

\* A block that was not marked holds nothing, so the copy of an inode that
\* gets it keeps its kind.
LEMMA CopyKind ==
  ASSUME DiskInv, MarksKept', NEW b \in Blocks, NEW i \in Ptrs, get_avail_blkno(b),
         KindOf(ents, filled, cp), cp' = [cp EXCEPT !.ptr[i] = b], UNCHANGED <<ents, filled>>
  PROVE  cp'.dir = cp.dir /\ cp'.valid = cp.valid /\ KindOf(ents', filled', cp')
  <1>1. ents[b] = ZeroBlock /\ b \notin filled BY BlockFresh DEF DiskInv, FreshIsZero
  <1>2. cp \in Inode BY DEF DiskInv, TypeOK
  <1>3. /\ cp'.dir = cp.dir /\ cp'.valid = cp.valid
        /\ \A k \in Ptrs : cp'.ptr[k] = IF k = i THEN b ELSE cp.ptr[k]
    BY <1>2 DEF Inode
  <1>4. QED BY <1>1, <1>3 DEF KindOf

\* The directory gets a block.
LEMMA DirAllocTree ==
  ASSUME DiskInv, Tree, TypeOK', MarksKept', failed \subseteq failed', DirAlloc
  PROVE  Tree'
  <1>0. /\ UNCHANGED <<inode, ents, filled>> /\ pc = "dir_alloc" /\ cp = inode[at]
        /\ at \in Inodes /\ inode[at].valid /\ inode[at].dir /\ NoSlot(inode[at])
    BY DEF DirAlloc, Tree, CopyOK, CallOK, AddPoints, DiskInv, TypeOK
  <1>1. dbitmap \subseteq dbitmap' BY DEF DirAlloc, get_avail_blkno, bio_write, set_bitmap
  <1>2. CASE Return BY <1>0, <1>1, <1>2, RestTree DEF Return, AddPoints
  <1>3. CASE ~Return
    <2>1. PICK b \in Blocks, i \in Ptrs :
            get_avail_blkno(b) /\ IsFirstPtr(cp, i) /\ cp' = [cp EXCEPT !.ptr[i] = b]
      BY <1>3 DEF DirAlloc
    <2>2. pc' = "dir_block" /\ UNCHANGED <<at, call, name, new>> BY <1>3 DEF DirAlloc
    <2>3. /\ blk' = b
          /\ \A m \in Inodes, k \in Ptrs : inode[m].valid => inode[m].ptr[k] # b
      BY <2>1, BlockFresh
    <2>4. NoSlot(inode[at])' /\ (HasEntry(inode[at], name)' <=> HasEntry(inode[at], name))
      BY <1>0, <2>2 DEF NoSlot, HasEntry, IsEntry
    <2>5. FreshCopy(i)'
      BY <1>0, <2>1, <2>2, <2>3, <2>4 DEF FreshCopy, IsFirstPtr
    <2>6. CopyOK' BY <2>2, <2>5 DEF CopyOK
    <2>7. cp'.dir = cp.dir /\ KindOf(ents', filled', cp')
      <3>1. KindOf(ents, filled, cp) BY <1>0 DEF Tree, KindOK
      <3>2. QED BY <1>0, <2>1, <3>1, CopyKind
    <2>8. CallOK' BY <1>0, <2>2, <2>7 DEF Tree, CallOK, AddPoints
    <2>9. KindOK' BY <1>0, <2>7 DEF Tree, KindOK
    <2>10. PackedOK' /\ EntryOK' BY <1>0, <2>2 DEF Tree, PackedOK, EntryOK
    <2>11. NameOK' BY <1>0, <2>2, <2>4 DEF Tree, NameOK
    <2>12. LeadOK' BY <1>0, <1>1, <2>2 DEF Tree, LeadOK, TypeOK
    <2>13. SizeOK' BY <1>0, <2>2 DEF Tree, SizeOK
    <2>14. QED BY <2>6, <2>8, <2>9, <2>10, <2>11, <2>12, <2>13 DEF Tree
  <1>4. QED BY <1>2, <1>3

\* The block is written with the entry in its first slot.
LEMMA DirBlockTree ==
  ASSUME DiskInv, Tree, TypeOK', MarksKept', failed \subseteq failed', DirBlock
  PROVE  Tree'
  <1>0. /\ UNCHANGED <<inode, dbitmap>> /\ pc = "dir_block" /\ at \in Inodes
        /\ inode[at].valid /\ inode[at].dir /\ inode[at] \in Inode /\ cp \in Inode
        /\ name \in Names /\ new \in Inodes
    BY DEF DirBlock, Tree, CallOK, AddPoints, DiskInv, TypeOK
  <1>1. CASE Return /\ UNCHANGED <<ents, filled>> BY <1>0, <1>1, RestTree DEF Return, AddPoints
  <1>2. CASE ~(Return /\ UNCHANGED <<ents, filled>>)
    <2>1. /\ ents' = [ents EXCEPT ![blk] = [ZeroBlock EXCEPT ![0] = NewEntry]]
          /\ filled' = filled \ {blk} /\ pc' = "dir_inode"
          /\ UNCHANGED <<at, cp, call, name, new, blk>>
      BY <1>2 DEF DirBlock, bio_write, locals
    <2>2. PICK i \in Ptrs : FreshCopy(i) BY <1>0 DEF Tree, CopyOK
    <2>3. /\ blk \in Blocks /\ cp = [inode[at] EXCEPT !.ptr[i] = blk]
          /\ \A m \in Inodes, k \in Ptrs : inode[m].valid => inode[m].ptr[k] # blk
          /\ NoSlot(inode[at]) /\ IsFirstPtr(inode[at], i)
      BY <2>2 DEF FreshCopy
    <2> DEFINE Z == [ents EXCEPT ![blk] = ZeroBlock]
               p == <<i, 0>>
    <2>4. ents \in [Blocks -> [Slots -> Entry]] /\ Z \in [Blocks -> [Slots -> Entry]]
          /\ ents' \in [Blocks -> [Slots -> Entry]]
      BY <2>3, Empties DEF DiskInv, TypeOK
    <2>5. /\ Z[blk] = ZeroBlock
          /\ \A b \in Blocks : b # blk => Z[b] = ents[b] /\ ents'[b] = ents[b]
          /\ \A s \in Slots : ents'[blk][s] = IF s = 0 THEN NewEntry ELSE ZeroBlock[s]
      BY <2>1, <2>3, <2>4 DEF ZeroBlock
    <2>6. ents'[blk] = [ZeroBlock EXCEPT ![0] = NewEntry] BY <2>1, <2>3, <2>4
    <2>7. NewEntry \in Entry /\ NewEntry.name = name /\ NewEntry.ino = new /\ name # NULL
      BY <1>0, RUFSAssumption DEF NewEntry, Entry
    <2>8. UNCHANGED NewEntry BY <2>1 DEF NewEntry
    <2>9. \A m \in Inodes, k \in Ptrs : inode[m].valid /\ inode[m].ptr[k] # 0 =>
            /\ ents'[inode[m].ptr[k]] = ents[inode[m].ptr[k]]
            /\ Z[inode[m].ptr[k]] = ents[inode[m].ptr[k]]
      BY <2>3, <2>5 DEF DiskInv, TypeOK, Inode
    <2> HIDE DEF Z
    <2>10. /\ Packed(Z, inode[at]) <=> Packed(ents, inode[at])
           /\ Unique(Z, inode[at]) <=> Unique(ents, inode[at])
           /\ UsedIn(Z, inode[at]) = UsedIn(ents, inode[at])
           /\ \A e \in Places : Used(Z, inode[at], e) <=> Used(ents, inode[at], e)
           /\ \A e \in Places : inode[at].ptr[e[1]] # 0 => At(Z, inode[at], e) = At(ents, inode[at], e)
      BY <1>0, <2>9, SameBlocks
    <2>11. \A e \in Places : inode[at].ptr[e[1]] # 0 => Used(Z, inode[at], e)
      BY <2>3, <2>10 DEF NoSlot, HasEntry, IsEntry, Used, At
    <2>12. Packed(Z, inode[at]) BY <1>0, <2>10 DEF Tree, PackedOK
    <2>13. /\ \A k \in Ptrs : cp.ptr[k] = IF k = i THEN blk ELSE inode[at].ptr[k]
           /\ \A e \in Places : cp.ptr[e[1]] # 0 /\ e[1] # i => At(Z, cp, e) = At(Z, inode[at], e)
           /\ \A e \in Places : Used(Z, cp, e) <=> Used(Z, inode[at], e)
           /\ Packed(Z, cp) /\ (Unique(Z, inode[at]) => Unique(Z, cp))
           /\ UsedIn(Z, cp) = UsedIn(Z, inode[at])
           /\ p \in Places /\ ~Used(Z, cp, p)
           /\ \A d \in Places : Before(d, p) /\ cp.ptr[d[1]] # 0 => Used(Z, cp, d)
      <3>1. \A k \in Ptrs : inode[at].ptr[k] # blk BY <1>0, <2>3
      <3>2. IsFirstPtr(inode[at], i) /\ Z[blk] = ZeroBlock /\ blk \in Blocks BY <2>3, <2>5
      <3>3. cp = [inode[at] EXCEPT !.ptr[i] = blk] BY <2>3
      <3>4. inode[at] \in Inode /\ cp \in Inode /\ Z \in [Blocks -> [Slots -> Entry]] BY <1>0, <2>4
      <3>5. GetsBlock(Z, inode[at], blk, i, cp)
        BY <2>11, <2>12, <3>1, <3>2, <3>3, <3>4 DEF GetsBlock
      <3> DEFINE n == inode[at]
      <3> HIDE DEF n
      <3>6. GetsBlock(Z, n, blk, i, cp) BY <3>5 DEF n
      <3>7. /\ \A k \in Ptrs : cp.ptr[k] = IF k = i THEN blk ELSE n.ptr[k]
            /\ \A e \in Places : cp.ptr[e[1]] # 0 /\ e[1] # i => At(Z, cp, e) = At(Z, n, e)
            /\ \A e \in Places : Used(Z, cp, e) <=> Used(Z, n, e)
            /\ Packed(Z, cp) /\ (Unique(Z, n) => Unique(Z, cp))
            /\ UsedIn(Z, cp) = UsedIn(Z, n)
            /\ <<i, 0>> \in Places /\ ~Used(Z, cp, <<i, 0>>)
            /\ \A d \in Places : Before(d, <<i, 0>>) /\ cp.ptr[d[1]] # 0 => Used(Z, cp, d)
        BY <3>6, GetBlock
      <3>8. QED BY <3>7, ZenonT(60) DEF n
    <2>14. /\ Packed(ents', cp) /\ EntryIn(ents', cp, NewEntry)
           /\ Unique(Z, cp) /\ (\A e \in Places : Used(Z, cp, e) => At(Z, cp, e).name # NewEntry.name)
                => Unique(ents', cp)
           /\ Cardinality(UsedIn(ents', cp)) = Cardinality(UsedIn(Z, cp)) + 1
      <3>1. /\ p[1] = i /\ p[2] = 0 /\ cp.ptr[p[1]] = blk /\ blk # 0
        BY <2>3, <2>13 DEF Blocks
      <3> HIDE DEF p
      <3>2. \A b \in Blocks, r \in Slots :
              ents'[b][r] = IF b = cp.ptr[p[1]] /\ r = p[2] THEN NewEntry ELSE Z[b][r]
        BY <2>3, <2>5, <3>1
      <3>3. \A j, k \in Ptrs : cp.ptr[j] = cp.ptr[k] /\ cp.ptr[j] # 0 => j = k
        BY <1>0 DEF DiskInv, Working
      <3>4. NewEntry \in Entry /\ NewEntry.name # NULL BY <2>7
      <3>5. p \in Places /\ cp.ptr[p[1]] # 0 /\ ~Used(Z, cp, p) /\ cp \in Inode
        BY <1>0, <2>13, <3>1
      <3>6. \A d \in Places : Before(d, p) /\ cp.ptr[d[1]] # 0 => Used(Z, cp, d) BY <2>13
      <3>7. Packed(Z, cp) BY <2>13
      <3>8. Z \in [Blocks -> [Slots -> Entry]] /\ ents' \in [Blocks -> [Slots -> Entry]] BY <2>4
      <3>9. PutsEntry(Z, ents', cp, NewEntry, p)
        BY <3>2, <3>3, <3>4, <3>5, <3>6, <3>7, <3>8 DEF PutsEntry
      <3>10. QED BY <3>9, PutEntry
    <2> HIDE DEF p
    <2>15. \A m \in Inodes : inode[m].valid =>
             /\ KindOf(ents', filled', inode'[m])
             /\ inode[m].dir => Packed(ents', inode'[m])
             /\ inode[m].dir /\ failed' \cap {"bitmap", "find"} = {} => Unique(ents', inode'[m])
             /\ inode[m].dir /\ failed' \subseteq {"read"} =>
                  inode'[m].size = Cardinality(UsedIn(ents', inode'[m]))
      <3> TAKE m \in Inodes
      <3> HAVE inode[m].valid
      <3>1. \A k \in Ptrs : inode[m].ptr[k] # 0 =>
              /\ ents'[inode[m].ptr[k]] = ents[inode[m].ptr[k]]
              /\ inode[m].ptr[k] \in filled' => inode[m].ptr[k] \in filled
        BY <2>1, <2>9
      <3>2. inode'[m] = inode[m] /\ pc # "dir_inode" BY <1>0
      <3>3. QED BY <3>1, <3>2, OthersTree
    <2>16. CopyOK'
      <3>1. NoSlot(inode[at])'
        <4> SUFFICES ASSUME NEW e \in Places, inode[at].ptr[e[1]] # 0,
                            ents'[inode[at].ptr[e[1]]][e[2]].name = NULL
                     PROVE  FALSE
          BY <1>0, <2>1 DEF NoSlot, HasEntry, IsEntry
        <4>1. ents'[inode[at].ptr[e[1]]] = ents[inode[at].ptr[e[1]]] BY <1>0, <2>9, PlaceIsPair
        <4>2. QED BY <2>3, <4>1 DEF NoSlot, HasEntry, IsEntry
      <3>2. FreshCopy(i)' BY <1>0, <2>1, <2>3, <3>1 DEF FreshCopy, IsFirstPtr
      <3>3. QED BY <2>1, <2>6, <2>8, <3>2 DEF CopyOK
    <2>17. CallOK' BY <1>0, <2>1 DEF Tree, CallOK, AddPoints
    <2>18. KindOK'
      <3>1. cp.dir /\ KindOf(ents, filled, cp) BY <1>0 DEF Tree, CallOK, KindOK, AddPoints
      <3>2. KindOf(ents', filled', cp) BY <2>1, <3>1 DEF KindOf
      <3>3. QED BY <1>0, <2>1, <2>15, <3>2 DEF KindOK
    <2>19. PackedOK' BY <1>0, <2>1, <2>14, <2>15 DEF PackedOK
    <2>20. NameOK'
      <3>1. CASE failed' \cap {"bitmap", "find"} = {}
        <4>1. ~HasEntry(inode[at], name) /\ Unique(ents, inode[at])
          BY <1>0, <3>1 DEF Tree, NameOK
        <4>2. \A e \in Places : Used(ents, inode[at], e) => At(ents, inode[at], e).name # name
          BY <4>1 DEF HasEntry, IsEntry, Used, At
        <4>3. \A e \in Places : Used(Z, cp, e) => At(Z, cp, e).name # NewEntry.name
          <5> SUFFICES ASSUME NEW e \in Places, Used(Z, cp, e)
                       PROVE  At(Z, cp, e).name # NewEntry.name
            OBVIOUS
          <5>1. Used(Z, inode[at], e) /\ inode[at].ptr[e[1]] # 0 BY <2>13 DEF Used
          <5>2. e[1] # i BY <2>3, <5>1 DEF IsFirstPtr
          <5>3. At(Z, cp, e) = At(ents, inode[at], e)
            BY <2>10, <2>13, <5>1, <5>2, PlaceIsPair DEF Used
          <5>4. QED BY <2>7, <2>10, <4>2, <5>1, <5>3
        <4>4. Unique(ents', cp) BY <2>10, <2>13, <2>14, <4>1, <4>3
        <4>5. QED BY <1>0, <2>1, <2>15, <4>4 DEF NameOK
      <3>2. QED BY <3>1 DEF NameOK
    <2>21. EntryOK' BY <2>1, <2>8, <2>14 DEF EntryOK
    <2>22. LeadOK'
      <3>1. \A s \in Slots : ZeroBlock[s].name = NULL BY DEF ZeroBlock, NoEntry
      <3>2. QED BY <1>0, <2>1, <2>5, <2>7, <3>1 DEF Tree, LeadOK
    <2>23. SizeOK'
      <3>1. CASE failed' \subseteq {"read"}
        <4>1. inode[at].size = Cardinality(UsedIn(ents, inode[at])) BY <1>0, <3>1 DEF Tree, SizeOK
        <4>2. cp.size = inode[at].size BY <1>0, <2>3 DEF Inode
        <4>3. cp.size + 1 = Cardinality(UsedIn(ents', cp)) BY <2>10, <2>13, <2>14, <4>1, <4>2
        <4>4. QED BY <1>0, <2>1, <2>15, <3>1, <4>3 DEF SizeOK
      <3>2. QED BY <3>1 DEF SizeOK
    <2>24. QED BY <2>16, <2>17, <2>18, <2>19, <2>20, <2>21, <2>22, <2>23 DEF Tree
  <1>3. QED BY <1>1, <1>2

\* An inode that writei does not write leaves its trace in the history.
LEMMA Unwritten ==
  ASSUME NEW k \in {"inode", "write"}, Fault(k)
  PROVE  failed' \cap {"inode", "write"} # {}
  BY DEF Fault

\* The directory's inode is written back, with its size counted up.
LEMMA DirInodeTree ==
  ASSUME DiskInv, Tree, TypeOK', MarksKept', failed \subseteq failed', DirInode
  PROVE  Tree'
  <1>0. /\ UNCHANGED <<ents, filled, dbitmap, at, cp, call, name, new>> /\ blk' = 0
        /\ pc = "dir_inode" /\ pc' = IF call = "mkdir" THEN "new_block" ELSE "new_inode"
        /\ at \in Inodes /\ inode[at].valid /\ inode[at].dir /\ cp.valid /\ cp.dir
        /\ cp \in Inode /\ name \in Names /\ call \in {"mkdir", "create"}
        /\ inode \in [Inodes -> Inode]
    BY DEF DirInode, Tree, CallOK, AddPoints, DiskInv, Working, TypeOK
  <1>1. UNCHANGED NewEntry BY <1>0 DEF NewEntry
  <1>2. /\ \A n \in Inodes : n # at => inode'[n] = inode[n]
        /\ inode'[at].valid /\ inode'[at].dir
        /\ \A n \in Inodes : inode'[n].valid <=> inode[n].valid
        /\ \/ UNCHANGED inode /\ failed' \cap {"inode", "write"} # {}
           \/ inode'[at].ptr = cp.ptr /\ inode'[at].size = cp.size + 1
    BY <1>0, Unwritten DEF DirInode, writei, Grown, Inode
  <1>3. \A m \in Inodes : inode[m].valid /\ m # at =>
          /\ KindOf(ents', filled', inode'[m])
          /\ inode[m].dir => Packed(ents', inode'[m])
          /\ inode[m].dir /\ failed' \cap {"bitmap", "find"} = {} => Unique(ents', inode'[m])
          /\ inode[m].dir /\ failed' \subseteq {"read"} =>
               inode'[m].size = Cardinality(UsedIn(ents', inode'[m]))
    <2> TAKE m \in Inodes
    <2> HAVE inode[m].valid /\ m # at
    <2>1. \A k \in Ptrs : inode[m].ptr[k] # 0 =>
            /\ ents'[inode[m].ptr[k]] = ents[inode[m].ptr[k]]
            /\ inode[m].ptr[k] \in filled' => inode[m].ptr[k] \in filled
      BY <1>0
    <2>2. inode'[m] = inode[m] BY <1>2
    <2>3. QED BY <2>1, <2>2, OthersTree
  <1>4. CASE inode'[at].ptr = cp.ptr /\ inode'[at].size = cp.size + 1
    <2>0. /\ Packed(ents, inode'[at]) <=> Packed(ents, cp)
          /\ Unique(ents, inode'[at]) <=> Unique(ents, cp)
          /\ UsedIn(ents, inode'[at]) = UsedIn(ents, cp)
          /\ EntryIn(ents, inode'[at], NewEntry) <=> EntryIn(ents, cp, NewEntry)
      BY <1>4, SameBlocks
    <2>1. CopyOK' /\ CallOK' BY <1>0, <1>2 DEF CopyOK, CallOK, AddPoints
    <2>2. KindOK'
      <3>1. KindOf(ents, filled, cp) BY <1>0 DEF Tree, KindOK, AddPoints
      <3>2. KindOf(ents', filled', inode'[at]) BY <1>0, <1>2, <1>4, <3>1 DEF KindOf
      <3>3. QED BY <1>0, <1>2, <1>3, <3>2 DEF KindOK, AddPoints
    <2>3. PackedOK'
      <3>1. Packed(ents', inode'[at]) BY <1>0, <2>0 DEF Tree, PackedOK
      <3>2. QED BY <1>0, <1>2, <1>3, <3>1 DEF PackedOK
    <2>4. NameOK'
      <3>1. failed' \cap {"bitmap", "find"} = {} => Unique(ents', inode'[at])
        BY <1>0, <2>0 DEF Tree, NameOK
      <3>2. QED BY <1>0, <1>2, <1>3, <3>1 DEF NameOK
    <2>5. EntryOK'
      <3>1. failed' \cap {"bitmap", "write", "inode"} = {} => EntryIn(ents', inode'[at], NewEntry)
        BY <1>0, <2>0 DEF Tree, EntryOK
      <3>2. QED BY <1>0, <1>1, <3>1 DEF EntryOK
    <2>6. LeadOK'
      <3> SUFFICES ASSUME failed' = {}, dbitmap' # Blocks, NEW b \in Blocks, NEW r \in Slots,
                          ents'[b][r].name # NULL
                   PROVE  \/ inode'[ents'[b][r].ino].valid
                          \/ /\ pc' \in {"dir_inode", "new_block", "new_inode"}
                             /\ ents'[b][r].ino = new'
        BY DEF LeadOK
      <3>1. failed = {} /\ dbitmap # Blocks /\ ents[b][r].name # NULL BY <1>0
      <3>2. inode[ents[b][r].ino].valid \/ ents[b][r].ino = new BY <3>1 DEF Tree, LeadOK
      <3>3. ents[b][r] \in Entry BY DEF DiskInv, TypeOK
      <3>4. ents[b][r].ino \in Inodes BY <3>1, <3>3 DEF Entry
      <3>5. QED BY <1>0, <1>2, <3>2, <3>4
    <2>7. SizeOK'
      <3>1. failed' \subseteq {"read"} => inode'[at].size = Cardinality(UsedIn(ents', inode'[at]))
        BY <1>0, <1>4, <2>0 DEF Tree, SizeOK
      <3>2. QED BY <1>0, <1>2, <1>3, <3>1 DEF SizeOK
    <2>8. QED BY <2>1, <2>2, <2>3, <2>4, <2>5, <2>6, <2>7 DEF Tree
  <1>5. CASE UNCHANGED inode /\ failed' \cap {"inode", "write"} # {}
    <2>1. CopyOK' /\ CallOK' BY <1>0, <1>2 DEF CopyOK, CallOK, AddPoints
    <2>2. KindOK' /\ PackedOK' /\ NameOK'
      BY <1>0, <1>5 DEF Tree, KindOK, PackedOK, NameOK, AddPoints
    <2>3. EntryOK' /\ LeadOK' /\ SizeOK' BY <1>5 DEF EntryOK, LeadOK, SizeOK
    <2>4. QED BY <2>1, <2>2, <2>3 DEF Tree
  <1>6. QED BY <1>2, <1>4, <1>5

\* rufs_mkdir's block
LEMMA NewBlockTree ==
  ASSUME DiskInv, Tree, TypeOK', MarksKept', failed \subseteq failed', NewBlock
  PROVE  Tree'
  <1>0. UNCHANGED <<inode, ents, filled>> /\ pc = "new_block" BY DEF NewBlock
  <1>1. CASE Return /\ dbitmap = Blocks /\ UNCHANGED dbitmap
    BY <1>0, <1>1, RestTree DEF Return, AddPoints
  <1>2. CASE /\ \E b \in Blocks : get_avail_blkno(b)
             /\ pc' = "new_inode" /\ UNCHANGED <<at, cp, call, name, new, idx, left>>
    <2>1. PICK b \in Blocks : get_avail_blkno(b) BY <1>2
    <2>2. b \notin dbitmap /\ dbitmap' = dbitmap \cup {b} /\ blk' = b BY <2>1, BlockFresh
    <2>3. ents[b] = ZeroBlock /\ b \notin filled BY <2>2 DEF DiskInv, FreshIsZero
    <2>4. UNCHANGED NewEntry BY <1>2 DEF NewEntry
    <2>5. CopyOK' BY <1>2 DEF CopyOK
    <2>6. CallOK' BY <1>0, <1>2, <2>2, <2>3 DEF Tree, CallOK, AddPoints
    <2>7. KindOK' /\ PackedOK' /\ NameOK'
      BY <1>0, <1>2 DEF Tree, KindOK, PackedOK, NameOK, AddPoints
    <2>8. EntryOK' BY <1>0, <1>2, <2>4 DEF Tree, EntryOK
    <2>9. LeadOK' BY <1>0, <1>2, <2>2 DEF Tree, LeadOK
    <2>10. SizeOK' BY <1>0, <1>2 DEF Tree, SizeOK
    <2>11. QED BY <2>5, <2>6, <2>7, <2>8, <2>9, <2>10 DEF Tree
  <1>3. QED BY <1>1, <1>2 DEF NewBlock

\* The new inode: an empty file, or a directory with a block of zeros.
LEMMA NewInodeTree ==
  ASSUME DiskInv, Tree, TypeOK', MarksKept', failed \subseteq failed', NewInode
  PROVE  Tree'
  <1>0. /\ UNCHANGED <<ents, filled, dbitmap>> /\ pc = "new_inode" /\ pc' = "idle"
        /\ new \in Inodes /\ ~inode[new].valid /\ inode \in [Inodes -> Inode]
    BY DEF NewInode, Return, DiskInv, NewOK, TypeOK
  <1>1. CASE UNCHANGED inode /\ failed' \cap {"inode", "write"} # {} BY <1>0, <1>1, RestTree DEF AddPoints
  <1>2. CASE inode' = [inode EXCEPT ![new] = NewRecord] /\ UNCHANGED history
    <2>1. \A n \in Inodes : n # new => inode'[n] = inode[n] BY <1>0, <1>2
    <2>2. /\ inode'[new].valid /\ inode'[new].dir = (call = "mkdir") /\ inode'[new].size = 0
          /\ \A k \in Ptrs : inode'[new].ptr[k] = IF k = 0 THEN blk ELSE 0
      BY <1>0, <1>2 DEF NewRecord, NoPtrs
    <2>3. /\ blk # 0 => call = "mkdir" /\ ents[blk] = ZeroBlock /\ blk \notin filled
          /\ \A s \in Slots : ZeroBlock[s].name = NULL
      BY <1>0 DEF Tree, CallOK, ZeroBlock, NoEntry
    <2>4. \A m \in Inodes : inode[m].valid =>
             /\ KindOf(ents', filled', inode'[m])
             /\ inode[m].dir => Packed(ents', inode'[m])
             /\ inode[m].dir /\ failed' \cap {"bitmap", "find"} = {} => Unique(ents', inode'[m])
             /\ inode[m].dir /\ failed' \subseteq {"read"} =>
                  inode'[m].size = Cardinality(UsedIn(ents', inode'[m]))
      <3> TAKE m \in Inodes
      <3> HAVE inode[m].valid
      <3>1. \A k \in Ptrs : inode[m].ptr[k] # 0 =>
              /\ ents'[inode[m].ptr[k]] = ents[inode[m].ptr[k]]
              /\ inode[m].ptr[k] \in filled' => inode[m].ptr[k] \in filled
        BY <1>0
      <3>2. inode'[m] = inode[m] /\ pc # "dir_inode" BY <1>0, <2>1
      <3>3. QED BY <3>1, <3>2, OthersTree
    <2>5. \A e \in Places : ~Used(ents', inode'[new], e)
      BY <1>0, <2>2, <2>3, PlaceIsPair DEF Used, At
    <2>6. CopyOK' /\ CallOK' /\ EntryOK' BY <1>0 DEF CopyOK, CallOK, EntryOK, AddPoints
    <2>7. KindOK'
      <3>1. KindOf(ents', filled', inode'[new]) BY <1>0, <2>2, <2>3 DEF KindOf
      <3>2. QED BY <1>0, <2>1, <2>4, <3>1 DEF KindOK, AddPoints
    <2>8. PackedOK'
      <3>1. \A j, k \in Ptrs : k < j => inode'[new].ptr[j] = 0
        BY <2>2, RUFSAssumption DEF Ptrs
      <3>2. Packed(ents', inode'[new]) BY <2>5, <3>1 DEF Packed
      <3>3. QED BY <1>0, <2>1, <2>4, <3>2 DEF PackedOK
    <2>9. NameOK'
      <3>1. Unique(ents', inode'[new]) BY <2>5 DEF Unique
      <3>2. QED BY <1>0, <2>1, <2>4, <3>1 DEF NameOK
    <2>10. LeadOK'
      BY <1>0, <1>2, <2>1, <2>2 DEF Tree, LeadOK, history
    <2>11. SizeOK'
      <3>1. \A b \in BlocksOf(inode'[new]), s \in Slots : ents'[b][s].name = NULL
        BY <1>0, <2>2, <2>3 DEF BlocksOf
      <3>2. UsedIn(ents', inode'[new]) = {} BY <3>1 DEF UsedIn
      <3>3. QED BY <1>0, <2>1, <2>2, <2>4, <3>2, FS_EmptySet DEF SizeOK
    <2>12. QED BY <2>6, <2>7, <2>8, <2>9, <2>10, <2>11 DEF Tree
  <1>3. QED BY <1>1, <1>2, Unwritten DEF NewInode, writei

\* rufs_write: no directory has a block of the file that is written.
LEMMA WriteTree ==
  ASSUME DiskInv, Tree, TypeOK', MarksKept', failed \subseteq failed',
         WriteAlloc \/ WriteBlock \/ WriteInode
  PROVE  Tree'
  <1>0. /\ UNCHANGED ents /\ pc = "write" /\ at \in Inodes /\ inode[at].valid /\ cp.valid
        /\ ~cp.dir /\ ~inode[at].dir /\ cp \in Inode /\ inode \in [Inodes -> Inode]
        /\ KindOf(ents, filled, cp)
    BY DEF WriteAlloc, WriteBlock, WriteInode, Tree, CallOK, KindOK, DiskInv, Working, TypeOK
  <1>1. CASE WriteAlloc
    <2>1. UNCHANGED <<inode, filled>> BY <1>1 DEF WriteAlloc
    <2>2. CASE Return /\ UNCHANGED dbitmap BY <1>0, <2>1, <2>2, RestTree DEF Return, AddPoints
    <2>3. CASE /\ \E b \in Blocks : get_avail_blkno(b) /\ cp' = [cp EXCEPT !.ptr[idx] = b]
               /\ UNCHANGED <<pc, at, call, name, new, idx, left>>
      <3>1. PICK b \in Blocks : get_avail_blkno(b) /\ cp' = [cp EXCEPT !.ptr[idx] = b] BY <2>3
      <3>2. ~cp'.dir /\ KindOf(ents', filled', cp')
        <4>1. idx \in Ptrs BY <1>1 DEF WriteAlloc, More
        <4>2. QED BY <1>0, <2>1, <3>1, <4>1, CopyKind
      <3>3. dbitmap' = dbitmap \cup {b} BY <3>1, BlockFresh
      <3>4. CopyOK' /\ CallOK' /\ EntryOK'
        BY <1>0, <2>1, <2>3, <3>2 DEF CopyOK, CallOK, EntryOK, AddPoints
      <3>5. KindOK' BY <1>0, <2>1, <3>2 DEF Tree, KindOK
      <3>6. PackedOK' /\ NameOK' BY <1>0, <2>1, <2>3 DEF Tree, PackedOK, NameOK
      <3>7. LeadOK' BY <1>0, <2>1, <2>3, <3>3 DEF Tree, LeadOK
      <3>8. SizeOK' BY <1>0, <2>1, <2>3 DEF Tree, SizeOK
      <3>9. QED BY <3>4, <3>5, <3>6, <3>7, <3>8 DEF Tree
    <2>4. QED BY <1>1, <2>2, <2>3 DEF WriteAlloc
  <1>2. CASE WriteBlock
    <2>1. /\ UNCHANGED <<inode, dbitmap, pc, at, cp, call, name, new, blk>>
          /\ idx \in Ptrs /\ cp.ptr[idx] # 0 /\ filled' \subseteq filled \cup {cp.ptr[idx]}
      BY <1>2 DEF WriteBlock, More, bio_write
    <2>2. \A m \in Inodes, k \in Ptrs :
            inode[m].valid /\ inode[m].dir => inode[m].ptr[k] # cp.ptr[idx]
      BY <1>0, <2>1 DEF DiskInv, Working
    <2>3. CopyOK' /\ CallOK' /\ EntryOK'
      BY <1>0, <2>1 DEF CopyOK, CallOK, EntryOK, AddPoints
    <2>4. KindOK'
      <3>1. KindOf(ents', filled', cp') BY <1>0, <2>1 DEF KindOf
      <3>2. \A n \in Inodes : inode[n].valid => KindOf(ents', filled', inode'[n])
        BY <1>0, <2>1, <2>2 DEF Tree, KindOK, KindOf
      <3>3. QED BY <2>1, <3>1, <3>2 DEF KindOK
    <2>5. PackedOK' /\ NameOK' BY <1>0, <2>1 DEF Tree, PackedOK, NameOK
    <2>6. LeadOK' BY <1>0, <2>1 DEF Tree, LeadOK
    <2>7. SizeOK' BY <1>0, <2>1 DEF Tree, SizeOK
    <2>8. QED BY <2>3, <2>4, <2>5, <2>6, <2>7 DEF Tree
  <1>3. CASE WriteInode
    <2>1. UNCHANGED <<filled, dbitmap>> /\ pc' = "idle" BY <1>3 DEF WriteInode, Return
    <2>2. CASE UNCHANGED inode BY <1>0, <2>1, <2>2, RestTree DEF AddPoints
    <2>3. CASE ~UNCHANGED inode
      <3>1. /\ \A n \in Inodes : n # at => inode'[n] = inode[n]
            /\ inode'[at].valid /\ ~inode'[at].dir /\ inode'[at].ptr = cp.ptr
        BY <1>0, <1>3, <2>3 DEF WriteInode, writei, Inode
      <3>2. CopyOK' /\ CallOK' /\ EntryOK' BY <2>1 DEF CopyOK, CallOK, EntryOK, AddPoints
      <3>3. KindOK'
        <4>1. KindOf(ents', filled', inode'[at]) BY <1>0, <2>1, <3>1 DEF KindOf
        <4>2. QED BY <1>0, <2>1, <3>1, <4>1 DEF Tree, KindOK, AddPoints
      <3>4. PackedOK' /\ NameOK' BY <1>0, <2>1, <3>1 DEF Tree, PackedOK, NameOK
      <3>5. LeadOK'
        <4>1. \A n \in Inodes : inode'[n].valid <=> inode[n].valid BY <1>0, <3>1
        <4>2. QED BY <1>0, <2>1, <4>1 DEF Tree, LeadOK, DiskInv, TypeOK, Entry
      <3>6. SizeOK' BY <1>0, <2>1, <3>1 DEF Tree, SizeOK
      <3>7. QED BY <3>2, <3>3, <3>4, <3>5, <3>6 DEF Tree
    <2>4. QED BY <2>2, <2>3
  <1>4. QED BY <1>1, <1>2, <1>3

\* Every step that keeps the marks keeps the tree.
LEMMA TreeStep ==
  ASSUME DiskInv, Tree, TypeOK', MarksKept', [Next]_vars PROVE Tree'
  <1>0. failed \subseteq failed' BY Faults DEF DiskInv
  <1>1. CASE Mkfs \/ Mount \/ Unmount \/ Crash BY <1>0, <1>1, MkfsTree
  <1>2. CASE Begin BY <1>0, <1>2, BeginTree
  <1>3. CASE AllocIno BY <1>0, <1>3, InoTree
  <1>4. CASE DirAdd BY <1>0, <1>4, DirAddTree
  <1>5. CASE DirAlloc BY <1>0, <1>5, DirAllocTree
  <1>6. CASE DirBlock BY <1>0, <1>6, DirBlockTree
  <1>7. CASE DirInode BY <1>0, <1>7, DirInodeTree
  <1>8. CASE NewBlock BY <1>0, <1>8, NewBlockTree
  <1>9. CASE NewInode BY <1>0, <1>9, NewInodeTree
  <1>10. CASE WriteAlloc \/ WriteBlock \/ WriteInode BY <1>0, <1>10, WriteTree
  <1>11. CASE ReadFails BY <1>0, <1>11, ReadFailsTree
  <1>12. CASE UNCHANGED vars
    <2> USE <1>12 DEF vars, ondisk, locals, history, Tree, NewEntry
    <2>1. CopyOK' BY DEF CopyOK, FreshCopy, IsFirstPtr, NoSlot, HasEntry, IsEntry
    <2>2. CallOK' /\ KindOK' /\ PackedOK' BY DEF CallOK, KindOK, PackedOK
    <2>3. NameOK' BY DEF NameOK, HasEntry, IsEntry
    <2>4. EntryOK' /\ LeadOK' /\ SizeOK' BY DEF EntryOK, LeadOK, SizeOK
    <2>5. QED BY <2>1, <2>2, <2>3, <2>4
  <1>13. QED
    BY <1>1, <1>2, <1>3, <1>4, <1>5, <1>6, <1>7, <1>8, <1>9, <1>10, <1>11, <1>12
    DEF Next, Continue

\* The tree stands throughout.
LEMMA TreeAlways == Spec => [](FaultInv /\ TreeInv)
  <1>1. Init => TreeInv
    <2>1. Init => Pristine /\ pc \notin AddPoints \cup {"new_block", "new_inode", "write"}
      BY DEF Init, Pristine, NoInode, AddPoints
    <2>2. QED BY <2>1, PristineTree DEF TreeInv
  <1>2. FaultInv /\ FaultInv' /\ TreeInv /\ [Next]_vars => TreeInv'
    <2> SUFFICES ASSUME FaultInv, FaultInv', TreeInv, [Next]_vars, MarksKept' PROVE Tree'
      BY DEF TreeInv
    <2>1. MarksKept BY Faults DEF FaultInv, MarksKept
    <2>2. QED BY <2>1, TreeStep DEF FaultInv, TreeInv
  <1>3. QED BY <1>1, <1>2, DiskAlways, PTL DEF Spec

-----------------------------------------------------------------------------
(***************************************************************************)
(* The theorems                                                            *)
(***************************************************************************)
\* Whatever the calls and whatever crashes or fails, bitmaps aside, a block of
\* a directory never holds file data, and a block of a file never entries.
THEOREM DirsAndFilesApart == Spec => []KindsApart
  <1>1. FaultInv /\ TreeInv => KindsApart
    BY DEF TreeInv, Tree, KindOK, KindOf, KindsApart, BlocksOf
  <1>2. QED BY <1>1, TreeAlways, PTL

\* dir_add never gives a directory a second entry of a name, as long as every
\* search could read what it searched and no bitmap was lost.
THEOREM NoNameTwice == Spec => []NamesUnique
  <1>1. FaultInv /\ TreeInv => NamesUnique
    <2> SUFFICES ASSUME FaultInv, TreeInv, failed \cap {"bitmap", "find"} = {},
                        NEW n \in Inodes, inode[n].valid, inode[n].dir,
                        NEW i \in Ptrs, NEW j \in Ptrs, NEW r \in Slots, NEW s \in Slots,
                        inode[n].ptr[i] # 0, inode[n].ptr[j] # 0,
                        ents[inode[n].ptr[i]][r].name = ents[inode[n].ptr[j]][s].name,
                        ents[inode[n].ptr[i]][r].name # NULL
                 PROVE  inode[n].ptr[i] = inode[n].ptr[j] /\ r = s
      BY DEF NamesUnique, BlocksOf
    <2>1. Unique(ents, inode[n]) BY DEF TreeInv, MarksKept, Tree, NameOK
    <2>2. <<i, r>> \in Places /\ <<j, s>> \in Places BY DEF Places
    <2>3. /\ Used(ents, inode[n], <<i, r>>) /\ Used(ents, inode[n], <<j, s>>)
          /\ At(ents, inode[n], <<i, r>>).name = At(ents, inode[n], <<j, s>>).name
      BY DEF Used, At
    <2>4. <<i, r>> = <<j, s>> BY <2>1, <2>2, <2>3 DEF Unique
    <2>5. QED BY <2>4
  <1>2. QED BY <1>1, TreeAlways, PTL

\* The size that rufs_getattr reports of a directory is its number of entries,
\* between calls, unless a crash, a lost write or a failed read of writei came
\* between the two, or a search that failed.
THEOREM SizesAreRight == Spec => []SizesCount
  <1>1. FaultInv /\ TreeInv => SizesCount
    BY DEF TreeInv, MarksKept, Tree, SizeOK, UsedIn, SizesCount
  <1>2. QED BY <1>1, TreeAlways, PTL

\* A mkdir or create that gets to its end has put a valid inode of the right
\* kind where its entry, in the directory it was asked for, leads, unless the
\* disk has lost a write or writei could not read the block it changes.
THEOREM CreationComplete == Spec => CreatedIsFound
  <1>1. FaultInv /\ TreeInv /\ [Next]_vars =>
          [pc = "new_inode" /\ pc' = "idle" /\ failed' \cap {"bitmap", "write", "inode"} = {} =>
             /\ inode'[new].valid /\ inode'[new].dir = (call = "mkdir")
             /\ \E b \in BlocksOf(inode'[at]), s \in Slots : ents'[b][s] = NewEntry]_vars
    <2> SUFFICES ASSUME FaultInv, TreeInv, [Next]_vars, pc = "new_inode", pc' = "idle",
                        failed' \cap {"bitmap", "write", "inode"} = {}
                 PROVE  /\ inode'[new].valid /\ inode'[new].dir = (call = "mkdir")
                        /\ \E b \in BlocksOf(inode'[at]), s \in Slots : ents'[b][s] = NewEntry
      OBVIOUS
    <2>1. failed \subseteq failed' BY Faults DEF FaultInv
    <2>2. NewInode
      BY DEF Next, Mkfs, DevInit, MkfsSuper, MkfsIBitmap, MkfsDBitmap, MkfsRootBlock, MkfsRoot, Mount,
         Unmount, Crash, Begin, BeginAdd, BeginWrite, Continue, AllocIno, DirAdd, DirAlloc, DirBlock,
         DirInode, NewBlock, WriteAlloc, WriteBlock, WriteInode, ReadFails, vars
    <2>3. MarksKept /\ DiskInv /\ Tree BY <2>1 DEF MarksKept, FaultInv, TreeInv
    <2>4. inode' = [inode EXCEPT ![new] = NewRecord] /\ UNCHANGED ents
      BY <2>2, Unwritten DEF NewInode, writei
    <2>5. new \in Inodes /\ at \in Inodes /\ at # new /\ inode \in [Inodes -> Inode]
      BY <2>3 DEF DiskInv, NewOK, TypeOK, Tree, CallOK
    <2>6. EntryIn(ents, inode[at], NewEntry) BY <2>1, <2>3 DEF Tree, EntryOK
    <2>7. inode'[at] = inode[at] BY <2>4, <2>5
    <2>8. \E b \in BlocksOf(inode'[at]), s \in Slots : ents'[b][s] = NewEntry
      BY <2>4, <2>6, <2>7, PlaceIsPair DEF EntryIn, At, BlocksOf
    <2>9. inode'[new].valid /\ inode'[new].dir = (call = "mkdir") BY <2>4, <2>5 DEF NewRecord
    <2>10. QED BY <2>8, <2>9
  <1>2. QED BY <1>1, TreeAlways, PTL DEF Spec, CreatedIsFound
=============================================================================
