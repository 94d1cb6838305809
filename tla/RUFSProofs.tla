----------------------------- MODULE RUFSProofs -----------------------------
(***************************************************************************)
(* The disk of rufs.c stays consistent across calls, crashes and failed    *)
(* reads and writes, for any number of inodes, blocks, pointers, names and *)
(* faults, as long as no write of a bitmap is lost.                        *)
(*                                                                         *)
(* The invariants of the disk alone are not inductive: they need what the  *)
(* handlers know of the copy of an inode they are about to write back, of  *)
(* the inode number they have just been given, and of a disk that is still *)
(* being formatted.                                                        *)
(***************************************************************************)
EXTENDS RUFS, TLAPS

\* A disk nothing has been stored on.
Pristine ==
  /\ \A n \in Inodes : ~inode[n].valid
  /\ ents = [b \in Blocks |-> ZeroBlock] /\ filled = {}

\* Until mkfs has written the root inode the disk is pristine; from then on
\* the root's inode number is taken.
Formatting ==
  /\ pc = "down" \/ disk
  /\ ~disk \/ pc \in {"mkfs_super", "mkfs_ibitmap", "mkfs_dbitmap", "mkfs_rootblk", "mkfs_root"}
       => Pristine
  /\ pc \in {"mkfs_dbitmap", "mkfs_rootblk", "mkfs_root"} => ibitmap = {Root}
  /\ pc \in {"mkfs_rootblk", "mkfs_root"} => dbitmap = {1}
  /\ \A n \in Inodes : inode[n].valid => Root \in ibitmap

\* The handler's copy of the inode at can be written back: its blocks are
\* marked, distinct, and no other inode's.
Working ==
  /\ pc \in {"ino", "dir_add", "dir_alloc", "dir_block", "dir_inode", "write"} =>
       /\ inode[at].valid /\ cp.valid
       /\ \A i \in Ptrs : cp.ptr[i] # 0 => cp.ptr[i] \in dbitmap
       /\ \A i, j \in Ptrs : cp.ptr[i] = cp.ptr[j] /\ cp.ptr[i] # 0 => i = j
       /\ \A m \in Inodes, i, j \in Ptrs :
            inode[m].valid /\ cp.ptr[i] = inode[m].ptr[j] /\ cp.ptr[i] # 0 => m = at
  /\ pc = "dir_block" => blk \in dbitmap

\* The new inode number is marked and unused, and so is the block that goes
\* into the new inode.
NewOK ==
  /\ pc \in {"dir_add", "dir_alloc", "dir_block", "dir_inode", "new_block", "new_inode"} =>
       new \in ibitmap /\ Root \in ibitmap /\ new # Root /\ ~inode[new].valid
  /\ pc \in {"dir_add", "dir_alloc", "dir_block"} =>
       \A b \in Blocks, s \in Slots : ents[b][s].name # NULL => ents[b][s].ino # new
  /\ pc = "new_inode" /\ blk # 0 =>
       /\ blk \in dbitmap
       /\ \A m \in Inodes, i \in Ptrs : inode[m].valid => inode[m].ptr[i] # blk

\* Marked, written out pointer by pointer.
Marked ==
  /\ \A n \in Inodes : inode[n].valid =>
       /\ n \in ibitmap
       /\ \A i \in Ptrs : inode[n].ptr[i] # 0 => inode[n].ptr[i] \in dbitmap
  /\ \A b \in Blocks, s \in Slots : ents[b][s].name # NULL => ents[b][s].ino \in ibitmap

\* The inductive invariant of a disk that has kept its marks.
DiskInv ==
  /\ MarksKept /\ TypeOK /\ Marked /\ BlocksExclusive /\ EntriesExclusive /\ FreshIsZero
  /\ Formatting /\ Working /\ NewOK

\* The inductive invariant.
FaultInv == TypeOK /\ (MarksKept => DiskInv)

-----------------------------------------------------------------------------
(***************************************************************************)
(* Types                                                                   *)
(***************************************************************************)
\* The empty values have their types.
LEMMA Empties ==
  /\ Root \in Inodes /\ 1 \in Blocks /\ 0 \in Ptrs /\ 0 \in Slots
  /\ NoPtrs \in [Ptrs -> Blocks \cup {0}] /\ NoInode \in Inode
  /\ NoEntry \in Entry /\ ZeroBlock \in [Slots -> Entry]
  BY RUFSAssumption DEF Root, Inodes, Blocks, Ptrs, Slots, NoPtrs, NoInode, Inode, NoEntry,
     Entry, ZeroBlock

\* A pointer of an inode is set to a block.
LEMMA SetPtr ==
  ASSUME NEW n \in Inode, NEW i \in Ptrs, NEW b \in Blocks
  PROVE  /\ [n EXCEPT !.ptr[i] = b] \in Inode
         /\ [n EXCEPT !.ptr[i] = b].valid = n.valid
         /\ \A k \in Ptrs : [n EXCEPT !.ptr[i] = b].ptr[k] = IF k = i THEN b ELSE n.ptr[k]
  BY DEF Inode

\* The initial disk is empty.
LEMMA TypeInit == Init => TypeOK
  <1> SUFFICES ASSUME Init PROVE TypeOK
    OBVIOUS
  <1>1. /\ inode \in [Inodes -> Inode] /\ ents \in [Blocks -> [Slots -> Entry]]
        /\ ibitmap \subseteq Inodes /\ dbitmap \subseteq Blocks /\ filled \subseteq Blocks
    BY Empties DEF Init
  <1>2. super \in BOOLEAN /\ disk \in BOOLEAN /\ sb \in BOOLEAN /\ pc \in PCs
    BY DEF Init, PCs
  <1>3. /\ at \in Inodes /\ new \in Inodes /\ cp \in Inode
        /\ call \in {"none", "mkdir", "create", "write"} /\ name \in Names \cup {NULL}
        /\ blk \in Blocks \cup {0} /\ idx \in Nat /\ left \in Nat /\ faults \in Nat /\ failed \subseteq Kinds
    BY Empties DEF Init
  <1>4. QED BY <1>1, <1>2, <1>3 DEF TypeOK

\* A step is hit by a fault or not.
LEMMA Faults ==
  ASSUME TypeOK, [Next]_vars
  PROVE  faults' \in Nat /\ failed' \subseteq Kinds /\ failed \subseteq failed'
  <1> SUFFICES UNCHANGED history \/ \E k \in Kinds : Fault(k)
    BY DEF history, Fault, TypeOK
  <1> USE DEF Kinds, bio_write, writei
  <1>1. CASE Mkfs
    BY <1>1 DEF Mkfs, DevInit, MkfsSuper, MkfsIBitmap, MkfsDBitmap, MkfsRootBlock, MkfsRoot
  <1>2. CASE Mount \/ Unmount \/ Crash BY <1>2 DEF Mount, Unmount, Crash
  <1>3. CASE Begin BY <1>3 DEF Begin, BeginAdd, BeginWrite
  <1>4. CASE AllocIno \/ DirAdd \/ DirBlock \/ DirInode \/ NewInode
    BY <1>4 DEF AllocIno, DirAdd, DirBlock, DirInode, NewInode, Unseen
  <1>5. CASE DirAlloc \/ NewBlock \/ WriteAlloc
    BY <1>5 DEF DirAlloc, NewBlock, WriteAlloc, get_avail_blkno
  <1>6. CASE WriteBlock \/ WriteInode \/ ReadFails
    BY <1>6 DEF WriteBlock, WriteInode, ReadFails
  <1>7. CASE UNCHANGED vars BY <1>7 DEF vars
  <1>8. QED BY <1>1, <1>2, <1>3, <1>4, <1>5, <1>6, <1>7 DEF Next, Continue

\* What a call that returns leaves in memory.
LEMMA ReturnTypes ==
  ASSUME Return \/ ClearLocals
  PROVE  /\ at' \in Inodes /\ new' \in Inodes /\ cp' \in Inode
         /\ call' \in {"none", "mkdir", "create", "write"} /\ name' \in Names \cup {NULL}
         /\ blk' \in Blocks \cup {0} /\ idx' \in Nat /\ left' \in Nat
  BY Empties DEF Return, ClearLocals

\* Marking a block or an inode that is there.
LEMMA MarkTypes ==
  ASSUME TypeOK
  PROVE  /\ \A b \in Blocks : get_avail_blkno(b) => dbitmap' \subseteq Blocks /\ blk' \in Blocks
         /\ \A b \in Blocks : set_bitmap(dbitmap, b) \subseteq Blocks
         /\ \A n \in Inodes : set_bitmap(ibitmap, n) \subseteq Inodes
  BY DEF TypeOK, get_avail_blkno, set_bitmap, bio_write

\* Every step keeps the types.
LEMMA TypeStep == TypeOK /\ [Next]_vars => TypeOK'
  <1> SUFFICES ASSUME TypeOK, [Next]_vars PROVE TypeOK'
    OBVIOUS
  <1>0. faults' \in Nat /\ failed' \subseteq Kinds BY Faults
  <1> USE <1>0, Empties, RUFSAssumption DEF TypeOK, PCs, ondisk, locals, bio_write, writei
  <1>1. CASE DevInit BY <1>1 DEF DevInit
  <1>2. CASE MkfsSuper BY <1>2 DEF MkfsSuper
  <1>3. CASE MkfsIBitmap BY <1>3 DEF MkfsIBitmap
  <1>4. CASE MkfsDBitmap BY <1>4 DEF MkfsDBitmap
  <1>5. CASE MkfsRootBlock BY <1>5 DEF MkfsRootBlock
  <1>6. CASE MkfsRoot
    <2>1. RootInode \in Inode BY DEF RootInode, Inode
    <2>2. inode' \in [Inodes -> Inode] BY <1>6, <2>1 DEF MkfsRoot
    <2>3. QED BY <1>6, <2>2 DEF MkfsRoot
  <1>7. CASE Mount BY <1>7 DEF Mount
  <1>8. CASE Unmount BY <1>8 DEF Unmount
  <1>9. CASE Crash
    <2>1. UNCHANGED ondisk /\ pc' = "down" /\ sb' = FALSE /\ ClearLocals BY <1>9 DEF Crash
    <2>2. pc' \in PCs BY <2>1
    <2>3. QED BY <2>1, <2>2, ReturnTypes
  <1>10. CASE AllocIno
    <2>1. CASE Return
      <3>1. UNCHANGED <<super, dbitmap, inode, ents, filled, disk, sb>> BY <1>10 DEF AllocIno
      <3>2. ibitmap' \subseteq Inodes BY <1>10, MarkTypes DEF AllocIno
      <3>3. pc' \in PCs BY <2>1 DEF Return
      <3>4. QED BY <2>1, <3>1, <3>2, <3>3, ReturnTypes
    <2>2. CASE ~Return BY <1>10, <2>2, MarkTypes DEF AllocIno
    <2>3. QED BY <2>1, <2>2
  <1>11. CASE DirAdd
    <2>0. UNCHANGED <<super, ibitmap, dbitmap, inode, filled, disk, sb>> BY <1>11 DEF DirAdd
    <2>1. CASE Return /\ UNCHANGED ents
      <3>1. pc' \in PCs BY <2>1 DEF Return
      <3>2. QED BY <2>0, <2>1, <3>1, ReturnTypes
    <2>2. CASE pc' = "dir_alloc" /\ UNCHANGED <<locals, ents>> BY <2>0, <2>2
    <2>3. CASE /\ pc' = "dir_inode" /\ UNCHANGED locals
               /\ \E i \in Ptrs, s \in Slots :
                    IsFirstSlot(cp, i, s) /\ ents' = [ents EXCEPT ![cp.ptr[i]][s] = NewEntry]
      <3>1. PICK i \in Ptrs, s \in Slots : /\ cp.ptr[i] # 0
                                           /\ ents' = [ents EXCEPT ![cp.ptr[i]][s] = NewEntry]
        BY <2>3 DEF IsFirstSlot, IsEntry
      <3>2. NewEntry \in Entry BY DEF NewEntry, Entry
      <3>3. cp.ptr[i] \in Blocks BY <3>1 DEF Inode
      <3>4. [ents[cp.ptr[i]] EXCEPT ![s] = NewEntry] \in [Slots -> Entry] BY <3>2, <3>3
      <3>5. ents' \in [Blocks -> [Slots -> Entry]] BY <3>1, <3>3, <3>4
      <3>6. QED BY <2>0, <2>3, <3>5
    <2>4. QED BY <1>11, <2>1, <2>2, <2>3 DEF DirAdd
  <1>12. CASE DirAlloc
    <2>0. UNCHANGED <<super, ibitmap, inode, ents, filled, disk, sb>> BY <1>12 DEF DirAlloc
    <2>1. dbitmap' \subseteq Blocks BY <1>12, MarkTypes DEF DirAlloc
    <2>2. CASE Return
      <3>1. pc' \in PCs BY <2>2 DEF Return
      <3>2. QED BY <2>0, <2>1, <2>2, <3>1, ReturnTypes
    <2>3. CASE ~Return
      <3>1. PICK b \in Blocks, i \in Ptrs : get_avail_blkno(b) /\ cp' = [cp EXCEPT !.ptr[i] = b]
        BY <1>12, <2>3 DEF DirAlloc
      <3>2. cp' \in Inode BY <3>1, SetPtr
      <3>3. blk' \in Blocks BY <3>1, MarkTypes
      <3>4. pc' = "dir_block" /\ UNCHANGED <<at, call, name, new, idx, left>>
        BY <1>12, <2>3 DEF DirAlloc
      <3>5. QED BY <2>0, <2>1, <3>2, <3>3, <3>4
    <2>4. QED BY <2>2, <2>3
  <1>13. CASE DirBlock
    <2>0. UNCHANGED <<super, ibitmap, dbitmap, inode, disk, sb>> BY <1>13 DEF DirBlock
    <2>1. CASE Return /\ UNCHANGED <<ents, filled>>
      <3>1. pc' \in PCs BY <2>1 DEF Return
      <3>2. QED BY <2>0, <2>1, <3>1, ReturnTypes
    <2>2. CASE ~(Return /\ UNCHANGED <<ents, filled>>)
      <3>1. /\ ents' = [ents EXCEPT ![blk] = [ZeroBlock EXCEPT ![0] = NewEntry]]
            /\ filled' = filled \ {blk} /\ pc' = "dir_inode" /\ UNCHANGED locals
        BY <1>13, <2>2 DEF DirBlock
      <3>2. [ZeroBlock EXCEPT ![0] = NewEntry] \in [Slots -> Entry] BY DEF NewEntry, Entry
      <3>3. ents' \in [Blocks -> [Slots -> Entry]] BY <3>1, <3>2
      <3>4. pc' \in PCs BY <3>1
      <3>5. QED BY <2>0, <3>1, <3>3, <3>4
    <2>3. QED BY <2>1, <2>2
  <1>14. CASE DirInode
    <2>1. Grown(cp) \in Inode BY SMTT(60) DEF Inode, Grown
    <2>2. inode' \in [Inodes -> Inode] BY <1>14, <2>1 DEF DirInode
    <2>3. QED BY <1>14, <2>2 DEF DirInode
  <1>15. CASE NewBlock
    <2>0. UNCHANGED <<super, ibitmap, inode, ents, filled, disk, sb>> BY <1>15 DEF NewBlock
    <2>1. CASE Return /\ UNCHANGED dbitmap
      <3>1. pc' \in PCs BY <2>1 DEF Return
      <3>2. QED BY <2>0, <2>1, <3>1, ReturnTypes
    <2>2. CASE ~(Return /\ UNCHANGED dbitmap) BY <1>15, <2>2, MarkTypes DEF NewBlock
    <2>3. QED BY <2>1, <2>2
  <1>16. CASE NewInode
    <2>1. NewRecord \in Inode BY DEF Inode, NewRecord
    <2>2. inode' \in [Inodes -> Inode] BY <1>16, <2>1 DEF NewInode
    <2>3. Return BY <1>16 DEF NewInode
    <2>4. pc' \in PCs BY <2>3 DEF Return
    <2>5. QED BY <1>16, <2>2, <2>3, <2>4, ReturnTypes DEF NewInode
  <1>17. CASE WriteAlloc
    <2>0. UNCHANGED <<super, ibitmap, inode, ents, filled, disk, sb>> BY <1>17 DEF WriteAlloc
    <2>1. CASE \E b \in Blocks : /\ get_avail_blkno(b) /\ cp' = [cp EXCEPT !.ptr[idx] = b]
                                 /\ UNCHANGED <<pc, at, call, name, new, idx, left>>
      <3>1. PICK b \in Blocks : get_avail_blkno(b) /\ cp' = [cp EXCEPT !.ptr[idx] = b]
        BY <2>1
      <3>2. cp' \in Inode BY <1>17, <3>1, SetPtr DEF WriteAlloc, More
      <3>3. dbitmap' \subseteq Blocks /\ blk' \in Blocks BY <3>1, MarkTypes
      <3>4. QED BY <2>0, <2>1, <3>2, <3>3
    <2>2. CASE Return /\ UNCHANGED dbitmap
      <3>1. pc' \in PCs BY <2>2 DEF Return
      <3>2. QED BY <2>0, <2>2, <3>1, ReturnTypes
    <2>3. QED BY <1>17, <2>1, <2>2 DEF WriteAlloc
  <1>18. CASE WriteBlock
    <2>1. cp.ptr[idx] \in Blocks BY <1>18 DEF WriteBlock, More, Inode
    <2>2. idx' \in Nat /\ left' \in Nat BY <1>18 DEF WriteBlock, More
    <2>3. QED BY <1>18, <2>1, <2>2 DEF WriteBlock
  <1>19. CASE WriteInode
    <2>1. [cp EXCEPT !.size = IF idx > @ THEN idx ELSE @] \in Inode BY DEF Inode
    <2>2. inode' \in [Inodes -> Inode] BY <1>19, <2>1 DEF WriteInode
    <2>3. Return BY <1>19 DEF WriteInode
    <2>4. pc' \in PCs BY <2>3 DEF Return
    <2>5. QED BY <1>19, <2>2, <2>3, <2>4, ReturnTypes DEF WriteInode
  <1>20. CASE ReadFails
    <2>1. Return /\ UNCHANGED <<ondisk, sb>> BY <1>20 DEF ReadFails
    <2>2. pc' \in PCs BY <2>1 DEF Return
    <2>3. QED BY <2>1, <2>2, ReturnTypes
  <1>21. CASE Begin BY <1>21 DEF Begin, BeginAdd, BeginWrite
  <1>22. CASE UNCHANGED vars BY <1>22 DEF vars
  <1>23. QED
    BY <1>1, <1>2, <1>3, <1>4, <1>5, <1>6, <1>7, <1>8, <1>9, <1>10, <1>11, <1>12, <1>13, <1>14, <1>15, <1>16, <1>17, <1>18, <1>19, <1>20, <1>21, <1>22 DEF Next, Mkfs, Continue

-----------------------------------------------------------------------------
(***************************************************************************)
(* The disk                                                                *)
(***************************************************************************)
\* A disk that has just been created satisfies everything.
LEMMA DiskInit == Init => DiskInv
  <1> SUFFICES ASSUME Init PROVE DiskInv
    OBVIOUS
  <1>1. TypeOK BY TypeInit
  <1>2. \A n \in Inodes : ~inode[n].valid BY DEF Init, NoInode
  <1>3. \A b \in Blocks, s \in Slots : ents[b][s].name = NULL BY DEF Init, ZeroBlock, NoEntry
  <1>4. Marked /\ BlocksExclusive /\ EntriesExclusive BY <1>2, <1>3 DEF Marked, BlocksExclusive, EntriesExclusive
  <1>5. FreshIsZero /\ Formatting BY <1>2 DEF Init, FreshIsZero, Formatting, Pristine
  <1>6. Working /\ NewOK BY DEF Init, Working, NewOK
  <1>7. MarksKept BY DEF Init, MarksKept
  <1>8. QED BY <1>1, <1>4, <1>5, <1>6, <1>7 DEF DiskInv

\* A bitmap write that is not lost is done.
LEMMA MarksWritten == MarksKept' => ~Fault("bitmap")
  BY DEF MarksKept, Fault

\* What the invariant says of a step that leaves the disk alone and ends
\* between calls.
LEMMA Rests ==
  ASSUME DiskInv, TypeOK', MarksKept', UNCHANGED ondisk, pc' \in {"idle", "down"}, pc' = "idle" => disk
  PROVE  DiskInv'
  <1> USE DEF ondisk, DiskInv
  <1>1. Marked' /\ BlocksExclusive' /\ EntriesExclusive' /\ FreshIsZero'
    BY DEF Marked, BlocksExclusive, EntriesExclusive, FreshIsZero
  <1>2. Formatting' BY DEF Formatting, Pristine
  <1>3. Working' /\ NewOK' BY DEF Working, NewOK
  <1>4. QED BY <1>1, <1>2, <1>3

\* Formatting, mounting, unmounting and crashing.
LEMMA MkfsKeeps ==
  ASSUME DiskInv, TypeOK', MarksKept', Mkfs \/ Mount \/ Unmount \/ Crash
  PROVE  DiskInv'
  <1> USE DEF DiskInv
  <1>1. CASE DevInit
    <2>1. Pristine /\ UNCHANGED <<super, ibitmap, dbitmap, inode, ents, filled>> /\ disk' /\ pc' = "mkfs_super"
      BY <1>1 DEF DevInit, Formatting
    <2>2. Marked' /\ BlocksExclusive' /\ EntriesExclusive' /\ FreshIsZero'
      BY <2>1 DEF Marked, BlocksExclusive, EntriesExclusive, FreshIsZero
    <2>3. Formatting' /\ Working' /\ NewOK' BY <2>1 DEF Formatting, Pristine, Working, NewOK
    <2>4. QED BY <2>2, <2>3
  <1>2. CASE MkfsSuper
    <2>1. Pristine /\ UNCHANGED <<ibitmap, dbitmap, inode, ents, filled, disk>> /\ disk
          /\ pc' \in {"mkfs_ibitmap", "idle"}
      BY <1>2 DEF MkfsSuper, Formatting, bio_write
    <2>2. Marked' /\ BlocksExclusive' /\ EntriesExclusive' /\ FreshIsZero'
      BY <2>1 DEF Marked, BlocksExclusive, EntriesExclusive, FreshIsZero
    <2>3. Formatting' /\ Working' /\ NewOK' BY <2>1 DEF Formatting, Pristine, Working, NewOK
    <2>4. QED BY <2>2, <2>3
  <1>3. CASE MkfsIBitmap \/ MkfsDBitmap \/ MkfsRootBlock
    <2>1. Pristine /\ UNCHANGED <<inode, disk>> /\ disk
          /\ pc' \in {"mkfs_dbitmap", "mkfs_rootblk", "mkfs_root"}
          /\ ibitmap' = {Root} /\ (pc' # "mkfs_dbitmap" => dbitmap' = {1})
      BY <1>3, MarksWritten DEF MkfsIBitmap, MkfsDBitmap, MkfsRootBlock, Formatting, bio_write
    <2>2. ents' = [b \in Blocks |-> ZeroBlock] /\ filled' = {}
      BY <1>3, <2>1, Empties DEF MkfsIBitmap, MkfsDBitmap, MkfsRootBlock, Pristine, bio_write
    <2>3. \A b \in Blocks, s \in Slots : ents'[b][s].name = NULL BY <2>2 DEF ZeroBlock, NoEntry
    <2>4. \A n \in Inodes : ~inode'[n].valid BY <2>1 DEF Pristine
    <2>5. Marked' /\ BlocksExclusive' /\ EntriesExclusive' /\ FreshIsZero'
      BY <2>2, <2>3, <2>4 DEF Marked, BlocksExclusive, EntriesExclusive, FreshIsZero
    <2>6. Formatting' /\ Working' /\ NewOK'
      BY <2>1, <2>2, <2>4 DEF Formatting, Pristine, Working, NewOK
    <2>7. QED BY <2>5, <2>6
  <1>4. CASE MkfsRoot
    <2>1. Pristine /\ ibitmap = {Root} /\ dbitmap = {1} /\ disk BY <1>4 DEF MkfsRoot, Formatting
    <2>2. CASE UNCHANGED inode BY <1>4, <2>1, <2>2, Rests DEF MkfsRoot, ondisk
    <2>3. CASE inode' = [inode EXCEPT ![Root] = RootInode]
      <3>1. /\ UNCHANGED <<ibitmap, dbitmap, ents, filled, disk>> /\ pc' = "idle"
            /\ \A n \in Inodes : inode'[n].valid => n = Root
            /\ \A i \in Ptrs : inode'[Root].ptr[i] = IF i = 0 THEN 1 ELSE 0
        BY <1>4, <2>1, <2>3, Empties DEF MkfsRoot, RootInode, Pristine, TypeOK, NoPtrs
      <3>2. \A b \in Blocks, s \in Slots : ents[b][s].name = NULL
        BY <2>1 DEF Pristine, ZeroBlock, NoEntry
      <3>3. Marked' BY <2>1, <3>1, <3>2, Empties DEF Marked
      <3>4. BlocksExclusive' BY <3>1 DEF BlocksExclusive
      <3>5. EntriesExclusive' /\ FreshIsZero' BY <3>1 DEF EntriesExclusive, FreshIsZero
      <3>6. Formatting' /\ Working' /\ NewOK' BY <2>1, <3>1 DEF Formatting, Working, NewOK
      <3>7. QED BY <3>3, <3>4, <3>5, <3>6
    <2>4. QED BY <1>4, <2>2, <2>3 DEF MkfsRoot, writei
  <1>5. CASE Mount BY <1>5, Rests DEF Mount
  <1>6. CASE Unmount BY <1>6, Rests DEF Unmount
  <1>7. CASE Crash BY <1>7, Rests DEF Crash
  <1>8. QED BY <1>1, <1>2, <1>3, <1>4, <1>5, <1>6, <1>7 DEF Mkfs

\* A call that begins copies a valid inode.
LEMMA BeginKeeps ==
  ASSUME DiskInv, TypeOK', MarksKept', Begin PROVE DiskInv'
  <1> USE DEF DiskInv
  <1>1. /\ UNCHANGED ondisk /\ disk
        /\ at' \in Inodes /\ inode[at'].valid /\ cp' = inode[at']
        /\ pc' \in {"ino", "write"}
    BY DEF Begin, BeginAdd, BeginWrite, Formatting
  <1>2. Marked' /\ BlocksExclusive' /\ EntriesExclusive' /\ FreshIsZero'
    BY <1>1 DEF ondisk, Marked, BlocksExclusive, EntriesExclusive, FreshIsZero
  <1>3. Formatting' /\ NewOK' BY <1>1 DEF ondisk, Formatting, Pristine, NewOK
  <1>4. Working' BY <1>1 DEF ondisk, Working, Marked, BlocksExclusive
  <1>5. QED BY <1>2, <1>3, <1>4

\* get_avail_ino: the number was not marked, so nothing uses it.
LEMMA InoKeeps ==
  ASSUME DiskInv, TypeOK', MarksKept', AllocIno PROVE DiskInv'
  <1> USE DEF DiskInv
  <1>0. inode[at].valid /\ at \in Inodes /\ disk BY DEF AllocIno, Working, TypeOK, Formatting
  <1>1. CASE Return /\ UNCHANGED ibitmap
    BY <1>1, <1>0, Rests DEF AllocIno, Return, ondisk
  <1>2. CASE ~(Return /\ UNCHANGED ibitmap)
    <2>1. PICK n \in Inodes : /\ n \notin ibitmap
                              /\ ibitmap' = ibitmap \cup {n}
                              /\ new' = n
                              /\ pc' = "dir_add"
                              /\ UNCHANGED <<at, cp, call, name, blk, idx, left>>
      BY <1>2, MarksWritten DEF AllocIno, IsFirstFree, bio_write, set_bitmap
    <2>2. UNCHANGED <<dbitmap, inode, ents, filled, disk>> BY DEF AllocIno
    <2>3. Root \in ibitmap BY <1>0 DEF Formatting
    <2>4. Marked' /\ BlocksExclusive' /\ EntriesExclusive' /\ FreshIsZero'
      BY <2>1, <2>2 DEF Marked, BlocksExclusive, EntriesExclusive, FreshIsZero
    <2>5. Formatting' BY <2>1, <2>2, <1>0 DEF Formatting
    <2>6. Working' BY <2>1, <2>2 DEF Working, AllocIno
    <2>7. NewOK' BY <2>1, <2>2, <2>3 DEF NewOK, Marked
    <2>8. QED BY <2>4, <2>5, <2>6, <2>7
  <1>3. QED BY <1>1, <1>2

\* A step between two points of a call that leaves the inodes alone and marks
\* at most more blocks keeps what does not depend on entries.
LEMMA BlocksGrow ==
  ASSUME DiskInv, UNCHANGED <<ibitmap, inode, disk>>, disk,
         dbitmap \subseteq dbitmap', inode[at].valid, at \in Inodes,
         pc' \notin {"mkfs_super", "mkfs_ibitmap", "mkfs_dbitmap", "mkfs_rootblk", "mkfs_root"}
  PROVE  BlocksExclusive' /\ Formatting'
  BY DEF DiskInv, BlocksExclusive, Formatting

\* The parts of DiskInv that speak of entries only.
LEMMA SameEntries ==
  ASSUME DiskInv, UNCHANGED <<ents, filled>>, ibitmap \subseteq ibitmap', dbitmap \subseteq dbitmap'
  PROVE  /\ EntriesExclusive' /\ FreshIsZero'
         /\ \A b \in Blocks, s \in Slots : ents'[b][s].name # NULL => ents'[b][s].ino \in ibitmap'
  BY DEF DiskInv, EntriesExclusive, FreshIsZero, Marked

\* dir_add writes the entry of a number that no entry names yet, into a block
\* of the directory, which is marked.
LEMMA DirAddKeeps ==
  ASSUME DiskInv, TypeOK', MarksKept', DirAdd PROVE DiskInv'
  <1> USE DEF DiskInv
  <1>0. inode[at].valid /\ at \in Inodes /\ disk BY DEF DirAdd, Working, TypeOK, Formatting
  <1>1. UNCHANGED <<super, ibitmap, dbitmap, inode, filled, disk>> BY DEF DirAdd
  <1>2. CASE Return /\ UNCHANGED ents
    BY <1>0, <1>1, <1>2, Rests DEF Return, ondisk
  <1>3. CASE pc' = "dir_alloc" /\ UNCHANGED locals /\ UNCHANGED ents
    <2>1. Marked' BY <1>1, <1>3 DEF Marked
    <2>2. Working' /\ NewOK' BY <1>1, <1>3 DEF DirAdd, Working, NewOK, locals
    <2>3. QED BY <1>0, <1>1, <1>3, <2>1, <2>2, SameEntries, BlocksGrow
  <1>4. CASE pc' = "dir_inode" /\ UNCHANGED locals /\
             \E i \in Ptrs, s \in Slots : IsFirstSlot(cp, i, s) /\ ents' = [ents EXCEPT ![cp.ptr[i]][s] = NewEntry]
    <2>1. PICK i \in Ptrs, s \in Slots : cp.ptr[i] # 0 /\ ents' = [ents EXCEPT ![cp.ptr[i]][s] = NewEntry]
      BY <1>4 DEF IsFirstSlot, IsEntry
    <2> DEFINE B == cp.ptr[i]
    <2>2. B \in dbitmap /\ B \in Blocks BY <2>1 DEF DirAdd, Working, TypeOK
    <2>3. \A b \in Blocks, r \in Slots :
            ents'[b][r] = IF b = B /\ r = s THEN [name |-> name, ino |-> new] ELSE ents[b][r]
      BY <2>1, <2>2 DEF TypeOK, NewEntry
    <2>4. /\ new \in ibitmap /\ new # Root
          /\ \A b \in Blocks, r \in Slots : ents[b][r].name # NULL => ents[b][r].ino # new
      BY DEF DirAdd, NewOK
    <2>5. Marked' BY <1>1, <2>3, <2>4 DEF Marked
    <2>6. EntriesExclusive' BY <2>3, <2>4 DEF EntriesExclusive
    <2>7. FreshIsZero'
      <3>1. \A b \in Blocks \ dbitmap : ents'[b] = ents[b] BY <2>1, <2>2 DEF TypeOK
      <3>2. QED BY <1>1, <3>1 DEF FreshIsZero
    <2>8. Working' /\ NewOK' BY <1>1, <1>4, SMTT(60) DEF DirAdd, Working, NewOK, locals
    <2>9. BlocksExclusive' /\ Formatting' BY <1>0, <1>1, <1>4, BlocksGrow
    <2>10. QED BY <2>5, <2>6, <2>7, <2>8, <2>9
  <1>5. QED BY <1>2, <1>3, <1>4 DEF DirAdd

\* get_avail_blkno: the block was not marked, so no inode points to it.
LEMMA BlockFresh ==
  ASSUME DiskInv, MarksKept', NEW b \in Blocks, get_avail_blkno(b)
  PROVE  /\ b \notin dbitmap /\ dbitmap' = dbitmap \cup {b} /\ blk' = b /\ b # 0
         /\ \A m \in Inodes, i \in Ptrs : inode[m].valid => inode[m].ptr[i] # b
  BY MarksWritten DEF DiskInv, Marked, get_avail_blkno, IsFirstFree, Blocks, bio_write, set_bitmap

\* The copy of an inode stays fit to be written back when it gets a new block.
LEMMA CopyGrows ==
  ASSUME DiskInv, MarksKept', NEW b \in Blocks, NEW i \in Ptrs, get_avail_blkno(b), cp.ptr[i] = 0,
         cp' = [cp EXCEPT !.ptr[i] = b], UNCHANGED <<inode, at>>,
         pc \in {"dir_alloc", "write"}, pc' \in {"dir_block", "write"}
  PROVE  Working'
  <1>1. cp \in Inode BY DEF DiskInv, TypeOK
  <1>2. /\ cp'.valid = cp.valid
        /\ \A k \in Ptrs : cp'.ptr[k] = IF k = i THEN b ELSE cp.ptr[k]
    BY <1>1 DEF Inode
  <1>3. QED BY <1>2, BlockFresh DEF DiskInv, Working

\* A directory that is full gets a block.
LEMMA DirAllocKeeps ==
  ASSUME DiskInv, TypeOK', MarksKept', DirAlloc PROVE DiskInv'
  <1>0. inode[at].valid /\ at \in Inodes /\ disk BY DEF DiskInv, DirAlloc, Working, TypeOK, Formatting
  <1>1. UNCHANGED <<super, ibitmap, inode, ents, filled, disk>> BY DEF DirAlloc
  <1>2. dbitmap \subseteq dbitmap' BY DEF DirAlloc, get_avail_blkno, bio_write, set_bitmap
  <1>3. Marked' BY <1>1, <1>2 DEF DiskInv, Marked
  <1>4. EntriesExclusive' /\ FreshIsZero' BY <1>1, <1>2, SameEntries
  <1>5. pc' \in {"dir_block", "idle"} BY DEF DirAlloc, Return
  <1>6. BlocksExclusive' /\ Formatting' BY <1>0, <1>1, <1>2, <1>5, BlocksGrow
  <1>7. Working' /\ NewOK'
    <2>1. CASE Return BY <2>1 DEF Return, Working, NewOK
    <2>2. CASE ~Return
      <3>1. PICK b \in Blocks, i \in Ptrs :
              get_avail_blkno(b) /\ IsFirstPtr(cp, i) /\ cp' = [cp EXCEPT !.ptr[i] = b]
        BY <2>2 DEF DirAlloc
      <3>2. pc = "dir_alloc" /\ pc' = "dir_block" /\ UNCHANGED <<at, call, name, new, idx, left>>
        BY <2>2 DEF DirAlloc
      <3>3. Working' BY <1>1, <3>1, <3>2, CopyGrows DEF IsFirstPtr
      <3>4. NewOK' BY <1>1, <3>2 DEF DiskInv, NewOK
      <3>5. QED BY <3>3, <3>4
    <2>3. QED BY <2>1, <2>2
  <1>8. QED BY <1>3, <1>4, <1>6, <1>7 DEF DiskInv

\* The new block of a directory starts with the entry and nothing else.
LEMMA DirBlockKeeps ==
  ASSUME DiskInv, TypeOK', MarksKept', DirBlock PROVE DiskInv'
  <1> USE DEF DiskInv
  <1>0. inode[at].valid /\ at \in Inodes /\ disk BY DEF DirBlock, Working, TypeOK, Formatting
  <1>1. CASE Return /\ UNCHANGED <<ents, filled>>
    BY <1>0, <1>1, Rests DEF DirBlock, Return, ondisk
  <1>2. CASE ~(Return /\ UNCHANGED <<ents, filled>>)
    <2>1. /\ UNCHANGED <<super, ibitmap, dbitmap, inode, disk, locals>> /\ pc' = "dir_inode"
          /\ ents' = [ents EXCEPT ![blk] = [ZeroBlock EXCEPT ![0] = NewEntry]]
          /\ filled' = filled \ {blk}
      BY <1>2 DEF DirBlock, bio_write
    <2>2. blk \in dbitmap /\ blk \in Blocks BY DEF DirBlock, Working, TypeOK
    <2>3. /\ new \in ibitmap /\ new # Root
          /\ \A b \in Blocks, r \in Slots : ents[b][r].name # NULL => ents[b][r].ino # new
      BY DEF DirBlock, NewOK
    <2>4. \A b \in Blocks, r \in Slots :
            ents'[b][r] = IF b # blk THEN ents[b][r]
                          ELSE IF r = 0 THEN [name |-> name, ino |-> new] ELSE NoEntry
      BY <2>1, <2>2 DEF TypeOK, NewEntry, ZeroBlock
    <2>5. NoEntry.name = NULL BY DEF NoEntry
    <2>6. Marked' BY <2>1, <2>3, <2>4, <2>5 DEF Marked
    <2>7. EntriesExclusive' BY <2>3, <2>4, <2>5 DEF EntriesExclusive
    <2>8. FreshIsZero' BY <2>1, <2>2 DEF FreshIsZero, TypeOK
    <2>9. Working' /\ NewOK' BY <2>1 DEF DirBlock, Working, NewOK, locals
    <2>10. QED BY <1>0, <2>1, <2>6, <2>7, <2>8, <2>9, BlocksGrow
  <1>3. QED BY <1>1, <1>2

\* Writing back the copy of an inode keeps its blocks its own.
LEMMA WriteBack ==
  ASSUME DiskInv, NEW n \in Inode, n.valid, n.ptr = cp.ptr,
         pc \in {"dir_inode", "write"}, UNCHANGED inode \/ inode' = [inode EXCEPT ![at] = n],
         UNCHANGED <<ibitmap, dbitmap, ents, filled, disk>>,
         pc' \in {"new_block", "new_inode", "idle"}
  PROVE  /\ Marked' /\ BlocksExclusive' /\ EntriesExclusive' /\ FreshIsZero' /\ Formatting'
         /\ \A m \in Inodes : inode'[m].valid <=> inode[m].valid
  <1> USE DEF DiskInv
  <1>0. inode[at].valid /\ at \in Inodes /\ disk BY DEF Working, TypeOK, Formatting
  <1>1. UNCHANGED inode \/ \A m \in Inodes : inode'[m] = IF m = at THEN n ELSE inode[m]
    BY <1>0 DEF TypeOK
  <1>2. \A m \in Inodes : inode'[m].valid <=> inode[m].valid BY <1>0, <1>1
  <1>3. Marked' BY <1>0, <1>1 DEF Marked, Working
  <1>4. BlocksExclusive' BY <1>0, <1>1 DEF BlocksExclusive, Working
  <1>5. EntriesExclusive' /\ FreshIsZero' BY SameEntries
  <1>6. Formatting' BY <1>0, <1>1 DEF Formatting
  <1>7. QED BY <1>2, <1>3, <1>4, <1>5, <1>6

\* The directory's inode is written back.
LEMMA DirInodeKeeps ==
  ASSUME DiskInv, TypeOK', MarksKept', DirInode PROVE DiskInv'
  <1> DEFINE n == Grown(cp)
  <1>0. cp \in Inode /\ cp.valid BY DEF DiskInv, DirInode, Working, TypeOK
  <1>1. n \in Inode /\ n.valid /\ n.ptr = cp.ptr BY <1>0 DEF Inode, Grown
  <1>2. /\ UNCHANGED inode \/ inode' = [inode EXCEPT ![at] = n]
        /\ pc = "dir_inode"
        /\ UNCHANGED <<ibitmap, dbitmap, ents, filled, disk, new>>
        /\ pc' \in {"new_block", "new_inode"} /\ blk' = 0
    BY DEF DirInode, writei
  <1> HIDE DEF n
  <1>3. /\ Marked' /\ BlocksExclusive' /\ EntriesExclusive' /\ FreshIsZero' /\ Formatting'
        /\ \A m \in Inodes : inode'[m].valid <=> inode[m].valid
    BY <1>1, <1>2, WriteBack
  <1>4. Working' BY <1>2 DEF Working
  <1>5. NewOK' BY <1>2, <1>3 DEF DiskInv, NewOK, TypeOK
  <1>6. QED BY <1>3, <1>4, <1>5 DEF DiskInv

\* rufs_mkdir's block.
LEMMA NewBlockKeeps ==
  ASSUME DiskInv, TypeOK', MarksKept', NewBlock PROVE DiskInv'
  <1>1. UNCHANGED <<super, ibitmap, inode, ents, filled, disk>> /\ pc = "new_block" BY DEF NewBlock
  <1>2. dbitmap \subseteq dbitmap' BY DEF NewBlock, get_avail_blkno, bio_write, set_bitmap
  <1>3. Marked' BY <1>1, <1>2 DEF DiskInv, Marked
  <1>4. EntriesExclusive' /\ FreshIsZero' BY <1>1, <1>2, SameEntries
  <1>5. pc' \in {"new_inode", "idle"} BY DEF NewBlock, Return
  <1>6. BlocksExclusive' /\ Formatting' BY <1>1, <1>5 DEF DiskInv, BlocksExclusive, Formatting
  <1>7. Working' BY <1>5 DEF Working
  <1>8. NewOK'
    <2>1. CASE Return BY <2>1 DEF Return, NewOK
    <2>2. CASE ~Return
      <3>1. PICK b \in Blocks : get_avail_blkno(b) BY <2>2 DEF NewBlock
      <3>2. UNCHANGED new /\ pc' = "new_inode" BY <2>2 DEF NewBlock
      <3>3. QED BY <1>1, <3>1, <3>2, BlockFresh DEF DiskInv, NewOK
    <2>3. QED BY <2>1, <2>2
  <1>9. QED BY <1>3, <1>4, <1>6, <1>7, <1>8 DEF DiskInv

\* The new inode becomes valid, with at most the new block.
LEMMA NewInodeKeeps ==
  ASSUME DiskInv, TypeOK', MarksKept', NewInode PROVE DiskInv'
  <1> USE DEF DiskInv
  <1>0. new \in Inodes /\ new \in ibitmap /\ Root \in ibitmap /\ disk
    BY DEF NewInode, NewOK, TypeOK, Formatting
  <1>1. UNCHANGED <<super, ibitmap, dbitmap, ents, filled, disk>> /\ pc' = "idle"
    BY DEF NewInode, Return
  <1>2. CASE UNCHANGED inode BY <1>0, <1>1, <1>2, Rests DEF ondisk
  <1>3. CASE inode' = [inode EXCEPT ![new] = NewRecord]
    <2>1. \A m \in Inodes : m # new => inode'[m] = inode[m] BY <1>3 DEF TypeOK
    <2>2. \A i \in Ptrs : inode'[new].ptr[i] = IF i = 0 THEN blk ELSE 0
      BY <1>0, <1>3 DEF NewRecord, TypeOK, NoPtrs
    <2>3. blk # 0 => /\ blk \in dbitmap
                     /\ \A m \in Inodes, i \in Ptrs : inode[m].valid => inode[m].ptr[i] # blk
      BY DEF NewInode, NewOK
    <2>4. Marked' BY <1>0, <1>1, <2>1, <2>2, <2>3 DEF Marked
    <2>5. BlocksExclusive' BY <1>0, <2>1, <2>2, <2>3 DEF BlocksExclusive
    <2>6. EntriesExclusive' /\ FreshIsZero' BY <1>1, SameEntries
    <2>7. Formatting' /\ Working' /\ NewOK' BY <1>0, <1>1 DEF Formatting, Working, NewOK
    <2>8. QED BY <2>4, <2>5, <2>6, <2>7
  <1>4. QED BY <1>2, <1>3 DEF NewInode, writei

\* rufs_write: allocation, data and inode.
LEMMA WriteKeeps ==
  ASSUME DiskInv, TypeOK', MarksKept', WriteAlloc \/ WriteBlock \/ WriteInode PROVE DiskInv'
  <1>0. inode[at].valid /\ at \in Inodes /\ disk /\ pc = "write" /\ cp \in Inode /\ cp.valid
    BY DEF DiskInv, WriteAlloc, WriteBlock, WriteInode, Working, TypeOK, Formatting
  <1>1. CASE WriteAlloc
    <2>1. UNCHANGED <<super, ibitmap, inode, ents, filled, disk>> BY <1>1 DEF WriteAlloc
    <2>2. CASE Return /\ UNCHANGED dbitmap BY <1>0, <2>1, <2>2, Rests DEF Return, ondisk
    <2>3. CASE \E b \in Blocks : get_avail_blkno(b) /\ cp' = [cp EXCEPT !.ptr[idx] = b]
      <3>1. PICK b \in Blocks : get_avail_blkno(b) /\ cp' = [cp EXCEPT !.ptr[idx] = b] BY <2>3
      <3>2. dbitmap \subseteq dbitmap' BY <3>1 DEF get_avail_blkno, bio_write, set_bitmap
      <3>3. CASE UNCHANGED <<pc, at, call, name, new, idx, left>>
        <4>1. Marked' BY <2>1, <3>2 DEF DiskInv, Marked
        <4>2. EntriesExclusive' /\ FreshIsZero' BY <2>1, <3>2, SameEntries
        <4>3. BlocksExclusive' /\ Formatting' BY <1>0, <2>1, <3>2, <3>3, BlocksGrow
        <4>4. Working' BY <1>0, <1>1, <2>1, <3>1, <3>3, CopyGrows DEF WriteAlloc, More
        <4>5. NewOK' BY <1>0, <3>3 DEF NewOK
        <4>6. QED BY <4>1, <4>2, <4>3, <4>4, <4>5 DEF DiskInv
      <3>4. CASE Return /\ UNCHANGED dbitmap BY <1>0, <2>1, <3>4, Rests DEF Return, ondisk
      <3>5. QED BY <1>1, <3>3, <3>4 DEF WriteAlloc
    <2>4. QED BY <1>1, <2>2, <2>3 DEF WriteAlloc
  <1>2. CASE WriteBlock
    <2>1. UNCHANGED <<super, ibitmap, dbitmap, inode, ents, disk, pc, at, cp>> BY <1>2 DEF WriteBlock
    <2>2. cp.ptr[idx] \in dbitmap /\ filled' \in {filled, filled \cup {cp.ptr[idx]}}
      BY <1>2 DEF DiskInv, WriteBlock, More, Working, bio_write
    <2>3. Marked' /\ EntriesExclusive' BY <2>1 DEF DiskInv, Marked, EntriesExclusive
    <2>4. FreshIsZero' BY <2>1, <2>2 DEF DiskInv, FreshIsZero
    <2>5. BlocksExclusive' /\ Formatting' BY <1>0, <2>1, BlocksGrow
    <2>6. Working' /\ NewOK' BY <1>0, <2>1 DEF DiskInv, Working, NewOK
    <2>7. QED BY <2>3, <2>4, <2>5, <2>6 DEF DiskInv
  <1>3. CASE WriteInode
    <2> DEFINE n == [cp EXCEPT !.size = IF idx > @ THEN idx ELSE @]
    <2>1. n \in Inode /\ n.valid /\ n.ptr = cp.ptr BY <1>0 DEF DiskInv, TypeOK, Inode
    <2>2. /\ UNCHANGED inode \/ inode' = [inode EXCEPT ![at] = n]
          /\ UNCHANGED <<ibitmap, dbitmap, ents, filled, disk>> /\ pc' = "idle"
      BY <1>3 DEF WriteInode, Return, writei
    <2> HIDE DEF n
    <2>3. Marked' /\ BlocksExclusive' /\ EntriesExclusive' /\ FreshIsZero' /\ Formatting'
      BY <1>0, <2>1, <2>2, WriteBack
    <2>4. Working' /\ NewOK' BY <2>2 DEF Working, NewOK
    <2>5. QED BY <2>3, <2>4 DEF DiskInv
  <1>4. QED BY <1>1, <1>2, <1>3

\* A call that cannot read gives up and leaves the disk alone.
LEMMA ReadFailsKeeps ==
  ASSUME DiskInv, TypeOK', MarksKept', ReadFails PROVE DiskInv'
  <1>1. disk BY DEF DiskInv, ReadFails, Formatting
  <1>2. QED BY <1>1, Rests DEF ReadFails, Return, ondisk

\* Every step that keeps the marks keeps the invariant.
LEMMA DiskStep ==
  ASSUME DiskInv, TypeOK', MarksKept', [Next]_vars PROVE DiskInv'
  <1>2. CASE Mkfs \/ Mount \/ Unmount \/ Crash BY <1>2, MkfsKeeps
  <1>3. CASE Begin BY <1>3, BeginKeeps
  <1>4. CASE AllocIno BY <1>4, InoKeeps
  <1>5. CASE DirAdd BY <1>5, DirAddKeeps
  <1>6. CASE DirAlloc BY <1>6, DirAllocKeeps
  <1>7. CASE DirBlock BY <1>7, DirBlockKeeps
  <1>8. CASE DirInode BY <1>8, DirInodeKeeps
  <1>9. CASE NewBlock BY <1>9, NewBlockKeeps
  <1>10. CASE NewInode BY <1>10, NewInodeKeeps
  <1>11. CASE WriteAlloc \/ WriteBlock \/ WriteInode BY <1>11, WriteKeeps
  <1>12. CASE ReadFails BY <1>12, ReadFailsKeeps
  <1>13. CASE UNCHANGED vars
    BY <1>13 DEF vars, ondisk, locals, history, DiskInv, TypeOK, Marked, BlocksExclusive,
       EntriesExclusive, FreshIsZero, Formatting, Pristine, Working, NewOK
  <1>14. QED
    BY <1>2, <1>3, <1>4, <1>5, <1>6, <1>7, <1>8, <1>9, <1>10, <1>11, <1>12, <1>13
    DEF Next, Continue

-----------------------------------------------------------------------------
(***************************************************************************)
(* The theorems                                                            *)
(***************************************************************************)
\* The invariant holds throughout: marks that are kept now were kept before.
LEMMA DiskAlways == Spec => []FaultInv
  <1>1. Init => FaultInv BY DiskInit DEF FaultInv, DiskInv
  <1>2. FaultInv /\ [Next]_vars => FaultInv'
    <2> SUFFICES ASSUME FaultInv, [Next]_vars PROVE FaultInv'
      OBVIOUS
    <2>1. TypeOK' BY TypeStep DEF FaultInv
    <2>2. MarksKept' => MarksKept BY Faults DEF FaultInv, MarksKept
    <2>3. MarksKept' => DiskInv' BY <2>1, <2>2, DiskStep DEF FaultInv
    <2>4. QED BY <2>1, <2>3 DEF FaultInv
  <1>3. QED BY <1>1, <1>2, PTL DEF Spec

\* rufs.c keeps the types of its disk and its variables.
THEOREM DiskTypes == Spec => []TypeOK
  <1>1. FaultInv => TypeOK BY DEF FaultInv
  <1>2. QED BY <1>1, DiskAlways, PTL

\* Whatever the calls and whatever crashes or fails, bitmaps that are written
\* cover the inodes and blocks in use.
THEOREM NothingUnmarked == Spec => []BitmapsCover
  <1>1. FaultInv => BitmapsCover BY DEF FaultInv, DiskInv, Marked, BitmapsCover, BlocksOf
  <1>2. QED BY <1>1, DiskAlways, PTL

\* Whatever the calls and whatever crashes or fails, bitmaps aside, no two files share a block.
THEOREM NoBlockShared == Spec => []BlocksExclusive
  <1>1. FaultInv => BlocksExclusive BY DEF FaultInv, DiskInv, BlocksExclusive
  <1>2. QED BY <1>1, DiskAlways, PTL

\* Whatever the calls and whatever crashes or fails, bitmaps aside, no inode has two names.
THEOREM NamesFormATree == Spec => []EntriesExclusive
  <1>1. FaultInv => EntriesExclusive BY DEF FaultInv, DiskInv, EntriesExclusive
  <1>2. QED BY <1>1, DiskAlways, PTL

\* A block that has never been allocated is zero, as rufs_mkdir relies on.
THEOREM UnusedIsZero == Spec => []FreshIsZero
  <1>1. FaultInv => FreshIsZero BY DEF FaultInv, DiskInv, FreshIsZero
  <1>2. QED BY <1>1, DiskAlways, PTL
=============================================================================
