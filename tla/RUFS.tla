-------------------------------- MODULE RUFS --------------------------------
(***************************************************************************)
(* The file system of project4: rufs.c on the emulated disk of block.c.    *)
(* FUSE runs it with one thread (run.sh: -s), so calls do not overlap, but *)
(* the process can be killed between any two disk writes and be mounted    *)
(* again on the disk it left, and any read or write of the disk can fail.  *)
(*                                                                         *)
(* A step ends with at most one bio_write.  The disk is its superblock,    *)
(* the two bitmaps, the inodes and the data blocks; a data block is seen   *)
(* as directory entries and as file data.  Block numbers count from        *)
(* d_start_blk and begin at 1; pointer 0 means none.  Sizes count entries  *)
(* in a directory and blocks in a file.                                    *)
(***************************************************************************)
EXTENDS Integers, Sequences, FiniteSets

CONSTANTS
  MAX_INUM,   \* number of inodes
  MAX_DNUM,   \* number of data blocks
  NPtr,       \* direct pointers of an inode (16 in the code)
  PerBlk,     \* directory entries in a block (19 in the code)
  Names,      \* file names
  MaxFaults,  \* bound: faults in a behaviour
  NULL

ASSUME RUFSAssumption ==
  /\ MAX_INUM \in Nat \ {0} /\ MAX_DNUM \in Nat \ {0}
  /\ NPtr \in Nat \ {0} /\ PerBlk \in Nat \ {0}
  /\ NULL \notin Names /\ NULL \notin Int /\ MaxFaults \in Nat

Inodes == 0 .. MAX_INUM - 1
Blocks == 1 .. MAX_DNUM
Ptrs == 0 .. NPtr - 1
Slots == 0 .. PerBlk - 1
Root == 0

\* Paths of at most two names.
Paths == {<<>>} \cup {<<n>> : n \in Names} \cup {<<m, n>> : m \in Names, n \in Names}

VARIABLES
  super,    \* the superblock is on the disk
  ibitmap, dbitmap,
  inode,    \* the inode table
  ents,     \* directory entries in every data block
  filled,   \* data blocks that hold file data
  disk,     \* the disk file exists
  sb,       \* the superblock in memory is that of a formatted disk
  pc,       \* where the current call is
  at,       \* inode number of the parent directory, or of the file written
  cp,       \* the handler's copy of that inode
  call,     \* "mkdir", "create" or "write"
  name,     \* last component of the path
  new,      \* new_ino
  blk,      \* the block last obtained from get_avail_blkno
  idx,      \* block index of rufs_write's loop
  left,     \* blocks still to be written
  faults,   \* number of faults
  failed    \* history: their kinds

ondisk == <<super, ibitmap, dbitmap, inode, ents, filled, disk>>
locals == <<at, cp, call, name, new, blk, idx, left>>
history == <<faults, failed>>
vars == <<ondisk, sb, pc, locals, history>>

NoPtrs == [i \in Ptrs |-> 0]
NoInode == [valid |-> FALSE, dir |-> FALSE, size |-> 0, ptr |-> NoPtrs]
NoEntry == [name |-> NULL, ino |-> 0]
ZeroBlock == [s \in Slots |-> NoEntry]

Inode == [valid : BOOLEAN, dir : BOOLEAN, size : Nat, ptr : [Ptrs -> Blocks \cup {0}]]
Entry == [name : Names \cup {NULL}, ino : Inodes]

-----------------------------------------------------------------------------
(***************************************************************************)
(* Faults.  A read or write can fail at any time: pread and pwrite report  *)
(* it, bio_read and bio_write hand that on, and rufs.c mostly ignores it.  *)
(*   crash  - the process dies                                             *)
(*   read   - a read fails and the call gives up                           *)
(*   find   - a read fails in a lookup, which takes the name for missing   *)
(*   inode  - the read that writei begins with fails: nothing is written,  *)
(*            and the call goes on                                         *)
(*   bitmap - the write of a bitmap is lost                                *)
(*   write  - the write of any other block is lost                         *)
(***************************************************************************)
Kinds == {"crash", "read", "find", "inode", "bitmap", "write"}

Fault(k) ==
  /\ faults < MaxFaults
  /\ faults' = faults + 1
  /\ failed' = failed \cup {k}

\* A write takes effect as a whole, or is lost.
bio_write(k, written, lost) ==
  \/ written /\ UNCHANGED history
  \/ lost /\ Fault(k)

\* writei reads the block of the inode, changes the inode in it and writes it
\* back.  No caller looks at the result.
writei(written) ==
  \/ written /\ UNCHANGED history
  \/ UNCHANGED inode /\ \E k \in {"inode", "write"} : Fault(k)

-----------------------------------------------------------------------------
(***************************************************************************)
(* Helpers                                                                 *)
(***************************************************************************)
BlocksOf(n) == {n.ptr[i] : i \in Ptrs} \ {0}

\* The places of a directory's entries, in the order the code visits them.
Places == Ptrs \X Slots
Before(d, e) == d[1] < e[1] \/ (d[1] = e[1] /\ d[2] < e[2])

\* The directory n has an entry for nm at place e.
IsEntry(n, nm, e) == n.ptr[e[1]] # 0 /\ ents[n.ptr[e[1]]][e[2]].name = nm
HasEntry(n, nm) == \E e \in Places : IsEntry(n, nm, e)
dir_find(n, nm) ==
  LET e == CHOOSE e \in Places :
             IsEntry(n, nm, e) /\ \A d \in Places : Before(d, e) => ~IsEntry(n, nm, d)
  IN ents[n.ptr[e[1]]][e[2]].ino

\* Mutation: an inode that was never written is as good as any.
Usable_any(n) == TRUE

\* What readi asks of an inode it has read.
Usable(n) == inode[n].valid

\* dir_find of nm in the directory among D, if it is one and has that name.
Lookup(D, nm) ==
  {dir_find(inode[d], nm) : d \in {d \in D : inode[d].dir /\ HasEntry(inode[d], nm)}}

\* get_node_by_path: the inode that p leads to, in a set that is empty when
\* some component is missing, is not a directory, or has no usable inode.
get_node_by_path[p \in Paths] ==
  LET found == IF p = <<>> THEN {n \in {Root} : super}
                           ELSE Lookup(get_node_by_path[SubSeq(p, 1, Len(p) - 1)], p[Len(p)])
  IN {n \in found : Usable(n)}

\* Does rufs_getattr find p, and which names does rufs_readdir hand to filler?
rufs_getattr(p) == get_node_by_path[p] # {}
rufs_readdir(p) ==
  {nm \in Names : Lookup(get_node_by_path[p], nm) # {}}

\* The lowest clear bit of a bitmap.
IsFirstFree(bitmap, range, x) ==
  x \in range \ bitmap /\ \A y \in range \ bitmap : x <= y

\* Mutation: the block is written back as it was read.
set_bitmap_not(bitmap, x) == bitmap

set_bitmap(bitmap, x) == bitmap \cup {x}

\* get_avail_blkno obtains block b, whether or not its bit gets to the disk.
get_avail_blkno(b) ==
  /\ IsFirstFree(dbitmap, Blocks, b)
  /\ bio_write("bitmap", dbitmap' = set_bitmap(dbitmap, b), UNCHANGED dbitmap)
  /\ blk' = b

\* The slot dir_add uses: the first free one, block by block.
IsFirstSlot(n, i, s) ==
  IsEntry(n, NULL, <<i, s>>) /\ \A d \in Places : Before(d, <<i, s>>) => ~IsEntry(n, NULL, d)
NoSlot(n) == ~HasEntry(n, NULL)

\* The pointer a new block gets.
IsFirstPtr(n, i) == n.ptr[i] = 0 /\ \A k \in Ptrs : n.ptr[k] = 0 => i <= k
NoPtr(n) == \A i \in Ptrs : n.ptr[i] # 0

\* The call returns, with what it leaves in memory forgotten.
ClearLocals ==
  /\ at' = Root /\ cp' = NoInode /\ call' = "none" /\ name' = NULL
  /\ new' = Root /\ blk' = 0 /\ idx' = 0 /\ left' = 0
Return == pc' = "idle" /\ ClearLocals

-----------------------------------------------------------------------------
(***************************************************************************)
(* Mounting: rufs_init and rufs_mkfs                                       *)
(***************************************************************************)
\* No disk file: dev_init creates it, all zero.
DevInit ==
  /\ pc = "down" /\ ~disk
  /\ disk' = TRUE
  /\ pc' = "mkfs_super"
  /\ UNCHANGED <<super, ibitmap, dbitmap, inode, ents, filled, sb, locals, history>>

\* The only write of mkfs whose result is looked at.
MkfsSuper ==
  /\ pc = "mkfs_super"
  /\ bio_write("write", super' = TRUE /\ pc' = "mkfs_ibitmap", UNCHANGED super /\ pc' = "idle")
  /\ UNCHANGED <<ibitmap, dbitmap, inode, ents, filled, disk, sb, locals>>

MkfsIBitmap ==
  /\ pc = "mkfs_ibitmap"
  /\ bio_write("bitmap", ibitmap' = {Root}, UNCHANGED ibitmap)
  /\ pc' = "mkfs_dbitmap"
  /\ UNCHANGED <<super, dbitmap, inode, ents, filled, disk, sb, locals>>

MkfsDBitmap ==
  /\ pc = "mkfs_dbitmap"
  /\ bio_write("bitmap", dbitmap' = {1}, UNCHANGED dbitmap)
  /\ pc' = "mkfs_rootblk"
  /\ UNCHANGED <<super, ibitmap, inode, ents, filled, disk, sb, locals>>

MkfsRootBlock ==
  /\ pc = "mkfs_rootblk"
  /\ bio_write("write", ents' = [ents EXCEPT ![1] = ZeroBlock] /\ filled' = filled \ {1},
               UNCHANGED <<ents, filled>>)
  /\ sb' = TRUE
  /\ pc' = "mkfs_root"
  /\ UNCHANGED <<super, ibitmap, dbitmap, inode, disk, locals>>

RootInode == [valid |-> TRUE, dir |-> TRUE, size |-> 0, ptr |-> [NoPtrs EXCEPT ![0] = 1]]

MkfsRoot ==
  /\ pc = "mkfs_root"
  /\ writei(inode' = [inode EXCEPT ![Root] = RootInode])
  /\ pc' = "idle"
  /\ UNCHANGED <<super, ibitmap, dbitmap, ents, filled, disk, sb, locals>>

\* A disk file is found: its superblock is read, and not looked at.
Mount ==
  /\ pc = "down" /\ disk
  /\ \/ sb' = super /\ UNCHANGED history
     \/ sb' = FALSE /\ Fault("read")
  /\ pc' = "idle"
  /\ UNCHANGED <<ondisk, locals>>

\* rufs_destroy
Unmount ==
  /\ pc = "idle"
  /\ pc' = "down" /\ sb' = FALSE
  /\ UNCHANGED <<ondisk, locals, history>>

\* The process dies; what it wrote to the disk file stays.
Crash ==
  /\ pc # "down" /\ Fault("crash")
  /\ pc' = "down" /\ sb' = FALSE
  /\ ClearLocals
  /\ UNCHANGED ondisk

-----------------------------------------------------------------------------
(***************************************************************************)
(* rufs_mkdir and rufs_create                                              *)
(***************************************************************************)
\* The parent is found and is a directory; FUSE asks only for names it has
\* just looked up in vain, but rufs_getattr reports a failed read as a name
\* that does not exist.  All other calls return without a write.
BeginAdd(c, parent, nm) ==
  /\ pc = "idle" /\ sb
  /\ \E p \in Inodes :
       /\ p \in get_node_by_path[parent] /\ inode[p].valid
       /\ inode[p].dir
       /\ at' = p
       /\ cp' = inode[p]
  /\ \/ ~rufs_getattr(Append(parent, nm)) /\ UNCHANGED history
     \/ rufs_getattr(Append(parent, nm)) /\ Fault("find")
  /\ call' = c /\ name' = nm
  /\ pc' = "ino"
  /\ UNCHANGED <<ondisk, sb, new, blk, idx, left>>

\* get_avail_ino
AllocIno ==
  /\ pc = "ino"
  /\ \/ \E n \in Inodes :
          /\ IsFirstFree(ibitmap, Inodes, n)
          /\ bio_write("bitmap", ibitmap' = set_bitmap(ibitmap, n), UNCHANGED ibitmap)
          /\ new' = n
          /\ pc' = "dir_add"
          /\ UNCHANGED <<at, cp, call, name, blk, idx, left>>
     \/ /\ ibitmap = Inodes
        /\ Return
        /\ UNCHANGED <<ibitmap, history>>
  /\ UNCHANGED <<super, dbitmap, inode, ents, filled, disk, sb>>

\* Mutation: the entry gets the parent's inode number.
NewEntry_parent == [name |-> name, ino |-> at]

NewEntry == [name |-> name, ino |-> new]

\* Mutation: dir_add does not look for the name.
NameTaken_not == FALSE

\* What dir_add asks dir_find.
NameTaken == HasEntry(inode[at], name)

\* A name that is there is overlooked when dir_find cannot read its block.
Unseen == IF NameTaken THEN Fault("find") ELSE UNCHANGED history

\* dir_add: refused when the name is there, else the entry is written to the
\* first free slot, if there is one.
DirAdd ==
  /\ pc = "dir_add"
  /\ \/ /\ NameTaken
        /\ Return
        /\ UNCHANGED <<ents, history>>
     \/ /\ Unseen
        /\ \E i \in Ptrs, s \in Slots :
             /\ IsFirstSlot(cp, i, s)
             /\ ents' = [ents EXCEPT ![cp.ptr[i]][s] = NewEntry]
        /\ pc' = "dir_inode"
        /\ UNCHANGED locals
     \/ /\ ~NameTaken /\ ~NoSlot(cp)
        /\ Fault("write")
        /\ Return
        /\ UNCHANGED ents
     \/ /\ Unseen
        /\ NoSlot(cp)
        /\ pc' = "dir_alloc"
        /\ UNCHANGED <<locals, ents>>
  /\ UNCHANGED <<super, ibitmap, dbitmap, inode, filled, disk, sb>>

\* The directory needs a block; it is allocated before a pointer is sought.
DirAlloc ==
  /\ pc = "dir_alloc"
  /\ \/ /\ \E b \in Blocks, i \in Ptrs :
             /\ get_avail_blkno(b)
             /\ IsFirstPtr(cp, i)
             /\ cp' = [cp EXCEPT !.ptr[i] = b]
        /\ pc' = "dir_block"
        /\ UNCHANGED <<at, call, name, new, idx, left>>
     \/ /\ \E b \in Blocks :
             /\ IsFirstFree(dbitmap, Blocks, b)
             /\ bio_write("bitmap", dbitmap' = set_bitmap(dbitmap, b), UNCHANGED dbitmap)
        /\ NoPtr(cp)
        /\ Return
     \/ /\ dbitmap = Blocks
        /\ Return
        /\ UNCHANGED <<dbitmap, history>>
  /\ UNCHANGED <<super, ibitmap, inode, ents, filled, disk, sb>>

DirBlock ==
  /\ pc = "dir_block"
  /\ bio_write("write",
       /\ ents' = [ents EXCEPT ![blk] = [ZeroBlock EXCEPT ![0] = NewEntry]]
       /\ filled' = filled \ {blk}
       /\ pc' = "dir_inode"
       /\ UNCHANGED locals,
       Return /\ UNCHANGED <<ents, filled>>)
  /\ UNCHANGED <<super, ibitmap, dbitmap, inode, disk, sb>>

\* Mutation: the directory is written back without its new block.
Grown_old(n) == [inode[at] EXCEPT !.size = @ + 1]

\* Mutation: the size of the directory is not updated.
Grown_not(n) == n

\* The directory n with one more entry.
Grown(n) == [n EXCEPT !.size = @ + 1]

\* writei of the directory; dir_add succeeds whether it is written or not.
DirInode ==
  /\ pc = "dir_inode"
  /\ writei(inode' = [inode EXCEPT ![at] = Grown(cp)])
  /\ pc' = IF call = "mkdir" THEN "new_block" ELSE "new_inode"
  /\ blk' = 0
  /\ UNCHANGED <<super, ibitmap, dbitmap, ents, filled, disk, sb>>
  /\ UNCHANGED <<at, cp, call, name, new, idx, left>>

\* rufs_mkdir obtains the directory's first block, without clearing it.
NewBlock ==
  /\ pc = "new_block"
  /\ \/ /\ \E b \in Blocks : get_avail_blkno(b)
        /\ pc' = "new_inode"
        /\ UNCHANGED <<at, cp, call, name, new, idx, left>>
     \/ /\ dbitmap = Blocks
        /\ Return
        /\ UNCHANGED <<dbitmap, history>>
  /\ UNCHANGED <<super, ibitmap, inode, ents, filled, disk, sb>>

\* Mutation: the new inode is not marked valid.
NewRecord_invalid ==
  [valid |-> FALSE, dir |-> call = "mkdir", size |-> 0, ptr |-> [NoPtrs EXCEPT ![0] = blk]]

\* Mutation: the new inode starts as a copy of its directory's.
NewRecord_copy ==
  [valid |-> TRUE, dir |-> call = "mkdir", size |-> 0, ptr |-> [cp.ptr EXCEPT ![0] = blk]]

\* The new inode (a file has no block yet: blk = 0).
NewRecord ==
  [valid |-> TRUE, dir |-> call = "mkdir", size |-> 0, ptr |-> [NoPtrs EXCEPT ![0] = blk]]

\* writei of the new inode; the call returns 0 whether it is written or not.
NewInode ==
  /\ pc = "new_inode"
  /\ writei(inode' = [inode EXCEPT ![new] = NewRecord])
  /\ Return
  /\ UNCHANGED <<super, ibitmap, dbitmap, ents, filled, disk, sb>>

-----------------------------------------------------------------------------
(***************************************************************************)
(* rufs_write of n blocks from block index i on                            *)
(***************************************************************************)
\* Mutation: a directory is written like a file.
Writable_any(f) == TRUE

Writable(f) == ~inode[f].dir

BeginWrite(p, i, n) ==
  /\ pc = "idle" /\ sb
  /\ \E f \in Inodes :
       /\ f \in get_node_by_path[p] /\ inode[f].valid
       /\ Writable(f)
       /\ at' = f
       /\ cp' = inode[f]
  /\ call' = "write" /\ idx' = i /\ left' = n
  /\ pc' = "write"
  /\ UNCHANGED <<ondisk, sb, name, new, blk, history>>

\* Mutation: the loop does not stop when everything has been written.
More_blocks == idx \in Ptrs

More == idx \in Ptrs /\ left > 0

\* A missing block is allocated; when there is none the call returns, and
\* the pointers to the blocks allocated before go with it.
WriteAlloc ==
  /\ pc = "write" /\ More /\ cp.ptr[idx] = 0
  /\ \/ /\ \E b \in Blocks : get_avail_blkno(b) /\ cp' = [cp EXCEPT !.ptr[idx] = b]
        /\ UNCHANGED <<pc, at, call, name, new, idx, left>>
     \/ /\ dbitmap = Blocks
        /\ Return
        /\ UNCHANGED <<dbitmap, history>>
  /\ UNCHANGED <<super, ibitmap, inode, ents, filled, disk, sb>>

\* The block counts as written, whether it is or not.
WriteBlock ==
  /\ pc = "write" /\ More /\ cp.ptr[idx] # 0
  /\ bio_write("write", filled' = filled \cup {cp.ptr[idx]}, UNCHANGED filled)
  /\ idx' = idx + 1 /\ left' = left - 1
  /\ UNCHANGED <<super, ibitmap, dbitmap, inode, ents, disk, sb, pc, at, cp, call, name,
                 new, blk>>

\* writei of the file, with the size of what was written (also when that is
\* nothing, beyond the last pointer).
WriteInode ==
  /\ pc = "write" /\ ~More
  /\ writei(inode' = [inode EXCEPT ![at] = [cp EXCEPT !.size = IF idx > @ THEN idx ELSE @]])
  /\ Return
  /\ UNCHANGED <<super, ibitmap, dbitmap, ents, filled, disk, sb>>

\* get_avail_ino, dir_add or get_avail_blkno cannot read its block.
ReadFails ==
  /\ \/ pc \in {"ino", "dir_add", "dir_alloc", "new_block"}
     \/ pc = "write" /\ More /\ cp.ptr[idx] = 0
  /\ Fault("read")
  /\ Return
  /\ UNCHANGED <<ondisk, sb>>

-----------------------------------------------------------------------------
Init ==
  /\ super = FALSE /\ disk = FALSE
  /\ ibitmap = {} /\ dbitmap = {}
  /\ inode = [n \in Inodes |-> NoInode]
  /\ ents = [b \in Blocks |-> ZeroBlock]
  /\ filled = {}
  /\ sb = FALSE /\ pc = "down" /\ faults = 0 /\ failed = {}
  /\ at = Root /\ cp = NoInode /\ call = "none" /\ name = NULL
  /\ new = Root /\ blk = 0 /\ idx = 0 /\ left = 0

\* The rest of a call that has begun.
Continue ==
  \/ AllocIno \/ DirAdd \/ DirAlloc \/ DirBlock \/ DirInode \/ NewBlock \/ NewInode
  \/ WriteAlloc \/ WriteBlock \/ WriteInode \/ ReadFails

Mkfs == DevInit \/ MkfsSuper \/ MkfsIBitmap \/ MkfsDBitmap \/ MkfsRootBlock \/ MkfsRoot

Begin ==
  \/ \E c \in {"mkdir", "create"}, p \in Paths, nm \in Names :
       Len(p) < 2 /\ BeginAdd(c, p, nm)
  \/ \E p \in Paths, i \in 0 .. NPtr, n \in 1 .. NPtr : BeginWrite(p, i, n)

Next == Mkfs \/ Mount \/ Unmount \/ Crash \/ Begin \/ Continue

Spec == Init /\ [][Next]_vars

-----------------------------------------------------------------------------
(***************************************************************************)
(* Properties                                                              *)
(***************************************************************************)
PCs == {"down", "mkfs_super", "mkfs_ibitmap", "mkfs_dbitmap", "mkfs_rootblk", "mkfs_root",
        "idle", "ino", "dir_add", "dir_alloc", "dir_block", "dir_inode", "new_block",
        "new_inode", "write"}

\* Every variable has its type.
TypeOK ==
  /\ super \in BOOLEAN /\ disk \in BOOLEAN /\ sb \in BOOLEAN
  /\ ibitmap \subseteq Inodes /\ dbitmap \subseteq Blocks
  /\ inode \in [Inodes -> Inode]
  /\ ents \in [Blocks -> [Slots -> Entry]]
  /\ filled \subseteq Blocks
  /\ pc \in PCs
  /\ at \in Inodes /\ new \in Inodes /\ cp \in Inode
  /\ call \in {"none", "mkdir", "create", "write"}
  /\ name \in Names \cup {NULL}
  /\ blk \in Blocks \cup {0}
  /\ idx \in Nat /\ left \in Nat /\ faults \in Nat /\ failed \subseteq Kinds

\* No write of a bitmap has been lost: get_avail_ino and get_avail_blkno do
\* not look at its result, and hand the same number out again.
MarksKept == "bitmap" \notin failed

\* Whatever a crash or a failed read or write leaves, everything in use is
\* marked: valid inodes, inodes named by an entry, and blocks with a pointer
\* to them on the disk.
BitmapsCover == MarksKept =>
  /\ \A n \in Inodes : inode[n].valid => n \in ibitmap /\ BlocksOf(inode[n]) \subseteq dbitmap
  /\ \A b \in Blocks, s \in Slots : ents[b][s].name # NULL => ents[b][s].ino \in ibitmap

\* No block of the disk belongs to two files, or to one file twice.
BlocksExclusive == MarksKept =>
  \A m, n \in Inodes : inode[m].valid /\ inode[n].valid =>
    \A i, j \in Ptrs :
      inode[m].ptr[i] = inode[n].ptr[j] /\ inode[m].ptr[i] # 0 => m = n /\ i = j

\* No inode is named by two entries, and the root by none: the names form a
\* tree, after crashes and failed reads and writes too.
EntriesExclusive == MarksKept =>
  \A b, c \in Blocks, r, s \in Slots :
    ents[b][r].name # NULL /\ ents[c][s].name # NULL =>
      /\ ents[b][r].ino # Root
      /\ ents[b][r].ino = ents[c][s].ino => b = c /\ r = s

\* A block that is not marked is still all zero, so rufs_mkdir may take it for
\* an empty directory, and rufs_write for a block of zeros.
FreshIsZero == MarksKept =>
  \A b \in Blocks \ dbitmap : ents[b] = ZeroBlock /\ b \notin filled

\* A directory's block holds entries and never file data, a file's never entries.
KindsApart == MarksKept =>
  \A n \in Inodes : inode[n].valid =>
    \A b \in BlocksOf(inode[n]) :
      IF inode[n].dir THEN b \notin filled ELSE ents[b] = ZeroBlock

\* No directory has two entries of one name, as long as dir_find could read
\* what it searched: dir_add takes a failed search for a name that is free.
NamesUnique == failed \cap {"bitmap", "find"} = {} =>
  \A n \in Inodes : inode[n].valid /\ inode[n].dir =>
    \A b, c \in BlocksOf(inode[n]), r, s \in Slots :
      ents[b][r].name = ents[c][s].name /\ ents[b][r].name # NULL => b = c /\ r = s

\* Between calls the recorded size of a directory is its number of entries, as
\* long as nothing has failed but reads after which the call gave up: no crash,
\* no lost write, and none of the reads whose failure goes unnoticed, those of
\* dir_find and the one that writei begins with, after the entry is written.
SizesCount ==
  pc = "idle" /\ failed \subseteq {"read"} =>
    \A n \in Inodes : inode[n].valid /\ inode[n].dir =>
      inode[n].size = Cardinality({e \in BlocksOf(inode[n]) \X Slots :
                                     ents[e[1]][e[2]].name # NULL})

\* Between calls rufs_getattr finds every name that rufs_readdir lists, as
\* long as nothing has failed and there are data blocks left: rufs_mkdir gives
\* up after it has added its entry when it finds no block for the directory.
ListedIsFound ==
  pc = "idle" /\ failed = {} /\ dbitmap # Blocks =>
    \A p \in Paths : \A nm \in rufs_readdir(p) :
      Len(p) < 2 => rufs_getattr(Append(p, nm))

\* A mkdir or create that gets to its end has created what it says, in the
\* directory it was asked for, unless the disk has lost a write or the read
\* that writei begins with has failed: crashes, and failed reads in searches
\* and in calls that were given up, do no harm.
CreatedIsFound ==
  [][pc = "new_inode" /\ pc' = "idle" /\ failed' \cap {"bitmap", "write", "inode"} = {} =>
       /\ inode'[new].valid /\ inode'[new].dir = (call = "mkdir")
       /\ \E b \in BlocksOf(inode'[at]), s \in Slots : ents'[b][s] = NewEntry]_vars

\* What every path leads to.
Kind == [p \in Paths |->
  LET found == get_node_by_path[p]
  IN IF found = {} THEN "none" ELSE IF \E n \in found : inode[n].dir THEN "dir" ELSE "file"]
NS == INSTANCE Namespace WITH kind <- Kind

\* Every name that a path reaches is a file or directory that rufs_mkdir or
\* rufs_create has added in one step, with or without crashes and failed reads
\* and writes: a call either takes effect when it writes the new inode, or not
\* at all.
RefinesNamespace == NS!Init /\ [][NS!Next \/ ~MarksKept']_Kind
=============================================================================
