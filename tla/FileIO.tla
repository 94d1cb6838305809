------------------------------- MODULE FileIO -------------------------------
(***************************************************************************)
(* rufs_write and rufs_read on the bytes of one regular file: blocks       *)
(* allocated on demand, copies that start and end inside a block, writes   *)
(* past the end, and a disk that runs out of blocks in the middle of one.  *)
(***************************************************************************)
EXTENDS Integers, Sequences, FiniteSetsExt

CONSTANTS
  BLOCK_SIZE,  \* bytes in a block
  NPtr,        \* direct pointers (16 in the code)
  NumBlocks,   \* free data blocks on the disk
  MaxSize,     \* bound: bytes in one write
  Values,      \* what a write fills its bytes with
  NULL

Ptrs == 0 .. NPtr - 1
Blocks == 1 .. NumBlocks
InBlock == 0 .. BLOCK_SIZE - 1
Offsets == 0 .. (NPtr + 1) * BLOCK_SIZE - 1

VARIABLES
  inode,    \* [size, ptr] of the file on the disk
  data,     \* bytes of the data blocks
  marked,   \* blocks set in the bitmap
  pc,       \* "idle" or "write"
  req,      \* arguments of the current rufs_write
  cp,       \* its copy of the inode
  written,  \* bytes_written
  idx,      \* block index of its loop
  start,    \* blk_offset
  known     \* history: bytes that were last written by a write that succeeded

vars == <<inode, data, marked, pc, req, cp, written, idx, start, known>>

NoReq == [offset |-> 0, size |-> 0, value |-> 0]
NoBlocks == [size |-> 0, ptr |-> [i \in Ptrs |-> 0]]

Init ==
  /\ inode = NoBlocks
  /\ data = [b \in Blocks |-> [k \in InBlock |-> 0]]
  /\ marked = {}
  /\ pc = "idle" /\ req = NoReq /\ cp = NoBlocks
  /\ written = 0 /\ idx = 0 /\ start = 0
  /\ known = [o \in Offsets |-> NULL]

-----------------------------------------------------------------------------
\* The copy of the inode is read; the loop starts in the block of offset.
rufs_write(offset, size, value) ==
  /\ pc = "idle"
  /\ pc' = "write"
  /\ req' = [offset |-> offset, size |-> size, value |-> value]
  /\ cp' = inode
  /\ written' = 0
  /\ idx' = offset \div BLOCK_SIZE
  /\ start' = offset % BLOCK_SIZE
  /\ known' = [o \in Offsets |-> IF o \in offset .. offset + size - 1 THEN NULL ELSE known[o]]
  /\ UNCHANGED <<inode, data, marked>>

More == idx < NPtr /\ written < req.size

\* A missing block is obtained from get_avail_blkno.
Allocate ==
  /\ pc = "write" /\ More /\ cp.ptr[idx] = 0 /\ marked # Blocks
  /\ LET b == Min(Blocks \ marked)
     IN marked' = marked \cup {b} /\ cp' = [cp EXCEPT !.ptr[idx] = b]
  /\ UNCHANGED <<inode, data, pc, req, written, idx, start, known>>

\* The call returns and its local variables are gone.
Return ==
  /\ pc' = "idle"
  /\ req' = NoReq /\ cp' = NoBlocks
  /\ written' = 0 /\ idx' = 0 /\ start' = 0

\* There is none: -ENOSPC, and the copy of the inode is lost.
NoSpace ==
  /\ pc = "write" /\ More /\ cp.ptr[idx] = 0 /\ marked = Blocks
  /\ Return
  /\ UNCHANGED <<inode, data, marked, known>>

\* Bytes copied in this round of the loop.
to_copy == Min({BLOCK_SIZE - start, req.size - written})

CopyBlock ==
  /\ pc = "write" /\ More /\ cp.ptr[idx] # 0
  /\ data' = [data EXCEPT ![cp.ptr[idx]] =
                [k \in InBlock |-> IF k \in start .. start + to_copy - 1 THEN req.value ELSE @[k]]]
  /\ written' = written + to_copy
  /\ idx' = idx + 1 /\ start' = 0
  /\ UNCHANGED <<inode, marked, pc, req, cp, known>>

\* Mutation: the size is the end of the last write.
NewSize_last == req.offset + written

\* The size after the write.
NewSize == IF req.offset + written > cp.size THEN req.offset + written ELSE cp.size

\* writei, and the call returns bytes_written.
Finish ==
  /\ pc = "write" /\ ~More
  /\ inode' = [cp EXCEPT !.size = NewSize]
  /\ Return
  /\ known' = [o \in Offsets |-> IF o \in req.offset .. req.offset + written - 1
                                 THEN req.value ELSE known[o]]
  /\ UNCHANGED <<data, marked>>

Next ==
  \/ \E o \in Offsets, n \in 1 .. MaxSize, v \in Values : rufs_write(o, n, v)
  \/ Allocate \/ NoSpace \/ CopyBlock \/ Finish

Spec == Init /\ [][Next]_vars

-----------------------------------------------------------------------------
\* The byte of the file at o, and how far a read that starts at o can get
\* before it meets a missing block.
ByteAt(o) == data[inode.ptr[o \div BLOCK_SIZE]][o % BLOCK_SIZE]
Present(o) == o \div BLOCK_SIZE \in Ptrs /\ inode.ptr[o \div BLOCK_SIZE] # 0

\* Bytes that rufs_read returns for offset o and size n: clamped to the size
\* of the file, and short where a block is missing.
ReadLength(o, n) ==
  LET want == IF o >= inode.size THEN 0 ELSE Min({n, inode.size - o})
      gaps == {k \in 0 .. want - 1 : ~Present(o + k)}
  IN IF gaps = {} THEN want ELSE Min(gaps)
rufs_read(o, n) == [k \in 1 .. ReadLength(o, n) |-> ByteAt(o + k - 1)]

-----------------------------------------------------------------------------
\* Bytes that a successful write has put into the file are read back, all of
\* them and as they were written, whatever writes elsewhere have done since,
\* also the ones that failed half way.
ReadsBack ==
  pc = "idle" =>
    \A o \in Offsets, n \in 1 .. MaxSize :
      (\A k \in 0 .. n - 1 : o + k \in Offsets /\ known[o + k] # NULL) =>
        rufs_read(o, n) = [k \in 1 .. n |-> known[o + k - 1]]
=============================================================================
