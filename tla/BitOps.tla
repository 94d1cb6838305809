------------------------------- MODULE BitOps -------------------------------
(***************************************************************************)
(* Bits in an array of bytes, as three programs keep them: bitops.c and    *)
(* my_vm.c in signed chars, rufs.h in unsigned ones.  A byte is promoted   *)
(* to int, combined with a mask and converted back; the other models take  *)
(* a bitmap as the set of its bits, which is what is checked here.         *)
(***************************************************************************)
EXTENDS Integers, Bitwise

CONSTANTS
  NumBytes,  \* length of the array
  Indices    \* the bits that are set and cleared

VARIABLES
  signed,  \* signed chars?
  bitmap,  \* the array; a char is given by its bit pattern, 0 .. 255
  set      \* history: the bits set and not cleared since

vars == <<signed, bitmap, set>>

IntBits == 16    \* any width above a byte's gives the same results

\* The promotion of a char to int and the conversion back, on bit patterns.
Promoted(c) == IF signed /\ c >= 128 THEN c + 2 ^ IntBits - 256 ELSE c
Char(n) == n % 256

\* Mutation: one bit too few in a byte.
mask_short(index) == 2 ^ (index % 7)

mask(index) == 2 ^ (index % 8)

\* ~(1 << bit_idx)
NotMask(index) == 2 ^ IntBits - 1 - mask(index)

Changed(index, n) == bitmap' = [bitmap EXCEPT ![index \div 8] = Char(n)]

\* memset, calloc
Init ==
  /\ signed \in BOOLEAN
  /\ bitmap = [k \in 0 .. NumBytes - 1 |-> 0]
  /\ set = {}

\* set_bit and set_bit_at_index; set_bitmap with unsigned chars.
set_bit(index) ==
  /\ Changed(index, Promoted(bitmap[index \div 8]) | mask(index))
  /\ set' = set \cup {index}
  /\ UNCHANGED signed

\* clear_bit; unset_bitmap with unsigned chars.
clear_bit(index) ==
  /\ Changed(index, Promoted(bitmap[index \div 8]) & NotMask(index))
  /\ set' = set \ {index}
  /\ UNCHANGED signed

\* get_bit and get_bit_at_index shift the bit down.
get_bit_at_index(index) ==
  (Promoted(bitmap[index \div 8]) & mask(index)) \div 2 ^ (index % 8)

\* get_bitmap asks whether it is there.
get_bitmap(index) ==
  IF (Promoted(bitmap[index \div 8]) & mask(index)) # 0 THEN 1 ELSE 0

Next == \E index \in Indices : set_bit(index) \/ clear_bit(index)

Spec == Init /\ [][Next]_vars

-----------------------------------------------------------------------------
\* A bit reads 1 when it has been set and not cleared since, and 0 otherwise,
\* whatever the other bits of its byte hold, the sign bit of a char included.
BitsAreASet ==
  \A index \in 0 .. 8 * NumBytes - 1 :
    LET wanted == IF index \in set THEN 1 ELSE 0
    IN get_bit_at_index(index) = wanted /\ get_bitmap(index) = wanted
=============================================================================
