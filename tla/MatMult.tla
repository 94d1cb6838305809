------------------------------ MODULE MatMult -------------------------------
(***************************************************************************)
(* mat_mult of my_vm.c: the product of two size x size matrices of 32-bit  *)
(* words that are all mapped, read with get_data and written with put_data *)
(* one element at a time.  Memory is a function from word addresses; the   *)
(* results of the copies themselves are DataCopy's subject.                *)
(***************************************************************************)
EXTENDS Integers

CONSTANTS
  Sizes,    \* values of size
  Values,   \* elements of the arguments
  WordMod   \* 2^32

VARIABLES
  size, mat1, mat2, answer,  \* arguments: the size and three addresses
  mem,                       \* words in virtual memory
  i, j, k, c                 \* local variables

vars == <<size, mat1, mat2, answer, mem, i, j, k, c>>

\* Two matrices, which may be one, and an answer of its own.
Init ==
  /\ size \in Sizes
  /\ mat1 = 0 /\ mat2 \in {0, size * size} /\ answer = 2 * size * size
  /\ \E given \in [0 .. 2 * size * size - 1 -> Values] :
       mem = [a \in 0 .. 3 * size * size - 1 |->
                IF a \in DOMAIN given THEN given[a] ELSE 0]
  /\ i = 0 /\ j = 0 /\ k = 0 /\ c = 0

\* Mutation: rows and columns are mixed up.
Index_column(row, col) == col * size + row

Index(row, col) == row * size + col

\* One turn of the inner loop.
Multiply ==
  /\ i < size /\ k < size
  /\ LET a == mem[mat1 + Index(i, k)]
         b == mem[mat2 + Index(k, j)]
     IN c' = (c + a * b) % WordMod
  /\ k' = k + 1
  /\ UNCHANGED <<size, mat1, mat2, answer, mem, i, j>>

\* put_data of the element, and the next one.
Put ==
  /\ i < size /\ k = size
  /\ mem' = [mem EXCEPT ![answer + Index(i, j)] = c]
  /\ c' = 0 /\ k' = 0
  /\ j' = (j + 1) % size
  /\ i' = IF j + 1 = size THEN i + 1 ELSE i
  /\ UNCHANGED <<size, mat1, mat2, answer>>

Returned == i = size /\ UNCHANGED vars

Next == Multiply \/ Put \/ Returned

Spec == Init /\ [][Next]_vars

-----------------------------------------------------------------------------
\* The element of the product in row r and column s, by the definition of the
\* product: the sum over m in 1..n, for n = size, of mat1[r][m] * mat2[m][s].
Sum[n \in 0 .. size] ==
  [r \in 0 .. size - 1 |-> [s \in 0 .. size - 1 |->
     IF n = 0 THEN 0
     ELSE Sum[n - 1][r][s] + mem[mat1 + r * size + n - 1] * mem[mat2 + (n - 1) * size + s]]]

\* When mat_mult returns, answer holds the product of the arguments modulo
\* 2^32.
ComputesProduct ==
  i = size => \A r, s \in 0 .. size - 1 :
                mem[answer + r * size + s] = Sum[size][r][s] % WordMod
=============================================================================
