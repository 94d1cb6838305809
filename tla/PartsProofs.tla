---------------------------- MODULE PartsProofs ----------------------------
(***************************************************************************)
(* The small parts, for parameters of any size: the search of              *)
(* get_next_avail, the copying loop of put_data and get_data, the racing   *)
(* first calls of n_malloc, two programs of proj1-submit, the heap of the  *)
(* PSJF and CFS schedulers, rufs_write on the bytes of a file, the pages   *)
(* that n_malloc and n_free make of byte addresses, the list of the        *)
(* round-robin scheduler, and mat_mult.                                    *)
(***************************************************************************)
EXTENDS Sequences, FirstFit, SmallParts, FiniteSetTheorems,
        WellFoundedInduction, TLAPS

-----------------------------------------------------------------------------
(***************************************************************************)
(* get_next_avail's loop finds the lowest free block in every bitmap       *)
(***************************************************************************)
\* The inductive invariant: the loop invariant while the loop runs, the
\* result once it has ended.
FitInv == TypeOK /\ LoopInv /\ FindsFirstFit

\* A call starts with an empty run of free pages before page 1.
LEMMA FitInit == Init => FitInv
  <1> SUFFICES ASSUME Init PROVE FitInv
    OBVIOUS
  <1>1. TypeOK
    BY FirstFitAssumption DEF Init, TypeOK
  <1>2. Block(1 - 0, 0) = {}
    BY DEF Block
  <1>3. LoopInv
    BY <1>2, FirstFitAssumption DEF Init, LoopInv, FreeBlock, Pages
  <1> QED
    BY <1>1, <1>3 DEF Init, FitInv, FindsFirstFit

\* A block that ends at vpn and starts at or before the page that breaks the
\* run of free pages contains that page.
LEMMA RunTooShort ==
  ASSUME FitInv, running, vpn < NumVirt, Counted < num_pages,
         NEW v \in Pages, v + num_pages - 1 < vpn + 1
  PROVE  ~FreeBlock(v, num_pages)
  <1> USE FirstFitAssumption DEF FitInv, TypeOK, Pages
  <1>1. CASE v + num_pages - 1 < vpn
    BY <1>1 DEF LoopInv
  <1>2. CASE v + num_pages - 1 = vpn
    <2>1. CASE vpn \in bits
      <3>1. vpn \in Block(v, num_pages) /\ vpn \in old
        BY <1>2, <2>1 DEF Block, LoopInv
      <3> QED
        BY <3>1 DEF FreeBlock
    <2>2. CASE vpn \notin bits /\ vpn - free_pages > 1
      <3>1. vpn - free_pages - 1 \in old
        BY <2>2 DEF LoopInv
      <3>2. free_pages + 1 < num_pages
        BY <2>2 DEF Counted
      <3>3. vpn - free_pages - 1 \in Block(v, num_pages)
        BY <1>2, <3>2 DEF Block
      <3> QED
        BY <3>1, <3>3 DEF FreeBlock
    <2>3. CASE vpn \notin bits /\ ~(vpn - free_pages > 1)
      <3>1. free_pages + 1 < num_pages
        BY <2>3 DEF Counted
      <3>2. v < 1
        BY <1>2, <2>3, <3>1
      <3> QED
        BY <3>2 DEF FreeBlock
    <2> QED
      BY <2>1, <2>2, <2>3
  <1> QED
    BY <1>1, <1>2

\* A turn of the loop, the end of the loop.
LEMMA FitStep == FitInv /\ [Next]_vars => FitInv'
  <1> SUFFICES ASSUME FitInv, [Next]_vars PROVE FitInv'
    OBVIOUS
  <1> USE FirstFitAssumption
  <1>0. /\ vpn \in Nat /\ free_pages \in Nat /\ num_pages \in Nat \ {0}
        /\ NumVirt \in Nat
    BY DEF FitInv, TypeOK
  <1>1. ASSUME Turn, Counted < num_pages PROVE FitInv'
    <2>0. /\ running /\ vpn < NumVirt /\ running' /\ vpn' = vpn + 1
          /\ free_pages' = Counted /\ bits' = bits /\ ret' = ret
          /\ old' = old /\ num_pages' = num_pages
      <3>1. ~(Counted >= num_pages)
        BY <1>0, <1>1 DEF Counted
      <3> QED
        BY <1>1, <3>1, Zenon DEF Turn, start_vpn
    <2>1. /\ bits = old /\ ret = 0 /\ free_pages < num_pages /\ free_pages < vpn
          /\ Block(vpn - free_pages, free_pages) \cap old = {}
          /\ vpn - free_pages > 1 => vpn - free_pages - 1 \in old
      BY <2>0 DEF FitInv, LoopInv
    <2>2. TypeOK'
      BY <1>0, <2>0, <2>1 DEF FitInv, TypeOK, Counted
    <2>3. Block(vpn' - free_pages', free_pages') \cap old = {}
      <3>1. CASE vpn \in bits
        BY <1>0, <2>0, <3>1 DEF Counted, Block
      <3>2. CASE vpn \notin bits
        <4>1. vpn' - free_pages' = vpn - free_pages /\ free_pages' = free_pages + 1
          BY <1>0, <2>0, <3>2 DEF Counted
        <4>2. \A x \in Block(vpn - free_pages, free_pages + 1) :
                 x \in Block(vpn - free_pages, free_pages) \/ x = vpn
          BY <1>0, <2>1 DEF Block
        <4> QED
          BY <2>1, <3>2, <4>1, <4>2
      <3> QED
        BY <3>1, <3>2
    <2>4. vpn' - free_pages' > 1 => vpn' - free_pages' - 1 \in old
      BY <1>0, <2>0, <2>1 DEF Counted
    <2>5. \A v \in Pages : v + num_pages - 1 < vpn' => ~FreeBlock(v, num_pages)
      BY <1>1, <2>0, RunTooShort
    <2>6. LoopInv'
      <3>1. free_pages' < num_pages /\ free_pages' < vpn'
        BY <1>0, <1>1, <2>0, <2>1 DEF Counted
      <3> QED
        BY <2>0, <2>1, <2>3, <2>4, <2>5, <3>1 DEF LoopInv, FreeBlock
    <2> QED
      BY <2>0, <2>2, <2>6 DEF FitInv, FindsFirstFit
  <1>2. ASSUME Turn, Counted >= num_pages PROVE FitInv'
    <2> DEFINE start == vpn - num_pages + 1
    <2>0. /\ running /\ vpn < NumVirt /\ ~running' /\ vpn' = vpn
          /\ free_pages' = Counted /\ old' = old /\ num_pages' = num_pages
          /\ bits' = bits \cup Block(start, num_pages) /\ ret' = start
      <3>1. ~(Counted < num_pages)
        BY <1>0, <1>2 DEF Counted
      <3> QED
        BY <1>2, <3>1, Zenon DEF Turn, start_vpn
    <2>1. /\ bits = old /\ free_pages < num_pages /\ free_pages < vpn
          /\ Block(vpn - free_pages, free_pages) \cap old = {}
      BY <2>0 DEF FitInv, LoopInv
    <2>2. vpn \notin old /\ free_pages + 1 = num_pages
      BY <1>0, <1>2, <2>1 DEF Counted
    <2>3. start = vpn - free_pages /\ start >= 1
      BY <1>0, <2>1, <2>2
    <2>4. \A x \in Block(start, num_pages) :
             x \in Block(vpn - free_pages, free_pages) \/ x = vpn
      BY <1>0, <2>2, <2>3 DEF Block
    <2>5. Block(start, num_pages) \cap old = {}
      BY <2>1, <2>2, <2>4
    <2>6. Block(start, num_pages) \subseteq Pages
      BY <1>0, <2>0, <2>3 DEF Block, Pages
    <2>7. FreeBlock(start, num_pages)
      BY <1>0, <2>0, <2>3, <2>5 DEF FreeBlock
    <2>8. \A v \in Pages : v < start => ~FreeBlock(v, num_pages)
      BY <1>0, <2>0 DEF FitInv, LoopInv, Pages
    <2>9. TypeOK'
      <3>1. free_pages' \in 0 .. NumVirt /\ ret' \in 0 .. NumVirt
        BY <1>0, <2>0, <2>1, <2>3 DEF Counted
      <3>2. bits' \subseteq Pages
        BY <2>0, <2>6 DEF FitInv, TypeOK
      <3>3. running' \in BOOLEAN
        BY <1>2 DEF Turn, start_vpn, FitInv, TypeOK
      <3> QED
        BY <2>0, <3>1, <3>2, <3>3 DEF FitInv, TypeOK
    <2> HIDE DEF start
    <2>10. FindsFirstFit'
      BY <2>0, <2>1, <2>7, <2>8 DEF FindsFirstFit, FreeBlock
    <2> QED
      BY <2>0, <2>9, <2>10 DEF FitInv, LoopInv
  <1>3. CASE NotFound
    <2>1. \A v \in Pages : ~FreeBlock(v, num_pages)
      <3> SUFFICES ASSUME NEW v \in Pages, FreeBlock(v, num_pages) PROVE FALSE
        OBVIOUS
      <3>1. v + num_pages - 1 < vpn
        BY <1>0, <1>3 DEF NotFound, FreeBlock, Pages
      <3> QED
        BY <1>3, <3>1 DEF FitInv, LoopInv, NotFound
    <2> QED
      BY <1>3, <2>1 DEF NotFound, FitInv, TypeOK, LoopInv, FindsFirstFit, FreeBlock
  <1>4. CASE UNCHANGED vars
    BY <1>4 DEF vars, FitInv, TypeOK, LoopInv, FindsFirstFit, FreeBlock
  <1>5. CASE Turn
    BY <1>0, <1>1, <1>2, <1>5 DEF Turn, start_vpn
  <1> QED
    BY <1>3, <1>4, <1>5 DEF Next, Returned

\* For every bitmap, every number of pages and every request, get_next_avail
\* returns the lowest block of free pages that is long enough, marks exactly
\* its pages, and returns NULL only when there is none.
THEOREM SearchIsFirstFit == Spec => []FindsFirstFit
  <1>1. FitInv => FindsFirstFit
    BY DEF FitInv
  <1> QED
    BY <1>1, FitInit, FitStep, PTL DEF Spec

-----------------------------------------------------------------------------
(***************************************************************************)
(* put_data and get_data                                                   *)
(***************************************************************************)
\* Division with remainder.
LEMMA DivMod ==
  ASSUME NEW P \in Nat \ {0}, NEW a \in Nat
  PROVE  /\ a \div P \in Nat /\ a % P \in 0 .. P - 1
         /\ a = P * (a \div P) + (a % P)
  <1>1. a \div P \in Nat
    BY SMT
  <1>2. a % P \in 0 .. P - 1
    BY SMT
  <1>3. PICK q \in Nat, r \in Nat : q = a \div P /\ r = a % P
    BY <1>1, <1>2
  <1>4. a = P * q + r
    BY <1>3, SMT
  <1>5. a = P * (a \div P) + (a % P)
    BY <1>3, <1>4, Zenon
  <1> QED
    BY <1>1, <1>2, <1>5

\* It is unique.
LEMMA DivModUnique ==
  ASSUME NEW P \in Nat \ {0}, NEW q \in Nat, NEW r \in 0 .. P - 1,
         NEW q2 \in Nat, NEW r2 \in 0 .. P - 1, P * q + r = P * q2 + r2
  PROVE  q = q2 /\ r = r2
  <1>1. ASSUME NEW m \in Nat, NEW n \in Nat, m < n PROVE P * n >= P * m + P
    <2>1. n = m + 1 + (n - m - 1) /\ n - m - 1 \in Nat
      BY <1>1
    <2> QED
      BY <1>1, <2>1
  <1>2. q >= q2
    BY <1>1
  <1>3. q2 >= q
    BY <1>1
  <1> QED
    BY <1>2, <1>3

\* Up to the end of a page, PDX and PTX of an address stay and OFF grows.
LEMMA SamePage ==
  ASSUME NEW P \in Nat \ {0}, NEW a \in Nat, NEW k \in Nat, (a % P) + k < P
  PROVE  (a + k) \div P = a \div P /\ (a + k) % P = (a % P) + k
  <1>1. a \div P \in Nat /\ a % P \in 0 .. P - 1 /\ a = P * (a \div P) + (a % P)
    BY DivMod
  <1>2. PICK b \in Nat : b = a + k
    OBVIOUS
  <1>3. b \div P \in Nat /\ b % P \in 0 .. P - 1 /\ b = P * (b \div P) + (b % P)
    BY DivMod
  <1>4. /\ a \div P \in Nat /\ a % P \in 0 .. P - 1 /\ a = P * (a \div P) + (a % P)
        /\ (a + k) \div P \in Nat /\ (a + k) % P \in 0 .. P - 1
        /\ a + k = P * ((a + k) \div P) + ((a + k) % P)
    BY <1>1, <1>2, <1>3, Zenon
  <1>5. PICK q \in Nat, r \in 0 .. P - 1 : q = a \div P /\ r = a % P
    BY <1>4
  <1>6. PICK q2 \in Nat, r2 \in 0 .. P - 1 : q2 = (a + k) \div P /\ r2 = (a + k) % P
    BY <1>4
  <1>7. r + k \in 0 .. P - 1
    BY <1>5
  <1>8. P * q + (r + k) = P * q2 + r2
    BY <1>4, <1>5, <1>6
  <1>9. q = q2 /\ r + k = r2
    BY <1>7, <1>8, DivModUnique
  <1> QED
    BY <1>5, <1>6, <1>9

\* How far the loop has come: it has moved what comes before curr_va, all of it
\* from pages that are mapped, and has stopped for one of two reasons.
CopyTyped ==
  /\ d_va \in Nat /\ d_size \in Nat /\ d_bytes_remaining \in 0 .. d_size
  /\ d_curr_va = d_va + (d_size - d_bytes_remaining)
  /\ d_status \in {"running", "ok", "failed"}
CopyInv ==
  /\ CopyTyped
  /\ d_copied = DC!Wanted(d_curr_va - d_va)
  /\ \A k \in 0 .. (d_curr_va - d_va) - 1 : DC!PageOf(d_va + k) \in d_mapped
  /\ d_status = "ok" => d_bytes_remaining = 0
  /\ d_status = "failed" => d_bytes_remaining > 0 /\ DC!PageOf(d_curr_va) \notin d_mapped

\* A piece is not empty, and ends within its page and within the transfer.
LEMMA PieceFits ==
  ASSUME PageSize \in Nat \ {0}, CopyTyped, d_bytes_remaining > 0
  PROVE  /\ DC!Piece \in 1 .. d_bytes_remaining
         /\ \A k \in 0 .. DC!Piece - 1 : DC!PageOf(d_curr_va + k) = DC!PageOf(d_curr_va)
                                        /\ DC!OFF(d_curr_va + k) = DC!OFF(d_curr_va) + k
  <1>1. d_curr_va \in Nat /\ d_bytes_remaining \in Nat
    BY DEF CopyTyped
  <1>2. DC!OFF(d_curr_va) \in 0 .. PageSize - 1
    BY <1>1, DivMod DEF DC!OFF
  <1>3. DC!Piece \in 1 .. d_bytes_remaining /\ DC!OFF(d_curr_va) + DC!Piece <= PageSize
    BY <1>1, <1>2 DEF DC!Piece
  <1>4. ASSUME NEW k \in 0 .. DC!Piece - 1
        PROVE  /\ DC!PageOf(d_curr_va + k) = DC!PageOf(d_curr_va)
               /\ DC!OFF(d_curr_va + k) = DC!OFF(d_curr_va) + k
    <2>1. k \in Nat /\ DC!OFF(d_curr_va) + k < PageSize
      BY <1>2, <1>3
    <2> QED
      BY <1>1, <2>1, SamePage DEF DC!OFF, DC!PageOf
  <1> QED
    BY <1>3, <1>4

\* One turn of the loop moves the bytes of its piece to where they belong.
LEMMA CopyTurn ==
  ASSUME PageSize \in Nat \ {0}, CopyInv, DC!Copy
  PROVE  CopyInv'
  <1>0. /\ CopyTyped /\ d_copied = DC!Wanted(d_curr_va - d_va) /\ d_bytes_remaining > 0
        /\ d_status = "running" /\ UNCHANGED <<d_va, d_size, d_mapped, d_status>>
        /\ d_va \in Nat /\ d_size \in Nat /\ d_curr_va \in Nat /\ d_bytes_remaining \in 0 .. d_size
        /\ d_curr_va = d_va + (d_size - d_bytes_remaining)
        /\ DC!PageOf(d_curr_va) \in d_mapped
        /\ \A k \in 0 .. (d_curr_va - d_va) - 1 : DC!PageOf(d_va + k) \in d_mapped
    BY DEF CopyInv, CopyTyped, DC!Copy
  <1>1. PICK p \in 1 .. d_bytes_remaining : p = DC!Piece
    BY <1>0, PieceFits
  <1>2. \A k \in 0 .. p - 1 : DC!PageOf(d_curr_va + k) = DC!PageOf(d_curr_va)
                              /\ DC!OFF(d_curr_va + k) = DC!OFF(d_curr_va) + k
    BY <1>0, <1>1, PieceFits
  <1>3. /\ d_curr_va' = d_curr_va + p /\ d_bytes_remaining' = d_bytes_remaining - p
        /\ d_copied' = d_copied \cup
             {<<DC!PageOf(d_curr_va), DC!OFF(d_curr_va) + k, d_curr_va - d_va + k>> : k \in 0 .. p - 1}
    BY <1>1 DEF DC!Copy
  <1>4. CopyTyped'
    BY <1>0, <1>3 DEF CopyTyped
  <1>5. PICK n \in Nat : n = d_curr_va - d_va
    BY <1>0
  <1>6. \A j \in 0 .. (n + p) - 1 : j \in 0 .. n - 1
                                    \/ (j - n \in 0 .. p - 1 /\ d_va + j = d_curr_va + (j - n))
    BY <1>0, <1>5
  <1>7. \A k \in 0 .. p - 1 : n + k \in 0 .. (n + p) - 1 /\ d_va + (n + k) = d_curr_va + k
    BY <1>0, <1>5
  <1>8. d_copied' = DC!Wanted(n + p)
    <2>1. ASSUME NEW y \in d_copied' PROVE y \in DC!Wanted(n + p)
      <3>1. CASE y \in DC!Wanted(n)
        BY <3>1, <1>5 DEF DC!Wanted
      <3>2. CASE \E k \in 0 .. p - 1 : y = <<DC!PageOf(d_curr_va), DC!OFF(d_curr_va) + k, n + k>>
        <4>1. PICK k \in 0 .. p - 1 : y = <<DC!PageOf(d_curr_va), DC!OFF(d_curr_va) + k, n + k>>
          BY <3>2
        <4>2. y = <<DC!PageOf(d_va + (n + k)), DC!OFF(d_va + (n + k)), n + k>>
          BY <4>1, <1>2, <1>7
        <4> QED
          BY <4>2, <1>7 DEF DC!Wanted
      <3> QED
        BY <1>0, <1>3, <1>5, <2>1, <3>1, <3>2
    <2>2. ASSUME NEW y \in DC!Wanted(n + p) PROVE y \in d_copied'
      <3>1. PICK j \in 0 .. (n + p) - 1 : y = <<DC!PageOf(d_va + j), DC!OFF(d_va + j), j>>
        BY <2>2 DEF DC!Wanted
      <3>2. CASE j \in 0 .. n - 1
        BY <1>0, <1>3, <1>5, <3>1, <3>2 DEF DC!Wanted
      <3>3. CASE j - n \in 0 .. p - 1 /\ d_va + j = d_curr_va + (j - n)
        <4>1. PICK k \in 0 .. p - 1 : k = j - n
          BY <3>3
        <4>2. d_va + j = d_curr_va + k /\ j = n + k
          BY <3>3, <4>1, <1>5
        <4>3. y = <<DC!PageOf(d_curr_va), DC!OFF(d_curr_va) + k, n + k>>
          BY <3>1, <4>2, <1>2
        <4> QED
          BY <1>3, <1>5, <4>3
      <3> QED
        BY <1>6, <3>2, <3>3
    <2> QED
      BY <2>1, <2>2
  <1>9. (d_curr_va' - d_va') = n + p /\ (DC!Wanted(d_curr_va - d_va))' = DC!Wanted(n + p)
    <2>1. d_curr_va' - d_va' = n + p
      BY <1>0, <1>3, <1>5
    <2>2. (DC!Wanted(d_curr_va - d_va))' = {<<DC!PageOf(d_va' + k), DC!OFF(d_va' + k), k>> :
                                              k \in 0 .. (d_curr_va' - d_va') - 1}
      BY DEF DC!Wanted, DC!PageOf, DC!OFF
    <2> QED
      BY <1>0, <2>1, <2>2 DEF DC!Wanted
  <1>10. \A j \in 0 .. (n + p) - 1 : DC!PageOf(d_va + j) \in d_mapped
    <2> SUFFICES ASSUME NEW j \in 0 .. (n + p) - 1 PROVE DC!PageOf(d_va + j) \in d_mapped
      OBVIOUS
    <2>1. CASE j \in 0 .. n - 1
      BY <1>0, <1>5, <2>1
    <2>2. CASE j - n \in 0 .. p - 1 /\ d_va + j = d_curr_va + (j - n)
      BY <1>0, <1>2, <2>2
    <2> QED
      BY <1>6, <2>1, <2>2
  <1>11. (\A k \in 0 .. (d_curr_va - d_va) - 1 : DC!PageOf(d_va + k) \in d_mapped)'
    BY <1>0, <1>9, <1>10 DEF DC!PageOf
  <1> QED
    BY <1>0, <1>4, <1>8, <1>9, <1>11 DEF CopyInv

\* Every step keeps the invariant.
LEMMA CopyStep ==
  ASSUME PageSize \in Nat \ {0}
  PROVE  CopyInv /\ [DC!Next]_DC!vars => CopyInv'
  <1> SUFFICES ASSUME CopyInv, [DC!Next]_DC!vars PROVE CopyInv'
    OBVIOUS
  <1>1. CASE DC!Copy
    BY <1>1, CopyTurn
  <1>2. CASE DC!TranslateFails
    BY <1>2 DEF DC!TranslateFails, CopyInv, CopyTyped, DC!Wanted, DC!PageOf, DC!OFF
  <1>3. CASE DC!Finish
    BY <1>3 DEF DC!Finish, CopyInv, CopyTyped, DC!Wanted, DC!PageOf, DC!OFF
  <1>4. CASE UNCHANGED DC!vars
    BY <1>4 DEF DC!vars, CopyInv, CopyTyped, DC!Wanted, DC!PageOf, DC!OFF
  <1> QED
    BY <1>1, <1>2, <1>3, <1>4 DEF DC!Next, DC!Returned

\* put_data and get_data move every byte between its own place in its own page
\* and its own place in the buffer, and exactly the bytes before the first page
\* translate() refuses when they fail, for pages and transfers of any d_size.
THEOREM EveryByteInPlace ==
  ASSUME PageSize \in Nat \ {0}, NumPages \in Nat, MaxSize \in Nat
  PROVE  DC!Spec => []CopiesExactly
  <1>1. DC!Init => CopyInv
    <2> SUFFICES ASSUME DC!Init PROVE CopyInv
      OBVIOUS
    <2>1. d_va \in Nat /\ d_size \in Nat /\ d_bytes_remaining = d_size /\ d_curr_va = d_va
      BY DEF DC!Init
    <2>2. d_curr_va - d_va = 0
      BY <2>1
    <2>3. DC!Wanted(d_curr_va - d_va) = {}
      BY <2>2 DEF DC!Wanted
    <2> QED
      BY <2>1, <2>2, <2>3 DEF DC!Init, CopyInv, CopyTyped
  <1>2. CopyInv => CopiesExactly
    <2> SUFFICES ASSUME CopyInv PROVE CopiesExactly
      OBVIOUS
    <2>1. d_bytes_remaining = 0 => d_curr_va - d_va = d_size
      BY DEF CopyInv, CopyTyped
    <2>2. d_bytes_remaining > 0 => d_curr_va < d_va + d_size
      BY DEF CopyInv, CopyTyped
    <2>3. \A k \in 0 .. d_size - 1 : DC!PageOf(d_va + k) \notin d_mapped => k >= d_curr_va - d_va
      BY DEF CopyInv, CopyTyped
    <2> QED
      BY <2>1, <2>2, <2>3 DEF CopyInv, CopiesExactly, DC!CopiesExactly
  <1> QED
    BY <1>1, <1>2, CopyStep, PTL DEF DC!Spec

-----------------------------------------------------------------------------
(***************************************************************************)
(* set_physical_mem                                                        *)
(***************************************************************************)
\* Physical memory is published by the one caller that has entered the setup,
\* before it releases setup_lock.
SetupInv ==
  /\ s_pc \in [Callers -> {"start", "lock", "publish", "size", "calloc", "dirframe", "zero",
                           "avail", "frame", "map", "done", "failed", "segv"}]
  /\ s_phys_mem \in BOOLEAN
  /\ s_setups = 0 => ~s_phys_mem /\ s_setup_lock = NULL
  /\ s_setups = 0 => \A t \in Callers : s_pc[t] # "publish"
  /\ s_setups \in {0, 1}
  /\ ~s_phys_mem /\ s_setups = 1 => s_setup_lock \in Callers /\ s_pc[s_setup_lock] = "publish"
  /\ \A t \in Callers : s_pc[t] \in {"publish", "size", "calloc", "dirframe", "zero"} =>
       s_setup_lock = t

\* However many first calls of n_malloc race, the second test of phys_mem under
\* setup_lock lets one of them set physical memory up.
THEOREM SetUpOnce ==
  ASSUME NULL \notin Callers
  PROVE  VS!Spec => []SetupOnce
  <1>1. VS!Init => SetupInv
    <2> SUFFICES ASSUME VS!Init PROVE SetupInv
      OBVIOUS
    <2>1. s_phys_mem \in BOOLEAN /\ ~s_phys_mem
      BY Zenon DEF VS!Init
    <2> QED
      BY <2>1 DEF VS!Init, SetupInv
  <1>2. SetupInv /\ [VS!Next]_VS!vars => SetupInv'
    <2> SUFFICES ASSUME SetupInv, [VS!Next]_VS!vars PROVE SetupInv'
      OBVIOUS
    <2>1. CASE UNCHANGED VS!vars
      BY <2>1 DEF VS!vars, SetupInv
    <2>2. ASSUME NEW t \in Callers, VS!Step(t) PROVE SetupInv'
      <3>1. CASE VS!Test(t)
        BY <3>1 DEF VS!Test, VS!Goto, SetupInv
      <3>2. CASE VS!Lock(t)
        BY <3>2 DEF VS!Lock, VS!Unset, VS!Goto, SetupInv
      <3>3. CASE VS!Publish(t)
        BY <3>3 DEF VS!Publish, VS!Goto, SetupInv
      <3>4. CASE VS!Size(t) \/ VS!Calloc(t) \/ VS!DirFrame(t)
        BY <3>4 DEF VS!Size, VS!Calloc, VS!DirFrame, VS!Goto, SetupInv
      <3>5. CASE VS!Zero(t)
        BY <3>5 DEF VS!Zero, VS!Goto, SetupInv
      <3>6. CASE VS!Avail(t) \/ VS!AllocFrame(t) \/ VS!Map(t)
        BY <3>6 DEF VS!Avail, VS!AllocFrame, VS!Map, VS!Goto, SetupInv
      <3> QED
        BY <2>2, <3>1, <3>2, <3>3, <3>4, <3>5, <3>6 DEF VS!Step
    <2> QED
      BY <2>1, <2>2 DEF VS!Next
  <1>3. SetupInv => SetupOnce
    BY DEF SetupInv, SetupOnce, VS!SetupOnce
  <1> QED
    BY <1>1, <1>2, <1>3, PTL DEF VS!Spec

-----------------------------------------------------------------------------
(***************************************************************************)
(* threads.c                                                               *)
(***************************************************************************)
\* Turns that are in x already though the loop has not counted them.
Extra(t) == IF c_pc[t] = "unlock" THEN 1 ELSE 0

\* x counts the turns of the two threads; the one inside the mutex has loaded
\* the current value.
CounterInv ==
  /\ c_pc \in [1 .. 2 -> {"none", "loop", "load", "store", "unlock", "done"}]
  /\ c_i \in [1 .. 2 -> Nat] /\ c_loaded \in [1 .. 2 -> Int]
  /\ c_created \in 0 .. 2 /\ c_joined \in 0 .. 2
  /\ c_x = c_i[1] + c_i[2] + Extra(1) + Extra(2)
  /\ \A t \in 1 .. 2 :
       /\ c_pc[t] \in {"load", "store", "unlock"} => c_mutex = t /\ c_i[t] < Loop
       /\ c_pc[t] = "store" => c_loaded[t] = c_x
       /\ c_i[t] <= Loop
       /\ c_pc[t] = "none" <=> t > c_created
       /\ c_pc[t] = "done" => c_i[t] = Loop
       /\ t <= c_joined => c_pc[t] = "done"

\* The two threads of threads.c lose no addition, for any number of turns.
THEOREM NoTurnLost ==
  ASSUME Loop \in Nat, NULL \notin 1 .. 2
  PROVE  CT!Spec => []CountsEveryTurn
  <1>0. CT!Adders = 1 .. 2 /\ 1 \in 1 .. 2 /\ 2 \in 1 .. 2
    BY DEF CT!Adders
  <1>1. CT!Init => CounterInv
    BY <1>0 DEF CT!Init, CounterInv, Extra
  <1>2. CounterInv /\ [CT!Next]_CT!vars => CounterInv'
    <2> SUFFICES ASSUME CounterInv, [CT!Next]_CT!vars PROVE CounterInv'
      OBVIOUS
    <2>1. CASE UNCHANGED CT!vars
      BY <2>1 DEF CT!vars, CounterInv, Extra
    <2>2. CASE CT!Create
      BY <2>2 DEF CT!Create, CT!Goto, CounterInv, Extra
    <2>3. CASE CT!Join
      BY <2>3 DEF CT!Join, CounterInv, Extra
    <2>4. ASSUME NEW t \in 1 .. 2, CT!Lock(t) PROVE CounterInv'
      BY <2>4 DEF CT!Lock, CT!Free, CT!Goto, CounterInv, Extra
    <2>5. ASSUME NEW t \in 1 .. 2, CT!Load(t) PROVE CounterInv'
      BY <2>5 DEF CT!Load, CT!Goto, CounterInv, Extra
    <2>6. ASSUME NEW t \in 1 .. 2, CT!Store(t) PROVE CounterInv'
      BY <2>6 DEF CT!Store, CT!Goto, CounterInv, Extra
    <2>7. ASSUME NEW t \in 1 .. 2, CT!Unlock(t) PROVE CounterInv'
      BY <2>7 DEF CT!Unlock, CT!Goto, CounterInv, Extra
    <2> QED
      BY <1>0, <2>1, <2>2, <2>3, <2>4, <2>5, <2>6, <2>7 DEF CT!Next, CT!Returned
  <1>3. CounterInv => CountsEveryTurn
    BY <1>0 DEF CounterInv, CountsEveryTurn, CT!CountsEveryTurn, CT!Printed, Extra
  <1> QED
    BY <1>1, <1>2, <1>3, PTL DEF CT!Spec

-----------------------------------------------------------------------------
(***************************************************************************)
(* ucontext.c                                                              *)
(***************************************************************************)
\* The flag is set exactly from the first return of getcontext on, and the
\* worker has run when main is there a second time.
ContextInv ==
  /\ u_pc \in {"getcontext", "test", "init", "setcontext", "worker", "ended", "failed"}
  /\ u_pc = "getcontext" => ~u_resumed_to_main /\ u_runs = 0
  /\ u_pc = "test" => IF u_resumed_to_main THEN u_runs = 1 ELSE u_runs = 0
  /\ u_pc \in {"init", "setcontext", "worker"} => u_resumed_to_main /\ u_runs = 0
  /\ u_runs \in {0, 1} /\ u_resumed_to_main \in BOOLEAN
  /\ u_pc \in {"setcontext", "worker"} => u_stack = "live"
  /\ u_stack = "freed" <=> u_pc = "ended"
  /\ u_pc = "ended" => u_runs = 1

\* The flag tells the second return of getcontext from the first: the worker
\* runs at most once, on a live stack, which is freed when main ends well.
THEOREM WorkerRunsOnce == CX!Spec => []RunsOnceOnItsStack
  <1>1. CX!Init => ContextInv
    BY DEF CX!Init, ContextInv
  <1>2. ContextInv /\ [CX!Next]_CX!vars => ContextInv'
    <2> SUFFICES ASSUME ContextInv, [CX!Next]_CX!vars PROVE ContextInv'
      OBVIOUS
    <2>1. CASE CX!GetContext
      BY <2>1 DEF CX!GetContext, ContextInv
    <2>2. CASE CX!Test
      BY <2>2 DEF CX!Test, CX!Resumed, ContextInv
    <2>3. CASE CX!init_context
      BY <2>3 DEF CX!init_context, ContextInv
    <2>4. CASE CX!SetContext
      BY <2>4 DEF CX!SetContext, ContextInv
    <2>5. CASE CX!worker1
      BY <2>5 DEF CX!worker1, ContextInv
    <2>6. CASE UNCHANGED CX!vars
      BY <2>6 DEF CX!vars, ContextInv
    <2> QED
      BY <2>1, <2>2, <2>3, <2>4, <2>5, <2>6 DEF CX!Next, CX!Ended
  <1>3. ContextInv => RunsOnceOnItsStack
    BY DEF ContextInv, RunsOnceOnItsStack, CX!RunsOnceOnItsStack
  <1> QED
    BY <1>1, <1>2, <1>3, PTL DEF CX!Spec

-----------------------------------------------------------------------------
(***************************************************************************)
(* Least numbers                                                           *)
(***************************************************************************)
\* A set of numbers that is not empty has a least one.
LEMMA LeastNumber ==
  ASSUME NEW S, S \subseteq Nat, S # {}
  PROVE  \E m \in S : \A x \in S : m <= x
  <1> DEFINE R == OpToRel(<, Nat)
  <1>1. IsWellFoundedOn(R, Nat)
    BY NatLessThanWellFounded
  <1>2. \A m, n \in Nat : <<m, n>> \in R <=> m < n
    BY DEF OpToRel
  <1> HIDE DEF R
  <1>3. PICK m \in S : \A x \in S : ~(<<x, m>> \in R)
    BY <1>1, WFMin
  <1>4. ASSUME NEW x \in S PROVE m <= x
    <2>1. m \in Nat /\ x \in Nat /\ ~(<<x, m>> \in R)
      BY <1>3
    <2>2. ~(x < m)
      BY <1>2, <2>1
    <2> QED
      BY <2>1, <2>2
  <1> QED
    BY <1>4

-----------------------------------------------------------------------------
(***************************************************************************)
(* The heap of the PSJF and CFS schedulers                                 *)
(***************************************************************************)
\* What the model assumes of the threads: their ids are ints, and there are
\* no more of them than the array has slots.
HeapAssumed ==
  /\ INT_MAX \in Nat /\ MAX_THREADS \in Nat /\ HeapValues \subseteq Int
  /\ HeapIds \subseteq 0 .. INT_MAX
  /\ IsFiniteSet(HeapIds) /\ Cardinality(HeapIds) <= MAX_THREADS

HeapTyped ==
  /\ h_size \in 0 .. MAX_THREADS /\ h_i \in Nat /\ h_wide \in BOOLEAN
  /\ h_pc \in {"idle", "up", "down"}
  /\ h_val \in [HeapIds -> Int] /\ h_held \subseteq HeapIds
  /\ DOMAIN h_threads = HP!Slots

\* The array has every thread in the heap once.
HeapHolds ==
  /\ \A k \in 0 .. h_size - 1 : h_threads[k] \in h_held
  /\ \A j, k \in 0 .. h_size - 1 : h_threads[j] = h_threads[k] => j = k
  /\ \A t \in h_held : \E k \in 0 .. h_size - 1 : h_threads[k] = t

\* The values are close enough for an int to hold their differences.
HeapNear == \A t, u \in h_held : h_val[t] - h_val[u] <= INT_MAX

\* The thread at j comes before the one at k.
InOrder(j, k) == HP!Precedes(h_threads[j], h_threads[k])

\* A parent comes before its children, but for the place the loop is at: there
\* the order holds between its parent and its children.
HeapOrder ==
  /\ \A k \in 1 .. h_size - 1 :
       \/ h_pc = "up" /\ k = h_i
       \/ h_pc = "down" /\ HP!Parent(k) = h_i
       \/ InOrder(HP!Parent(k), k)
  /\ h_pc # "idle" /\ h_i > 0 =>
       \A k \in 1 .. h_size - 1 : HP!Parent(k) = h_i => InOrder(HP!Parent(HP!Parent(k)), k)

\* Where the loop is.
HeapPlace ==
  /\ h_pc = "up" => h_i < h_size
  /\ h_pc = "down" => h_i = 0 \/ h_i < h_size

HeapInv ==
  /\ HeapTyped /\ HeapHolds /\ HeapPlace
  /\ ~h_wide => HeapNear /\ HeapOrder

\* What a conversion to int leaves as it is.
LEMMA ToIntExact ==
  ASSUME INT_MAX \in Nat, NEW d \in Int, d >= 0 - INT_MAX, d <= INT_MAX
  PROVE  HP!ToInt(d) = d
  <1>1. PICK n \in Nat, x \in Nat : n = 2 * INT_MAX + 2 /\ x = d + INT_MAX + 1 /\ x < n /\ n > 0
    OBVIOUS
  <1>2. x % n = x
    <2>1. x \div n \in Nat /\ x % n \in 0 .. n - 1 /\ x = n * (x \div n) + (x % n)
      BY <1>1, DivMod
    <2>2. PICK q \in Nat, r \in 0 .. n - 1 : q = x \div n /\ r = x % n
      BY <2>1
    <2>3. n * q + r = n * 0 + x
      BY <2>1, <2>2
    <2>4. x \in 0 .. n - 1
      BY <1>1
    <2>5. r = x
      BY <1>1, <2>3, <2>4, DivModUnique
    <2> QED
      BY <2>2, <2>5
  <1>3. HP!ToInt(d) = (x % n) - INT_MAX - 1
    BY <1>1, Zenon DEF HP!ToInt
  <1> QED
    BY <1>1, <1>2, <1>3

\* psjf_cmp and cfs_cmp say which of two threads comes first.
LEMMA CmpIsOrder ==
  ASSUME HeapAssumed, HeapTyped, HeapNear, NEW a \in h_held, NEW b \in h_held
  PROVE  /\ HP!cmp(a, b) < 0 => HP!Precedes(a, b)
         /\ ~(HP!cmp(a, b) < 0) => HP!Precedes(b, a)
  <1>1. /\ a \in 0 .. INT_MAX /\ b \in 0 .. INT_MAX /\ INT_MAX \in Nat
        /\ h_val[a] \in Int /\ h_val[b] \in Int
        /\ h_val[a] - h_val[b] <= INT_MAX /\ h_val[b] - h_val[a] <= INT_MAX
    BY DEF HeapAssumed, HeapTyped, HeapNear
  <1>2. CASE h_val[a] # h_val[b]
    <2>1. HP!ToInt(h_val[a] - h_val[b]) = h_val[a] - h_val[b]
      BY <1>1, ToIntExact
    <2>2. HP!cmp(a, b) = h_val[a] - h_val[b]
      BY <1>2, <2>1 DEF HP!cmp
    <2> QED
      BY <1>1, <1>2, <2>2 DEF HP!Precedes
  <1>3. CASE h_val[a] = h_val[b]
    <2>1. HP!ToInt(a - b) = a - b
      BY <1>1, ToIntExact
    <2>2. HP!cmp(a, b) = a - b
      BY <1>3, <2>1 DEF HP!cmp
    <2> QED
      BY <1>1, <1>3, <2>2 DEF HP!Precedes
  <1> QED
    BY <1>2, <1>3

\* The order is total and transitive.
LEMMA PrecedesOrder ==
  ASSUME HeapAssumed, HeapTyped,
         NEW a \in h_held, NEW b \in h_held, NEW c \in h_held
  PROVE  /\ HP!Precedes(a, a)
         /\ HP!Precedes(a, b) /\ HP!Precedes(b, c) => HP!Precedes(a, c)
  <1>1. /\ a \in Int /\ b \in Int /\ c \in Int
        /\ h_val[a] \in Int /\ h_val[b] \in Int /\ h_val[c] \in Int
    BY DEF HeapAssumed, HeapTyped
  <1> QED
    BY <1>1 DEF HP!Precedes

\* A parent stands before its children, which are two.
LEMMA ParentBefore ==
  ASSUME NEW k \in Nat, k > 0
  PROVE  /\ HP!Parent(k) \in Nat /\ HP!Parent(k) < k
         /\ k = 2 * HP!Parent(k) + 1 \/ k = 2 * HP!Parent(k) + 2
  BY DEF HP!Parent

\* And of two children each has that parent.
LEMMA ChildrenOf ==
  ASSUME NEW j \in Nat
  PROVE  HP!Parent(2 * j + 1) = j /\ HP!Parent(2 * j + 2) = j
  BY DEF HP!Parent

\* Two slots of the array are exchanged.
LEMMA HeapSwap ==
  ASSUME HeapAssumed, HeapTyped, HeapHolds, NEW p \in 0 .. h_size - 1, NEW q \in 0 .. h_size - 1, p # q,
         h_threads' = HP!Swapped(h_threads, p, q), UNCHANGED <<h_size, h_held>>
  PROVE  /\ HeapHolds' /\ DOMAIN h_threads' = HP!Slots
         /\ h_threads'[p] = h_threads[q] /\ h_threads'[q] = h_threads[p]
         /\ \A k \in 0 .. h_size - 1 : k # p /\ k # q => h_threads'[k] = h_threads[k]
  <1>1. 0 .. h_size - 1 \subseteq HP!Slots /\ DOMAIN h_threads = HP!Slots
    BY DEF HeapTyped, HeapAssumed, HP!Slots
  <1>2. /\ DOMAIN h_threads' = HP!Slots
        /\ h_threads'[p] = h_threads[q] /\ h_threads'[q] = h_threads[p]
        /\ \A k \in 0 .. h_size - 1 : k # p /\ k # q => h_threads'[k] = h_threads[k]
    BY <1>1 DEF HP!Swapped
  <1>3. \A k \in 0 .. h_size - 1 : \E j \in 0 .. h_size - 1 :
          h_threads'[j] = h_threads[k] /\ (k = p => j = q) /\ (k = q => j = p) /\ (k # p /\ k # q => j = k)
    BY <1>2
  <1>4. \A k \in 0 .. h_size - 1 : h_threads'[k] \in h_held
    BY <1>2 DEF HeapHolds
  <1>5. \A j, k \in 0 .. h_size - 1 : h_threads'[j] = h_threads'[k] => j = k
    <2> SUFFICES ASSUME NEW j \in 0 .. h_size - 1, NEW k \in 0 .. h_size - 1,
                        h_threads'[j] = h_threads'[k], j # k
                 PROVE  FALSE
      OBVIOUS
    <2>1. \A m, n \in 0 .. h_size - 1 : h_threads[m] = h_threads[n] => m = n
      BY DEF HeapHolds
    <2>2. CASE j = p
      BY <1>2, <2>1, <2>2
    <2>3. CASE j = q
      BY <1>2, <2>1, <2>3
    <2>4. CASE j # p /\ j # q
      BY <1>2, <2>1, <2>4
    <2> QED
      BY <2>2, <2>3, <2>4
  <1>6. \A t \in h_held : \E k \in 0 .. h_size - 1 : h_threads'[k] = t
    BY <1>3 DEF HeapHolds
  <1> QED
    BY <1>2, <1>4, <1>5, <1>6 DEF HeapHolds

\* Between two slots of the heap whose threads stay, the order stays.
LEMMA InOrderStays ==
  ASSUME UNCHANGED h_val, NEW j, NEW k, NEW m, NEW n,
         h_threads'[j] = h_threads[m], h_threads'[k] = h_threads[n], InOrder(m, n)
  PROVE  InOrder(j, k)'
  BY DEF InOrder, HP!Precedes

\* The slots in use hold threads of the heap, which the order relates.
LEMMA SlotOrder ==
  ASSUME HeapAssumed, HeapTyped, HeapHolds,
         NEW j \in 0 .. h_size - 1, NEW k \in 0 .. h_size - 1, NEW m \in 0 .. h_size - 1
  PROVE  /\ InOrder(j, j)
         /\ InOrder(j, k) /\ InOrder(k, m) => InOrder(j, m)
         /\ HeapNear => /\ HP!Less(j, k) => InOrder(j, k)
                        /\ ~HP!Less(j, k) => InOrder(k, j)
  <1>1. h_threads[j] \in h_held /\ h_threads[k] \in h_held /\ h_threads[m] \in h_held
    BY DEF HeapHolds
  <1>2. /\ HP!Precedes(h_threads[j], h_threads[j])
        /\ HP!Precedes(h_threads[j], h_threads[k]) /\ HP!Precedes(h_threads[k], h_threads[m])
             => HP!Precedes(h_threads[j], h_threads[m])
    BY <1>1, PrecedesOrder
  <1>3. HeapNear => /\ HP!cmp(h_threads[j], h_threads[k]) < 0
                         => HP!Precedes(h_threads[j], h_threads[k])
                    /\ ~(HP!cmp(h_threads[j], h_threads[k]) < 0)
                         => HP!Precedes(h_threads[k], h_threads[j])
    BY <1>1, CmpIsOrder
  <1> QED
    BY <1>2, <1>3 DEF InOrder, HP!Less

\* heap_push and its loop.
LEMMA HeapUp ==
  ASSUME HeapAssumed, HeapInv, HP!SiftUp
  PROVE  HeapInv'
  <1>1. /\ h_pc = "up" /\ h_i \in Nat /\ h_i < h_size /\ h_size \in Nat
        /\ UNCHANGED <<h_size, h_val, h_min, h_held, h_wide>>
        /\ HeapTyped /\ HeapHolds
    BY DEF HP!SiftUp, HeapInv, HeapPlace, HeapTyped
  <1>2. CASE h_i > 0 /\ HP!Less(h_i, HP!Parent(h_i)) /\ h_i' = HP!Parent(h_i) /\ UNCHANGED h_pc
             /\ h_threads' = HP!Swapped(h_threads, h_i, HP!Parent(h_i))
    <2> DEFINE p == HP!Parent(h_i)
    <2>1. p \in 0 .. h_size - 1 /\ h_i \in 0 .. h_size - 1 /\ p # h_i /\ p < h_i
      BY <1>1, <1>2, ParentBefore
    <2>2. /\ HeapHolds' /\ DOMAIN h_threads' = HP!Slots
          /\ h_threads'[h_i] = h_threads[p] /\ h_threads'[p] = h_threads[h_i]
          /\ \A k \in 0 .. h_size - 1 : k # h_i /\ k # p => h_threads'[k] = h_threads[k]
      BY <1>1, <1>2, <2>1, HeapSwap
    <2>3. HeapTyped' /\ HeapPlace'
      BY <1>1, <1>2, <2>1, <2>2 DEF HeapTyped, HeapPlace
    <2>4. ASSUME ~h_wide' PROVE HeapNear' /\ HeapOrder'
      <3>1. HeapNear /\ HeapOrder /\ ~h_wide
        BY <1>1, <2>4 DEF HeapInv
      <3>2. InOrder(h_i, p)
        BY <1>1, <1>2, <2>1, <3>1, SlotOrder
      <3>3. HeapNear'
        BY <1>1, <3>1 DEF HeapNear
      <3>4. ASSUME NEW k \in 1 .. h_size - 1, k # p PROVE InOrder(HP!Parent(k), k)'
        <4>0. HP!Parent(k) \in 0 .. h_size - 1 /\ k \in 0 .. h_size - 1 /\ HP!Parent(k) < k
          BY <1>1, ParentBefore
        <4>1. CASE k = h_i
          BY <1>1, <2>2, <3>2, <4>1, InOrderStays
        <4>2. CASE k # h_i /\ HP!Parent(k) = h_i
          <5>1. InOrder(HP!Parent(HP!Parent(k)), k)
            BY <1>1, <1>2, <3>1, <4>2 DEF HeapOrder
          <5> QED
            BY <1>1, <2>2, <3>4, <4>0, <4>2, <5>1, InOrderStays
        <4>3. CASE k # h_i /\ HP!Parent(k) = p
          <5>1. InOrder(p, k)
            BY <1>1, <3>1, <4>3 DEF HeapOrder
          <5>2. InOrder(h_i, k)
            BY <1>1, <2>1, <3>2, <4>0, <5>1, SlotOrder
          <5> QED
            BY <1>1, <2>2, <3>4, <4>0, <4>3, <5>2, InOrderStays
        <4>4. CASE k # h_i /\ HP!Parent(k) # h_i /\ HP!Parent(k) # p
          <5>1. InOrder(HP!Parent(k), k)
            BY <1>1, <3>1, <4>4 DEF HeapOrder
          <5> QED
            BY <1>1, <2>2, <3>4, <4>0, <4>4, <5>1, InOrderStays
        <4> QED
          BY <4>1, <4>2, <4>3, <4>4
      <3>5. ASSUME p > 0, NEW k \in 1 .. h_size - 1, HP!Parent(k) = p
            PROVE  InOrder(HP!Parent(HP!Parent(k)), k)'
        <4>0. /\ HP!Parent(p) \in 0 .. h_size - 1 /\ HP!Parent(p) < p
              /\ k \in 0 .. h_size - 1 /\ p < k
          BY <1>1, <2>1, <3>5, ParentBefore
        <4>1. InOrder(HP!Parent(p), p)
          BY <1>1, <2>1, <3>1, <3>5 DEF HeapOrder
        <4>2. CASE k = h_i
          BY <1>1, <2>1, <2>2, <4>0, <4>1, <4>2, InOrderStays
        <4>3. CASE k # h_i
          <5>1. InOrder(p, k)
            BY <1>1, <3>1, <3>5, <4>3 DEF HeapOrder
          <5>2. InOrder(HP!Parent(p), k)
            BY <1>1, <2>1, <4>0, <4>1, <5>1, SlotOrder
          <5> QED
            BY <1>1, <2>1, <2>2, <3>5, <4>0, <4>3, <5>2, InOrderStays
        <4> QED
          BY <4>2, <4>3
      <3>6. HeapOrder'
        <4>1. ASSUME NEW k \in 1 .. h_size' - 1, ~(k = h_i') PROVE InOrder(HP!Parent(k), k)'
          BY <1>1, <1>2, <3>4, <4>1
        <4>2. ASSUME h_i' > 0, NEW k \in 1 .. h_size' - 1, HP!Parent(k) = h_i'
              PROVE  InOrder(HP!Parent(HP!Parent(k)), k)'
          BY <1>1, <1>2, <3>5, <4>2
        <4> QED
          BY <1>1, <1>2, <4>1, <4>2 DEF HeapOrder, HP!Parent
      <3> QED
        BY <3>3, <3>6
    <2> QED
      BY <2>2, <2>3, <2>4 DEF HeapInv
  <1>3. CASE ~(h_i > 0 /\ HP!Less(h_i, HP!Parent(h_i))) /\ h_pc' = "idle" /\ h_i' = 0
             /\ UNCHANGED h_threads
    <2>1. HeapTyped' /\ HeapHolds' /\ HeapPlace'
      BY <1>1, <1>3 DEF HeapTyped, HeapHolds, HeapPlace
    <2>2. ASSUME ~h_wide' PROVE HeapNear' /\ HeapOrder'
      <3>1. HeapNear /\ HeapOrder /\ ~h_wide
        BY <1>1, <2>2 DEF HeapInv
      <3>2. HeapNear'
        BY <1>1, <3>1 DEF HeapNear
      <3>3. ASSUME NEW k \in 1 .. h_size - 1 PROVE InOrder(HP!Parent(k), k)
        <4>0. HP!Parent(k) \in 0 .. h_size - 1 /\ k \in 0 .. h_size - 1
          BY <1>1, ParentBefore
        <4>1. CASE k = h_i
          BY <1>1, <1>3, <3>1, <4>0, <4>1, SlotOrder
        <4>2. CASE k # h_i
          BY <1>1, <3>1, <4>2 DEF HeapOrder
        <4> QED
          BY <4>1, <4>2
      <3>4. HeapOrder'
        BY <1>1, <1>3, <3>3 DEF HeapOrder, InOrder, HP!Precedes, HP!Parent
      <3> QED
        BY <3>2, <3>4
    <2> QED
      BY <2>1, <2>2 DEF HeapInv
  <1> QED
    BY <1>2, <1>3 DEF HP!SiftUp

\* What the loop of heap_pop goes on with: a child that comes before the other
\* and before the parent, or the parent, which comes before both.
LEMMA SmallestChild ==
  ASSUME HeapAssumed, HeapTyped, HeapHolds, HeapNear, h_i < h_size, NEW s, s = HP!Smallest
  PROVE  /\ s \in 0 .. h_size - 1
         /\ s # h_i => s > h_i /\ HP!Parent(s) = h_i
         /\ \A k \in 1 .. h_size - 1 : HP!Parent(k) = h_i => InOrder(s, k)
         /\ InOrder(s, h_i)
  <1> DEFINE l == 2 * h_i + 1
             r == 2 * h_i + 2
             m == IF l < h_size /\ HP!Less(l, h_i) THEN l ELSE h_i
  <1>1. s = IF r < h_size /\ HP!Less(r, m) THEN r ELSE m
    BY DEF HP!Smallest
  <1>2. h_i \in Nat /\ h_size \in Nat /\ HP!Parent(l) = h_i /\ HP!Parent(r) = h_i
    BY ChildrenOf DEF HeapTyped
  <1>3. \A k \in 1 .. h_size - 1 : HP!Parent(k) = h_i => k = l \/ k = r
    BY ParentBefore, <1>2
  <1>4. /\ m \in 0 .. h_size - 1 /\ h_i \in 0 .. h_size - 1
        /\ InOrder(m, h_i) /\ (l < h_size => InOrder(m, l))
    <2>1. h_i \in 0 .. h_size - 1 /\ (l < h_size => l \in 0 .. h_size - 1)
      BY <1>2
    <2>2. InOrder(h_i, h_i)
      BY <2>1, SlotOrder
    <2>3. l < h_size => InOrder(l, l) /\ (HP!Less(l, h_i) => InOrder(l, h_i)) /\ (~HP!Less(l, h_i) => InOrder(h_i, l))
      BY <2>1, SlotOrder
    <2> QED
      BY <2>1, <2>2, <2>3
  <1>5. m = h_i \/ m = l
    OBVIOUS
  <1> HIDE DEF m
  <1>6. CASE r < h_size /\ HP!Less(r, m)
    <2>1. r \in 0 .. h_size - 1 /\ l < h_size /\ r > h_i /\ s = r
      BY <1>1, <1>2, <1>6
    <2> HIDE DEF r, l
    <2>2. InOrder(r, m)
      BY <1>4, <1>6, <2>1, SlotOrder
    <2>3. l \in 0 .. h_size - 1
      BY <1>2, <2>1 DEF l
    <2>4. InOrder(r, h_i) /\ InOrder(r, l) /\ InOrder(r, r)
      BY <1>4, <2>1, <2>2, <2>3, SlotOrder
    <2> QED
      BY <1>2, <1>3, <2>1, <2>4
  <1>7. CASE ~(r < h_size /\ HP!Less(r, m))
    <2>1. s = m
      BY <1>1, <1>7
    <2>2. r < h_size => InOrder(m, r)
      BY <1>2, <1>4, <1>7, SlotOrder
    <2>3. m # h_i => m > h_i /\ HP!Parent(m) = h_i
      BY <1>2, <1>5
    <2>4. ASSUME NEW k \in 1 .. h_size - 1, HP!Parent(k) = h_i PROVE InOrder(m, k)
      BY <1>2, <1>3, <1>4, <2>2, <2>4
    <2> QED
      BY <1>4, <2>1, <2>3, <2>4
  <1> QED
    BY <1>6, <1>7

\* One turn of the sift-down loop: the last thread sinks to the child that
\* comes before it and before the other child, or stays.
LEMMA HeapDown ==
  ASSUME HeapAssumed, HeapInv, HP!SiftDown
  PROVE  HeapInv'
  <1>1. /\ h_pc = "down" /\ h_i \in Nat /\ h_size \in Nat /\ (h_i = 0 \/ h_i < h_size)
        /\ UNCHANGED <<h_size, h_val, h_held, h_wide>>
        /\ HeapTyped /\ HeapHolds
    BY DEF HP!SiftDown, HeapInv, HeapPlace, HeapTyped
  <1>2. PICK s : s = HP!Smallest
    OBVIOUS
  <1>3. h_i >= h_size => s = h_i
    <2>1. h_i >= h_size => ~(2 * h_i + 1 < h_size) /\ ~(2 * h_i + 2 < h_size)
      BY <1>1
    <2> QED
      BY <1>2, <2>1 DEF HP!Smallest
  <1>4. CASE s # h_i /\ h_i' = s /\ UNCHANGED h_pc /\ h_threads' = HP!Swapped(h_threads, h_i, s)
    <2>0. h_i < h_size /\ h_i \in 0 .. h_size - 1
      BY <1>1, <1>3, <1>4
    <2>1. s \in 0 .. h_size - 1 /\ s > h_i
      <3>1. (2 * h_i + 1 < h_size => 2 * h_i + 1 \in 0 .. h_size - 1 /\ 2 * h_i + 1 > h_i)
            /\ (2 * h_i + 2 < h_size => 2 * h_i + 2 \in 0 .. h_size - 1 /\ 2 * h_i + 2 > h_i)
        BY <1>1
      <3> QED
        BY <1>2, <1>4, <3>1 DEF HP!Smallest
    <2>2. /\ HeapHolds' /\ DOMAIN h_threads' = HP!Slots
          /\ h_threads'[h_i] = h_threads[s] /\ h_threads'[s] = h_threads[h_i]
          /\ \A k \in 0 .. h_size - 1 : k # h_i /\ k # s => h_threads'[k] = h_threads[k]
      BY <1>1, <1>4, <2>0, <2>1, HeapSwap
    <2>3. HeapTyped' /\ HeapPlace'
      BY <1>1, <1>4, <2>1, <2>2 DEF HeapTyped, HeapPlace
    <2>4. ASSUME ~h_wide' PROVE HeapNear' /\ HeapOrder'
      <3>1. HeapNear /\ HeapOrder /\ ~h_wide
        BY <1>1, <2>4 DEF HeapInv
      <3>2. /\ HP!Parent(s) = h_i /\ InOrder(s, h_i)
            /\ \A k \in 1 .. h_size - 1 : HP!Parent(k) = h_i => InOrder(s, k)
        BY <1>1, <1>2, <1>4, <2>0, <3>1, SmallestChild
      <3>3. HeapNear'
        BY <1>1, <3>1 DEF HeapNear
      <3>4. ASSUME NEW k \in 1 .. h_size - 1, HP!Parent(k) # s PROVE InOrder(HP!Parent(k), k)'
        <4>0. HP!Parent(k) \in 0 .. h_size - 1 /\ k \in 0 .. h_size - 1 /\ HP!Parent(k) < k
          BY <1>1, ParentBefore
        <4>1. CASE k = s
          BY <2>2, <1>1, <3>2, <4>1, InOrderStays
        <4>2. CASE k # s /\ HP!Parent(k) = h_i
          BY <1>1, <2>2, <3>2, <4>0, <4>2, InOrderStays
        <4>3. CASE k = h_i
          <5>1. InOrder(HP!Parent(HP!Parent(s)), s)
            BY <1>1, <2>1, <3>1, <3>2, <4>3 DEF HeapOrder
          <5> QED
            BY <1>1, <2>1, <2>2, <3>2, <4>0, <4>3, <5>1, InOrderStays
        <4>4. CASE k # s /\ k # h_i /\ HP!Parent(k) # h_i
          <5>1. InOrder(HP!Parent(k), k)
            BY <1>1, <3>1, <4>4 DEF HeapOrder
          <5> QED
            BY <1>1, <2>2, <3>4, <4>0, <4>4, <5>1, InOrderStays
        <4> QED
          BY <4>1, <4>2, <4>3, <4>4
      <3>5. ASSUME NEW k \in 1 .. h_size - 1, HP!Parent(k) = s
            PROVE  InOrder(HP!Parent(HP!Parent(k)), k)'
        <4>0. k \in 0 .. h_size - 1 /\ s < k
          BY <1>1, <3>5, ParentBefore
        <4>1. InOrder(s, k)
          BY <1>1, <1>4, <3>1, <3>5 DEF HeapOrder
        <4> QED
          BY <1>1, <2>1, <2>2, <3>2, <3>5, <4>0, <4>1, InOrderStays
      <3>6. HeapOrder'
        BY <1>1, <1>4, <3>4, <3>5 DEF HeapOrder, HP!Parent
      <3> QED
        BY <3>3, <3>6
    <2> QED
      BY <2>2, <2>3, <2>4 DEF HeapInv
  <1>5. CASE s = h_i /\ h_pc' = "idle" /\ h_i' = 0 /\ UNCHANGED h_threads
    <2>1. HeapTyped' /\ HeapHolds' /\ HeapPlace'
      BY <1>1, <1>5 DEF HeapTyped, HeapHolds, HeapPlace
    <2>2. ASSUME ~h_wide' PROVE HeapNear' /\ HeapOrder'
      <3>1. HeapNear /\ HeapOrder /\ ~h_wide
        BY <1>1, <2>2 DEF HeapInv
      <3>2. HeapNear'
        BY <1>1, <3>1 DEF HeapNear
      <3>3. ASSUME NEW k \in 1 .. h_size - 1 PROVE InOrder(HP!Parent(k), k)
        <4>1. CASE HP!Parent(k) = h_i
          <5>1. h_i < h_size
            BY <1>1, <4>1, ParentBefore
          <5> QED
            BY <1>1, <1>2, <1>5, <3>1, <4>1, <5>1, SmallestChild
        <4>2. CASE HP!Parent(k) # h_i
          BY <1>1, <3>1, <4>2 DEF HeapOrder
        <4> QED
          BY <4>1, <4>2
      <3>4. HeapOrder'
        BY <1>1, <1>5, <3>3 DEF HeapOrder, InOrder, HP!Precedes, HP!Parent
      <3> QED
        BY <3>2, <3>4
    <2> QED
      BY <2>1, <2>2 DEF HeapInv
  <1> QED
    BY <1>2, <1>4, <1>5 DEF HP!SiftDown

\* As many threads are in the heap as it says.
LEMMA HeapCount ==
  ASSUME HeapTyped, HeapHolds, HeapAssumed
  PROVE  IsFiniteSet(h_held) /\ Cardinality(h_held) = h_size
  <1>1. h_size \in Nat
    BY DEF HeapTyped, HeapAssumed
  <1>2. IsFiniteSet(0 .. h_size - 1) /\ Cardinality(0 .. h_size - 1) = h_size
    <2>1. 0 \in Int /\ h_size - 1 \in Int
      BY <1>1
    <2>2. /\ IsFiniteSet(0 .. h_size - 1)
          /\ Cardinality(0 .. h_size - 1) = IF 0 > h_size - 1 THEN 0 ELSE (h_size - 1) - 0 + 1
      BY <2>1, FS_Interval
    <2> QED
      BY <1>1, <2>2
  <1> DEFINE f == [k \in 0 .. h_size - 1 |-> h_threads[k]]
  <1>3. f \in Bijection(0 .. h_size - 1, h_held)
    <2>1. f \in [0 .. h_size - 1 -> h_held]
      BY DEF HeapHolds
    <2>2. \A j, k \in 0 .. h_size - 1 : f[j] = f[k] => j = k
      BY DEF HeapHolds
    <2>3. \A t \in h_held : \E k \in 0 .. h_size - 1 : f[k] = t
      BY DEF HeapHolds
    <2> HIDE DEF f
    <2> QED
      BY <2>1, <2>2, <2>3 DEF Bijection, Injection, Surjection, IsInjective
  <1> HIDE DEF f
  <1> QED
    BY <1>2, <1>3, FS_Bijection DEF ExistsBijection

\* heap_push starts with the new thread at the end.
LEMMA HeapPush ==
  ASSUME HeapAssumed, HeapInv, NEW t \in HeapIds, NEW x \in HeapValues, HP!heap_push(t, x)
  PROVE  HeapInv'
  <1>1. /\ h_pc = "idle" /\ t \notin h_held /\ h_pc' = "up" /\ h_i' = h_size /\ h_size' = h_size + 1
        /\ h_val' = [h_val EXCEPT ![t] = x] /\ h_threads' = [h_threads EXCEPT ![h_size] = t]
        /\ h_held' = h_held \cup {t}
        /\ HeapTyped /\ HeapHolds /\ h_size \in Nat /\ x \in Int
    BY DEF HP!heap_push, HeapInv, HeapTyped, HeapAssumed
  <1>2. h_size < MAX_THREADS
    <2>1. IsFiniteSet(h_held) /\ Cardinality(h_held) = h_size
      BY <1>1, HeapCount
    <2>2. Cardinality(h_held \cup {t}) = h_size + 1
      BY <1>1, <2>1, FS_AddElement
    <2>3. h_held \cup {t} \subseteq HeapIds
      BY <1>1 DEF HeapTyped
    <2>4. /\ IsFiniteSet(HeapIds) /\ Cardinality(HeapIds) <= MAX_THREADS /\ MAX_THREADS \in Nat
          /\ Cardinality(HeapIds) \in Nat
      BY FS_CardinalityType DEF HeapAssumed
    <2>5. Cardinality(h_held \cup {t}) <= Cardinality(HeapIds)
      BY <2>3, <2>4, FS_Subset
    <2> QED
      BY <1>1, <2>2, <2>4, <2>5
  <1>3. /\ h_size \in HP!Slots /\ 0 .. h_size - 1 \subseteq HP!Slots
        /\ DOMAIN h_threads = HP!Slots
    BY <1>1, <1>2 DEF HeapTyped, HeapAssumed, HP!Slots
  <1>4. /\ DOMAIN h_threads' = HP!Slots /\ h_threads'[h_size] = t
        /\ \A k \in 0 .. h_size - 1 : h_threads'[k] = h_threads[k] /\ h_threads'[k] # t
    BY <1>1, <1>3 DEF HeapHolds
  <1>5. HeapTyped'
    <2>1. h_wide' \in BOOLEAN
      BY DEF HP!heap_push
    <2>2. h_size' \in 0 .. MAX_THREADS /\ h_i' \in Nat
      BY <1>1, <1>2 DEF HeapAssumed
    <2>3. h_val' \in [HeapIds -> Int] /\ h_held' \subseteq HeapIds
      BY <1>1 DEF HeapTyped
    <2> QED
      BY <1>1, <1>4, <2>1, <2>2, <2>3 DEF HeapTyped, HP!Slots
  <1>6. HeapHolds'
    <2>1. \A k \in 0 .. h_size' - 1 : k \in 0 .. h_size - 1 \/ k = h_size
      BY <1>1
    <2>2. 0 .. h_size - 1 \subseteq 0 .. h_size' - 1 /\ h_size \in 0 .. h_size' - 1
      BY <1>1
    <2>3. \A k \in 0 .. h_size' - 1 : h_threads'[k] \in h_held'
      BY <1>1, <1>4, <2>1 DEF HeapHolds
    <2>4. \A j, k \in 0 .. h_size' - 1 : h_threads'[j] = h_threads'[k] => j = k
      BY <1>1, <1>4, <2>1 DEF HeapHolds
    <2>5. \A u \in h_held' : \E k \in 0 .. h_size' - 1 : h_threads'[k] = u
      BY <1>1, <1>4, <2>2 DEF HeapHolds
    <2> QED
      BY <2>3, <2>4, <2>5 DEF HeapHolds
  <1>7. ASSUME ~h_wide' PROVE HeapNear' /\ HeapOrder'
    <2>1. /\ ~h_wide \/ h_held = {}
          /\ \A u \in h_held : ~(h_val[u] - x > INT_MAX) /\ ~(x - h_val[u] > INT_MAX)
      BY <1>7 DEF HP!heap_push
    <2>2. h_held # {} => HeapNear /\ HeapOrder
      BY <2>1 DEF HeapInv
    <2>3. /\ h_val'[t] = x /\ \A u \in h_held : h_val'[u] = h_val[u] /\ h_val[u] \in Int
          /\ INT_MAX \in Nat
      BY <1>1 DEF HeapTyped, HeapAssumed
    <2>4. HeapNear'
      <3> SUFFICES ASSUME NEW u \in h_held', NEW w \in h_held' PROVE h_val'[u] - h_val'[w] <= INT_MAX
        BY DEF HeapNear
      <3>1. CASE u \in h_held /\ w \in h_held
        BY <2>2, <2>3, <3>1 DEF HeapNear
      <3>2. CASE u = t /\ w \in h_held
        BY <1>1, <2>1, <2>3, <3>2
      <3>3. CASE u \in h_held /\ w = t
        BY <1>1, <2>1, <2>3, <3>3
      <3>4. CASE u = t /\ w = t
        BY <1>1, <2>3, <3>4
      <3> QED
        BY <1>1, <3>1, <3>2, <3>3, <3>4
    <2>5. ASSUME NEW k \in 1 .. h_size' - 1, k # h_i' PROVE InOrder(HP!Parent(k), k)'
      <3>1. k \in 1 .. h_size - 1 /\ HP!Parent(k) \in 0 .. h_size - 1 /\ k \in 0 .. h_size - 1
        BY <1>1, <2>5, ParentBefore
      <3>2. h_threads[k] \in h_held /\ h_threads[HP!Parent(k)] \in h_held
        BY <3>1, <1>1 DEF HeapHolds
      <3>3. InOrder(HP!Parent(k), k)
        BY <1>1, <2>2, <3>1, <3>2 DEF HeapOrder
      <3> QED
        BY <1>4, <2>3, <3>1, <3>2, <3>3 DEF InOrder, HP!Precedes, HP!Parent
    <2>6. ASSUME NEW k \in 1 .. h_size' - 1, HP!Parent(k) = h_i' PROVE FALSE
      BY <1>1, <2>6, ParentBefore
    <2>7. HeapOrder'
      BY <1>1, <2>5, <2>6 DEF HeapOrder, HP!Parent
    <2> QED
      BY <2>4, <2>7
  <1>8. HeapPlace'
    BY <1>1 DEF HeapPlace
  <1> QED
    BY <1>5, <1>6, <1>7, <1>8 DEF HeapInv

\* heap_pop moves the last thread to the root.
LEMMA HeapPop ==
  ASSUME HeapAssumed, HeapInv, HP!heap_pop
  PROVE  HeapInv'
  <1>1. /\ h_pc = "idle" /\ h_size > 0 /\ h_size' = h_size - 1 /\ h_i' = 0 /\ h_pc' = "down"
        /\ h_threads' = [h_threads EXCEPT ![0] = h_threads[h_size - 1], ![h_size - 1] = NULL]
        /\ h_val' = [h_val EXCEPT ![h_threads[0]] = 0]
        /\ h_held' = h_held \ {h_threads[0]} /\ UNCHANGED h_wide
        /\ HeapTyped /\ HeapHolds /\ h_size \in Nat
    BY DEF HP!heap_pop, HeapInv, HeapTyped
  <1>2. /\ 0 .. h_size - 1 \subseteq HP!Slots /\ DOMAIN h_threads = HP!Slots
        /\ 0 \in 0 .. h_size - 1 /\ h_size - 1 \in 0 .. h_size - 1
    BY <1>1 DEF HeapTyped, HeapAssumed, HP!Slots
  <1>3. /\ DOMAIN h_threads' = HP!Slots
        /\ h_size > 1 => h_threads'[0] = h_threads[h_size - 1]
        /\ \A k \in 1 .. h_size - 2 : h_threads'[k] = h_threads[k]
    BY <1>1, <1>2
  <1>4. HeapTyped'
    <2>1. h_size' \in 0 .. MAX_THREADS /\ h_i' \in Nat
      BY <1>1 DEF HeapTyped, HeapAssumed
    <2>2. h_val \in [HeapIds -> Int] /\ h_held \subseteq HeapIds /\ h_threads[0] \in HeapIds
      BY <1>1, <1>2 DEF HeapTyped, HeapHolds
    <2>3. h_val' \in [HeapIds -> Int]
      BY <1>1, <2>2
    <2>4. h_held' \subseteq HeapIds
      BY <1>1, <2>2
    <2> QED
      BY <1>1, <1>3, <2>3, <2>4, <2>1, <2>2 DEF HeapTyped, HP!Slots
  <1>5. HeapHolds'
    <2>0. /\ \A k \in 0 .. h_size - 1 : h_threads[k] \in h_held
          /\ \A j, k \in 0 .. h_size - 1 : h_threads[j] = h_threads[k] => j = k
          /\ \A t \in h_held : \E k \in 0 .. h_size - 1 : h_threads[k] = t
      BY <1>1 DEF HeapHolds
    <2>1. \A k \in 0 .. h_size' - 1 :
            \E j \in 1 .. h_size - 1 : h_threads'[k] = h_threads[j] /\ j = IF k = 0 THEN h_size - 1 ELSE k
      <3> SUFFICES ASSUME NEW k \in 0 .. h_size' - 1
                   PROVE  \E j \in 1 .. h_size - 1 : h_threads'[k] = h_threads[j] /\ j = IF k = 0 THEN h_size - 1 ELSE k
        OBVIOUS
      <3>1. CASE k = 0
        BY <1>1, <1>3, <3>1
      <3>2. CASE k # 0
        <4>1. k \in 1 .. h_size - 2 /\ k \in 1 .. h_size - 1
          BY <1>1, <3>2
        <4> QED
          BY <1>3, <3>2, <4>1
      <3> QED
        BY <3>1, <3>2
    <2>2. \A k \in 0 .. h_size' - 1 : h_threads'[k] \in h_held'
      BY <1>1, <1>2, <2>0, <2>1
    <2>3. \A j, k \in 0 .. h_size' - 1 : h_threads'[j] = h_threads'[k] => j = k
      <3> SUFFICES ASSUME NEW j \in 0 .. h_size' - 1, NEW k \in 0 .. h_size' - 1,
                          h_threads'[j] = h_threads'[k]
                   PROVE  j = k
        OBVIOUS
      <3>1. PICK p \in 1 .. h_size - 1 : h_threads'[j] = h_threads[p] /\ p = IF j = 0 THEN h_size - 1 ELSE j
        BY <2>1
      <3>2. PICK q \in 1 .. h_size - 1 : h_threads'[k] = h_threads[q] /\ q = IF k = 0 THEN h_size - 1 ELSE k
        BY <2>1
      <3>3. p \in 0 .. h_size - 1 /\ q \in 0 .. h_size - 1
        BY <1>1
      <3>4. p = q
        BY <2>0, <3>1, <3>2, <3>3
      <3> QED
        BY <1>1, <3>1, <3>2, <3>4
    <2>4. ASSUME NEW t \in h_held' PROVE \E k \in 0 .. h_size' - 1 : h_threads'[k] = t
      <3>1. PICK j \in 0 .. h_size - 1 : h_threads[j] = t /\ j # 0
        BY <1>1, <2>0, <2>4
      <3>2. CASE j = h_size - 1
        <4>1. h_size > 1 /\ 0 \in 0 .. h_size' - 1
          BY <1>1, <3>1, <3>2
        <4> QED
          BY <1>3, <3>1, <3>2, <4>1
      <3>3. CASE j # h_size - 1
        <4>1. j \in 1 .. h_size - 2 /\ j \in 0 .. h_size' - 1
          BY <1>1, <3>1, <3>3
        <4> QED
          BY <1>3, <3>1, <4>1
      <3> QED
        BY <3>2, <3>3
    <2> QED
      BY <2>2, <2>3, <2>4 DEF HeapHolds
  <1>6. ASSUME ~h_wide' PROVE HeapNear' /\ HeapOrder'
    <2>1. HeapNear /\ HeapOrder
      BY <1>1, <1>6 DEF HeapInv
    <2>2. \A t \in h_held' : t \in h_held /\ h_val'[t] = h_val[t]
      BY <1>1 DEF HeapTyped
    <2>3. HeapNear'
      BY <2>1, <2>2 DEF HeapNear
    <2>4. ASSUME NEW k \in 1 .. h_size' - 1, HP!Parent(k) # 0 PROVE InOrder(HP!Parent(k), k)'
      <3>1. /\ k \in 1 .. h_size - 2 /\ HP!Parent(k) \in 1 .. h_size - 2 /\ k \in 1 .. h_size - 1
            /\ k \in 0 .. h_size' - 1 /\ HP!Parent(k) \in 0 .. h_size' - 1
        BY <1>1, <2>4, ParentBefore
      <3>2. InOrder(HP!Parent(k), k)
        BY <1>1, <2>1, <3>1 DEF HeapOrder
      <3>3. h_threads'[k] = h_threads[k] /\ h_threads'[HP!Parent(k)] = h_threads[HP!Parent(k)]
        BY <1>3, <3>1
      <3>4. h_threads'[k] \in h_held' /\ h_threads'[HP!Parent(k)] \in h_held'
        BY <1>5, <3>1 DEF HeapHolds
      <3> QED
        BY <2>2, <3>2, <3>3, <3>4 DEF InOrder, HP!Precedes, HP!Parent
    <2>5. HeapOrder'
      BY <1>1, <2>4 DEF HeapOrder, HP!Parent
    <2> QED
      BY <2>3, <2>5
  <1>7. HeapPlace'
    BY <1>1 DEF HeapPlace
  <1> QED
    BY <1>4, <1>5, <1>6, <1>7 DEF HeapInv

\* init_heap makes a heap of nothing.
LEMMA HeapInit == HeapAssumed /\ HP!Init => HeapInv
  <1> SUFFICES ASSUME HeapAssumed, HP!Init PROVE HeapInv
    OBVIOUS
  <1>1. HeapTyped
    <2>1. h_size \in 0 .. MAX_THREADS /\ h_i \in Nat
      BY DEF HeapAssumed, HP!Init
    <2>2. h_val \in [HeapIds -> Int] /\ h_held \subseteq HeapIds /\ DOMAIN h_threads = HP!Slots
      BY DEF HP!Init
    <2>3. h_wide \in BOOLEAN /\ h_pc \in {"idle", "up", "down"}
      BY DEF HP!Init
    <2> QED
      BY <2>1, <2>2, <2>3 DEF HeapTyped
  <1>2. HeapHolds /\ HeapPlace /\ HeapNear /\ HeapOrder
    BY DEF HP!Init, HeapHolds, HeapPlace, HeapNear, HeapOrder
  <1> QED
    BY <1>1, <1>2 DEF HeapInv

\* Every step of push and pop.
LEMMA HeapStep == HeapAssumed /\ HeapInv /\ [HP!Next]_(HP!vars) => HeapInv'
  <1> SUFFICES ASSUME HeapAssumed, HeapInv, [HP!Next]_(HP!vars) PROVE HeapInv'
    OBVIOUS
  <1>1. CASE UNCHANGED HP!vars
    BY <1>1 DEF HP!vars, HeapInv, HeapTyped, HeapHolds, HeapPlace, HeapNear, HeapOrder, InOrder,
         HP!Precedes, HP!Parent, HP!Slots
  <1>2. CASE HP!Next
    BY <1>2, HeapPush, HeapUp, HeapPop, HeapDown DEF HP!Next
  <1> QED
    BY <1>1, <1>2

\* In a heap whose parents come before their children, the root comes before
\* all: the first slot it did not come before would have such a parent.
LEMMA RootIsLeast ==
  ASSUME HeapAssumed, HeapInv, ~h_wide, h_pc = "idle"
  PROVE  \A k \in 0 .. h_size - 1 : InOrder(0, k)
  <1> DEFINE T == {k \in 0 .. h_size - 1 : ~InOrder(0, k)}
  <1>1. HeapTyped /\ HeapHolds /\ HeapOrder /\ h_size \in Nat
    BY DEF HeapInv, HeapTyped
  <1> SUFFICES ASSUME T # {} PROVE FALSE
    OBVIOUS
  <1>2. T \subseteq Nat
    BY <1>1
  <1>3. PICK k \in T : \A j \in T : k <= j
    BY <1>2, LeastNumber
  <1>4. k \in 0 .. h_size - 1 /\ ~InOrder(0, k)
    OBVIOUS
  <1>5. k # 0
    BY <1>1, <1>4, SlotOrder
  <1>6. HP!Parent(k) \in 0 .. h_size - 1 /\ HP!Parent(k) < k /\ k \in 1 .. h_size - 1
    BY <1>1, <1>4, <1>5, ParentBefore
  <1>7. InOrder(0, HP!Parent(k))
    BY <1>2, <1>3, <1>6
  <1>8. InOrder(HP!Parent(k), k)
    BY <1>1, <1>6 DEF HeapOrder
  <1>9. 0 \in 0 .. h_size - 1
    BY <1>1, <1>4
  <1> QED
    BY <1>1, <1>4, <1>6, <1>7, <1>8, <1>9, SlotOrder

\* heap_pop returns a thread that is in the heap, and as long as the values are
\* within INT_MAX of each other, the one that comes before all others, for any
\* number of threads, any values and any sequence of pushes and pops.
THEOREM PopIsLeast ==
  ASSUME HeapAssumed
  PROVE  HP!Spec => PopsTheLeast
  <1>1. HP!Init => HeapInv
    BY HeapInit
  <1>2. HeapInv /\ [HP!Next]_(HP!vars) => HeapInv'
    BY HeapStep
  <1>3. ASSUME NEW S PROVE HP!Cardinality(S) = Cardinality(S)
    BY DEF HP!Cardinality, Cardinality
  <1>4. HeapInv /\ [HP!Next]_(HP!vars) =>
          [h_size' < h_size =>
             /\ h_min' \in h_held /\ HP!Cardinality(h_held) = h_size
             /\ h_wide \/ \A t \in h_held : HP!Precedes(h_min', t)]_(HP!vars)
    <2> SUFFICES ASSUME HeapInv, [HP!Next]_(HP!vars), h_size' < h_size
                 PROVE  /\ h_min' \in h_held /\ HP!Cardinality(h_held) = h_size
                        /\ h_wide \/ \A t \in h_held : HP!Precedes(h_min', t)
      OBVIOUS
    <2>1. HeapTyped /\ HeapHolds /\ h_size \in Nat
      BY DEF HeapInv, HeapTyped
    <2>2. HP!heap_pop
      <3>1. ~UNCHANGED h_size /\ ~(h_size' = h_size + 1)
        BY <2>1
      <3> QED
        BY <3>1 DEF HP!Next, HP!vars, HP!heap_push, HP!SiftUp, HP!SiftDown
    <2>3. h_min' = h_threads[0] /\ h_pc = "idle" /\ 0 \in 0 .. h_size - 1
      BY <2>1, <2>2 DEF HP!heap_pop
    <2>4. h_min' \in h_held /\ HP!Cardinality(h_held) = h_size
      BY <1>3, <2>1, <2>3, HeapCount DEF HeapHolds
    <2>5. ASSUME ~h_wide, NEW t \in h_held PROVE HP!Precedes(h_min', t)
      <3>1. PICK k \in 0 .. h_size - 1 : h_threads[k] = t
        BY <2>1 DEF HeapHolds
      <3>2. InOrder(0, k)
        BY <2>3, <2>5, RootIsLeast
      <3> QED
        BY <2>3, <3>1, <3>2 DEF InOrder
    <2> QED
      BY <2>4, <2>5
  <1> QED
    BY <1>1, <1>2, <1>4, PTL DEF HP!Spec, PopsTheLeast, HP!PopsTheLeast
-----------------------------------------------------------------------------
(***************************************************************************)
(* rufs_write on the bytes of a file                                       *)
(***************************************************************************)
\* A block has a byte at least.
FileAssumed ==
  /\ BlockBytes \in Nat \ {0} /\ FilePtrs \in Nat /\ FileBlocks \in Nat /\ WriteMax \in Nat

Inodes == [size : Nat, ptr : [FI!Ptrs -> 0 .. FileBlocks]]

FileTyped ==
  /\ f_inode \in Inodes /\ f_cp \in Inodes /\ f_marked \subseteq FI!Blocks
  /\ DOMAIN f_data = FI!Blocks /\ \A b \in FI!Blocks : DOMAIN f_data[b] = FI!InBlock
  /\ f_pc \in {"idle", "write"}
  /\ f_req.offset \in Nat /\ f_req.size \in Nat
  /\ f_written \in 0 .. f_req.size /\ f_idx \in Nat /\ f_start \in FI!InBlock
  /\ DOMAIN f_known = FI!Offsets

\* The blocks of an inode are marked, and each is its once.
OwnBlocks(node) ==
  /\ \A p \in FI!Ptrs : node.ptr[p] # 0 => node.ptr[p] \in f_marked
  /\ \A p, q \in FI!Ptrs : node.ptr[p] # 0 /\ node.ptr[p] = node.ptr[q] => p = q

\* The byte of a file at o.
HasByte(node, o) == o \div BlockBytes \in FI!Ptrs /\ node.ptr[o \div BlockBytes] # 0
Byte(node, o) == f_data[node.ptr[o \div BlockBytes]][o % BlockBytes]

\* What is known to be in the file is there.
KnownOK ==
  \A o \in FI!Offsets : f_known[o] # NULL =>
    o < f_inode.size /\ HasByte(f_inode, o) /\ Byte(f_inode, o) = f_known[o]

\* The copy of the inode has the blocks of the inode, and new ones.
CopyExtends ==
  /\ f_cp.size = f_inode.size
  /\ \A p \in FI!Ptrs : f_inode.ptr[p] # 0 => f_cp.ptr[p] = f_inode.ptr[p]

\* How far the loop of rufs_write has come.
WriteProgress ==
  /\ f_written = f_req.size \/ BlockBytes * f_idx + f_start = f_req.offset + f_written
  /\ \A o \in FI!Offsets :
       o \in f_req.offset .. f_req.offset + f_written - 1 =>
         HasByte(f_cp, o) /\ Byte(f_cp, o) = f_req.value
  /\ \A o \in FI!Offsets :
       o \in f_req.offset .. f_req.offset + f_req.size - 1 => f_known[o] = NULL

FileInv ==
  /\ FileTyped /\ KnownOK /\ OwnBlocks(f_inode)
  /\ f_pc = "write" => OwnBlocks(f_cp) /\ CopyExtends /\ WriteProgress

\* Min gives the least number of a set.
LEMMA MinIsLeast ==
  ASSUME NEW S, S \subseteq Nat, S # {}
  PROVE  FI!Min(S) \in S /\ \A x \in S : FI!Min(S) <= x
  BY LeastNumber DEF FI!Min

\* An offset and its block and place in it.
LEMMA OffsetOf ==
  ASSUME FileAssumed, NEW o \in Nat
  PROVE  /\ o \div BlockBytes \in Nat /\ o % BlockBytes \in FI!InBlock
         /\ o = BlockBytes * (o \div BlockBytes) + (o % BlockBytes)
         /\ \A q \in Nat, k \in FI!InBlock :
              o = BlockBytes * q + k => o \div BlockBytes = q /\ o % BlockBytes = k
  <1>1. BlockBytes \in Nat \ {0} /\ FI!InBlock = 0 .. BlockBytes - 1
    BY DEF FileAssumed, FI!InBlock
  <1>2. /\ o \div BlockBytes \in Nat /\ o % BlockBytes \in FI!InBlock
        /\ o = BlockBytes * (o \div BlockBytes) + (o % BlockBytes)
    BY <1>1, DivMod
  <1>3. PICK p \in Nat, r \in FI!InBlock : p = o \div BlockBytes /\ r = o % BlockBytes
    BY <1>2
  <1>4. ASSUME NEW q \in Nat, NEW k \in FI!InBlock, o = BlockBytes * q + k PROVE p = q /\ r = k
    BY <1>1, <1>2, <1>3, <1>4, DivModUnique
  <1> QED
    BY <1>2, <1>3, <1>4

\* The first free block, as get_avail_blkno finds it.
LEMMA Obtained ==
  ASSUME FileAssumed, FileTyped, f_marked # FI!Blocks
  PROVE  LET b == FI!Min(FI!Blocks \ f_marked)
         IN  b \in FI!Blocks /\ b \notin f_marked /\ b \in 1 .. FileBlocks /\ b # 0
  <1>0. f_marked \subseteq FI!Blocks /\ FI!Blocks \subseteq Nat
    BY DEF FileTyped, FI!Blocks, FileAssumed
  <1>1. FI!Blocks \ f_marked # {} /\ FI!Blocks \ f_marked \subseteq Nat
    BY <1>0
  <1>2. FI!Min(FI!Blocks \ f_marked) \in FI!Blocks \ f_marked
    BY <1>1, MinIsLeast
  <1> QED
    BY <1>2 DEF FI!Blocks

\* A file without blocks, of which nothing has been written yet.
LEMMA FileInit == FileAssumed /\ FI!Init => FileInv
  <1> SUFFICES ASSUME FileAssumed, FI!Init PROVE FileInv
    OBVIOUS
  <1>1. f_inode \in Inodes /\ f_cp \in Inodes /\ \A p \in FI!Ptrs : f_inode.ptr[p] = 0
    BY DEF FI!Init, FI!NoBlocks, Inodes, FileAssumed
  <1>2. f_req.offset = 0 /\ f_req.size = 0 /\ f_written = 0 /\ f_idx = 0 /\ f_start \in FI!InBlock
    BY DEF FI!Init, FI!NoReq, FI!InBlock, FileAssumed
  <1>3. /\ DOMAIN f_data = FI!Blocks /\ \A b \in FI!Blocks : DOMAIN f_data[b] = FI!InBlock
        /\ DOMAIN f_known = FI!Offsets /\ \A o \in FI!Offsets : f_known[o] = NULL
        /\ f_pc = "idle" /\ f_marked = {}
    BY DEF FI!Init
  <1>4. FileTyped
    BY <1>1, <1>2, <1>3 DEF FileTyped
  <1> QED
    BY <1>1, <1>3, <1>4 DEF FileInv, KnownOK, OwnBlocks

\* A write begins: nothing is known of the bytes it asks for.
LEMMA FileWrite ==
  ASSUME FileAssumed, FileInv, NEW o \in FI!Offsets, NEW n \in 1 .. WriteMax, NEW v,
         FI!rufs_write(o, n, v)
  PROVE  FileInv'
  <1>0. FileTyped /\ KnownOK /\ OwnBlocks(f_inode)
    BY DEF FileInv
  <1>1. /\ f_req' = [offset |-> o, size |-> n, value |-> v] /\ f_cp' = f_inode /\ f_written' = 0
        /\ f_idx' = o \div BlockBytes /\ f_start' = o % BlockBytes /\ f_pc' = "write"
        /\ UNCHANGED <<f_inode, f_data, f_marked>>
    BY DEF FI!rufs_write
  <1>2. /\ DOMAIN f_known' = FI!Offsets
        /\ \A w \in FI!Offsets : f_known'[w] = IF w \in o .. o + n - 1 THEN NULL ELSE f_known[w]
    BY DEF FI!rufs_write
  <1>3. o \in Nat /\ n \in Nat
    BY DEF FI!Offsets, FileAssumed
  <1>4. f_idx' \in Nat /\ f_start' \in FI!InBlock /\ BlockBytes * f_idx' + f_start' = o
    BY <1>1, <1>3, OffsetOf
  <1>5. f_req'.offset = o /\ f_req'.size = n /\ f_req'.value = v
    BY <1>1
  <1>6. FileTyped'
    BY <1>0, <1>1, <1>2, <1>3, <1>4, <1>5 DEF FileTyped, FI!Ptrs, FI!Blocks, FI!InBlock, FI!Offsets, Inodes
  <1>7. KnownOK'
    BY <1>0, <1>1, <1>2 DEF KnownOK, HasByte, Byte, FI!Ptrs, FI!Offsets
  <1>8. OwnBlocks(f_inode)' /\ OwnBlocks(f_cp)'
    BY <1>0, <1>1 DEF OwnBlocks, FI!Ptrs
  <1>9. CopyExtends'
    BY <1>1 DEF CopyExtends
  <1>10. WriteProgress'
    <2>1. BlockBytes * f_idx' + f_start' = f_req'.offset + f_written'
      BY <1>1, <1>3, <1>4, <1>5
    <2>2. f_req'.offset .. f_req'.offset + f_written' - 1 = {}
      BY <1>1, <1>3, <1>5
    <2>3. \A w \in FI!Offsets : w \in f_req'.offset .. f_req'.offset + f_req'.size - 1 => f_known'[w] = NULL
      BY <1>2, <1>5
    <2> QED
      BY <2>1, <2>2, <2>3 DEF WriteProgress, FI!Offsets
  <1> QED
    BY <1>6, <1>7, <1>8, <1>9, <1>10 DEF FileInv

\* A missing block is obtained, which no inode has.
LEMMA FileAllocate ==
  ASSUME FileAssumed, FileInv, FI!Allocate
  PROVE  FileInv'
  <1>0. /\ FileTyped /\ KnownOK /\ OwnBlocks(f_inode) /\ OwnBlocks(f_cp) /\ CopyExtends
        /\ WriteProgress /\ f_pc = "write"
    BY DEF FileInv, FI!Allocate
  <1>1. PICK b : b = FI!Min(FI!Blocks \ f_marked)
    OBVIOUS
  <1>2. /\ f_marked' = f_marked \cup {b} /\ f_cp' = [f_cp EXCEPT !.ptr[f_idx] = b]
        /\ f_cp.ptr[f_idx] = 0 /\ f_idx < FilePtrs /\ f_marked # FI!Blocks
        /\ UNCHANGED <<f_inode, f_data, f_pc, f_req, f_written, f_idx, f_start, f_known>>
    BY <1>1 DEF FI!Allocate, FI!More
  <1>3. b \in FI!Blocks /\ b \notin f_marked /\ b \in 1 .. FileBlocks /\ b # 0
    BY <1>0, <1>1, <1>2, Obtained
  <1>4. f_idx \in FI!Ptrs /\ f_cp \in Inodes
    BY <1>0, <1>2 DEF FileTyped, FI!Ptrs, FileAssumed
  <1>5. /\ f_cp'.size = f_cp.size /\ f_cp'.ptr[f_idx] = b
        /\ \A p \in FI!Ptrs : p # f_idx => f_cp'.ptr[p] = f_cp.ptr[p]
        /\ f_cp' \in Inodes
    BY <1>2, <1>3, <1>4 DEF Inodes
  <1>6. FileTyped'
    <2>1. f_marked' \subseteq FI!Blocks
      BY <1>0, <1>2, <1>3 DEF FileTyped
    <2> QED
      BY <1>0, <1>2, <1>5, <2>1 DEF FileTyped, FI!Ptrs, FI!Blocks, FI!InBlock, FI!Offsets, Inodes
  <1>7. KnownOK'
    BY <1>0, <1>2 DEF KnownOK, HasByte, Byte, FI!Ptrs, FI!Offsets
  <1>8. OwnBlocks(f_inode)'
    BY <1>0, <1>2 DEF OwnBlocks, FI!Ptrs
  <1>9. OwnBlocks(f_cp)'
    <2>1. \A p \in FI!Ptrs : f_cp'.ptr[p] # 0 => f_cp'.ptr[p] \in f_marked'
      BY <1>0, <1>2, <1>5 DEF OwnBlocks
    <2>2. \A p, q \in FI!Ptrs : f_cp'.ptr[p] # 0 /\ f_cp'.ptr[p] = f_cp'.ptr[q] => p = q
      <3> SUFFICES ASSUME NEW p \in FI!Ptrs, NEW q \in FI!Ptrs, f_cp'.ptr[p] # 0,
                          f_cp'.ptr[p] = f_cp'.ptr[q], p # q
                   PROVE  FALSE
        OBVIOUS
      <3>1. CASE p = f_idx
        BY <1>0, <1>3, <1>5, <3>1 DEF OwnBlocks
      <3>2. CASE q = f_idx
        BY <1>0, <1>3, <1>5, <3>2 DEF OwnBlocks
      <3>3. CASE p # f_idx /\ q # f_idx
        BY <1>0, <1>5, <3>3 DEF OwnBlocks
      <3> QED
        BY <3>1, <3>2, <3>3
    <2> QED
      BY <2>1, <2>2 DEF OwnBlocks, FI!Ptrs
  <1>10. CopyExtends'
    <2>1. \A p \in FI!Ptrs : f_inode.ptr[p] # 0 => f_cp'.ptr[p] = f_inode.ptr[p]
      BY <1>0, <1>2, <1>4, <1>5 DEF CopyExtends
    <2> QED
      BY <1>0, <1>2, <1>5, <2>1 DEF CopyExtends, FI!Ptrs
  <1>11. WriteProgress'
    <2>1. ASSUME NEW o \in FI!Offsets, o \in f_req.offset .. f_req.offset + f_written - 1
          PROVE  HasByte(f_cp, o)' /\ Byte(f_cp, o)' = f_req.value
      <3>1. HasByte(f_cp, o) /\ Byte(f_cp, o) = f_req.value
        BY <1>0, <2>1 DEF WriteProgress
      <3>2. o \div BlockBytes \in FI!Ptrs /\ o \div BlockBytes # f_idx
        BY <1>2, <3>1 DEF HasByte
      <3>3. f_cp'.ptr[o \div BlockBytes] = f_cp.ptr[o \div BlockBytes]
        BY <1>5, <3>2
      <3> QED
        BY <1>2, <3>1, <3>3 DEF HasByte, Byte, FI!Ptrs
    <2> QED
      BY <1>0, <1>2, <2>1 DEF WriteProgress, FI!Offsets
  <1> QED
    BY <1>0, <1>2, <1>6, <1>7, <1>8, <1>9, <1>10, <1>11 DEF FileInv

\* The call gives up: the blocks it has obtained stay marked.
LEMMA FileNoSpace ==
  ASSUME FileAssumed, FileInv, FI!NoSpace
  PROVE  FileInv'
  <1>0. FileTyped /\ KnownOK /\ OwnBlocks(f_inode)
    BY DEF FileInv
  <1>1. /\ f_pc' = "idle" /\ f_req' = FI!NoReq /\ f_cp' = FI!NoBlocks
        /\ f_written' = 0 /\ f_idx' = 0 /\ f_start' = 0
        /\ UNCHANGED <<f_inode, f_data, f_marked, f_known>>
    BY DEF FI!NoSpace, FI!Return
  <1>2. f_cp' \in Inodes /\ f_req'.offset = 0 /\ f_req'.size = 0 /\ 0 \in FI!InBlock
    BY <1>1 DEF FI!NoBlocks, FI!NoReq, Inodes, FileAssumed, FI!InBlock
  <1>3. FileTyped'
    BY <1>0, <1>1, <1>2 DEF FileTyped, FI!Ptrs, FI!Blocks, FI!InBlock, FI!Offsets, Inodes
  <1>4. KnownOK' /\ OwnBlocks(f_inode)'
    BY <1>0, <1>1 DEF KnownOK, HasByte, Byte, OwnBlocks, FI!Ptrs, FI!Offsets
  <1> QED
    BY <1>1, <1>3, <1>4 DEF FileInv

\* One turn of the loop copies a byte at least, and not past the end of the
\* block or of the request.
LEMMA CopiesSome ==
  ASSUME FileAssumed, FileTyped, FI!More
  PROVE  /\ FI!to_copy \in Nat /\ FI!to_copy > 0
         /\ f_start + FI!to_copy <= BlockBytes /\ f_written + FI!to_copy <= f_req.size
         /\ FI!to_copy = BlockBytes - f_start \/ f_written + FI!to_copy = f_req.size
  <1>1. /\ f_written \in Nat /\ f_req.size \in Nat /\ f_written < f_req.size
        /\ f_start \in 0 .. BlockBytes - 1 /\ BlockBytes \in Nat
    BY DEF FileAssumed, FileTyped, FI!More, FI!InBlock
  <1>2. PICK a, c : a = BlockBytes - f_start /\ c = f_req.size - f_written
    OBVIOUS
  <1>3. a \in Nat /\ c \in Nat /\ a > 0 /\ c > 0
    BY <1>1, <1>2
  <1>4. FI!Min({a, c}) \in {a, c} /\ \A x \in {a, c} : FI!Min({a, c}) <= x
    BY <1>3, MinIsLeast
  <1>5. FI!to_copy = FI!Min({a, c})
    BY <1>2 DEF FI!to_copy
  <1>6. PICK m : m = FI!Min({a, c})
    OBVIOUS
  <1>7. m \in Nat /\ m > 0 /\ m <= a /\ m <= c /\ (m = a \/ m = c)
    BY <1>3, <1>4, <1>6
  <1> QED
    BY <1>1, <1>2, <1>3, <1>5, <1>6, <1>7

\* One turn writes to bytes of the request only.
LEMMA FileCopy ==
  ASSUME FileAssumed, FileInv, FI!CopyBlock
  PROVE  FileInv'
  <1>0. /\ FileTyped /\ KnownOK /\ OwnBlocks(f_inode) /\ OwnBlocks(f_cp) /\ CopyExtends
        /\ WriteProgress /\ f_pc = "write" /\ FI!More /\ f_cp.ptr[f_idx] # 0
    BY DEF FileInv, FI!CopyBlock
  <1>1. PICK c : c = FI!to_copy
    OBVIOUS
  <1>2. /\ c \in Nat /\ c > 0 /\ f_start + c <= BlockBytes /\ f_written + c <= f_req.size
        /\ c = BlockBytes - f_start \/ f_written + c = f_req.size
    BY <1>0, <1>1, CopiesSome
  <1>3. PICK b : b = f_cp.ptr[f_idx]
    OBVIOUS
  <1>4. /\ f_data' = [f_data EXCEPT ![b] =
              [k \in FI!InBlock |-> IF k \in f_start .. f_start + c - 1 THEN f_req.value ELSE @[k]]]
        /\ f_written' = f_written + c /\ f_idx' = f_idx + 1 /\ f_start' = 0
        /\ UNCHANGED <<f_inode, f_marked, f_pc, f_req, f_cp, f_known>>
    BY <1>1, <1>3 DEF FI!CopyBlock
  <1>5. f_idx \in FI!Ptrs /\ f_idx \in Nat /\ b \in FI!Blocks
    BY <1>0, <1>3 DEF FileTyped, FI!Ptrs, FileAssumed, FI!More, Inodes, OwnBlocks
  <1>6. /\ f_req.offset \in Nat /\ f_req.size \in Nat /\ f_written \in Nat /\ f_start \in Nat
        /\ BlockBytes \in Nat \ {0} /\ f_start \in 0 .. BlockBytes - 1 /\ f_written < f_req.size
    BY <1>0 DEF FileTyped, FileAssumed, FI!InBlock, FI!More
  <1>7. /\ DOMAIN f_data' = FI!Blocks /\ \A d \in FI!Blocks : DOMAIN f_data'[d] = FI!InBlock
        /\ \A d \in FI!Blocks, k \in FI!InBlock :
             f_data'[d][k] = IF d = b /\ k \in f_start .. f_start + c - 1 THEN f_req.value ELSE f_data[d][k]
    <2>1. DOMAIN f_data = FI!Blocks /\ \A d \in FI!Blocks : DOMAIN f_data[d] = FI!InBlock
      BY <1>0 DEF FileTyped
    <2> QED
      BY <1>4, <1>5, <2>1
  <1>8. BlockBytes * f_idx + f_start = f_req.offset + f_written
    BY <1>0, <1>6 DEF WriteProgress
  <1>9. FileTyped'
    <2>1. f_written' \in 0 .. f_req'.size /\ f_idx' \in Nat /\ f_start' \in FI!InBlock
      BY <1>2, <1>4, <1>5, <1>6 DEF FI!InBlock
    <2> QED
      BY <1>0, <1>4, <1>7, <2>1 DEF FileTyped, FI!Ptrs, FI!Blocks, FI!InBlock, FI!Offsets, Inodes
  <1>10. ASSUME NEW o \in FI!Offsets
         PROVE  /\ o \in Nat /\ o \div BlockBytes \in Nat /\ o % BlockBytes \in FI!InBlock
                /\ o = BlockBytes * (o \div BlockBytes) + (o % BlockBytes)
                /\ \A q \in Nat, k \in FI!InBlock :
                     o = BlockBytes * q + k => o \div BlockBytes = q /\ o % BlockBytes = k
    <2>1. o \in Nat
      BY DEF FI!Offsets
    <2> QED
      BY <2>1, OffsetOf
  <1>11. KnownOK'
    <2> SUFFICES ASSUME NEW o \in FI!Offsets, f_known[o] # NULL
                 PROVE  o < f_inode.size /\ HasByte(f_inode, o) /\ Byte(f_inode, o)' = f_known[o]
      BY <1>4 DEF KnownOK, HasByte, FI!Ptrs, FI!Offsets
    <2>1. o < f_inode.size /\ HasByte(f_inode, o) /\ Byte(f_inode, o) = f_known[o]
      BY <1>0 DEF KnownOK
    <2>2. PICK q, r : q = o \div BlockBytes /\ r = o % BlockBytes
      OBVIOUS
    <2>3. q \in FI!Ptrs /\ f_inode.ptr[q] # 0 /\ f_cp.ptr[q] = f_inode.ptr[q]
      BY <1>0, <2>1, <2>2 DEF HasByte, CopyExtends
    <2>4. f_inode.ptr[q] \in FI!Blocks /\ q \in Nat /\ r \in FI!InBlock /\ o = BlockBytes * q + r
      BY <1>0, <1>10, <2>2, <2>3 DEF OwnBlocks, FileTyped
    <2>5. ~(f_inode.ptr[q] = b /\ r \in f_start .. f_start + c - 1)
      <3> SUFFICES ASSUME f_inode.ptr[q] = b, r \in f_start .. f_start + c - 1 PROVE FALSE
        OBVIOUS
      <3>1. q = f_idx
        BY <1>0, <1>3, <1>5, <2>3 DEF OwnBlocks
      <3>2. PICK x \in Nat : x = BlockBytes * q
        BY <1>6, <2>4
      <3>3. x + f_start = f_req.offset + f_written /\ o = x + r
        BY <1>8, <2>4, <3>1, <3>2
      <3>4. o \in f_req.offset .. f_req.offset + f_req.size - 1
        BY <1>2, <1>6, <3>3
      <3> QED
        BY <1>0, <3>4 DEF WriteProgress
    <2>6. f_data'[f_inode.ptr[q]][r] = f_data[f_inode.ptr[q]][r]
      BY <1>7, <2>4, <2>5
    <2> QED
      BY <1>4, <2>1, <2>2, <2>6 DEF Byte
  <1>12. OwnBlocks(f_inode)' /\ OwnBlocks(f_cp)' /\ CopyExtends'
    BY <1>0, <1>4 DEF OwnBlocks, CopyExtends, FI!Ptrs
  <1>13. f_written' = f_req'.size \/ BlockBytes * f_idx' + f_start' = f_req'.offset + f_written'
    <2>1. CASE f_written + c = f_req.size
      BY <1>4, <2>1
    <2>2. CASE c = BlockBytes - f_start
      <3>1. BlockBytes * (f_idx + 1) = BlockBytes * f_idx + BlockBytes
        BY <1>5, <1>6
      <3>2. PICK x \in Nat : x = BlockBytes * f_idx
        BY <1>5, <1>6
      <3>3. x + BlockBytes + 0 = f_req.offset + (f_written + c)
        BY <1>6, <1>8, <2>2, <3>2
      <3> QED
        BY <1>4, <1>6, <3>1, <3>2, <3>3
    <2> QED
      BY <1>2, <2>1, <2>2
  <1>14. ASSUME NEW o \in FI!Offsets, o \in f_req.offset .. f_req.offset + (f_written + c) - 1
         PROVE  HasByte(f_cp, o) /\ Byte(f_cp, o)' = f_req.value
    <2>1. PICK q, r : q = o \div BlockBytes /\ r = o % BlockBytes
      OBVIOUS
    <2>2. /\ o \in Nat /\ q \in Nat /\ r \in FI!InBlock /\ o = BlockBytes * q + r
          /\ \A p \in Nat, k \in FI!InBlock : o = BlockBytes * p + k => q = p /\ r = k
      BY <1>10, <2>1
    <2>3. CASE o < f_req.offset + f_written
      <3>1. o \in f_req.offset .. f_req.offset + f_written - 1
        BY <1>6, <1>14, <2>2, <2>3
      <3>2. HasByte(f_cp, o) /\ Byte(f_cp, o) = f_req.value
        BY <1>0, <3>1 DEF WriteProgress
      <3>3. q \in FI!Ptrs /\ f_cp.ptr[q] \in FI!Blocks
        BY <1>0, <2>1, <3>2 DEF HasByte, OwnBlocks, FileTyped
      <3>4. f_data'[f_cp.ptr[q]][r] = f_req.value
        BY <1>7, <2>1, <2>2, <3>2, <3>3 DEF Byte
      <3> QED
        BY <1>4, <2>1, <3>2, <3>4 DEF Byte
    <2>4. CASE ~(o < f_req.offset + f_written)
      <3>1. PICK j \in Nat : j = o - (f_req.offset + f_written) /\ j < c
        BY <1>2, <1>6, <1>14, <2>2, <2>4
      <3>2. f_start + j \in FI!InBlock /\ f_start + j \in f_start .. f_start + c - 1
        BY <1>2, <1>6, <3>1 DEF FI!InBlock
      <3>3. PICK x \in Nat : x = BlockBytes * f_idx
        BY <1>5, <1>6
      <3>4. o = x + (f_start + j)
        BY <1>6, <1>8, <2>2, <3>1, <3>3
      <3>5. q = f_idx /\ r = f_start + j
        BY <1>5, <2>2, <3>2, <3>3, <3>4
      <3>6. f_data'[b][r] = f_req.value
        BY <1>5, <1>7, <3>2, <3>5
      <3> QED
        BY <1>0, <1>3, <1>4, <1>5, <2>1, <3>5, <3>6 DEF HasByte, Byte
    <2> QED
      BY <2>3, <2>4
  <1>15. WriteProgress'
    BY <1>0, <1>4, <1>13, <1>14 DEF WriteProgress, HasByte, FI!Ptrs, FI!Offsets
  <1> QED
    BY <1>0, <1>4, <1>9, <1>11, <1>12, <1>15 DEF FileInv

\* The inode is written, and with it what has been copied is in the file.
LEMMA FileFinish ==
  ASSUME FileAssumed, FileInv, FI!Finish
  PROVE  FileInv'
  <1>0. /\ FileTyped /\ KnownOK /\ OwnBlocks(f_inode) /\ OwnBlocks(f_cp) /\ CopyExtends
        /\ WriteProgress /\ f_pc = "write"
    BY DEF FileInv, FI!Finish
  <1>1. /\ f_pc' = "idle" /\ f_req' = FI!NoReq /\ f_cp' = FI!NoBlocks
        /\ f_written' = 0 /\ f_idx' = 0 /\ f_start' = 0
        /\ f_inode' = [f_cp EXCEPT !.size = FI!NewSize] /\ UNCHANGED <<f_data, f_marked>>
    BY DEF FI!Finish, FI!Return
  <1>2. /\ DOMAIN f_known' = FI!Offsets
        /\ \A o \in FI!Offsets :
             f_known'[o] = IF o \in f_req.offset .. f_req.offset + f_written - 1
                           THEN f_req.value ELSE f_known[o]
    BY DEF FI!Finish
  <1>3. /\ f_cp.size \in Nat /\ f_req.offset \in Nat /\ f_written \in Nat /\ f_cp \in Inodes
    BY <1>0 DEF FileTyped, Inodes
  <1>4. /\ FI!NewSize \in Nat /\ FI!NewSize >= f_cp.size /\ FI!NewSize >= f_req.offset + f_written
    BY <1>3 DEF FI!NewSize
  <1>5. f_inode' \in Inodes /\ f_inode'.ptr = f_cp.ptr /\ f_inode'.size = FI!NewSize
    BY <1>1, <1>3, <1>4 DEF Inodes
  <1>6. f_cp' \in Inodes /\ f_req'.offset = 0 /\ f_req'.size = 0 /\ 0 \in FI!InBlock
    BY <1>1 DEF FI!NoBlocks, FI!NoReq, Inodes, FileAssumed, FI!InBlock
  <1>7. FileTyped'
    <2>1. f_inode' \in Inodes /\ f_cp' \in Inodes /\ f_marked' \subseteq FI!Blocks
      BY <1>0, <1>1, <1>5, <1>6 DEF FileTyped
    <2>2. DOMAIN f_data' = FI!Blocks /\ \A b \in FI!Blocks : DOMAIN f_data'[b] = FI!InBlock
      BY <1>0, <1>1 DEF FileTyped
    <2>3. /\ f_req'.offset \in Nat /\ f_req'.size \in Nat /\ f_written' \in 0 .. f_req'.size
          /\ f_idx' \in Nat /\ f_start' \in FI!InBlock
      BY <1>1, <1>6
    <2> QED
      BY <1>1, <1>2, <2>1, <2>2, <2>3 DEF FileTyped, FI!Ptrs, FI!Blocks, FI!InBlock, FI!Offsets, Inodes
  <1>8. OwnBlocks(f_inode)'
    BY <1>0, <1>1, <1>5 DEF OwnBlocks, FI!Ptrs
  <1>9. ASSUME NEW o \in FI!Offsets, f_known'[o] # NULL
        PROVE  o < f_inode'.size /\ HasByte(f_cp, o) /\ Byte(f_cp, o) = f_known'[o]
    <2>1. CASE o \in f_req.offset .. f_req.offset + f_written - 1
      <3>1. HasByte(f_cp, o) /\ Byte(f_cp, o) = f_req.value
        BY <1>0, <2>1 DEF WriteProgress
      <3>2. o < f_inode'.size
        BY <1>3, <1>4, <1>5, <2>1
      <3> QED
        BY <1>2, <2>1, <3>1, <3>2
    <2>2. CASE o \notin f_req.offset .. f_req.offset + f_written - 1
      <3>1. o < f_inode.size /\ HasByte(f_inode, o) /\ Byte(f_inode, o) = f_known[o]
            /\ f_known'[o] = f_known[o]
        BY <1>0, <1>2, <1>9, <2>2 DEF KnownOK
      <3>2. f_cp.ptr[o \div BlockBytes] = f_inode.ptr[o \div BlockBytes]
        BY <1>0, <3>1 DEF HasByte, CopyExtends
      <3>3. o < f_inode'.size
        BY <1>0, <1>3, <1>4, <1>5, <3>1 DEF CopyExtends, FI!Offsets
      <3> QED
        BY <3>1, <3>2, <3>3 DEF HasByte, Byte
    <2> QED
      BY <2>1, <2>2
  <1>10. KnownOK'
    BY <1>1, <1>5, <1>9 DEF KnownOK, HasByte, Byte, FI!Ptrs, FI!Offsets
  <1> QED
    BY <1>1, <1>7, <1>8, <1>10 DEF FileInv

\* Every step of rufs_write.
LEMMA FileStep ==
  ASSUME FileAssumed, FileInv, [FI!Next]_(FI!vars)
  PROVE  FileInv'
  <1>1. CASE UNCHANGED FI!vars
    BY <1>1 DEF FI!vars, FileInv, FileTyped, KnownOK, OwnBlocks, CopyExtends, WriteProgress, HasByte, Byte,
      FI!Ptrs, FI!Blocks, FI!InBlock, FI!Offsets, Inodes
  <1>2. CASE FI!Next
    BY <1>2, FileWrite, FileAllocate, FileNoSpace, FileCopy, FileFinish DEF FI!Next
  <1> QED
    BY <1>1, <1>2

\* What is known to be in the file is what rufs_read returns.
LEMMA FileReads ==
  ASSUME FileAssumed, FileInv
  PROVE  ReadsBack
  <1>0. FileTyped /\ KnownOK
    BY DEF FileInv
  <1> SUFFICES ASSUME NEW o \in FI!Offsets, NEW n \in 1 .. WriteMax,
                      \A k \in 0 .. n - 1 : o + k \in FI!Offsets /\ f_known[o + k] # NULL
               PROVE  FI!rufs_read(o, n) = [k \in 1 .. n |-> f_known[o + k - 1]]
    BY DEF ReadsBack, FI!ReadsBack
  <1>1. o \in Nat /\ n \in Nat /\ n > 0 /\ f_inode.size \in Nat
    BY <1>0 DEF FI!Offsets, FileAssumed, FileTyped, Inodes
  <1>2. \A k \in 0 .. n - 1 : /\ o + k < f_inode.size /\ FI!Present(o + k)
                              /\ FI!ByteAt(o + k) = f_known[o + k]
    BY <1>0 DEF KnownOK, HasByte, Byte, FI!Present, FI!ByteAt
  <1>3. o < f_inode.size /\ n <= f_inode.size - o
    <2>1. n - 1 \in 0 .. n - 1 /\ 0 \in 0 .. n - 1
      BY <1>1
    <2>2. o + (n - 1) < f_inode.size /\ o + 0 < f_inode.size
      BY <1>2, <2>1
    <2> QED
      BY <1>1, <2>2
  <1>4. FI!Min({n, f_inode.size - o}) = n
    <2>1. PICK m \in Nat : m = f_inode.size - o
      BY <1>1, <1>3
    <2>2. FI!Min({n, m}) \in {n, m} /\ \A x \in {n, m} : FI!Min({n, m}) <= x
      BY <1>1, MinIsLeast
    <2> QED
      BY <1>1, <1>3, <2>1, <2>2
  <1>5. FI!ReadLength(o, n) = n
    <2>1. (IF o >= f_inode.size THEN 0 ELSE FI!Min({n, f_inode.size - o})) = n
      BY <1>1, <1>3, <1>4
    <2>2. {k \in 0 .. n - 1 : ~FI!Present(o + k)} = {}
      BY <1>2
    <2> QED
      BY <2>1, <2>2 DEF FI!ReadLength
  <1>6. \A k \in 1 .. n : FI!ByteAt(o + k - 1) = f_known[o + k - 1]
    <2> SUFFICES ASSUME NEW k \in 1 .. n PROVE FI!ByteAt(o + k - 1) = f_known[o + k - 1]
      OBVIOUS
    <2>1. k - 1 \in 0 .. n - 1 /\ o + (k - 1) = o + k - 1
      BY <1>1
    <2>2. FI!ByteAt(o + (k - 1)) = f_known[o + (k - 1)]
      BY <1>2, <2>1
    <2> QED
      BY <2>1, <2>2
  <1> QED
    BY <1>5, <1>6 DEF FI!rufs_read

\* Whatever calls of rufs_write come and go, the ones that run out of blocks
\* half way included, what a successful one has written is read back until it
\* is written over, for blocks, files and disks of any size.
THEOREM WrittenIsRead ==
  ASSUME FileAssumed
  PROVE  FI!Spec => []ReadsBack
  <1>1. FI!Init => FileInv
    BY FileInit
  <1>2. FileInv /\ [FI!Next]_(FI!vars) => FileInv'
    BY FileStep
  <1>3. FileInv => ReadsBack
    BY FileReads
  <1> QED
    BY <1>1, <1>2, <1>3, PTL DEF FI!Spec

-----------------------------------------------------------------------------
(***************************************************************************)
(* Addresses with 4 KB pages                                               *)
(***************************************************************************)
\* Pages of 4 KB in a space of 4 GB.
AddressPages == 2 ^ 20

\* The bytes of a page.
PageBytes == 0 .. 4095

\* Page numbers and the sizes of requests fit in 32-bit addresses and sizes.
GeometryAssumed ==
  /\ StartVpn \in Nat /\ VpnLimit \in 0 .. AddressPages /\ RegionPages \in Nat /\ NumFrames \in Nat
  /\ Requests \subseteq (0 .. AddressPages - 1) \X PageBytes

Region == [va : Nat, size : Requests, n : Nat, pa : Seq(Nat)]

\* The first page of a region, its pages, and its frames so far.
Vpn(r) == PG!Shift(r.va)
RegionVpns(r) == Vpn(r) .. Vpn(r) + r.n - 1
RegionFrames(r) == {PG!Shift(r.pa[i]) : i \in 1 .. Len(r.pa)}

\* What n_malloc has made of a request: as many pages as it takes, from a whole
\* page on, and for the first of them frames in the page tables.
RegionOK(r) ==
  /\ r \in Region /\ r.n > 0 /\ (r.size[1] < r.n \/ r.size = <<r.n, 0>>) /\ r.n = PG!num_pages(r.size)
  /\ Vpn(r) \in Nat /\ r.va = Vpn(r) * 4096 /\ StartVpn <= Vpn(r) /\ Vpn(r) + r.n <= VpnLimit
  /\ Len(r.pa) <= r.n
  /\ \A i \in 1 .. Len(r.pa) :
       /\ PG!Shift(r.pa[i]) \in Nat \ {0} /\ r.pa[i] = PG!Shift(r.pa[i]) * 4096
       /\ g_pt[PG!Slot((Vpn(r) + i - 1) * 4096)] = r.pa[i]

\* Two regions have nothing in common.
RegionsApart(r, q) ==
  RegionVpns(r) \cap RegionVpns(q) = {} /\ RegionFrames(r) \cap RegionFrames(q) = {}

\* The n_malloc under way, and all that have or get pages.
Calls == IF g_cur = PG!NoCall THEN {} ELSE {g_cur}
Holders == g_regions \cup Calls

GeometryInv ==
  /\ DOMAIN g_pt = PG!AllSlots
  /\ \A r \in Holders : RegionOK(r)
  /\ \A r \in g_regions : Len(r.pa) = r.n
  /\ \A r \in Calls : Len(r.pa) < r.n
  /\ \A r, q \in Holders : r # q => RegionsApart(r, q)
  /\ g_virt = 0 .. StartVpn - 1 \cup UNION {RegionVpns(r) : r \in Holders}
  /\ g_phys = {0} \cup UNION {RegionFrames(r) : r \in Holders}

\* The constants of my_vm.h for 4 KB pages.
LEMMA Sizes4K ==
  /\ PG!PGSIZE = 4096 /\ 2 ^ PG!PFN_SHIFT = 4096
  /\ PG!PDXSHIFT = 22 /\ PG!PTXSHIFT = 12 /\ PG!PXSIZE = 1024
  <1>1. 12 - 11 = 1
    OBVIOUS
  <1>2. PG!PDXSHIFT = 22 /\ PG!PXSIZE = 1024
    BY <1>1, SMT DEF PG!PDXSHIFT, PG!PXSIZE
  <1> QED
    BY <1>2, SMT DEF PG!PGSIZE, PG!PTXSHIFT, PG!PFN_SHIFT

\* Shifting an address right undoes shifting its page number left.
LEMMA ShiftBack == \A v \in Nat : PG!Shift(v * 4096) = v
  BY Sizes4K, SMT DEF PG!Shift

\* Every page of the address space has a page-table entry of its own.
LEMMA SlotsApart ==
  ASSUME NEW v \in 0 .. AddressPages - 1, NEW w \in 0 .. AddressPages - 1,
         PG!Slot(v * 4096) = PG!Slot(w * 4096)
  PROVE  v = w
  <1>1. ASSUME NEW x \in 0 .. AddressPages - 1
        PROVE  PG!PDX(x * 4096) = x \div 1024 /\ PG!PTX(x * 4096) = x % 1024
    <2>1. 2 ^ 22 = 4194304 /\ 2 ^ 12 = 4096
      BY SMT
    <2>0. x \in Nat /\ x <= 1048575
      BY SMT DEF AddressPages
    <2>2. PG!PDX(x * 4096) = ((x * 4096) \div 4194304) % 1024 /\ PG!PTX(x * 4096) = ((x * 4096) \div 4096) % 1024
      BY <2>0, <2>1, Sizes4K, SMT DEF PG!PDX, PG!PTX
    <2>3. (x * 4096) \div 4194304 = x \div 1024 /\ (x * 4096) \div 4096 = x
      BY <2>0, SMT
    <2>4. (x \div 1024) % 1024 = x \div 1024
      BY <2>0, SMT
    <2> QED
      BY <2>2, <2>3, <2>4, SMT
  <1>2. PG!PDX(v * 4096) = PG!PDX(w * 4096) /\ PG!PTX(v * 4096) = PG!PTX(w * 4096)
    BY SMT DEF PG!Slot
  <1>3. v \div 1024 = w \div 1024 /\ v % 1024 = w % 1024
    BY <1>1, <1>2, SMT
  <1>4. v \in Nat /\ w \in Nat
    BY SMT DEF AddressPages
  <1> QED
    BY <1>3, <1>4, SMT

\* The pages of a region have entries in the page tables.
LEMMA SlotThere ==
  ASSUME GeometryAssumed, NEW v \in StartVpn .. VpnLimit
  PROVE  PG!Slot(v * 4096) \in PG!AllSlots
  <1>1. StartVpn \in Nat /\ 0 \in 0 .. RegionPages
    BY SMT DEF GeometryAssumed
  <1>2. v * 2 ^ PG!PFN_SHIFT + 0 * PG!PGSIZE = v * 4096
    BY <1>1, Sizes4K, SMT
  <1> QED
    BY <1>1, <1>2, SMT DEF PG!AllSlots

\* The address, the number and the entry of a region's page.
LEMMA PageOfRegion ==
  ASSUME GeometryAssumed, NEW r, RegionOK(r), NEW i \in 0 .. r.n - 1
  PROVE  /\ PG!PageVa(r, i) = (Vpn(r) + i) * 4096 /\ PG!Shift(PG!PageVa(r, i)) = Vpn(r) + i
         /\ Vpn(r) + i \in RegionVpns(r) /\ Vpn(r) + i \in 0 .. AddressPages - 1
         /\ PG!Slot((Vpn(r) + i) * 4096) \in PG!AllSlots
  <1>1. /\ Vpn(r) \in Nat /\ r.va = Vpn(r) * 4096 /\ StartVpn <= Vpn(r) /\ Vpn(r) + r.n <= VpnLimit
        /\ r.n \in Nat /\ i \in Nat /\ StartVpn \in Nat /\ VpnLimit \in 0 .. AddressPages
    BY SMT DEF RegionOK, Region, GeometryAssumed
  <1>2. PG!PageVa(r, i) = r.va + i * 4096
    BY Sizes4K, SMT DEF PG!PageVa
  <1>3. PICK v \in Nat : v = Vpn(r)
    BY <1>1
  <1>4. PG!PageVa(r, i) = (v + i) * 4096
    BY <1>1, <1>2, <1>3, SMT
  <1>5. v + i \in Nat /\ v + i \in v .. v + r.n - 1 /\ v + i \in 0 .. AddressPages - 1 /\ v + i \in StartVpn .. VpnLimit
    BY <1>1, <1>3, SMT DEF AddressPages
  <1>6. PG!Shift((v + i) * 4096) = v + i
    BY <1>5, ShiftBack, SMT
  <1>7. PG!Slot((v + i) * 4096) \in PG!AllSlots
    BY <1>5, SlotThere, SMT
  <1> QED
    BY <1>3, <1>4, <1>5, <1>6, <1>7, SMT DEF RegionVpns

\* num_bytes, rounded up to pages, does not wrap unless it becomes 0.
LEMMA RoundedUp ==
  ASSUME GeometryAssumed, NEW size \in Requests, PG!num_pages(size) > 0
  PROVE  /\ PG!num_pages(size) \in Nat
         /\ size[1] < PG!num_pages(size) \/ size = <<PG!num_pages(size), 0>>
  <1>1. PICK q \in 0 .. AddressPages - 1, r \in 0 .. 4095 : size = <<q, r>>
    <2>1. size \in (0 .. AddressPages - 1) \X PageBytes
      BY DEF GeometryAssumed
    <2>2. PICK A : A = 0 .. AddressPages - 1
      OBVIOUS
    <2>3. \E a \in A, b \in PageBytes : size = <<a, b>>
      BY <2>1, <2>2
    <2> QED
      BY <2>2, <2>3 DEF PageBytes
  <1>2. PG!num_pages(size) = (q + (IF r > 0 THEN 1 ELSE 0)) % AddressPages
    <2>1. 32 - 12 = 20
      BY SMT
    <2> QED
      BY <1>1, <2>1, SMT DEF PG!num_pages, AddressPages
  <1>3. PICK n : n = PG!num_pages(size)
    OBVIOUS
  <1>4. n > 0 => n \in Nat /\ (q < n \/ (q = n /\ r = 0))
    <2>1. q \in Nat /\ q <= 1048575 /\ r \in Nat
      BY SMT DEF AddressPages
    <2>2. n = (q + (IF r > 0 THEN 1 ELSE 0)) % 1048576
      BY <1>2, <1>3, SMT DEF AddressPages
    <2> QED
      BY <2>1, <2>2, SMT
  <1>5. size[1] = q
    BY <1>1
  <1>6. q = n /\ r = 0 => size = <<n, 0>>
    BY <1>1
  <1> QED
    BY <1>3, <1>4, <1>5, <1>6

\* n_free finds the pages and frames that n_malloc gave the region.
LEMMA RegionPagesAre ==
  ASSUME GeometryAssumed, NEW r, RegionOK(r)
  PROVE  {PG!Shift(PG!PageVa(r, i)) : i \in 0 .. r.n - 1} = RegionVpns(r)
  <1>1. Vpn(r) \in Nat /\ r.n \in Nat
    BY DEF RegionOK, Region
  <1>2. \A i \in 0 .. r.n - 1 : PG!Shift(PG!PageVa(r, i)) = Vpn(r) + i
    BY PageOfRegion
  <1>3. \A v \in RegionVpns(r) : v - Vpn(r) \in 0 .. r.n - 1 /\ v = Vpn(r) + (v - Vpn(r))
    BY <1>1 DEF RegionVpns
  <1>4. \A i \in 0 .. r.n - 1 : Vpn(r) + i \in RegionVpns(r)
    BY <1>1 DEF RegionVpns
  <1> QED
    BY <1>2, <1>3, <1>4

\* Where a region's page has its entry, a page outside the region has not.
LEMMA EntryOfOther ==
  ASSUME GeometryAssumed, NEW r, RegionOK(r), NEW q, RegionOK(q),
         RegionVpns(r) \cap RegionVpns(q) = {},
         NEW i \in 0 .. r.n - 1, NEW j \in 0 .. q.n - 1
  PROVE  PG!Slot((Vpn(r) + i) * 4096) # PG!Slot((Vpn(q) + j) * 4096)
  <1>1. Vpn(r) + i \in RegionVpns(r) /\ Vpn(r) + i \in 0 .. AddressPages - 1
    BY PageOfRegion
  <1>2. Vpn(q) + j \in RegionVpns(q) /\ Vpn(q) + j \in 0 .. AddressPages - 1
    BY PageOfRegion
  <1>3. PICK v, w \in 0 .. AddressPages - 1 : v = Vpn(r) + i /\ w = Vpn(q) + j
    BY <1>1, <1>2
  <1>4. v # w
    BY <1>1, <1>2, <1>3
  <1>5. PG!Slot(v * 4096) # PG!Slot(w * 4096)
    BY <1>4, SlotsApart
  <1> QED
    BY <1>3, <1>5

\* Nobody holds a page yet.
LEMMA GeometryInit == GeometryAssumed /\ PG!Init => GeometryInv
  <1> SUFFICES ASSUME GeometryAssumed, PG!Init PROVE GeometryInv
    OBVIOUS
  <1>1. Holders = {} /\ Calls = {} /\ g_regions = {}
    BY DEF PG!Init, Holders, Calls
  <1> QED
    BY <1>1 DEF PG!Init, GeometryInv

\* A region stays right when the entries of its pages stay.
LEMMA RegionStays ==
  ASSUME NEW r, RegionOK(r),
         \A i \in 1 .. Len(r.pa) : LET s == PG!Slot((Vpn(r) + i - 1) * 4096) IN g_pt'[s] = g_pt[s]
  PROVE  RegionOK(r)'
  BY DEF RegionOK

\* A region with the frame of one more page, in a page-table entry's form.
WithEntry(r, pa) == [r EXCEPT !.pa = Append(@, pa)]

\* Nothing else of the region changes.
LEMMA OneMoreEntry ==
  ASSUME NEW r \in Region, NEW x \in Nat, NEW d, d = WithEntry(r, x)
  PROVE  /\ d.va = r.va /\ d.size = r.size /\ d.n = r.n /\ d.pa = Append(r.pa, x) /\ d \in Region
  <1>1. PICK y \in Seq(Nat) : y = Append(r.pa, x)
    <2>1. PICK pa \in Seq(Nat) : pa = r.pa
      BY DEF Region
    <2>2. Append(pa, x) \in Seq(Nat)
      OBVIOUS
    <2> QED
      BY <2>1, <2>2, Zenon
  <1>3. d = [r EXCEPT !.pa = y]
    BY <1>1, Zenon DEF WithEntry
  <1>4. d \in Region
    BY <1>3 DEF Region
  <1>5. d.va = r.va /\ d.size = r.size /\ d.n = r.n /\ d.pa = y
    BY <1>3 DEF Region
  <1> QED
    BY <1>1, <1>4, <1>5, Zenon

\* n_malloc takes a free block of pages.
LEMMA GeometryMalloc ==
  ASSUME GeometryAssumed, GeometryInv, NEW size \in Requests, PG!n_malloc(size)
  PROVE  GeometryInv'
  <1>1. PICK n : n = PG!num_pages(size)
    OBVIOUS
  <1>2. g_cur = PG!NoCall /\ n > 0 /\ UNCHANGED <<g_phys, g_pt, g_regions>>
    BY <1>1 DEF PG!n_malloc
  <1>3. PICK v \in StartVpn .. VpnLimit - 1 :
          /\ PG!FreeBlock(v, n) /\ g_virt' = g_virt \cup v .. v + n - 1
          /\ g_cur' = [va |-> v * 4096, size |-> size, n |-> n, pa |-> <<>>]
    BY <1>1, Sizes4K DEF PG!n_malloc
  <1>4. n \in Nat /\ (size[1] < n \/ size = <<n, 0>>)
    BY <1>1, <1>2, RoundedUp
  <1>5. v \in Nat /\ StartVpn <= v /\ v + n <= VpnLimit /\ (v .. v + n - 1) \cap g_virt = {}
    BY <1>3, <1>4 DEF PG!FreeBlock, GeometryAssumed
  <1>6. PICK c : c = g_cur'
    OBVIOUS
  <1>7. /\ c.va = v * 4096 /\ c.size = size /\ c.n = n /\ c.pa = <<>> /\ c \in Region /\ Len(c.pa) = 0
    BY <1>3, <1>4, <1>5, <1>6 DEF Region
  <1>8. Vpn(c) = v /\ RegionVpns(c) = v .. v + n - 1 /\ RegionFrames(c) = {}
    <2>1. Vpn(c) = v
      BY <1>5, <1>7, ShiftBack DEF Vpn
    <2>2. 1 .. Len(c.pa) = {}
      BY <1>7
    <2> QED
      BY <1>7, <2>1, <2>2 DEF RegionVpns, RegionFrames
  <1>9. Holders = g_regions /\ Holders' = g_regions \cup {c} /\ Calls' = {c}
    <2>1. c # PG!NoCall
      BY <1>2, <1>7 DEF PG!NoCall
    <2>2. PG!NoCall' = PG!NoCall
      BY DEF PG!NoCall
    <2> QED
      BY <1>2, <1>6, <2>1, <2>2 DEF Holders, Calls
  <1>10. RegionOK(c)'
    BY <1>1, <1>2, <1>4, <1>5, <1>7, <1>8 DEF RegionOK
  <1>11. \A r \in g_regions : RegionOK(r)'
    BY <1>2, <1>9, RegionStays DEF GeometryInv
  <1>12. \A r \in g_regions : RegionsApart(r, c) /\ RegionsApart(c, r)
    BY <1>5, <1>8, <1>9 DEF GeometryInv, RegionsApart
  <1>13. g_virt' = 0 .. StartVpn - 1 \cup UNION {RegionVpns(r) : r \in g_regions \cup {c}}
    BY <1>3, <1>8, <1>9 DEF GeometryInv
  <1>14. g_phys' = {0} \cup UNION {RegionFrames(r) : r \in g_regions \cup {c}}
    BY <1>2, <1>8, <1>9 DEF GeometryInv
  <1>15. DOMAIN g_pt' = PG!AllSlots /\ \A r \in g_regions : Len(r.pa) = r.n
    BY <1>2 DEF GeometryInv
  <1>16. \A r, q \in Holders' : r # q => RegionsApart(r, q)
    BY <1>9, <1>12 DEF GeometryInv
  <1>17. \A r \in Holders' : RegionOK(r)'
    BY <1>9, <1>10, <1>11
  <1>18. \A r \in Calls' : Len(r.pa) < r.n
    BY <1>2, <1>4, <1>7, <1>9
  <1> QED
    BY <1>2, <1>9, <1>13, <1>14, <1>15, <1>16, <1>17, <1>18 DEF GeometryInv

\* One page: its entry gets a frame that nobody has.
LEMMA GeometryMap ==
  ASSUME GeometryAssumed, GeometryInv, PG!MapNext
  PROVE  GeometryInv'
  <1>1. PICK c : c = g_cur
    OBVIOUS
  <1>2. c # PG!NoCall /\ Calls = {c} /\ Holders = g_regions \cup {c}
    BY <1>1 DEF PG!MapNext, Calls, Holders
  <1>3. /\ RegionOK(c) /\ Len(c.pa) < c.n /\ c \in Region /\ Len(c.pa) \in Nat /\ c.n \in Nat
        /\ c.pa \in Seq(Nat)
    <2>1. RegionOK(c) /\ Len(c.pa) < c.n
      BY <1>2 DEF GeometryInv
    <2>2. c \in Region
      BY <2>1 DEF RegionOK
    <2>3. c.n \in Nat /\ c.pa \in Seq(Nat)
      BY <2>2 DEF Region
    <2> QED
      BY <2>1, <2>2, <2>3
  <1>4. PICK k \in Nat : k = Len(c.pa)
    BY <1>3
  <1>5. /\ PG!PageVa(c, k) = (Vpn(c) + k) * 4096 /\ PG!Shift(PG!PageVa(c, k)) = Vpn(c) + k
        /\ Vpn(c) + k \in RegionVpns(c) /\ PG!Slot((Vpn(c) + k) * 4096) \in PG!AllSlots
        /\ k \in 0 .. c.n - 1
    <2>1. k \in 0 .. c.n - 1
      BY <1>3, <1>4
    <2> QED
      BY <1>3, <2>1, PageOfRegion
  <1>6. PICK f \in (0 .. NumFrames - 1) \ g_phys :
          /\ g_phys' = g_phys \cup {f, PG!Shift(f * PG!PGSIZE)}
          /\ g_virt' = g_virt \cup {PG!Shift(PG!PageVa(c, Len(c.pa)))}
          /\ g_pt' = [g_pt EXCEPT ![PG!Slot(PG!PageVa(c, Len(c.pa)))] = f * PG!PGSIZE]
          /\ LET d == WithEntry(c, f * PG!PGSIZE) IN
               \/ Len(d.pa) < d.n /\ g_cur' = d /\ UNCHANGED g_regions
               \/ Len(d.pa) = d.n /\ g_cur' = PG!NoCall /\ g_regions' = g_regions \cup {d}
    BY <1>1, Zenon DEF PG!MapNext, WithEntry
  <1>60. PICK d : d = WithEntry(c, f * 4096)
    OBVIOUS
  <1>61. /\ g_phys' = g_phys \cup {f, PG!Shift(f * 4096)}
         /\ g_virt' = g_virt \cup {PG!Shift(PG!PageVa(c, k))}
         /\ g_pt' = [g_pt EXCEPT ![PG!Slot(PG!PageVa(c, k))] = f * 4096]
    BY <1>4, <1>6, Sizes4K
  <1>62. \/ Len(d.pa) < d.n /\ g_cur' = d /\ UNCHANGED g_regions
         \/ Len(d.pa) = d.n /\ g_cur' = PG!NoCall /\ g_regions' = g_regions \cup {d}
    BY <1>6, <1>60, Sizes4K
  <1>7. f \in Nat /\ f # 0 /\ f \notin g_phys /\ PG!Shift(f * 4096) = f /\ f * 4096 \in Nat
    <2>1. f \in Nat /\ 0 \in g_phys
      BY DEF GeometryAssumed, GeometryInv
    <2> QED
      BY <2>1, ShiftBack
  <1>8. /\ d.va = c.va /\ d.size = c.size /\ d.n = c.n /\ d.pa = Append(c.pa, f * 4096) /\ d \in Region
    <2>1. PICK x \in Nat : x = f * 4096
      BY <1>7
    <2>2. d = WithEntry(c, x) /\ c \in Region
      BY <1>3, <1>60, <2>1
    <2>3. d.va = c.va /\ d.size = c.size /\ d.n = c.n /\ d.pa = Append(c.pa, x) /\ d \in Region
      BY <2>2, OneMoreEntry
    <2> QED
      BY <2>1, <2>3
  <1>9. /\ Len(d.pa) = k + 1 /\ d.pa[k + 1] = f * 4096
        /\ \A i \in 1 .. k : d.pa[i] = c.pa[i]
    BY <1>3, <1>4, <1>7, <1>8
  <1>10. Vpn(d) = Vpn(c) /\ RegionVpns(d) = RegionVpns(c)
    BY <1>8 DEF Vpn, RegionVpns
  <1>11. RegionFrames(d) = RegionFrames(c) \cup {f}
    <2>1. \A i \in 1 .. k + 1 : i \in 1 .. k \/ i = k + 1
      BY <1>4
    <2>2. 1 .. k \subseteq 1 .. k + 1 /\ k + 1 \in 1 .. k + 1
      BY <1>4
    <2>3. RegionFrames(d) = {PG!Shift(d.pa[i]) : i \in 1 .. k + 1}
      BY <1>9 DEF RegionFrames
    <2>4. RegionFrames(c) = {PG!Shift(c.pa[i]) : i \in 1 .. k}
      BY <1>4 DEF RegionFrames
    <2> QED
      BY <1>7, <1>9, <2>1, <2>2, <2>3, <2>4
  <1>12. Holders' = g_regions \cup {d}
         /\ (\A r \in Calls' : Len(r.pa) < r.n) /\ (\A r \in g_regions' : Len(r.pa) = r.n)
    <2>1. d # PG!NoCall /\ PG!NoCall' = PG!NoCall
      BY <1>3, <1>8 DEF PG!NoCall
    <2>2. \A r \in g_regions : Len(r.pa) = r.n
      BY DEF GeometryInv
    <2>3. CASE Len(d.pa) < d.n /\ g_cur' = d /\ UNCHANGED g_regions
      BY <2>1, <2>2, <2>3 DEF Holders, Calls
    <2>4. CASE Len(d.pa) = d.n /\ g_cur' = PG!NoCall /\ g_regions' = g_regions \cup {d}
      BY <2>1, <2>2, <2>4 DEF Holders, Calls
    <2> QED
      BY <1>62, <2>3, <2>4
  <1>13. /\ DOMAIN g_pt' = PG!AllSlots /\ DOMAIN g_pt = PG!AllSlots
         /\ g_pt'[PG!Slot((Vpn(c) + k) * 4096)] = f * 4096
         /\ \A s \in PG!AllSlots : s # PG!Slot((Vpn(c) + k) * 4096) => g_pt'[s] = g_pt[s]
    <2>1. PICK t \in PG!AllSlots : t = PG!Slot((Vpn(c) + k) * 4096)
      BY <1>5
    <2>2. PICK pa : pa = f * 4096
      OBVIOUS
    <2>3. g_pt' = [g_pt EXCEPT ![t] = pa]
      BY <1>5, <1>61, <2>1, <2>2
    <2>4. DOMAIN g_pt = PG!AllSlots
      BY DEF GeometryInv
    <2>5. DOMAIN g_pt' = PG!AllSlots /\ g_pt'[t] = pa /\ \A s \in PG!AllSlots : s # t => g_pt'[s] = g_pt[s]
      BY <2>3, <2>4
    <2>6. g_pt'[PG!Slot((Vpn(c) + k) * 4096)] = f * 4096
      BY <2>1, <2>2, <2>5
    <2>7. \A s \in PG!AllSlots : s # PG!Slot((Vpn(c) + k) * 4096) => g_pt'[s] = g_pt[s]
      BY <2>1, <2>5
    <2> QED
      BY <2>4, <2>5, <2>6, <2>7
  <1>14. ASSUME NEW r, RegionOK(r), NEW i \in 1 .. Len(r.pa)
         PROVE  /\ i - 1 \in 0 .. r.n - 1 /\ Vpn(r) + (i - 1) = Vpn(r) + i - 1
                /\ PG!Slot((Vpn(r) + (i - 1)) * 4096) \in PG!AllSlots
    <2>1. r \in Region /\ Len(r.pa) <= r.n /\ Vpn(r) \in Nat
      BY <1>14 DEF RegionOK
    <2>2. r.n \in Nat /\ r.pa \in Seq(Nat)
      BY <2>1 DEF Region
    <2>3. i \in Nat /\ 1 <= i /\ i <= r.n
      BY <2>1, <2>2
    <2>4. i - 1 \in 0 .. r.n - 1 /\ Vpn(r) + (i - 1) = Vpn(r) + i - 1
      BY <2>1, <2>2, <2>3
    <2> QED
      BY <1>14, <2>4, PageOfRegion
  <1>15. ASSUME NEW r \in g_regions PROVE RegionOK(r)'
    <2>1. RegionOK(r) /\ (r # c => RegionVpns(r) \cap RegionVpns(c) = {}) /\ Len(r.pa) = r.n
      BY <1>2 DEF GeometryInv, RegionsApart
    <2>2. r # c
      BY <1>3, <2>1
    <2>3. ASSUME NEW i \in 1 .. Len(r.pa)
          PROVE  g_pt'[PG!Slot((Vpn(r) + i - 1) * 4096)] = g_pt[PG!Slot((Vpn(r) + i - 1) * 4096)]
      <3>1. /\ i - 1 \in 0 .. r.n - 1 /\ Vpn(r) + (i - 1) = Vpn(r) + i - 1
            /\ PG!Slot((Vpn(r) + (i - 1)) * 4096) \in PG!AllSlots
        BY <1>14, <2>1
      <3>2. PG!Slot((Vpn(r) + (i - 1)) * 4096) # PG!Slot((Vpn(c) + k) * 4096)
        BY <1>3, <1>5, <2>1, <2>2, <3>1, EntryOfOther
      <3> QED
        BY <1>13, <3>1, <3>2
    <2> QED
      BY <2>1, <2>3, RegionStays
  <1>16. RegionOK(d)'
    <2>1. ASSUME NEW i \in 1 .. k + 1
          PROVE  /\ PG!Shift(d.pa[i]) \in Nat \ {0} /\ d.pa[i] = PG!Shift(d.pa[i]) * 4096
                 /\ g_pt'[PG!Slot((Vpn(d) + i - 1) * 4096)] = d.pa[i]
      <3>1. CASE i = k + 1
        <4>1. Vpn(d) + i - 1 = Vpn(c) + k
          BY <1>3, <1>4, <1>10, <3>1 DEF RegionOK
        <4> QED
          BY <1>7, <1>9, <1>13, <3>1, <4>1
      <3>2. CASE i # k + 1
        <4>1. i \in 1 .. k /\ i - 1 # k
          BY <1>4, <3>2
        <4>2. /\ PG!Shift(c.pa[i]) \in Nat \ {0} /\ c.pa[i] = PG!Shift(c.pa[i]) * 4096
              /\ g_pt[PG!Slot((Vpn(c) + i - 1) * 4096)] = c.pa[i]
          BY <1>3, <1>4, <4>1 DEF RegionOK
        <4>3. /\ i - 1 \in 0 .. c.n - 1 /\ Vpn(c) + (i - 1) = Vpn(c) + i - 1
              /\ PG!Slot((Vpn(c) + (i - 1)) * 4096) \in PG!AllSlots
          BY <1>3, <1>4, <1>14, <4>1
        <4>4. Vpn(c) + (i - 1) \in 0 .. AddressPages - 1 /\ Vpn(c) + k \in 0 .. AddressPages - 1
          BY <1>3, <1>5, <4>3, PageOfRegion
        <4>5. Vpn(c) + (i - 1) # Vpn(c) + k
          <5>1. Vpn(c) \in Nat BY <1>3 DEF RegionOK
          <5>2. i \in Int /\ k \in Int BY <1>4
          <5> QED BY <4>1, <5>1, <5>2
        <4>6. PG!Slot((Vpn(c) + (i - 1)) * 4096) # PG!Slot((Vpn(c) + k) * 4096)
          BY <4>4, <4>5, SlotsApart
        <4> QED
          BY <1>9, <1>10, <1>13, <4>1, <4>2, <4>3, <4>6
      <3> QED
        BY <3>1, <3>2
    <2>2. /\ d \in Region /\ d.n > 0 /\ (d.size[1] < d.n \/ d.size = <<d.n, 0>>)
          /\ d.n = PG!num_pages(d.size)
          /\ Vpn(d) \in Nat /\ d.va = Vpn(d) * 4096 /\ StartVpn <= Vpn(d) /\ Vpn(d) + d.n <= VpnLimit
      BY <1>3, <1>8, <1>10 DEF RegionOK
    <2>3. Len(d.pa) <= d.n
      BY <1>3, <1>4, <1>8, <1>9
    <2> QED
      BY <1>9, <2>1, <2>2, <2>3 DEF RegionOK
  <1>17. \A r, q \in g_regions \cup {d} : r # q => RegionsApart(r, q)
    <2>1. ASSUME NEW r \in g_regions PROVE RegionsApart(r, d) /\ RegionsApart(d, r)
      <3>1. r # c
        BY <1>3 DEF GeometryInv
      <3>2. RegionsApart(r, c)
        BY <1>2, <3>1 DEF GeometryInv
      <3>3. f \notin RegionFrames(r)
        BY <1>2, <1>7 DEF GeometryInv
      <3> QED
        BY <1>10, <1>11, <3>2, <3>3 DEF RegionsApart
    <2> QED
      BY <1>2, <2>1 DEF GeometryInv
  <1>18. g_virt' = 0 .. StartVpn - 1 \cup UNION {RegionVpns(r) : r \in g_regions \cup {d}}
    <2>1. g_virt' = g_virt \cup {Vpn(c) + k} /\ Vpn(c) + k \in RegionVpns(c)
      BY <1>5, <1>61
    <2>2. g_virt = 0 .. StartVpn - 1 \cup UNION {RegionVpns(r) : r \in g_regions \cup {c}}
      BY <1>2 DEF GeometryInv
    <2>3. UNION {RegionVpns(r) : r \in g_regions \cup {c}} = UNION {RegionVpns(r) : r \in g_regions \cup {d}}
      BY <1>10
    <2> QED
      BY <2>1, <2>2, <2>3
  <1>19. g_phys' = {0} \cup UNION {RegionFrames(r) : r \in g_regions \cup {d}}
    <2>1. g_phys' = g_phys \cup {f}
      BY <1>61, <1>7
    <2>2. g_phys = {0} \cup UNION {RegionFrames(r) : r \in g_regions \cup {c}}
      BY <1>2 DEF GeometryInv
    <2>3. UNION {RegionFrames(r) : r \in g_regions \cup {d}} = {f} \cup UNION {RegionFrames(r) : r \in g_regions \cup {c}}
      BY <1>11
    <2> QED
      BY <2>1, <2>2, <2>3
  <1>20. \A r \in g_regions \cup {d} : RegionOK(r)'
    BY <1>15, <1>16
  <1> QED
    BY <1>12, <1>13, <1>17, <1>18, <1>19, <1>20 DEF GeometryInv

\* n_free undoes for its region what n_malloc has done, and for no other.
LEMMA GeometryFree ==
  ASSUME GeometryAssumed, GeometryInv, NEW r \in g_regions, PG!n_free(r)
  PROVE  GeometryInv'
  <1>1. /\ g_cur = PG!NoCall /\ g_cur' = g_cur /\ g_regions' = g_regions \ {r}
        /\ Calls = {} /\ Holders = g_regions
    BY DEF PG!n_free, Calls, Holders
  <1>2. RegionOK(r) /\ Len(r.pa) = r.n /\ r.n = PG!num_pages(r.size) /\ r.n \in Nat
    <2>1. RegionOK(r) /\ Len(r.pa) = r.n
      BY <1>1 DEF GeometryInv
    <2>2. r \in Region /\ r.n = PG!num_pages(r.size)
      BY <2>1 DEF RegionOK
    <2> QED
      BY <2>1, <2>2 DEF Region
  <1>3. ASSUME NEW i \in 0 .. r.n - 1
        PROVE  /\ PG!Slot(PG!PageVa(r, i)) = PG!Slot((Vpn(r) + i) * 4096)
               /\ g_pt[PG!Slot(PG!PageVa(r, i))] = r.pa[i + 1] /\ r.pa[i + 1] # 0
    <2>1. PG!PageVa(r, i) = (Vpn(r) + i) * 4096
      BY <1>2, PageOfRegion
    <2>2. i + 1 \in 1 .. Len(r.pa) /\ Vpn(r) + (i + 1) - 1 = Vpn(r) + i
      BY <1>2 DEF RegionOK
    <2>3. /\ g_pt[PG!Slot((Vpn(r) + (i + 1) - 1) * 4096)] = r.pa[i + 1]
          /\ PG!Shift(r.pa[i + 1]) \in Nat \ {0} /\ r.pa[i + 1] = PG!Shift(r.pa[i + 1]) * 4096
      BY <1>2, <2>2 DEF RegionOK
    <2>4. r.pa[i + 1] # 0
      <3>1. PICK x \in Nat \ {0} : x = PG!Shift(r.pa[i + 1])
        BY <2>3
      <3> QED
        BY <2>3, <3>1
    <2> QED
      BY <2>1, <2>2, <2>3, <2>4
  <1>4. PICK slots : slots = {PG!Slot(PG!PageVa(r, i)) : i \in 0 .. r.n - 1}
    OBVIOUS
  <1>5. /\ g_phys' = g_phys \ {PG!Shift(g_pt[s]) : s \in slots}
        /\ g_virt' = g_virt \ {PG!Shift(PG!PageVa(r, i)) : i \in 0 .. r.n - 1}
        /\ g_pt' = [s \in DOMAIN g_pt |-> IF s \in slots THEN 0 ELSE g_pt[s]]
    <2>1. {i \in 0 .. PG!num_pages(r.size) - 1 : g_pt[PG!Slot(PG!PageVa(r, i))] # 0} = 0 .. r.n - 1
      BY <1>2, <1>3
    <2> QED
      BY <1>4, <2>1 DEF PG!n_free
  <1>6. {PG!Shift(g_pt[s]) : s \in slots} = RegionFrames(r)
    <2>1. {PG!Shift(g_pt[s]) : s \in slots} = {PG!Shift(r.pa[i + 1]) : i \in 0 .. r.n - 1}
      BY <1>3, <1>4
    <2>2. \A i \in 0 .. r.n - 1 : i + 1 \in 1 .. Len(r.pa)
      BY <1>2
    <2>3. \A i \in 1 .. Len(r.pa) : i - 1 \in 0 .. r.n - 1 /\ i = (i - 1) + 1
      BY <1>2
    <2> QED
      BY <2>1, <2>2, <2>3 DEF RegionFrames
  <1>7. {PG!Shift(PG!PageVa(r, i)) : i \in 0 .. r.n - 1} = RegionVpns(r)
    BY <1>2, RegionPagesAre
  <1>8. Calls' = {} /\ Holders' = g_regions \ {r}
    <2>1. PG!NoCall' = PG!NoCall
      BY DEF PG!NoCall
    <2> QED
      BY <1>1, <2>1 DEF Calls, Holders
  <1>9. ASSUME NEW q \in g_regions \ {r} PROVE RegionOK(q)'
    <2>1. RegionOK(q) /\ Len(q.pa) = q.n /\ RegionVpns(q) \cap RegionVpns(r) = {}
      BY <1>1 DEF GeometryInv, RegionsApart
    <2>2. ASSUME NEW i \in 1 .. Len(q.pa)
          PROVE  g_pt'[PG!Slot((Vpn(q) + i - 1) * 4096)] = g_pt[PG!Slot((Vpn(q) + i - 1) * 4096)]
      <3>1. i - 1 \in 0 .. q.n - 1 /\ Vpn(q) + (i - 1) = Vpn(q) + i - 1
        BY <2>1 DEF RegionOK, Region
      <3>2. PG!Slot((Vpn(q) + (i - 1)) * 4096) \in PG!AllSlots
        BY <2>1, <3>1, PageOfRegion
      <3>3. \A j \in 0 .. r.n - 1 :
              PG!Slot((Vpn(q) + (i - 1)) * 4096) # PG!Slot((Vpn(r) + j) * 4096)
        BY <1>2, <2>1, <3>1, EntryOfOther
      <3>4. PG!Slot((Vpn(q) + (i - 1)) * 4096) \notin slots
        BY <1>3, <1>4, <3>3
      <3> QED
        BY <1>5, <3>1, <3>2, <3>4 DEF GeometryInv
    <2> QED
      BY <2>1, <2>2, RegionStays
  <1>10. \A q \in g_regions \ {r} : RegionsApart(q, r)
    BY <1>1 DEF GeometryInv
  <1>11. g_virt' = 0 .. StartVpn - 1 \cup UNION {RegionVpns(q) : q \in g_regions \ {r}}
    <2>1. g_virt' = g_virt \ RegionVpns(r)
      BY <1>5, <1>7
    <2>2. g_virt = 0 .. StartVpn - 1 \cup UNION {RegionVpns(q) : q \in g_regions}
      BY <1>1 DEF GeometryInv
    <2>3. (0 .. StartVpn - 1) \cap RegionVpns(r) = {}
      BY <1>2 DEF RegionOK, RegionVpns, GeometryAssumed
    <2>4. \A q \in g_regions \ {r} : RegionVpns(q) \cap RegionVpns(r) = {}
      BY <1>10 DEF RegionsApart
    <2> QED
      BY <2>1, <2>2, <2>3, <2>4
  <1>12. g_phys' = {0} \cup UNION {RegionFrames(q) : q \in g_regions \ {r}}
    <2>1. g_phys' = g_phys \ RegionFrames(r)
      BY <1>5, <1>6
    <2>2. g_phys = {0} \cup UNION {RegionFrames(q) : q \in g_regions}
      BY <1>1 DEF GeometryInv
    <2>3. 0 \notin RegionFrames(r)
      BY <1>2 DEF RegionOK, RegionFrames
    <2>4. \A q \in g_regions \ {r} : RegionFrames(q) \cap RegionFrames(r) = {}
      BY <1>10 DEF RegionsApart
    <2> QED
      BY <2>1, <2>2, <2>3, <2>4
  <1>13. DOMAIN g_pt' = PG!AllSlots
    BY <1>5 DEF GeometryInv
  <1>14. \A q, s \in g_regions \ {r} : q # s => RegionsApart(q, s)
    BY <1>1 DEF GeometryInv
  <1>15. \A q \in g_regions \ {r} : Len(q.pa) = q.n
    BY DEF GeometryInv
  <1> QED
    BY <1>1, <1>8, <1>9, <1>11, <1>12, <1>13, <1>14, <1>15 DEF GeometryInv

\* Every step.
LEMMA GeometryStep ==
  GeometryAssumed /\ GeometryInv /\ [PG!Next]_(PG!vars) => GeometryInv'
  <1> SUFFICES ASSUME GeometryAssumed, GeometryInv, [PG!Next]_(PG!vars) PROVE GeometryInv'
    OBVIOUS
  <1>1. ASSUME NEW size \in Requests, PG!n_malloc(size) PROVE GeometryInv'
    BY <1>1, GeometryMalloc
  <1>2. CASE PG!MapNext
    BY <1>2, GeometryMap
  <1>3. ASSUME NEW r \in g_regions, PG!n_free(r) PROVE GeometryInv'
    BY <1>3, GeometryFree
  <1>4. CASE UNCHANGED PG!vars
    <2>1. UNCHANGED <<g_virt, g_phys, g_pt, g_regions, g_cur>>
      BY <1>4 DEF PG!vars
    <2>2. Calls' = Calls /\ Holders' = Holders
      BY <2>1 DEF Calls, Holders, PG!NoCall
    <2>3. \A r : RegionOK(r) => RegionOK(r)'
      BY <2>1, RegionStays
    <2> QED
      BY <2>1, <2>2, <2>3 DEF GeometryInv
  <1>5. ASSUME NEW size \in Requests, PG!n_malloc_fails(size) PROVE GeometryInv'
    BY <1>4, <1>5 DEF PG!n_malloc_fails
  <1> QED
    BY <1>1, <1>2, <1>3, <1>4, <1>5 DEF PG!Next

\* What a caller holds is what it has asked for.
LEMMA GeometryBacks == GeometryAssumed /\ GeometryInv => BackedByOwnFrame
  <1> SUFFICES ASSUME GeometryAssumed, GeometryInv PROVE BackedByOwnFrame
    OBVIOUS
  <1>1. ASSUME NEW r \in g_regions
        PROVE  /\ RegionOK(r) /\ Len(r.pa) = r.n /\ r.n \in Nat
               /\ PG!Pages(r) = RegionVpns(r) /\ PG!FramesOf(r) = RegionFrames(r)
    <2>1. RegionOK(r) /\ Len(r.pa) = r.n
      BY DEF GeometryInv, Holders
    <2>2. r.n \in Nat
      BY <2>1 DEF RegionOK, Region
    <2> QED
      BY <2>1, <2>2, RegionPagesAre DEF PG!Pages, PG!FramesOf, RegionFrames
  <1>2. ASSUME NEW r \in g_regions, NEW i \in 0 .. r.n - 1
        PROVE  g_pt[PG!Slot(PG!PageVa(r, i))] = r.pa[i + 1]
    <2>1. PG!PageVa(r, i) = (Vpn(r) + i) * 4096
      BY <1>1, PageOfRegion
    <2>2. i + 1 \in 1 .. Len(r.pa) /\ Vpn(r) + (i + 1) - 1 = Vpn(r) + i
      BY <1>1 DEF RegionOK
    <2>3. g_pt[PG!Slot((Vpn(r) + (i + 1) - 1) * 4096)] = r.pa[i + 1]
      BY <1>1, <2>2 DEF RegionOK
    <2> QED
      BY <2>1, <2>2, <2>3
  <1>3. \A r \in g_regions : r.size[1] < r.n \/ r.size = <<r.n, 0>>
    BY <1>1 DEF RegionOK
  <1>4. \A r, q \in g_regions : r # q => PG!FramesOf(r) \cap PG!FramesOf(q) = {}
    BY <1>1 DEF GeometryInv, Holders, RegionsApart
  <1>5. ASSUME g_cur = PG!NoCall
        PROVE  /\ g_virt = 0 .. StartVpn - 1 \cup UNION {PG!Pages(r) : r \in g_regions}
               /\ g_phys = {0} \cup UNION {PG!FramesOf(r) : r \in g_regions}
    <2>1. Holders = g_regions
      BY <1>5 DEF Holders, Calls
    <2> QED
      BY <1>1, <2>1 DEF GeometryInv
  <1> QED
    BY <1>2, <1>3, <1>4, <1>5 DEF BackedByOwnFrame, PG!BackedByOwnFrame

\* With 4 KB pages in a space of 4 GB, every byte of a request that n_malloc
\* has granted is translated to the frame n_malloc took for its page, no frame
\* serves two requests, and the bitmaps mark what the live requests use and
\* nothing else: n_free gives back the pages and frames of its request only.
THEOREM EveryByteBacked ==
  ASSUME GeometryAssumed
  PROVE  PG!Spec => []BackedByOwnFrame
  <1>1. PG!Init => GeometryInv
    BY GeometryInit
  <1>2. GeometryInv /\ [PG!Next]_(PG!vars) => GeometryInv'
    BY GeometryStep
  <1>3. GeometryInv => BackedByOwnFrame
    BY GeometryBacks
  <1> QED
    BY <1>1, <1>2, <1>3, PTL DEF PG!Spec

-----------------------------------------------------------------------------
(***************************************************************************)
(* The list of the round-robin scheduler                                   *)
(***************************************************************************)
\* NULL is no node and no thread, and no tick comes between the test of a tail
\* that is not NULL and the store of the new tail.
QueueAssumed ==
  /\ QueueWorkers \in Nat
  /\ "link_tail" \notin TickPoints /\ "set_tail" \notin TickPoints
  /\ NULL \notin RQ!Nodes /\ NULL \notin RQ!Threads

\* The recursive definition of Chain, unfolded.
Unfolded(f, nx, dt) ==
  \A n \in RQ!Nodes \cup {NULL} :
    /\ f[0][n] = <<>>
    /\ \A k \in 1 .. QueueWorkers + 2 :
         f[k][n] = IF n = NULL THEN <<>> ELSE <<dt[n]>> \o f[k - 1][nx[n]]

\* The first k levels of Chain.
Levels(g, k) ==
  g = [j \in 0 .. k |->
         [n \in RQ!Nodes \cup {NULL} |->
            IF n = NULL \/ j = 0 THEN <<>> ELSE <<q_data[n]>> \o g[j - 1][q_next[n]]]]

\* Induction on numbers up to a bound, for the set where a claim holds.
LEMMA UpTo ==
  ASSUME NEW N \in Nat, NEW P, 0 \in P, \A k \in 0 .. N - 1 : k \in P => k + 1 \in P
  PROVE  0 .. N \subseteq P
  <1> SUFFICES ASSUME ~(0 .. N \subseteq P) PROVE FALSE
    OBVIOUS
  <1>1. PICK S : S = {k \in 0 .. N : k \notin P}
    OBVIOUS
  <1>2. S \subseteq Nat /\ S # {}
    BY <1>1
  <1>3. PICK m \in S : \A x \in S : m <= x
    BY <1>2, LeastNumber
  <1>4. m \in 0 .. N /\ m \notin P /\ m # 0
    BY <1>1, <1>3
  <1>5. m - 1 \in 0 .. N - 1 /\ m - 1 \notin S
    BY <1>1, <1>3, <1>4
  <1>6. m - 1 \in P
    BY <1>1, <1>5
  <1> QED
    BY <1>4, <1>5, <1>6

\* Chain is what its definition says.
LEMMA ChainUnfolds == QueueAssumed => Unfolded(RQ!Chain, q_next, q_data)
  <1> SUFFICES ASSUME QueueAssumed PROVE Unfolded(RQ!Chain, q_next, q_data)
    OBVIOUS
  <1>1. PICK N \in Nat : N = QueueWorkers + 2
    BY DEF QueueAssumed
  <1>2. PICK D : D = RQ!Nodes \cup {NULL}
    OBVIOUS
  <1>3. PICK P : P = {k \in 0 .. N : \E g : Levels(g, k)}
    OBVIOUS
  <1>4. 0 \in P
    <2>1. PICK g : g = [j \in 0 .. 0 |-> [n \in D |-> <<>>]]
      OBVIOUS
    <2>2. Levels(g, 0)
      BY <1>2, <2>1 DEF Levels
    <2> QED
      BY <1>3, <2>2
  <1>5. ASSUME NEW k \in 0 .. N - 1, k \in P PROVE k + 1 \in P
    <2>1. PICK g : Levels(g, k)
      BY <1>3, <1>5
    <2>2. PICK h : h = [j \in 0 .. k + 1 |->
                          IF j <= k THEN g[j]
                          ELSE [n \in D |-> IF n = NULL \/ j = 0 THEN <<>>
                                            ELSE <<q_data[n]>> \o g[j - 1][q_next[n]]]]
      OBVIOUS
    <2>3. ASSUME NEW j \in 0 .. k + 1
          PROVE  h[j] = [n \in D |-> IF n = NULL \/ j = 0 THEN <<>> ELSE <<q_data[n]>> \o h[j - 1][q_next[n]]]
      <3>1. h[j] = [n \in D |-> IF n = NULL \/ j = 0 THEN <<>> ELSE <<q_data[n]>> \o g[j - 1][q_next[n]]]
        <4>1. CASE j <= k
          <5>1. \A l \in 0 .. k :
                  g[l] = [n \in D |-> IF n = NULL \/ l = 0 THEN <<>> ELSE <<q_data[n]>> \o g[l - 1][q_next[n]]]
            BY <1>2, <2>1, Zenon DEF Levels
          <5>2. j \in 0 .. k /\ h[j] = g[j]
            BY <2>2, <4>1
          <5> QED
            BY <5>1, <5>2, Zenon
        <4>2. CASE ~(j <= k)
          BY <2>2, <4>2, Zenon
        <4> QED
          BY <4>1, <4>2
      <3>2. CASE j = 0
        BY <3>1, <3>2
      <3>3. CASE j # 0
        <4>1. h[j - 1] = g[j - 1]
          BY <2>2, <3>3
        <4> QED
          BY <3>1, <4>1, Zenon
      <3> QED
        BY <3>2, <3>3
    <2>4. Levels(h, k + 1)
      BY <1>2, <2>2, <2>3 DEF Levels
    <2> QED
      BY <1>3, <2>4
  <1>6. N \in P
    BY <1>4, <1>5, UpTo
  <1>7. Levels(RQ!Chain, N)
    <2>1. \E g : Levels(g, N)
      BY <1>3, <1>6
    <2>2. RQ!Chain = CHOOSE g : Levels(g, N)
      BY <1>1 DEF RQ!Chain, Levels
    <2> QED
      BY <2>1, <2>2, Zenon
  <1> QED
    <2>1. ASSUME NEW k \in 0 .. N
          PROVE  RQ!Chain[k] = [n \in D |-> IF n = NULL \/ k = 0 THEN <<>>
                                            ELSE <<q_data[n]>> \o RQ!Chain[k - 1][q_next[n]]]
      BY <1>2, <1>7, Zenon DEF Levels
    <2>2. ASSUME NEW n \in D, NEW k \in 0 .. N
          PROVE  RQ!Chain[k][n] = IF n = NULL \/ k = 0 THEN <<>>
                                  ELSE <<q_data[n]>> \o RQ!Chain[k - 1][q_next[n]]
      BY <2>1, Zenon
    <2>3. 0 \in 0 .. N /\ \A k \in 1 .. QueueWorkers + 2 : k \in 0 .. N /\ k # 0
      BY <1>1
    <2> QED
      BY <1>2, <2>2, <2>3, Zenon DEF Unfolded

\* A sequence with one more element in front.
LEMMA InFront ==
  ASSUME NEW j \in Nat, NEW s, s = [i \in 1 .. j |-> s[i]], NEW x
  PROVE  <<x>> \o s = [i \in 1 .. j + 1 |-> IF i = 1 THEN x ELSE s[i - 1]]
  <1>1. PICK V : V = {s[i] : i \in 1 .. j} \cup {x}
    OBVIOUS
  <1>2. s \in [1 .. j -> V]
    BY <1>1
  <1>3. s \in Seq(V) /\ Len(s) = j /\ <<x>> \in Seq(V) /\ Len(<<x>>) = 1
    BY <1>1, <1>2
  <1> QED
    BY <1>3

\* A sequence with one more element at its end.
LEMMA AtEnd ==
  ASSUME NEW j \in Nat, NEW s, s = [i \in 1 .. j |-> s[i]], NEW x
  PROVE  Append(s, x) = [i \in 1 .. j + 1 |-> IF i <= j THEN s[i] ELSE x]
  <1>1. PICK V : V = {s[i] : i \in 1 .. j} \cup {x}
    OBVIOUS
  <1>2. s \in [1 .. j -> V]
    BY <1>1
  <1>3. s \in Seq(V) /\ Len(s) = j /\ x \in V
    BY <1>1, <1>2
  <1> QED
    BY <1>3

\* The first element of a sequence, and the others.
LEMMA FirstAndRest ==
  ASSUME NEW j \in Nat, NEW s, NEW x, NEW e, e = [i \in 1 .. j + 1 |-> IF i <= j THEN s[i] ELSE x]
  PROVE  /\ Head(e) = IF j = 0 THEN x ELSE s[1]
         /\ Tail(e) = [i \in 1 .. j |-> IF i < j THEN s[i + 1] ELSE x]
  <1>1. PICK V : V = {s[i] : i \in 1 .. j} \cup {x}
    OBVIOUS
  <1>2. e \in [1 .. j + 1 -> V]
    BY <1>1
  <1>3. e \in Seq(V) /\ Len(e) = j + 1
    BY <1>2
  <1>4. Head(e) = e[1] /\ Tail(e) = [i \in 1 .. j |-> e[i + 1]]
    BY <1>3
  <1>5. \A i \in 1 .. j : e[i + 1] = IF i < j THEN s[i + 1] ELSE x
    OBVIOUS
  <1>6. e[1] = IF j = 0 THEN x ELSE s[1]
    OBVIOUS
  <1> QED
    BY <1>4, <1>5, <1>6

\* What Chain gives for a node of a list without a loop.
LEMMA ChainFrom ==
  ASSUME QueueAssumed, NEW f, NEW nx, NEW dt, Unfolded(f, nx, dt),
         NEW m \in 0 .. QueueWorkers + 2, NEW c \in [1 .. m -> RQ!Nodes],
         \A i \in 1 .. m : nx[c[i]] = IF i = m THEN NULL ELSE c[i + 1]
  PROVE  f[QueueWorkers + 2][IF m = 0 THEN NULL ELSE c[1]] = [i \in 1 .. m |-> dt[c[i]]]
  <1>1. PICK N \in Nat : N = QueueWorkers + 2
    BY DEF QueueAssumed
  <1>0. m \in Nat
    BY <1>1
  <1> DEFINE From(j) == IF j = 0 THEN NULL ELSE c[m - j + 1]
             Vals(j) == [i \in 1 .. j |-> dt[c[m - j + i]]]
  <1>2. PICK P : P = {j \in 0 .. m : \A k \in j .. N : f[k][From(j)] = Vals(j)}
    OBVIOUS
  <1>3. 0 \in P
    <2>1. ASSUME NEW k \in 0 .. N PROVE f[k][NULL] = <<>>
      <3>1. k = 0 \/ k \in 1 .. QueueWorkers + 2
        BY <1>1
      <3> QED
        BY <3>1 DEF Unfolded
    <2>2. Vals(0) = <<>>
      OBVIOUS
    <2> QED
      BY <1>2, <2>1, <2>2
  <1>4. ASSUME NEW j \in 0 .. m - 1, j \in P PROVE j + 1 \in P
    <2>1. j + 1 \in 0 .. m /\ m - j \in 1 .. m /\ From(j + 1) = c[m - j] /\ c[m - j] \in RQ!Nodes
      OBVIOUS
    <2>2. nx[c[m - j]] = From(j)
      BY <2>1
    <2>3. ASSUME NEW k \in j + 1 .. N PROVE f[k][From(j + 1)] = Vals(j + 1)
      <3>1. k - 1 \in j .. N /\ k \in 1 .. QueueWorkers + 2
        BY <1>1
      <3>2. f[k][c[m - j]] = <<dt[c[m - j]]>> \o f[k - 1][From(j)]
        <4>1. PICK x \in RQ!Nodes : x = c[m - j]
          BY <2>1
        <4>2. x \in RQ!Nodes \cup {NULL} /\ x # NULL /\ nx[x] = From(j)
          BY <2>2, <4>1 DEF QueueAssumed
        <4>3. f[k][x] = IF x = NULL THEN <<>> ELSE <<dt[x]>> \o f[k - 1][nx[x]]
          BY <3>1, <4>2, Zenon DEF Unfolded
        <4> QED
          BY <4>1, <4>2, <4>3, Zenon
      <3>3. f[k - 1][From(j)] = Vals(j)
        BY <1>2, <1>4, <3>1, Zenon
      <3>4. PICK s : s = Vals(j)
        OBVIOUS
      <3>5. s = [i \in 1 .. j |-> s[i]] /\ \A i \in 1 .. j : s[i] = dt[c[m - j + i]]
        BY <3>4
      <3>6. PICK x : x = dt[c[m - j]]
        OBVIOUS
      <3>7. <<x>> \o s = [i \in 1 .. j + 1 |-> IF i = 1 THEN x ELSE s[i - 1]]
        BY <3>5, InFront
      <3>8. ASSUME NEW i \in 1 .. j + 1
            PROVE  dt[c[m - (j + 1) + i]] = IF i = 1 THEN x ELSE s[i - 1]
        <4>1. CASE i = 1
          BY <3>6, <4>1
        <4>2. CASE i # 1
          <5>1. i - 1 \in 1 .. j
            BY <4>2
          <5>2. m - (j + 1) + i = m - j + (i - 1)
            BY <1>0, SMT
          <5> QED
            BY <3>5, <4>2, <5>1, <5>2
        <4> QED
          BY <4>1, <4>2
      <3>9. Vals(j + 1) = [i \in 1 .. j + 1 |-> IF i = 1 THEN x ELSE s[i - 1]]
        BY <3>8
      <3> QED
        BY <2>1, <3>2, <3>3, <3>4, <3>6, <3>7, <3>9, Zenon
    <2> QED
      BY <1>2, <2>1, <2>3
  <1>5. m \in P
    <2>1. 0 .. m \subseteq P
      BY <1>0, <1>3, <1>4, UpTo, Zenon
    <2> QED
      BY <1>0, <2>1
  <1>6. f[N][From(m)] = Vals(m)
    BY <1>1, <1>2, <1>5
  <1>7. From(m) = (IF m = 0 THEN NULL ELSE c[1]) /\ Vals(m) = [i \in 1 .. m |-> dt[c[i]]]
    OBVIOUS
  <1> QED
    BY <1>1, <1>6, <1>7

\* The threads that are in enqueue and have not reached its link: each has a
\* node with a thread, but the node has no place in the list.
Unlinked == {t \in RQ!Threads : q_pc[t] \in {"test", "link_tail", "link_head"}}

\* The threads that wait for the processor.
Waiting == (RQ!Threads \ (q_away \cup RQ!Entering)) \ {q_running}

\* The list has the m nodes of c.
HasLinks(m, c) ==
  /\ c \in [1 .. m -> RQ!Nodes]
  /\ \A i, j \in 1 .. m : c[i] = c[j] => i = j
  /\ q_head = IF m = 0 THEN NULL ELSE c[1]
  /\ \A i \in 1 .. m : q_next[c[i]] = IF i = m THEN NULL ELSE c[i + 1]

\* Where its end is, and what the thread that runs knows of it.
HasEnd(m, c) ==
  /\ ~RQ!At("set_tail") => q_tail = IF m = 0 THEN NULL ELSE c[m]
  /\ RQ!At("set_tail") => m > 0 /\ q_node[q_running] = c[m]
  /\ RQ!At("link_tail") => m > 0
  /\ RQ!At("link_head") => m = 0

\* Each node has a waiting thread, and each waiting thread one node.
HasThreads(m, c) ==
  /\ \A i \in 1 .. m : q_data[c[i]] \in Waiting
  /\ \A i, j \in 1 .. m : q_data[c[i]] = q_data[c[j]] => i = j
  /\ \A t \in Waiting : \E i \in 1 .. m : q_data[c[i]] = t

\* The nodes in use are those of the list, and the new ones.
HasNodes(m, c) ==
  /\ \A n : n \in q_used <=> (\E i \in 1 .. m : c[i] = n) \/ (\E t \in Unlinked : q_node[t] = n)
  /\ \A t \in Unlinked :
       /\ q_node[t] \in RQ!Nodes /\ q_next[q_node[t]] = NULL
       /\ q_data[q_node[t]] \in RQ!Threads \ q_away
       /\ \A i \in 1 .. m : c[i] # q_node[t]
  /\ \A t, u \in Unlinked : q_data[q_node[t]] = q_data[q_node[u]] => t = u

\* The thread that runs is neither away nor entering; the others have been
\* interrupted before they looked at the tail.
QueueTyped ==
  /\ q_running \in RQ!Threads \cup {NULL}
  /\ q_running \notin q_away \cup RQ!Entering
  /\ q_away \subseteq RQ!Threads
  /\ q_pc \in [RQ!Threads -> {"user", "test", "link_tail", "link_head", "set_tail"}]
  /\ \A t \in RQ!Threads : t # q_running => q_pc[t] \in {"user", "test"}
  /\ DOMAIN q_next = RQ!Nodes /\ DOMAIN q_data = RQ!Nodes /\ DOMAIN q_node = RQ!Threads

\* The state of the list, with its m nodes c in order.
Lined(m, c) ==
  m \in Nat /\ HasLinks(m, c) /\ HasEnd(m, c) /\ HasThreads(m, c) /\ HasNodes(m, c)

\* The inductive invariant.
QueueInv == QueueTyped /\ \E m, c : Lined(m, c)

\* A list has no more nodes than there are.
LEMMA Short ==
  ASSUME QueueAssumed, NEW m \in Nat, NEW c \in [1 .. m -> RQ!Nodes],
         \A i, j \in 1 .. m : c[i] = c[j] => i = j
  PROVE  m \in 0 .. QueueWorkers + 2
  <1>1. PICK w \in Nat : w = QueueWorkers
    BY DEF QueueAssumed
  <1>2. RQ!Nodes = 1 .. w + 2
    BY <1>1 DEF RQ!Nodes
  <1>3. c \in Injection(1 .. m, 1 .. w + 2)
    BY <1>2 DEF Injection, IsInjective
  <1>4. IsFiniteSet(1 .. w + 2) /\ Cardinality(1 .. w + 2) = w + 2 /\ Cardinality(1 .. m) = m
    <2>1. /\ IsFiniteSet(1 .. w + 2)
          /\ Cardinality(1 .. w + 2) = IF 1 > w + 2 THEN 0 ELSE w + 2 - 1 + 1
      BY FS_Interval
    <2>2. Cardinality(1 .. m) = IF 1 > m THEN 0 ELSE m - 1 + 1
      BY FS_Interval
    <2> QED
      BY <2>1, <2>2
  <1>5. m <= w + 2
    BY <1>3, <1>4, FS_Injection
  <1> QED
    BY <1>1, <1>5

\* Line is what the list says.
LEMMA LineIs ==
  ASSUME QueueAssumed, NEW m, NEW c, Lined(m, c)
  PROVE  RQ!Line = [i \in 1 .. m |-> q_data[c[i]]]
  <1>1. /\ m \in Nat /\ c \in [1 .. m -> RQ!Nodes] /\ q_head = IF m = 0 THEN NULL ELSE c[1]
        /\ \A i, j \in 1 .. m : c[i] = c[j] => i = j
        /\ \A i \in 1 .. m : q_next[c[i]] = IF i = m THEN NULL ELSE c[i + 1]
    BY DEF Lined, HasLinks
  <1>2. m \in 0 .. QueueWorkers + 2
    BY <1>1, Short
  <1>3. Unfolded(RQ!Chain, q_next, q_data)
    BY ChainUnfolds
  <1>4. RQ!Chain[QueueWorkers + 2][IF m = 0 THEN NULL ELSE c[1]] = [i \in 1 .. m |-> q_data[c[i]]]
    BY <1>1, <1>2, <1>3, ChainFrom
  <1> QED
    BY <1>1, <1>4 DEF RQ!Line

\* The same of the next state.
LEMMA LineWillBe ==
  ASSUME QueueAssumed, NEW m, NEW c, Lined(m, c)'
  PROVE  RQ!Line' = [i \in 1 .. m |-> q_data'[c[i]]]
  <1>1. Unfolded(RQ!Chain, q_next, q_data)'
    <2>1. QueueAssumed'
      OBVIOUS
    <2> QED
      BY <2>1, ChainUnfolds, PTL
  <1>2. PICK f : f = RQ!Chain'
    OBVIOUS
  <1>3. PICK nx, dt : nx = q_next' /\ dt = q_data'
    OBVIOUS
  <1>4. Unfolded(f, nx, dt)
    BY <1>1, <1>2, <1>3 DEF Unfolded
  <1>5. /\ m \in Nat /\ c \in [1 .. m -> RQ!Nodes] /\ q_head' = IF m = 0 THEN NULL ELSE c[1]
        /\ \A i, j \in 1 .. m : c[i] = c[j] => i = j
        /\ \A i \in 1 .. m : nx[c[i]] = IF i = m THEN NULL ELSE c[i + 1]
    BY <1>3 DEF Lined, HasLinks
  <1>6. m \in 0 .. QueueWorkers + 2
    BY <1>5, Short
  <1>7. f[QueueWorkers + 2][IF m = 0 THEN NULL ELSE c[1]] = [i \in 1 .. m |-> dt[c[i]]]
    BY <1>4, <1>5, <1>6, ChainFrom
  <1>8. RQ!Line' = f[QueueWorkers + 2][q_head']
    BY <1>2 DEF RQ!Line
  <1> QED
    BY <1>3, <1>5, <1>7, <1>8

\* The queue that main starts with is empty: nobody waits.
LEMMA QueueInit == QueueAssumed /\ RQ!Init => QueueInv
  <1> SUFFICES ASSUME QueueAssumed, RQ!Init PROVE QueueInv
    OBVIOUS
  <1>1. /\ q_head = NULL /\ q_tail = NULL /\ q_used = {} /\ q_running = 0
        /\ q_away = RQ!Threads \ {0} /\ q_pc = [t \in RQ!Threads |-> "user"]
        /\ DOMAIN q_node = RQ!Threads /\ DOMAIN q_next = RQ!Nodes /\ DOMAIN q_data = RQ!Nodes
    BY DEF RQ!Init, RQ!Main
  <1>2. Unlinked = {} /\ RQ!Entering = {} /\ Waiting = {}
    BY <1>1 DEF Unlinked, RQ!Entering, Waiting
  <1>3. 0 \in RQ!Threads
    BY DEF QueueAssumed, RQ!Threads
  <1>4. QueueTyped
    BY <1>1, <1>2, <1>3 DEF QueueTyped
  <1>5. PICK c : c = [i \in 1 .. 0 |-> 0]
    OBVIOUS
  <1>6. HasLinks(0, c) /\ HasThreads(0, c) /\ HasNodes(0, c)
    BY <1>1, <1>2, <1>5 DEF HasLinks, HasThreads, HasNodes
  <1>7. HasEnd(0, c)
    BY <1>1, <1>3 DEF HasEnd, RQ!At
  <1>8. Lined(0, c)
    BY <1>6, <1>7 DEF Lined
  <1> QED
    BY <1>4, <1>8 DEF QueueInv

\* A step of the list is a step of the abstract line.
QueueStep == QueueInv' /\ [RQ!FIFO!Next]_<<q_running, RQ!Line>>

\* When the list stays as it is and its threads too, so does the line.
LEMMA LineStays ==
  ASSUME QueueAssumed, QueueTyped', NEW m, NEW c, Lined(m, c), Lined(m, c)',
         \A i \in 1 .. m : q_data'[c[i]] = q_data[c[i]], UNCHANGED q_running
  PROVE  QueueStep
  <1>1. RQ!Line = [i \in 1 .. m |-> q_data[c[i]]]
    BY LineIs
  <1>2. RQ!Line' = [i \in 1 .. m |-> q_data'[c[i]]]
    BY LineWillBe
  <1>3. RQ!Line' = RQ!Line
    BY <1>1, <1>2
  <1>4. QueueInv'
    BY DEF QueueInv
  <1> QED
    BY <1>3, <1>4 DEF QueueStep

\* The thread that runs gets a node for a thread that was away; nothing is
\* linked yet.
LEMMA QueueNewNode ==
  ASSUME QueueAssumed, QueueTyped, NEW m, NEW c, Lined(m, c), RQ!NewNode
  PROVE  QueueStep
  <1>1. PICK t \in q_away, n \in RQ!Nodes \ q_used :
          /\ q_away' = q_away \ {t}
          /\ q_used' = q_used \cup {n} /\ q_data' = [q_data EXCEPT ![n] = t]
          /\ q_next' = [q_next EXCEPT ![n] = NULL] /\ q_node' = [q_node EXCEPT ![q_running] = n]
    BY DEF RQ!NewNode
  <1>2. /\ q_running \in RQ!Threads /\ q_running # NULL /\ q_pc[q_running] = "user"
        /\ q_pc' = [q_pc EXCEPT ![q_running] = "test"] /\ UNCHANGED <<q_head, q_tail, q_running>>
    BY DEF RQ!NewNode, RQ!At, RQ!Goto, QueueTyped
  <1>3. /\ Unlinked' = Unlinked \cup {q_running} /\ q_running \notin Unlinked
        /\ \A u \in Unlinked : u \in RQ!Threads
    BY <1>2 DEF Unlinked, QueueTyped
  <1>4. /\ \A i \in 1 .. m : c[i] # n /\ c[i] \in RQ!Nodes
        /\ \A u \in Unlinked : q_node[u] # n /\ q_node[u] \in RQ!Nodes
    BY <1>1 DEF Lined, HasLinks, HasNodes
  <1>5. /\ \A u \in Unlinked : q_node'[u] = q_node[u]
        /\ \A u \in Unlinked : q_data'[q_node[u]] = q_data[q_node[u]] /\ q_next'[q_node[u]] = q_next[q_node[u]]
        /\ q_node'[q_running] = n /\ q_data'[n] = t /\ q_next'[n] = NULL
        /\ \A i \in 1 .. m : q_data'[c[i]] = q_data[c[i]] /\ q_next'[c[i]] = q_next[c[i]]
    BY <1>1, <1>2, <1>3, <1>4 DEF QueueTyped
  <1>6. RQ!Entering' = RQ!Entering \cup {t}
    <2>1. RQ!Entering = {q_data[q_node[u]] : u \in Unlinked}
      BY DEF RQ!Entering, Unlinked
    <2>2. RQ!Entering' = {q_data'[q_node'[u]] : u \in Unlinked'}
      BY DEF RQ!Entering, Unlinked
    <2> QED
      BY <1>3, <1>5, <2>1, <2>2
  <1>7. Waiting' = Waiting
    BY <1>1, <1>2, <1>6 DEF Waiting
  <1>8. QueueTyped'
    <2>1. q_running' \notin q_away' \cup RQ!Entering'
      BY <1>1, <1>2, <1>6 DEF QueueTyped
    <2>2. q_pc' \in [RQ!Threads -> {"user", "test", "link_tail", "link_head", "set_tail"}]
      BY <1>2 DEF QueueTyped
    <2> QED
      BY <1>1, <1>2, <2>1, <2>2 DEF QueueTyped
  <1>9. HasLinks(m, c)' /\ HasThreads(m, c)'
    BY <1>2, <1>5, <1>7 DEF Lined, HasLinks, HasThreads
  <1>10. HasEnd(m, c)'
    BY <1>2 DEF Lined, HasEnd, RQ!At, QueueTyped
  <1>11. HasNodes(m, c)'
    <2>1. /\ \A x : x \in q_used <=> (\E i \in 1 .. m : c[i] = x) \/ (\E u \in Unlinked : q_node[u] = x)
          /\ \A u \in Unlinked :
               /\ q_node[u] \in RQ!Nodes /\ q_next[q_node[u]] = NULL
               /\ q_data[q_node[u]] \in RQ!Threads \ q_away
               /\ \A i \in 1 .. m : c[i] # q_node[u]
          /\ \A u, v \in Unlinked : q_data[q_node[u]] = q_data[q_node[v]] => u = v
      BY DEF Lined, HasNodes
    <2>2. \A x : x \in q_used' <=> (\E i \in 1 .. m : c[i] = x) \/ (\E u \in Unlinked' : q_node'[u] = x)
      BY <1>1, <1>3, <1>5, <2>1
    <2>3. ASSUME NEW u \in Unlinked'
          PROVE  /\ q_node'[u] \in RQ!Nodes /\ q_next'[q_node'[u]] = NULL
                 /\ q_data'[q_node'[u]] \in RQ!Threads \ q_away'
                 /\ \A i \in 1 .. m : c[i] # q_node'[u]
      <3>1. CASE u \in Unlinked
        BY <1>1, <1>5, <2>1, <3>1
      <3>2. CASE u = q_running
        BY <1>1, <1>4, <1>5, <3>2 DEF QueueTyped
      <3> QED
        BY <1>3, <3>1, <3>2
    <2>4. \A u, v \in Unlinked' : q_data'[q_node'[u]] = q_data'[q_node'[v]] => u = v
      BY <1>1, <1>3, <1>5, <2>1
    <2> QED
      BY <2>2, <2>3, <2>4 DEF HasNodes
  <1>12. Lined(m, c)'
    BY <1>9, <1>10, <1>11 DEF Lined
  <1> QED
    BY <1>2, <1>5, <1>8, <1>12, LineStays

\* The thread that runs looks at the tail.
LEMMA QueueTest ==
  ASSUME QueueAssumed, QueueTyped, NEW m, NEW c, Lined(m, c), RQ!TestTail
  PROVE  QueueStep
  <1>1. /\ q_running \in RQ!Threads /\ q_running # NULL /\ q_pc[q_running] = "test"
        /\ q_pc' = [q_pc EXCEPT ![q_running] = IF q_tail # NULL THEN "link_tail" ELSE "link_head"]
        /\ UNCHANGED <<q_head, q_tail, q_next, q_data, q_used, q_running, q_away, q_node>>
    BY DEF RQ!TestTail, RQ!At, RQ!Goto, QueueTyped
  <1>2. q_pc'[q_running] = IF q_tail # NULL THEN "link_tail" ELSE "link_head"
    BY <1>1 DEF QueueTyped
  <1>3. Unlinked' = Unlinked
    BY <1>1, <1>2 DEF Unlinked, QueueTyped
  <1>4. RQ!Entering' = RQ!Entering
    BY <1>1, <1>3 DEF RQ!Entering, Unlinked
  <1>5. Waiting' = Waiting
    BY <1>1, <1>4 DEF Waiting
  <1>6. QueueTyped'
    <2>1. q_pc' \in [RQ!Threads -> {"user", "test", "link_tail", "link_head", "set_tail"}]
      BY <1>1 DEF QueueTyped
    <2>2. \A t \in RQ!Threads : t # q_running' => q_pc'[t] \in {"user", "test"}
      BY <1>1 DEF QueueTyped
    <2> QED
      BY <1>1, <1>4, <2>1, <2>2 DEF QueueTyped
  <1>7. m \in Nat /\ q_tail = (IF m = 0 THEN NULL ELSE c[m]) /\ c \in [1 .. m -> RQ!Nodes]
    BY <1>1 DEF Lined, HasEnd, HasLinks, RQ!At
  <1>8. q_tail # NULL <=> m > 0
    <2>1. m > 0 => c[m] \in RQ!Nodes
      BY <1>7
    <2> QED
      BY <1>7, <2>1 DEF QueueAssumed
  <1>9. HasEnd(m, c)'
    BY <1>1, <1>2, <1>7, <1>8 DEF HasEnd, RQ!At
  <1>10. HasLinks(m, c)' /\ HasThreads(m, c)' /\ HasNodes(m, c)'
    BY <1>1, <1>3, <1>5 DEF Lined, HasLinks, HasThreads, HasNodes
  <1>11. Lined(m, c)'
    BY <1>9, <1>10 DEF Lined
  <1> QED
    BY <1>1, <1>6, <1>11, LineStays

\* The tail is the new node.
LEMMA QueueSetTail ==
  ASSUME QueueAssumed, QueueTyped, NEW m, NEW c, Lined(m, c), RQ!SetTail
  PROVE  QueueStep
  <1>1. /\ q_running \in RQ!Threads /\ q_running # NULL /\ q_pc[q_running] = "set_tail"
        /\ q_pc' = [q_pc EXCEPT ![q_running] = "user"] /\ q_tail' = q_node[q_running]
        /\ q_node' = [q_node EXCEPT ![q_running] = NULL]
        /\ UNCHANGED <<q_head, q_next, q_data, q_used, q_running, q_away>>
    BY DEF RQ!SetTail, RQ!At, RQ!Goto, QueueTyped
  <1>2. Unlinked' = Unlinked /\ q_running \notin Unlinked
    BY <1>1 DEF Unlinked, QueueTyped
  <1>3. \A t \in Unlinked : q_node'[t] = q_node[t]
    BY <1>1, <1>2 DEF Unlinked, QueueTyped
  <1>4. RQ!Entering' = RQ!Entering
    <2>1. RQ!Entering = {q_data[q_node[u]] : u \in Unlinked}
      BY DEF RQ!Entering, Unlinked
    <2>2. RQ!Entering' = {q_data'[q_node'[u]] : u \in Unlinked'}
      BY DEF RQ!Entering, Unlinked
    <2> QED
      BY <1>1, <1>2, <1>3, <2>1, <2>2
  <1>5. Waiting' = Waiting
    BY <1>1, <1>4 DEF Waiting
  <1>6. QueueTyped'
    BY <1>1, <1>4 DEF QueueTyped
  <1>7. HasLinks(m, c)' /\ HasThreads(m, c)'
    BY <1>1, <1>5 DEF Lined, HasLinks, HasThreads
  <1>8. HasNodes(m, c)'
    BY <1>1, <1>2, <1>3 DEF Lined, HasNodes
  <1>9. HasEnd(m, c)'
    <2>1. m > 0 /\ q_node[q_running] = c[m]
      BY <1>1 DEF Lined, HasEnd, RQ!At
    <2>2. q_pc'[q_running'] = "user" /\ m # 0 /\ q_tail' = c[m]
      BY <1>1, <2>1 DEF QueueTyped, Lined
    <2> QED
      BY <2>2 DEF HasEnd, RQ!At
  <1>10. Lined(m, c)'
    BY <1>7, <1>8, <1>9 DEF Lined
  <1> QED
    BY <1>1, <1>6, <1>10, LineStays

\* A list with one more node.
LEMMA Longer ==
  ASSUME NEW m \in Nat, NEW N, NEW c \in [1 .. m -> N], NEW n \in N, \A i \in 1 .. m : c[i] # n,
         \A i, j \in 1 .. m : c[i] = c[j] => i = j,
         NEW d, d = [i \in 1 .. m + 1 |-> IF i <= m THEN c[i] ELSE n]
  PROVE  /\ d \in [1 .. m + 1 -> N] /\ d[m + 1] = n /\ \A i \in 1 .. m : d[i] = c[i]
         /\ \A i, j \in 1 .. m + 1 : d[i] = d[j] => i = j
         /\ \A i \in 1 .. m + 1 : i = m + 1 \/ i \in 1 .. m
  <1>1. d \in [1 .. m + 1 -> N] /\ d[m + 1] = n /\ \A i \in 1 .. m : d[i] = c[i]
    OBVIOUS
  <1>2. \A i \in 1 .. m + 1 : i = m + 1 \/ i \in 1 .. m
    OBVIOUS
  <1> QED
    BY <1>1, <1>2

\* The new node is linked: its thread joins the line.
LEMMA QueueLinked ==
  ASSUME QueueAssumed, QueueTyped, NEW m, NEW c, Lined(m, c),
         q_running \in RQ!Threads, q_running # NULL, q_pc[q_running] \in {"link_tail", "link_head"},
         q_pc' = [q_pc EXCEPT ![q_running] = "set_tail"],
         UNCHANGED <<q_data, q_used, q_running, q_away, q_node>>,
         q_head' = IF m = 0 THEN q_node[q_running] ELSE q_head,
         DOMAIN q_next' = RQ!Nodes, m > 0 => q_next'[c[m]] = q_node[q_running],
         \A n \in RQ!Nodes : (m > 0 => n # c[m]) => q_next'[n] = q_next[n]
  PROVE  QueueStep
  <1>1. PICK r, nd, w : r = q_running /\ nd = q_node[r] /\ w = q_data[nd]
    OBVIOUS
  <1>2. /\ m \in Nat /\ c \in [1 .. m -> RQ!Nodes] /\ \A i \in 1 .. m : c[i] \in RQ!Nodes
        /\ \A i, j \in 1 .. m : c[i] = c[j] => i = j
    BY DEF Lined, HasLinks
  <1>3. r \in Unlinked /\ Unlinked' = Unlinked \ {r} /\ q_pc'[r] = "set_tail"
    BY <1>1 DEF Unlinked, QueueTyped
  <1>4. /\ \A x : x \in q_used <=> (\E i \in 1 .. m : c[i] = x) \/ (\E u \in Unlinked : q_node[u] = x)
        /\ \A u \in Unlinked :
             /\ q_node[u] \in RQ!Nodes /\ q_next[q_node[u]] = NULL
             /\ q_data[q_node[u]] \in RQ!Threads \ q_away
             /\ \A i \in 1 .. m : c[i] # q_node[u]
        /\ \A u, v \in Unlinked : q_data[q_node[u]] = q_data[q_node[v]] => u = v
    BY DEF Lined, HasNodes
  <1>5. /\ nd \in RQ!Nodes /\ q_next[nd] = NULL /\ w \in RQ!Threads \ q_away
        /\ \A i \in 1 .. m : c[i] # nd
        /\ \A u \in Unlinked : u # r => q_data[q_node[u]] # w /\ q_node[u] # nd
    BY <1>1, <1>3, <1>4
  <1>6. PICK d : d = [i \in 1 .. m + 1 |-> IF i <= m THEN c[i] ELSE nd]
    OBVIOUS
  <1>7. /\ d \in [1 .. m + 1 -> RQ!Nodes] /\ d[m + 1] = nd /\ \A i \in 1 .. m : d[i] = c[i]
        /\ \A i, j \in 1 .. m + 1 : d[i] = d[j] => i = j
        /\ \A i \in 1 .. m + 1 : i = m + 1 \/ i \in 1 .. m
    BY <1>2, <1>5, <1>6, Longer
  <1>8. RQ!Entering = RQ!Entering' \cup {w} /\ w \notin RQ!Entering'
    <2>1. RQ!Entering = {q_data[q_node[u]] : u \in Unlinked}
      BY DEF RQ!Entering, Unlinked
    <2>2. RQ!Entering' = {q_data[q_node[u]] : u \in Unlinked \ {r}}
      BY <1>3 DEF RQ!Entering, Unlinked
    <2> QED
      BY <1>1, <1>3, <1>5, <2>1, <2>2
  <1>9. w # q_running
    BY <1>8 DEF QueueTyped
  <1>10. Waiting' = Waiting \cup {w} /\ w \notin Waiting
    BY <1>5, <1>8, <1>9 DEF Waiting
  <1>11. QueueTyped'
    <2>1. q_pc' \in [RQ!Threads -> {"user", "test", "link_tail", "link_head", "set_tail"}]
      BY DEF QueueTyped
    <2>2. \A t \in RQ!Threads : t # q_running' => q_pc'[t] \in {"user", "test"}
      BY DEF QueueTyped
    <2>3. q_running' \notin q_away' \cup RQ!Entering'
      BY <1>8 DEF QueueTyped
    <2> QED
      BY <2>1, <2>2, <2>3 DEF QueueTyped
  <1>12. HasLinks(m + 1, d)'
    <2>1. q_head' = d[1]
      <3>1. CASE m = 0
        BY <1>1, <1>7, <3>1
      <3>2. CASE m # 0
        <4>1. q_head = c[1] /\ 1 \in 1 .. m
          BY <1>2, <3>2 DEF Lined, HasLinks
        <4> QED
          BY <1>7, <3>2, <4>1
      <3> QED
        BY <3>1, <3>2
    <2>2. ASSUME NEW i \in 1 .. m + 1
          PROVE  q_next'[d[i]] = IF i = m + 1 THEN NULL ELSE d[i + 1]
      <3>1. CASE i = m + 1
        <4>1. m > 0 => c[m] # nd
          BY <1>2, <1>5
        <4> QED
          BY <1>5, <1>7, <3>1, <4>1
      <3>2. CASE i = m
        BY <1>1, <1>2, <1>7, <3>2
      <3>3. CASE i \in 1 .. m /\ i # m
        <4>1. q_next[c[i]] = c[i + 1] /\ i + 1 \in 1 .. m
          BY <1>2, <3>3 DEF Lined, HasLinks
        <4>2. c[i] # c[m] /\ c[i] \in RQ!Nodes
          BY <1>2, <3>3
        <4>3. q_next'[c[i]] = q_next[c[i]]
          BY <4>2
        <4> QED
          BY <1>2, <1>7, <3>3, <4>1, <4>3
      <3> QED
        BY <1>7, <3>1, <3>2, <3>3
    <2>3. m + 1 # 0
      BY <1>2
    <2> QED
      BY <1>7, <2>1, <2>2, <2>3 DEF HasLinks
  <1>13. HasEnd(m + 1, d)'
    BY <1>1, <1>2, <1>3, <1>7 DEF HasEnd, RQ!At
  <1>14. HasThreads(m + 1, d)'
    <2>1. /\ \A i \in 1 .. m : q_data[c[i]] \in Waiting
          /\ \A i, j \in 1 .. m : q_data[c[i]] = q_data[c[j]] => i = j
          /\ \A t \in Waiting : \E i \in 1 .. m : q_data[c[i]] = t
      BY DEF Lined, HasThreads
    <2>2. \A i \in 1 .. m : q_data[d[i]] = q_data[c[i]]
      BY <1>7
    <2>3. q_data[d[m + 1]] = w
      BY <1>1, <1>7
    <2>4. m + 1 \in 1 .. m + 1 /\ \A i \in 1 .. m : i \in 1 .. m + 1
      BY <1>2
    <2>5. \A i \in 1 .. m + 1 : q_data[d[i]] \in Waiting'
      BY <1>7, <1>10, <2>1, <2>2, <2>3
    <2>6. \A i, j \in 1 .. m + 1 : q_data[d[i]] = q_data[d[j]] => i = j
      BY <1>7, <1>10, <2>1, <2>2, <2>3
    <2>7. \A t \in Waiting' : \E i \in 1 .. m + 1 : q_data[d[i]] = t
      BY <1>10, <2>1, <2>2, <2>3, <2>4
    <2> QED
      BY <2>5, <2>6, <2>7 DEF HasThreads
  <1>15. HasNodes(m + 1, d)'
    <2>1. m + 1 \in 1 .. m + 1 /\ \A i \in 1 .. m : i \in 1 .. m + 1
      BY <1>2
    <2>2. \A x : x \in q_used <=> (\E i \in 1 .. m + 1 : d[i] = x) \/ (\E u \in Unlinked' : q_node[u] = x)
      BY <1>1, <1>3, <1>4, <1>7, <2>1
    <2>3. ASSUME NEW u \in Unlinked'
          PROVE  /\ q_node[u] \in RQ!Nodes /\ q_next'[q_node[u]] = NULL
                 /\ q_data[q_node[u]] \in RQ!Threads \ q_away
                 /\ \A i \in 1 .. m + 1 : d[i] # q_node[u]
      <3>1. u \in Unlinked /\ u # r
        BY <1>3
      <3>2. m > 0 => c[m] # q_node[u]
        BY <1>2, <1>4, <3>1
      <3>3. q_next'[q_node[u]] = NULL
        BY <1>4, <3>1, <3>2
      <3>4. \A i \in 1 .. m + 1 : d[i] # q_node[u]
        BY <1>4, <1>5, <1>7, <3>1
      <3> QED
        BY <1>4, <3>1, <3>3, <3>4
    <2>4. \A u, v \in Unlinked' : q_data[q_node[u]] = q_data[q_node[v]] => u = v
      BY <1>3, <1>4
    <2> QED
      BY <2>2, <2>3, <2>4 DEF HasNodes
  <1>16. Lined(m + 1, d)'
    <2>1. m + 1 \in Nat
      BY <1>2
    <2> QED
      BY <1>12, <1>13, <1>14, <1>15, <2>1 DEF Lined
  <1>17. /\ RQ!Line = [i \in 1 .. m |-> q_data[c[i]]]
         /\ RQ!Line' = [i \in 1 .. m + 1 |-> q_data'[d[i]]]
    BY <1>16, LineIs, LineWillBe
  <1>18. PICK s : s = RQ!Line
    OBVIOUS
  <1>19. s \in Seq(Waiting) /\ Len(s) = m /\ \A i \in 1 .. m : s[i] = q_data[c[i]]
    <2>1. s \in [1 .. m -> Waiting]
      BY <1>17, <1>18 DEF Lined, HasThreads
    <2> QED
      BY <1>2, <1>17, <1>18, <2>1
  <1>20. RQ!Line' = Append(s, w)
    <2>1. Append(s, w) = [i \in 1 .. m + 1 |-> IF i <= m THEN s[i] ELSE w]
      <3>1. s = [i \in 1 .. m |-> s[i]]
        BY <1>17, <1>18
      <3> QED
        BY <1>2, <3>1, AtEnd
    <2>2. \A i \in 1 .. m + 1 : q_data'[d[i]] = IF i <= m THEN s[i] ELSE w
      BY <1>1, <1>2, <1>7, <1>19
    <2> QED
      BY <1>17, <2>1, <2>2
  <1>21. RQ!FIFO!Arrive(w)
    <2>1. \A i \in 1 .. Len(s) : s[i] # w
      BY <1>10, <1>19
    <2> QED
      BY <1>9, <1>18, <1>20, <2>1 DEF RQ!FIFO!Arrive
  <1> QED
    BY <1>5, <1>11, <1>16, <1>21 DEF QueueStep, QueueInv, RQ!FIFO!Next

\* The last node is linked to the new one: the list is not empty,
LEMMA QueueLinkTail ==
  ASSUME QueueAssumed, QueueTyped, NEW m, NEW c, Lined(m, c), RQ!LinkTail
  PROVE  QueueStep
  <1>1. RQ!At("link_tail") /\ q_running # NULL /\ q_running \in RQ!Threads /\ q_pc[q_running] = "link_tail"
    BY DEF RQ!LinkTail, RQ!At, QueueTyped
  <1>2. m \in Nat /\ m > 0 /\ c \in [1 .. m -> RQ!Nodes] /\ q_tail = c[m]
    BY <1>1 DEF Lined, HasEnd, HasLinks, RQ!At
  <1>3. c[m] \in RQ!Nodes /\ q_tail # NULL
    BY <1>2 DEF QueueAssumed
  <1>4. /\ q_pc' = [q_pc EXCEPT ![q_running] = "set_tail"]
        /\ q_next' = [q_next EXCEPT ![q_tail] = q_node[q_running]]
        /\ UNCHANGED <<q_head, q_tail, q_data, q_used, q_running, q_away, q_node>>
    BY <1>3 DEF RQ!LinkTail, RQ!Linked, RQ!Goto
  <1>5. /\ DOMAIN q_next' = RQ!Nodes /\ q_next'[c[m]] = q_node[q_running]
        /\ \A n \in RQ!Nodes : n # c[m] => q_next'[n] = q_next[n]
    BY <1>2, <1>3, <1>4 DEF QueueTyped
  <1>6. q_head' = IF m = 0 THEN q_node[q_running] ELSE q_head
    BY <1>2, <1>4
  <1> QED
    BY <1>1, <1>2, <1>4, <1>5, <1>6, QueueLinked

\* or the queue itself, which is.
LEMMA QueueLinkHead ==
  ASSUME QueueAssumed, QueueTyped, NEW m, NEW c, Lined(m, c), RQ!LinkHead
  PROVE  QueueStep
  <1>1. /\ RQ!At("link_head") /\ q_running # NULL /\ q_running \in RQ!Threads /\ q_pc[q_running] = "link_head"
        /\ q_pc' = [q_pc EXCEPT ![q_running] = "set_tail"] /\ q_head' = q_node[q_running]
        /\ UNCHANGED <<q_tail, q_next, q_data, q_used, q_running, q_away, q_node>>
    BY DEF RQ!LinkHead, RQ!At, RQ!Goto, QueueTyped
  <1>2. m = 0
    BY <1>1 DEF Lined, HasEnd
  <1>3. DOMAIN q_next' = RQ!Nodes /\ \A n \in RQ!Nodes : q_next'[n] = q_next[n]
    BY <1>1 DEF QueueTyped
  <1>4. q_head' = IF m = 0 THEN q_node[q_running] ELSE q_head
    BY <1>1, <1>2
  <1> QED
    BY <1>1, <1>2, <1>3, <1>4, QueueLinked

\* d is c without its first node and with n at its end.
Turned(m, c, n, d) ==
  /\ d \in [1 .. m -> RQ!Nodes] /\ d[m] = n
  /\ \A i \in 1 .. m : i # m => i + 1 \in 1 .. m /\ d[i] = c[i + 1]
  /\ \A i \in 1 .. m : i # 1 => i - 1 \in 1 .. m /\ i - 1 # m /\ d[i - 1] = c[i]
  /\ \A i, j \in 1 .. m : d[i] = d[j] => i = j
  /\ 1 \in 1 .. m /\ m \in 1 .. m
  /\ \A x : (\E i \in 1 .. m : d[i] = x) <=> (x = n \/ \E i \in 1 .. m : c[i] = x) /\ x # c[1]

\* A list of which the first node goes and one comes at its end.
LEMMA Rotated ==
  ASSUME NEW m \in Nat \ {0}, NEW c \in [1 .. m -> RQ!Nodes], NEW n \in RQ!Nodes,
         \A i \in 1 .. m : c[i] # n, \A i, j \in 1 .. m : c[i] = c[j] => i = j
  PROVE  \E d : Turned(m, c, n, d)
  <1>0. PICK d : d = [i \in 1 .. m |-> IF i < m THEN c[i + 1] ELSE n]
    OBVIOUS
  <1>1. \A i \in 1 .. m : i # m => i + 1 \in 1 .. m /\ i + 1 # 1 /\ d[i] = c[i + 1]
    BY <1>0
  <1>2. \A i \in 1 .. m : i # 1 => i - 1 \in 1 .. m /\ i - 1 # m /\ d[i - 1] = c[i]
    BY <1>0
  <1>3. d \in [1 .. m -> RQ!Nodes] /\ d[m] = n /\ 1 \in 1 .. m /\ m \in 1 .. m
    BY <1>0, <1>1
  <1>4. \A i, j \in 1 .. m : d[i] = d[j] => i = j
    BY <1>1, <1>3
  <1>5. ASSUME NEW x
        PROVE  (\E i \in 1 .. m : d[i] = x) <=> (x = n \/ \E i \in 1 .. m : c[i] = x) /\ x # c[1]
    <2>1. ASSUME NEW i \in 1 .. m, d[i] = x
          PROVE  (x = n \/ \E j \in 1 .. m : c[j] = x) /\ x # c[1]
      BY <1>1, <1>3, <2>1
    <2>2. ASSUME x # c[1], NEW i \in 1 .. m, c[i] = x
          PROVE  \E j \in 1 .. m : d[j] = x
      BY <1>2, <2>2
    <2>3. ASSUME x = n PROVE \E j \in 1 .. m : d[j] = x
      BY <1>3, <2>3
    <2> QED
      BY <2>1, <2>2, <2>3
  <1>6. Turned(m, c, n, d)
    BY <1>1, <1>2, <1>3, <1>4, <1>5 DEF Turned
  <1> QED
    BY <1>6, Zenon

\* A tick while others wait: the first of them runs, and the thread that ran
\* is the last.
LEMMA QueueTickSome ==
  ASSUME QueueAssumed, QueueTyped, NEW m, NEW c, Lined(m, c), m # 0,
         q_running \in RQ!Threads, q_pc[q_running] \in {"user", "test"},
         NEW n \in RQ!Nodes \ q_used,
         q_running' = q_data[c[1]], q_head' = q_next'[c[1]],
         q_tail' = IF q_head' = NULL THEN NULL ELSE n,
         q_next' = [[q_next EXCEPT ![n] = NULL] EXCEPT ![c[m]] = n],
         q_data' = [q_data EXCEPT ![n] = q_running],
         q_used' = (q_used \cup {n}) \ {c[1]}, UNCHANGED <<q_pc, q_node, q_away>>
  PROVE  QueueStep
  <1>1. /\ m \in Nat \ {0} /\ c \in [1 .. m -> RQ!Nodes] /\ q_head = c[1]
        /\ \A i, j \in 1 .. m : c[i] = c[j] => i = j
        /\ \A i \in 1 .. m : q_next[c[i]] = IF i = m THEN NULL ELSE c[i + 1]
    BY DEF Lined, HasLinks
  <1>2. Unlinked' = Unlinked
    BY DEF Unlinked
  <1>3. /\ \A i \in 1 .. m : c[i] # n
        /\ \A u \in Unlinked : q_node[u] # n
    BY DEF Lined, HasNodes
  <1>4. PICK d : Turned(m, c, n, d)
    BY <1>1, <1>3, Rotated
  <1>5. /\ d \in [1 .. m -> RQ!Nodes] /\ d[m] = n
        /\ \A i \in 1 .. m : i # m => i + 1 \in 1 .. m /\ d[i] = c[i + 1]
        /\ \A i \in 1 .. m : i # 1 => i - 1 \in 1 .. m /\ i - 1 # m /\ d[i - 1] = c[i]
        /\ \A i, j \in 1 .. m : d[i] = d[j] => i = j
        /\ 1 \in 1 .. m /\ m \in 1 .. m
        /\ \A x : (\E i \in 1 .. m : d[i] = x) <=> (x = n \/ \E i \in 1 .. m : c[i] = x) /\ x # c[1]
    BY <1>4 DEF Turned
  <1>6. /\ \A i \in 1 .. m : q_data[c[i]] \in Waiting
        /\ \A i, j \in 1 .. m : q_data[c[i]] = q_data[c[j]] => i = j
        /\ \A t \in Waiting : \E i \in 1 .. m : q_data[c[i]] = t
    BY DEF Lined, HasThreads
  <1>7. \A u \in Unlinked :
          /\ q_node[u] \in RQ!Nodes /\ q_next[q_node[u]] = NULL
          /\ q_data[q_node[u]] \in RQ!Threads \ q_away
          /\ \A i \in 1 .. m : c[i] # q_node[u]
    BY DEF Lined, HasNodes
  <1>8. \A u \in Unlinked : q_data'[q_node[u]] = q_data[q_node[u]] /\ q_next'[q_node[u]] = q_next[q_node[u]]
    <2>1. ASSUME NEW u \in Unlinked
          PROVE  q_data'[q_node[u]] = q_data[q_node[u]] /\ q_next'[q_node[u]] = q_next[q_node[u]]
      <3>1. q_node[u] # n /\ q_node[u] # c[m] /\ q_node[u] \in RQ!Nodes
        BY <1>3, <1>5, <1>7
      <3> QED
        BY <3>1 DEF QueueTyped
    <2> QED
      BY <2>1
  <1>9. RQ!Entering' = RQ!Entering
    <2>1. RQ!Entering = {q_data[q_node[u]] : u \in Unlinked}
      BY DEF RQ!Entering, Unlinked
    <2>2. RQ!Entering' = {q_data'[q_node'[u]] : u \in Unlinked'}
      BY DEF RQ!Entering, Unlinked
    <2> QED
      BY <1>2, <1>8, <2>1, <2>2
  <1>10. /\ q_running \in RQ!Threads \ (q_away \cup RQ!Entering) /\ q_running' \in Waiting
         /\ Waiting = (RQ!Threads \ (q_away \cup RQ!Entering)) \ {q_running}
    BY <1>5, <1>6 DEF QueueTyped, Waiting
  <1>11. Waiting' = (Waiting \ {q_running'}) \cup {q_running}
    BY <1>9, <1>10 DEF Waiting
  <1>12. q_running' \in RQ!Threads /\ q_running' # q_running /\ q_pc[q_running'] \in {"user", "test"}
    BY <1>10 DEF QueueTyped
  <1>13. QueueTyped'
    <2>1. DOMAIN q_next' = RQ!Nodes /\ DOMAIN q_data' = RQ!Nodes
      BY DEF QueueTyped
    <2>2. q_running' \notin q_away' \cup RQ!Entering'
      BY <1>9, <1>10
    <2>3. \A t \in RQ!Threads : t # q_running' => q_pc'[t] \in {"user", "test"}
      BY DEF QueueTyped
    <2> QED
      BY <1>12, <2>1, <2>2, <2>3 DEF QueueTyped
  <1>14. /\ q_next'[n] = NULL /\ q_next'[c[m]] = n
         /\ \A i \in 1 .. m : i # m => q_next'[c[i]] = c[i + 1]
    <2>1. c[m] \in RQ!Nodes /\ n \in RQ!Nodes /\ c[m] # n /\ DOMAIN q_next = RQ!Nodes
      BY <1>1, <1>3, <1>5 DEF QueueTyped
    <2>2. q_next'[n] = NULL /\ q_next'[c[m]] = n
      BY <2>1
    <2>3. ASSUME NEW i \in 1 .. m, i # m PROVE q_next'[c[i]] = c[i + 1]
      <3>1. c[i] \in RQ!Nodes /\ c[i] # c[m] /\ c[i] # n /\ q_next[c[i]] = c[i + 1]
        BY <1>1, <1>3, <1>5, <2>3
      <3> QED
        BY <2>1, <3>1
    <2> QED
      BY <2>2, <2>3
  <1>15. q_head' = d[1]
    <2>1. CASE m = 1
      BY <1>5, <1>14, <2>1
    <2>2. CASE m # 1
      <3>1. q_next'[c[1]] = c[1 + 1] /\ d[1] = c[1 + 1]
        BY <1>5, <1>14, <2>2
      <3> QED
        BY <3>1
    <2> QED
      BY <2>1, <2>2
  <1>16. q_data'[n] = q_running /\ \A i \in 1 .. m : q_data'[c[i]] = q_data[c[i]]
    BY <1>1, <1>3 DEF QueueTyped
  <1>17. HasLinks(m, d)'
    <2>1. ASSUME NEW i \in 1 .. m PROVE q_next'[d[i]] = IF i = m THEN NULL ELSE d[i + 1]
      <3>1. CASE i = m
        BY <1>5, <1>14, <3>1
      <3>2. CASE i # m
        <4>1. d[i] = c[i + 1] /\ i + 1 \in 1 .. m
          BY <1>5, <3>2
        <4>2. CASE i + 1 = m
          BY <1>5, <1>14, <3>2, <4>1, <4>2
        <4>3. CASE i + 1 # m
          <5>1. q_next'[c[i + 1]] = c[i + 1 + 1] /\ d[i + 1] = c[i + 1 + 1]
            BY <1>5, <1>14, <4>1, <4>3
          <5> QED
            BY <3>2, <4>1, <5>1
        <4> QED
          BY <4>2, <4>3
      <3> QED
        BY <3>1, <3>2
    <2> QED
      BY <1>1, <1>5, <1>15, <2>1 DEF HasLinks
  <1>18. HasEnd(m, d)'
    <2>1. q_head' # NULL /\ q_tail' = d[m]
      <3>1. q_head' = d[1] /\ d[1] \in RQ!Nodes
        BY <1>5, <1>15
      <3> QED
        BY <1>5, <3>1 DEF QueueAssumed
    <2>2. q_pc'[q_running'] \in {"user", "test"}
      BY <1>12
    <2> QED
      BY <1>1, <2>1, <2>2 DEF HasEnd, RQ!At
  <1>19. HasThreads(m, d)'
    <2>1. \A i \in 1 .. m : i # m => q_data'[d[i]] = q_data[c[i + 1]] /\ i + 1 \in 1 .. m /\ i + 1 # 1
      BY <1>1, <1>5, <1>16
    <2>2. q_data'[d[m]] = q_running
      BY <1>5, <1>16
    <2>3. \A i \in 1 .. m : i # 1 => q_data[c[i]] # q_running'
      BY <1>5, <1>6
    <2>4. \A i \in 1 .. m : q_data'[d[i]] \in Waiting'
      BY <1>6, <1>11, <2>1, <2>2, <2>3
    <2>5. q_running \notin Waiting
      BY <1>10
    <2>6. \A i, j \in 1 .. m : q_data'[d[i]] = q_data'[d[j]] => i = j
      <3> SUFFICES ASSUME NEW i \in 1 .. m, NEW j \in 1 .. m, q_data'[d[i]] = q_data'[d[j]] PROVE i = j
        OBVIOUS
      <3>1. CASE i # m /\ j # m
        <4>1. i + 1 = j + 1
          BY <1>6, <2>1, <3>1
        <4> QED
          BY <4>1
      <3>2. CASE i = m \/ j = m
        BY <1>6, <2>1, <2>2, <2>5, <3>2
      <3> QED
        BY <3>1, <3>2
    <2>7. ASSUME NEW t \in Waiting' PROVE \E i \in 1 .. m : q_data'[d[i]] = t
      <3>1. CASE t = q_running
        BY <1>5, <2>2, <3>1
      <3>2. CASE t \in Waiting /\ t # q_running'
        <4>1. PICK i \in 1 .. m : q_data[c[i]] = t
          BY <1>6, <3>2
        <4>2. i # 1
          BY <3>2, <4>1
        <4>3. i - 1 \in 1 .. m /\ d[i - 1] = c[i]
          BY <1>5, <4>2
        <4> QED
          BY <1>16, <4>1, <4>3
      <3> QED
        BY <1>11, <3>1, <3>2
    <2> QED
      BY <2>4, <2>6, <2>7 DEF HasThreads
  <1>20. HasNodes(m, d)'
    <2>1. /\ \A x : x \in q_used <=> (\E i \in 1 .. m : c[i] = x) \/ (\E u \in Unlinked : q_node[u] = x)
          /\ \A u, v \in Unlinked : q_data[q_node[u]] = q_data[q_node[v]] => u = v
      BY DEF Lined, HasNodes
    <2>2. \A u \in Unlinked : c[1] # q_node[u]
      BY <1>5, <1>7
    <2>3. \A x : x \in q_used' <=> (\E i \in 1 .. m : d[i] = x) \/ (\E u \in Unlinked : q_node[u] = x)
      BY <1>3, <1>5, <2>1, <2>2
    <2>4. \A u \in Unlinked : \A i \in 1 .. m : d[i] # q_node[u]
      BY <1>3, <1>5, <1>7
    <2>5. \A u \in Unlinked :
            /\ q_node[u] \in RQ!Nodes /\ q_next'[q_node[u]] = NULL
            /\ q_data'[q_node[u]] \in RQ!Threads \ q_away
            /\ \A i \in 1 .. m : d[i] # q_node[u]
      <3>1. ASSUME NEW u \in Unlinked
            PROVE  /\ q_node[u] \in RQ!Nodes /\ q_next'[q_node[u]] = NULL
                   /\ q_data'[q_node[u]] \in RQ!Threads \ q_away
                   /\ \A i \in 1 .. m : d[i] # q_node[u]
        <4>1. /\ q_data'[q_node[u]] = q_data[q_node[u]] /\ q_next'[q_node[u]] = q_next[q_node[u]]
              /\ q_node[u] \in RQ!Nodes /\ q_next[q_node[u]] = NULL
              /\ q_data[q_node[u]] \in RQ!Threads \ q_away
          BY <1>7, <1>8
        <4> QED
          BY <2>4, <4>1
      <3> QED
        BY <3>1
    <2>6. \A u, v \in Unlinked : q_data'[q_node[u]] = q_data'[q_node[v]] => u = v
      <3>1. ASSUME NEW u \in Unlinked, NEW v \in Unlinked, q_data'[q_node[u]] = q_data'[q_node[v]]
            PROVE  u = v
        <4>1. q_data'[q_node[u]] = q_data[q_node[u]] /\ q_data'[q_node[v]] = q_data[q_node[v]]
          BY <1>8
        <4>2. q_data[q_node[u]] = q_data[q_node[v]]
          BY <3>1, <4>1
        <4> QED
          BY <2>1, <4>2
      <3> QED
        BY <3>1
    <2>7. q_node' = q_node /\ q_away' = q_away
      OBVIOUS
    <2>8. \A x : x \in q_used' <=> (\E i \in 1 .. m : d[i] = x) \/ (\E u \in Unlinked' : q_node'[u] = x)
      BY <1>2, <2>3, <2>7, Zenon
    <2>9. \A u \in Unlinked' :
            /\ q_node'[u] \in RQ!Nodes /\ q_next'[q_node'[u]] = NULL
            /\ q_data'[q_node'[u]] \in RQ!Threads \ q_away'
            /\ \A i \in 1 .. m : d[i] # q_node'[u]
      BY <1>2, <2>5, <2>7, Zenon
    <2>10. \A u, v \in Unlinked' : q_data'[q_node'[u]] = q_data'[q_node'[v]] => u = v
      <3>1. ASSUME NEW u \in Unlinked, NEW v \in Unlinked, q_data'[q_node'[u]] = q_data'[q_node'[v]]
            PROVE  u = v
        <4>1. q_data'[q_node[u]] = q_data'[q_node[v]]
          BY <2>7, <3>1
        <4> QED
          BY <2>6, <4>1
      <3> QED
        BY <1>2, <3>1
    <2> QED
      BY <2>8, <2>9, <2>10 DEF HasNodes
  <1>21. Lined(m, d)'
    BY <1>1, <1>17, <1>18, <1>19, <1>20 DEF Lined
  <1>22. RQ!Line = [i \in 1 .. m |-> q_data[c[i]]] /\ RQ!Line' = [i \in 1 .. m |-> q_data'[d[i]]]
    BY <1>21, LineIs, LineWillBe
  <1>23. PICK s : s = RQ!Line
    OBVIOUS
  <1>24. PICK r : r = q_running
    OBVIOUS
  <1>25. s = [i \in 1 .. m |-> s[i]] /\ \A i \in 1 .. m : s[i] = q_data[c[i]]
    BY <1>22, <1>23
  <1>26. Append(s, r) = [i \in 1 .. m + 1 |-> IF i <= m THEN s[i] ELSE r]
    BY <1>1, <1>25, AtEnd
  <1>27. /\ Head(Append(s, r)) = IF m = 0 THEN r ELSE s[1]
         /\ Tail(Append(s, r)) = [i \in 1 .. m |-> IF i < m THEN s[i + 1] ELSE r]
    BY <1>1, <1>26, FirstAndRest
  <1>28. q_running' = Head(Append(s, r))
    BY <1>5, <1>25, <1>27
  <1>29. RQ!Line' = Tail(Append(s, r))
    <2>1. \A i \in 1 .. m : q_data'[d[i]] = IF i < m THEN s[i + 1] ELSE r
      BY <1>1, <1>5, <1>16, <1>24, <1>25
    <2> QED
      BY <1>22, <1>27, <2>1
  <1>30. RQ!FIFO!Rotate
    BY <1>23, <1>24, <1>28, <1>29 DEF RQ!FIFO!Rotate, QueueAssumed
  <1> QED
    BY <1>13, <1>21, <1>30 DEF QueueStep, QueueInv, RQ!FIFO!Next

\* A tick while nobody waits: the thread that runs goes on.
LEMMA QueueTickNone ==
  ASSUME QueueAssumed, QueueTyped, NEW c, Lined(0, c), ~RQ!At("set_tail"),
         NEW n \in RQ!Nodes \ q_used,
         q_running' = q_running, q_head' = NULL, q_tail' = NULL,
         q_next' = [q_next EXCEPT ![n] = NULL], q_data' = [q_data EXCEPT ![n] = q_running],
         q_used' = q_used, UNCHANGED <<q_pc, q_node, q_away>>
  PROVE  QueueStep
  <1>1. Unlinked' = Unlinked
    BY DEF Unlinked
  <1>2. \A u \in Unlinked : q_node[u] \in q_used /\ q_node[u] \in RQ!Nodes
    BY DEF Lined, HasNodes
  <1>3. \A u \in Unlinked : q_next'[q_node[u]] = q_next[q_node[u]] /\ q_data'[q_node[u]] = q_data[q_node[u]]
    BY <1>2 DEF QueueTyped
  <1>4. RQ!Entering' = RQ!Entering
    <2>1. RQ!Entering = {q_data[q_node[u]] : u \in Unlinked}
      BY DEF RQ!Entering, Unlinked
    <2>2. RQ!Entering' = {q_data'[q_node'[u]] : u \in Unlinked'}
      BY DEF RQ!Entering, Unlinked
    <2> QED
      BY <1>1, <1>3, <2>1, <2>2
  <1>5. Waiting' = Waiting
    BY <1>4 DEF Waiting
  <1>6. QueueTyped'
    BY <1>4 DEF QueueTyped
  <1>7. HasLinks(0, c)' /\ HasEnd(0, c)'
    BY DEF Lined, HasLinks, HasEnd, RQ!At
  <1>8. HasThreads(0, c)'
    BY <1>5 DEF Lined, HasThreads
  <1>9. HasNodes(0, c)'
    BY <1>1, <1>3 DEF Lined, HasNodes
  <1>10. Lined(0, c)'
    BY <1>7, <1>8, <1>9 DEF Lined
  <1>11. \A i \in 1 .. 0 : q_data'[c[i]] = q_data[c[i]]
    OBVIOUS
  <1> QED
    BY <1>6, <1>10, <1>11, LineStays

\* A tick, anywhere but between the test of a tail that is not NULL and the
\* new tail.
LEMMA QueueTick ==
  ASSUME QueueAssumed, QueueTyped, NEW m, NEW c, Lined(m, c), RQ!Tick
  PROVE  QueueStep
  <1>1. q_running \in RQ!Threads /\ q_running # NULL /\ q_pc[q_running] \in {"user", "test", "link_head"}
    BY DEF RQ!Tick, QueueTyped, QueueAssumed
  <1>2. PICK n \in RQ!Nodes \ q_used :
          /\ RQ!dequeue(RQ!First(n), n, q_next', q_data')
          /\ q_next' = [[q_next EXCEPT ![n] = NULL] EXCEPT
                          ![IF q_tail = NULL THEN n ELSE q_tail] = IF q_tail = NULL THEN NULL ELSE n]
          /\ q_data' = [q_data EXCEPT ![n] = q_running]
          /\ q_used' = (q_used \cup {n}) \ {RQ!First(n)}
    BY DEF RQ!Tick
  <1>3. UNCHANGED <<q_pc, q_node, q_away>>
    BY DEF RQ!Tick
  <1>4. /\ m \in Nat /\ c \in [1 .. m -> RQ!Nodes] /\ q_head = (IF m = 0 THEN NULL ELSE c[1])
        /\ q_tail = (IF m = 0 THEN NULL ELSE c[m])
    BY <1>1 DEF Lined, HasLinks, HasEnd, RQ!At
  <1>5. n \in DOMAIN q_next /\ n \in DOMAIN q_data /\ n # NULL
    BY <1>2 DEF QueueTyped, QueueAssumed
  <1>6. CASE m = 0
    <2>1. q_tail = NULL /\ RQ!First(n) = n
      BY <1>4, <1>6 DEF RQ!First
    <2>2. q_next' = [q_next EXCEPT ![n] = NULL]
      BY <1>2, <1>5, <2>1
    <2>3. q_running' = q_running /\ q_head' = NULL /\ q_tail' = NULL /\ q_used' = q_used
      BY <1>2, <1>5, <2>1, <2>2 DEF RQ!dequeue
    <2>4. Lined(0, c) /\ ~RQ!At("set_tail")
      BY <1>1, <1>6 DEF RQ!At
    <2> QED
      BY <1>2, <1>3, <2>2, <2>3, <2>4, QueueTickNone
  <1>7. CASE m # 0
    <2>1. c[m] \in RQ!Nodes /\ c[1] \in RQ!Nodes /\ m \in 1 .. m /\ 1 \in 1 .. m
      BY <1>4, <1>7
    <2>2. q_tail = c[m] /\ q_tail # NULL /\ q_head = c[1] /\ c[1] # NULL
      BY <1>4, <1>7, <2>1 DEF QueueAssumed
    <2>3. RQ!First(n) = c[1]
      BY <2>2 DEF RQ!First
    <2>4. q_next' = [[q_next EXCEPT ![n] = NULL] EXCEPT ![c[m]] = n]
      <3>1. q_next' = [[q_next EXCEPT ![n] = NULL] EXCEPT
                          ![IF q_tail = NULL THEN n ELSE q_tail] = IF q_tail = NULL THEN NULL ELSE n]
        BY <1>2
      <3>2. (IF q_tail = NULL THEN n ELSE q_tail) = c[m] /\ (IF q_tail = NULL THEN NULL ELSE n) = n
        BY <2>2
      <3> QED
        BY <3>1, <3>2
    <2>5. c[1] # n
      BY <1>2, <2>1 DEF Lined, HasNodes
    <2>6. /\ q_running' = q_data'[c[1]] /\ q_head' = q_next'[c[1]]
          /\ q_tail' = IF q_head' = NULL THEN NULL ELSE n
          /\ q_used' = (q_used \cup {n}) \ {c[1]}
      BY <1>2, <2>2, <2>3 DEF RQ!dequeue
    <2>7. q_running' = q_data[c[1]]
      BY <1>2, <2>1, <2>5, <2>6 DEF QueueTyped
    <2>8. q_pc[q_running] \in {"user", "test"}
      BY <1>1, <1>7 DEF Lined, HasEnd, RQ!At
    <2> QED
      BY <1>1, <1>2, <1>3, <1>7, <2>4, <2>6, <2>7, <2>8, QueueTickSome
  <1> QED
    BY <1>6, <1>7

\* d is c without its first node.
Shorter(m, c, d) ==
  /\ d \in [1 .. m - 1 -> RQ!Nodes] /\ m - 1 \in Nat
  /\ \A i \in 1 .. m - 1 : i + 1 \in 1 .. m /\ i + 1 # 1 /\ d[i] = c[i + 1]
  /\ \A i \in 1 .. m : i # 1 => i - 1 \in 1 .. m - 1 /\ d[i - 1] = c[i]
  /\ \A i, j \in 1 .. m - 1 : d[i] = d[j] => i = j
  /\ \A x : (\E i \in 1 .. m - 1 : d[i] = x) <=> (\E i \in 1 .. m : c[i] = x) /\ x # c[1]

\* A list of which the first node goes.
LEMMA Shortened ==
  ASSUME NEW m \in Nat \ {0}, NEW c \in [1 .. m -> RQ!Nodes],
         \A i, j \in 1 .. m : c[i] = c[j] => i = j
  PROVE  \E d : Shorter(m, c, d)
  <1>1. PICK d : d = [i \in 1 .. m - 1 |-> c[i + 1]]
    OBVIOUS
  <1>2. \A i \in 1 .. m - 1 : i + 1 \in 1 .. m /\ i + 1 # 1 /\ d[i] = c[i + 1]
    BY <1>1
  <1>3. \A i \in 1 .. m : i # 1 => i - 1 \in 1 .. m - 1 /\ d[i - 1] = c[i]
    BY <1>1
  <1>4. d \in [1 .. m - 1 -> RQ!Nodes] /\ m - 1 \in Nat
    BY <1>1, <1>2
  <1>5. \A i, j \in 1 .. m - 1 : d[i] = d[j] => i = j
    BY <1>2
  <1>6. ASSUME NEW x
        PROVE  (\E i \in 1 .. m - 1 : d[i] = x) <=> (\E i \in 1 .. m : c[i] = x) /\ x # c[1]
    <2>1. 1 \in 1 .. m
      OBVIOUS
    <2>2. ASSUME NEW i \in 1 .. m - 1, d[i] = x PROVE (\E j \in 1 .. m : c[j] = x) /\ x # c[1]
      BY <1>2, <2>1, <2>2
    <2>3. ASSUME x # c[1], NEW i \in 1 .. m, c[i] = x PROVE \E j \in 1 .. m - 1 : d[j] = x
      BY <1>3, <2>3
    <2> QED
      BY <2>2, <2>3
  <1>7. Shorter(m, c, d)
    BY <1>2, <1>3, <1>4, <1>5, <1>6 DEF Shorter
  <1> QED
    BY <1>7, Zenon

\* The first element of a sequence that has one, and the others.
LEMMA HeadAndTail ==
  ASSUME NEW S, NEW k \in Nat, NEW s \in Seq(S), Len(s) = k + 1
  PROVE  s # <<>> /\ Head(s) = s[1] /\ Tail(s) = [i \in 1 .. k |-> s[i + 1]]
  <1>1. Head(s) = s[1] /\ Tail(s) = [i \in 1 .. k |-> s[i + 1]]
    <2>1. s \in [1 .. k + 1 -> S]
      OBVIOUS
    <2>2. s = [i \in 1 .. k + 1 |-> s[i]]
      BY <2>1
    <2>3. Tail(s) = [i \in 1 .. k |-> s[i + 1]]
      BY <2>2
    <2>4. Head(s) = s[1]
      OBVIOUS
    <2> QED
      BY <2>3, <2>4
  <1>2. s # <<>>
    OBVIOUS
  <1> QED
    BY <1>1, <1>2

\* The thread that runs leaves: the first that waits runs, or nobody does.
LEMMA QueueLeave ==
  ASSUME QueueAssumed, QueueTyped, NEW m, NEW c, Lined(m, c), RQ!Leave
  PROVE  QueueStep
  <1>1. /\ q_running \in RQ!Threads /\ q_running # NULL /\ q_pc[q_running] = "user"
        /\ RQ!dequeue(q_head, q_tail, q_next, q_data) /\ q_used' = q_used \ {q_head}
        /\ q_away' = q_away \cup {q_running} /\ UNCHANGED <<q_next, q_data, q_pc, q_node>>
    BY DEF RQ!Leave, RQ!At, QueueTyped
  <1>2. /\ m \in Nat /\ c \in [1 .. m -> RQ!Nodes] /\ q_head = (IF m = 0 THEN NULL ELSE c[1])
        /\ q_tail = (IF m = 0 THEN NULL ELSE c[m])
        /\ \A i, j \in 1 .. m : c[i] = c[j] => i = j
        /\ \A i \in 1 .. m : q_next[c[i]] = IF i = m THEN NULL ELSE c[i + 1]
    BY <1>1 DEF Lined, HasLinks, HasEnd, RQ!At
  <1>3. Unlinked' = Unlinked /\ RQ!Entering' = RQ!Entering
    BY <1>1 DEF Unlinked, RQ!Entering
  <1>4. q_running \notin q_away \cup RQ!Entering /\ q_running \notin Waiting
    BY DEF QueueTyped, Waiting
  <1>5. Waiting' = Waiting \ {q_running'}
    BY <1>1, <1>3, <1>4 DEF Waiting
  <1>6. /\ \A i \in 1 .. m : q_data[c[i]] \in Waiting
        /\ \A i, j \in 1 .. m : q_data[c[i]] = q_data[c[j]] => i = j
        /\ \A t \in Waiting : \E i \in 1 .. m : q_data[c[i]] = t
    BY DEF Lined, HasThreads
  <1>7. /\ \A x : x \in q_used <=> (\E i \in 1 .. m : c[i] = x) \/ (\E u \in Unlinked : q_node[u] = x)
        /\ \A u \in Unlinked :
             /\ q_node[u] \in RQ!Nodes /\ q_next[q_node[u]] = NULL
             /\ q_data[q_node[u]] \in RQ!Threads \ q_away
             /\ \A i \in 1 .. m : c[i] # q_node[u]
        /\ \A u, v \in Unlinked : q_data[q_node[u]] = q_data[q_node[v]] => u = v
    BY DEF Lined, HasNodes
  <1>8. \A u \in Unlinked : q_data[q_node[u]] \in RQ!Threads \ q_away'
    <2>1. \A u \in Unlinked : q_data[q_node[u]] \in RQ!Entering
      BY DEF RQ!Entering, Unlinked
    <2> QED
      BY <1>1, <1>4, <1>7, <2>1
  <1>9. q_running' \in (RQ!Threads \cup {NULL}) \ (q_away' \cup RQ!Entering') => QueueTyped'
    <2>1. \A t \in RQ!Threads : t # q_running' => q_pc'[t] \in {"user", "test"}
      BY <1>1 DEF QueueTyped
    <2> QED
      BY <1>1, <2>1 DEF QueueTyped
  <1>10. CASE m = 0
    <2>1. q_running' = NULL /\ q_head' = NULL /\ q_tail' = NULL
      BY <1>1, <1>2, <1>10 DEF RQ!dequeue
    <2>2. q_used' = q_used
      BY <1>1, <1>2, <1>7, <1>10 DEF QueueAssumed
    <2>3. Waiting = {} /\ Waiting' = {}
      BY <1>5, <1>6, <1>10
    <2>4. QueueTyped'
      <3>1. NULL \notin q_away' \cup RQ!Entering'
        <4>1. RQ!Entering \subseteq RQ!Threads
          BY <1>7 DEF RQ!Entering, Unlinked
        <4> QED
          BY <1>1, <1>3, <4>1 DEF QueueTyped, QueueAssumed
      <3> QED
        BY <1>9, <2>1, <3>1
    <2>5. HasLinks(0, c)' /\ HasEnd(0, c)' /\ HasThreads(0, c)'
      BY <1>1, <1>2, <1>10, <2>1, <2>3 DEF HasLinks, HasEnd, HasThreads, RQ!At
    <2>6. HasNodes(0, c)'
      BY <1>1, <1>3, <1>7, <1>8, <1>10, <2>2 DEF HasNodes
    <2>7. Lined(0, c)'
      BY <2>5, <2>6 DEF Lined
    <2>8. Lined(0, c)
      BY <1>10
    <2>9. RQ!Line = <<>> /\ RQ!Line' = <<>>
      <3>1. /\ RQ!Line = [i \in 1 .. 0 |-> q_data[c[i]]]
            /\ RQ!Line' = [i \in 1 .. 0 |-> q_data'[c[i]]]
        BY <2>7, <2>8, LineIs, LineWillBe
      <3> QED
        BY <3>1
    <2>10. RQ!FIFO!Depart
      BY <1>1, <2>1, <2>9 DEF RQ!FIFO!Depart
    <2> QED
      BY <2>4, <2>7, <2>10 DEF QueueStep, QueueInv, RQ!FIFO!Next
  <1>11. CASE m # 0
    <2>1. /\ m \in Nat \ {0} /\ 1 \in 1 .. m /\ m \in 1 .. m /\ q_head = c[1] /\ q_tail = c[m]
          /\ c[1] \in RQ!Nodes /\ c[1] # NULL /\ c[m] \in RQ!Nodes /\ c[m] # NULL
      BY <1>2, <1>11 DEF QueueAssumed
    <2>2. PICK d : Shorter(m, c, d)
      BY <1>2, <2>1, Shortened
    <2>3. PICK k : k = m - 1
      OBVIOUS
    <2>4. /\ k \in Nat /\ k = m - 1 /\ d \in [1 .. k -> RQ!Nodes]
          /\ \A i \in 1 .. k : i + 1 \in 1 .. m /\ i + 1 # 1 /\ d[i] = c[i + 1]
          /\ \A i \in 1 .. m : i # 1 => i - 1 \in 1 .. k /\ d[i - 1] = c[i]
          /\ \A i, j \in 1 .. k : d[i] = d[j] => i = j
          /\ \A x : (\E i \in 1 .. k : d[i] = x) <=> (\E i \in 1 .. m : c[i] = x) /\ x # c[1]
      BY <2>2, <2>3 DEF Shorter
    <2>5. /\ q_running' = q_data[c[1]] /\ q_head' = q_next[c[1]]
          /\ q_tail' = IF q_head' = NULL THEN NULL ELSE c[m]
      BY <1>1, <2>1 DEF RQ!dequeue
    <2>6. q_running' \in Waiting /\ q_running' \in RQ!Threads /\ q_running' # q_running
      BY <1>4, <1>6, <2>1, <2>5 DEF Waiting
    <2>7. QueueTyped'
      <3>1. q_running' \notin q_away' \cup RQ!Entering'
        BY <1>1, <1>3, <2>6 DEF Waiting
      <3> QED
        BY <1>9, <2>6, <3>1
    <2>8. q_head' = (IF k = 0 THEN NULL ELSE d[1]) /\ q_tail' = (IF k = 0 THEN NULL ELSE d[k])
      <3>1. CASE m = 1
        BY <1>2, <2>1, <2>4, <2>5, <3>1
      <3>2. CASE m # 1
        <4>1. 1 \in 1 .. k /\ k \in 1 .. k /\ k # 0 /\ k + 1 = m
          BY <2>1, <2>4, <3>2
        <4>2. d[1] = c[2] /\ q_next[c[1]] = c[2] /\ 2 \in 1 .. m
          BY <1>2, <2>1, <2>4, <3>2, <4>1
        <4>3. d[k] = c[m]
          BY <2>4, <4>1
        <4>4. c[2] # NULL
          BY <1>2, <4>2 DEF QueueAssumed
        <4> QED
          BY <2>5, <4>1, <4>2, <4>3, <4>4
      <3> QED
        BY <3>1, <3>2
    <2>9. HasLinks(k, d)'
      <3>1. ASSUME NEW i \in 1 .. k PROVE q_next[d[i]] = IF i = k THEN NULL ELSE d[i + 1]
        <4>1. i + 1 \in 1 .. m /\ d[i] = c[i + 1]
          BY <2>4
        <4>2. q_next[c[i + 1]] = IF i + 1 = m THEN NULL ELSE c[i + 1 + 1]
          BY <1>2, <4>1
        <4>3. i # k => i + 1 \in 1 .. k /\ d[i + 1] = c[i + 1 + 1]
          BY <2>4
        <4>4. i = k <=> i + 1 = m
          BY <2>1, <2>4
        <4> QED
          BY <4>1, <4>2, <4>3, <4>4
      <3> QED
        BY <1>1, <2>4, <2>8, <3>1 DEF HasLinks
    <2>10. HasEnd(k, d)'
      <3>1. q_pc'[q_running'] \in {"user", "test"}
        BY <1>1, <2>6 DEF QueueTyped
      <3> QED
        BY <2>8, <3>1 DEF HasEnd, RQ!At
    <2>11. HasThreads(k, d)'
      <3>1. \A i \in 1 .. k : q_data[d[i]] \in Waiting'
        BY <1>5, <1>6, <2>1, <2>4, <2>5
      <3>2. \A i, j \in 1 .. k : q_data[d[i]] = q_data[d[j]] => i = j
        <4> SUFFICES ASSUME NEW i \in 1 .. k, NEW j \in 1 .. k, q_data[d[i]] = q_data[d[j]] PROVE i = j
          OBVIOUS
        <4>1. i + 1 = j + 1
          BY <1>6, <2>4
        <4> QED
          BY <2>4, <4>1
      <3>3. ASSUME NEW t \in Waiting' PROVE \E i \in 1 .. k : q_data[d[i]] = t
        <4>1. PICK i \in 1 .. m : q_data[c[i]] = t
          BY <1>5, <1>6
        <4>2. i # 1
          BY <1>5, <2>5, <4>1
        <4> QED
          BY <2>4, <4>1, <4>2
      <3> QED
        BY <1>1, <3>1, <3>2, <3>3 DEF HasThreads
    <2>12. HasNodes(k, d)'
      <3>1. \A u \in Unlinked : c[1] # q_node[u]
        BY <1>7, <2>1
      <3>2. \A x : x \in q_used' <=> (\E i \in 1 .. k : d[i] = x) \/ (\E u \in Unlinked : q_node[u] = x)
        BY <1>1, <1>7, <2>1, <2>4, <3>1
      <3>3. \A u \in Unlinked : \A i \in 1 .. k : d[i] # q_node[u]
        BY <1>7, <2>4
      <3> QED
        BY <1>1, <1>3, <1>7, <1>8, <3>2, <3>3 DEF HasNodes
    <2>13. Lined(k, d)'
      BY <2>4, <2>9, <2>10, <2>11, <2>12 DEF Lined
    <2>14. RQ!Line = [i \in 1 .. m |-> q_data[c[i]]] /\ RQ!Line' = [i \in 1 .. k |-> q_data[d[i]]]
      BY <1>1, <2>13, LineIs, LineWillBe
    <2>15. PICK s : s = RQ!Line
      OBVIOUS
    <2>16. s \in Seq(Waiting) /\ Len(s) = m /\ \A i \in 1 .. m : s[i] = q_data[c[i]]
      <3>1. s \in [1 .. m -> Waiting]
        BY <1>6, <2>14, <2>15
      <3> QED
        BY <1>2, <2>14, <2>15, <3>1
    <2>17. s # <<>> /\ Head(s) = s[1] /\ Tail(s) = [i \in 1 .. k |-> s[i + 1]]
      <3>1. s \in Seq(Waiting) /\ Len(s) = k + 1 /\ k \in Nat
        BY <2>1, <2>4, <2>16
      <3> QED
        BY <3>1, HeadAndTail
    <2>18. \A i \in 1 .. k : q_data[d[i]] = s[i + 1]
      BY <2>4, <2>16
    <2>19. q_running' = Head(s) /\ RQ!Line' = Tail(s)
      BY <2>1, <2>5, <2>14, <2>16, <2>17, <2>18
    <2>20. RQ!FIFO!Depart
      BY <1>1, <2>15, <2>17, <2>19 DEF RQ!FIFO!Depart
    <2> QED
      BY <2>7, <2>13, <2>20 DEF QueueStep, QueueInv, RQ!FIFO!Next
  <1> QED
    BY <1>10, <1>11

\* Every step of the list.
LEMMA QueueNext == QueueAssumed /\ QueueInv /\ [RQ!Next]_(RQ!vars) => QueueStep
  <1> SUFFICES ASSUME QueueAssumed, QueueInv, [RQ!Next]_(RQ!vars) PROVE QueueStep
    OBVIOUS
  <1>1. QueueTyped
    BY DEF QueueInv
  <1>2. PICK m, c : Lined(m, c)
    BY DEF QueueInv
  <1>3. CASE RQ!NewNode
    BY <1>1, <1>2, <1>3, QueueNewNode
  <1>4. CASE RQ!TestTail
    BY <1>1, <1>2, <1>4, QueueTest
  <1>5. CASE RQ!LinkTail
    BY <1>1, <1>2, <1>5, QueueLinkTail
  <1>6. CASE RQ!LinkHead
    BY <1>1, <1>2, <1>6, QueueLinkHead
  <1>7. CASE RQ!SetTail
    BY <1>1, <1>2, <1>7, QueueSetTail
  <1>8. CASE RQ!Tick
    BY <1>1, <1>2, <1>8, QueueTick
  <1>9. CASE RQ!Leave
    BY <1>1, <1>2, <1>9, QueueLeave
  <1>10. CASE RQ!Over \/ UNCHANGED RQ!vars
    <2>1. UNCHANGED <<q_head, q_tail, q_next, q_data, q_used, q_running, q_away, q_pc, q_node>>
      BY <1>10 DEF RQ!Over, RQ!vars
    <2>2. Unlinked' = Unlinked /\ RQ!Entering' = RQ!Entering /\ Waiting' = Waiting
      BY <2>1 DEF Unlinked, RQ!Entering, Waiting
    <2>3. QueueTyped'
      BY <1>1, <2>1, <2>2 DEF QueueTyped
    <2>4. HasLinks(m, c)' /\ HasEnd(m, c)'
      BY <1>2, <2>1 DEF Lined, HasLinks, HasEnd, RQ!At
    <2>5. HasThreads(m, c)' /\ HasNodes(m, c)'
      BY <1>2, <2>1, <2>2 DEF Lined, HasThreads, HasNodes
    <2>6. Lined(m, c)'
      BY <1>2, <2>4, <2>5 DEF Lined
    <2> QED
      BY <1>2, <2>1, <2>3, <2>6, LineStays
  <1> QED
    BY <1>3, <1>4, <1>5, <1>6, <1>7, <1>8, <1>9, <1>10 DEF RQ!Next

\* The list that main starts with is an empty line.
LEMMA FIFOInit == QueueAssumed /\ RQ!Init => RQ!FIFO!Init
  <1> SUFFICES ASSUME QueueAssumed, RQ!Init PROVE RQ!FIFO!Init
    OBVIOUS
  <1>1. q_head = NULL /\ q_running = RQ!Main
    BY DEF RQ!Init
  <1>2. QueueWorkers + 2 \in 1 .. QueueWorkers + 2
    BY DEF QueueAssumed
  <1>3. RQ!Line = <<>>
    BY <1>1, <1>2, ChainUnfolds DEF Unfolded, RQ!Line
  <1> QED
    BY <1>1, <1>3 DEF RQ!FIFO!Init

\* In such a list every thread that waits stands once, and no other does.
LEMMA InLine == QueueAssumed /\ QueueInv => EveryoneInLine
  <1> SUFFICES ASSUME QueueAssumed, QueueInv PROVE EveryoneInLine
    OBVIOUS
  <1>1. PICK m, c : Lined(m, c)
    BY DEF QueueInv
  <1>2. RQ!Line = [i \in 1 .. m |-> q_data[c[i]]]
    BY <1>1, LineIs
  <1>3. PICK s : s = RQ!Line
    OBVIOUS
  <1>4. /\ m \in Nat /\ \A i \in 1 .. m : q_data[c[i]] \in Waiting
        /\ \A i, j \in 1 .. m : q_data[c[i]] = q_data[c[j]] => i = j
        /\ \A u \in Waiting : \E i \in 1 .. m : q_data[c[i]] = u
    BY <1>1 DEF Lined, HasThreads
  <1>5. Len(s) = m /\ \A i \in 1 .. m : s[i] = q_data[c[i]]
    <2>1. s \in [1 .. m -> Waiting]
      BY <1>2, <1>3, <1>4
    <2> QED
      BY <1>2, <1>3, <1>4, <2>1
  <1>6. ASSUME NEW t \in RQ!Threads
        PROVE  RQ!Cardinality({i \in 1 .. Len(RQ!Line) : RQ!Line[i] = t}) =
                 IF t = q_running \/ t \in q_away \cup RQ!Entering THEN 0 ELSE 1
    <2>1. PICK S : S = {i \in 1 .. Len(s) : s[i] = t}
      OBVIOUS
    <2>2. RQ!Cardinality(S) = Cardinality(S)
      BY DEF RQ!Cardinality, Cardinality
    <2>3. CASE t \notin Waiting
      <3>1. S = {}
        BY <1>4, <1>5, <2>1, <2>3
      <3>2. t = q_running \/ t \in q_away \cup RQ!Entering
        BY <2>3 DEF Waiting
      <3> QED
        BY <1>3, <2>1, <2>2, <3>1, <3>2, FS_EmptySet
    <2>4. CASE t \in Waiting
      <3>1. PICK i \in 1 .. m : q_data[c[i]] = t
        BY <1>4, <2>4
      <3>2. S = {i}
        BY <1>4, <1>5, <2>1, <3>1
      <3>3. ~(t = q_running \/ t \in q_away \cup RQ!Entering)
        BY <2>4 DEF Waiting
      <3> QED
        BY <1>3, <2>1, <2>2, <3>2, <3>3, FS_Singleton
    <2> QED
      BY <2>3, <2>4
  <1>7. \A t \in RQ!Threads : q_pc[t] # "segv"
    BY DEF QueueInv, QueueTyped
  <1> QED
    BY <1>6, <1>7 DEF EveryoneInLine, RQ!EveryoneInLine

\* Threads create, wake, exit and block, and ticks land anywhere in enqueue but
\* between its test of a tail that is not NULL and its store of the new tail:
\* every thread that does not run, is not away and whose enqueue has got to its
\* link stands in the run queue, once, and no enqueue meets a NULL tail.
THEOREM EveryoneStands ==
  ASSUME QueueAssumed PROVE RQ!Spec => []EveryoneInLine
  <1>1. RQ!Init => QueueInv
    BY QueueInit
  <1>2. QueueInv /\ [RQ!Next]_(RQ!vars) => QueueInv'
    BY QueueNext DEF QueueStep
  <1>3. QueueInv => EveryoneInLine
    BY InLine
  <1> QED
    BY <1>1, <1>2, <1>3, PTL DEF RQ!Spec

\* Then enqueue and dequeue implement a first-in first-out line.
THEOREM ImplementsFIFO ==
  ASSUME QueueAssumed PROVE RQ!Spec => RefinesFIFO
  <1>1. RQ!Init => QueueInv /\ RQ!FIFO!Init
    BY QueueInit, FIFOInit
  <1>2. QueueInv /\ [RQ!Next]_(RQ!vars) => QueueInv' /\ [RQ!FIFO!Next]_<<q_running, RQ!Line>>
    BY QueueNext DEF QueueStep
  <1> QED
    BY <1>1, <1>2, PTL DEF RQ!Spec, RefinesFIFO, RQ!RefinesFIFO, RQ!FIFO!Spec

-----------------------------------------------------------------------------
(***************************************************************************)
(* mat_mult                                                                *)
(***************************************************************************)
\* Sizes are sizes, elements numbers, and the word size is positive.
MatAssumed == MatSizes \subseteq Nat /\ MatValues \subseteq Int /\ WordMod \in Nat \ {0}

\* The recursive definition of Sum, unfolded.
Summed(f, sz, words, m1, m2) ==
  \A r, s \in 0 .. sz - 1 :
    /\ f[0][r][s] = 0
    /\ \A n \in 1 .. sz :
         f[n][r][s] = f[n - 1][r][s] + words[m1 + r * sz + n - 1] * words[m2 + (n - 1) * sz + s]

\* The first levels of Sum.
SumLevels(g, l) ==
  g = [n \in 0 .. l |->
         [r \in 0 .. m_size - 1 |-> [s \in 0 .. m_size - 1 |->
            IF n = 0 THEN 0
            ELSE g[n - 1][r][s]
                 + m_mem[m_mat1 + r * m_size + n - 1] * m_mem[m_mat2 + (n - 1) * m_size + s]]]]

\* Sum is what its definition says.
LEMMA SumUnfolds == m_size \in Nat => Summed(MM!Sum, m_size, m_mem, m_mat1, m_mat2)
  <1> SUFFICES ASSUME m_size \in Nat PROVE Summed(MM!Sum, m_size, m_mem, m_mat1, m_mat2)
    OBVIOUS
  <1>1. PICK N \in Nat : N = m_size
    OBVIOUS
  <1>2. PICK D : D = 0 .. m_size - 1
    OBVIOUS
  <1>3. PICK P : P = {l \in 0 .. N : \E g : SumLevels(g, l)}
    OBVIOUS
  <1> DEFINE Term(n, r, s) == m_mem[m_mat1 + r * m_size + n - 1] * m_mem[m_mat2 + (n - 1) * m_size + s]
             Level(h, n) == [r \in D |-> [s \in D |-> IF n = 0 THEN 0 ELSE h[n - 1][r][s] + Term(n, r, s)]]
  <1>4. \A g, l : SumLevels(g, l) <=> g = [n \in 0 .. l |-> Level(g, n)]
    BY <1>2, Zenon DEF SumLevels
  <1> HIDE DEF Term
  <1>5. 0 \in P
    <2>1. PICK g : g = [n \in 0 .. 0 |-> [r \in D |-> [s \in D |-> 0]]]
      OBVIOUS
    <2>2. g = [n \in 0 .. 0 |-> Level(g, n)]
      BY <2>1
    <2>3. SumLevels(g, 0)
      BY <1>4, <2>2, Zenon
    <2> QED
      BY <1>3, <2>3
  <1>6. ASSUME NEW l \in 0 .. N - 1, l \in P PROVE l + 1 \in P
    <2>1. PICK g : g = [n \in 0 .. l |-> Level(g, n)]
      <3>1. \E g : SumLevels(g, l)
        BY <1>3, <1>6
      <3> QED
        BY <1>4, <3>1, Zenon
    <2>2. PICK h : h = [n \in 0 .. l + 1 |-> IF n <= l THEN g[n] ELSE Level(g, n)]
      OBVIOUS
    <2>3. ASSUME NEW n \in 0 .. l + 1 PROVE h[n] = Level(h, n)
      <3>1. h[n] = Level(g, n)
        <4>1. CASE n <= l
          <5>1. n \in 0 .. l /\ h[n] = g[n]
            BY <2>2, <4>1
          <5>2. g[n] = Level(g, n)
            BY <2>1, <5>1, Zenon
          <5> QED
            BY <5>1, <5>2, Zenon
        <4>2. CASE ~(n <= l)
          BY <2>2, <4>2, Zenon
        <4> QED
          BY <4>1, <4>2
      <3>2. CASE n = 0
        BY <3>1, <3>2
      <3>3. CASE n # 0
        <4>1. h[n - 1] = g[n - 1]
          BY <2>2, <3>3
        <4> QED
          BY <3>1, <4>1, Zenon
      <3> QED
        BY <3>2, <3>3
    <2>4. h = [n \in 0 .. l + 1 |-> Level(h, n)]
      BY <2>2, <2>3, Zenon
    <2>5. SumLevels(h, l + 1)
      BY <1>4, <2>4, Zenon
    <2> QED
      BY <1>3, <2>5
  <1>7. N \in P
    BY <1>5, <1>6, UpTo
  <1>8. SumLevels(MM!Sum, N)
    <2>1. \E g : SumLevels(g, N)
      BY <1>3, <1>7
    <2>2. MM!Sum = CHOOSE g : SumLevels(g, N)
      BY <1>1 DEF MM!Sum, SumLevels
    <2> QED
      BY <2>1, <2>2, Zenon
  <1>9. PICK f : f = MM!Sum
    OBVIOUS
  <1>10. f = [n \in 0 .. N |-> Level(f, n)]
    BY <1>4, <1>8, <1>9
  <1>11. ASSUME NEW n \in 0 .. N, NEW r \in D, NEW s \in D
         PROVE  f[n][r][s] = IF n = 0 THEN 0 ELSE f[n - 1][r][s] + Term(n, r, s)
    <2>1. f[n] = Level(f, n)
      BY <1>10, Zenon
    <2>2. f[n][r] = [t \in D |-> IF n = 0 THEN 0 ELSE f[n - 1][r][t] + Term(n, r, t)]
      BY <2>1, Zenon
    <2> QED
      BY <2>2, Zenon
  <1>12. \A r, s \in D : f[0][r][s] = 0 /\ \A n \in 1 .. N : f[n][r][s] = f[n - 1][r][s] + Term(n, r, s)
    BY <1>11
  <1>13. ASSUME NEW r \in D, NEW s \in D, NEW n \in 1 .. N
         PROVE  f[n][r][s] = f[n - 1][r][s]
                  + m_mem[m_mat1 + r * m_size + n - 1] * m_mem[m_mat2 + (n - 1) * m_size + s]
    BY <1>12, Zenon DEF Term
  <1>14. Summed(f, m_size, m_mem, m_mat1, m_mat2)
    <2>1. D = 0 .. m_size - 1 /\ 1 .. N = 1 .. m_size
      BY <1>1, <1>2
    <2>2. ASSUME NEW r \in 0 .. m_size - 1, NEW s \in 0 .. m_size - 1 PROVE f[0][r][s] = 0
      BY <1>12, <2>1
    <2>3. ASSUME NEW r \in 0 .. m_size - 1, NEW s \in 0 .. m_size - 1, NEW n \in 1 .. m_size
          PROVE  f[n][r][s] = f[n - 1][r][s]
                   + m_mem[m_mat1 + r * m_size + n - 1] * m_mem[m_mat2 + (n - 1) * m_size + s]
      <3>1. r \in D /\ s \in D /\ n \in 1 .. N
        BY <2>1
      <3> QED
        BY <1>13, <3>1, Zenon
    <2> QED
      BY <2>2, <2>3, Zenon DEF Summed
  <1> QED
    BY <1>9, <1>14

\* A word of the first two matrices is none of the answer.
LEMMA Arguments ==
  ASSUME NEW sz \in Nat, NEW m \in {0, sz * sz}, NEW r \in 0 .. sz - 1, NEW s \in 0 .. sz - 1
  PROVE  m + r * sz + s \in 0 .. 2 * sz * sz - 1
  <1>1. r * sz + s \in 0 .. sz * sz - 1
    OBVIOUS
  <1>2. PICK q \in Nat : q = sz * sz
    OBVIOUS
  <1>3. 2 * sz * sz = 2 * q
    BY <1>2
  <1>4. PICK t \in Nat : t = r * sz
    OBVIOUS
  <1>5. t + s \in 0 .. q - 1 /\ m \in {0, q}
    BY <1>1, <1>2, <1>4
  <1>6. m + t + s \in 0 .. 2 * q - 1
    BY <1>2, <1>5
  <1> QED
    BY <1>3, <1>4, <1>6

\* The same for the numbers that Sum and Multiply use.
LEMMA Words ==
  ASSUME NEW sz \in Nat, NEW m2 \in {0, sz * sz},
         NEW r \in 0 .. sz - 1, NEW s \in 0 .. sz - 1, NEW n \in 1 .. sz
  PROVE  /\ 0 + r * sz + n - 1 \in 0 .. 2 * sz * sz - 1
         /\ m2 + (n - 1) * sz + s \in 0 .. 2 * sz * sz - 1
  <1>1. n - 1 \in 0 .. sz - 1
    OBVIOUS
  <1>2. 0 + r * sz + (n - 1) \in 0 .. 2 * sz * sz - 1
    BY <1>1, Arguments
  <1>3. m2 + (n - 1) * sz + s \in 0 .. 2 * sz * sz - 1
    BY <1>1, Arguments
  <1>4. 0 + r * sz + (n - 1) = 0 + r * sz + n - 1
    OBVIOUS
  <1> QED
    BY <1>2, <1>3, <1>4

\* Two functions with the same numbers.
Agree(f, g, sz) ==
  \A n \in 0 .. sz : \A r, s \in 0 .. sz - 1 : f[n][r][s] \in Int /\ g[n][r][s] = f[n][r][s]

\* Memories with the same first two matrices.
SameMatrices(words, others, sz) ==
  \A a \in 0 .. 2 * sz * sz - 1 : words[a] \in Int /\ others[a] = words[a]

\* The sums are those of the first two matrices only, and numbers.
LEMMA SameSums ==
  ASSUME NEW sz \in Nat, NEW m2 \in {0, sz * sz}, NEW f, NEW g, NEW words, NEW others,
         Summed(f, sz, words, 0, m2), Summed(g, sz, others, 0, m2),
         SameMatrices(words, others, sz)
  PROVE  Agree(f, g, sz)
  <1>1. PICK P : P = {n \in 0 .. sz : \A r, s \in 0 .. sz - 1 : f[n][r][s] \in Int /\ g[n][r][s] = f[n][r][s]}
    OBVIOUS
  <1>2. 0 \in P
    BY <1>1 DEF Summed
  <1>3. ASSUME NEW l \in 0 .. sz - 1, l \in P PROVE l + 1 \in P
    <2>1. PICK n \in 1 .. sz : n = l + 1 /\ n - 1 = l
      OBVIOUS
    <2>2. ASSUME NEW r \in 0 .. sz - 1, NEW s \in 0 .. sz - 1
          PROVE  f[n][r][s] \in Int /\ g[n][r][s] = f[n][r][s]
      <3>1. PICK a \in 0 .. 2 * sz * sz - 1 : a = 0 + r * sz + n - 1
        BY Words
      <3>2. PICK b \in 0 .. 2 * sz * sz - 1 : b = m2 + (n - 1) * sz + s
        BY Words
      <3>3. f[n][r][s] = f[n - 1][r][s] + words[a] * words[b] /\ g[n][r][s] = g[n - 1][r][s] + others[a] * others[b]
        <4>1. f[n][r][s] = f[n - 1][r][s] + words[0 + r * sz + n - 1] * words[m2 + (n - 1) * sz + s]
          BY Zenon DEF Summed
        <4>2. g[n][r][s] = g[n - 1][r][s] + others[0 + r * sz + n - 1] * others[m2 + (n - 1) * sz + s]
          BY Zenon DEF Summed
        <4> QED
          BY <3>1, <3>2, <4>1, <4>2, Zenon
      <3>4. f[n - 1][r][s] \in Int /\ g[n - 1][r][s] = f[n - 1][r][s]
        BY <1>1, <1>3, <2>1
      <3>5. words[a] \in Int /\ words[b] \in Int /\ others[a] = words[a] /\ others[b] = words[b]
        BY DEF SameMatrices
      <3>6. PICK x \in Int, y \in Int, z \in Int : x = f[n - 1][r][s] /\ y = words[a] /\ z = words[b]
        BY <3>4, <3>5
      <3>7. f[n][r][s] = x + y * z /\ g[n][r][s] = x + y * z
        BY <3>3, <3>4, <3>5, <3>6, Zenon
      <3> QED
        BY <3>7
    <2> QED
      BY <1>1, <2>1, <2>2
  <1>4. 0 .. sz \subseteq P
    BY <1>2, <1>3, UpTo, Zenon
  <1> QED
    BY <1>1, <1>4 DEF Agree

\* Adding to a remainder.
LEMMA Modular ==
  ASSUME NEW w \in Nat \ {0}, NEW x \in Int, NEW p \in Int
  PROVE  ((x % w) + p) % w = (x + p) % w
  <1>1. \A y \in Int : y = w * (y \div w) + (y % w) /\ y % w \in 0 .. w - 1 /\ y \div w \in Int
    OBVIOUS
  <1>2. PICK q \in Int, r \in 0 .. w - 1 : x = w * q + r /\ r = x % w
    BY <1>1
  <1>3. PICK q1 \in Int, r1 \in 0 .. w - 1 : r + p = w * q1 + r1 /\ r1 = (r + p) % w
    <2>1. PICK y \in Int : y = r + p
      OBVIOUS
    <2> QED
      BY <1>1, <2>1
  <1>4. PICK q2 \in Int, r2 \in 0 .. w - 1 : x + p = w * q2 + r2 /\ r2 = (x + p) % w
    <2>1. PICK y \in Int : y = x + p
      OBVIOUS
    <2> QED
      BY <1>1, <2>1
  <1>5. PICK d \in Int : d = q2 - q - q1
    OBVIOUS
  <1>6. w * d = r1 - r2
    <2>1. PICK t \in Int, t1 \in Int, t2 \in Int : t = w * q /\ t1 = w * q1 /\ t2 = w * q2
      OBVIOUS
    <2>2. w * d = t2 - t - t1
      BY <1>5, <2>1
    <2>3. x = t + r /\ r + p = t1 + r1 /\ x + p = t2 + r2
      BY <1>2, <1>3, <1>4, <2>1
    <2> QED
      BY <2>2, <2>3
  <1>7. (d >= 1 => w * d >= w) /\ (d <= -1 => w * d <= -w)
    OBVIOUS
  <1>8. d = 0
    BY <1>6, <1>7
  <1>9. r1 = r2
    BY <1>6, <1>8
  <1> QED
    BY <1>2, <1>3, <1>4, <1>9

-----------------------------------------------------------------------------
\* Where the loops are; the arguments of mat_mult do not overlap its answer.
MatTyped ==
  /\ m_size \in Nat /\ m_mat1 = 0 /\ m_mat2 \in {0, m_size * m_size} /\ m_answer = 2 * m_size * m_size
  /\ m_mem \in [0 .. 3 * m_size * m_size - 1 -> Int]
  /\ m_i \in 0 .. m_size /\ m_j \in 0 .. m_size /\ m_k \in 0 .. m_size /\ m_c \in Int
  /\ m_i < m_size => m_j \in 0 .. m_size - 1

\* c holds the terms so far, and the answer the elements that are done.
Partial ==
  /\ m_i < m_size => m_c = MM!Sum[m_k][m_i][m_j] % WordMod
  /\ \A r, s \in 0 .. m_size - 1 :
       r < m_i \/ (r = m_i /\ s < m_j) => m_mem[m_answer + r * m_size + s] = MM!Sum[m_size][r][s] % WordMod

\* The inductive invariant.
MatInv == MatTyped /\ Partial

\* The words of a square are within memory.
LEMMA Squares ==
  ASSUME NEW sz \in Nat
  PROVE  \A a \in 0 .. 2 * sz * sz - 1 : a \in 0 .. 3 * sz * sz - 1
  <1>1. PICK q \in Nat : q = sz * sz
    OBVIOUS
  <1>2. 2 * sz * sz = 2 * q /\ 3 * sz * sz = 3 * q
    BY <1>1
  <1> QED
    BY <1>2

\* Sums stay when the first two matrices do.
LEMMA SumsStay ==
  ASSUME MatTyped, UNCHANGED <<m_size, m_mat1, m_mat2>>,
         \A a \in 0 .. 2 * m_size * m_size - 1 : m_mem'[a] = m_mem[a]
  PROVE  \A n \in 0 .. m_size : \A r, s \in 0 .. m_size - 1 :
           MM!Sum[n][r][s] \in Int /\ MM!Sum'[n][r][s] = MM!Sum[n][r][s]
  <1>1. PICK sz \in Nat : sz = m_size
    BY DEF MatTyped
  <1>2. PICK m2 \in {0, sz * sz} : m2 = m_mat2
    BY <1>1 DEF MatTyped
  <1>3. PICK words, others, f, g : words = m_mem /\ others = m_mem' /\ f = MM!Sum /\ g = MM!Sum'
    OBVIOUS
  <1>4. Summed(f, sz, words, 0, m2)
    <2>1. Summed(MM!Sum, m_size, m_mem, m_mat1, m_mat2)
      BY <1>1, SumUnfolds
    <2> QED
      BY <1>1, <1>2, <1>3, <2>1 DEF MatTyped
  <1>5. Summed(g, sz, others, 0, m2)
    <2>1. (m_size \in Nat)'
      BY <1>1
    <2>2. Summed(MM!Sum, m_size, m_mem, m_mat1, m_mat2)'
      BY <2>1, SumUnfolds, PTL
    <2>3. Summed(MM!Sum', m_size', m_mem', m_mat1', m_mat2')
      BY <2>2 DEF Summed
    <2>4. m_size' = sz /\ m_mat1' = 0 /\ m_mat2' = m2
      BY <1>1, <1>2 DEF MatTyped
    <2> QED
      BY <1>3, <2>3, <2>4
  <1>6. SameMatrices(words, others, sz)
    <2>1. words \in [0 .. 3 * sz * sz - 1 -> Int]
      BY <1>1, <1>3 DEF MatTyped
    <2>2. \A a \in 0 .. 2 * sz * sz - 1 : a \in 0 .. 3 * sz * sz - 1
      BY Squares
    <2>3. \A a \in 0 .. 2 * sz * sz - 1 : others[a] = words[a]
      BY <1>1, <1>3
    <2> QED
      BY <2>1, <2>2, <2>3 DEF SameMatrices
  <1>7. Agree(f, g, sz)
    BY <1>4, <1>5, <1>6, SameSums
  <1> QED
    BY <1>1, <1>3, <1>7 DEF Agree

\* An element of the answer has a word of its own, beyond the first matrices.
LEMMA Answers ==
  ASSUME NEW sz \in Nat, NEW r \in 0 .. sz - 1, NEW s \in 0 .. sz - 1
  PROVE  /\ 2 * sz * sz + r * sz + s \in 0 .. 3 * sz * sz - 1
         /\ 2 * sz * sz + r * sz + s \notin 0 .. 2 * sz * sz - 1
         /\ \A u, v \in 0 .. sz - 1 :
              2 * sz * sz + u * sz + v = 2 * sz * sz + r * sz + s => u = r /\ v = s
  <1>1. r * sz + s \in 0 .. sz * sz - 1
    OBVIOUS
  <1>2. PICK q \in Nat : q = sz * sz
    OBVIOUS
  <1>3. 2 * sz * sz = 2 * q /\ 3 * sz * sz = 3 * q
    BY <1>2
  <1>4. PICK t \in Nat : t = r * sz
    OBVIOUS
  <1>5. t + s \in 0 .. q - 1
    BY <1>1, <1>2, <1>4
  <1>6. 2 * q + t + s \in 0 .. 3 * q - 1 /\ 2 * q + t + s \notin 0 .. 2 * q - 1
    BY <1>5
  <1>7. ASSUME NEW u \in 0 .. sz - 1, NEW v \in 0 .. sz - 1,
               2 * sz * sz + u * sz + v = 2 * sz * sz + r * sz + s
        PROVE  u = r /\ v = s
    <2>1. PICK p \in Nat : p = u * sz
      OBVIOUS
    <2>2. p + v = t + s
      BY <1>3, <1>4, <1>7, <2>1
    <2>3. u * sz + v = r * sz + s
      BY <1>4, <2>1, <2>2
    <2> QED
      BY <2>3
  <1> QED
    BY <1>3, <1>4, <1>6, <1>7

\* mat_mult has two matrices of numbers, and nothing in c or done.
LEMMA MatInit == MatAssumed /\ MM!Init => MatInv
  <1> SUFFICES ASSUME MatAssumed, MM!Init PROVE MatInv
    OBVIOUS
  <1>1. /\ m_size \in Nat /\ m_mat1 = 0 /\ m_mat2 \in {0, m_size * m_size} /\ m_answer = 2 * m_size * m_size
        /\ m_i = 0 /\ m_j = 0 /\ m_k = 0 /\ m_c = 0
    BY DEF MM!Init, MatAssumed
  <1>2. PICK given \in [0 .. 2 * m_size * m_size - 1 -> MatValues] :
          m_mem = [a \in 0 .. 3 * m_size * m_size - 1 |-> IF a \in DOMAIN given THEN given[a] ELSE 0]
    BY DEF MM!Init
  <1>3. m_mem \in [0 .. 3 * m_size * m_size - 1 -> Int]
    <2>1. \A a \in 0 .. 2 * m_size * m_size - 1 : given[a] \in Int
      BY DEF MatAssumed
    <2> QED
      BY <1>2, <2>1
  <1>4. MatTyped
    BY <1>1, <1>3 DEF MatTyped
  <1>5. Summed(MM!Sum, m_size, m_mem, m_mat1, m_mat2)
    BY <1>1, SumUnfolds
  <1>6. m_i < m_size => m_c = MM!Sum[m_k][m_i][m_j] % WordMod
    <2>1. ASSUME m_i < m_size PROVE MM!Sum[0][0][0] = 0
      <3>1. 0 \in 0 .. m_size - 1
        BY <1>1, <2>1
      <3> QED
        BY <1>5, <3>1, Zenon DEF Summed
    <2>2. 0 % WordMod = 0
      BY DEF MatAssumed
    <2> QED
      BY <1>1, <2>1, <2>2
  <1>7. Partial
    BY <1>1, <1>6 DEF Partial
  <1> QED
    BY <1>4, <1>7 DEF MatInv

\* A turn of the inner loop adds the next term.
LEMMA MatMultiply ==
  ASSUME MatAssumed, MatTyped, Partial, MM!Multiply
  PROVE  MatInv'
  <1>1. /\ m_i < m_size /\ m_k < m_size /\ m_k' = m_k + 1
        /\ m_c' = (m_c + m_mem[m_mat1 + MM!Index(m_i, m_k)] * m_mem[m_mat2 + MM!Index(m_k, m_j)]) % WordMod
        /\ UNCHANGED <<m_size, m_mat1, m_mat2, m_answer, m_mem, m_i, m_j>>
    BY DEF MM!Multiply
  <1>2. PICK sz \in Nat : sz = m_size
    BY DEF MatTyped
  <1>3. PICK i \in 0 .. sz - 1, j \in 0 .. sz - 1, k \in 0 .. sz - 1 : i = m_i /\ j = m_j /\ k = m_k
    BY <1>1, <1>2 DEF MatTyped
  <1>4. PICK n \in 1 .. sz : n = k + 1
    BY <1>3
  <1>5. PICK m2 \in {0, sz * sz} : m2 = m_mat2
    BY <1>2 DEF MatTyped
  <1>6. PICK a \in 0 .. 2 * sz * sz - 1 : a = 0 + i * sz + n - 1
    BY Words
  <1>7. PICK b \in 0 .. 2 * sz * sz - 1 : b = m2 + (n - 1) * sz + j
    BY Words
  <1>8. PICK y \in Int, z \in Int : y = m_mem[a] /\ z = m_mem[b]
    <2>1. a \in 0 .. 3 * sz * sz - 1 /\ b \in 0 .. 3 * sz * sz - 1
      BY Squares
    <2> QED
      BY <1>2, <2>1 DEF MatTyped
  <1>9. m_mat1 + MM!Index(m_i, m_k) = a /\ m_mat2 + MM!Index(m_k, m_j) = b
    <2>1. m_mat1 = 0 /\ MM!Index(m_i, m_k) = i * sz + k /\ MM!Index(m_k, m_j) = k * sz + j
      BY <1>2, <1>3 DEF MatTyped, MM!Index
    <2>2. PICK p \in Nat, q \in Nat, t \in Nat : p = i * sz /\ q = k * sz /\ t = m2
      OBVIOUS
    <2>3. n - 1 = k
      BY <1>4
    <2>4. a = 0 + p + n - 1 /\ b = t + q + j
      BY <1>6, <1>7, <2>2, <2>3
    <2>5. 0 + (p + k) = 0 + p + n - 1 /\ t + (q + j) = t + q + j
      BY <1>4
    <2> QED
      BY <1>5, <2>1, <2>2, <2>4, <2>5
  <1>10. \A l \in 0 .. m_size : \A r, s \in 0 .. m_size - 1 :
           MM!Sum[l][r][s] \in Int /\ MM!Sum'[l][r][s] = MM!Sum[l][r][s]
    BY <1>1, SumsStay
  <1>11. MM!Sum[n][i][j] = MM!Sum[k][i][j] + y * z
    <2>1. Summed(MM!Sum, sz, m_mem, 0, m2)
      <3>1. Summed(MM!Sum, m_size, m_mem, m_mat1, m_mat2)
        BY <1>2, SumUnfolds
      <3> QED
        BY <1>2, <1>5, <3>1 DEF MatTyped
    <2>2. MM!Sum[n][i][j] = MM!Sum[n - 1][i][j] + m_mem[a] * m_mem[b]
      BY <1>6, <1>7, <2>1, Zenon DEF Summed
    <2>3. n - 1 = k
      BY <1>4
    <2> QED
      BY <1>8, <2>2, <2>3
  <1>12. PICK x \in Int : x = MM!Sum[k][i][j]
    BY <1>2, <1>10
  <1>13. m_c' = MM!Sum[n][i][j] % WordMod
    <2>1. m_c = x % WordMod
      BY <1>1, <1>3, <1>12 DEF Partial
    <2>2. m_c' = ((x % WordMod) + y * z) % WordMod
      BY <1>1, <1>8, <1>9, <2>1
    <2>3. PICK p \in Int : p = y * z
      OBVIOUS
    <2>4. ((x % WordMod) + p) % WordMod = (x + p) % WordMod
      BY Modular DEF MatAssumed
    <2> QED
      BY <1>11, <1>12, <2>2, <2>3, <2>4
  <1>14. MM!Sum'[n][i][j] = MM!Sum[n][i][j]
    BY <1>2, <1>10
  <1>15. m_c' = MM!Sum'[m_k'][m_i'][m_j'] % WordMod
    BY <1>1, <1>3, <1>4, <1>13, <1>14
  <1>16. ASSUME NEW r \in 0 .. m_size - 1, NEW s \in 0 .. m_size - 1, r < m_i \/ (r = m_i /\ s < m_j)
         PROVE  m_mem[m_answer + r * m_size + s] = MM!Sum'[m_size][r][s] % WordMod
    <2>1. m_size \in 0 .. m_size
      BY <1>2
    <2>2. MM!Sum'[m_size][r][s] = MM!Sum[m_size][r][s]
      BY <1>10, <2>1
    <2> QED
      BY <1>16, <2>2 DEF Partial
  <1>17. Partial'
    BY <1>1, <1>15, <1>16 DEF Partial
  <1>18. MatTyped'
    <2>1. m_c' \in Int
      <3>1. PICK p \in Int : p = MM!Sum[n][i][j]
        BY <1>2, <1>10
      <3> QED
        BY <1>13, <3>1 DEF MatAssumed
    <2>2. m_k' \in 0 .. m_size
      BY <1>1, <1>2, <1>3
    <2> QED
      BY <1>1, <2>1, <2>2 DEF MatTyped
  <1> QED
    BY <1>17, <1>18 DEF MatInv

\* The element that is put is done.
LEMMA MatPut ==
  ASSUME MatAssumed, MatTyped, Partial, MM!Put
  PROVE  MatInv'
  <1>1. /\ m_i < m_size /\ m_k = m_size /\ m_c' = 0 /\ m_k' = 0
        /\ m_mem' = [m_mem EXCEPT ![m_answer + MM!Index(m_i, m_j)] = m_c]
        /\ m_j' = (m_j + 1) % m_size /\ m_i' = (IF m_j + 1 = m_size THEN m_i + 1 ELSE m_i)
        /\ UNCHANGED <<m_size, m_mat1, m_mat2, m_answer>>
    BY DEF MM!Put
  <1>2. PICK sz \in Nat : sz = m_size
    BY DEF MatTyped
  <1>3. PICK i \in 0 .. sz - 1, j \in 0 .. sz - 1 : i = m_i /\ j = m_j
    BY <1>1, <1>2 DEF MatTyped
  <1>4. /\ j + 1 = sz => m_j' = 0 /\ m_i' = i + 1
        /\ j + 1 # sz => m_j' = j + 1 /\ m_i' = i
    BY <1>1, <1>2, <1>3
  <1>5. PICK a : a = 2 * sz * sz + i * sz + j
    OBVIOUS
  <1>6. /\ a \in 0 .. 3 * sz * sz - 1 /\ a \notin 0 .. 2 * sz * sz - 1
        /\ \A u, v \in 0 .. sz - 1 : 2 * sz * sz + u * sz + v = a => u = i /\ v = j
    BY <1>5, Answers
  <1>7. m_mem' = [m_mem EXCEPT ![a] = m_c]
    <2>1. MM!Index(m_i, m_j) = i * sz + j /\ m_answer = 2 * sz * sz
      BY <1>2, <1>3 DEF MatTyped, MM!Index
    <2>2. PICK p \in Nat, q \in Nat : p = i * sz /\ q = 2 * sz * sz
      OBVIOUS
    <2>3. q + (p + j) = q + p + j
      OBVIOUS
    <2>4. m_answer + MM!Index(m_i, m_j) = a
      BY <1>5, <2>1, <2>2, <2>3
    <2> QED
      BY <1>1, <2>4
  <1>8. m_mem \in [0 .. 3 * sz * sz - 1 -> Int] /\ m_c \in Int
    BY <1>2 DEF MatTyped
  <1>9. /\ m_mem' \in [0 .. 3 * sz * sz - 1 -> Int] /\ m_mem'[a] = m_c
        /\ \A b : b \in 0 .. 3 * sz * sz - 1 /\ b # a => m_mem'[b] = m_mem[b]
    BY <1>6, <1>7, <1>8
  <1>10. \A l \in 0 .. m_size : \A r, s \in 0 .. m_size - 1 :
           MM!Sum[l][r][s] \in Int /\ MM!Sum'[l][r][s] = MM!Sum[l][r][s]
    <2>1. \A b \in 0 .. 2 * sz * sz - 1 : b \in 0 .. 3 * sz * sz - 1
      BY Squares
    <2>2. \A b \in 0 .. 2 * sz * sz - 1 : m_mem'[b] = m_mem[b]
      BY <1>6, <1>9, <2>1
    <2>3. \A b \in 0 .. 2 * m_size * m_size - 1 : m_mem'[b] = m_mem[b]
      BY <1>2, <2>2
    <2> QED
      BY <1>1, <2>3, SumsStay
  <1>11. ASSUME NEW r \in 0 .. sz - 1, NEW s \in 0 .. sz - 1, r < m_i' \/ (r = m_i' /\ s < m_j')
         PROVE  m_mem'[2 * sz * sz + r * sz + s] = MM!Sum'[sz][r][s] % WordMod
    <2>1. sz \in 0 .. sz
      OBVIOUS
    <2>2. MM!Sum'[sz][r][s] = MM!Sum[sz][r][s]
      BY <1>2, <1>10, <2>1
    <2>3. CASE r = i /\ s = j
      <3>1. m_c = MM!Sum[sz][r][s] % WordMod
        BY <1>1, <1>2, <1>3, <2>3 DEF Partial
      <3> QED
        BY <1>5, <1>9, <2>2, <2>3, <3>1
    <2>4. CASE ~(r = i /\ s = j)
      <3>1. r < i \/ (r = i /\ s < j)
        BY <1>4, <1>11, <2>4
      <3>2. m_mem[2 * sz * sz + r * sz + s] = MM!Sum[sz][r][s] % WordMod
        <4>1. m_answer = 2 * sz * sz
          BY <1>2 DEF MatTyped
        <4> QED
          BY <1>2, <1>3, <3>1, <4>1 DEF Partial
      <3>3. PICK b : b = 2 * sz * sz + r * sz + s
        OBVIOUS
      <3>4. b # a /\ b \in 0 .. 3 * sz * sz - 1
        <4>1. b \in 0 .. 3 * sz * sz - 1
          BY <3>3, Answers
        <4> QED
          BY <1>6, <2>4, <3>3, <4>1
      <3> QED
        BY <1>9, <2>2, <3>2, <3>3, <3>4
    <2> QED
      BY <2>3, <2>4
  <1>12. m_i' < m_size => m_c' = MM!Sum'[m_k'][m_i'][m_j'] % WordMod
    <2>1. ASSUME m_i' < m_size PROVE MM!Sum'[0][m_i'][m_j'] = 0
      <3>1. m_i' \in 0 .. m_size' - 1 /\ m_j' \in 0 .. m_size' - 1
        BY <1>1, <1>2, <1>4, <2>1
      <3>2. (m_size \in Nat)'
        BY <1>1, <1>2
      <3>3. Summed(MM!Sum, m_size, m_mem, m_mat1, m_mat2)'
        BY <3>2, SumUnfolds, PTL
      <3>4. \A r, s \in 0 .. m_size' - 1 : MM!Sum'[0][r][s] = 0
        BY <3>3, Zenon DEF Summed
      <3> QED
        BY <3>1, <3>4
    <2>2. 0 % WordMod = 0
      BY DEF MatAssumed
    <2> QED
      BY <1>1, <2>1, <2>2
  <1>13. Partial'
    <2>1. m_answer' = 2 * sz * sz /\ m_size' = sz
      BY <1>1, <1>2 DEF MatTyped
    <2> QED
      BY <1>2, <1>11, <1>12, <2>1 DEF Partial
  <1>14. MatTyped'
    <2>1. m_i' \in 0 .. sz /\ m_j' \in 0 .. sz /\ (m_i' < sz => m_j' \in 0 .. sz - 1)
      BY <1>3, <1>4
    <2>2. m_k' \in 0 .. m_size' /\ m_c' \in Int
      BY <1>1, <1>2
    <2> QED
      BY <1>1, <1>2, <1>9, <2>1, <2>2 DEF MatTyped
  <1> QED
    BY <1>13, <1>14 DEF MatInv

\* When mat_mult returns, or nothing happens, all stays as it is.
LEMMA MatStays ==
  ASSUME MatAssumed, MatInv, UNCHANGED MM!vars
  PROVE  MatInv'
  <1>1. /\ UNCHANGED <<m_size, m_mat1, m_mat2, m_answer, m_mem, m_i, m_j, m_k, m_c>>
        /\ MatTyped /\ Partial
    BY DEF MM!vars, MatInv
  <1>2. MatTyped'
    BY <1>1 DEF MatTyped
  <1>3. \A l \in 0 .. m_size : \A r, s \in 0 .. m_size - 1 : MM!Sum'[l][r][s] = MM!Sum[l][r][s]
    BY <1>1, SumsStay
  <1>4. m_i < m_size => MM!Sum'[m_k][m_i][m_j] = MM!Sum[m_k][m_i][m_j]
    BY <1>1, <1>3 DEF MatTyped
  <1>5. \A r, s \in 0 .. m_size - 1 : MM!Sum'[m_size][r][s] = MM!Sum[m_size][r][s]
    BY <1>1, <1>3 DEF MatTyped
  <1>6. Partial'
    BY <1>1, <1>4, <1>5 DEF Partial
  <1> QED
    BY <1>2, <1>6 DEF MatInv

\* When all rows are done, so is the product.
LEMMA MatDone == MatInv => ComputesProduct
  <1> SUFFICES ASSUME MatInv, m_i = m_size, NEW r \in 0 .. m_size - 1, NEW s \in 0 .. m_size - 1
               PROVE  m_mem[m_answer + r * m_size + s] = MM!Sum[m_size][r][s] % WordMod
    BY Zenon DEF ComputesProduct, MM!ComputesProduct
  <1>1. m_size \in Nat
    BY DEF MatInv, MatTyped
  <1>2. r < m_i
    BY <1>1
  <1> QED
    BY <1>2 DEF MatInv, Partial

\* mat_mult stores the product of the matrices modulo the word size, for
\* matrices of any size and any numbers in them.
THEOREM ProductIsComputed ==
  ASSUME MatAssumed PROVE MM!Spec => []ComputesProduct
  <1>1. MM!Init => MatInv
    BY MatInit
  <1>2. MatInv /\ [MM!Next]_(MM!vars) => MatInv'
    BY MatMultiply, MatPut, MatStays DEF MatInv, MM!Next, MM!Returned
  <1>3. MatInv => ComputesProduct
    BY MatDone
  <1> QED
    BY <1>1, <1>2, <1>3, PTL DEF MM!Spec
=============================================================================
