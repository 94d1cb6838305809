--------------------------- MODULE RUFSNameProofs ---------------------------
(***************************************************************************)
(* What get_node_by_path finds on the disk of rufs.c: every step of the    *)
(* program is a step of the abstract file system Namespace or leaves every *)
(* path as it was, and between calls every listed name is found.           *)
(***************************************************************************)
EXTENDS RUFSTreeProofs, SequenceTheorems

\* The first place of directory n that has the name nm, and the inode number
\* found there.
FirstAt(E, n, nm, e) ==
  /\ Used(E, n, e) /\ At(E, n, e).name = nm
  /\ \A d \in Places : Before(d, e) => ~(Used(E, n, d) /\ At(E, n, d).name = nm)
Leads(E, n, nm, k) == \E e \in Places : FirstAt(E, n, nm, e) /\ At(E, n, e).ino = k

\* One component of a path: from the inode d of the table I to the inode k.
Hop(E, I, d, nm, k) == I[d].valid /\ I[d].dir /\ Leads(E, I[d], nm, k) /\ I[k].valid

-----------------------------------------------------------------------------
(***************************************************************************)
(* The lexicographic order of places                                       *)
(***************************************************************************)
\* The order of places is total.
LEMMA PlacesOrdered ==
  ASSUME NEW d \in Places, NEW e \in Places
  PROVE  /\ Before(d, e) \/ d = e \/ Before(e, d)
         /\ ~(Before(d, e) /\ Before(e, d)) /\ ~Before(d, d)
  BY PlaceIsPair, RUFSAssumption DEF Before, Ptrs, Slots

\* Places that have something in common have a first one among them.
LEMMA FirstPlace ==
  ASSUME NEW T \in SUBSET Places, T # {}
  PROVE  \E e \in T : \A d \in T : ~Before(d, e)
  <1> DEFINE Less == OpToRel(<, Nat)
             R == LexPairOrdering(Less, Less, Nat, Nat)
  <1>1. IsWellFoundedOn(Less, Nat) BY NatLessThanWellFounded
  <1>2. \A x, y \in Nat : <<x, y>> \in Less <=> x < y BY DEF OpToRel
  <1> HIDE DEF Less
  <1>3. IsWellFoundedOn(R, Nat \X Nat) BY <1>1, WFLexPairOrdering
  <1>4. Places \subseteq Nat \X Nat BY RUFSAssumption DEF Places, Ptrs, Slots
  <1>5. \A d, e \in Nat \X Nat : <<d, e>> \in R <=> Before(d, e)
    BY <1>2 DEF LexPairOrdering, Before
  <1> HIDE DEF R
  <1>6. \E e \in T : \A d \in T : ~(<<d, e>> \in R) BY <1>3, <1>4, WFMin
  <1>7. QED BY <1>4, <1>5, <1>6

\* A name that is there has one first place.
LEMMA FirstOfName ==
  ASSUME NEW E, NEW n, NEW nm,
         \E e \in Places : Used(E, n, e) /\ At(E, n, e).name = nm
  PROVE  /\ \E e \in Places : FirstAt(E, n, nm, e)
         /\ \A d, e \in Places : FirstAt(E, n, nm, d) /\ FirstAt(E, n, nm, e) => d = e
  <1> DEFINE T == {e \in Places : Used(E, n, e) /\ At(E, n, e).name = nm}
  <1>1. PICK e \in T : \A d \in T : ~Before(d, e) BY FirstPlace
  <1>2. FirstAt(E, n, nm, e) BY <1>1 DEF FirstAt
  <1>3. \A c, d \in Places : FirstAt(E, n, nm, c) /\ FirstAt(E, n, nm, d) => c = d
    BY PlacesOrdered DEF FirstAt
  <1>4. QED BY <1>2, <1>3

\* A name leads to one inode.
LEMMA LeadsToOne ==
  ASSUME NEW E, NEW n, NEW nm, NEW j, NEW k, Leads(E, n, nm, j), Leads(E, n, nm, k)
  PROVE  j = k
  BY FirstOfName DEF Leads, FirstAt

\* What a name leads to depends on the directory's own blocks only.
LEMMA SameLeads ==
  ASSUME NEW E, NEW G, NEW m, NEW n, n.ptr = m.ptr,
         \A i \in Ptrs : n.ptr[i] # 0 => E[n.ptr[i]] = G[n.ptr[i]]
  PROVE  \A nm, k : Leads(E, n, nm, k) <=> Leads(G, m, nm, k)
  <1>1. /\ \A e \in Places : n.ptr[e[1]] # 0 => At(E, n, e) = At(G, m, e)
        /\ \A e \in Places : Used(E, n, e) <=> Used(G, m, e)
    BY SameBlocks
  <1>2. \A nm, e : e \in Places => (FirstAt(E, n, nm, e) <=> FirstAt(G, m, nm, e))
    BY <1>1 DEF FirstAt, Used
  <1>3. QED BY <1>1, <1>2 DEF Leads, FirstAt, Used

\* The directory m with the entries G is n with the entries E and one more, x
\* at the place p, behind all others.
Appends(E, n, G, m, x, p) ==
  /\ p \in Places /\ At(G, m, p) = x /\ ~Used(E, n, p)
  /\ \A e \in Places : Used(E, n, e) => Before(e, p) /\ At(G, m, e) = At(E, n, e)
  /\ \A e \in Places : Used(G, m, e) <=> e = p \/ Used(E, n, e)

\* The new entry changes no lookup, but one that leads to its own inode.
LEMMA AppendLeads ==
  ASSUME NEW E, NEW G, NEW m, NEW n, NEW x, NEW p, Appends(E, n, G, m, x, p)
  PROVE  \A nm, k : k # x.ino => (Leads(E, n, nm, k) <=> Leads(G, m, nm, k))
  <1> SUFFICES ASSUME NEW nm, NEW k, k # x.ino PROVE Leads(E, n, nm, k) <=> Leads(G, m, nm, k)
    OBVIOUS
  <1> USE DEF Appends
  <1>1. ASSUME NEW e \in Places, FirstAt(E, n, nm, e), At(E, n, e).ino = k PROVE Leads(G, m, nm, k)
    <2>1. Before(e, p) /\ At(G, m, e) = At(E, n, e) /\ Used(G, m, e) BY <1>1 DEF FirstAt
    <2>2. \A d \in Places : Before(d, e) => d # p BY <2>1, PlacesOrdered
    <2>3. FirstAt(G, m, nm, e) BY <1>1, <2>1, <2>2 DEF FirstAt
    <2>4. QED BY <1>1, <2>1, <2>3 DEF Leads
  <1>2. ASSUME NEW e \in Places, FirstAt(G, m, nm, e), At(G, m, e).ino = k PROVE Leads(E, n, nm, k)
    <2>1. e # p BY <1>2
    <2>2. Used(E, n, e) /\ At(G, m, e) = At(E, n, e) BY <1>2, <2>1 DEF FirstAt
    <2>3. FirstAt(E, n, nm, e) BY <1>2, <2>2 DEF FirstAt
    <2>4. QED BY <1>2, <2>2, <2>3 DEF Leads
  <1>3. QED BY <1>1, <1>2 DEF Leads

-----------------------------------------------------------------------------
(***************************************************************************)
(* get_node_by_path                                                        *)
(***************************************************************************)
\* dir_find returns the inode number at the first place that has the name.
LEMMA DirFindLeads ==
  ASSUME NEW n, NEW nm \in Names, HasEntry(n, nm)
  PROVE  Leads(ents, n, nm, dir_find(n, nm))
  <1> DEFINE First(e) == IsEntry(n, nm, e) /\ \A d \in Places : Before(d, e) => ~IsEntry(n, nm, d)
             f == CHOOSE e \in Places : First(e)
  <1>0. nm # NULL BY RUFSAssumption
  <1>1. \A e \in Places : IsEntry(n, nm, e) <=> Used(ents, n, e) /\ At(ents, n, e).name = nm
    BY <1>0 DEF IsEntry, Used, At
  <1>2. \A e \in Places : First(e) <=> FirstAt(ents, n, nm, e) BY <1>1 DEF FirstAt
  <1>3. \E e \in Places : First(e)
    BY <1>1, <1>2, FirstOfName DEF HasEntry
  <1> HIDE DEF First
  <1>4. f \in Places /\ First(f) BY <1>3
  <1>5. dir_find(n, nm) = At(ents, n, f).ino BY DEF dir_find, At, First
  <1>6. QED BY <1>2, <1>4, <1>5 DEF Leads

\* Lookup is what a name leads to.
LEMMA LookupLeads ==
  ASSUME NEW D, NEW nm \in Names
  PROVE  \A k : k \in Lookup(D, nm) <=> \E d \in D : inode[d].dir /\ Leads(ents, inode[d], nm, k)
  <1>0. nm # NULL BY RUFSAssumption
  <1>1. \A d, k : Leads(ents, inode[d], nm, k) => HasEntry(inode[d], nm)
    BY <1>0 DEF Leads, FirstAt, HasEntry, IsEntry, Used, At
  <1>2. \A d : HasEntry(inode[d], nm) => Leads(ents, inode[d], nm, dir_find(inode[d], nm))
    BY DirFindLeads
  <1>3. \A d, k : Leads(ents, inode[d], nm, k) => k = dir_find(inode[d], nm)
    BY <1>1, <1>2, LeadsToOne
  <1>4. QED BY <1>1, <1>2, <1>3 DEF Lookup

\* The paths: none, one or two names.
LEMMA PathShape ==
  /\ <<>> \in Paths
  /\ \A a \in Names : <<a>> \in Paths /\ <<a>> # <<>> /\ SubSeq(<<a>>, 1, Len(<<a>>) - 1) = <<>>
                        /\ <<a>>[Len(<<a>>)] = a /\ Append(<<>>, a) = <<a>>
  /\ \A a, b \in Names : /\ <<a, b>> \in Paths /\ <<a, b>> # <<>>
                         /\ SubSeq(<<a, b>>, 1, Len(<<a, b>>) - 1) = <<a>>
                         /\ <<a, b>>[Len(<<a, b>>)] = b /\ Append(<<a>>, b) = <<a, b>>
  /\ \A p \in Paths : \/ p = <<>> \/ \E a \in Names : p = <<a>>
                      \/ \E a, b \in Names : p = <<a, b>>
  <1>1. <<>> \in Paths BY DEF Paths
  <1>2. \A a \in Names : <<a>> \in Paths /\ <<a>> # <<>> BY DEF Paths
  <1>3. \A a \in Names : /\ SubSeq(<<a>>, 1, Len(<<a>>) - 1) = <<>>
                         /\ <<a>>[Len(<<a>>)] = a /\ Append(<<>>, a) = <<a>>
    OBVIOUS
  <1>4. \A a, b \in Names : <<a, b>> \in Paths /\ <<a, b>> # <<>> BY DEF Paths
  <1>5. \A a, b \in Names : /\ SubSeq(<<a, b>>, 1, Len(<<a, b>>) - 1) = <<a>>
                            /\ <<a, b>>[Len(<<a, b>>)] = b /\ Append(<<a>>, b) = <<a, b>>
    <2> TAKE a, b \in Names
    <2>1. Len(<<a, b>>) = 2 /\ <<a, b>>[Len(<<a, b>>)] = b OBVIOUS
    <2>2. SubSeq(<<a, b>>, 1, 1) = <<a>>
      <3>1. /\ <<a, b>> \in Seq(Names) /\ SubSeq(<<a, b>>, 1, 1) \in Seq(Names)
            /\ Len(SubSeq(<<a, b>>, 1, 1)) = 1 /\ SubSeq(<<a, b>>, 1, 1)[1] = a
        OBVIOUS
      <3>2. <<a>> \in Seq(Names) /\ Len(<<a>>) = 1 /\ <<a>>[1] = a OBVIOUS
      <3>3. \A k \in 1 .. 1 : k = 1 OBVIOUS
      <3>4. QED BY <3>1, <3>2, <3>3, SeqEqual
    <2>3. Append(<<a>>, b) = <<a, b>>
      <3>1. /\ Append(<<a>>, b) \in Seq(Names) /\ Len(Append(<<a>>, b)) = 2
            /\ Append(<<a>>, b)[1] = a /\ Append(<<a>>, b)[2] = b
        OBVIOUS
      <3>2. <<a, b>> \in Seq(Names) /\ Len(<<a, b>>) = 2 /\ <<a, b>>[1] = a /\ <<a, b>>[2] = b
        OBVIOUS
      <3>3. \A k \in 1 .. 2 : k = 1 \/ k = 2 OBVIOUS
      <3>4. QED BY <3>1, <3>2, <3>3, SeqEqual
    <2>4. QED BY <2>1, <2>2, <2>3
  <1>6. \A p \in Paths : \/ p = <<>> \/ \E a \in Names : p = <<a>>
                         \/ \E a, b \in Names : p = <<a, b>>
    BY DEF Paths
  <1>7. QED BY <1>1, <1>2, <1>3, <1>4, <1>5, <1>6

\* The recursion of get_node_by_path, unfolded: some function satisfies its
\* equation, so it does.
LEMMA Unfold ==
  get_node_by_path = [p \in Paths |->
    LET found == IF p = <<>> THEN {n \in {Root} : super}
                             ELSE Lookup(get_node_by_path[SubSeq(p, 1, Len(p) - 1)], p[Len(p)])
    IN {n \in found : Usable(n)}]
  <1> DEFINE Body(f, p) ==
               LET found == IF p = <<>> THEN {n \in {Root} : super}
                                        ELSE Lookup(f[SubSeq(p, 1, Len(p) - 1)], p[Len(p)])
               IN {n \in found : Usable(n)}
             N0 == {n \in {Root} : super /\ Usable(n)}
             N1(a) == {n \in Lookup(N0, a) : Usable(n)}
             N2(a, b) == {n \in Lookup(N1(a), b) : Usable(n)}
             f == [p \in Paths |-> IF p = <<>> THEN N0
                                   ELSE IF Len(p) = 1 THEN N1(p[1]) ELSE N2(p[1], p[2])]
  <1>1. \A p \in Paths : f[p] = Body(f, p)
    <2>1. f[<<>>] = N0 BY PathShape
    <2>2. \A a \in Names : f[<<a>>] = N1(a)
      <3> HIDE DEF N0, N1, N2
      <3> QED BY PathShape
    <2>3. \A a, b \in Names : f[<<a, b>>] = N2(a, b)
      <3> HIDE DEF N0, N1, N2
      <3>1. \A a, b \in Names : Len(<<a, b>>) = 2 /\ <<a, b>>[1] = a /\ <<a, b>>[2] = b OBVIOUS
      <3> TAKE a, b \in Names
      <3>2. <<a, b>> \in Paths /\ <<a, b>> # <<>> BY PathShape
      <3>3. Len(<<a, b>>) # 1 BY <3>1
      <3>4. f[<<a, b>>] = N2(<<a, b>>[1], <<a, b>>[2]) BY <3>2, <3>3
      <3>5. QED BY <3>1, <3>4
    <2> HIDE DEF f
    <2>4. Body(f, <<>>) = N0 OBVIOUS
    <2>5. \A a \in Names : Body(f, <<a>>) = N1(a)
      <3> TAKE a \in Names
      <3>1. Body(f, <<a>>) = {n \in Lookup(f[<<>>], a) : Usable(n)} BY PathShape
      <3> QED BY <2>1, <3>1
    <2>6. \A a, b \in Names : Body(f, <<a, b>>) = N2(a, b)
      <3> TAKE a, b \in Names
      <3>1. Body(f, <<a, b>>) = {n \in Lookup(f[<<a>>], b) : Usable(n)} BY PathShape
      <3> QED BY <2>2, <3>1
    <2> HIDE DEF Body, N0, N1, N2
    <2>7. QED BY <2>1, <2>2, <2>3, <2>4, <2>5, <2>6, PathShape
  <1>2. f = [p \in Paths |-> Body(f, p)]
    <2> HIDE DEF Body
    <2> QED BY <1>1
  <1>3. \E g : g = [p \in Paths |-> Body(g, p)]
    <2> HIDE DEF f, Body
    <2> QED BY <1>2
  <1>4. get_node_by_path = CHOOSE g : g = [p \in Paths |-> Body(g, p)]
    BY DEF get_node_by_path
  <1>5. QED
    <2> HIDE DEF Body
    <2>1. get_node_by_path = [p \in Paths |-> Body(get_node_by_path, p)] BY <1>3, <1>4
    <2> USE DEF Body
    <2> QED BY <2>1

\* What get_node_by_path finds, hop by hop.
WalkOK ==
  /\ \A k : k \in get_node_by_path[<<>>] <=> super /\ k = Root /\ inode[Root].valid
  /\ \A a \in Names : \A k :
       k \in get_node_by_path[<<a>>] <=> super /\ k \in Inodes /\ Hop(ents, inode, Root, a, k)
  /\ \A a, b \in Names : \A k :
       k \in get_node_by_path[<<a, b>>] <=>
         /\ super /\ k \in Inodes
         /\ \E d \in Inodes : Hop(ents, inode, Root, a, d) /\ Hop(ents, inode, d, b, k)

\* An entry names an inode.
LEMMA LeadsToInode ==
  ASSUME TypeOK, NEW d \in Inodes, NEW nm, NEW k, Leads(ents, inode[d], nm, k)
  PROVE  k \in Inodes
  <1>1. PICK e \in Places : Used(ents, inode[d], e) /\ At(ents, inode[d], e).ino = k
    BY DEF Leads, FirstAt
  <1>2. inode[d].ptr[e[1]] \in Blocks /\ e[2] \in Slots BY <1>1, PlaceIsPair DEF Used, TypeOK, Inode
  <1>3. QED BY <1>1, <1>2 DEF At, TypeOK, Entry

\* The walk takes the hops of the path.
LEMMA Walk == TypeOK => WalkOK
  <1> SUFFICES ASSUME TypeOK PROVE WalkOK
    OBVIOUS
  <1> DEFINE G == get_node_by_path
  <1>0. Root \in Inodes BY Empties
  <1>1. \A k : k \in G[<<>>] <=> super /\ k = Root /\ inode[Root].valid
    <2>1. G[<<>>] = {n \in {m \in {Root} : super} : Usable(n)} BY Unfold, PathShape
    <2>2. QED BY <2>1 DEF Usable
  <1>2. \A a \in Names : G[<<a>>] = {n \in Lookup(G[<<>>], a) : Usable(n)}
    <2> TAKE a \in Names
    <2>1. /\ <<a>> \in Paths /\ <<a>> # <<>> /\ <<a>>[Len(<<a>>)] = a
          /\ SubSeq(<<a>>, 1, Len(<<a>>) - 1) = <<>>
      BY PathShape
    <2>2. G[<<a>>] = {n \in Lookup(G[SubSeq(<<a>>, 1, Len(<<a>>) - 1)], <<a>>[Len(<<a>>)]) : Usable(n)}
      BY <2>1, Unfold
    <2>3. QED BY <2>1, <2>2
  <1>3. \A a, b \in Names : G[<<a, b>>] = {n \in Lookup(G[<<a>>], b) : Usable(n)}
    <2> TAKE a, b \in Names
    <2>1. /\ <<a, b>> \in Paths /\ <<a, b>> # <<>> /\ <<a, b>>[Len(<<a, b>>)] = b
          /\ SubSeq(<<a, b>>, 1, Len(<<a, b>>) - 1) = <<a>>
      BY PathShape
    <2>2. G[<<a, b>>] = {n \in Lookup(G[SubSeq(<<a, b>>, 1, Len(<<a, b>>) - 1)],
                                      <<a, b>>[Len(<<a, b>>)]) : Usable(n)}
      BY <2>1, Unfold
    <2>3. QED BY <2>1, <2>2
  <1> HIDE DEF G
  <1>4. \A a \in Names : \A k : k \in G[<<a>>] <=> super /\ k \in Inodes /\ Hop(ents, inode, Root, a, k)
    <2> TAKE a \in Names
    <2> TAKE k
    <2>1. k \in G[<<a>>] <=>
            inode[k].valid /\ \E d \in G[<<>>] : inode[d].dir /\ Leads(ents, inode[d], a, k)
      BY <1>2, LookupLeads DEF Usable
    <2>2. Leads(ents, inode[Root], a, k) => k \in Inodes BY <1>0, LeadsToInode
    <2>3. QED BY <1>1, <2>1, <2>2 DEF Hop
  <1>5. \A a, b \in Names : \A k :
          k \in G[<<a, b>>] <=>
            /\ super /\ k \in Inodes
            /\ \E d \in Inodes : Hop(ents, inode, Root, a, d) /\ Hop(ents, inode, d, b, k)
    <2> TAKE a, b \in Names
    <2> TAKE k
    <2>1. k \in G[<<a, b>>] <=>
            inode[k].valid /\ \E d \in G[<<a>>] : inode[d].dir /\ Leads(ents, inode[d], b, k)
      BY <1>3, LookupLeads DEF Usable
    <2>2. \A d : d \in G[<<a>>] <=> super /\ d \in Inodes /\ Hop(ents, inode, Root, a, d) BY <1>4
    <2>3. \A d \in Inodes : Leads(ents, inode[d], b, k) => k \in Inodes BY LeadsToInode
    <2>4. QED BY <2>1, <2>2, <2>3 DEF Hop
  <1>6. QED BY <1>1, <1>4, <1>5 DEF WalkOK, G

\* A path leads to one inode at most, and that is what Kind tells of it.
KindView ==
  /\ \A p \in Paths : \A k : k \in get_node_by_path[p] =>
       k \in Inodes /\ inode[k].valid /\ Kind[p] = IF inode[k].dir THEN "dir" ELSE "file"
  /\ \A p \in Paths : (\A k : k \notin get_node_by_path[p]) => Kind[p] = "none"

\* Kind follows the walk.
LEMMA KindWalk == TypeOK => KindView
  <1> SUFFICES ASSUME TypeOK PROVE KindView
    OBVIOUS
  <1> DEFINE G == get_node_by_path
  <1>0. WalkOK /\ Root \in Inodes BY Walk, Empties
  <1>1. \A p \in Paths : \A j, k : j \in G[p] /\ k \in G[p] => j = k
    <2>1. \A a \in Names : \A j, k : j \in G[<<a>>] /\ k \in G[<<a>>] => j = k
      BY <1>0, LeadsToOne DEF WalkOK, Hop
    <2>2. \A a, b \in Names : \A j, k : j \in G[<<a, b>>] /\ k \in G[<<a, b>>] => j = k
      BY <1>0, LeadsToOne DEF WalkOK, Hop
    <2>3. \A j, k : j \in G[<<>>] /\ k \in G[<<>>] => j = k BY <1>0 DEF WalkOK
    <2> HIDE DEF G
    <2>4. QED BY <2>1, <2>2, <2>3, PathShape
  <1>2. \A p \in Paths : \A k : k \in G[p] => k \in Inodes /\ inode[k].valid
    <2>1. \A k : k \in G[<<>>] => k \in Inodes /\ inode[k].valid BY <1>0 DEF WalkOK
    <2>2. \A a \in Names : \A k : k \in G[<<a>>] => k \in Inodes /\ inode[k].valid
      BY <1>0 DEF WalkOK, Hop
    <2>3. \A a, b \in Names : \A k : k \in G[<<a, b>>] => k \in Inodes /\ inode[k].valid
      BY <1>0 DEF WalkOK, Hop
    <2> HIDE DEF G
    <2>4. QED BY <2>1, <2>2, <2>3, PathShape
  <1>3. \A p \in Paths : Kind[p] = IF G[p] = {} THEN "none"
                                   ELSE IF \E n \in G[p] : inode[n].dir THEN "dir" ELSE "file"
    BY DEF Kind
  <1> HIDE DEF G
  <1>4. \A p \in Paths : \A k : k \in G[p] =>
          k \in Inodes /\ inode[k].valid /\ Kind[p] = IF inode[k].dir THEN "dir" ELSE "file"
    <2> TAKE p \in Paths
    <2> TAKE k
    <2> HAVE k \in G[p]
    <2>1. G[p] # {} /\ ((\E n \in G[p] : inode[n].dir) <=> inode[k].dir) BY <1>1
    <2>2. Kind[p] = IF \E n \in G[p] : inode[n].dir THEN "dir" ELSE "file" BY <1>3, <2>1
    <2>3. QED BY <1>2, <2>1, <2>2
  <1>5. \A p \in Paths : (\A k : k \notin G[p]) => Kind[p] = "none" BY <1>3
  <1>6. QED BY <1>4, <1>5 DEF KindView, G

\* A path that leads where it led is what it was.
LEMMA SamePath ==
  ASSUME TypeOK, TypeOK', NEW p \in Paths,
         \A k : k \in get_node_by_path'[p] <=> k \in get_node_by_path[p],
         \A k \in Inodes : inode[k].valid => (inode'[k].dir <=> inode[k].dir)
  PROVE  Kind'[p] = Kind[p]
  <1>1. KindView BY KindWalk
  <1>2. (TypeOK => KindView)' BY KindWalk, PTL
  <1>3. KindView' BY <1>2
  <1>4. CASE \E k : k \in get_node_by_path[p]
    <2>1. PICK k : k \in get_node_by_path[p] BY <1>4
    <2>2. k \in Inodes /\ inode[k].valid /\ Kind[p] = IF inode[k].dir THEN "dir" ELSE "file"
      BY <1>1, <2>1 DEF KindView
    <2>3. Kind'[p] = IF inode'[k].dir THEN "dir" ELSE "file" BY <1>3, <2>1 DEF KindView
    <2>4. QED BY <2>2, <2>3
  <1>5. CASE \A k : k \notin get_node_by_path[p] BY <1>1, <1>3, <1>5 DEF KindView
  <1>6. QED BY <1>4, <1>5

\* A step that changes no hop changes no path.
LEMMA SameView ==
  ASSUME TypeOK, TypeOK', super' = super, inode'[Root].valid <=> inode[Root].valid,
         \A d, k \in Inodes, nm \in Names :
           Hop(ents', inode', d, nm, k) <=> Hop(ents, inode, d, nm, k),
         \A k \in Inodes : inode[k].valid => (inode'[k].dir <=> inode[k].dir)
  PROVE  Kind' = Kind
  <1> DEFINE G == get_node_by_path
  <1>0. WalkOK /\ KindView BY Walk, KindWalk
  <1>1. WalkOK' /\ KindView'
    <2>1. (TypeOK => WalkOK)' /\ (TypeOK => KindView)' BY Walk, KindWalk, PTL
    <2>2. QED BY <2>1
  <1>2. Root \in Inodes BY Empties
  <1>3. \A k : k \in G'[<<>>] <=> k \in G[<<>>] BY <1>0, <1>1 DEF WalkOK
  <1>4. \A a \in Names : \A k : k \in G'[<<a>>] <=> k \in G[<<a>>]
    BY <1>0, <1>1, <1>2 DEF WalkOK
  <1>5. \A a, b \in Names : \A k : k \in G'[<<a, b>>] <=> k \in G[<<a, b>>]
    <2> TAKE a, b \in Names
    <2> TAKE k
    <2>1. k \in G[<<a, b>>] <=>
            /\ super /\ k \in Inodes
            /\ \E d \in Inodes : Hop(ents, inode, Root, a, d) /\ Hop(ents, inode, d, b, k)
      BY <1>0 DEF WalkOK
    <2>2. k \in G'[<<a, b>>] <=>
            /\ super' /\ k \in Inodes
            /\ \E d \in Inodes : Hop(ents', inode', Root, a, d) /\ Hop(ents', inode', d, b, k)
      BY <1>1 DEF WalkOK
    <2>3. QED BY <1>2, <2>1, <2>2
  <1> HIDE DEF G
  <1>6. \A p \in Paths : \A k : k \in G'[p] <=> k \in G[p] BY <1>3, <1>4, <1>5, PathShape
  <1>7. \A p \in Paths : Kind'[p] = Kind[p] BY <1>6, SamePath DEF G
  <1>8. QED
    <2>1. /\ Kind = [p \in Paths |-> Kind[p]] /\ Kind' = [p \in Paths |-> Kind'[p]] BY DEF Kind
    <2>2. QED BY <1>7, <2>1

-----------------------------------------------------------------------------
(***************************************************************************)
(* Steps that change no path                                               *)
(***************************************************************************)
NoKind == [p \in Paths |-> "none"]

\* Without a superblock, or without an inode, no path leads anywhere.
LEMMA EmptyView == TypeOK /\ (~super \/ \A n \in Inodes : ~inode[n].valid) => Kind = NoKind
  <1> SUFFICES ASSUME TypeOK, ~super \/ \A n \in Inodes : ~inode[n].valid PROVE Kind = NoKind
    OBVIOUS
  <1> DEFINE G == get_node_by_path
  <1>0. WalkOK /\ KindView BY Walk, KindWalk
  <1>1. Root \in Inodes BY Empties
  <1>2. /\ \A k : k \notin G[<<>>]
        /\ \A a \in Names : \A k : k \notin G[<<a>>]
        /\ \A a, b \in Names : \A k : k \notin G[<<a, b>>]
    BY <1>0, <1>1 DEF WalkOK, Hop
  <1> HIDE DEF G
  <1>3. \A p \in Paths : \A k : k \notin G[p] BY <1>2, PathShape
  <1>4. \A p \in Paths : Kind[p] = "none" BY <1>0, <1>3 DEF KindView, G
  <1>5. Kind = [p \in Paths |-> Kind[p]] BY DEF Kind
  <1>6. QED BY <1>4, <1>5 DEF NoKind

\* Inodes and entries as they were.
LEMMA StillView ==
  ASSUME TypeOK, TypeOK', UNCHANGED <<super, inode, ents>> PROVE Kind' = Kind
  BY SameView

\* dir_add: the entry is the last of its directory and leads to an inode that
\* is not valid yet.
LEMMA DirAddView ==
  ASSUME DiskInv, Tree, TypeOK', DirAdd PROVE Kind' = Kind
  <1>0. TypeOK BY DEF DiskInv
  <1>1. CASE UNCHANGED ents BY <1>0, <1>1, StillView DEF DirAdd
  <1>2. CASE ents' # ents
    <2>0. /\ UNCHANGED <<super, inode>> /\ pc = "dir_add" /\ pc' = "dir_inode"
          /\ cp = inode[at] /\ at \in Inodes
          /\ ~inode[new].valid
      BY <1>2 DEF DirAdd, Tree, CopyOK, DiskInv, TypeOK, NewOK
    <2>1. PICK p \in Places : PutsEntry(ents, ents', cp, NewEntry, p) BY <2>0, DirAddPuts
    <2>2. Appends(ents, cp, ents', cp, NewEntry, p)
      <3>1. /\ At(ents', cp, p) = NewEntry
            /\ \A e \in Places : e # p /\ cp.ptr[e[1]] # 0 => At(ents', cp, e) = At(ents, cp, e)
            /\ \A e \in Places : Used(ents', cp, e) <=> e = p \/ Used(ents, cp, e)
        BY <2>1, PutEntry
      <3>2. ~Used(ents, cp, p) /\ Packed(ents, cp) BY <2>1 DEF PutsEntry
      <3>3. \A e \in Places : Used(ents, cp, e) => Before(e, p)
        BY <3>2, PlacesOrdered DEF Packed
      <3>4. QED BY <3>1, <3>2, <3>3 DEF Appends, Used
    <2>3. \A nm, k : k # NewEntry.ino => (Leads(ents, cp, nm, k) <=> Leads(ents', cp, nm, k))
      BY <2>2, AppendLeads
    <2>4. NewEntry.ino = new BY DEF NewEntry
    <2>5. ASSUME NEW d \in Inodes, inode[d].valid, d # at
          PROVE  \A nm, k : Leads(ents, inode[d], nm, k) <=> Leads(ents', inode[d], nm, k)
      <3>1. \A k \in Ptrs : inode[d].ptr[k] # 0 => ents[inode[d].ptr[k]] = ents'[inode[d].ptr[k]]
        BY <2>0, <2>5, DirAddPuts
      <3>2. QED BY <3>1, SameLeads
    <2>6. \A d, k \in Inodes, nm \in Names :
            Hop(ents', inode', d, nm, k) <=> Hop(ents, inode, d, nm, k)
      BY <2>0, <2>3, <2>4, <2>5 DEF Hop
    <2>7. QED BY <1>0, <2>0, <2>6, SameView
  <1>3. QED BY <1>1, <1>2

\* The new block is no inode's yet.
LEMMA DirBlockView ==
  ASSUME DiskInv, Tree, TypeOK', DirBlock PROVE Kind' = Kind
  <1>0. TypeOK BY DEF DiskInv
  <1>1. CASE UNCHANGED ents BY <1>0, <1>1, StillView DEF DirBlock
  <1>2. CASE ents' # ents
    <2>0. /\ UNCHANGED <<super, inode>> /\ pc = "dir_block"
          /\ ents' = [ents EXCEPT ![blk] = [ZeroBlock EXCEPT ![0] = NewEntry]]
      BY <1>2 DEF DirBlock, bio_write
    <2>1. \A m \in Inodes, k \in Ptrs : inode[m].valid => inode[m].ptr[k] # blk
      BY <2>0 DEF Tree, CopyOK, FreshCopy
    <2>2. ASSUME NEW d \in Inodes, inode[d].valid
          PROVE  \A nm, k : Leads(ents, inode[d], nm, k) <=> Leads(ents', inode[d], nm, k)
      <3>1. \A k \in Ptrs : inode[d].ptr[k] # 0 => ents[inode[d].ptr[k]] = ents'[inode[d].ptr[k]]
        BY <2>0, <2>1, <2>2 DEF DiskInv, TypeOK, Inode
      <3>2. QED BY <3>1, SameLeads
    <2>3. \A d, k \in Inodes, nm \in Names :
            Hop(ents', inode', d, nm, k) <=> Hop(ents, inode, d, nm, k)
      BY <2>0, <2>2 DEF Hop
    <2>4. QED BY <1>0, <2>0, <2>3, SameView
  <1>3. QED BY <1>1, <1>2

\* The directory's inode is written back: with the pointers it had, or with
\* the block that holds the new entry alone.
LEMMA DirInodeView ==
  ASSUME DiskInv, Tree, TypeOK', DirInode PROVE Kind' = Kind
  <1>0. /\ TypeOK /\ UNCHANGED <<super, ents>> /\ pc = "dir_inode" /\ at \in Inodes
        /\ inode[at].valid /\ inode[at].dir /\ cp.valid /\ cp.dir /\ cp \in Inode
        /\ ~inode[new].valid /\ inode \in [Inodes -> Inode] /\ name \in Names
    BY DEF DirInode, Tree, CallOK, AddPoints, DiskInv, Working, NewOK, TypeOK
  <1>1. CASE UNCHANGED inode BY <1>0, <1>1, StillView
  <1>2. CASE inode' # inode
    <2>1. /\ \A n \in Inodes : n # at => inode'[n] = inode[n]
          /\ inode'[at].valid /\ inode'[at].dir /\ inode'[at].ptr = cp.ptr
      BY <1>0, <1>2 DEF DirInode, writei, Grown, Inode
    <2>2. \A nm, k : k # new => (Leads(ents, inode[at], nm, k) <=> Leads(ents, cp, nm, k))
      <3>1. CASE cp = inode[at] BY <3>1
      <3>2. CASE cp # inode[at]
        <4>1. PICK i \in Ptrs : FreshCopy(i) BY <1>0, <3>2 DEF Tree, CopyOK
        <4>2. ents[blk] = [ZeroBlock EXCEPT ![0] = NewEntry] BY <1>0, <3>2 DEF Tree, CopyOK
        <4> DEFINE n == inode[at]
                   p == <<i, 0>>
        <4>3. /\ n \in Inode /\ n.ptr[i] = 0 /\ blk \in Blocks /\ blk # 0
              /\ \A k \in Ptrs : cp.ptr[k] = IF k = i THEN blk ELSE n.ptr[k]
              /\ p \in Places /\ p[1] = i /\ p[2] = 0
          BY <1>0, <4>1, Empties DEF FreshCopy, IsFirstPtr, Inode, Blocks, Places
        <4>4. /\ NewEntry.name # NULL /\ NewEntry.ino = new
              /\ \A s \in Slots : ents[blk][s] = IF s = 0 THEN NewEntry ELSE ZeroBlock[s]
              /\ \A s \in Slots : ZeroBlock[s].name = NULL
          BY <1>0, <4>2, RUFSAssumption DEF NewEntry, ZeroBlock, NoEntry
        <4> HIDE DEF n, p
        <4>5. At(ents, cp, p) = NewEntry /\ Used(ents, cp, p) /\ ~Used(ents, n, p)
          BY <4>3, <4>4, Empties DEF At, Used
        <4>6. \A e \in Places : n.ptr[e[1]] # 0 => At(ents, cp, e) = At(ents, n, e) /\ cp.ptr[e[1]] # 0
          BY <4>3, PlaceIsPair DEF At
        <4>7. \A e \in Places : Used(ents, n, e) => Before(e, p)
          <5>1. Packed(ents, n) BY <1>0 DEF n, Tree, PackedOK
          <5>2. QED BY <4>3, <5>1, PlaceIsPair, RUFSAssumption DEF Packed, Used, Before, Ptrs
        <4>8. \A e \in Places : Used(ents, cp, e) <=> e = p \/ Used(ents, n, e)
          <5> TAKE e \in Places
          <5>1. CASE e[1] = i
            <6>1. At(ents, cp, e) = IF e[2] = 0 THEN NewEntry ELSE ZeroBlock[e[2]]
              BY <4>3, <4>4, <5>1, PlaceIsPair DEF At
            <6>2. e = p <=> e[2] = 0 BY <4>3, <5>1, PlaceIsPair DEF p
            <6>3. QED BY <4>3, <4>4, <5>1, <6>1, <6>2, PlaceIsPair DEF Used
          <5>2. CASE e[1] # i BY <4>3, <4>6, <5>2, PlaceIsPair DEF Used
          <5>3. QED BY <5>1, <5>2
        <4>9. Appends(ents, n, ents, cp, NewEntry, p)
          BY <4>3, <4>5, <4>6, <4>7, <4>8 DEF Appends, Used
        <4>10. \A nm, k : k # NewEntry.ino => (Leads(ents, n, nm, k) <=> Leads(ents, cp, nm, k))
          BY <4>9, AppendLeads
        <4>11. QED BY <4>4, <4>10 DEF n
      <3>3. QED BY <3>1, <3>2
    <2>3. \A nm, k : Leads(ents, cp, nm, k) <=> Leads(ents, inode'[at], nm, k)
      BY <2>1, SameLeads
    <2>4. \A k \in Inodes : (inode'[k].valid <=> inode[k].valid) /\ (inode'[k].dir <=> inode[k].dir)
      BY <1>0, <2>1
    <2>5. \A d, k \in Inodes, nm \in Names :
            Hop(ents', inode', d, nm, k) <=> Hop(ents, inode, d, nm, k)
      BY <1>0, <2>1, <2>2, <2>3, <2>4 DEF Hop
    <2>6. QED BY <1>0, <2>4, <2>5, SameView, Empties
  <1>3. QED BY <1>1, <1>2

\* A file that is written back stays a file.
LEMMA WriteInodeView ==
  ASSUME DiskInv, Tree, TypeOK', WriteInode PROVE Kind' = Kind
  <1>0. /\ TypeOK /\ UNCHANGED <<super, ents>> /\ pc = "write" /\ at \in Inodes
        /\ inode[at].valid /\ ~inode[at].dir /\ cp.valid /\ ~cp.dir /\ cp \in Inode
        /\ inode \in [Inodes -> Inode]
    BY DEF WriteInode, Tree, CallOK, DiskInv, Working, TypeOK
  <1>1. CASE UNCHANGED inode BY <1>0, <1>1, StillView
  <1>2. CASE inode' # inode
    <2>1. /\ \A n \in Inodes : n # at => inode'[n] = inode[n]
          /\ inode'[at].valid /\ ~inode'[at].dir
      BY <1>0, <1>2 DEF WriteInode, writei, Inode
    <2>2. \A k \in Inodes : (inode'[k].valid <=> inode[k].valid) /\ (inode'[k].dir <=> inode[k].dir)
      BY <1>0, <2>1
    <2>3. \A d, k \in Inodes, nm \in Names :
            Hop(ents', inode', d, nm, k) <=> Hop(ents, inode, d, nm, k)
      BY <1>0, <2>1, <2>2 DEF Hop
    <2>4. QED BY <1>0, <2>2, <2>3, SameView, Empties
  <1>3. QED BY <1>1, <1>2

-----------------------------------------------------------------------------
(***************************************************************************)
(* Steps that add a path                                                   *)
(***************************************************************************)
\* One path, which led nowhere, appears below a directory.
LEMMA AddsPath ==
  ASSUME NEW p \in Paths, NEW k \in {"dir", "file"}, Kind[p] = "none", Kind'[p] = k,
         IF p = <<>> THEN k = "dir" ELSE Kind[SubSeq(p, 1, Len(p) - 1)] = "dir",
         \A q \in Paths : q # p => Kind'[q] = Kind[q]
  PROVE  NS!Next
  <1>1. Kind = [q \in Paths |-> Kind[q]] /\ Kind' = [q \in Paths |-> Kind'[q]] BY DEF Kind
  <1>2. Kind' = [Kind EXCEPT ![p] = k] BY <1>1
  <1>3. NS!Add(p, k) BY <1>2 DEF NS!Add
  <1>4. p \in NS!Changed BY DEF NS!Changed
  <1>5. QED BY <1>3, <1>4 DEF NS!Next

\* The root appears when mkfs writes its inode.
LEMMA MkfsRootView ==
  ASSUME DiskInv, TypeOK', MkfsRoot PROVE NS!Next \/ Kind' = Kind
  <1>0. /\ TypeOK /\ UNCHANGED <<super, ents>> /\ inode \in [Inodes -> Inode]
        /\ Pristine
    BY DEF DiskInv, Formatting, MkfsRoot, TypeOK
  <1>1. Kind = NoKind BY <1>0, EmptyView DEF Pristine
  <1>2. CASE UNCHANGED inode BY <1>0, <1>2, StillView
  <1>3. CASE ~super
    <2>1. (TypeOK /\ (~super \/ \A n \in Inodes : ~inode[n].valid) => Kind = NoKind)'
      BY EmptyView, PTL
    <2>2. QED BY <1>0, <1>1, <1>3, <2>1
  <1>4. CASE super /\ inode' = [inode EXCEPT ![Root] = RootInode]
    <2>0. Root \in Inodes BY Empties
    <2>1. /\ inode'[Root].valid /\ inode'[Root].dir
          /\ \A i \in Ptrs : inode'[Root].ptr[i] = IF i = 0 THEN 1 ELSE 0
      BY <1>0, <1>4, <2>0 DEF RootInode, NoPtrs
    <2>2. \A e \in Places : ~Used(ents', inode'[Root], e)
      <3>1. \A b \in Blocks, s \in Slots : ents'[b][s].name = NULL
        BY <1>0 DEF Pristine, ZeroBlock, NoEntry
      <3>2. QED BY <2>1, <3>1, PlaceIsPair, Empties DEF Used, At
    <2>3. \A nm, k : ~Hop(ents', inode', Root, nm, k) BY <2>2 DEF Hop, Leads, FirstAt
    <2>4. (TypeOK => WalkOK)' /\ (TypeOK => KindView)' BY Walk, KindWalk, PTL
    <2>5. WalkOK' /\ KindView' BY <2>4
    <2>6. /\ Root \in get_node_by_path'[<<>>]
          /\ \A a \in Names : \A k : k \notin get_node_by_path'[<<a>>]
          /\ \A a, b \in Names : \A k : k \notin get_node_by_path'[<<a, b>>]
      BY <1>0, <1>4, <2>1, <2>3, <2>5 DEF WalkOK
    <2>7. Kind'[<<>>] = "dir" BY <2>1, <2>5, <2>6, PathShape DEF KindView
    <2>8. \A q \in Paths : q # <<>> => Kind'[q] = "none"
      <3>1. \A q \in Paths : q # <<>> => \A k : k \notin get_node_by_path'[q] BY <2>6, PathShape
      <3>2. QED BY <2>5, <3>1 DEF KindView
    <2>9. <<>> \in Paths /\ \A q \in Paths : Kind[q] = "none" BY <1>1, PathShape DEF NoKind
    <2>10. QED BY <2>7, <2>8, <2>9, AddsPath
  <1>5. QED BY <1>2, <1>3, <1>4 DEF MkfsRoot, writei

\* The names form a tree: no two entries of valid directories lead to the
\* same inode, and none to the root.
LEMMA NamedOnce ==
  ASSUME DiskInv, NEW c \in Inodes, NEW d \in Inodes, inode[c].valid, inode[d].valid, NEW l, NEW nm,
         NEW k, Leads(ents, inode[c], l, k), Leads(ents, inode[d], nm, k)
  PROVE  c = d /\ l = nm /\ l \in Names /\ k # Root
  <1>1. PICK e \in Places : /\ Used(ents, inode[c], e) /\ At(ents, inode[c], e).ino = k
                            /\ At(ents, inode[c], e).name = l
    BY DEF Leads, FirstAt
  <1>2. PICK f \in Places : /\ Used(ents, inode[d], f) /\ At(ents, inode[d], f).ino = k
                            /\ At(ents, inode[d], f).name = nm
    BY DEF Leads, FirstAt
  <1> DEFINE B == inode[c].ptr[e[1]]
             C == inode[d].ptr[f[1]]
  <1>3. /\ B \in Blocks /\ C \in Blocks /\ B # 0 /\ e[1] \in Ptrs /\ f[1] \in Ptrs
        /\ e[2] \in Slots /\ f[2] \in Slots
    BY <1>1, <1>2, PlaceIsPair DEF Used, DiskInv, TypeOK, Inode
  <1>4. /\ ents[B][e[2]].name # NULL /\ ents[B][e[2]].ino = k /\ ents[B][e[2]].name = l
        /\ ents[C][f[2]].name # NULL /\ ents[C][f[2]].ino = k /\ ents[C][f[2]].name = nm
    BY <1>1, <1>2 DEF Used, At
  <1> HIDE DEF B, C
  <1>5. l \in Names
    <2>1. ents \in [Blocks -> [Slots -> Entry]] BY DEF DiskInv, TypeOK
    <2>2. ents[B][e[2]] \in Entry BY <1>3, <2>1
    <2>3. QED BY <1>4, <2>2 DEF Entry
  <1>6. B = C /\ e[2] = f[2] /\ k # Root BY <1>3, <1>4 DEF DiskInv, EntriesExclusive
  <1>7. c = d BY <1>3, <1>6 DEF DiskInv, BlocksExclusive, B, C
  <1>8. QED BY <1>4, <1>5, <1>6, <1>7

\* The inode of a mkdir or create is written: the one entry that names it, in
\* a directory that a path leads to or not, now leads somewhere, and nothing
\* is found below it.
LEMMA NewInodeView ==
  ASSUME DiskInv, Tree, TypeOK', NewInode PROVE NS!Next \/ Kind' = Kind
  <1> DEFINE G == get_node_by_path
  <1>0. /\ TypeOK /\ UNCHANGED <<super, ents>> /\ pc = "new_inode" /\ new \in Inodes
        /\ ~inode[new].valid /\ new # Root /\ Root \in Inodes /\ inode \in [Inodes -> Inode]
    BY Empties DEF NewInode, DiskInv, NewOK, TypeOK
  <1>1. CASE UNCHANGED inode BY <1>0, <1>1, StillView
  <1>2. CASE ~super
    <2>1. (TypeOK /\ (~super \/ \A n \in Inodes : ~inode[n].valid) => Kind = NoKind)'
      BY EmptyView, PTL
    <2>2. QED BY <1>0, <1>2, <2>1, EmptyView
  <1>3. CASE super /\ inode' = [inode EXCEPT ![new] = NewRecord]
    <2>1. \A n \in Inodes : n # new => inode'[n] = inode[n] BY <1>0, <1>3
    <2>2. /\ inode'[new].valid
          /\ \A i \in Ptrs : inode'[new].ptr[i] = IF i = 0 THEN blk ELSE 0
      BY <1>0, <1>3 DEF NewRecord, NoPtrs
    <2>3. \A e \in Places : ~Used(ents', inode'[new], e)
      <3>1. /\ blk # 0 => ents[blk] = ZeroBlock
            /\ \A s \in Slots : ZeroBlock[s].name = NULL
        BY <1>0 DEF Tree, CallOK, ZeroBlock, NoEntry
      <3>2. QED BY <1>0, <2>2, <3>1, PlaceIsPair DEF Used, At
    <2>4. \A nm, k : ~Leads(ents', inode'[new], nm, k) BY <2>3 DEF Leads, FirstAt
    <2>5. /\ inode'[Root].valid <=> inode[Root].valid
          /\ \A k \in Inodes : inode[k].valid => (inode'[k].dir <=> inode[k].dir)
      BY <1>0, <2>1
    <2>6. \A d, k \in Inodes, nm \in Names : k # new =>
            (Hop(ents', inode', d, nm, k) <=> Hop(ents, inode, d, nm, k))
      BY <1>0, <2>1, <2>4 DEF Hop
    <2>7. \A d \in Inodes, nm \in Names :
            /\ ~Hop(ents, inode, d, nm, new)
            /\ ~Hop(ents', inode', new, nm, d)
            /\ Hop(ents', inode', d, nm, new) <=>
                 inode[d].valid /\ inode[d].dir /\ Leads(ents, inode[d], nm, new)
      BY <1>0, <2>1, <2>2, <2>4 DEF Hop
    <2>8. WalkOK /\ KindView BY <1>0, Walk, KindWalk
    <2>9. WalkOK' /\ KindView'
      <3>1. (TypeOK => WalkOK)' /\ (TypeOK => KindView)' BY Walk, KindWalk, PTL
      <3>2. QED BY <3>1
    <2>10. /\ \A k : k \in G[<<>>] <=> k = Root /\ inode[Root].valid
           /\ \A a \in Names : \A k :
                k \in G[<<a>>] <=> k \in Inodes /\ Hop(ents, inode, Root, a, k)
           /\ \A a, b \in Names : \A k : k \in G[<<a, b>>] <=> k \in Inodes /\
                \E d \in Inodes : Hop(ents, inode, Root, a, d) /\ Hop(ents, inode, d, b, k)
      BY <1>3, <2>8 DEF WalkOK
    <2>11. /\ \A k : k \in G'[<<>>] <=> k = Root /\ inode'[Root].valid
           /\ \A a \in Names : \A k :
                k \in G'[<<a>>] <=> k \in Inodes /\ Hop(ents', inode', Root, a, k)
           /\ \A a, b \in Names : \A k : k \in G'[<<a, b>>] <=> k \in Inodes /\
                \E d \in Inodes : Hop(ents', inode', Root, a, d) /\ Hop(ents', inode', d, b, k)
      BY <1>0, <1>3, <2>9 DEF WalkOK
    <2>12. \A p \in Paths : (\A k : k \in G'[p] <=> k \in G[p]) => Kind'[p] = Kind[p]
      BY <1>0, <2>5, SamePath
    <2>13. \A p \in Paths : new \in G'[p] => Kind'[p] \in {"dir", "file"} BY <2>9 DEF KindView
    <2>14. \A p \in Paths : (\A k : k \notin G[p]) => Kind[p] = "none" BY <2>8 DEF KindView
    <2>15. \A p \in Paths : \A k : k \in G[p] /\ inode[k].dir => Kind[p] = "dir"
      BY <2>8 DEF KindView
    <2> HIDE DEF G
    <2>20. CASE \A d \in Inodes, nm \in Names : ~Hop(ents', inode', d, nm, new)
      BY <1>0, <2>5, <2>6, <2>7, <2>20, SameView
    <2>21. CASE \E d \in Inodes, nm \in Names : Hop(ents', inode', d, nm, new)
      <3>1. PICK d \in Inodes, nm \in Names : Hop(ents', inode', d, nm, new) BY <2>21
      <3>2. inode[d].valid /\ inode[d].dir /\ Leads(ents, inode[d], nm, new) /\ d # new
        BY <1>0, <2>7, <3>1
      <3>3. \A k \in Inodes : ~Hop(ents, inode, d, nm, k)
        BY <1>0, <3>2, LeadsToOne DEF Hop
      <3>4. \A c \in Inodes, l \in Names : Hop(ents', inode', c, l, new) => c = d /\ l = nm
        <4> TAKE c \in Inodes, l \in Names
        <4> HAVE Hop(ents', inode', c, l, new)
        <4>1. inode[c].valid /\ Leads(ents, inode[c], l, new) BY <2>7
        <4>2. QED BY <3>2, <4>1, NamedOnce
      <3>5. \A c \in Inodes, l \in Names : ~Hop(ents, inode, c, l, Root)
        BY <1>0, NamedOnce DEF Hop
      <3>6. \A c, e \in Inodes, l, m \in Names, k \in Inodes :
              Hop(ents, inode, c, l, k) /\ Hop(ents, inode, e, m, k) => c = e /\ l = m
        <4> TAKE c, e \in Inodes, l, m \in Names, k \in Inodes
        <4> HAVE Hop(ents, inode, c, l, k) /\ Hop(ents, inode, e, m, k)
        <4>1. /\ inode[c].valid /\ Leads(ents, inode[c], l, k)
              /\ inode[e].valid /\ Leads(ents, inode[e], m, k)
          BY DEF Hop
        <4>2. QED BY <4>1, NamedOnce
      <3>7. \A k : k \in G'[<<>>] <=> k \in G[<<>>] BY <2>5, <2>10, <2>11
      <3>8. CASE d = Root
        <4>1. \A a, b \in Names : \A k : k \in G'[<<a, b>>] <=> k \in G[<<a, b>>]
          <5> TAKE a, b \in Names
          <5> TAKE k
          <5>1. ASSUME NEW c \in Inodes, k \in Inodes
                PROVE  Hop(ents', inode', Root, a, c) /\ Hop(ents', inode', c, b, k) <=>
                       Hop(ents, inode, Root, a, c) /\ Hop(ents, inode, c, b, k)
            <6>1. CASE c = new BY <1>0, <2>7, <5>1, <6>1
            <6>2. CASE c # new /\ k # new BY <1>0, <2>6, <5>1, <6>2
            <6>3. CASE c # new /\ k = new
              <7>1. Hop(ents', inode', c, b, k) => c = Root BY <3>4, <3>8, <6>3
              <7>2. ~Hop(ents', inode', Root, a, Root) BY <1>0, <2>6, <3>5
              <7>3. QED BY <1>0, <2>7, <6>3, <7>1, <7>2
            <6>4. QED BY <6>1, <6>2, <6>3
          <5>2. QED BY <2>10, <2>11, <5>1
        <4>2. \A a \in Names : a # nm => \A k : k \in G'[<<a>>] <=> k \in G[<<a>>]
          BY <1>0, <2>6, <2>7, <2>10, <2>11, <3>4
        <4>3. /\ \A k : k \notin G[<<nm>>]
              /\ new \in G'[<<nm>>]
              /\ Root \in G[<<>>]
          BY <1>0, <2>10, <2>11, <3>1, <3>2, <3>3, <3>8
        <4>4. \A q \in Paths : q # <<nm>> => Kind'[q] = Kind[q]
          <5>1. \A q \in Paths : q # <<nm>> => \A k : k \in G'[q] <=> k \in G[q]
            <6> SUFFICES ASSUME NEW q \in Paths, q # <<nm>> PROVE \A k : k \in G'[q] <=> k \in G[q]
              OBVIOUS
            <6>1. CASE q = <<>> BY <3>7, <6>1
            <6>2. CASE \E a \in Names : q = <<a>> BY <4>2, <6>2
            <6>3. CASE \E a, b \in Names : q = <<a, b>> BY <4>1, <6>3
            <6>4. QED BY <6>1, <6>2, <6>3, PathShape
          <5>2. QED BY <2>12, <5>1
        <4>5. /\ <<nm>> \in Paths /\ <<nm>> # <<>> /\ SubSeq(<<nm>>, 1, Len(<<nm>>) - 1) = <<>>
              /\ <<>> \in Paths
          BY PathShape
        <4>6. Kind[<<nm>>] = "none" /\ Kind'[<<nm>>] \in {"dir", "file"} /\ Kind[<<>>] = "dir"
          BY <2>13, <2>14, <2>15, <3>2, <3>8, <4>3, <4>5
        <4>7. QED BY <4>4, <4>5, <4>6, AddsPath
      <3>9. CASE d # Root
        <4>1. \A a \in Names : \A k : k \in G'[<<a>>] <=> k \in G[<<a>>]
          <5> TAKE a \in Names
          <5> TAKE k
          <5>1. k \in Inodes => (Hop(ents', inode', Root, a, k) <=> Hop(ents, inode, Root, a, k))
            <6>1. CASE k = new BY <1>0, <2>7, <3>4, <3>9, <6>1
            <6>2. CASE k # new BY <1>0, <2>6, <6>2
            <6>3. QED BY <6>1, <6>2
          <5>2. QED BY <2>10, <2>11, <5>1
        <4>2. ASSUME NEW a \in Names, NEW b \in Names, ~(Hop(ents, inode, Root, a, d) /\ b = nm)
              PROVE  \A k : k \in G'[<<a, b>>] <=> k \in G[<<a, b>>]
          <5> TAKE k
          <5>1. ASSUME NEW c \in Inodes, k \in Inodes
                PROVE  Hop(ents', inode', Root, a, c) /\ Hop(ents', inode', c, b, k) <=>
                       Hop(ents, inode, Root, a, c) /\ Hop(ents, inode, c, b, k)
            <6>1. CASE c = new BY <1>0, <2>7, <5>1, <6>1
            <6>2. CASE c # new /\ k # new BY <1>0, <2>6, <5>1, <6>2
            <6>3. CASE c # new /\ k = new
              <7>1. Hop(ents', inode', c, b, k) => c = d /\ b = nm BY <3>4, <6>3
              <7>2. Hop(ents', inode', Root, a, c) <=> Hop(ents, inode, Root, a, c)
                BY <1>0, <2>6, <6>3
              <7>3. QED BY <1>0, <2>7, <4>2, <6>3, <7>1, <7>2
            <6>4. QED BY <6>1, <6>2, <6>3
          <5>2. QED BY <2>10, <2>11, <5>1
        <4>3. CASE \A a \in Names : ~Hop(ents, inode, Root, a, d)
          <5>1. \A q \in Paths : \A k : k \in G'[q] <=> k \in G[q]
            <6> TAKE q \in Paths
            <6>1. CASE q = <<>> BY <3>7, <6>1
            <6>2. CASE \E a \in Names : q = <<a>> BY <4>1, <6>2
            <6>3. CASE \E a, b \in Names : q = <<a, b>> BY <4>2, <4>3, <6>3
            <6>4. QED BY <6>1, <6>2, <6>3, PathShape
          <5>2. \A q \in Paths : Kind'[q] = Kind[q] BY <2>12, <5>1
          <5>3. Kind = [q \in Paths |-> Kind[q]] /\ Kind' = [q \in Paths |-> Kind'[q]] BY DEF Kind
          <5>4. QED BY <5>2, <5>3
        <4>4. CASE \E a \in Names : Hop(ents, inode, Root, a, d)
          <5>1. PICK a \in Names : Hop(ents, inode, Root, a, d) BY <4>4
          <5>2. \A b \in Names : Hop(ents, inode, Root, b, d) => b = a BY <1>0, <3>6, <5>1
          <5>3. \A c \in Inodes : Hop(ents, inode, Root, a, c) => c = d
            BY <5>1, LeadsToOne DEF Hop
          <5>4. /\ \A k : k \notin G[<<a, nm>>]
                /\ new \in G'[<<a, nm>>]
                /\ d \in G[<<a>>]
            <6>1. Hop(ents', inode', Root, a, d) BY <1>0, <2>6, <3>2, <5>1
            <6>2. QED BY <1>0, <2>10, <2>11, <3>1, <3>3, <5>1, <5>3, <6>1
          <5>5. \A q \in Paths : q # <<a, nm>> => Kind'[q] = Kind[q]
            <6>1. \A q \in Paths : q # <<a, nm>> => \A k : k \in G'[q] <=> k \in G[q]
              <7> SUFFICES ASSUME NEW q \in Paths, q # <<a, nm>>
                           PROVE  \A k : k \in G'[q] <=> k \in G[q]
                OBVIOUS
              <7>1. CASE q = <<>> BY <3>7, <7>1
              <7>2. CASE \E b \in Names : q = <<b>> BY <4>1, <7>2
              <7>3. CASE \E b, c \in Names : q = <<b, c>> BY <4>2, <5>2, <7>3
              <7>4. QED BY <7>1, <7>2, <7>3, PathShape
            <6>2. QED BY <2>12, <6>1
          <5>6. /\ <<a, nm>> \in Paths /\ <<a, nm>> # <<>>
                /\ SubSeq(<<a, nm>>, 1, Len(<<a, nm>>) - 1) = <<a>> /\ <<a>> \in Paths
            BY PathShape
          <5>7. Kind[<<a, nm>>] = "none" /\ Kind'[<<a, nm>>] \in {"dir", "file"} /\ Kind[<<a>>] = "dir"
            BY <2>13, <2>14, <2>15, <3>2, <5>4, <5>6
          <5>8. QED BY <5>5, <5>6, <5>7, AddsPath
        <4>5. QED BY <4>3, <4>4
      <3>10. QED BY <3>8, <3>9
    <2>22. QED BY <2>20, <2>21
  <1>4. QED BY <1>1, <1>2, <1>3 DEF NewInode, writei

\* Every step that keeps the marks adds one path below a directory, or leaves
\* every path as it was.
LEMMA NameStep ==
  ASSUME DiskInv, Tree, TypeOK', MarksKept', [Next]_vars PROVE NS!Next \/ Kind' = Kind
  <1>0. TypeOK BY DEF DiskInv
  <1>1. CASE MkfsSuper \/ MkfsRootBlock
    <2>1. Pristine /\ UNCHANGED inode BY <1>1 DEF DiskInv, Formatting, MkfsSuper, MkfsRootBlock
    <2>2. (TypeOK /\ (~super \/ \A n \in Inodes : ~inode[n].valid) => Kind = NoKind)'
      BY EmptyView, PTL
    <2>3. QED BY <1>0, <2>1, <2>2, EmptyView DEF Pristine
  <1>2. CASE MkfsRoot BY <1>2, MkfsRootView
  <1>3. CASE DevInit \/ MkfsIBitmap \/ MkfsDBitmap
    BY <1>0, <1>3, StillView DEF DevInit, MkfsIBitmap, MkfsDBitmap
  <1>4. CASE Mount \/ Unmount \/ Crash
    BY <1>0, <1>4, StillView DEF Mount, Unmount, Crash, ondisk
  <1>5. CASE Begin BY <1>0, <1>5, StillView DEF Begin, BeginAdd, BeginWrite, ondisk
  <1>6. CASE AllocIno \/ DirAlloc \/ NewBlock \/ WriteAlloc \/ WriteBlock \/ ReadFails
    BY <1>0, <1>6, StillView DEF AllocIno, DirAlloc, NewBlock, WriteAlloc, WriteBlock, ReadFails, ondisk
  <1>7. CASE DirAdd BY <1>7, DirAddView
  <1>8. CASE DirBlock BY <1>8, DirBlockView
  <1>9. CASE DirInode BY <1>9, DirInodeView
  <1>10. CASE NewInode BY <1>10, NewInodeView
  <1>11. CASE WriteInode BY <1>11, WriteInodeView
  <1>12. CASE UNCHANGED vars BY <1>0, <1>12, StillView DEF vars, ondisk
  <1>13. QED
    BY <1>1, <1>2, <1>3, <1>4, <1>5, <1>6, <1>7, <1>8, <1>9, <1>10, <1>11, <1>12
    DEF Next, Mkfs, Continue

-----------------------------------------------------------------------------
(***************************************************************************)
(* The theorems                                                            *)
(***************************************************************************)
\* rufs.c implements the abstract file system: whatever the calls and whatever
\* crashes or fails, bitmaps aside, names appear one at a time, below a
\* directory that is there, and never change or vanish.
THEOREM ImplementsNamespace == Spec => RefinesNamespace
  <1>1. Init => NS!Init
    <2> SUFFICES ASSUME Init PROVE NS!Init
      OBVIOUS
    <2>1. TypeOK /\ ~super BY TypeInit DEF Init
    <2>2. Kind = NoKind BY <2>1, EmptyView
    <2>3. QED BY <2>2 DEF NS!Init, NoKind
  <1>2. FaultInv /\ TreeInv /\ FaultInv' /\ [Next]_vars => [NS!Next \/ ~MarksKept']_Kind
    <2> SUFFICES ASSUME FaultInv, TreeInv, FaultInv', [Next]_vars, MarksKept'
                 PROVE  NS!Next \/ Kind' = Kind
      OBVIOUS
    <2>1. MarksKept BY Faults DEF FaultInv, MarksKept
    <2>2. QED BY <2>1, NameStep DEF FaultInv, TreeInv
  <1>3. QED BY <1>1, <1>2, TreeAlways, PTL DEF Spec, RefinesNamespace

\* What rufs_readdir lists rufs_getattr finds, between calls, as long as
\* nothing has failed and there are data blocks left.
THEOREM EveryNameLeadsSomewhere == Spec => []ListedIsFound
  <1>1. FaultInv /\ TreeInv => ListedIsFound
    <2> SUFFICES ASSUME FaultInv, TreeInv, pc = "idle", failed = {}, dbitmap # Blocks,
                        NEW p \in Paths, NEW nm \in rufs_readdir(p), Len(p) < 2
                 PROVE  rufs_getattr(Append(p, nm))
      BY DEF ListedIsFound
    <2>0. TypeOK /\ DiskInv /\ Tree BY DEF FaultInv, TreeInv, MarksKept
    <2>1. WalkOK /\ KindView BY <2>0, Walk, KindWalk
    <2>2. nm \in Names /\ \E k : k \in Lookup(get_node_by_path[p], nm) BY DEF rufs_readdir
    <2>3. PICK d \in get_node_by_path[p] : inode[d].dir /\ \E k : Leads(ents, inode[d], nm, k)
      BY <2>2, LookupLeads
    <2>4. PICK k : Leads(ents, inode[d], nm, k)
      BY <2>3
    <2>5. inode[d].dir /\ Leads(ents, inode[d], nm, k)
      BY <2>3, <2>4
    <2>6. d \in Inodes /\ inode[d].valid BY <2>1, <2>5 DEF KindView
    <2>7. k \in Inodes BY <2>0, <2>5, <2>6, LeadsToInode
    <2>8. inode[k].valid
      <3>1. PICK e \in Places : Used(ents, inode[d], e) /\ At(ents, inode[d], e).ino = k
        BY <2>5 DEF Leads, FirstAt
      <3>2. inode[d].ptr[e[1]] \in Blocks /\ e[2] \in Slots
        BY <2>0, <2>6, <3>1, PlaceIsPair DEF Used, TypeOK, Inode
      <3>3. QED BY <2>0, <3>1, <3>2 DEF Tree, LeadOK, Used, At
    <2>9. Hop(ents, inode, d, nm, k) BY <2>5, <2>6, <2>8 DEF Hop
    <2>10. CASE p = <<>>
      <3>1. d = Root /\ super BY <2>1, <2>5, <2>10 DEF WalkOK
      <3>2. k \in get_node_by_path[<<nm>>] BY <2>1, <2>2, <2>7, <2>9, <3>1 DEF WalkOK
      <3>3. QED BY <2>2, <2>10, <3>2, PathShape DEF rufs_getattr
    <2>11. CASE \E a \in Names : p = <<a>>
      <3>1. PICK a \in Names : p = <<a>> BY <2>11
      <3>2. super /\ Hop(ents, inode, Root, a, d) BY <2>1, <2>5, <3>1 DEF WalkOK
      <3>3. k \in get_node_by_path[<<a, nm>>] BY <2>1, <2>2, <2>6, <2>7, <2>9, <3>2 DEF WalkOK
      <3>4. Append(p, nm) = <<a, nm>> BY <2>2, <3>1, PathShape
      <3>5. QED BY <3>3, <3>4 DEF rufs_getattr
    <2>12. CASE \E a, b \in Names : p = <<a, b>> BY <2>12
    <2>13. QED BY <2>10, <2>11, <2>12, PathShape
  <1>2. QED BY <1>1, TreeAlways, PTL
=============================================================================
