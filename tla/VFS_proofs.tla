------------------------------ MODULE VFS_proofs ------------------------------
(***************************************************************************)
(* Proofs about VFS, for any ramdisks and any paths, offsets, lengths and  *)
(* indices: what the calls allocate and free, the bytes they read, and the *)
(* files the names lead to.                                                *)
(***************************************************************************)
EXTENDS VFS, SequenceTheorems, FiniteSetTheorems, WellFoundedInduction, TLAPS
-----------------------------------------------------------------------------
(* The nodes of a list, and the sequences of them *)

\* The numbers of blocks, and the nodes and headers of lists.
Blocks    == Nat \ {0}
NodeTypes == [value : Nat, next : Nat, prev : Nat]
NodeMaps  == UNION {[D -> NodeTypes] : D \in SUBSET Blocks}
ListTypes == [head : Nat, tail : Nat, length : Nat, node : NodeMaps]

\* The sequences of blocks in which none comes twice.
Chains == {s \in Seq(Blocks) : IsInjective(s)}

First(s) == IF s = <<>> THEN NIL ELSE s[1]
Final(s) == IF s = <<>> THEN NIL ELSE s[Len(s)]

\* From the head on the list l goes through the nodes s and then ends.
GoesOn(l, s) ==
    /\ l \in ListTypes /\ s \in Chains /\ IsFiniteSet(DOMAIN l.node)
    /\ \A i \in 1..Len(s) : s[i] \in DOMAIN l.node
    /\ l.length = Len(s) /\ l.head = First(s) /\ l.tail = Final(s)
    /\ \A i \in 1..Len(s) : l.node[s[i]].next = IF i = Len(s) THEN NIL ELSE s[i + 1]

\* And from the tail it comes back.
GoesBack(l, s) == \A i \in 1..Len(s) : l.node[s[i]].prev = IF i = 1 THEN NIL ELSE s[i - 1]

Linked(l, s) == GoesOn(l, s) /\ GoesBack(l, s)
\* A set of naturals that is not empty has a least element.
LEMMA LeastElement ==
    ASSUME NEW S \in SUBSET Nat, S # {}
    PROVE  \E x \in S : \A y \in S : x <= y
<1>1. PICK x \in S : \A y \in S : ~ (<<y, x>> \in OpToRel(<, Nat))
  BY NatLessThanWellFounded, WFMin
<1>2. \A y \in S : ~ (y < x)
  BY <1>1 DEF OpToRel
<1> QED
  BY <1>2

\* Such a sequence, spelled out.
LEMMA ChainFacts ==
    ASSUME NEW s \in Chains
    PROVE  /\ s \in Seq(Blocks) /\ Len(s) \in Nat /\ DOMAIN s = 1..Len(s)
           /\ \A i \in 1..Len(s) : s[i] \in Blocks
           /\ \A i, j \in 1..Len(s) : s[i] = s[j] => i = j
           /\ s = <<>> <=> Len(s) = 0
BY DEF Chains, IsInjective

\* Nodes, spelled out.
LEMMA NodeMapFacts ==
    ASSUME NEW f \in NodeMaps
    PROVE  /\ f = [n \in DOMAIN f |-> f[n]] /\ DOMAIN f \subseteq Blocks
           /\ \A n \in DOMAIN f : f[n] \in NodeTypes
<1>1. PICK D \in SUBSET Blocks : f \in [D -> NodeTypes]
  BY DEF NodeMaps
<1> QED
  BY <1>1

\* A walk of enough steps goes through all of a sequence and stays at its end.
Prefix(s, k) == SubSeq(s, 1, IF k < Len(s) THEN k ELSE Len(s))

Extend(start, succ, so) ==
    LET n == IF so = <<>> THEN start ELSE succ[Last(so)]
    IN IF n = NIL THEN so ELSE Append(so, n)

LEMMA PrefixFacts ==
    ASSUME NEW s \in Chains, NEW k \in Nat
    PROVE  /\ Prefix(s, k) \in Seq(Blocks)
           /\ Len(Prefix(s, k)) = IF k < Len(s) THEN k ELSE Len(s)
           /\ \A i \in 1..Len(Prefix(s, k)) : Prefix(s, k)[i] = s[i]
<1>1. s \in Seq(Blocks) /\ Len(s) \in Nat
  BY ChainFacts
<1> QED
  BY <1>1 DEF Prefix

LEMMA PrefixStep ==
    ASSUME NEW start, NEW succ, NEW s \in Chains, start = First(s),
           \A i \in 1..Len(s) : succ[s[i]] = IF i = Len(s) THEN NIL ELSE s[i + 1],
           NEW k \in Nat
    PROVE  Extend(start, succ, Prefix(s, k)) = Prefix(s, k + 1)
<1> DEFINE p == Prefix(s, k)
           q == Prefix(s, k + 1)
<1>1. /\ s \in Seq(Blocks) /\ Len(s) \in Nat /\ \A i \in 1..Len(s) : s[i] \in Blocks
      /\ s = <<>> <=> Len(s) = 0
  BY ChainFacts
<1>2. /\ p \in Seq(Blocks) /\ Len(p) = (IF k < Len(s) THEN k ELSE Len(s))
      /\ \A i \in 1..Len(p) : p[i] = s[i]
  BY PrefixFacts
<1>3. /\ q \in Seq(Blocks) /\ Len(q) = (IF k + 1 < Len(s) THEN k + 1 ELSE Len(s))
      /\ \A i \in 1..Len(q) : q[i] = s[i]
  BY PrefixFacts
<1> HIDE DEF p, q
<1>4. CASE k < Len(s)
  <2>1. (IF p = <<>> THEN start ELSE succ[Last(p)]) = s[k + 1]
    <3>1. CASE k = 0
      BY <1>1, <1>2, <1>4, <3>1 DEF First
    <3>2. CASE k # 0
      <4>1. p # <<>> /\ k \in 1..Len(s) /\ Last(p) = s[k] /\ k # Len(s)
        BY <1>1, <1>2, <1>4, <3>2 DEF Last
      <4> QED
        BY <4>1
    <3> QED
      BY <3>1, <3>2
  <2>2. s[k + 1] \in Blocks /\ s[k + 1] # NIL
    BY <1>1, <1>4 DEF Blocks, NIL
  <2>3. Append(p, s[k + 1]) = q
    <3>1. Append(p, s[k + 1]) \in Seq(Blocks) /\ Len(Append(p, s[k + 1])) = Len(q)
      BY <1>1, <1>2, <1>3, <1>4, <2>2
    <3>2. \A i \in 1..Len(q) : Append(p, s[k + 1])[i] = q[i]
      BY <1>1, <1>2, <1>3, <1>4, <2>2
    <3> QED
      BY <1>3, <3>1, <3>2, SeqEqual
  <2> QED
    BY <2>1, <2>2, <2>3 DEF Extend, p, q
<1>5. CASE ~(k < Len(s))
  <2>1. p = q
    BY <1>1, <1>2, <1>3, <1>5, SeqEqual
  <2>2. (IF p = <<>> THEN start ELSE succ[Last(p)]) = NIL
    <3>1. CASE s = <<>>
      BY <1>1, <1>2, <1>5, <3>1 DEF First
    <3>2. CASE s # <<>>
      <4>1. p # <<>> /\ Last(p) = s[Len(s)] /\ Len(s) \in 1..Len(s)
        BY <1>1, <1>2, <1>5, <3>2 DEF Last
      <4> QED
        BY <4>1
    <3> QED
      BY <3>1, <3>2
  <2> QED
    BY <2>1, <2>2 DEF Extend, p, q
<1> QED
  BY <1>4, <1>5

\* Following the links from one node gives the only sequence that does.
LEMMA FollowIs ==
    ASSUME NEW start, NEW succ, NEW s \in Chains, start = First(s),
           \A i \in 1..Len(s) : s[i] \in DOMAIN succ,
           \A i \in 1..Len(s) : succ[s[i]] = IF i = Len(s) THEN NIL ELSE s[i + 1],
           IsFiniteSet(DOMAIN succ)
    PROVE  Follow(start, succ) = s
<1> DEFINE N == Cardinality(DOMAIN succ)
           Is(f) == f = [k \in 0..N |-> IF k = 0 THEN <<>> ELSE Extend(start, succ, f[k - 1])]
           at == [k \in 0..N |-> Prefix(s, k)]
<1>1. N \in Nat /\ Len(s) \in Nat /\ Len(s) <= N
  <2>1. s \in Injection(1..Len(s), DOMAIN succ)
    BY ChainFacts DEF Injection, IsInjective
  <2>2. IsFiniteSet(1..Len(s)) /\ Cardinality(1..Len(s)) = Len(s) /\ Len(s) \in Nat
    BY ChainFacts, FS_Interval
  <2>3. Cardinality(1..Len(s)) <= N
    BY <2>1, FS_Injection
  <2> QED
    BY <2>2, <2>3, FS_CardinalityType
<1>2. Follow(start, succ) = (CHOOSE f : Is(f))[N]
  BY DEF Follow, Extend
<1> HIDE DEF N
<1>3. \A k \in 0..N : at[k] = Prefix(s, k)
  OBVIOUS
<1>4. ASSUME NEW k \in 1..N PROVE Prefix(s, k) = Extend(start, succ, Prefix(s, k - 1))
  <2>1. k - 1 \in Nat /\ (k - 1) + 1 = k
    BY <1>1
  <2>2. PICK j \in Nat : j = k - 1
    BY <2>1
  <2>3. Extend(start, succ, Prefix(s, j)) = Prefix(s, j + 1)
    BY PrefixStep
  <2> QED
    BY <2>1, <2>2, <2>3
<1>5. Prefix(s, 0) = <<>>
  <2>1. Len(Prefix(s, 0)) = 0 /\ Prefix(s, 0) \in Seq(Blocks)
    BY <1>1, PrefixFacts
  <2> QED
    BY <2>1
<1>6. Is(at)
  <2>1. \A k \in 0..N : at[k] = IF k = 0 THEN <<>> ELSE Extend(start, succ, at[k - 1])
    BY <1>1, <1>3, <1>4, <1>5
  <2> QED
    BY <2>1
<1>7. ASSUME NEW f, Is(f) PROVE \A k \in 0..N : f[k] = Prefix(s, k)
  <2> DEFINE Bad == {k \in 0..N : f[k] # Prefix(s, k)}
  <2> SUFFICES ASSUME Bad # {} PROVE FALSE
    OBVIOUS
  <2>0. Bad \in SUBSET Nat
    BY <1>1
  <2>1. PICK k \in Bad : \A j \in Bad : k <= j
    <3> HIDE DEF Bad
    <3> QED
      BY <2>0, LeastElement
  <2>2. f[k] = IF k = 0 THEN <<>> ELSE Extend(start, succ, f[k - 1])
    BY <1>7
  <2>3. k # 0
    BY <1>5, <2>1, <2>2
  <2>4. k \in 1..N /\ k - 1 \in 0..N /\ k - 1 \notin Bad
    BY <1>1, <2>1, <2>3
  <2>5. f[k - 1] = Prefix(s, k - 1)
    BY <2>4
  <2> QED
    BY <1>4, <2>1, <2>2, <2>3, <2>4, <2>5
<1>8. Is(CHOOSE f : Is(f))
  BY <1>6
<1>9. Follow(start, succ) = Prefix(s, N)
  <2> HIDE DEF Is, at
  <2>1. \A k \in 0..N : (CHOOSE f : Is(f))[k] = Prefix(s, k)
    BY <1>7, <1>8
  <2> QED
    BY <1>1, <1>2, <2>1
<1>10. Prefix(s, N) = s
  <2>1. /\ Prefix(s, N) \in Seq(Blocks) /\ Len(Prefix(s, N)) = Len(s)
        /\ \A i \in 1..Len(s) : Prefix(s, N)[i] = s[i]
    BY <1>1, PrefixFacts
  <2> QED
    BY <2>1, ChainFacts, SeqEqual
<1> QED
  BY <1>9, <1>10
-----------------------------------------------------------------------------
(* list_insert and list_push *)

\* A list, field by field.
LEMMA ListFacts ==
    ASSUME NEW l \in ListTypes
    PROVE  /\ l = [head |-> l.head, tail |-> l.tail, length |-> l.length, node |-> l.node]
           /\ l.head \in Nat /\ l.tail \in Nat /\ l.length \in Nat /\ l.node \in NodeMaps
           /\ l.node = [n \in DOMAIN l.node |-> l.node[n]] /\ DOMAIN l.node \subseteq Blocks
           /\ \A n \in DOMAIN l.node : l.node[n] \in NodeTypes
BY NodeMapFacts DEF ListTypes

\* A record of a list with these fields, and a function of these nodes.
LEMMA MapIn ==
    ASSUME NEW D \in SUBSET Blocks, NEW f \in [D -> NodeTypes]
    PROVE  f \in NodeMaps
BY DEF NodeMaps

LEMMA InsertFields ==
    ASSUME NEW l \in ListTypes, NEW n \in Blocks \ DOMAIN l.node, NEW item \in Nat,
           l.tail # NIL => l.tail \in DOMAIN l.node
    PROVE  LET k == list_insert(l, n, item) IN
           /\ k \in ListTypes /\ DOMAIN k.node = DOMAIN l.node \union {n}
           /\ k.head = (IF l.tail = NIL THEN n ELSE l.head)
           /\ k.tail = n /\ k.length = l.length + 1
           /\ k.node[n] = [value |-> item, next |-> NIL, prev |-> l.tail]
           /\ \A m \in DOMAIN l.node :
                 /\ k.node[m].value = l.node[m].value
                 /\ k.node[m].next = (IF m = l.tail THEN n ELSE l.node[m].next)
                 /\ k.node[m].prev = l.node[m].prev
<1> DEFINE D == DOMAIN l.node \union {n}
           fresh == [value |-> item, next |-> NIL, prev |-> NIL]
           f0 == Put(l.node, n, fresh)
           l0 == [l EXCEPT !.node = f0]
           l1 == IF l0.tail = NIL THEN [l0 EXCEPT !.head = n]
                 ELSE [l0 EXCEPT !.node[l0.tail].next = n, !.node[n].prev = l0.tail]
           l2 == [l1 EXCEPT !.node[n].next = NIL, !.tail = n, !.length = @ + 1]
<1>1. /\ l.head \in Nat /\ l.tail \in Nat /\ l.length \in Nat /\ DOMAIN l.node \subseteq Blocks
      /\ \A m \in DOMAIN l.node : l.node[m] \in NodeTypes
  BY ListFacts
<1>2. list_insert(l, n, item) = l2
  BY DEF list_insert, list_append
<1>3. fresh \in NodeTypes
  BY DEF NodeTypes, NIL
<1>4. /\ f0 \in [D -> NodeTypes] /\ f0[n] = fresh
      /\ \A m \in DOMAIN l.node : f0[m] = l.node[m]
  BY <1>1, <1>3 DEF Put
<1>5. /\ l0 \in [head : Nat, tail : Nat, length : Nat, node : [D -> NodeTypes]]
      /\ l0.head = l.head /\ l0.tail = l.tail /\ l0.length = l.length /\ l0.node = f0
  <2>1. l = [head |-> l.head, tail |-> l.tail, length |-> l.length, node |-> l.node]
    BY ListFacts
  <2>2. l0 = [head |-> l.head, tail |-> l.tail, length |-> l.length, node |-> f0]
    <3> HIDE DEF f0
    <3> QED
      BY <2>1
  <2> HIDE DEF l0, f0
  <2> QED
    BY <1>1, <1>4, <2>2
<1> HIDE DEF f0, l0
<1>6. /\ l1 \in [head : Nat, tail : Nat, length : Nat, node : [D -> NodeTypes]]
      /\ l1.head = (IF l.tail = NIL THEN n ELSE l.head)
      /\ l1.tail = l.tail /\ l1.length = l.length
      /\ l1.node[n].value = item /\ l1.node[n].next = NIL /\ l1.node[n].prev = l.tail
      /\ \A m \in DOMAIN l.node :
            /\ l1.node[m].value = l.node[m].value
            /\ l1.node[m].next = (IF m = l.tail THEN n ELSE l.node[m].next)
            /\ l1.node[m].prev = l.node[m].prev
  <2>1. CASE l.tail = NIL
    <3>1. l1 = [l0 EXCEPT !.head = n] /\ n \in Nat
      BY <1>5, <2>1 DEF Blocks
    <3>2. NIL \notin DOMAIN l.node
      BY <1>1 DEF NIL, Blocks
    <3> HIDE DEF l1
    <3> QED
      BY <1>4, <1>5, <2>1, <3>1, <3>2
  <2>2. CASE l.tail # NIL
    <3>1. l.tail \in DOMAIN l.node /\ l.tail \in D /\ n \in D /\ l.tail # n
      BY <2>2
    <3> DEFINE f1 == [f0 EXCEPT ![l.tail].next = n]
               f2 == [f1 EXCEPT ![n].prev = l.tail]
    <3>2. l1 = [l0 EXCEPT !.node = f2]
      <4>1. l1 = [l0 EXCEPT !.node[l.tail].next = n, !.node[n].prev = l.tail]
        BY <1>5, <2>2
      <4> QED
        BY <1>5, <4>1
    <3>3. /\ f1 \in [D -> NodeTypes] /\ f1[l.tail] = [f0[l.tail] EXCEPT !.next = n]
          /\ \A m \in D : m # l.tail => f1[m] = f0[m]
      BY <1>4, <3>1 DEF NodeTypes, Blocks
    <3> HIDE DEF f1
    <3>4. /\ f2 \in [D -> NodeTypes] /\ f2[n] = [f1[n] EXCEPT !.prev = l.tail]
          /\ \A m \in D : m # n => f2[m] = f1[m]
      BY <1>1, <3>1, <3>3 DEF NodeTypes
    <3> HIDE DEF f2, l1
    <3>5. l1.node = f2 /\ l1.head = l0.head /\ l1.tail = l0.tail /\ l1.length = l0.length
          /\ l1 \in [head : Nat, tail : Nat, length : Nat, node : [D -> NodeTypes]]
      BY <1>5, <3>2, <3>4
    <3>6. f2[n] = [fresh EXCEPT !.prev = l.tail]
      BY <1>4, <3>1, <3>3, <3>4
    <3>7. f2[n].value = item /\ f2[n].next = NIL /\ f2[n].prev = l.tail
      BY <3>6
    <3>8. ASSUME NEW m \in DOMAIN l.node
          PROVE  /\ f2[m].value = l.node[m].value
                 /\ f2[m].next = (IF m = l.tail THEN n ELSE l.node[m].next)
                 /\ f2[m].prev = l.node[m].prev
      <4>1. m # n /\ m \in D /\ f2[m] = f1[m] /\ l.node[m] \in NodeTypes
        BY <1>1, <3>4
      <4>2. CASE m = l.tail
        BY <1>4, <3>3, <4>1, <4>2 DEF NodeTypes
      <4>3. CASE m # l.tail
        BY <1>4, <3>3, <4>1, <4>3
      <4> QED
        BY <4>2, <4>3
    <3> QED
      BY <1>5, <2>2, <3>5, <3>7, <3>8
  <2> QED
    BY <2>1, <2>2
<1> HIDE DEF l1
<1> DEFINE f3 == [l1.node EXCEPT ![n].next = NIL]
<1>7. /\ f3 \in [D -> NodeTypes] /\ f3[n] = [l1.node[n] EXCEPT !.next = NIL]
      /\ \A m \in D : m # n => f3[m] = l1.node[m]
  BY <1>6 DEF NodeTypes, NIL
<1> HIDE DEF f3
<1>8. /\ l2 \in [head : Nat, tail : Nat, length : Nat, node : [D -> NodeTypes]]
      /\ l2.head = l1.head /\ l2.tail = n /\ l2.length = l1.length + 1 /\ l2.node = f3
  <2>1. n \in Nat /\ l1.length + 1 \in Nat
    BY <1>1, <1>6 DEF Blocks
  <2>2. l2 = [l1 EXCEPT !.node = f3, !.tail = n, !.length = l1.length + 1]
    BY DEF f3
  <2> HIDE DEF l2, D
  <2> QED
    BY <1>6, <1>7, <2>1, <2>2
<1> HIDE DEF l2
<1>9. f3[n] = [value |-> item, next |-> NIL, prev |-> l.tail]
  <2>1. l1.node[n] \in NodeTypes
    BY <1>6
  <2> QED
    BY <1>6, <1>7, <2>1 DEF NodeTypes
<1>10. l2 \in ListTypes /\ DOMAIN l2.node = D
  <2>1. f3 \in NodeMaps /\ DOMAIN f3 = D
    BY <1>1, <1>7, MapIn
  <2> QED
    BY <1>8, <2>1 DEF ListTypes
<1>11. \A m \in DOMAIN l.node : m # n /\ m \in D
  OBVIOUS
<1> QED
  BY <1>2, <1>6, <1>7, <1>8, <1>9, <1>10, <1>11

\* list_insert puts the node behind the others.
LEMMA InsertLinks ==
    ASSUME NEW l, NEW s, Linked(l, s), NEW n \in Blocks \ DOMAIN l.node, NEW item \in Nat
    PROVE  /\ Linked(list_insert(l, n, item), Append(s, n))
           /\ DOMAIN list_insert(l, n, item).node = DOMAIN l.node \union {n}
           /\ list_insert(l, n, item).node[n].value = item
           /\ \A m \in DOMAIN l.node :
                  list_insert(l, n, item).node[m].value = l.node[m].value
<1> DEFINE k == list_insert(l, n, item)
           t == Append(s, n)
<1>1. /\ l \in ListTypes /\ s \in Chains /\ IsFiniteSet(DOMAIN l.node)
      /\ \A i \in 1..Len(s) : s[i] \in DOMAIN l.node
      /\ l.length = Len(s) /\ l.head = First(s) /\ l.tail = Final(s)
      /\ \A i \in 1..Len(s) : l.node[s[i]].next = IF i = Len(s) THEN NIL ELSE s[i + 1]
      /\ \A i \in 1..Len(s) : l.node[s[i]].prev = IF i = 1 THEN NIL ELSE s[i - 1]
  BY DEF Linked, GoesOn, GoesBack
<1>2. /\ s \in Seq(Blocks) /\ Len(s) \in Nat /\ (s = <<>> <=> Len(s) = 0)
      /\ \A i \in 1..Len(s) : s[i] \in Blocks
      /\ \A i, j \in 1..Len(s) : s[i] = s[j] => i = j
  BY <1>1, ChainFacts
<1>3. l.tail # NIL => l.tail \in DOMAIN l.node
  BY <1>1, <1>2 DEF Final
<1>4. /\ k \in ListTypes /\ DOMAIN k.node = DOMAIN l.node \union {n}
      /\ k.head = (IF l.tail = NIL THEN n ELSE l.head)
      /\ k.tail = n /\ k.length = l.length + 1
      /\ k.node[n] = [value |-> item, next |-> NIL, prev |-> l.tail]
      /\ \A m \in DOMAIN l.node :
            /\ k.node[m].value = l.node[m].value
            /\ k.node[m].next = (IF m = l.tail THEN n ELSE l.node[m].next)
            /\ k.node[m].prev = l.node[m].prev
  BY <1>1, <1>3, InsertFields
<1> HIDE DEF k
<1>5. /\ t \in Seq(Blocks) /\ Len(t) = Len(s) + 1 /\ t[Len(s) + 1] = n
      /\ \A i \in 1..Len(s) : t[i] = s[i]
  BY <1>2
<1> HIDE DEF t
<1>6. \A i \in 1..Len(t) : i \in 1..Len(s) \/ i = Len(s) + 1
  BY <1>2, <1>5
<1>7. t \in Chains
  <2>1. ASSUME NEW i \in 1..Len(t), NEW j \in 1..Len(t), t[i] = t[j] PROVE i = j
    BY <1>1, <1>2, <1>5, <1>6, <2>1
  <2>2. DOMAIN t = 1..Len(t)
    BY <1>5
  <2> QED
    BY <1>5, <2>1, <2>2 DEF Chains, IsInjective
<1>8. IsFiniteSet(DOMAIN k.node)
  <2>1. IsFiniteSet(DOMAIN l.node \union {n})
    BY <1>1, FS_AddElement
  <2> QED
    BY <1>4, <2>1
<1>9. \A i \in 1..Len(t) : t[i] \in DOMAIN k.node
  BY <1>1, <1>4, <1>5, <1>6
<1>10. k.length = Len(t) /\ k.head = First(t) /\ k.tail = Final(t)
  <2>1. CASE s = <<>>
    <3>1. l.tail = NIL /\ Len(s) = 0 /\ k.head = n /\ k.length = 1 /\ Len(t) = 1 /\ t[1] = n
      BY <1>1, <1>2, <1>4, <1>5, <2>1 DEF Final
    <3>2. t # <<>>
      BY <1>5, <3>1
    <3>3. First(t) = n /\ Final(t) = n
      BY <3>1, <3>2 DEF First, Final
    <3>4. k.tail = n
      BY <1>4
    <3> QED
      BY <3>1, <3>3, <3>4
  <2>2. CASE s # <<>>
    <3>1. l.tail = s[Len(s)] /\ l.tail # NIL /\ t # <<>> /\ t[1] = s[1]
      BY <1>1, <1>2, <1>5, <2>2 DEF Final, Blocks, NIL
    <3> QED
      BY <1>1, <1>2, <1>4, <1>5, <2>2, <3>1 DEF First, Final
  <2> QED
    BY <2>1, <2>2
<1>11. ASSUME NEW i \in 1..Len(t)
       PROVE  k.node[t[i]].next = IF i = Len(t) THEN NIL ELSE t[i + 1]
  <2>1. CASE i = Len(s) + 1
    BY <1>2, <1>4, <1>5, <2>1
  <2>2. CASE i \in 1..Len(s)
    <3>1. t[i] = s[i] /\ s[i] \in DOMAIN l.node /\ i # Len(t) /\ s # <<>>
      BY <1>1, <1>2, <1>5, <2>2
    <3>2. l.tail = s[Len(s)] /\ Len(s) \in 1..Len(s)
      BY <1>1, <1>2, <3>1 DEF Final
    <3>3. CASE i = Len(s)
      BY <1>4, <1>5, <3>1, <3>2, <3>3
    <3>4. CASE i # Len(s)
      <4>1. s[i] # l.tail /\ i + 1 \in 1..Len(s)
        BY <1>2, <2>2, <3>2, <3>4
      <4> QED
        <5>1. k.node[s[i]].next = l.node[s[i]].next /\ l.node[s[i]].next = s[i + 1]
          BY <1>1, <1>4, <2>2, <3>1, <3>4, <4>1
        <5> QED
          BY <1>5, <3>1, <4>1, <5>1
    <3> QED
      BY <3>3, <3>4
  <2> QED
    BY <1>6, <2>1, <2>2
<1>12. ASSUME NEW i \in 1..Len(t)
       PROVE  k.node[t[i]].prev = IF i = 1 THEN NIL ELSE t[i - 1]
  <2>1. CASE i = Len(s) + 1
    <3>1. k.node[t[i]].prev = l.tail
      BY <1>4, <1>5, <2>1
    <3> QED
      BY <1>1, <1>2, <1>5, <2>1, <3>1 DEF Final
  <2>2. CASE i \in 1..Len(s)
    <3>1. t[i] = s[i] /\ s[i] \in DOMAIN l.node /\ (i # 1 => i - 1 \in 1..Len(s))
      BY <1>1, <1>2, <1>5, <2>2
    <3>2. k.node[s[i]].prev = l.node[s[i]].prev
      BY <1>4, <3>1
    <3>3. l.node[s[i]].prev = IF i = 1 THEN NIL ELSE s[i - 1]
      BY <1>1, <2>2
    <3>4. i # 1 => t[i - 1] = s[i - 1]
      BY <1>5, <3>1
    <3> QED
      BY <3>1, <3>2, <3>3, <3>4
  <2> QED
    BY <1>6, <2>1, <2>2
<1>13. Linked(k, t)
  BY <1>4, <1>7, <1>8, <1>9, <1>10, <1>11, <1>12 DEF Linked, GoesOn, GoesBack
<1> QED
  BY <1>4, <1>13 DEF k, t

LEMMA RemoveAtFacts ==
    ASSUME NEW S, NEW s \in Seq(S), NEW i \in 1..Len(s)
    PROVE  /\ RemoveAt(s, i) \in Seq(S) /\ Len(RemoveAt(s, i)) = Len(s) - 1
           /\ \A j \in 1..(Len(s) - 1) : RemoveAt(s, i)[j] = IF j < i THEN s[j] ELSE s[j + 1]
<1> DEFINE a == SubSeq(s, 1, i - 1)
           b == SubSeq(s, i + 1, Len(s))
<1>1. Len(s) \in Nat /\ \A j \in 1..Len(s) : s[j] \in S
  OBVIOUS
<1>2. a \in Seq(S) /\ Len(a) = i - 1 /\ \A j \in 1..(i - 1) : a[j] = s[j]
  BY <1>1
<1>3. b \in Seq(S) /\ Len(b) = Len(s) - i /\ \A j \in 1..(Len(s) - i) : b[j] = s[i + j]
  BY <1>1
<1> HIDE DEF a, b
<1>4. /\ a \o b \in Seq(S) /\ Len(a \o b) = Len(a) + Len(b)
      /\ \A j \in 1..(Len(a) + Len(b)) :
             (a \o b)[j] = IF j <= Len(a) THEN a[j] ELSE b[j - Len(a)]
  BY <1>2, <1>3, ConcatProperties
<1>5. ASSUME NEW j \in 1..(Len(s) - 1)
      PROVE  (a \o b)[j] = IF j < i THEN s[j] ELSE s[j + 1]
  <2>1. j \in 1..(Len(a) + Len(b))
    BY <1>1, <1>2, <1>3
  <2>2. CASE j < i
    BY <1>1, <1>2, <1>4, <2>1, <2>2
  <2>3. CASE ~(j < i)
    <3>1. j - (i - 1) \in 1..(Len(s) - i) /\ i + (j - (i - 1)) = j + 1 /\ ~(j <= Len(a))
      BY <1>1, <1>2, <2>3
    <3>2. b[j - (i - 1)] = s[i + (j - (i - 1))]
      BY <1>3, <3>1
    <3> QED
      BY <1>2, <1>4, <2>1, <2>3, <3>1, <3>2
  <2> QED
    BY <2>2, <2>3
<1>6. RemoveAt(s, i) = a \o b
  BY DEF RemoveAt, a, b
<1>7. Len(a \o b) = Len(s) - 1
  BY <1>1, <1>2, <1>3, <1>4
<1> QED
  BY <1>4, <1>5, <1>6, <1>7
-----------------------------------------------------------------------------
(* list_delete *)

\* What list_delete makes of one node.
Unlinked(f, before, after, m) ==
    CASE m = before -> [f[m] EXCEPT !.next = after]
      [] m = after  -> [f[m] EXCEPT !.prev = before]
      [] OTHER      -> f[m]

LEMMA UnlinkedNode ==
    ASSUME NEW f, NEW before \in Nat, NEW after \in Nat, NEW m, f[m] \in NodeTypes,
           ~(m = before /\ m = after)
    PROVE  LET u == Unlinked(f, before, after, m) IN
           /\ u \in NodeTypes /\ u.value = f[m].value
           /\ u.next = (IF m = before THEN after ELSE f[m].next)
           /\ u.prev = (IF m # before /\ m = after THEN before ELSE f[m].prev)
<1>1. CASE m = before
  <2>1. Unlinked(f, before, after, m) = [f[m] EXCEPT !.next = after]
    BY <1>1 DEF Unlinked
  <2> QED
    BY <1>1, <2>1 DEF NodeTypes
<1>2. CASE m # before /\ m = after
  <2>1. Unlinked(f, before, after, m) = [f[m] EXCEPT !.prev = before]
    BY <1>2 DEF Unlinked
  <2> QED
    BY <1>2, <2>1 DEF NodeTypes
<1>3. CASE m # before /\ m # after
  <2>1. Unlinked(f, before, after, m) = f[m]
    BY <1>3 DEF Unlinked
  <2> QED
    BY <1>3, <2>1
<1> QED
  BY <1>1, <1>2, <1>3

LEMMA DeleteFields ==
    ASSUME NEW l \in ListTypes, NEW n \in DOMAIN l.node, l.length # 0,
           l.node[n].prev = l.node[n].next => l.node[n].prev = NIL
    PROVE  LET k == list_delete(l, n)
               before == l.node[n].prev
               after == l.node[n].next
           IN /\ k \in ListTypes /\ DOMAIN k.node = DOMAIN l.node
              /\ k.head = (IF l.head = n THEN after ELSE l.head)
              /\ k.tail = (IF l.tail = n THEN before ELSE l.tail)
              /\ k.length = l.length - 1
              /\ \A m \in DOMAIN l.node :
                    /\ k.node[m].value = l.node[m].value
                    /\ k.node[m].next = (IF m = before THEN after ELSE l.node[m].next)
                    /\ k.node[m].prev = (IF m # before /\ m = after THEN before
                                                                    ELSE l.node[m].prev)
<1> DEFINE before == l.node[n].prev
           after == l.node[n].next
           D == DOMAIN l.node
           g == [m \in D |-> Unlinked(l.node, before, after, m)]
           h == IF l.head = n THEN after ELSE l.head
           t == IF l.tail = n THEN before ELSE l.tail
           k == [l EXCEPT !.head = h, !.tail = t, !.length = l.length - 1, !.node = g]
<1>1. /\ l.head \in Nat /\ l.tail \in Nat /\ l.length \in Nat /\ D \subseteq Blocks
      /\ \A m \in D : l.node[m] \in NodeTypes
      /\ before \in Nat /\ after \in Nat
  BY ListFacts DEF NodeTypes
<1>2. \A m \in D : ~(m = before /\ m = after)
  BY <1>1 DEF Blocks, NIL
<1>3. list_delete(l, n) = k
  BY DEF list_delete, Unlinked
<1> HIDE DEF before, after, D
<1>4. ASSUME NEW m \in D
      PROVE  /\ g[m] \in NodeTypes /\ g[m].value = l.node[m].value
             /\ g[m].next = (IF m = before THEN after ELSE l.node[m].next)
             /\ g[m].prev = (IF m # before /\ m = after THEN before ELSE l.node[m].prev)
  <2>1. g[m] = Unlinked(l.node, before, after, m)
    OBVIOUS
  <2> HIDE DEF g
  <2>2. l.node[m] \in NodeTypes /\ ~(m = before /\ m = after)
    BY <1>1, <1>2
  <2> QED
    BY <1>1, <2>1, <2>2, UnlinkedNode
<1>5. g \in [D -> NodeTypes] /\ DOMAIN g = D
  BY <1>4
<1>6. h \in Nat /\ t \in Nat /\ l.length - 1 \in Nat
  BY <1>1
<1> HIDE DEF g, h, t
<1>7. /\ k \in [head : Nat, tail : Nat, length : Nat, node : NodeMaps]
      /\ k.head = h /\ k.tail = t /\ k.length = l.length - 1 /\ k.node = g
  <2>1. g \in NodeMaps
    BY <1>1, <1>5, MapIn
  <2>2. l \in [head : Nat, tail : Nat, length : Nat, node : NodeMaps]
    BY DEF ListTypes
  <2> QED
    BY <1>6, <2>1, <2>2
<1> HIDE DEF k
<1>8. /\ k \in ListTypes /\ DOMAIN k.node = D
      /\ k.head = h /\ k.tail = t /\ k.length = l.length - 1
      /\ \A m \in D :
            /\ k.node[m].value = l.node[m].value
            /\ k.node[m].next = (IF m = before THEN after ELSE l.node[m].next)
            /\ k.node[m].prev = (IF m # before /\ m = after THEN before ELSE l.node[m].prev)
  BY <1>4, <1>5, <1>7 DEF ListTypes
<1> QED
  BY <1>3, <1>8 DEF before, after, D, h, t

\* list_delete takes the node out, and leaves the others in their order.
LEMMA DeleteLinks ==
    ASSUME NEW l, NEW s, Linked(l, s), NEW i \in 1..Len(s)
    PROVE  /\ Linked(list_delete(l, s[i]), RemoveAt(s, i))
           /\ DOMAIN list_delete(l, s[i]).node = DOMAIN l.node
           /\ \A m \in DOMAIN l.node : list_delete(l, s[i]).node[m].value = l.node[m].value
<1> DEFINE n == s[i]
           k == list_delete(l, n)
           t == RemoveAt(s, i)
           before == l.node[n].prev
           after == l.node[n].next
           L == Len(s)
<1>1. /\ l \in ListTypes /\ s \in Chains /\ IsFiniteSet(DOMAIN l.node)
      /\ \A j \in 1..L : s[j] \in DOMAIN l.node
      /\ l.length = L /\ l.head = First(s) /\ l.tail = Final(s)
      /\ \A j \in 1..L : l.node[s[j]].next = IF j = L THEN NIL ELSE s[j + 1]
      /\ \A j \in 1..L : l.node[s[j]].prev = IF j = 1 THEN NIL ELSE s[j - 1]
  BY DEF Linked, GoesOn, GoesBack
<1>2. /\ s \in Seq(Blocks) /\ L \in Nat /\ (s = <<>> <=> L = 0)
      /\ \A j \in 1..L : s[j] \in Blocks /\ s[j] # NIL
      /\ \A j, m \in 1..L : s[j] = s[m] => j = m
  BY <1>1, ChainFacts DEF Blocks, NIL
<1>3. /\ t \in Seq(Blocks) /\ Len(t) = L - 1
      /\ \A j \in 1..(L - 1) : t[j] = IF j < i THEN s[j] ELSE s[j + 1]
  BY <1>2, RemoveAtFacts
<1>4. /\ before = (IF i = 1 THEN NIL ELSE s[i - 1]) /\ after = (IF i = L THEN NIL ELSE s[i + 1])
      /\ n \in DOMAIN l.node /\ l.length # 0 /\ L \in Nat \ {0}
      /\ l.node[n].prev = l.node[n].next => l.node[n].prev = NIL
  <2>1. L \in Nat \ {0} /\ i \in 1..L /\ n \in DOMAIN l.node /\ l.length # 0
    BY <1>1, <1>2
  <2>2. /\ before = (IF i = 1 THEN NIL ELSE s[i - 1]) /\ after = (IF i = L THEN NIL ELSE s[i + 1])
    BY <1>1, <2>1
  <2>3. before = after => before = NIL
    BY <1>2, <2>1, <2>2
  <2> QED
    BY <2>1, <2>2, <2>3
<1>5. /\ k \in ListTypes /\ DOMAIN k.node = DOMAIN l.node
      /\ k.head = (IF l.head = n THEN after ELSE l.head)
      /\ k.tail = (IF l.tail = n THEN before ELSE l.tail)
      /\ k.length = l.length - 1
      /\ \A m \in DOMAIN l.node :
            /\ k.node[m].value = l.node[m].value
            /\ k.node[m].next = (IF m = before THEN after ELSE l.node[m].next)
            /\ k.node[m].prev = (IF m # before /\ m = after THEN before ELSE l.node[m].prev)
  <2>1. l \in ListTypes
    BY <1>1
  <2> QED
    BY <1>4, <2>1, DeleteFields
<1> HIDE DEF k, t, before, after, L
<1>6. ASSUME NEW j \in 1..(L - 1)
      PROVE  /\ j \in 1..L /\ j + 1 \in 1..L /\ t[j] = (IF j < i THEN s[j] ELSE s[j + 1])
             /\ t[j] \in DOMAIN l.node
  <2>1. j \in 1..L /\ j + 1 \in 1..L
    BY <1>4
  <2> QED
    BY <1>1, <1>3, <2>1
<1>7. t \in Chains
  <2>1. ASSUME NEW a \in 1..(L - 1), NEW b \in 1..(L - 1), t[a] = t[b] PROVE a = b
    <3> DEFINE p == IF a < i THEN a ELSE a + 1
               q == IF b < i THEN b ELSE b + 1
    <3>1. t[a] = s[p] /\ p \in 1..L /\ t[b] = s[q] /\ q \in 1..L
      BY <1>6
    <3>2. p = q
      BY <1>2, <2>1, <3>1
    <3>3. a \in Int /\ b \in Int /\ i \in Int
      BY <1>4 DEF L
    <3> QED
      BY <3>2, <3>3
  <2>2. DOMAIN t = 1..(L - 1)
    BY <1>3
  <2> QED
    BY <1>3, <2>1, <2>2 DEF Chains, IsInjective
<1>8. i \in 1..L /\ i \in Int
  BY <1>4 DEF L
<1>9. k.length = Len(t) /\ k.head = First(t) /\ k.tail = Final(t)
  <2>1. l.head = s[1] /\ l.tail = s[L]
    BY <1>1, <1>2, <1>4 DEF First, Final, L
  <2>2. (l.head = n <=> i = 1) /\ (l.tail = n <=> i = L)
    BY <1>2, <1>4, <1>8, <2>1
  <2>3. CASE L = 1
    <3>1. i = 1 /\ Len(t) = 0 /\ t = <<>>
      BY <1>3, <1>8, <2>3
    <3> QED
      BY <1>1, <1>4, <1>5, <2>2, <2>3, <3>1 DEF First, Final
  <2>4. CASE L # 1
    <3>1. t # <<>> /\ Len(t) = L - 1 /\ 1 \in 1..(L - 1) /\ L - 1 \in 1..(L - 1)
      BY <1>3, <1>4, <2>4
    <3>2. First(t) = t[1] /\ Final(t) = t[L - 1]
      BY <3>1 DEF First, Final
    <3>3. t[1] = (IF 1 < i THEN s[1] ELSE s[1 + 1])
      BY <1>3, <3>1
    <3>4. t[L - 1] = (IF L - 1 < i THEN s[L - 1] ELSE s[L - 1 + 1])
      BY <1>3, <3>1
    <3>5. k.head = First(t)
      BY <1>4, <1>5, <1>8, <2>1, <2>2, <2>4, <3>2, <3>3
    <3>6. k.tail = Final(t)
      BY <1>4, <1>5, <1>8, <2>1, <2>2, <2>4, <3>2, <3>4
    <3> QED
      BY <1>1, <1>5, <3>1, <3>5, <3>6
  <2> QED
    BY <2>3, <2>4
<1>10. ASSUME NEW j \in 1..(L - 1)
       PROVE  k.node[t[j]].next = IF j = L - 1 THEN NIL ELSE t[j + 1]
  <2>1. j \in Int /\ L \in Int
    BY <1>4
  <2>2. CASE j < i - 1
    <3>1. t[j] = s[j] /\ t[j + 1] = s[j + 1] /\ j # L - 1 /\ j # L /\ j # i - 1
      BY <1>3, <1>6, <1>8, <2>1, <2>2
    <3>2. s[j] # before
      BY <1>2, <1>4, <1>6, <1>8, <2>1, <2>2
    <3>3. k.node[s[j]].next = l.node[s[j]].next
      BY <1>5, <1>6, <3>1, <3>2
    <3>4. l.node[s[j]].next = s[j + 1]
      BY <1>1, <1>6, <3>1
    <3> QED
      BY <3>1, <3>3, <3>4
  <2>3. CASE j = i - 1
    <3>1. t[j] = s[j] /\ before = s[j]
      BY <1>4, <1>6, <1>8, <2>1, <2>3
    <3>2. k.node[t[j]].next = after
      BY <1>5, <1>6, <3>1
    <3>3. j # L - 1 => t[j + 1] = s[j + 2] /\ after = s[j + 2]
      <4>1. CASE j # L - 1
        <5>1. j + 1 \in 1..(L - 1) /\ ~(j + 1 < i) /\ i # L /\ i + 1 = j + 2 /\ j + 1 + 1 = j + 2
          BY <1>8, <2>1, <2>3, <4>1
        <5>2. t[j + 1] = s[j + 1 + 1]
          BY <1>3, <5>1
        <5>3. after = s[i + 1]
          BY <1>4, <5>1
        <5> QED
          BY <5>1, <5>2, <5>3
      <4> QED
        BY <4>1
    <3>4. j = L - 1 => after = NIL
      BY <1>4, <1>8, <2>1, <2>3
    <3> QED
      BY <3>2, <3>3, <3>4
  <2>4. CASE j > i - 1
    <3>1. t[j] = s[j + 1] /\ (j # L - 1 => t[j + 1] = s[j + 2])
      BY <1>3, <1>6, <1>8, <2>1, <2>4
    <3>2. s[j + 1] # before
      BY <1>2, <1>4, <1>6, <1>8, <2>1, <2>4
    <3>3. k.node[s[j + 1]].next = l.node[s[j + 1]].next
      BY <1>5, <1>6, <3>1, <3>2
    <3>4. l.node[s[j + 1]].next = (IF j + 1 = L THEN NIL ELSE s[j + 2])
      BY <1>1, <1>6, <2>1
    <3> QED
      BY <2>1, <3>1, <3>3, <3>4
  <2> QED
    BY <1>8, <2>1, <2>2, <2>3, <2>4
<1>11. ASSUME NEW j \in 1..(L - 1)
       PROVE  k.node[t[j]].prev = IF j = 1 THEN NIL ELSE t[j - 1]
  <2>1. j \in Int /\ L \in Int
    BY <1>4
  <2>2. CASE j < i
    <3>1. t[j] = s[j] /\ (j # 1 => t[j - 1] = s[j - 1])
      BY <1>3, <1>6, <1>8, <2>1, <2>2
    <3>2. s[j] # after
      BY <1>2, <1>4, <1>6, <1>8, <2>1, <2>2
    <3>3. k.node[s[j]].prev = l.node[s[j]].prev
      BY <1>5, <1>6, <3>1, <3>2
    <3>4. l.node[s[j]].prev = (IF j = 1 THEN NIL ELSE s[j - 1])
      BY <1>1, <1>6
    <3> QED
      BY <3>1, <3>3, <3>4
  <2>3. CASE j = i
    <3>1. t[j] = s[j + 1] /\ after = s[j + 1]
      BY <1>4, <1>6, <1>8, <2>1, <2>3
    <3>2. s[j + 1] # before
      BY <1>2, <1>4, <1>6, <1>8, <2>1, <2>3
    <3>3. k.node[t[j]].prev = before
      BY <1>5, <1>6, <3>1, <3>2
    <3>4. j # 1 => t[j - 1] = s[j - 1] /\ before = s[j - 1]
      BY <1>3, <1>4, <1>8, <2>1, <2>3
    <3>5. j = 1 => before = NIL
      BY <1>4, <2>3
    <3> QED
      BY <3>3, <3>4, <3>5
  <2>4. CASE j > i
    <3>1. t[j] = s[j + 1] /\ t[j - 1] = s[j] /\ j # 1
      <4>1. j - 1 \in 1..(L - 1) /\ ~(j - 1 < i) /\ j - 1 + 1 = j
        BY <1>8, <2>1, <2>4
      <4>2. t[j - 1] = s[j - 1 + 1]
        BY <1>3, <4>1
      <4> QED
        BY <1>6, <1>8, <2>1, <2>4, <4>1, <4>2
    <3>2. s[j + 1] # after
      BY <1>2, <1>4, <1>6, <1>8, <2>1, <2>4
    <3>3. k.node[s[j + 1]].prev = l.node[s[j + 1]].prev
      BY <1>5, <1>6, <3>1, <3>2
    <3>4. l.node[s[j + 1]].prev = s[j]
      <4>1. j + 1 \in 1..L /\ j + 1 # 1 /\ j + 1 - 1 = j
        BY <1>6, <2>1
      <4> QED
        BY <1>1, <4>1
    <3> QED
      BY <3>1, <3>3, <3>4
  <2> QED
    BY <1>8, <2>1, <2>2, <2>3, <2>4
<1>12. Linked(k, t)
  <2>1. IsFiniteSet(DOMAIN k.node) /\ \A j \in 1..Len(t) : t[j] \in DOMAIN k.node
    BY <1>1, <1>3, <1>5, <1>6
  <2> QED
    BY <1>3, <1>5, <1>7, <1>9, <1>10, <1>11, <2>1 DEF Linked, GoesOn, GoesBack
<1> QED
  BY <1>5, <1>12 DEF k, t
-----------------------------------------------------------------------------
(* Going through a list, forwards and backwards *)

LEMMA GoesOnFacts ==
    ASSUME NEW l, NEW s, GoesOn(l, s)
    PROVE  /\ l \in ListTypes /\ s \in Chains /\ IsFiniteSet(DOMAIN l.node)
           /\ s \in Seq(Blocks) /\ Len(s) \in Nat /\ (s = <<>> <=> Len(s) = 0)
           /\ DOMAIN s = 1..Len(s)
           /\ \A i \in 1..Len(s) : s[i] \in DOMAIN l.node /\ s[i] \in Blocks /\ s[i] # NIL
           /\ \A i, j \in 1..Len(s) : s[i] = s[j] => i = j
           /\ l.length = Len(s) /\ l.head = First(s) /\ l.tail = Final(s)
           /\ \A i \in 1..Len(s) : l.node[s[i]].next = IF i = Len(s) THEN NIL ELSE s[i + 1]
BY ChainFacts DEF GoesOn, Blocks, NIL

\* foreach visits the nodes of the sequence, in order.
LEMMA ForeachIs ==
    ASSUME NEW l, NEW s, GoesOn(l, s)
    PROVE  foreach(l) = s
<1> DEFINE succ == [n \in DOMAIN l.node |-> l.node[n].next]
<1>1. /\ l \in ListTypes /\ s \in Chains /\ IsFiniteSet(DOMAIN l.node)
      /\ \A i \in 1..Len(s) : s[i] \in DOMAIN l.node
      /\ l.length = Len(s) /\ l.head = First(s) /\ l.tail = Final(s)
      /\ \A i \in 1..Len(s) : l.node[s[i]].next = IF i = Len(s) THEN NIL ELSE s[i + 1]
  BY GoesOnFacts
<1>2. DOMAIN succ = DOMAIN l.node /\ \A i \in 1..Len(s) : succ[s[i]] = l.node[s[i]].next
  BY <1>1
<1>3. foreach(l) = Follow(l.head, succ)
  BY DEF foreach
<1> HIDE DEF succ
<1> QED
  BY <1>1, <1>2, <1>3, FollowIs

LEMMA ReverseFacts ==
    ASSUME NEW s \in Chains
    PROVE  /\ Reverse(s) \in Chains /\ Len(Reverse(s)) = Len(s)
           /\ \A i \in 1..Len(s) : Reverse(s)[i] = s[(Len(s) - i) + 1]
<1>1. /\ s \in Seq(Blocks) /\ Len(s) \in Nat /\ \A i \in 1..Len(s) : s[i] \in Blocks
      /\ \A i, j \in 1..Len(s) : s[i] = s[j] => i = j
  BY ChainFacts
<1>2. \A i \in 1..Len(s) : (Len(s) - i) + 1 \in 1..Len(s)
  BY <1>1
<1>3. /\ Reverse(s) \in Seq(Blocks) /\ Len(Reverse(s)) = Len(s) /\ DOMAIN Reverse(s) = 1..Len(s)
      /\ \A i \in 1..Len(s) : Reverse(s)[i] = s[(Len(s) - i) + 1]
  BY <1>1, <1>2 DEF Reverse
<1>4. ASSUME NEW i \in 1..Len(s), NEW j \in 1..Len(s), Reverse(s)[i] = Reverse(s)[j]
      PROVE  i = j
  <2>1. (Len(s) - i) + 1 = (Len(s) - j) + 1
    BY <1>1, <1>2, <1>3, <1>4
  <2> QED
    BY <1>1, <2>1
<1> QED
  BY <1>3, <1>4 DEF Chains, IsInjective

\* Backwards visits them in reverse.
LEMMA BackwardsIs ==
    ASSUME NEW l, NEW s, Linked(l, s)
    PROVE  Backwards(l) = Reverse(s)
<1> DEFINE pred == [n \in DOMAIN l.node |-> l.node[n].prev]
           r == Reverse(s)
<1>1. /\ l \in ListTypes /\ s \in Chains /\ IsFiniteSet(DOMAIN l.node)
      /\ \A i \in 1..Len(s) : s[i] \in DOMAIN l.node
      /\ l.tail = Final(s) /\ Len(s) \in Nat /\ (s = <<>> <=> Len(s) = 0)
      /\ \A i \in 1..Len(s) : l.node[s[i]].prev = IF i = 1 THEN NIL ELSE s[i - 1]
  BY GoesOnFacts DEF Linked, GoesBack
<1>2. DOMAIN pred = DOMAIN l.node /\ \A i \in 1..Len(s) : pred[s[i]] = l.node[s[i]].prev
  BY <1>1
<1>3. Backwards(l) = Follow(l.tail, pred)
  BY DEF Backwards
<1>4. r \in Chains /\ Len(r) = Len(s) /\ \A i \in 1..Len(s) : r[i] = s[(Len(s) - i) + 1]
  BY <1>1, ReverseFacts
<1> HIDE DEF pred, r
<1>5. l.tail = First(r)
  <2>1. r = <<>> <=> s = <<>>
    BY <1>1, <1>4, ChainFacts
  <2>2. s # <<>> => r[1] = s[Len(s)]
    BY <1>1, <1>4
  <2> QED
    BY <1>1, <2>1, <2>2 DEF First, Final
<1>6. ASSUME NEW i \in 1..Len(r)
      PROVE  r[i] \in DOMAIN pred /\ pred[r[i]] = IF i = Len(r) THEN NIL ELSE r[i + 1]
  <2>1. (Len(s) - i) + 1 \in 1..Len(s) /\ i \in 1..Len(s)
    BY <1>1, <1>4
  <2>2. pred[r[i]] = IF (Len(s) - i) + 1 = 1 THEN NIL ELSE s[((Len(s) - i) + 1) - 1]
    BY <1>1, <1>2, <1>4, <2>1
  <2>3. r[i] \in DOMAIN pred
    BY <1>1, <1>2, <1>4, <2>1
  <2>4. i # Len(r) => r[i + 1] = s[((Len(s) - i) + 1) - 1]
    <3>1. i # Len(r) => i + 1 \in 1..Len(s) /\ (Len(s) - (i + 1)) + 1 = ((Len(s) - i) + 1) - 1
      BY <1>1, <1>4
    <3> QED
      BY <1>4, <3>1
  <2>5. (Len(s) - i) + 1 = 1 <=> i = Len(r)
    BY <1>1, <1>4
  <2> QED
    BY <2>2, <2>3, <2>4, <2>5
<1> QED
  BY <1>1, <1>2, <1>3, <1>4, <1>5, <1>6, FollowIs DEF r

LEMMA GoesOnSound ==
    ASSUME NEW l, NEW s, GoesOn(l, s)
    PROVE  ForwardSound(l)
<1>1. foreach(l) = s
  BY ForeachIs
<1>2. /\ l.length = Len(s) /\ IsInjective(s) /\ Len(s) \in Nat /\ (s = <<>> <=> Len(s) = 0)
      /\ \A i \in 1..Len(s) : l.node[s[i]].next = IF i = Len(s) THEN NIL ELSE s[i + 1]
      /\ l.tail = Final(s)
  BY GoesOnFacts DEF Chains
<1>3. ASSUME l.length > 0 PROVE l.node[Last(s)].next = NIL /\ l.tail = Last(s)
  <2>1. Len(s) \in 1..Len(s) /\ s # <<>>
    BY <1>2, <1>3
  <2>2. l.node[s[Len(s)]].next = NIL
    BY <1>2, <2>1
  <2> QED
    BY <1>2, <2>1, <2>2 DEF Last, Final
<1> QED
  BY <1>1, <1>2, <1>3 DEF ForwardSound

LEMMA LinkedSound ==
    ASSUME NEW l, NEW s, Linked(l, s)
    PROVE  ListSound(l)
<1>1. foreach(l) = s /\ Backwards(l) = Reverse(s) /\ ForwardSound(l)
  BY ForeachIs, BackwardsIs, GoesOnSound DEF Linked
<1>2. ASSUME l.length > 0 PROVE l.node[l.head].prev = NIL
  <2>1. l.head = s[1] /\ 1 \in 1..Len(s)
    BY <1>2, GoesOnFacts DEF Linked, First
  <2> QED
    BY <2>1 DEF Linked, GoesBack
<1> QED
  BY <1>1, <1>2 DEF ListSound

\* The values of a list.
LEMMA ValuesAre ==
    ASSUME NEW l, NEW s, GoesOn(l, s)
    PROVE  /\ Values(l) \in Seq(Nat) /\ Len(Values(l)) = Len(s)
           /\ Values(l) = [i \in 1..Len(s) |-> l.node[s[i]].value]
           /\ \A i \in 1..Len(s) : Values(l)[i] = l.node[s[i]].value
<1>1. foreach(l) = s /\ DOMAIN s = 1..Len(s) /\ Len(s) \in Nat
  BY ForeachIs, GoesOnFacts
<1>2. Values(l) = [i \in 1..Len(s) |-> l.node[s[i]].value]
  BY <1>1 DEF Values
<1>3. \A i \in 1..Len(s) : l.node[s[i]].value \in Nat
  BY GoesOnFacts, ListFacts DEF NodeTypes
<1> QED
  BY <1>1, <1>2, <1>3
-----------------------------------------------------------------------------
(* list_merge *)

\* Two sequences with nothing in common, one behind the other.
LEMMA ConcatFacts ==
    ASSUME NEW s \in Chains, NEW t \in Chains,
           \A i \in 1..Len(s), j \in 1..Len(t) : s[i] # t[j]
    PROVE  /\ s \o t \in Chains /\ Len(s \o t) = Len(s) + Len(t)
           /\ \A i \in 1..(Len(s) + Len(t)) :
                  (s \o t)[i] = IF i <= Len(s) THEN s[i] ELSE t[i - Len(s)]
<1>1. /\ s \in Seq(Blocks) /\ Len(s) \in Nat /\ \A i \in 1..Len(s) : s[i] \in Blocks
      /\ \A i, j \in 1..Len(s) : s[i] = s[j] => i = j
  BY ChainFacts
<1>2. /\ t \in Seq(Blocks) /\ Len(t) \in Nat /\ \A i \in 1..Len(t) : t[i] \in Blocks
      /\ \A i, j \in 1..Len(t) : t[i] = t[j] => i = j
  BY ChainFacts
<1>3. /\ s \o t \in Seq(Blocks) /\ Len(s \o t) = Len(s) + Len(t)
      /\ DOMAIN (s \o t) = 1..(Len(s) + Len(t))
      /\ \A i \in 1..(Len(s) + Len(t)) :
             (s \o t)[i] = IF i <= Len(s) THEN s[i] ELSE t[i - Len(s)]
  BY <1>1, <1>2
<1>4. ASSUME NEW i \in 1..(Len(s) + Len(t)), NEW j \in 1..(Len(s) + Len(t)),
             (s \o t)[i] = (s \o t)[j]
      PROVE  i = j
  <2>1. CASE i <= Len(s) /\ j <= Len(s)
    BY <1>1, <1>3, <1>4, <2>1
  <2>2. CASE ~(i <= Len(s)) /\ ~(j <= Len(s))
    <3>1. i - Len(s) \in 1..Len(t) /\ j - Len(s) \in 1..Len(t)
      BY <1>1, <1>2, <2>2
    <3>2. t[i - Len(s)] = t[j - Len(s)]
      BY <1>3, <1>4, <2>2
    <3>3. i - Len(s) = j - Len(s)
      BY <1>2, <3>1, <3>2
    <3> QED
      BY <1>1, <3>3
  <2>3. CASE i <= Len(s) /\ ~(j <= Len(s))
    <3>1. i \in 1..Len(s) /\ j - Len(s) \in 1..Len(t)
      BY <1>1, <1>2, <2>3
    <3> QED
      BY <1>3, <1>4, <2>3, <3>1
  <2>4. CASE ~(i <= Len(s)) /\ j <= Len(s)
    <3>1. j \in 1..Len(s) /\ i - Len(s) \in 1..Len(t)
      BY <1>1, <1>2, <2>4
    <3> QED
      BY <1>3, <1>4, <2>4, <3>1
  <2> QED
    BY <2>1, <2>2, <2>3, <2>4
<1> QED
  BY <1>3, <1>4 DEF Chains, IsInjective

LEMMA MergeFields ==
    ASSUME NEW l \in ListTypes, NEW o \in ListTypes, DOMAIN l.node \intersect DOMAIN o.node = {},
           l.tail # NIL => l.tail \in DOMAIN l.node
    PROVE  LET both == list_merge(l, o) IN
           /\ both \in ListTypes /\ DOMAIN both.node = DOMAIN l.node \union DOMAIN o.node
           /\ both.head = (IF l.tail # NIL THEN l.head ELSE o.head)
           /\ both.tail = (IF o.tail # NIL THEN o.tail ELSE l.tail)
           /\ both.length = l.length + o.length
           /\ \A m \in DOMAIN l.node :
                  /\ both.node[m].value = l.node[m].value
                  /\ both.node[m].next = IF m = l.tail THEN o.head ELSE l.node[m].next
           /\ \A m \in DOMAIN o.node : both.node[m] = o.node[m]
<1> DEFINE D == DOMAIN l.node \union DOMAIN o.node
           f == [n \in D |-> IF n \in DOMAIN l.node THEN l.node[n] ELSE o.node[n]]
           g == [f EXCEPT ![l.tail].next = o.head]
           h == IF l.tail # NIL THEN g ELSE f
           both == list_merge(l, o)
<1>1. /\ l.head \in Nat /\ l.tail \in Nat /\ l.length \in Nat
      /\ DOMAIN l.node \subseteq Blocks /\ \A n \in DOMAIN l.node : l.node[n] \in NodeTypes
  BY ListFacts
<1>2. /\ o.head \in Nat /\ o.tail \in Nat /\ o.length \in Nat
      /\ DOMAIN o.node \subseteq Blocks /\ \A n \in DOMAIN o.node : o.node[n] \in NodeTypes
  BY ListFacts
<1>3. both = [head |-> IF l.tail # NIL THEN l.head ELSE o.head,
              tail |-> IF o.tail # NIL THEN o.tail ELSE l.tail,
              length |-> l.length + o.length, node |-> h]
  BY DEF list_merge
<1>4. f \in [D -> NodeTypes] /\ \A n \in D : f[n] = IF n \in DOMAIN l.node THEN l.node[n] ELSE o.node[n]
  BY <1>1, <1>2
<1> HIDE DEF f
<1>5. ASSUME l.tail # NIL
      PROVE  /\ g \in [D -> NodeTypes]
             /\ \A n \in D : n # l.tail => g[n] = f[n]
             /\ g[l.tail].value = f[l.tail].value /\ g[l.tail].next = o.head
  <2>1. l.tail \in D /\ f[l.tail] \in NodeTypes
    BY <1>4, <1>5
  <2>2. [f[l.tail] EXCEPT !.next = o.head] \in NodeTypes
    BY <1>2, <2>1 DEF NodeTypes
  <2>3. /\ DOMAIN g = D /\ g[l.tail] = [f[l.tail] EXCEPT !.next = o.head]
        /\ \A n \in D : n # l.tail => g[n] = f[n]
        /\ g = [n \in D |-> g[n]]
    BY <1>4, <2>1
  <2>4. /\ [f[l.tail] EXCEPT !.next = o.head].value = f[l.tail].value
        /\ [f[l.tail] EXCEPT !.next = o.head].next = o.head
    BY <2>1 DEF NodeTypes
  <2> HIDE DEF g
  <2>5. \A n \in D : g[n] \in NodeTypes
    BY <1>4, <2>2, <2>3
  <2> QED
    BY <2>3, <2>4, <2>5
<1> HIDE DEF g
<1>6. h \in [D -> NodeTypes]
  BY <1>4, <1>5
<1>7. h \in NodeMaps /\ DOMAIN h = D
  BY <1>1, <1>2, <1>6, MapIn
<1>8. \A m \in DOMAIN l.node :
          /\ h[m].value = l.node[m].value
          /\ h[m].next = IF m = l.tail THEN o.head ELSE l.node[m].next
  <2> SUFFICES ASSUME NEW m \in DOMAIN l.node
               PROVE  /\ h[m].value = l.node[m].value
                      /\ h[m].next = IF m = l.tail THEN o.head ELSE l.node[m].next
    OBVIOUS
  <2>1. m \in D /\ f[m] = l.node[m] /\ m # NIL
    BY <1>1, <1>4 DEF Blocks, NIL
  <2>2. CASE l.tail # NIL /\ m = l.tail
    BY <1>5, <2>1, <2>2
  <2>3. CASE l.tail # NIL /\ m # l.tail
    BY <1>5, <2>1, <2>3
  <2>4. CASE l.tail = NIL
    BY <2>1, <2>4
  <2> QED
    BY <2>2, <2>3, <2>4
<1>9. \A m \in DOMAIN o.node : h[m] = o.node[m]
  <2> SUFFICES ASSUME NEW m \in DOMAIN o.node PROVE h[m] = o.node[m]
    OBVIOUS
  <2>1. m \in D /\ m \notin DOMAIN l.node /\ f[m] = o.node[m]
    BY <1>4
  <2>2. CASE l.tail # NIL
    BY <1>5, <2>1, <2>2
  <2>3. CASE l.tail = NIL
    BY <2>1, <2>3
  <2> QED
    BY <2>2, <2>3
<1> HIDE DEF h
<1>10. both \in ListTypes
  BY <1>1, <1>2, <1>3, <1>7 DEF ListTypes
<1> QED
  BY <1>3, <1>7, <1>8, <1>9, <1>10

\* list_merge puts the nodes of the source behind those of the target.
LEMMA MergeGoesOn ==
    ASSUME NEW l, NEW s, GoesOn(l, s), NEW o, NEW t, GoesOn(o, t),
           DOMAIN l.node \intersect DOMAIN o.node = {}
    PROVE  /\ GoesOn(list_merge(l, o), s \o t)
           /\ \A m \in DOMAIN l.node : list_merge(l, o).node[m].value = l.node[m].value
           /\ \A m \in DOMAIN o.node : list_merge(l, o).node[m].value = o.node[m].value
<1> DEFINE both == list_merge(l, o)
           u == s \o t
<1>1. /\ l \in ListTypes /\ s \in Chains /\ IsFiniteSet(DOMAIN l.node)
      /\ Len(s) \in Nat /\ (s = <<>> <=> Len(s) = 0)
      /\ \A i \in 1..Len(s) : s[i] \in DOMAIN l.node /\ s[i] # NIL
      /\ \A i, j \in 1..Len(s) : s[i] = s[j] => i = j
      /\ l.length = Len(s) /\ l.head = First(s) /\ l.tail = Final(s)
      /\ \A i \in 1..Len(s) : l.node[s[i]].next = IF i = Len(s) THEN NIL ELSE s[i + 1]
  BY GoesOnFacts
<1>2. /\ o \in ListTypes /\ t \in Chains /\ IsFiniteSet(DOMAIN o.node)
      /\ Len(t) \in Nat /\ (t = <<>> <=> Len(t) = 0)
      /\ \A i \in 1..Len(t) : t[i] \in DOMAIN o.node /\ t[i] # NIL
      /\ o.length = Len(t) /\ o.head = First(t) /\ o.tail = Final(t)
      /\ \A i \in 1..Len(t) : o.node[t[i]].next = IF i = Len(t) THEN NIL ELSE t[i + 1]
  BY GoesOnFacts
<1>3. /\ u \in Chains /\ Len(u) = Len(s) + Len(t)
      /\ \A i \in 1..(Len(s) + Len(t)) : u[i] = IF i <= Len(s) THEN s[i] ELSE t[i - Len(s)]
  <2>1. \A i \in 1..Len(s), j \in 1..Len(t) : s[i] # t[j]
    BY <1>1, <1>2
  <2> QED
    BY <1>1, <1>2, <2>1, ConcatFacts
<1>4. l.tail # NIL => l.tail \in DOMAIN l.node
  BY <1>1 DEF Final
<1>5. /\ both \in ListTypes /\ DOMAIN both.node = DOMAIN l.node \union DOMAIN o.node
      /\ both.head = (IF l.tail # NIL THEN l.head ELSE o.head)
      /\ both.tail = (IF o.tail # NIL THEN o.tail ELSE l.tail)
      /\ both.length = l.length + o.length
      /\ \A m \in DOMAIN l.node :
             /\ both.node[m].value = l.node[m].value
             /\ both.node[m].next = IF m = l.tail THEN o.head ELSE l.node[m].next
      /\ \A m \in DOMAIN o.node : both.node[m] = o.node[m]
  <2>1. l \in ListTypes /\ o \in ListTypes
    BY <1>1, <1>2
  <2> QED
    BY <1>4, <2>1, MergeFields
<1> HIDE DEF both, u
<1>6. (l.tail # NIL <=> Len(s) # 0) /\ (o.tail # NIL <=> Len(t) # 0)
  BY <1>1, <1>2 DEF Final
<1>7. u = <<>> <=> Len(s) + Len(t) = 0
  BY <1>1, <1>2, <1>3, ChainFacts
<1>8. both.head = First(u)
  BY <1>1, <1>2, <1>3, <1>5, <1>6, <1>7 DEF First
<1>9. both.tail = Final(u)
  <2>1. CASE Len(t) # 0
    <3>1. u[Len(u)] = t[Len(t)]
      BY <1>1, <1>2, <1>3, <2>1
    <3> QED
      BY <1>1, <1>2, <1>5, <1>6, <1>7, <2>1, <3>1 DEF Final
  <2>2. CASE Len(t) = 0
    <3>1. Len(u) = Len(s) /\ (Len(s) # 0 => u[Len(u)] = s[Len(s)])
      BY <1>1, <1>2, <1>3, <2>2
    <3> QED
      BY <1>1, <1>2, <1>5, <1>6, <1>7, <2>2, <3>1 DEF Final
  <2> QED
    BY <2>1, <2>2
<1>10. ASSUME NEW i \in 1..Len(u)
       PROVE  u[i] \in DOMAIN both.node
  <2>1. CASE i <= Len(s)
    BY <1>1, <1>3, <1>5, <2>1
  <2>2. CASE ~(i <= Len(s))
    <3>1. i - Len(s) \in 1..Len(t)
      BY <1>1, <1>2, <1>3, <2>2
    <3> QED
      BY <1>2, <1>3, <1>5, <2>2, <3>1
  <2> QED
    BY <2>1, <2>2
<1>11. ASSUME NEW i \in 1..Len(u)
       PROVE  both.node[u[i]].next = IF i = Len(u) THEN NIL ELSE u[i + 1]
  <2>1. CASE i < Len(s)
    <3>1. i \in 1..Len(s) /\ i + 1 \in 1..Len(u) /\ i + 1 <= Len(s) /\ Len(s) \in 1..Len(s)
      BY <1>1, <1>2, <1>3, <2>1
    <3>2. s[i] # l.tail
      BY <1>1, <2>1, <3>1 DEF Final
    <3>3. u[i] = s[i] /\ u[i + 1] = s[i + 1]
      BY <1>3, <3>1
    <3>4. both.node[u[i]].next = l.node[s[i]].next
      BY <1>1, <1>5, <3>1, <3>2, <3>3
    <3> QED
      BY <1>1, <1>2, <1>3, <2>1, <3>1, <3>3, <3>4
  <2>2. CASE i = Len(s)
    <3>1. u[i] = s[i] /\ s[i] = l.tail /\ s[i] \in DOMAIN l.node
      BY <1>1, <1>3, <2>2 DEF Final
    <3>2. both.node[u[i]].next = o.head
      BY <1>5, <3>1
    <3>3. CASE Len(t) = 0
      BY <1>1, <1>2, <1>3, <2>2, <3>2, <3>3 DEF First
    <3>4. CASE Len(t) # 0
      <4>1. i + 1 \in 1..Len(u) /\ ~(i + 1 <= Len(s)) /\ (i + 1) - Len(s) = 1 /\ i # Len(u)
        BY <1>1, <1>2, <1>3, <2>2, <3>4
      <4>2. u[i + 1] = t[1]
        BY <1>3, <4>1
      <4> QED
        BY <1>2, <3>2, <3>4, <4>1, <4>2 DEF First
    <3> QED
      BY <3>3, <3>4
  <2>3. CASE i > Len(s)
    <3>1. i - Len(s) \in 1..Len(t) /\ ~(i <= Len(s)) /\ (i = Len(u) <=> i - Len(s) = Len(t))
      BY <1>1, <1>2, <1>3, <2>3
    <3>2. u[i] = t[i - Len(s)] /\ t[i - Len(s)] \in DOMAIN o.node
      BY <1>2, <1>3, <3>1
    <3>3. both.node[u[i]].next = IF i - Len(s) = Len(t) THEN NIL ELSE t[(i - Len(s)) + 1]
      <4>1. both.node[u[i]] = o.node[t[i - Len(s)]]
        BY <1>5, <3>2
      <4>2. PICK j \in 1..Len(t) : j = i - Len(s)
        BY <3>1
      <4>3. o.node[t[j]].next = IF j = Len(t) THEN NIL ELSE t[j + 1]
        BY <1>2
      <4> QED
        BY <4>1, <4>2, <4>3
    <3>4. ASSUME i # Len(u) PROVE u[i + 1] = t[(i - Len(s)) + 1]
      <4>1. i + 1 \in 1..(Len(s) + Len(t)) /\ ~(i + 1 <= Len(s)) /\ (i + 1) - Len(s) = (i - Len(s)) + 1
        BY <1>1, <1>2, <1>3, <2>3, <3>4
      <4> QED
        BY <1>3, <4>1
    <3>5. CASE i = Len(u)
      BY <3>1, <3>3, <3>5
    <3>6. CASE i # Len(u)
      BY <3>1, <3>3, <3>4, <3>6
    <3> QED
      BY <3>5, <3>6
  <2> QED
    BY <1>1, <1>2, <1>3, <2>1, <2>2, <2>3
<1>12. IsFiniteSet(DOMAIN both.node)
  <2>1. IsFiniteSet(DOMAIN l.node \union DOMAIN o.node)
    BY <1>1, <1>2, FS_Union
  <2> QED
    BY <1>5, <2>1
<1>13. GoesOn(both, u)
  BY <1>1, <1>2, <1>3, <1>5, <1>8, <1>9, <1>10, <1>11, <1>12 DEF GoesOn
<1> QED
  BY <1>5, <1>13 DEF both, u
-----------------------------------------------------------------------------
(* The operations of a list *)

\* The list that list_create returns.
LEMMA EmptyLinked == Linked(list_create, <<>>) /\ DOMAIN list_create.node = {}
<1>1. list_create = [head |-> 0, tail |-> 0, length |-> 0, node |-> <<>>]
  BY DEF list_create, NIL
<1>2. DOMAIN list_create.node = {} /\ list_create.node \in [{} -> NodeTypes]
  BY <1>1
<1>3. list_create.node \in NodeMaps
  BY <1>2, MapIn
<1>4. list_create \in ListTypes
  BY <1>1, <1>3 DEF ListTypes
<1>5. <<>> \in Chains /\ Len(<<>>) = 0
  BY DEF Chains, IsInjective
<1>6. IsFiniteSet(DOMAIN list_create.node)
  BY <1>2, FS_EmptySet
<1>7. list_create.head = First(<<>>) /\ list_create.tail = Final(<<>>) /\ list_create.length = 0
  BY <1>1 DEF First, Final, NIL
<1>8. \A i \in 1..Len(<<>>) : FALSE
  BY <1>5
<1> QED
  BY <1>2, <1>4, <1>5, <1>6, <1>7, <1>8 DEF Linked, GoesOn, GoesBack

\* list_find finds each value where it stands, if none comes twice.
LEMMA FindIs ==
    ASSUME NEW l, NEW s, GoesOn(l, s), NEW i \in 1..Len(s),
           \A j \in 1..Len(s) : l.node[s[j]].value = l.node[s[i]].value => j = i
    PROVE  list_find(l, l.node[s[i]].value) = s[i]
<1> DEFINE found == {j \in DOMAIN s : l.node[s[j]].value = l.node[s[i]].value}
<1>1. foreach(l) = s /\ DOMAIN s = 1..Len(s) /\ Len(s) \in Nat
  BY ForeachIs, GoesOnFacts
<1>2. found = {i}
  BY <1>1
<1>3. (CHOOSE k \in found : \A j \in found : k <= j) = i
  <2> HIDE DEF found
  <2> QED
    BY <1>2
<1>4. found # {}
  BY <1>2
<1>5. list_find(l, l.node[s[i]].value) =
          IF found = {} THEN NIL ELSE s[CHOOSE k \in found : \A j \in found : k <= j]
  BY <1>1 DEF list_find
<1> QED
  BY <1>3, <1>4, <1>5

LEMMA ConcatOne ==
    ASSUME NEW S, NEW a \in Seq(S), NEW b \in Seq(S), Len(b) = 1
    PROVE  /\ a \o b \in Seq(S) /\ Len(a \o b) = Len(a) + 1
           /\ \A i \in 1..Len(a) : (a \o b)[i] = a[i]
           /\ (a \o b)[Len(a) + 1] = b[1]
<1>1. /\ a \o b \in Seq(S) /\ Len(a \o b) = Len(a) + Len(b)
      /\ \A i \in 1..(Len(a) + Len(b)) : (a \o b)[i] = IF i <= Len(a) THEN a[i] ELSE b[i - Len(a)]
  BY ConcatProperties
<1>2. Len(a) \in Nat
  OBVIOUS
<1>3. PICK c : c = a \o b
  OBVIOUS
<1>4. PICK n \in Nat : n = Len(a)
  BY <1>2
<1>5. /\ c \in Seq(S) /\ Len(c) = n + 1
      /\ \A i \in 1..(n + 1) : c[i] = IF i <= n THEN a[i] ELSE b[i - n]
  BY <1>1, <1>3, <1>4
<1>6. (\A i \in 1..n : c[i] = a[i]) /\ c[n + 1] = b[1]
  <2>1. n + 1 \in 1..(n + 1) /\ ~(n + 1 <= n) /\ (n + 1) - n = 1
    OBVIOUS
  <2>2. \A i \in 1..n : i \in 1..(n + 1) /\ i <= n
    OBVIOUS
  <2> QED
    BY <1>5, <2>1, <2>2
<1> QED
  BY <1>3, <1>4, <1>5, <1>6

\* What a sound list promises of the operations, if no value comes twice in it.
LEMMA OperationsAreSound ==
    ASSUME NEW l, NEW s, Linked(l, s), NEW x \in Blocks \ DOMAIN l.node,
           \A i, j \in 1..Len(s) : l.node[s[i]].value = l.node[s[j]].value => i = j
    PROVE  OperationsSound(l, list_insert(list_create, x, NONE))
<1> DEFINE other == list_insert(list_create, x, NONE)
           one == Append(<<>>, x)
<1>1. /\ GoesOn(l, s) /\ l \in ListTypes /\ foreach(l) = s /\ DOMAIN s = 1..Len(s)
      /\ Len(s) \in Nat /\ l.length = Len(s) /\ s \in Seq(Blocks)
      /\ \A i \in 1..Len(s) : s[i] \in DOMAIN l.node
      /\ l.head = First(s) /\ (s = <<>> <=> Len(s) = 0)
  BY ForeachIs, GoesOnFacts DEF Linked
<1>2. /\ Values(l) \in Seq(Nat) /\ Len(Values(l)) = Len(s)
      /\ \A i \in 1..Len(s) : Values(l)[i] = l.node[s[i]].value
  BY <1>1, ValuesAre
<1>3. ASSUME NEW i \in 1..l.length
      PROVE  LET without == list_remove(l, i - 1) IN
             /\ ListSound(without) /\ Values(without) = RemoveAt(Values(l), i)
             /\ list_find(l, Values(l)[i]) = foreach(l)[i]
  <2> DEFINE k == list_delete(l, s[i])
             t == RemoveAt(s, i)
  <2>0. i \in 1..Len(s) /\ ~(i - 1 > l.length) /\ (i - 1) + 1 = i
    BY <1>1
  <2>1. list_remove(l, i - 1) = k
    BY <1>1, <2>0 DEF list_remove
  <2>2. /\ Linked(k, t) /\ \A m \in DOMAIN l.node : k.node[m].value = l.node[m].value
    BY <2>0, DeleteLinks
  <2> HIDE DEF k
  <2>3. ListSound(k)
    BY <2>2, LinkedSound
  <2>4. /\ t \in Seq(Blocks) /\ Len(t) = Len(s) - 1
        /\ \A j \in 1..(Len(s) - 1) : t[j] = IF j < i THEN s[j] ELSE s[j + 1]
    <3>1. s \in Seq(Blocks) /\ i \in 1..Len(s)
      BY <1>1, <2>0
    <3> QED
      BY <3>1, RemoveAtFacts
  <2>5. /\ RemoveAt(Values(l), i) \in Seq(Nat) /\ Len(RemoveAt(Values(l), i)) = Len(s) - 1
        /\ \A j \in 1..(Len(s) - 1) :
               RemoveAt(Values(l), i)[j] = IF j < i THEN Values(l)[j] ELSE Values(l)[j + 1]
    <3>1. PICK v \in Seq(Nat) : v = Values(l)
      BY <1>2
    <3>2. i \in 1..Len(v) /\ Len(v) = Len(s)
      BY <1>2, <2>0, <3>1
    <3>3. /\ RemoveAt(v, i) \in Seq(Nat) /\ Len(RemoveAt(v, i)) = Len(v) - 1
          /\ \A j \in 1..(Len(v) - 1) : RemoveAt(v, i)[j] = IF j < i THEN v[j] ELSE v[j + 1]
      BY <3>2, RemoveAtFacts
    <3> QED
      BY <3>1, <3>2, <3>3
  <2>6. /\ Values(k) \in Seq(Nat) /\ Len(Values(k)) = Len(t)
        /\ \A j \in 1..Len(t) : Values(k)[j] = k.node[t[j]].value
    BY <2>2, ValuesAre DEF Linked
  <2> HIDE DEF t
  <2>7. ASSUME NEW j \in 1..(Len(s) - 1) PROVE Values(k)[j] = RemoveAt(Values(l), i)[j]
    <3>1. j \in 1..Len(s) /\ j + 1 \in 1..Len(s) /\ j \in 1..Len(t)
      BY <1>1, <2>4
    <3>2. CASE j < i
      <4>1. t[j] = s[j] /\ RemoveAt(Values(l), i)[j] = Values(l)[j]
        BY <2>4, <2>5, <3>2
      <4>2. Values(k)[j] = k.node[s[j]].value
        BY <2>6, <3>1, <4>1
      <4> QED
        BY <1>1, <1>2, <2>2, <3>1, <4>1, <4>2
    <3>3. CASE ~(j < i)
      <4>1. t[j] = s[j + 1] /\ RemoveAt(Values(l), i)[j] = Values(l)[j + 1]
        BY <2>4, <2>5, <3>3
      <4>2. Values(k)[j] = k.node[s[j + 1]].value
        BY <2>6, <3>1, <4>1
      <4> QED
        BY <1>1, <1>2, <2>2, <3>1, <4>1, <4>2
    <3> QED
      BY <3>2, <3>3
  <2>8. Values(k) = RemoveAt(Values(l), i)
    <3>1. PICK a \in Seq(Nat) : a = Values(k)
      BY <2>6
    <3>2. PICK b \in Seq(Nat) : b = RemoveAt(Values(l), i)
      BY <2>5
    <3>3. Len(a) = Len(s) - 1 /\ Len(b) = Len(s) - 1
      BY <2>4, <2>5, <2>6, <3>1, <3>2
    <3>4. \A j \in 1..(Len(s) - 1) : a[j] = b[j]
      BY <2>7, <3>1, <3>2
    <3>5. a = b
      BY <3>3, <3>4, SeqEqual
    <3> QED
      BY <3>1, <3>2, <3>5
  <2>9. list_find(l, Values(l)[i]) = s[i]
    <3>1. Values(l)[i] = l.node[s[i]].value
      BY <1>2, <2>0
    <3>2. GoesOn(l, s) /\ \A j \in 1..Len(s) : l.node[s[j]].value = l.node[s[i]].value => j = i
      BY <1>1, <2>0
    <3>3. list_find(l, l.node[s[i]].value) = s[i]
      BY <2>0, <3>2, FindIs
    <3> QED
      BY <3>1, <3>3
  <2> QED
    BY <1>1, <2>1, <2>3, <2>8, <2>9
<1>4. ListSound(list_dequeue(l))
  <2>1. CASE l.head = NIL
    <3>1. list_dequeue(l) = l
      BY <2>1 DEF list_dequeue
    <3> QED
      BY <3>1, LinkedSound
  <2>2. CASE l.head # NIL
    <3>1. 1 \in 1..Len(s) /\ l.head = s[1]
      BY <1>1, <2>2 DEF First
    <3>2. list_dequeue(l) = list_delete(l, s[1])
      BY <2>2, <3>1 DEF list_dequeue
    <3>3. Linked(list_delete(l, s[1]), RemoveAt(s, 1))
      BY <3>1, DeleteLinks
    <3> QED
      BY <3>2, <3>3, LinkedSound
  <2> QED
    BY <2>1, <2>2
<1>5. /\ Linked(other, one) /\ DOMAIN other.node = {x} /\ one \in Chains
  <2>1. NONE \in Nat
    BY DEF NONE
  <2>2. PICK e, l0 : e = <<>> /\ l0 = list_create
    OBVIOUS
  <2>3. Linked(l0, e) /\ DOMAIN l0.node = {} /\ x \in Blocks \ DOMAIN l0.node
    BY <2>2, EmptyLinked
  <2>4. /\ Linked(list_insert(l0, x, NONE), Append(e, x))
        /\ DOMAIN list_insert(l0, x, NONE).node = DOMAIN l0.node \union {x}
    BY <2>1, <2>3, InsertLinks
  <2>5. Linked(other, one) /\ DOMAIN other.node = {x}
    BY <2>2, <2>3, <2>4
  <2> QED
    BY <2>5 DEF Linked, GoesOn
<1> HIDE DEF other
<1>6. DOMAIN l.node \intersect DOMAIN other.node = {}
  BY <1>5
<1> DEFINE both == list_merge(l, other)
           cat == s \o one
<1>7. /\ GoesOn(both, cat)
      /\ \A m \in DOMAIN l.node : both.node[m].value = l.node[m].value
      /\ \A m \in DOMAIN other.node : both.node[m].value = other.node[m].value
  <2> HIDE DEF one
  <2>1. GoesOn(l, s) /\ GoesOn(other, one)
    BY <1>1, <1>5 DEF Linked
  <2> QED
    BY <1>6, <2>1, MergeGoesOn
<1>8. Len(one) = 1 /\ one[1] = x /\ one \in Seq(Blocks)
  OBVIOUS
<1> HIDE DEF both, one
<1>9. /\ Len(cat) = Len(s) + 1 /\ \A i \in 1..Len(s) : cat[i] = s[i]
      /\ cat[Len(s) + 1] = x
  <2>1. s \in Seq(Blocks)
    BY <1>1
  <2>2. /\ cat \in Seq(Blocks) /\ Len(cat) = Len(s) + 1
        /\ \A i \in 1..Len(s) : cat[i] = s[i]
        /\ cat[Len(s) + 1] = one[1]
    BY <1>8, <2>1, ConcatOne
  <2> QED
    BY <1>8, <2>2
<1> HIDE DEF cat
<1>10. /\ Values(both) \in Seq(Nat) /\ Len(Values(both)) = Len(cat)
       /\ \A i \in 1..Len(cat) : Values(both)[i] = both.node[cat[i]].value
  BY <1>7, ValuesAre
<1>11. ForwardSound(both)
  BY <1>7, GoesOnSound
<1>12. /\ Values(other) \in Seq(Nat) /\ Len(Values(other)) = 1
       /\ Values(other)[1] = other.node[x].value
  <2>1. /\ Values(other) \in Seq(Nat) /\ Len(Values(other)) = Len(one)
        /\ \A i \in 1..Len(one) : Values(other)[i] = other.node[one[i]].value
    BY <1>5, ValuesAre DEF Linked
  <2> QED
    BY <1>8, <2>1
<1> DEFINE a == Values(l)
           b == Values(other)
           c == Values(both)
<1>13. /\ a \in Seq(Nat) /\ Len(a) = Len(s) /\ b \in Seq(Nat) /\ Len(b) = 1
       /\ c \in Seq(Nat) /\ Len(c) = Len(s) + 1
  BY <1>2, <1>9, <1>10, <1>12
<1>14. \A i \in 1..Len(s) : c[i] = a[i]
  <2> SUFFICES ASSUME NEW i \in 1..Len(s) PROVE c[i] = a[i]
    OBVIOUS
  <2>1. i \in 1..Len(cat)
    BY <1>1, <1>9
  <2>2. Values(both)[i] = both.node[s[i]].value
    BY <1>9, <1>10, <2>1
  <2>3. both.node[s[i]].value = l.node[s[i]].value /\ Values(l)[i] = l.node[s[i]].value
    BY <1>1, <1>2, <1>7
  <2> QED
    BY <2>2, <2>3
<1>15. c[Len(s) + 1] = b[1]
  <2>1. Len(s) + 1 \in 1..Len(cat) /\ x \in DOMAIN other.node
    BY <1>1, <1>5, <1>9
  <2> QED
    BY <1>7, <1>9, <1>10, <1>12, <2>1
<1> HIDE DEF a, b, c
<1>16. c = a \o b
  <2>1. /\ a \o b \in Seq(Nat) /\ Len(a \o b) = Len(s) + 1
        /\ \A i \in 1..Len(s) : (a \o b)[i] = a[i]
        /\ (a \o b)[Len(s) + 1] = b[1]
    <3>1. /\ a \o b \in Seq(Nat) /\ Len(a \o b) = Len(a) + 1
          /\ \A i \in 1..Len(a) : (a \o b)[i] = a[i]
          /\ (a \o b)[Len(a) + 1] = b[1]
      <4>1. a \in Seq(Nat) /\ b \in Seq(Nat) /\ Len(b) = 1
        BY <1>13
      <4>2. PICK p, q : p = a /\ q = b
        OBVIOUS
      <4>3. /\ p \o q \in Seq(Nat) /\ Len(p \o q) = Len(p) + 1
            /\ \A i \in 1..Len(p) : (p \o q)[i] = p[i]
            /\ (p \o q)[Len(p) + 1] = q[1]
        BY <4>1, <4>2, ConcatOne
      <4> QED
        BY <4>2, <4>3
    <3> QED
      BY <1>13, <3>1
  <2>2. \A i \in 1..(Len(s) + 1) : c[i] = (a \o b)[i]
    BY <1>1, <1>14, <1>15, <2>1
  <2> QED
    <3>1. PICK d : d = a \o b
      OBVIOUS
    <3>2. d \in Seq(Nat) /\ Len(d) = Len(c) /\ \A i \in 1..Len(c) : c[i] = d[i]
      BY <1>13, <2>1, <2>2, <3>1
    <3>3. c = d
      BY <1>13, <3>2, SeqEqual
    <3> QED
      BY <3>1, <3>3
<1>17. Values(both) = Values(l) \o Values(other)
  BY <1>16 DEF a, b, c
<1> QED
  BY <1>3, <1>4, <1>11, <1>17 DEF OperationsSound, both, other
-----------------------------------------------------------------------------
(* A list and the strings that are its values *)

\* The list l goes through the nodes s, has no others, and the strings t are its
\* values, each at one node.
Holding(l, s, t) ==
    /\ Linked(l, s)
    /\ \A n \in DOMAIN l.node : \E i \in 1..Len(s) : s[i] = n
    /\ DOMAIN t \subseteq Blocks /\ \A n \in DOMAIN l.node : l.node[n].value \in DOMAIN t
    /\ \A v \in DOMAIN t : \E n \in DOMAIN l.node : l.node[n].value = v
    /\ \A m, n \in DOMAIN l.node : l.node[m].value = l.node[n].value => m = n

\* No two nodes of it hold the same.
LEMMA ValuesApart ==
    ASSUME NEW l, NEW s, NEW t, Holding(l, s, t)
    PROVE  \A i, j \in 1..Len(s) : l.node[s[i]].value = l.node[s[j]].value => i = j
<1>1. /\ \A i, j \in 1..Len(s) : s[i] = s[j] => i = j
      /\ \A i \in 1..Len(s) : s[i] \in DOMAIN l.node
  <2>1. GoesOn(l, s)
    BY DEF Holding, Linked
  <2> QED
    BY <2>1, GoesOnFacts
<1>2. \A m, n \in DOMAIN l.node : l.node[m].value = l.node[n].value => m = n
  BY DEF Holding
<1> SUFFICES ASSUME NEW i \in 1..Len(s), NEW j \in 1..Len(s),
                    l.node[s[i]].value = l.node[s[j]].value
             PROVE  i = j
  OBVIOUS
<1>3. s[i] = s[j]
  BY <1>1, <1>2
<1> QED
  BY <1>1, <1>3

\* It holds nothing.
LEMMA EmptyHolds == Holding(list_create, <<>>, <<>>)
<1>1. DOMAIN <<>> = {} /\ DOMAIN list_create.node = {}
  BY EmptyLinked
<1> QED
  BY <1>1, EmptyLinked DEF Holding

\* The node that is no longer on the way is taken out of the map.
Dropped(l, n) == [l EXCEPT !.node = Without(@, {n})]

LEMMA DropLinks ==
    ASSUME NEW l, NEW s, Linked(l, s), NEW n, \A i \in 1..Len(s) : s[i] # n
    PROVE  /\ Linked(Dropped(l, n), s) /\ DOMAIN Dropped(l, n).node = DOMAIN l.node \ {n}
           /\ \A m \in DOMAIN Dropped(l, n).node : Dropped(l, n).node[m] = l.node[m]
<1> DEFINE f == Without(l.node, {n})
           k == Dropped(l, n)
<1>1. /\ l \in ListTypes /\ s \in Chains /\ IsFiniteSet(DOMAIN l.node)
      /\ Len(s) \in Nat
      /\ \A i \in 1..Len(s) : s[i] \in DOMAIN l.node
      /\ l.length = Len(s) /\ l.head = First(s) /\ l.tail = Final(s)
      /\ \A i \in 1..Len(s) : l.node[s[i]].next = IF i = Len(s) THEN NIL ELSE s[i + 1]
      /\ \A i \in 1..Len(s) : l.node[s[i]].prev = IF i = 1 THEN NIL ELSE s[i - 1]
  BY GoesOnFacts DEF Linked, GoesBack
<1>2. /\ l = [head |-> l.head, tail |-> l.tail, length |-> l.length, node |-> l.node]
      /\ l.head \in Nat /\ l.tail \in Nat /\ l.length \in Nat
      /\ DOMAIN l.node \subseteq Blocks /\ \A m \in DOMAIN l.node : l.node[m] \in NodeTypes
  BY <1>1, ListFacts
<1>3. /\ DOMAIN f = DOMAIN l.node \ {n} /\ \A m \in DOMAIN f : f[m] = l.node[m]
      /\ f \in [DOMAIN l.node \ {n} -> NodeTypes]
  BY <1>2 DEF Without
<1>4. f \in NodeMaps
  BY <1>2, <1>3, MapIn
<1>5. k = [head |-> l.head, tail |-> l.tail, length |-> l.length, node |-> f]
  BY <1>2 DEF Dropped
<1> HIDE DEF f, k
<1>6. /\ k.head = l.head /\ k.tail = l.tail /\ k.length = l.length /\ k.node = f
      /\ k \in ListTypes
  BY <1>2, <1>4, <1>5 DEF ListTypes
<1>7. \A i \in 1..Len(s) : s[i] \in DOMAIN k.node /\ k.node[s[i]] = l.node[s[i]]
  BY <1>1, <1>3, <1>6
<1>8. IsFiniteSet(DOMAIN k.node)
  BY <1>1, <1>3, <1>6, FS_Subset
<1>9. GoesOn(k, s) /\ GoesBack(k, s)
  BY <1>1, <1>6, <1>7, <1>8 DEF GoesOn, GoesBack
<1> QED
  BY <1>3, <1>6, <1>9 DEF Linked, k

\* A string is pushed.
LEMMA PushHolds ==
    ASSUME NEW l, NEW s, NEW t, Holding(l, s, t), NEW n \in Blocks \ DOMAIN l.node,
           NEW v \in Blocks \ DOMAIN t, NEW name
    PROVE  /\ Holding(list_insert(l, n, v), Append(s, n), Put(t, v, name))
           /\ DOMAIN list_insert(l, n, v).node = DOMAIN l.node \union {n}
           /\ DOMAIN Put(t, v, name) = DOMAIN t \union {v}
<1> DEFINE k == list_insert(l, n, v)
           u == Append(s, n)
           p == Put(t, v, name)
<1>1. /\ Linked(k, u) /\ DOMAIN k.node = DOMAIN l.node \union {n}
      /\ k.node[n].value = v /\ \A m \in DOMAIN l.node : k.node[m].value = l.node[m].value
  <2>1. v \in Nat
    BY DEF Blocks
  <2>2. Linked(l, s)
    BY DEF Holding
  <2> QED
    BY <2>1, <2>2, InsertLinks
<1>2. DOMAIN p = DOMAIN t \union {v}
  BY DEF Put
<1>3. /\ s \in Seq(Blocks) /\ Len(s) \in Nat
      /\ Len(u) = Len(s) + 1 /\ u[Len(s) + 1] = n /\ \A i \in 1..Len(s) : u[i] = s[i]
  <2>1. s \in Seq(Blocks)
    BY GoesOnFacts DEF Holding, Linked
  <2> QED
    BY <2>1
<1> HIDE DEF k, u, p
<1>4. ASSUME NEW m \in DOMAIN k.node PROVE \E i \in 1..Len(u) : u[i] = m
  <2>1. CASE m = n
    BY <1>3, <2>1
  <2>2. CASE m # n
    <3>1. PICK i \in 1..Len(s) : s[i] = m
      BY <1>1, <2>2 DEF Holding
    <3>2. i \in 1..Len(u) /\ u[i] = m
      BY <1>3, <3>1
    <3> QED
      BY <3>2
  <2> QED
    BY <2>1, <2>2
<1>5. ASSUME NEW m \in DOMAIN k.node PROVE k.node[m].value \in DOMAIN p
  BY <1>1, <1>2 DEF Holding
<1>6. ASSUME NEW w \in DOMAIN p PROVE \E m \in DOMAIN k.node : k.node[m].value = w
  BY <1>1, <1>2 DEF Holding
<1>7. ASSUME NEW m \in DOMAIN k.node, NEW m2 \in DOMAIN k.node,
             k.node[m].value = k.node[m2].value
      PROVE  m = m2
  BY <1>1, <1>7 DEF Holding
<1>8. DOMAIN p \subseteq Blocks
  BY <1>2 DEF Holding
<1>9. Holding(k, u, p)
  BY <1>1, <1>4, <1>5, <1>6, <1>7, <1>8 DEF Holding
<1> QED
  BY <1>1, <1>2, <1>9 DEF k, u, p

\* The sequence without its last element.
Shorter(u, s) == u \in Seq(Blocks) /\ Len(u) = Len(s) - 1 /\ \A j \in 1..(Len(s) - 1) : u[j] = s[j]

\* The last string is popped.
LEMMA PopHolds ==
    ASSUME NEW l, NEW s, NEW t, Holding(l, s, t), l.tail # NIL
    PROVE  LET n == l.tail
               v == l.node[n].value
               k == Dropped(list_pop(l), n)
           IN /\ n \in DOMAIN l.node /\ v \in DOMAIN t
              /\ \E u : Holding(k, u, Without(t, {v})) /\ Shorter(u, s)
              /\ DOMAIN k.node = DOMAIN l.node \ {n}
              /\ \A m \in DOMAIN k.node : k.node[m].value = l.node[m].value
              /\ DOMAIN Without(t, {v}) = DOMAIN t \ {v}
<1> DEFINE n == l.tail
           v == l.node[n].value
           d == list_delete(l, n)
           k == Dropped(d, n)
           L == Len(s)
           u == RemoveAt(s, L)
           w == Without(t, {v})
<1>1. /\ Linked(l, s) /\ l \in ListTypes /\ s \in Chains /\ s \in Seq(Blocks) /\ Len(s) \in Nat
      /\ l.tail = Final(s)
      /\ \A i \in 1..Len(s) : s[i] \in DOMAIN l.node
      /\ \A i, j \in 1..Len(s) : s[i] = s[j] => i = j
      /\ (s = <<>> <=> Len(s) = 0)
  <2>1. Linked(l, s) /\ GoesOn(l, s)
    BY DEF Holding, Linked
  <2> QED
    BY <2>1, GoesOnFacts
<1>2. L \in 1..Len(s) /\ n = s[L] /\ n \in DOMAIN l.node
  BY <1>1 DEF Final
<1>3. list_pop(l) = d
  BY DEF list_pop
<1>4. /\ Linked(d, u) /\ DOMAIN d.node = DOMAIN l.node
      /\ \A m \in DOMAIN l.node : d.node[m].value = l.node[m].value
  <2> HIDE DEF L, n
  <2>1. /\ Linked(list_delete(l, s[L]), u) /\ DOMAIN list_delete(l, s[L]).node = DOMAIN l.node
        /\ \A m \in DOMAIN l.node : list_delete(l, s[L]).node[m].value = l.node[m].value
    BY <1>1, <1>2, DeleteLinks
  <2> QED
    BY <1>2, <2>1
<1>5. /\ u \in Seq(Blocks) /\ Len(u) = Len(s) - 1 /\ \A j \in 1..(Len(s) - 1) : u[j] = s[j]
  <2>1. /\ u \in Seq(Blocks) /\ Len(u) = Len(s) - 1
        /\ \A j \in 1..(Len(s) - 1) : u[j] = IF j < L THEN s[j] ELSE s[j + 1]
    <3> HIDE DEF L
    <3> QED
      BY <1>1, <1>2, RemoveAtFacts
  <2> QED
    BY <1>1, <2>1
<1> HIDE DEF d, u, n
<1>6. \A i \in 1..Len(u) : u[i] # n
  <2> SUFFICES ASSUME NEW i \in 1..Len(u) PROVE u[i] # n
    OBVIOUS
  <2>1. i \in 1..Len(s) /\ i # L /\ u[i] = s[i]
    BY <1>1, <1>5
  <2> QED
    BY <1>1, <1>2, <2>1
<1>7. /\ Linked(k, u) /\ DOMAIN k.node = DOMAIN d.node \ {n}
      /\ \A m \in DOMAIN k.node : k.node[m] = d.node[m]
  BY <1>4, <1>6, DropLinks
<1> HIDE DEF k
<1>8. DOMAIN w = DOMAIN t \ {v} /\ v \in DOMAIN t
  BY <1>2 DEF Without, Holding
<1> HIDE DEF w, v
<1>9. /\ DOMAIN k.node = DOMAIN l.node \ {n}
      /\ \A m \in DOMAIN k.node : k.node[m].value = l.node[m].value
  BY <1>4, <1>7
<1>10. ASSUME NEW m \in DOMAIN k.node PROVE \E i \in 1..Len(u) : u[i] = m
  <2>1. PICK i \in 1..Len(s) : s[i] = m
    BY <1>9 DEF Holding
  <2>2. i # L
    BY <1>2, <1>9, <2>1
  <2>3. i \in 1..Len(u) /\ u[i] = m
    BY <1>1, <1>5, <2>1, <2>2
  <2> QED
    BY <2>3
<1>11. ASSUME NEW m \in DOMAIN k.node PROVE k.node[m].value \in DOMAIN w
  BY <1>2, <1>8, <1>9 DEF Holding, v
<1>12. ASSUME NEW x \in DOMAIN w PROVE \E m \in DOMAIN k.node : k.node[m].value = x
  <2>1. PICK m \in DOMAIN l.node : l.node[m].value = x
    BY <1>8 DEF Holding
  <2>2. m # n
    BY <1>8, <2>1 DEF v
  <2> QED
    BY <1>9, <2>1, <2>2
<1>13. ASSUME NEW m \in DOMAIN k.node, NEW m2 \in DOMAIN k.node,
              k.node[m].value = k.node[m2].value
       PROVE  m = m2
  BY <1>9, <1>13 DEF Holding
<1>14. DOMAIN w \subseteq Blocks
  BY <1>8 DEF Holding
<1>15. Holding(k, u, w)
  BY <1>7, <1>10, <1>11, <1>12, <1>13, <1>14 DEF Holding
<1>16. k = Dropped(list_pop(l), n)
  BY <1>3 DEF k
<1>17. Shorter(u, s)
  BY <1>5 DEF Shorter
<1> QED
  BY <1>2, <1>8, <1>9, <1>15, <1>16, <1>17 DEF n, v, w

\* The number for a new object is one that nobody has.
LEMMA FreshIsNew ==
    ASSUME NEW h \in SUBSET Blocks, IsFiniteSet(h)
    PROVE  Fresh(h) \in Blocks \ h
<1> DEFINE N == Cardinality(h) + 1
           Free == (1..N) \ h
<1>1. Cardinality(h) \in Nat
  BY FS_CardinalityType
<1>2. Free # {}
  <2> SUFFICES ASSUME Free = {} PROVE FALSE
    OBVIOUS
  <2>1. 1..N \subseteq h
    OBVIOUS
  <2>2. Cardinality(1..N) <= Cardinality(h)
    BY <2>1, FS_Subset
  <2>3. Cardinality(1..N) = N
    BY <1>1, FS_Interval
  <2> QED
    BY <1>1, <2>2, <2>3
<1>3. Free \in SUBSET Nat
  BY <1>1
<1>4. PICK i \in Free : \A j \in Free : i <= j
  <2> HIDE DEF Free
  <2> QED
    BY <1>2, <1>3, LeastElement
<1>5. i \in 1..N /\ i \notin h /\ \A j \in 1..(i - 1) : j \in h
  BY <1>1, <1>4
<1>6. Fresh(h) \in 1..N /\ Fresh(h) \notin h
  BY <1>5 DEF Fresh
<1> QED
  BY <1>1, <1>6 DEF Blocks
-----------------------------------------------------------------------------
(* The inductive invariant of the memory *)

\* The objects that something leads to, each kind by itself.
Ids    == {n.id : n \in held}
Dirent == IF last.op = "readdir" THEN {last.dirent} \ {NONE} ELSE {}

Parts == <<{root.id} \ {NONE}, {list} \ {NONE}, {str} \ {NONE}, {dirName} \ {NONE},
           {node.id} \ {NONE}, DOMAIN out.node, DOMAIN text, Ids, Dirent>>

Kinds == 1..9

Apart(p) == \A i, j \in Kinds : i # j => p[i] \intersect p[j] = {}
AllOf(p) == p[1] \union p[2] \union p[3] \union p[4] \union p[5]
            \union p[6] \union p[7] \union p[8] \union p[9]

\* The result of realloc was NULL, and the old string is lost.
Leaking == pc = "null" \/ (pc = "root" /\ str = NONE)

\* Nothing allocated is forgotten, and nothing is two things at once.
HeapIsParts == /\ Apart(Parts) /\ AllOf(Parts) \subseteq heap
               /\ ~Leaking => heap \subseteq AllOf(Parts)

HeldAreNodes == /\ \A n \in held : n.id # NONE /\ n.ino \in DOMAIN img.inode
                /\ \A m, n \in held : m.id = n.id => m = n

\* What is there in each phase of a call.
Quiet   == list = NONE /\ str = NONE /\ dirName = NONE /\ node = NULL
           /\ out = list_create /\ text = <<>>
NoList  == list = NONE /\ out = list_create /\ text = <<>>
InCall  == root # NULL /\ (dirName # NONE <=> op # "kopen")

Phases ==
    /\ last # NoAnswer => pc = "idle"
    /\ last.op = "readdir" => last.dirent \in Nat
    /\ root # NULL => root.id # NONE /\ root.ino = RootInode
    /\ pc \in {"idle", "halted"} => Quiet
    /\ pc = "tokens" => InCall /\ list # NONE /\ str # NONE /\ node = NULL
    /\ pc \in {"root", "walk"} => InCall /\ NoList /\ node = NULL
    /\ pc = "walk" => str # NONE
    /\ pc = "find" => /\ InCall /\ NoList /\ str # NONE
                      /\ node.id # NONE /\ node.ino \in DOMAIN img.inode
    /\ pc = "use" => InCall /\ NoList /\ str = NONE /\ op # "kopen" /\ node.id # NONE

Numbers == list \in Nat /\ str \in Nat /\ dirName \in Nat /\ IsFiniteSet(heap)

ListHolds == Holding(out, foreach(out), text)

MemoryIInv == TypeOK /\ Numbers /\ ListHolds /\ HeapIsParts /\ HeldAreNodes /\ Phases
-----------------------------------------------------------------------------
(* Steps that allocate and free *)

\* Parts grow by objects that were in no other part, and stay apart.
LEMMA PartsStep ==
    ASSUME NEW p, NEW q, NEW F, Apart(p), \A i \in Kinds : q[i] \subseteq p[i] \union F[i],
           \A i, j \in Kinds : i # j => F[i] \intersect p[j] = {} /\ F[i] \intersect F[j] = {}
    PROVE  Apart(q)
<1> SUFFICES ASSUME NEW i \in Kinds, NEW j \in Kinds, i # j,
                    NEW x, x \in q[i], x \in q[j]
             PROVE  FALSE
  BY DEF Apart
<1>1. (x \in p[i] \/ x \in F[i]) /\ (x \in p[j] \/ x \in F[j])
  OBVIOUS
<1>2. ~(x \in p[i] /\ x \in p[j])
  BY DEF Apart
<1>3. ~(x \in F[i] /\ x \in p[j]) /\ ~(x \in F[j] /\ x \in p[i]) /\ ~(x \in F[i] /\ x \in F[j])
  OBVIOUS
<1> QED
  BY <1>1, <1>2, <1>3

LEMMA KindsAre == Kinds = {1, 2, 3, 4, 5, 6, 7, 8, 9}
BY DEF Kinds

\* No part grows, ...
LEMMA NoNew ==
    ASSUME NEW p, NEW q, Apart(p), \A i \in Kinds : q[i] \subseteq p[i]
    PROVE  Apart(q)
BY DEF Apart

\* ... or one by one object, ...
OneMore(p, q, k, x) ==
    /\ k \in Kinds /\ x \notin AllOf(p) /\ q[k] \subseteq p[k] \union {x}
    /\ \A i \in Kinds : i # k => q[i] \subseteq p[i]

LEMMA OneNew ==
    ASSUME NEW p, NEW q, NEW k, NEW x, Apart(p), OneMore(p, q, k, x)
    PROVE  Apart(q)
<1> DEFINE F == [i \in Kinds |-> IF i = k THEN {x} ELSE {}]
<1> USE DEF OneMore
<1>1. \A i \in Kinds : x \notin p[i]
  BY KindsAre DEF AllOf
<1>2. \A i \in Kinds : F[i] = IF i = k THEN {x} ELSE {}
  OBVIOUS
<1> HIDE DEF F
<1>3. \A i \in Kinds : q[i] \subseteq p[i] \union F[i]
  BY <1>2
<1>4. \A i, j \in Kinds : i # j => F[i] \intersect p[j] = {} /\ F[i] \intersect F[j] = {}
  BY <1>1, <1>2
<1> QED
  BY <1>3, <1>4, PartsStep

\* ... or two.
TwoMore(p, q, k, x, m, y) ==
    /\ k \in Kinds /\ x \notin AllOf(p) /\ q[k] \subseteq p[k] \union {x}
    /\ m \in Kinds /\ y \notin AllOf(p) /\ q[m] \subseteq p[m] \union {y}
    /\ k # m /\ x # y /\ \A i \in Kinds : i # k /\ i # m => q[i] \subseteq p[i]

LEMMA TwoNew ==
    ASSUME NEW p, NEW q, NEW k, NEW x, NEW m, NEW y, Apart(p), TwoMore(p, q, k, x, m, y)
    PROVE  Apart(q)
<1> DEFINE F == [i \in Kinds |-> IF i = k THEN {x} ELSE IF i = m THEN {y} ELSE {}]
<1> USE DEF TwoMore
<1>1. \A i \in Kinds : x \notin p[i] /\ y \notin p[i]
  BY KindsAre DEF AllOf
<1>2. \A i \in Kinds : F[i] = IF i = k THEN {x} ELSE IF i = m THEN {y} ELSE {}
  OBVIOUS
<1> HIDE DEF F
<1>3. \A i \in Kinds : q[i] \subseteq p[i] \union F[i]
  BY <1>2
<1>4. \A i, j \in Kinds : i # j => F[i] \intersect p[j] = {} /\ F[i] \intersect F[j] = {}
  BY <1>1, <1>2
<1> QED
  BY <1>3, <1>4, PartsStep

LEMMA EmptyListHolds == Holding(list_create, foreach(list_create), <<>>)
<1>1. PICK e, l : e = <<>> /\ l = list_create
  OBVIOUS
<1>2. Holding(l, e, e)
  BY <1>1, EmptyHolds
<1>3. foreach(l) = e
  BY <1>2, ForeachIs DEF Holding, Linked
<1> QED
  BY <1>1, <1>2, <1>3

\* What is known of a ramdisk.
LEMMA ImageFacts ==
    ASSUME img \in Images
    PROVE  /\ DOMAIN img.inode \subseteq Nat \ {NONE} /\ RootInode \in DOMAIN img.inode
           /\ \A i \in DOMAIN img.inode : img.inode[i].blocks \in Seq(Nat)
           /\ \A b \in DOMAIN img.block :
                  img.block[b] \in Seq([name : Seq(STRING), ino : DOMAIN img.inode])
BY VFSAssumption

\* The invariant holds at the start.
LEMMA InitMemory == Init => MemoryIInv
<1> SUFFICES ASSUME Init PROVE MemoryIInv
  OBVIOUS
<1> USE DEF Init
<1>1. NULL \in Nodes /\ NULL.id = NONE
  BY DEF NULL, Nodes, NONE
<1>2. TypeOK
  BY <1>1 DEF TypeOK, Calls, NONE, Lost
<1>3. Numbers
  BY FS_EmptySet DEF Numbers, NONE
<1>4. ListHolds
  BY EmptyListHolds DEF ListHolds
<1>5. last.op # "readdir" /\ last = NoAnswer
  BY DEF NoAnswer
<1>6. AllOf(Parts) = {} /\ Apart(Parts)
  <2>1. DOMAIN out.node = {} /\ DOMAIN text = {} /\ Ids = {} /\ Dirent = {}
    BY <1>5, EmptyLinked DEF Ids, Dirent
  <2>2. Parts = <<{}, {}, {}, {}, {}, {}, {}, {}, {}>>
    BY <1>1, <2>1 DEF Parts
  <2>3. \A i \in Kinds : Parts[i] = {}
    BY <2>2, KindsAre
  <2> QED
    BY <2>3 DEF Apart, AllOf, Kinds
<1>7. HeapIsParts
  BY <1>6 DEF HeapIsParts
<1>8. HeldAreNodes
  BY DEF HeldAreNodes
<1>9. Phases
  BY <1>5 DEF Phases, Quiet
<1> QED
  BY <1>2, <1>3, <1>4, <1>7, <1>8, <1>9 DEF MemoryIInv

\* The steps that only change pc, to a place from which nothing goes on.
LEMMA Stopping ==
    ASSUME MemoryIInv, pc' \in {"garbage", "astray", "halted"}, ~Leaking, last = NoAnswer,
           pc' = "halted" => pc = "idle",
           UNCHANGED <<img, root, heap, held, op, asked, todo, out, text, list, str, dirName,
                       node, last>>
    PROVE  MemoryIInv'
<1> USE DEF MemoryIInv
<1>1. TypeOK'
  BY DEF TypeOK, Nodes, Lost
<1>2. Numbers'
  BY DEF Numbers
<1>3. ListHolds'
  BY DEF ListHolds
<1>4. Parts' = Parts
  BY DEF Parts, Ids, Dirent
<1>5. HeapIsParts'
  BY <1>4 DEF HeapIsParts, Leaking, Lost
<1>6. HeldAreNodes'
  BY DEF HeldAreNodes
<1>7. Phases'
  BY DEF Phases, Quiet, NoList, InCall, NoAnswer
<1> QED
  BY <1>1, <1>2, <1>3, <1>5, <1>6, <1>7

\* The heap, whatever the code does.
LEMMA HeapFacts ==
    ASSUME MemoryIInv
    PROVE  /\ heap \in SUBSET Blocks /\ IsFiniteSet(heap) /\ Fresh(heap) \in Blocks \ heap
           /\ Apart(Parts) /\ AllOf(Parts) \subseteq heap /\ (~Leaking => heap = AllOf(Parts))
<1>1. heap \in SUBSET Blocks /\ IsFiniteSet(heap)
  BY DEF MemoryIInv, TypeOK, Numbers, Blocks
<1> QED
  BY <1>1, FreshIsNew DEF MemoryIInv, HeapIsParts

\* The parts, one by one.
LEMMA PartsAre ==
    /\ Parts[1] = {root.id} \ {NONE} /\ Parts[2] = {list} \ {NONE} /\ Parts[3] = {str} \ {NONE}
    /\ Parts[4] = {dirName} \ {NONE} /\ Parts[5] = {node.id} \ {NONE}
    /\ Parts[6] = DOMAIN out.node /\ Parts[7] = DOMAIN text /\ Parts[8] = Ids
    /\ Parts[9] = Dirent
BY DEF Parts

LEMMA QuietParts ==
    ASSUME Quiet
    PROVE  /\ \A i \in 2..7 : Parts[i] = {}
           /\ AllOf(Parts) = ({root.id} \ {NONE}) \union Ids \union Dirent
<1>1. DOMAIN out.node = {} /\ DOMAIN text = {}
  BY EmptyLinked DEF Quiet
<1>2. node.id = NONE /\ list = NONE /\ str = NONE /\ dirName = NONE
  BY DEF Quiet, NULL
<1>3. /\ Parts[2] = {} /\ Parts[3] = {} /\ Parts[4] = {} /\ Parts[5] = {}
      /\ Parts[6] = {} /\ Parts[7] = {}
  BY <1>1, <1>2, PartsAre
<1>4. Parts[1] = {root.id} \ {NONE} /\ Parts[8] = Ids /\ Parts[9] = Dirent
  BY PartsAre
<1> QED
  BY <1>3, <1>4 DEF AllOf

\* The steps of mounting and of a caller that looks at its answer.
LEMMA Mounting == ASSUME MemoryIInv, initrd_mount PROVE MemoryIInv'
<1> USE DEF MemoryIInv
<1> DEFINE id == Fresh(heap)
<1>1. PICK garbage \in BOOLEAN : root' = initrd_node_root(id, garbage)
  BY DEF initrd_mount
<1>2. /\ root = NULL /\ pc = "idle" /\ last = NoAnswer /\ heap' = heap \union {id}
      /\ UNCHANGED <<img, held, pc, op, asked, todo, out, text, list, str, dirName, node, last>>
  BY DEF initrd_mount
<1>3. /\ heap \in SUBSET Blocks /\ IsFiniteSet(heap) /\ id \in Blocks \ heap
      /\ Apart(Parts) /\ AllOf(Parts) \subseteq heap /\ (~Leaking => heap = AllOf(Parts))
  BY HeapFacts
<1> HIDE DEF id
<1>4. root' = [id |-> id, ino |-> RootInode, mkdir |-> garbage]
  BY <1>1 DEF initrd_node_root
<1>5. root'.id = id /\ root'.ino = RootInode /\ id # NONE /\ id \in Nat
  BY <1>3, <1>4 DEF Blocks, NONE
<1>6. TypeOK'
  <2>1. RootInode \in DOMAIN img.inode
    BY ImageFacts DEF TypeOK
  <2>2. root' \in Nodes'
    BY <1>2, <1>4, <1>5, <2>1 DEF Nodes
  <2> QED
    BY <1>2, <1>3, <2>2 DEF TypeOK, Nodes, Blocks
<1>7. Numbers'
  BY <1>2, <1>3, FS_AddElement DEF Numbers
<1>8. ListHolds'
  BY <1>2 DEF ListHolds
<1>9. HeapIsParts'
  <2>1. /\ Parts'[1] = {id} /\ Parts[1] = {}
        /\ \A i \in Kinds : i # 1 => Parts'[i] = Parts[i]
    BY <1>2, <1>5, KindsAre DEF Parts, Ids, Dirent, NULL
  <2>2. Apart(Parts')
    <3>1. OneMore(Parts, Parts', 1, id)
      BY <1>3, <2>1, KindsAre DEF OneMore
    <3> QED
      BY <1>3, <3>1, OneNew
  <2>3. AllOf(Parts') = AllOf(Parts) \union {id}
    BY <2>1, KindsAre DEF AllOf
  <2> QED
    BY <1>2, <1>3, <2>2, <2>3 DEF HeapIsParts, Leaking
<1>10. HeldAreNodes'
  BY <1>2 DEF HeldAreNodes
<1>11. Phases'
  BY <1>2, <1>5 DEF Phases, Quiet
<1> QED
  BY <1>6, <1>7, <1>8, <1>9, <1>10, <1>11

LEMMA Seeing == ASSUME MemoryIInv, Seen PROVE MemoryIInv'
<1> USE DEF MemoryIInv
<1>1. /\ pc = "idle" /\ last # NoAnswer /\ last' = NoAnswer
      /\ heap' = IF last.op = "readdir" THEN heap \ {last.dirent} ELSE heap
      /\ UNCHANGED <<img, root, held, pc, op, asked, todo, out, text, list, str, dirName, node>>
  BY DEF Seen
<1>2. /\ heap \in SUBSET Blocks /\ IsFiniteSet(heap) /\ Apart(Parts)
      /\ AllOf(Parts) \subseteq heap /\ (~Leaking => heap = AllOf(Parts))
  BY HeapFacts
<1>3. NONE \notin heap /\ heap' = heap \ Dirent /\ last'.op # "readdir"
  BY <1>1, <1>2 DEF Dirent, NoAnswer, Blocks, NONE
<1>4. TypeOK'
  BY <1>1, <1>3 DEF TypeOK, Nodes
<1>5. Numbers'
  BY <1>1, <1>2, <1>3, FS_Subset DEF Numbers
<1>6. ListHolds'
  BY <1>1 DEF ListHolds
<1>7. HeapIsParts'
  <2>1. /\ Parts'[9] = {} /\ Parts[9] = Dirent
        /\ \A i \in Kinds : i # 9 => Parts'[i] = Parts[i]
    BY <1>1, <1>3, KindsAre DEF Parts, Ids, Dirent
  <2>2. Apart(Parts')
    BY <1>2, <2>1, KindsAre, NoNew
  <2>3. AllOf(Parts') = AllOf(Parts) \ Dirent
    BY <1>2, <2>1, KindsAre DEF AllOf, Apart
  <2> QED
    BY <1>1, <1>2, <1>3, <2>2, <2>3 DEF HeapIsParts, Leaking
<1>8. HeldAreNodes'
  BY <1>1 DEF HeldAreNodes
<1>9. Phases'
  BY <1>1, <1>3 DEF Phases, Quiet
<1> QED
  BY <1>4, <1>5, <1>6, <1>7, <1>8, <1>9
-----------------------------------------------------------------------------
(* The calls *)

\* The end of a call, whichever way.
LEMMA Ending ==
    ASSUME MemoryIInv, pc' = "idle", Quiet', UNCHANGED <<img, root>>, op' \in Calls,
           asked' \in Paths \union MakePaths \union {<<>>},
           last'.op = "readdir" => last'.dirent \in Nat,
           held' \subseteq Nodes, HeldAreNodes', IsFiniteSet(heap'),
           root.id \notin Ids' \union Dirent', Ids' \intersect Dirent' = {},
           heap' = ({root.id} \ {NONE}) \union Ids' \union Dirent'
    PROVE  MemoryIInv'
<1> USE DEF MemoryIInv
<1>1. NULL \in Nodes /\ root \in Nodes /\ NULL.id = NONE /\ root' \in Nodes
  BY DEF TypeOK, NULL, Nodes, NONE
<1>2. \A n \in held' : n.id \in Blocks
  BY DEF HeldAreNodes, Nodes, Blocks, NONE
<1>3. Ids' \subseteq Blocks /\ Dirent' \subseteq Blocks
  BY <1>2 DEF Ids, Dirent, Blocks, NONE
<1>4. TypeOK'
  <2>1. heap' \subseteq Nat \ {0}
    BY <1>1, <1>3 DEF Blocks, NONE, Nodes
  <2>2. Nodes' = Nodes
    BY DEF Nodes
  <2>3. node' = NULL /\ out' = list_create /\ text' = <<>>
        /\ list' = NONE /\ str' = NONE /\ dirName' = NONE
    BY DEF Quiet
  <2> QED
    BY <1>1, <2>1, <2>2, <2>3 DEF TypeOK
<1>5. Numbers'
  BY DEF Numbers, Quiet, NONE
<1>6. ListHolds'
  BY EmptyListHolds DEF ListHolds, Quiet
<1>7. HeapIsParts'
  <2>1. DOMAIN out'.node = {} /\ DOMAIN text' = {}
    BY EmptyLinked DEF Quiet
  <2>2. node'.id = NONE /\ list' = NONE /\ str' = NONE /\ dirName' = NONE
    BY <1>1 DEF Quiet
  <2>3. /\ Parts'[2] = {} /\ Parts'[3] = {} /\ Parts'[4] = {} /\ Parts'[5] = {}
        /\ Parts'[6] = {} /\ Parts'[7] = {}
        /\ Parts'[1] = {root.id} \ {NONE} /\ Parts'[8] = Ids' /\ Parts'[9] = Dirent'
    BY <2>1, <2>2 DEF Parts
  <2>4. Apart(Parts')
    BY <2>3, KindsAre DEF Apart
  <2>5. AllOf(Parts') = heap'
    BY <2>3 DEF AllOf
  <2> QED
    BY <2>4, <2>5 DEF HeapIsParts
<1>8. Phases'
  BY DEF Phases
<1> QED
  BY <1>4, <1>5, <1>6, <1>7, <1>8

\* An answer that leaves everything as it was.
LEMMA OnlyAnswering ==
    ASSUME MemoryIInv, pc = "idle", last = NoAnswer, op' \in Calls,
           asked' \in Paths \union MakePaths \union {<<>>},
           last'.op = "readdir" => last'.dirent = NONE,
           UNCHANGED <<img, root, heap, held, pc, out, text, list, str, dirName, node>>
    PROVE  MemoryIInv'
<1> USE DEF MemoryIInv
<1>1. Quiet /\ Dirent = {} /\ ~Leaking
  BY DEF Phases, Dirent, NoAnswer, Leaking
<1>2. /\ IsFiniteSet(heap) /\ Apart(Parts) /\ heap = AllOf(Parts)
  BY <1>1, HeapFacts
<1>3. AllOf(Parts) = ({root.id} \ {NONE}) \union Ids
  BY <1>1, QuietParts
<1>4. root.id \notin Ids
  <2>1. NONE \notin Ids
    BY DEF Ids, HeldAreNodes
  <2>2. Parts[1] \intersect Parts[8] = {}
    BY <1>2 DEF Apart, Kinds
  <2> QED
    BY <2>1, <2>2, PartsAre
<1>5. Ids' = Ids /\ Dirent' = {} /\ HeldAreNodes' /\ Quiet' /\ NONE \in Nat
  BY <1>1 DEF Ids, Dirent, HeldAreNodes, Quiet, NONE
<1>6. held' \subseteq Nodes
  BY DEF TypeOK
<1> QED
  BY <1>1, <1>2, <1>3, <1>4, <1>5, <1>6, Ending

LEMMA Beginning ==
    ASSUME NEW h \in SUBSET Blocks, IsFiniteSet(h), NEW path, BeginKopen(h, path)
    PROVE  /\ list' \in Blocks \ h /\ str' \in Blocks \ h /\ list' # str'
           /\ heap' = h \union {list', str'} /\ heap' \subseteq Blocks /\ IsFiniteSet(heap')
           /\ out' = list_create /\ pc' = "tokens" /\ UNCHANGED <<text, last>>
<1>1. /\ list' = Fresh(h) /\ str' = Fresh(h \union {list'})
      /\ heap' = h \union {list', str'}
      /\ out' = list_create /\ pc' = "tokens" /\ UNCHANGED <<text, last>>
  BY DEF BeginKopen
<1>2. list' \in Blocks \ h
  BY <1>1, FreshIsNew
<1>3. h \union {list'} \in SUBSET Blocks /\ IsFiniteSet(h \union {list'})
  BY <1>2, FS_AddElement
<1>4. str' \in Blocks \ (h \union {list'})
  BY <1>1, <1>3, FreshIsNew
<1>5. heap' = (h \union {list'}) \union {str'}
  BY <1>1
<1>6. IsFiniteSet(heap')
  BY <1>3, <1>5, FS_AddElement
<1> QED
  BY <1>1, <1>2, <1>4, <1>6

\* kopen has begun, from a heap where the copy of the name may have been made.
LEMMA Begun ==
    ASSUME MemoryIInv, pc = "idle", last = NoAnswer, root # NULL, NEW d \in Nat, NEW h, NEW path,
           \/ d = NONE /\ h = heap /\ op' = "kopen"
           \/ d = Fresh(heap) /\ h = heap \union {d} /\ op' \in {"create", "mkdir"},
           dirName' = d, asked' \in Paths \union MakePaths, BeginKopen(h, path),
           UNCHANGED <<img, root, held, node>>
    PROVE  MemoryIInv'
<1> USE DEF MemoryIInv
<1>1. Quiet /\ ~Leaking /\ root.id # NONE
  BY DEF Phases, Leaking
<1>2. /\ heap \in SUBSET Blocks /\ IsFiniteSet(heap) /\ Fresh(heap) \in Blocks \ heap
      /\ Apart(Parts) /\ heap = AllOf(Parts)
  BY <1>1, HeapFacts
<1>3. h \in SUBSET Blocks /\ IsFiniteSet(h) /\ heap \subseteq h
      /\ (d # NONE <=> op' # "kopen") /\ h = heap \union ({d} \ {NONE}) /\ d \notin heap
  BY <1>2, FS_AddElement DEF Blocks, NONE
<1>4. /\ list' \in Blocks \ h /\ str' \in Blocks \ h /\ list' # str'
      /\ heap' = h \union {list', str'} /\ heap' \subseteq Blocks /\ IsFiniteSet(heap')
      /\ out' = list_create /\ pc' = "tokens" /\ UNCHANGED <<text, last>>
  BY <1>3, Beginning
<1>5. TypeOK'
  BY <1>4 DEF TypeOK, Nodes, Blocks, Calls
<1>6. Numbers'
  BY <1>4 DEF Numbers, Blocks
<1>7. ListHolds'
  BY <1>1, <1>4, EmptyListHolds DEF ListHolds, Quiet
<1>8. HeapIsParts'
  <2>1. /\ Parts'[2] = {list'} /\ Parts'[3] = {str'} /\ Parts'[4] = {d} \ {NONE}
        /\ \A i \in Kinds : i \notin {2, 3, 4} => Parts'[i] = Parts[i]
    <3>1. list' # NONE /\ str' # NONE /\ out' = out
      BY <1>1, <1>4 DEF Blocks, NONE, Quiet
    <3> QED
      BY <1>4, <3>1, KindsAre DEF Parts, Ids, Dirent
  <2>2. Parts[2] = {} /\ Parts[3] = {} /\ Parts[4] = {}
    BY <1>1, QuietParts
  <2> DEFINE q == <<Parts[1], {}, {}, {d} \ {NONE}, Parts[5], Parts[6], Parts[7], Parts[8],
                    Parts[9]>>
  <2>3. /\ q[2] = {} /\ q[3] = {} /\ q[4] = {d} \ {NONE}
        /\ \A i \in Kinds : i \notin {2, 3, 4} => q[i] = Parts[i]
    BY KindsAre
  <2> HIDE DEF q
  <2>4. Apart(q)
    <3>1. OneMore(Parts, q, 4, d)
      BY <1>2, <1>3, <2>2, <2>3, KindsAre DEF OneMore
    <3> QED
      BY <1>2, <3>1, OneNew
  <2>5. AllOf(q) = h
    BY <1>2, <1>3, <2>2, <2>3, KindsAre DEF AllOf
  <2>6. Apart(Parts')
    <3>1. TwoMore(q, Parts', 2, list', 3, str')
      BY <1>4, <2>1, <2>3, <2>5, KindsAre DEF TwoMore
    <3> QED
      BY <2>4, <3>1, TwoNew
  <2>7. AllOf(Parts') = heap'
    BY <1>4, <2>1, <2>3, <2>5, KindsAre DEF AllOf
  <2> QED
    BY <2>6, <2>7 DEF HeapIsParts
<1>9. HeldAreNodes'
  BY DEF HeldAreNodes
<1>10. Phases'
  <2>1. InCall' /\ list' # NONE /\ str' # NONE /\ node' = NULL
    BY <1>1, <1>3, <1>4 DEF InCall, Quiet, Blocks, NONE
  <2> QED
    BY <1>4, <2>1 DEF Phases, NoAnswer
<1> QED
  BY <1>5, <1>6, <1>7, <1>8, <1>9, <1>10

\* The calls that walk a path.
LEMMA Opening ==
    ASSUME MemoryIInv, NEW path \in Paths, kopen(path) PROVE MemoryIInv'
<1>1. /\ pc = "idle" /\ last = NoAnswer /\ UNCHANGED <<img, root, held, dirName, node>>
  BY DEF kopen
<1>2. CASE root # NULL
  <2>1. BeginKopen(heap, path) /\ op' = "kopen" /\ asked' = path
    BY <1>2 DEF kopen
  <2>2. dirName = NONE /\ NONE \in Nat
    BY <1>1 DEF MemoryIInv, Phases, Quiet, NONE
  <2> QED
    BY <1>1, <1>2, <2>1, <2>2, Begun
<1>3. CASE root = NULL
  <2>1. Answer(path, "kopen", NONE) /\ UNCHANGED <<heap, pc, todo, out, text, list, str>>
    BY <1>3 DEF kopen
  <2>2. last'.op = "kopen" /\ op' = "kopen" /\ asked' = <<>>
    BY <2>1 DEF Answer
  <2> QED
    BY <1>1, <2>1, <2>2, OnlyAnswering DEF Calls
<1> QED
  BY <1>2, <1>3

LEMMA Making ==
    ASSUME MemoryIInv, NEW path \in MakePaths, NEW call \in {"create", "mkdir"}, Make(call, path)
    PROVE  MemoryIInv'
<1>1. /\ pc = "idle" /\ last = NoAnswer /\ UNCHANGED <<img, root, held, node>>
  BY DEF Make
<1>2. CASE Trimmed(path) # <<>> /\ root # NULL
  <2>1. PICK d : d = Fresh(heap)
    OBVIOUS
  <2>2. dirName' = d /\ op' = call /\ asked' = path
        /\ BeginKopen(heap \union {d}, Parent(Trimmed(path)))
    BY <1>2, <2>1 DEF Make
  <2>3. d \in Nat
    BY <2>1, HeapFacts DEF Blocks
  <2>4. PICK h, p : h = heap \union {d} /\ p = Parent(Trimmed(path))
    OBVIOUS
  <2> QED
    BY <1>1, <1>2, <2>1, <2>2, <2>3, <2>4, Begun
<1>3. CASE ~(Trimmed(path) # <<>> /\ root # NULL)
  <2>1. PICK ret : Answer(path, call, ret)
    BY <1>3 DEF Make
  <2>2. UNCHANGED <<heap, pc, todo, out, text, list, str, dirName>>
    BY <1>3 DEF Make
  <2>3. last'.op = call /\ op' = "kopen" /\ asked' = <<>>
    BY <2>1 DEF Answer
  <2> QED
    BY <1>1, <2>2, <2>3, OnlyAnswering DEF Calls
<1> QED
  BY <1>2, <1>3

\* Between two calls.
LEMMA IdleFacts ==
    ASSUME MemoryIInv, pc = "idle"
    PROVE  /\ Quiet /\ ~Leaking /\ heap \in SUBSET Blocks /\ IsFiniteSet(heap)
           /\ heap = ({root.id} \ {NONE}) \union Ids \union Dirent
           /\ root.id \notin Ids \union Dirent /\ Ids \intersect Dirent = {}
           /\ Fresh(heap) \in Blocks \ heap
<1>1. Quiet /\ ~Leaking
  BY DEF MemoryIInv, Phases, Leaking
<1>2. /\ heap \in SUBSET Blocks /\ IsFiniteSet(heap) /\ Fresh(heap) \in Blocks \ heap
      /\ Apart(Parts) /\ heap = AllOf(Parts)
  BY <1>1, HeapFacts
<1>3. AllOf(Parts) = ({root.id} \ {NONE}) \union Ids \union Dirent
  BY <1>1, QuietParts
<1>4. NONE \notin Ids /\ NONE \notin Dirent
  BY DEF Ids, HeldAreNodes, Dirent, MemoryIInv
<1>5. /\ Parts[1] \intersect Parts[8] = {} /\ Parts[1] \intersect Parts[9] = {}
      /\ Parts[8] \intersect Parts[9] = {}
  BY <1>2, KindsAre DEF Apart
<1> QED
  BY <1>1, <1>2, <1>3, <1>4, <1>5, PartsAre

\* The calls that do not.
LEMMA Releasing ==
    ASSUME MemoryIInv, NEW n \in held, Release(n) PROVE MemoryIInv'
<1>1. /\ pc = "idle" /\ last = NoAnswer /\ held' = held \ {n} /\ heap' = heap \ {n.id}
      /\ UNCHANGED <<img, root, pc, op, asked, todo, out, text, list, str, dirName, node, last>>
  BY DEF Release
<1>2. /\ Quiet /\ heap \in SUBSET Blocks /\ IsFiniteSet(heap)
      /\ heap = ({root.id} \ {NONE}) \union Ids \union Dirent
      /\ root.id \notin Ids \union Dirent
  BY <1>1, IdleFacts
<1>3. /\ \A m, k \in held : m.id = k.id => m = k
      /\ \A m \in held : m.id # NONE /\ m.ino \in DOMAIN img.inode
  BY DEF MemoryIInv, HeldAreNodes
<1>4. Dirent = {} /\ Dirent' = {} /\ last.op # "readdir"
  BY <1>1 DEF Dirent, NoAnswer
<1>5. Ids' = Ids \ {n.id} /\ n.id \in Ids
  BY <1>1, <1>3 DEF Ids
<1>6. Quiet' /\ HeldAreNodes'
  BY <1>1, <1>2, <1>3 DEF Quiet, HeldAreNodes
<1>7. /\ op' \in Calls /\ asked' \in Paths \union MakePaths \union {<<>>} /\ held' \subseteq Nodes
  BY <1>1 DEF MemoryIInv, TypeOK
<1>8. IsFiniteSet(heap')
  BY <1>1, <1>2, FS_Subset
<1> QED
  BY <1>1, <1>2, <1>4, <1>5, <1>6, <1>7, <1>8, Ending

LEMMA Reading ==
    ASSUME MemoryIInv, NEW n \in held, NEW offset, NEW length, read_fs(n, offset, length)
    PROVE  MemoryIInv'
<1>1. /\ pc = "idle" /\ last = NoAnswer /\ last'.op = "read"
      /\ UNCHANGED <<img, root, heap, held, pc, op, asked, todo, out, text, list, str, dirName, node>>
  BY DEF read_fs
<1>2. op' \in Calls /\ asked' \in Paths \union MakePaths \union {<<>>}
  BY <1>1 DEF MemoryIInv, TypeOK
<1> QED
  BY <1>1, <1>2, OnlyAnswering

LEMMA Listing ==
    ASSUME MemoryIInv, NEW n \in held, NEW index, readdir_fs(n, index)
    PROVE  MemoryIInv'
<1>1. /\ pc = "idle" /\ last = NoAnswer
      /\ UNCHANGED <<img, root, held, op, asked, todo, out, text, list, str, dirName, node>>
  BY DEF readdir_fs
<1>2. op' \in Calls /\ asked' \in Paths \union MakePaths \union {<<>>} /\ held' \subseteq Nodes
  BY <1>1 DEF MemoryIInv, TypeOK
<1>3. /\ Quiet /\ ~Leaking /\ heap \in SUBSET Blocks /\ IsFiniteSet(heap)
      /\ heap = ({root.id} \ {NONE}) \union Ids \union Dirent
      /\ root.id \notin Ids \union Dirent /\ Fresh(heap) \in Blocks \ heap
  BY <1>1, IdleFacts
<1>4. CASE LooksLikeDirectory(Type(n.ino)) /\ Readable(n.ino)
  <2>1. PICK entry, dirent :
            /\ dirent = IF entry = NoEntry THEN NONE ELSE Fresh(heap)
            /\ heap' = (heap \union {dirent}) \ {NONE}
            /\ last' = [op |-> "readdir", dir |-> n.ino, index |-> index,
                        dirent |-> dirent, ret |-> entry]
            /\ pc' = pc
    BY <1>4 DEF readdir_fs
  <2>2. Dirent' = {dirent} \ {NONE} /\ Dirent = {} /\ Ids' = Ids /\ dirent \in Nat
    BY <1>1, <1>3, <2>1 DEF Dirent, Ids, NoAnswer, Blocks, NONE
  <2>3. dirent # NONE => dirent \notin heap
    BY <1>3, <2>1
  <2>4. heap' = heap \union Dirent'
    BY <1>3, <2>1, <2>2 DEF Blocks, NONE
  <2>5. IsFiniteSet(heap')
    <3>1. IsFiniteSet(heap \union {dirent})
      BY <1>3, FS_AddElement
    <3> QED
      BY <2>1, <3>1, FS_Subset
  <2>6. Quiet' /\ HeldAreNodes'
    BY <1>1, <1>3 DEF Quiet, HeldAreNodes, MemoryIInv
  <2>7. root.id \notin Ids' \union Dirent' /\ Ids' \intersect Dirent' = {}
    BY <1>3, <2>2, <2>3
  <2>8. last'.op = "readdir" => last'.dirent \in Nat
    BY <2>1, <2>2
  <2>9. heap' = ({root.id} \ {NONE}) \union Ids' \union Dirent'
    BY <1>3, <2>2, <2>4
  <2> QED
    BY <1>1, <1>2, <2>1, <2>5, <2>6, <2>7, <2>8, <2>9, Ending
<1>5. CASE ~LooksLikeDirectory(Type(n.ino))
  <2>1. last'.dirent = NONE /\ UNCHANGED <<heap, pc>>
    BY <1>5 DEF readdir_fs
  <2> QED
    BY <1>1, <1>2, <2>1, OnlyAnswering
<1>6. CASE LooksLikeDirectory(Type(n.ino)) /\ ~Readable(n.ino)
  <2>1. pc' = "astray" /\ UNCHANGED <<heap, last>>
    BY <1>6 DEF readdir_fs
  <2> QED
    BY <1>1, <1>3, <2>1, Stopping
<1> QED
  BY <1>4, <1>5, <1>6

\* In the loop of canonicalize_path.
LEMMA TokensFacts ==
    ASSUME MemoryIInv, pc = "tokens"
    PROVE  /\ ~Leaking /\ InCall /\ list # NONE /\ str # NONE /\ node = NULL /\ last = NoAnswer
           /\ heap \in SUBSET Blocks /\ IsFiniteSet(heap) /\ heap = AllOf(Parts) /\ Apart(Parts)
           /\ Holding(out, foreach(out), text)
<1>1. ~Leaking /\ InCall /\ list # NONE /\ str # NONE /\ node = NULL /\ last = NoAnswer
  BY DEF MemoryIInv, Phases, Leaking
<1> QED
  BY <1>1, HeapFacts DEF MemoryIInv, ListHolds

LEMMA Skipping ==
    ASSUME MemoryIInv, pc = "tokens",
           UNCHANGED <<img, root, held, pc, op, asked, list, str, dirName, node, last,
                       heap, out, text>>
    PROVE  MemoryIInv'
<1> USE DEF MemoryIInv
<1>1. TypeOK'
  BY DEF TypeOK, Nodes
<1>2. Numbers' /\ ListHolds' /\ HeldAreNodes'
  BY DEF Numbers, ListHolds, HeldAreNodes
<1>3. Parts' = Parts
  BY DEF Parts, Ids, Dirent
<1>4. HeapIsParts'
  BY <1>3 DEF HeapIsParts, Leaking
<1>5. Phases'
  BY DEF Phases, InCall
<1> QED
  BY <1>1, <1>2, <1>4, <1>5

LEMMA Popping ==
    ASSUME MemoryIInv, pc = "tokens", out.tail # NIL, Pop,
           UNCHANGED <<img, root, held, pc, op, asked, list, str, dirName, node, last>>
    PROVE  MemoryIInv'
<1> USE DEF MemoryIInv
<1> DEFINE n == out.tail
           v == out.node[n].value
<1>1. /\ ~Leaking /\ heap \in SUBSET Blocks /\ IsFiniteSet(heap) /\ heap = AllOf(Parts)
      /\ Apart(Parts) /\ Holding(out, foreach(out), text)
  BY TokensFacts
<1>2. heap' = heap \ {n, v} /\ out' = Dropped(list_pop(out), n) /\ text' = Without(text, {v})
  BY DEF Pop, Dropped
<1>3. /\ n \in DOMAIN out.node /\ v \in DOMAIN text
      /\ \E u : Holding(out', u, text')
      /\ DOMAIN out'.node = DOMAIN out.node \ {n} /\ DOMAIN text' = DOMAIN text \ {v}
  BY <1>1, <1>2, PopHolds
<1> HIDE DEF n, v
<1>4. TypeOK'
  BY <1>1, <1>2 DEF TypeOK, Nodes
<1>5. Numbers'
  BY <1>1, <1>2, FS_Subset DEF Numbers
<1>6. ListHolds'
  <2>1. PICK u : Holding(out', u, text')
    BY <1>3
  <2>2. foreach(out') = u
    BY <2>1, ForeachIs DEF Holding, Linked
  <2> QED
    BY <2>1, <2>2 DEF ListHolds
<1>7. HeapIsParts'
  <2>1. /\ Parts'[6] = Parts[6] \ {n} /\ Parts'[7] = Parts[7] \ {v}
        /\ \A i \in Kinds : i # 6 /\ i # 7 => Parts'[i] = Parts[i]
    BY <1>3, KindsAre DEF Parts, Ids, Dirent
  <2>2. Apart(Parts')
    BY <1>1, <2>1, KindsAre, NoNew
  <2>3. n \in Parts[6] /\ v \in Parts[7]
    BY <1>3, PartsAre
  <2>4. AllOf(Parts') = AllOf(Parts) \ {n, v}
    BY <1>1, <2>1, <2>3, KindsAre DEF AllOf, Apart
  <2> QED
    BY <1>1, <1>2, <2>2, <2>4 DEF HeapIsParts
<1>8. HeldAreNodes'
  BY DEF HeldAreNodes
<1>9. Phases'
  BY DEF Phases, InCall
<1> QED
  BY <1>4, <1>5, <1>6, <1>7, <1>8, <1>9

LEMMA Pushing ==
    ASSUME MemoryIInv, pc = "tokens", NEW name, Push(name),
           UNCHANGED <<img, root, held, pc, op, asked, list, str, dirName, node, last>>
    PROVE  MemoryIInv'
<1> USE DEF MemoryIInv
<1> DEFINE v == Fresh(heap)
           n == Fresh(heap \union {v})
<1>1. /\ ~Leaking /\ heap \in SUBSET Blocks /\ IsFiniteSet(heap) /\ heap = AllOf(Parts)
      /\ Apart(Parts) /\ Holding(out, foreach(out), text)
  BY TokensFacts
<1>2. /\ heap' = heap \union {v, n} /\ out' = list_insert(out, n, v)
      /\ text' = Put(text, v, name)
  BY DEF Push
<1>3. v \in Blocks \ heap
  BY <1>1, FreshIsNew
<1> HIDE DEF v
<1>4. heap \union {v} \in SUBSET Blocks /\ IsFiniteSet(heap \union {v})
  BY <1>1, <1>3, FS_AddElement
<1>5. n \in Blocks \ (heap \union {v})
  BY <1>4, FreshIsNew
<1> HIDE DEF n
<1>6. IsFiniteSet(heap')
  <2>1. heap' = (heap \union {v}) \union {n}
    BY <1>2
  <2> QED
    BY <1>4, <2>1, FS_AddElement
<1>7. DOMAIN out.node \subseteq heap /\ DOMAIN text \subseteq heap
  BY <1>1, PartsAre DEF AllOf
<1>8. /\ Holding(out', Append(foreach(out), n), text')
      /\ DOMAIN out'.node = DOMAIN out.node \union {n} /\ DOMAIN text' = DOMAIN text \union {v}
  BY <1>1, <1>2, <1>3, <1>5, <1>7, PushHolds
<1>9. TypeOK'
  BY <1>1, <1>2, <1>3, <1>5 DEF TypeOK, Nodes, Blocks
<1>10. Numbers'
  BY <1>6 DEF Numbers
<1>11. ListHolds'
  <2>1. PICK u : u = Append(foreach(out), n)
    OBVIOUS
  <2>2. foreach(out') = u
    BY <1>8, <2>1, ForeachIs DEF Holding, Linked
  <2> QED
    BY <1>8, <2>1, <2>2 DEF ListHolds
<1>12. HeapIsParts'
  <2>1. /\ Parts'[6] = Parts[6] \union {n} /\ Parts'[7] = Parts[7] \union {v}
        /\ \A i \in Kinds : i # 6 /\ i # 7 => Parts'[i] = Parts[i]
    BY <1>8, KindsAre DEF Parts, Ids, Dirent
  <2>2. Apart(Parts')
    <3>1. TwoMore(Parts, Parts', 6, n, 7, v)
      BY <1>1, <1>3, <1>5, <2>1, KindsAre DEF TwoMore
    <3> QED
      BY <1>1, <3>1, TwoNew
  <2>3. AllOf(Parts') = AllOf(Parts) \union {n, v}
    BY <2>1, KindsAre DEF AllOf
  <2> QED
    BY <1>1, <1>2, <2>2, <2>3 DEF HeapIsParts
<1>13. HeldAreNodes'
  BY DEF HeldAreNodes
<1>14. Phases'
  BY DEF Phases, InCall
<1> QED
  BY <1>9, <1>10, <1>11, <1>12, <1>13, <1>14

\* A name of the path, whichever.
LEMMA NextToken == ASSUME MemoryIInv, Token PROVE MemoryIInv'
<1>1. /\ pc = "tokens"
      /\ UNCHANGED <<img, root, held, pc, op, asked, list, str, dirName, node, last>>
  BY DEF Token
<1>2. CASE out.tail # NIL /\ Pop
  BY <1>1, <1>2, Popping
<1>3. CASE UNCHANGED <<heap, out, text>>
  BY <1>1, <1>3, Skipping
<1>4. CASE Push(Tok.token)
  <2>1. PICK name : name = Tok.token
    OBVIOUS
  <2> QED
    BY <1>1, <1>4, <2>1, Pushing
<1> QED
  BY <1>2, <1>3, <1>4 DEF Token
-----------------------------------------------------------------------------
(* The end of canonicalize_path *)

\* What goes with the list is the header, the nodes and their strings.
LEMMA ListBlocksAre ==
    ASSUME MemoryIInv, pc = "tokens"
    PROVE  ListBlocks = {list} \union DOMAIN out.node \union DOMAIN text
<1> DEFINE s == foreach(out)
<1>1. Holding(out, s, text)
  BY TokensFacts
<1>2. /\ s \in Seq(Blocks) /\ Len(s) \in Nat /\ \A i \in 1..Len(s) : s[i] \in DOMAIN out.node
      /\ DOMAIN s = 1..Len(s)
  BY <1>1, GoesOnFacts DEF Holding, Linked
<1>3. ToSet(s) = {s[i] : i \in 1..Len(s)}
  BY <1>2 DEF ToSet
<1> HIDE DEF s
<1>4. ToSet(s) = DOMAIN out.node
  BY <1>1, <1>2, <1>3 DEF Holding
<1>5. list_free(out) = DOMAIN out.node
  BY <1>4 DEF list_free, s
<1>6. list_destroy(out) = {out.node[n].value : n \in DOMAIN out.node}
  BY <1>4 DEF list_destroy, s
<1>7. {out.node[n].value : n \in DOMAIN out.node} = DOMAIN text
  <2>1. \A v : v \in {out.node[n].value : n \in DOMAIN out.node} <=> v \in DOMAIN text
    BY <1>1 DEF Holding
  <2> QED
    BY <2>1
<1> QED
  BY <1>5, <1>6, <1>7 DEF ListBlocks

\* The list is given back, and the string replaced by another, or by nothing; in
\* the end the heap has what is left, and what is lost if there is no string.
LEMMA Joining ==
    ASSUME MemoryIInv, pc = "tokens", Discard, str' \in Nat, str' \notin heap \ {str},
           NEW more \in SUBSET Blocks, IsFiniteSet(more),
           heap' = ((heap \ {str}) \union more) \ ListBlocks,
           str' # NONE => more = {str'}, str' = NONE => pc' = "root", pc' \in {"root", "walk"},
           UNCHANGED <<img, root, held, op, asked, dirName, node, last>>
    PROVE  MemoryIInv'
<1> USE DEF MemoryIInv
<1>1. /\ ~Leaking /\ InCall /\ list # NONE /\ str # NONE /\ node = NULL /\ last = NoAnswer
      /\ heap \in SUBSET Blocks /\ IsFiniteSet(heap) /\ heap = AllOf(Parts) /\ Apart(Parts)
  BY TokensFacts
<1>2. ListBlocks = Parts[2] \union Parts[6] \union Parts[7]
  BY <1>1, ListBlocksAre, PartsAre
<1>3. list' = NONE /\ out' = list_create /\ text' = <<>>
  BY DEF Discard
<1>4. heap' \subseteq Blocks /\ IsFiniteSet(heap')
  <2>1. IsFiniteSet(heap \union more)
    BY <1>1, FS_Union
  <2>2. heap' \subseteq heap \union more
    OBVIOUS
  <2> QED
    BY <1>1, <2>1, <2>2, FS_Subset
<1>5. TypeOK'
  BY <1>3, <1>4 DEF TypeOK, Nodes, Blocks
<1>6. Numbers'
  BY <1>3, <1>4 DEF Numbers, NONE
<1>7. ListHolds'
  BY <1>3, EmptyListHolds DEF ListHolds
<1>8. /\ Parts'[2] = {} /\ Parts'[3] = {str'} \ {NONE} /\ Parts'[6] = {} /\ Parts'[7] = {}
      /\ \A i \in {1, 4, 5, 8, 9} : Parts'[i] = Parts[i]
  <2>1. DOMAIN out'.node = {} /\ DOMAIN text' = {}
    BY <1>3, EmptyLinked
  <2> QED
    BY <1>3, <2>1 DEF Parts, Ids, Dirent
<1>9. Parts[3] = {str}
  BY <1>1, PartsAre
<1>10. Apart(Parts')
  <2> DEFINE q == <<Parts[1], {}, {}, Parts[4], Parts[5], {}, {}, Parts[8], Parts[9]>>
  <2>1. /\ q[2] = {} /\ q[3] = {} /\ q[6] = {} /\ q[7] = {}
        /\ \A i \in {1, 4, 5, 8, 9} : q[i] = Parts[i]
    OBVIOUS
  <2> HIDE DEF q
  <2>2. Apart(q)
    BY <1>1, <2>1, KindsAre, NoNew
  <2>3. AllOf(q) \subseteq heap \ {str}
    BY <1>1, <1>9, <2>1, KindsAre DEF AllOf, Apart
  <2>4. OneMore(q, Parts', 3, str')
    BY <1>8, <2>1, <2>3, KindsAre DEF OneMore
  <2> QED
    BY <2>2, <2>4, OneNew
<1>11. AllOf(Parts') \ Parts'[3] = (heap \ {str}) \ ListBlocks
  BY <1>1, <1>2, <1>8, <1>9, <1>10, KindsAre DEF AllOf, Apart
<1>12. HeapIsParts'
  <2>1. CASE str' = NONE
    <3>1. AllOf(Parts') \subseteq heap' /\ Leaking'
      BY <1>8, <1>11, <2>1 DEF Leaking
    <3> QED
      BY <1>10, <3>1 DEF HeapIsParts
  <2>2. CASE str' # NONE
    <3>1. Parts'[3] = {str'} /\ Parts'[3] \subseteq AllOf(Parts') /\ str' \notin ListBlocks
      <4>1. ListBlocks \subseteq heap \ {str}
        BY <1>1, <1>2, <1>9, KindsAre DEF AllOf, Apart
      <4> QED
        BY <1>8, <2>2, <4>1 DEF AllOf
    <3>2. heap' = ((heap \ {str}) \ ListBlocks) \union {str'}
      BY <2>2, <3>1
    <3>3. AllOf(Parts') = heap'
      BY <1>11, <3>1, <3>2
    <3> QED
      BY <1>10, <3>3 DEF HeapIsParts
  <2> QED
    BY <2>1, <2>2
<1>13. HeldAreNodes'
  BY DEF HeldAreNodes
<1>14. Phases'
  BY <1>1, <1>3 DEF Phases, InCall, NoList
<1> QED
  BY <1>5, <1>6, <1>7, <1>12, <1>13, <1>14

LEMMA JoiningNames == ASSUME MemoryIInv, Joined PROVE MemoryIInv'
<1>1. /\ pc = "tokens" /\ str' = Fresh(heap \ {str})
      /\ heap' = ((heap \ {str}) \union {str'}) \ ListBlocks
      /\ Discard /\ pc' = "walk"
      /\ UNCHANGED <<img, root, held, op, asked, dirName, node, last>>
  BY DEF Joined
<1>2. heap \ {str} \in SUBSET Blocks /\ IsFiniteSet(heap \ {str})
  BY HeapFacts, FS_Subset
<1>3. str' \in Blocks \ (heap \ {str})
  BY <1>1, <1>2, FreshIsNew
<1>4. str' # NONE /\ str' \in Nat /\ {str'} \in SUBSET Blocks
  BY <1>3 DEF Blocks, NONE
<1>5. IsFiniteSet({str'})
  BY FS_Singleton
<1>6. PICK more : more = {str'}
  OBVIOUS
<1> QED
  BY <1>1, <1>3, <1>4, <1>5, <1>6, Joining

LEMMA JoiningNothing == ASSUME MemoryIInv, JoinedEmpty PROVE MemoryIInv'
<1> DEFINE h == heap \ {str}
           output == Fresh(h)
           got == h \union {output}
           other == Fresh(got)
<1>1. /\ pc = "tokens" /\ Discard /\ pc' = "root"
      /\ UNCHANGED <<img, root, held, op, asked, dirName, node, last>>
      /\ \/ /\ str' = other
            /\ heap' = ((got \union {other}) \ {output}) \ ListBlocks
         \/ str' = NONE /\ heap' = got \ ListBlocks
  BY DEF JoinedEmpty
<1>2. h \in SUBSET Blocks /\ IsFiniteSet(h)
  BY HeapFacts, FS_Subset
<1> HIDE DEF h
<1>3. output \in Blocks \ h
  BY <1>2, FreshIsNew
<1> HIDE DEF output
<1>4. got \in SUBSET Blocks /\ IsFiniteSet(got)
  BY <1>2, <1>3, FS_AddElement
<1> HIDE DEF got
<1>5. other \in Blocks \ got
  BY <1>4, FreshIsNew
<1> HIDE DEF other
<1>6. CASE str' = other /\ heap' = ((got \union {other}) \ {output}) \ ListBlocks
  <2>1. (got \union {other}) \ {output} = h \union {str'}
    BY <1>3, <1>5, <1>6 DEF got
  <2>2. /\ str' # NONE /\ str' \in Nat /\ {str'} \in SUBSET Blocks /\ str' \notin heap \ {str}
        /\ heap' = ((heap \ {str}) \union {str'}) \ ListBlocks
    BY <1>5, <1>6, <2>1 DEF Blocks, NONE, got, h
  <2>3. IsFiniteSet({str'})
    BY FS_Singleton
  <2>4. PICK more : more = {str'}
    OBVIOUS
  <2> QED
    BY <1>1, <2>2, <2>3, <2>4, Joining
<1>7. CASE str' = NONE /\ heap' = got \ ListBlocks
  <2>1. PICK more : more = {output}
    OBVIOUS
  <2>2. more \in SUBSET Blocks /\ IsFiniteSet(more)
    BY <1>3, <2>1, FS_Singleton
  <2>3. /\ str' \in Nat /\ str' \notin heap \ {str}
        /\ heap' = ((heap \ {str}) \union more) \ ListBlocks
    BY <1>2, <1>7, <2>1 DEF got, h, Blocks, NONE
  <2> QED
    BY <1>1, <1>7, <2>2, <2>3, Joining
<1> QED
  BY <1>1, <1>6, <1>7
-----------------------------------------------------------------------------
(* The entries of a directory *)

\* f[n] is the first n of the sequences, one behind the other.
Strung(f, N, g, at) ==
    f = [n \in 0..N |-> IF n = 0 THEN <<>> ELSE f[n - 1] \o g[at[n]]]

\* Such a function exists, for as many sequences as there are.
LEMMA StrungExists ==
    ASSUME NEW g, NEW at, NEW N \in Nat
    PROVE  \E f : Strung(f, N, g, at)
<1> DEFINE Bad == {n \in Nat : ~ \E f : Strung(f, n, g, at)}
<1> SUFFICES ASSUME Bad # {} PROVE FALSE
  OBVIOUS
<1>1. Bad \in SUBSET Nat
  OBVIOUS
<1>2. PICK n \in Bad : \A m \in Bad : n <= m
  <2> HIDE DEF Bad
  <2> QED
    BY <1>1, LeastElement
<1>3. n \in Nat /\ ~ \E f : Strung(f, n, g, at)
  BY <1>2
<1>4. CASE n = 0
  <2> DEFINE f == [k \in 0..0 |-> <<>>]
  <2>1. f = [k \in 0..n |-> IF k = 0 THEN <<>> ELSE f[k - 1] \o g[at[k]]]
    BY <1>4
  <2> QED
    BY <1>3, <2>1 DEF Strung
<1>5. CASE n # 0
  <2>1. n - 1 \in Nat /\ n - 1 \notin Bad
    BY <1>2, <1>3, <1>5
  <2>2. PICK f : Strung(f, n - 1, g, at)
    BY <2>1
  <2> DEFINE h == [k \in 0..n |-> IF k = n THEN f[n - 1] \o g[at[n]] ELSE f[k]]
  <2>3. \A k \in 0..(n - 1) : f[k] = IF k = 0 THEN <<>> ELSE f[k - 1] \o g[at[k]]
    BY <2>2 DEF Strung
  <2>4. \A k \in 0..n : h[k] = IF k = n THEN f[n - 1] \o g[at[n]] ELSE f[k]
    OBVIOUS
  <2> HIDE DEF h
  <2>5. ASSUME NEW k \in 0..n PROVE h[k] = IF k = 0 THEN <<>> ELSE h[k - 1] \o g[at[k]]
    <3>1. CASE k = n
      <4>1. n - 1 \in 0..n /\ n - 1 # n
        BY <1>3, <1>5
      <4>2. h[n - 1] = f[n - 1]
        BY <2>4, <4>1
      <4> QED
        BY <1>5, <2>4, <3>1, <4>2
    <3>2. CASE k # n
      <4>1. k \in 0..(n - 1) /\ h[k] = f[k]
        BY <1>3, <2>4, <3>2
      <4>2. CASE k = 0
        BY <2>3, <4>1, <4>2
      <4>3. CASE k # 0
        <5>1. k - 1 \in 0..n /\ k - 1 # n
          BY <1>3, <3>2, <4>3
        <5>2. h[k - 1] = f[k - 1]
          BY <2>4, <5>1
        <5> QED
          BY <2>3, <4>1, <4>3, <5>2
      <4> QED
        BY <4>2, <4>3
    <3> QED
      BY <3>1, <3>2
  <2>6. h = [k \in 0..n |-> h[k]]
    BY DEF h
  <2>7. h = [k \in 0..n |-> IF k = 0 THEN <<>> ELSE h[k - 1] \o g[at[k]]]
    BY <2>5, <2>6
  <2> QED
    BY <1>3, <2>7 DEF Strung
<1> QED
  BY <1>4, <1>5

LEMMA StrungIn ==
    ASSUME NEW g, NEW at, NEW N \in Nat, NEW f, Strung(f, N, g, at), NEW S,
           \A n \in 1..N : g[at[n]] \in Seq(S)
    PROVE  \A n \in 0..N : f[n] \in Seq(S)
<1> DEFINE Bad == {n \in 0..N : f[n] \notin Seq(S)}
<1> SUFFICES ASSUME Bad # {} PROVE FALSE
  OBVIOUS
<1>1. Bad \in SUBSET Nat
  OBVIOUS
<1>2. PICK n \in Bad : \A m \in Bad : n <= m
  <2> HIDE DEF Bad
  <2> QED
    BY <1>1, LeastElement
<1>3. n \in 0..N /\ f[n] \notin Seq(S)
  BY <1>2
<1>4. f[n] = IF n = 0 THEN <<>> ELSE f[n - 1] \o g[at[n]]
  BY <1>3 DEF Strung
<1>5. n # 0
  <2>1. <<>> \in Seq(S)
    OBVIOUS
  <2> QED
    BY <1>3, <1>4, <2>1
<1>6. n - 1 \in 0..N /\ n - 1 \notin Bad /\ n \in 1..N
  BY <1>2, <1>3, <1>5
<1>7. f[n - 1] \in Seq(S) /\ g[at[n]] \in Seq(S)
  BY <1>6
<1>8. f[n - 1] \o g[at[n]] \in Seq(S)
  BY <1>7, ConcatProperties
<1> QED
  BY <1>3, <1>4, <1>5, <1>8

DirEntries == [name : Seq(STRING), ino : DOMAIN img.inode]

\* What is in a directory is in one of its blocks.
LEMMA EntriesIn ==
    ASSUME img \in Images, NEW ino \in DOMAIN img.inode, Readable(ino)
    PROVE  Entries(ino) \in Seq(DirEntries)
<1> DEFINE at == Scanned(ino)
           N == Len(at)
<1>1. N \in Nat /\ DOMAIN at = 1..N
  <2>1. img.inode[ino].blocks \in Seq(Nat)
    BY ImageFacts
  <2>2. DOMAIN at = 1..Len(img.inode[ino].blocks) /\ Len(img.inode[ino].blocks) \in Nat
    BY <2>1 DEF Scanned
  <2>3. Len(at) = Len(img.inode[ino].blocks)
    BY <2>1 DEF Scanned
  <2> QED
    BY <2>2, <2>3
<1>2. \A n \in 1..N : img.block[at[n]] \in Seq(DirEntries)
  BY <1>1, ImageFacts DEF Readable, DirEntries
<1>3. Entries(ino) = (CHOOSE f : Strung(f, N, img.block, at))[N]
  BY DEF Entries, Strung
<1> HIDE DEF at
<1>4. Strung(CHOOSE f : Strung(f, N, img.block, at), N, img.block, at)
  BY <1>1, StrungExists
<1>5. PICK f : f = (CHOOSE k : Strung(k, N, img.block, at))
  OBVIOUS
<1>6. \A n \in 0..N : f[n] \in Seq(DirEntries)
  BY <1>1, <1>2, <1>4, <1>5, StrungIn
<1> QED
  BY <1>1, <1>3, <1>5, <1>6

\* What is found is an inode of the ramdisk.
LEMMA LookupIn ==
    ASSUME img \in Images, NEW ino \in DOMAIN img.inode, Readable(ino), NEW name,
           Lookup(ino, name) # NONE
    PROVE  Lookup(ino, name) \in DOMAIN img.inode
<1> DEFINE M == Matches(ino, name)
           E == Entries(ino)
<1>1. E \in Seq(DirEntries)
  BY EntriesIn
<1>2. M \in SUBSET Nat /\ M \subseteq DOMAIN E
  BY <1>1 DEF Matches
<1>3. M # {} /\ Lookup(ino, name) = E[CHOOSE i \in M : \A j \in M : i <= j].ino
  BY DEF Lookup
<1> HIDE DEF M, E
<1>4. \E i \in M : \A j \in M : i <= j
  BY <1>2, <1>3, LeastElement
<1>5. PICK i \in DOMAIN E : i = (CHOOSE k \in M : \A j \in M : k <= j)
  BY <1>2, <1>4
<1>6. E[i] \in DirEntries
  BY <1>1
<1> QED
  BY <1>3, <1>5, <1>6 DEF DirEntries
-----------------------------------------------------------------------------
(* The walk *)

\* What is allocated from the end of canonicalize_path on.
LEMMA WalkFacts ==
    ASSUME MemoryIInv, pc \in {"root", "walk", "find", "use"}
    PROVE  /\ InCall /\ NoList /\ last = NoAnswer /\ root.id # NONE /\ root \in Nodes
           /\ root.ino = RootInode /\ Dirent = {} /\ NONE \notin Ids
           /\ heap \in SUBSET Blocks /\ IsFiniteSet(heap) /\ Fresh(heap) \in Blocks \ heap
           /\ AllOf(Parts) = {root.id} \union ({str} \ {NONE}) \union ({dirName} \ {NONE})
                             \union ({node.id} \ {NONE}) \union Ids
           /\ AllOf(Parts) \subseteq heap /\ (~Leaking => heap = AllOf(Parts))
           /\ Apart(Parts)
           /\ Parts[2] = {} /\ Parts[6] = {} /\ Parts[7] = {} /\ Parts[9] = {}
<1>1. /\ InCall /\ NoList /\ last = NoAnswer /\ root.id # NONE
      /\ root.ino = RootInode
  BY DEF MemoryIInv, Phases, InCall
<1>2. root \in Nodes /\ Dirent = {} /\ NONE \notin Ids
  BY <1>1 DEF MemoryIInv, TypeOK, Dirent, NoAnswer, Ids, HeldAreNodes
<1>3. /\ heap \in SUBSET Blocks /\ IsFiniteSet(heap) /\ Fresh(heap) \in Blocks \ heap
      /\ Apart(Parts) /\ AllOf(Parts) \subseteq heap /\ (~Leaking => heap = AllOf(Parts))
  BY HeapFacts
<1>4. DOMAIN out.node = {} /\ DOMAIN text = {} /\ list = NONE
  BY <1>1, EmptyLinked DEF NoList
<1>5. Parts[2] = {} /\ Parts[6] = {} /\ Parts[7] = {} /\ Parts[9] = {}
  BY <1>2, <1>4, PartsAre
<1>6. AllOf(Parts) = {root.id} \union ({str} \ {NONE}) \union ({dirName} \ {NONE})
                     \union ({node.id} \ {NONE}) \union Ids
  BY <1>1, <1>5, PartsAre DEF AllOf
<1> QED
  BY <1>1, <1>2, <1>3, <1>5, <1>6

\* The pointers are not to the same objects.
LEMMA WalkApart ==
    ASSUME MemoryIInv, pc \in {"root", "walk", "find", "use"}
    PROVE  /\ root.id \notin Ids /\ root.id # str /\ root.id # dirName /\ root.id # node.id
           /\ str \notin Ids /\ dirName \notin Ids /\ node.id \notin Ids
           /\ str = dirName => str = NONE
           /\ str = node.id => str = NONE
           /\ dirName = node.id => dirName = NONE
<1>1. Apart(Parts) /\ root.id # NONE /\ NONE \notin Ids
  BY WalkFacts
<1>2. /\ Parts[1] = {root.id} \ {NONE} /\ Parts[3] = {str} \ {NONE}
      /\ Parts[4] = {dirName} \ {NONE} /\ Parts[5] = {node.id} \ {NONE} /\ Parts[8] = Ids
  BY PartsAre
<1>3. /\ Parts[1] \intersect Parts[8] = {} /\ Parts[1] \intersect Parts[3] = {}
      /\ Parts[1] \intersect Parts[4] = {} /\ Parts[1] \intersect Parts[5] = {}
      /\ Parts[3] \intersect Parts[8] = {} /\ Parts[4] \intersect Parts[8] = {}
      /\ Parts[5] \intersect Parts[8] = {} /\ Parts[3] \intersect Parts[4] = {}
      /\ Parts[3] \intersect Parts[5] = {} /\ Parts[4] \intersect Parts[5] = {}
  BY <1>1, KindsAre DEF Apart
<1> QED
  BY <1>1, <1>2, <1>3

\* kopen returns a new node, or none.
LEMMA Returning ==
    ASSUME MemoryIInv, pc \in {"root", "find"}, NEW h, NEW n, Return(h, n), IsFiniteSet(h),
           UNCHANGED <<img, root, out, text, list>>,
           h = ({root.id} \union Ids \union ({dirName} \ {NONE})) \union ({n.id} \ {NONE}),
           n = NULL \/ (/\ n \in Nodes /\ n.id # NONE /\ n.ino \in DOMAIN img.inode
                        /\ n.id \notin Ids /\ n.id # root.id /\ n.id # dirName)
    PROVE  MemoryIInv'
<1>1. /\ InCall /\ NoList /\ last = NoAnswer /\ root.id # NONE /\ Dirent = {}
      /\ NONE \notin Ids /\ root.id \notin Ids /\ root.id # dirName /\ dirName \notin Ids
  BY WalkFacts, WalkApart
<1>2. /\ held \subseteq Nodes /\ op \in Calls /\ asked \in Paths \union MakePaths \union {<<>>}
  BY DEF MemoryIInv, TypeOK
<1>3. NULL.id = NONE
  BY DEF NULL
<1>4. HeldAreNodes
  BY DEF MemoryIInv
<1>5. str' = NONE
  BY DEF Return
<1>6. dirName # NONE <=> op # "kopen"
  BY <1>1 DEF InCall
<1>7. CASE op = "kopen"
  <2>1. /\ pc' = "idle" /\ node' = NULL /\ heap' = h /\ dirName' = dirName
        /\ held' = (IF n = NULL THEN held ELSE held \union {n}) /\ Answer(asked, op, n.ino)
    BY <1>7 DEF Return
  <2>2. last'.op = "kopen" /\ op' = "kopen" /\ asked' = <<>>
    BY <1>7, <2>1 DEF Answer
  <2>3. dirName = NONE /\ Quiet' /\ Dirent' = {}
    BY <1>1, <1>5, <1>6, <1>7, <2>1, <2>2 DEF Quiet, NoList, Dirent
  <2>4. held' \subseteq Nodes /\ HeldAreNodes' /\ Ids' = Ids \union ({n.id} \ {NONE})
    <3>1. CASE n = NULL
      <4>1. held' = held /\ n.id = NONE
        BY <1>3, <2>1, <3>1
      <4> QED
        BY <1>2, <1>4, <4>1 DEF HeldAreNodes, Ids
    <3>2. CASE n # NULL
      <4>1. held' = held \union {n} /\ n.id # NONE /\ n \in Nodes /\ n.ino \in DOMAIN img.inode
        BY <2>1, <3>2
      <4>2. \A m \in held : m.id # n.id
        BY <3>2 DEF Ids
      <4>3. HeldAreNodes'
        BY <1>4, <4>1, <4>2 DEF HeldAreNodes
      <4>4. Ids' = Ids \union {n.id}
        BY <4>1 DEF Ids
      <4> QED
        BY <1>2, <4>1, <4>3, <4>4
    <3> QED
      BY <3>1, <3>2
  <2>5. root.id \notin Ids' \union Dirent' /\ Ids' \intersect Dirent' = {}
    BY <1>1, <1>3, <2>3, <2>4
  <2>6. heap' = ({root.id} \ {NONE}) \union Ids' \union Dirent'
    BY <1>1, <2>1, <2>3, <2>4
  <2> QED
    BY <1>2, <1>7, <2>1, <2>2, <2>3, <2>4, <2>5, <2>6, Ending
<1>8. CASE op # "kopen" /\ n = NULL
  <2>1. /\ pc' = "idle" /\ node' = NULL /\ heap' = h \ {dirName} /\ dirName' = NONE
        /\ Answer(asked, op, NoParent(op)) /\ held' = held
    BY <1>8 DEF Return
  <2>2. last'.op = op /\ op' = "kopen" /\ asked' = <<>>
    BY <2>1 DEF Answer
  <2>3. Quiet' /\ Dirent' = {} /\ Ids' = Ids /\ HeldAreNodes' /\ last'.op # "readdir"
    BY <1>1, <1>2, <1>4, <1>5, <2>1, <2>2
       DEF Quiet, NoList, Dirent, Ids, HeldAreNodes, Calls
  <2>4. heap' = ({root.id} \ {NONE}) \union Ids' \union Dirent'
    BY <1>1, <1>3, <1>8, <2>1, <2>3
  <2>5. IsFiniteSet(heap')
    BY <2>1, FS_Subset
  <2>6. op' \in Calls
    BY <2>2 DEF Calls
  <2> QED
    BY <1>1, <1>2, <2>1, <2>2, <2>3, <2>4, <2>5, <2>6, Ending
<1>9. CASE op # "kopen" /\ n # NULL
  <2>1. /\ pc' = "use" /\ node' = n /\ heap' = h
        /\ UNCHANGED <<held, last, dirName, op, asked>>
    BY <1>9 DEF Return
  <2>2. /\ n \in Nodes /\ n.id # NONE /\ n.ino \in DOMAIN img.inode
        /\ n.id \notin Ids /\ n.id # root.id /\ n.id # dirName
    BY <1>9
  <2>3. TypeOK'
    <3>1. heap' \subseteq Nat \ {0}
      <4>1. root \in Nodes /\ dirName \in Nat
        BY DEF MemoryIInv, TypeOK, Numbers
      <4>2. Ids \subseteq Nat
        BY <1>2 DEF Ids, Nodes
      <4> QED
        BY <1>1, <2>1, <2>2, <4>1, <4>2 DEF Nodes, NONE
    <3> QED
      BY <2>1, <2>2, <3>1 DEF MemoryIInv, TypeOK, Nodes
  <2>4. Numbers' /\ ListHolds' /\ HeldAreNodes'
    BY <1>5, <2>1 DEF MemoryIInv, Numbers, ListHolds, HeldAreNodes, NONE
  <2>5. HeapIsParts'
    <3>1. /\ Parts'[3] = {} /\ Parts'[5] = {n.id}
          /\ \A i \in Kinds : i # 3 /\ i # 5 => Parts'[i] = Parts[i]
      BY <1>5, <2>1, <2>2, KindsAre DEF Parts, Ids, Dirent
    <3> DEFINE q == <<Parts[1], Parts[2], {}, Parts[4], {}, Parts[6], Parts[7], Parts[8], Parts[9]>>
    <3>2. /\ q[3] = {} /\ q[5] = {} /\ \A i \in Kinds : i # 3 /\ i # 5 => q[i] = Parts[i]
      BY KindsAre
    <3> HIDE DEF q
    <3>3. /\ Apart(Parts) /\ Parts[2] = {} /\ Parts[6] = {} /\ Parts[7] = {} /\ Parts[9] = {}
          /\ Parts[1] = {root.id} \ {NONE} /\ Parts[4] = {dirName} \ {NONE} /\ Parts[8] = Ids
      BY WalkFacts, PartsAre
    <3>4. Apart(q)
      BY <3>2, <3>3, KindsAre, NoNew
    <3>5. AllOf(q) = {root.id} \union Ids \union ({dirName} \ {NONE})
      BY <1>1, <3>2, <3>3, KindsAre DEF AllOf
    <3>6. OneMore(q, Parts', 5, n.id)
      BY <2>2, <3>1, <3>2, <3>5, KindsAre DEF OneMore
    <3>7. Apart(Parts')
      BY <3>4, <3>6, OneNew
    <3>8. AllOf(Parts') = heap'
      BY <2>1, <2>2, <3>1, <3>2, <3>5, KindsAre DEF AllOf
    <3> QED
      BY <3>7, <3>8 DEF HeapIsParts
  <2>6. Phases'
    BY <1>1, <1>5, <1>9, <2>1, <2>2 DEF MemoryIInv, Phases, InCall, NoList
  <2> QED
    BY <2>3, <2>4, <2>5, <2>6 DEF MemoryIInv
<1> QED
  BY <1>7, <1>8, <1>9

\* The steps of kopen after canonicalize_path, one by one.
LEMMA Cloning == ASSUME MemoryIInv, CloneRoot PROVE MemoryIInv'
<1> DEFINE c == Fresh(heap)
           n == [root EXCEPT !.id = c]
           h == (heap \union {c}) \ {str}
<1>1. pc = "root" /\ str # NONE /\ Return(h, n) /\ UNCHANGED <<img, root, out, text, list>>
  BY DEF CloneRoot
<1>2. /\ root \in Nodes /\ root.ino = RootInode /\ NONE \notin Ids
      /\ heap \in SUBSET Blocks /\ IsFiniteSet(heap) /\ c \in Blocks \ heap
      /\ AllOf(Parts) = {root.id} \union ({str} \ {NONE}) \union ({dirName} \ {NONE})
                        \union ({node.id} \ {NONE}) \union Ids
      /\ (~Leaking => heap = AllOf(Parts))
  BY <1>1, WalkFacts
<1>3. ~Leaking /\ node.id = NONE
  BY <1>1 DEF Leaking, MemoryIInv, Phases, NULL
<1>4. /\ root.id \notin Ids /\ root.id # str /\ str \notin Ids /\ str # dirName
  BY <1>1, WalkApart
<1> HIDE DEF c
<1>5. n.id = c /\ n.ino = RootInode /\ n \in Nodes /\ c # NONE
  BY <1>2 DEF Nodes, Blocks, NONE
<1> HIDE DEF n
<1>6. h = ({root.id} \union Ids \union ({dirName} \ {NONE})) \union ({n.id} \ {NONE})
  BY <1>1, <1>2, <1>3, <1>4, <1>5
<1>7. RootInode \in DOMAIN img.inode
  BY ImageFacts DEF MemoryIInv, TypeOK
<1>8. c \notin Ids /\ c # root.id /\ c # dirName
  BY <1>2, <1>3, <1>5
<1>9. IsFiniteSet(h)
  <2>1. IsFiniteSet(heap \union {c})
    BY <1>2, FS_AddElement
  <2> QED
    BY <2>1, FS_Subset
<1> HIDE DEF h
<1> QED
  BY <1>1, <1>5, <1>6, <1>7, <1>8, <1>9, Returning

\* A copy of the root is the node from which the search starts, or all there is.
LEMMA Copying ==
    ASSUME MemoryIInv, pc \in {"root", "walk"}, node' = [root EXCEPT !.id = Fresh(heap)],
           heap' = heap \union {Fresh(heap)},
           \/ pc = "root" /\ str = NONE /\ pc' = "null"
           \/ pc = "walk" /\ pc' = "find",
           UNCHANGED <<img, root, held, op, asked, out, text, list, str, dirName, last>>
    PROVE  MemoryIInv'
<1> USE DEF MemoryIInv
<1> DEFINE c == Fresh(heap)
<1>1. /\ root \in Nodes /\ root.ino = RootInode /\ InCall /\ NoList /\ last = NoAnswer
      /\ heap \in SUBSET Blocks /\ IsFiniteSet(heap) /\ c \in Blocks \ heap
      /\ Apart(Parts) /\ AllOf(Parts) \subseteq heap /\ (~Leaking => heap = AllOf(Parts))
  BY WalkFacts
<1>2. node = NULL /\ node.id = NONE /\ (pc = "walk" => str # NONE)
  BY DEF Phases, NULL
<1> HIDE DEF c
<1>3. node'.id = c /\ node'.ino = RootInode /\ node' \in Nodes /\ c # NONE
  BY <1>1 DEF c, Nodes, Blocks, NONE
<1>4. RootInode \in DOMAIN img.inode
  BY ImageFacts DEF TypeOK
<1>5. heap' = heap \union {c} /\ IsFiniteSet(heap')
  <2>1. heap' = heap \union {c}
    BY DEF c
  <2>2. IsFiniteSet(heap \union {c})
    BY <1>1, FS_AddElement
  <2> QED
    BY <2>1, <2>2
<1>6. TypeOK'
  BY <1>1, <1>3, <1>5 DEF TypeOK, Nodes, Blocks, Lost
<1>7. Numbers' /\ ListHolds' /\ HeldAreNodes'
  BY <1>5 DEF Numbers, ListHolds, HeldAreNodes
<1>8. HeapIsParts'
  <2>1. /\ Parts'[5] = {c} /\ Parts[5] = {}
        /\ \A i \in Kinds : i # 5 => Parts'[i] = Parts[i]
    BY <1>2, <1>3, KindsAre DEF Parts, Ids, Dirent
  <2>2. OneMore(Parts, Parts', 5, c)
    BY <1>1, <2>1, KindsAre DEF OneMore
  <2>3. Apart(Parts')
    BY <1>1, <2>2, OneNew
  <2>4. AllOf(Parts') = AllOf(Parts) \union {c}
    BY <2>1, KindsAre DEF AllOf
  <2> QED
    BY <1>1, <1>5, <2>3, <2>4 DEF HeapIsParts, Leaking
<1>9. Phases'
  BY <1>1, <1>2, <1>3, <1>4 DEF Phases, InCall, NoList
<1> QED
  BY <1>6, <1>7, <1>8, <1>9

LEMMA FindFacts ==
    ASSUME MemoryIInv, pc = "find"
    PROVE  /\ node.ino \in DOMAIN img.inode /\ node.id # NONE /\ str # NONE /\ img \in Images
           /\ IsFiniteSet(heap) /\ Fresh(heap) \in Blocks \ heap
           /\ heap = {root.id, str, node.id} \union ({dirName} \ {NONE}) \union Ids
           /\ str \notin Ids \union {root.id, dirName, node.id}
           /\ node.id \notin Ids \union {root.id, dirName}
<1>1. node.ino \in DOMAIN img.inode /\ node.id # NONE /\ str # NONE /\ img \in Images
  BY DEF MemoryIInv, Phases, TypeOK
<1>2. ~Leaking
  BY DEF Leaking
<1>3. /\ IsFiniteSet(heap) /\ Fresh(heap) \in Blocks \ heap /\ heap = AllOf(Parts)
      /\ AllOf(Parts) = {root.id} \union ({str} \ {NONE}) \union ({dirName} \ {NONE})
                        \union ({node.id} \ {NONE}) \union Ids
  BY <1>2, WalkFacts
<1> QED
  BY <1>1, <1>3, WalkApart

LEMMA Finding == ASSUME MemoryIInv, Find PROVE MemoryIInv'
<1> DEFINE c == Fresh(heap)
           ino == Lookup(node.ino, UpTo(todo, NUL))
<1>1. /\ pc = "find" /\ Readable(node.ino) /\ ino # NONE
      /\ UNCHANGED <<img, root, out, text, list>>
  BY DEF Find
<1>2. PICK garbage \in BOOLEAN :
          LET n == [id |-> c, ino |-> ino, mkdir |-> garbage]
              h == Replaced(n.id)
          IN \/ NUL \notin ToSet(todo) /\ Return(h \ {str}, n)
             \/ /\ NUL \in ToSet(todo) /\ node' = n /\ heap' = h
                /\ todo' = Behind(todo, NUL)
                /\ UNCHANGED <<held, pc, str, dirName, last, op, asked>>
  BY DEF Find
<1>3. /\ node.ino \in DOMAIN img.inode /\ node.id # NONE /\ str # NONE /\ img \in Images
      /\ IsFiniteSet(heap) /\ c \in Blocks \ heap
      /\ heap = {root.id, str, node.id} \union ({dirName} \ {NONE}) \union Ids
      /\ str \notin Ids \union {root.id, dirName, node.id}
      /\ node.id \notin Ids \union {root.id, dirName}
  BY <1>1, FindFacts
<1>4. ino \in DOMAIN img.inode
  <2>1. PICK name : name = UpTo(todo, NUL)
    OBVIOUS
  <2> QED
    BY <1>1, <1>3, <2>1, LookupIn
<1> DEFINE n == [id |-> c, ino |-> ino, mkdir |-> garbage]
           h == (heap \union {c}) \ {node.id}
<1>5. /\ n.id = c /\ n.ino = ino /\ h = Replaced(n.id)
      /\ \/ Return(h \ {str}, n)
         \/ /\ node' = n /\ heap' = h /\ UNCHANGED <<held, pc, str, dirName, last, op, asked>>
  BY <1>2 DEF Replaced
<1> HIDE DEF c, ino
<1>6. c # NONE /\ c \notin Ids /\ c # root.id /\ c # dirName /\ c # str /\ c # node.id /\ n \in Nodes
  <2>1. c # NONE /\ c \in Nat
    BY <1>3 DEF Blocks, NONE
  <2>2. n \in Nodes
    BY <1>4, <2>1 DEF Nodes
  <2> QED
    BY <1>3, <2>1, <2>2
<1>7. IsFiniteSet(h) /\ IsFiniteSet(h \ {str})
  <2>1. IsFiniteSet(heap \union {c})
    BY <1>3, FS_AddElement
  <2> QED
    BY <2>1, FS_Subset
<1>8. CASE Return(h \ {str}, n)
  <2>1. h \ {str} = ({root.id} \union Ids \union ({dirName} \ {NONE})) \union ({n.id} \ {NONE})
    BY <1>3, <1>5, <1>6
  <2>2. PICK g, m : g = h \ {str} /\ m = n
    OBVIOUS
  <2> HIDE DEF n, h
  <2> QED
    BY <1>1, <1>4, <1>5, <1>6, <1>7, <1>8, <2>1, <2>2, Returning
<1>9. CASE node' = n /\ heap' = h /\ UNCHANGED <<held, pc, str, dirName, last, op, asked>>
  <2> USE DEF MemoryIInv
  <2>1. node'.id = c /\ node'.ino = ino /\ node' \in Nodes
    BY <1>5, <1>6, <1>9
  <2>2. /\ InCall /\ NoList /\ last = NoAnswer /\ Apart(Parts) /\ heap \in SUBSET Blocks
        /\ heap = AllOf(Parts)
    BY <1>1, WalkFacts DEF Leaking
  <2>3. TypeOK'
    BY <1>1, <1>3, <1>9, <2>1, <2>2 DEF TypeOK, Nodes, Blocks
  <2>4. Numbers' /\ ListHolds' /\ HeldAreNodes'
    BY <1>1, <1>7, <1>9 DEF Numbers, ListHolds, HeldAreNodes
  <2>5. HeapIsParts'
    <3>1. /\ Parts'[5] = {c} /\ Parts[5] = {node.id}
          /\ \A i \in Kinds : i # 5 => Parts'[i] = Parts[i]
      BY <1>1, <1>3, <1>6, <1>9, <2>1, KindsAre DEF Parts, Ids, Dirent
    <3>2. OneMore(Parts, Parts', 5, c)
      BY <1>3, <2>2, <3>1, KindsAre DEF OneMore
    <3>3. Apart(Parts')
      BY <2>2, <3>2, OneNew
    <3>4. AllOf(Parts') = (AllOf(Parts) \union {c}) \ {node.id}
      BY <1>6, <2>2, <3>1, KindsAre DEF AllOf, Apart
    <3> QED
      BY <1>9, <2>2, <3>3, <3>4 DEF HeapIsParts
  <2>6. Phases'
    BY <1>1, <1>3, <1>4, <1>6, <1>9, <2>1, <2>2 DEF Phases, InCall, NoList
  <2> QED
    BY <2>3, <2>4, <2>5, <2>6
<1> QED
  BY <1>5, <1>8, <1>9

LEMMA FindingNothing == ASSUME MemoryIInv, FindNothing PROVE MemoryIInv'
<1>1. /\ pc = "find" /\ Return(heap \ {node.id, str}, NULL)
      /\ UNCHANGED <<img, root, out, text, list>>
  BY DEF FindNothing
<1>2. /\ IsFiniteSet(heap)
      /\ heap = {root.id, str, node.id} \union ({dirName} \ {NONE}) \union Ids
      /\ str \notin Ids \union {root.id, dirName, node.id}
      /\ node.id \notin Ids \union {root.id, dirName}
  BY <1>1, FindFacts
<1>3. PICK h, n : h = heap \ {node.id, str} /\ n = NULL
  OBVIOUS
<1>4. n.id = NONE
  BY <1>3 DEF NULL
<1>5. h = ({root.id} \union Ids \union ({dirName} \ {NONE})) \union ({n.id} \ {NONE})
  BY <1>2, <1>3, <1>4
<1>6. IsFiniteSet(h)
  BY <1>2, <1>3, FS_Subset
<1> QED
  BY <1>1, <1>3, <1>5, <1>6, Returning

LEMMA Using == ASSUME MemoryIInv, Used PROVE MemoryIInv'
<1>1. /\ pc = "use" /\ heap' = heap \ {node.id, dirName}
      /\ node' = NULL /\ dirName' = NONE /\ pc' = "idle" /\ Answer(asked, op, 0)
      /\ UNCHANGED <<img, root, held, todo, out, text, list, str>>
  BY DEF Used
<1>2. /\ InCall /\ NoList /\ last = NoAnswer /\ root.id # NONE /\ NONE \notin Ids
      /\ heap = AllOf(Parts) /\ IsFiniteSet(heap)
      /\ AllOf(Parts) = {root.id} \union ({str} \ {NONE}) \union ({dirName} \ {NONE})
                        \union ({node.id} \ {NONE}) \union Ids
  BY <1>1, WalkFacts DEF Leaking
<1>3. str = NONE
  BY <1>1 DEF MemoryIInv, Phases
<1>4. /\ root.id \notin Ids /\ root.id # dirName /\ root.id # node.id
      /\ dirName \notin Ids /\ node.id \notin Ids
  BY <1>1, WalkApart
<1>5. last'.op = op /\ op' = "kopen" /\ asked' = <<>>
  BY <1>1 DEF Answer
<1>6. op \in Calls /\ held' \subseteq Nodes /\ HeldAreNodes'
  BY <1>1 DEF MemoryIInv, TypeOK, HeldAreNodes
<1>7. Quiet' /\ Ids' = Ids /\ Dirent' = {} /\ last'.op # "readdir" /\ op' \in Calls
  BY <1>1, <1>2, <1>3, <1>5, <1>6 DEF Quiet, NoList, Ids, Dirent, Calls
<1>8. heap' = ({root.id} \ {NONE}) \union Ids' \union Dirent'
  BY <1>1, <1>2, <1>3, <1>4, <1>7
<1>9. IsFiniteSet(heap')
  BY <1>1, <1>2, FS_Subset
<1> QED
  BY <1>1, <1>4, <1>5, <1>6, <1>7, <1>8, <1>9, Ending

LEMMA Stuttering == ASSUME MemoryIInv, UNCHANGED vars PROVE MemoryIInv'
<1> USE DEF MemoryIInv, vars
<1>1. TypeOK'
  BY DEF TypeOK, Nodes
<1>2. Numbers' /\ ListHolds' /\ HeldAreNodes'
  BY DEF Numbers, ListHolds, HeldAreNodes
<1>3. Parts' = Parts
  BY DEF Parts, Ids, Dirent
<1>4. HeapIsParts'
  BY <1>3 DEF HeapIsParts, Leaking
<1>5. Phases'
  BY DEF Phases, InCall, Quiet, NoList
<1> QED
  BY <1>1, <1>2, <1>4, <1>5

\* A step of a call under way, whichever.
LEMMA Working == ASSUME MemoryIInv, Work PROVE MemoryIInv'
<1>1. CASE Token
  BY <1>1, NextToken
<1>2. CASE Joined
  BY <1>2, JoiningNames
<1>3. CASE JoinedEmpty
  BY <1>3, JoiningNothing
<1>4. CASE CloneRoot
  BY <1>4, Cloning
<1>5. CASE FreeNull
  BY <1>5, Copying DEF FreeNull
<1>6. CASE StartWalk
  BY <1>6, Copying DEF StartWalk
<1>7. CASE Find
  BY <1>7, Finding
<1>8. CASE FindNothing
  BY <1>8, FindingNothing
<1>9. CASE FindAstray
  <2>1. ~Leaking /\ last = NoAnswer
    BY <1>9, WalkFacts DEF FindAstray, Leaking
  <2> QED
    BY <1>9, <2>1, Stopping DEF FindAstray
<1>10. CASE Used
  BY <1>10, Using
<1>11. CASE CallsGarbage
  <2>1. ~Leaking /\ last = NoAnswer
    BY <1>11, WalkFacts DEF CallsGarbage, Leaking
  <2> QED
    BY <1>11, <2>1, Stopping DEF CallsGarbage
<1>12. CASE Resumed
  <2>1. ~Leaking /\ last = NoAnswer
    BY <1>12 DEF Resumed, Leaking, MemoryIInv, Phases
  <2> QED
    BY <1>12, <2>1, Stopping DEF Resumed
<1> QED
  BY <1>1, <1>2, <1>3, <1>4, <1>5, <1>6, <1>7, <1>8, <1>9, <1>10, <1>11, <1>12 DEF Work

\* The invariant is kept by every step.
LEMMA NextMemory == ASSUME MemoryIInv, [Next]_vars PROVE MemoryIInv'
<1>1. CASE UNCHANGED vars
  BY <1>1, Stuttering
<1>2. CASE initrd_mount
  BY <1>2, Mounting
<1>3. CASE AssertFails \/ MountAstray
  BY <1>3, Stopping DEF AssertFails, MountAstray, Leaking
<1>4. CASE Work
  BY <1>4, Working
<1>5. CASE Seen
  BY <1>5, Seeing
<1>6. CASE Stops
  BY <1>6, Stuttering DEF Stops
<1>7. CASE \E path \in Paths : kopen(path)
  BY <1>7, Opening
<1>8. CASE \E path \in MakePaths, call \in {"create", "mkdir"} : Make(call, path)
  BY <1>8, Making
<1>9. CASE \E n \in held :
              \/ Release(n)
              \/ \E offset \in Offsets, length \in Lengths : read_fs(n, offset, length)
              \/ \E index \in Indices : readdir_fs(n, index)
  BY <1>9, Releasing, Reading, Listing
<1> QED
  BY <1>1, <1>2, <1>3, <1>4, <1>5, <1>6, <1>7, <1>8, <1>9 DEF Next
-----------------------------------------------------------------------------
(* What the memory's invariant gives *)

\* The pointers, one by one.
LEMMA PointersAre ==
    ASSUME MemoryIInv
    PROVE  LET s == foreach(out)
               L == Len(foreach(out))
           IN /\ L \in Nat /\ DOMAIN Pointers = 1..(5 + L + L)
              /\ \A i \in 1..5 : Pointers[i] = <<root.id, list, str, dirName, node.id>>[i]
              /\ \A i \in 1..L : /\ Pointers[5 + i] = s[i] /\ s[i] \in DOMAIN out.node
                                 /\ Pointers[5 + L + i] = out.node[s[i]].value
                                 /\ out.node[s[i]].value \in DOMAIN text
              /\ \A i, j \in 1..L : s[i] = s[j] => i = j
              /\ \A i, j \in 1..L : out.node[s[i]].value = out.node[s[j]].value => i = j
<1> DEFINE s == foreach(out)
           L == Len(s)
           a == <<root.id, list, str, dirName, node.id>>
           v == Values(out)
<1>1. Holding(out, s, text)
  BY DEF MemoryIInv, ListHolds
<1>2. /\ s \in Seq(Blocks) /\ L \in Nat /\ \A i \in 1..L : s[i] \in DOMAIN out.node
      /\ \A i, j \in 1..L : s[i] = s[j] => i = j
  BY <1>1, GoesOnFacts DEF Holding, Linked
<1>3. v \in Seq(Nat) /\ Len(v) = L /\ \A i \in 1..L : v[i] = out.node[s[i]].value
  BY <1>1, ValuesAre DEF Holding, Linked
<1>4. \A i \in 1..L : out.node[s[i]].value \in DOMAIN text
  BY <1>1, <1>2 DEF Holding
<1>5. \A i, j \in 1..L : out.node[s[i]].value = out.node[s[j]].value => i = j
  BY <1>1, ValuesApart
<1>6. a \in Seq(Nat) /\ Len(a) = 5
  BY DEF MemoryIInv, Numbers, TypeOK, Nodes
<1>7. s \in Seq(Nat)
  BY <1>2 DEF Blocks
<1> HIDE DEF a, s, v
<1>8. /\ a \o s \in Seq(Nat) /\ Len(a \o s) = 5 + L
      /\ \A i \in 1..(5 + L) : (a \o s)[i] = IF i <= 5 THEN a[i] ELSE s[i - 5]
  <2>1. /\ a \o s \in Seq(Nat) /\ Len(a \o s) = Len(a) + Len(s)
        /\ \A i \in 1..(Len(a) + Len(s)) : (a \o s)[i] = IF i <= Len(a) THEN a[i] ELSE s[i - Len(a)]
    BY <1>6, <1>7, ConcatProperties
  <2> QED
    BY <1>6, <2>1
<1>9. PICK b : b = a \o s
  OBVIOUS
<1>10. /\ b \o v \in Seq(Nat) /\ Len(b \o v) = 5 + L + L
       /\ \A i \in 1..(5 + L + L) : (b \o v)[i] = IF i <= 5 + L THEN b[i] ELSE v[i - (5 + L)]
  <2>1. /\ b \o v \in Seq(Nat) /\ Len(b \o v) = Len(b) + Len(v)
        /\ \A i \in 1..(Len(b) + Len(v)) : (b \o v)[i] = IF i <= Len(b) THEN b[i] ELSE v[i - Len(b)]
    <3>1. b \in Seq(Nat) /\ v \in Seq(Nat)
      BY <1>3, <1>8, <1>9
    <3> QED
      BY <3>1, ConcatProperties
  <2> QED
    BY <1>3, <1>8, <1>9, <2>1
<1>11. Pointers = b \o v
  BY <1>9 DEF Pointers, a, s, v
<1>12. DOMAIN Pointers = 1..(5 + L + L)
  <2>1. PICK p : p = b \o v
    OBVIOUS
  <2>2. DOMAIN p = 1..Len(p)
    BY <1>10, <2>1
  <2> QED
    BY <1>10, <1>11, <2>1, <2>2
<1>13. \A i \in 1..5 : Pointers[i] = a[i]
  <2> SUFFICES ASSUME NEW i \in 1..5 PROVE Pointers[i] = a[i]
    OBVIOUS
  <2>1. i \in 1..(5 + L + L) /\ i \in 1..(5 + L) /\ i <= 5 + L /\ i <= 5
    BY <1>2
  <2> QED
    BY <1>8, <1>9, <1>10, <1>11, <2>1
<1>14. \A i \in 1..L : Pointers[5 + i] = s[i] /\ Pointers[5 + L + i] = v[i]
  <2> SUFFICES ASSUME NEW i \in 1..L PROVE Pointers[5 + i] = s[i] /\ Pointers[5 + L + i] = v[i]
    OBVIOUS
  <2>1. /\ 5 + i \in 1..(5 + L + L) /\ 5 + i \in 1..(5 + L) /\ 5 + i <= 5 + L
        /\ ~(5 + i <= 5) /\ (5 + i) - 5 = i
        /\ 5 + L + i \in 1..(5 + L + L) /\ ~(5 + L + i <= 5 + L)
        /\ (5 + L + i) - (5 + L) = i
    BY <1>2
  <2> QED
    BY <1>8, <1>9, <1>10, <1>11, <2>1
<1> QED
  BY <1>2, <1>3, <1>4, <1>5, <1>12, <1>13, <1>14 DEF a, s

\* Pointers lead to different objects that are allocated.
LEMMA FreedInUse == MemoryIInv => NothingFreedInUse
<1> SUFFICES ASSUME MemoryIInv PROVE NothingFreedInUse
  OBVIOUS
<1> DEFINE s == foreach(out)
           L == Len(s)
           kind(i) == IF i <= 5 THEN i ELSE IF i <= 5 + L THEN 6 ELSE 7
<1>1. /\ L \in Nat /\ DOMAIN Pointers = 1..(5 + L + L)
      /\ \A i \in 1..5 : Pointers[i] = <<root.id, list, str, dirName, node.id>>[i]
      /\ \A i \in 1..L : /\ Pointers[5 + i] = s[i] /\ s[i] \in DOMAIN out.node
                         /\ Pointers[5 + L + i] = out.node[s[i]].value
                         /\ out.node[s[i]].value \in DOMAIN text
      /\ \A i, j \in 1..L : s[i] = s[j] => i = j
      /\ \A i, j \in 1..L : out.node[s[i]].value = out.node[s[j]].value => i = j
  BY PointersAre
<1>2. Apart(Parts) /\ AllOf(Parts) \subseteq heap
  BY HeapFacts
<1>3. /\ Parts[1] = {root.id} \ {NONE} /\ Parts[2] = {list} \ {NONE} /\ Parts[3] = {str} \ {NONE}
      /\ Parts[4] = {dirName} \ {NONE} /\ Parts[5] = {node.id} \ {NONE}
      /\ Parts[6] = DOMAIN out.node /\ Parts[7] = DOMAIN text /\ Parts[8] = Ids
  BY PartsAre
<1> HIDE DEF s, L
<1>4. \A i \in 6..(5 + L) : i - 5 \in 1..L /\ 5 + (i - 5) = i
  BY <1>1
<1>5. \A i \in (6 + L)..(5 + L + L) : i - (5 + L) \in 1..L /\ 5 + L + (i - (5 + L)) = i
  BY <1>1
<1>6. ASSUME NEW i \in DOMAIN Pointers, Pointers[i] # NONE
      PROVE  kind(i) \in 1..7 /\ Pointers[i] \in Parts[kind(i)]
  <2>1. CASE i \in 1..5
    <3>1. kind(i) = i
      BY <2>1
    <3>2. Pointers[i] \in Parts[i]
      BY <1>1, <1>3, <1>6, <2>1
    <3> QED
      BY <2>1, <3>1, <3>2
  <2>2. CASE i \in 6..(5 + L)
    <3>1. kind(i) = 6
      BY <1>1, <2>2
    <3>2. PICK k \in 1..L : k = i - 5 /\ 5 + k = i
      BY <1>4, <2>2
    <3>3. Pointers[i] \in DOMAIN out.node
      BY <1>1, <3>2
    <3> QED
      BY <1>3, <3>1, <3>3
  <2>3. CASE i \in (6 + L)..(5 + L + L)
    <3>1. kind(i) = 7
      BY <1>1, <2>3
    <3>2. PICK k \in 1..L : k = i - (5 + L) /\ 5 + L + k = i
      BY <1>5, <2>3
    <3>3. Pointers[i] \in DOMAIN text
      BY <1>1, <3>2
    <3> QED
      BY <1>3, <3>1, <3>3
  <2> QED
    BY <1>1, <2>1, <2>2, <2>3
<1>7. ASSUME NEW i \in DOMAIN Pointers, NEW j \in DOMAIN Pointers, Pointers[i] # NONE,
             Pointers[i] = Pointers[j]
      PROVE  i = j
  <2>1. kind(i) = kind(j)
    <3>1. /\ kind(i) \in 1..7 /\ Pointers[i] \in Parts[kind(i)]
          /\ kind(j) \in 1..7 /\ Pointers[i] \in Parts[kind(j)]
      BY <1>6, <1>7
    <3>2. PICK k \in Kinds, m \in Kinds : k = kind(i) /\ m = kind(j)
      BY <3>1 DEF Kinds
    <3>3. Pointers[i] \in Parts[k] \intersect Parts[m]
      BY <3>1, <3>2
    <3>4. k = m
      BY <1>2, <3>3 DEF Apart
    <3> QED
      BY <3>2, <3>4
  <2>2. CASE i \in 1..5
    BY <1>1, <2>1, <2>2
  <2>3. CASE i \in 6..(5 + L)
    <3>1. j \in 6..(5 + L)
      BY <1>1, <2>1, <2>3
    <3>2. PICK k \in 1..L, m \in 1..L : k = i - 5 /\ 5 + k = i /\ m = j - 5 /\ 5 + m = j
      BY <1>4, <2>3, <3>1
    <3>3. s[k] = s[m]
      BY <1>1, <1>7, <3>2
    <3> QED
      BY <1>1, <3>2, <3>3
  <2>4. CASE i \in (6 + L)..(5 + L + L)
    <3>1. j \in (6 + L)..(5 + L + L)
      BY <1>1, <2>1, <2>4
    <3>2. PICK k \in 1..L, m \in 1..L : 5 + L + k = i /\ 5 + L + m = j
      BY <1>5, <2>4, <3>1
    <3>3. out.node[s[k]].value = out.node[s[m]].value
      BY <1>1, <1>7, <3>2
    <3> QED
      BY <1>1, <3>2, <3>3
  <2> QED
    BY <1>1, <2>2, <2>3, <2>4
<1>8. ASSUME NEW i \in DOMAIN Pointers, Pointers[i] # NONE PROVE Pointers[i] \in heap
  <2>1. kind(i) \in 1..7 /\ Pointers[i] \in Parts[kind(i)]
    BY <1>6, <1>8
  <2>2. PICK k \in 1..7 : k = kind(i)
    BY <2>1
  <2>3. Parts[k] \subseteq AllOf(Parts)
    <3>1. k \in {1, 2, 3, 4, 5, 6, 7}
      OBVIOUS
    <3> QED
      BY <3>1 DEF AllOf
  <2> QED
    BY <1>2, <2>1, <2>2, <2>3
<1>9. ASSUME NEW n \in held
      PROVE  n.id \in heap /\ \A i \in DOMAIN Pointers : Pointers[i] # n.id
  <2>1. n.id \in Parts[8] /\ n.id # NONE
    BY <1>3 DEF Ids, MemoryIInv, HeldAreNodes
  <2>2. n.id \in heap
    BY <1>2, <2>1 DEF AllOf
  <2>3. ASSUME NEW i \in DOMAIN Pointers, Pointers[i] = n.id PROVE FALSE
    <3>1. kind(i) \in 1..7 /\ Pointers[i] \in Parts[kind(i)]
      BY <1>6, <2>1, <2>3
    <3>2. PICK k \in 1..7, m \in {8} : k = kind(i)
      BY <3>1
    <3>3. k \in Kinds /\ m \in Kinds /\ k # m
      BY <3>2 DEF Kinds
    <3>4. n.id \in Parts[k] \intersect Parts[m]
      BY <2>1, <2>3, <3>1, <3>2
    <3> QED
      BY <1>2, <3>3, <3>4 DEF Apart
  <2> QED
    BY <2>2, <2>3
<1> QED
  BY <1>7, <1>8, <1>9 DEF NothingFreedInUse

\* The list of the names is what the operations on lists expect.
LEMMA ListIsKept == MemoryIInv => ListKept
<1> SUFFICES ASSUME MemoryIInv PROVE ListKept
  OBVIOUS
<1> DEFINE s == foreach(out)
           v == Values(out)
<1>1. Holding(out, s, text)
  BY DEF MemoryIInv, ListHolds
<1>2. Linked(out, s) /\ GoesOn(out, s)
  BY <1>1 DEF Holding, Linked
<1>3. /\ \A i, j \in 1..Len(s) : s[i] = s[j] => i = j
      /\ \A i \in 1..Len(s) : s[i] \in DOMAIN out.node
  BY <1>2, GoesOnFacts
<1>4. \A i, j \in 1..Len(s) : out.node[s[i]].value = out.node[s[j]].value => i = j
  BY <1>1, ValuesApart
<1>5. Fresh(heap) \in Blocks \ DOMAIN out.node
  <2>1. Fresh(heap) \in Blocks \ heap /\ AllOf(Parts) \subseteq heap
    BY HeapFacts
  <2>2. DOMAIN out.node \subseteq AllOf(Parts)
    BY PartsAre DEF AllOf
  <2> QED
    BY <2>1, <2>2
<1>6. OperationsSound(out, list_insert(list_create, Fresh(heap), NONE))
  <2>1. PICK x : x = Fresh(heap)
    OBVIOUS
  <2> HIDE DEF s
  <2> QED
    BY <1>2, <1>4, <1>5, <2>1, OperationsAreSound
<1>7. ListSound(out)
  BY <1>2, LinkedSound
<1>8. ToSet(v) = DOMAIN text
  <2>1. /\ v \in Seq(Nat) /\ Len(v) = Len(s) /\ \A i \in 1..Len(s) : v[i] = out.node[s[i]].value
    BY <1>2, ValuesAre
  <2> HIDE DEF v, s
  <2>2. ToSet(v) = {v[i] : i \in 1..Len(s)}
    BY <2>1 DEF ToSet
  <2>3. ASSUME NEW x \in ToSet(v) PROVE x \in DOMAIN text
    <3>1. PICK i \in 1..Len(s) : v[i] = x
      BY <2>2
    <3>2. x = out.node[s[i]].value /\ s[i] \in DOMAIN out.node
      BY <1>3, <2>1, <3>1
    <3> QED
      BY <1>1, <3>2 DEF Holding
  <2>4. ASSUME NEW x \in DOMAIN text PROVE x \in ToSet(v)
    <3>1. PICK n \in DOMAIN out.node : out.node[n].value = x
      BY <1>1 DEF Holding
    <3>2. PICK i \in 1..Len(s) : s[i] = n
      BY <1>1 DEF Holding
    <3>3. v[i] = x
      BY <2>1, <3>1, <3>2
    <3> QED
      BY <2>2, <3>3
  <2> QED
    BY <2>3, <2>4
<1> QED
  BY <1>6, <1>7, <1>8 DEF ListKept

\* Between two calls, what is allocated is what somebody holds.
LEMMA NothingLeaked == MemoryIInv => NoLeak
<1> SUFFICES ASSUME MemoryIInv, pc = "idle"
             PROVE  heap = ({root.id} \union {n.id : n \in held}
                            \union (IF last.op = "readdir" THEN {last.dirent} ELSE {})) \ {NONE}
  BY DEF NoLeak
<1>1. heap = ({root.id} \ {NONE}) \union Ids \union Dirent
  BY IdleFacts
<1>2. NONE \notin Ids
  BY DEF Ids, MemoryIInv, HeldAreNodes
<1> QED
  BY <1>1, <1>2 DEF Ids, Dirent

\* It holds in every state.
LEMMA MemoryInductive == Spec => []MemoryIInv
BY InitMemory, NextMemory, PTL DEF Spec

\* For any ramdisks, paths and bounds: whatever the calls do, nothing is freed
\* that is in use, nothing is freed twice, and the list of the names is kept in order
\* (canonicalize_path, kopen, create_file_fs, mkdir_fs, readdir_fs).
THEOREM MemoryIsSafe == Spec => []MemoryInv
<1>1. MemoryIInv => MemoryInv
  BY FreedInUse, ListIsKept DEF MemoryInv, MemoryIInv
<1> QED
  BY <1>1, MemoryInductive, PTL

\* For any ramdisks, paths and bounds: when no call is under way, all that is allocated
\* is the root, what the callers of kopen hold and the entry readdir_fs has given; no
\* call forgets a string, a list or a node, however it ends.
THEOREM NothingLeaks == Spec => []NoLeak
BY NothingLeaked, MemoryInductive, PTL
-----------------------------------------------------------------------------
(* Quotients, and numbers of 32 bits *)

\* Division with remainder.
LEMMA Quotient ==
    ASSUME NEW x \in Nat, NEW d \in Nat \ {0}
    PROVE  x = d * (x \div d) + (x % d) /\ x \div d \in Nat /\ x % d \in 0..(d - 1)
OBVIOUS

\* Quotient and remainder are determined.
LEMMA QuotientUnique ==
    ASSUME NEW x \in Nat, NEW d \in Nat \ {0}, NEW q \in Nat, NEW r \in 0..(d - 1), x = d * q + r
    PROVE  x \div d = q /\ x % d = r
<1>1. x = d * (x \div d) + (x % d) /\ x \div d \in Nat /\ x % d \in 0..(d - 1)
  BY Quotient
<1>2. PICK p \in Nat : p = x \div d
  BY <1>1
<1>3. PICK t \in 0..(d - 1) : t = x % d
  BY <1>1
<1>4. d * q + r = d * p + t
  BY <1>1, <1>2, <1>3
<1>5. ASSUME NEW a \in Nat, NEW b \in Nat, NEW u \in 0..(d - 1), NEW v \in 0..(d - 1),
             d * a + u = d * b + v, a < b
      PROVE  FALSE
  <2>1. PICK e \in Nat : b = a + 1 + e
    <3>1. b - a - 1 \in Nat
      BY <1>5
    <3> QED
      BY <3>1
  <2>2. d * b = d * a + d + d * e
    BY <2>1, SMTT(30)
  <2>3. d * e \in Nat /\ d * a \in Nat
    BY SMTT(30)
  <2> QED
    BY <1>5, <2>2, <2>3, SMTT(30)
<1>6. p = q
  BY <1>4, <1>5
<1> QED
  BY <1>2, <1>3, <1>4, <1>6

\* Products of which the prover needs only that they are linear.
LEMMA Products ==
    ASSUME NEW d \in Nat \ {0}, NEW a \in Nat, NEW b \in Nat
    PROVE  /\ d * a \in Nat /\ d * (b - a) = d * b - d * a /\ d * (a + 1) = d * a + d
           /\ a <= b => d * a <= d * b
           /\ a < b => d * a + d <= d * b
<1>1. /\ d * a \in Nat /\ d * (b - a) = d * b - d * a /\ d * (a + 1) = d * a + d
  BY SMTT(30)
<1>2. ASSUME a <= b PROVE d * a <= d * b
  <2>1. PICK e \in Nat : b = a + e
    <3>1. b - a \in Nat
      BY <1>2
    <3> QED
      BY <3>1
  <2>2. d * b = d * a + d * e /\ d * e \in Nat
    BY <2>1, SMTT(30)
  <2> QED
    BY <1>1, <2>2
<1>3. ASSUME a < b PROVE d * a + d <= d * b
  <2>1. PICK e \in Nat : b = a + 1 + e
    <3>1. b - a - 1 \in Nat
      BY <1>3
    <3> QED
      BY <3>1
  <2>2. d * b = d * a + d + d * e /\ d * e \in Nat
    BY <2>1, SMTT(30)
  <2> QED
    BY <1>1, <2>2
<1> QED
  BY <1>1, <1>2, <1>3

\* A uint32_t that does not wrap, and one that wraps once.
LEMMA Words ==
    ASSUME NEW x \in Int, -Word <= x, x < Word + Word
    PROVE  /\ x \in 0..(Word - 1) => x % Word = x
           /\ x >= Word => x % Word = x - Word
           /\ x < 0 => x % Word = x + Word
           /\ x % Word \in 0..(Word - 1)
BY InitrdAssumption

\* A byte of the file: where it goes, and where it comes from.
Byte(f, o, x) == <<x - o, f.blocks[x \div BlockSize + 1], x % BlockSize>>
Bytes(f, o, from, to) == {Byte(f, o, x) : x \in from..(to - 1)}

\* The bytes of a copy.
Filled(c) == {<<c.to + i, c.block, c.at + i>> : i \in 0..(c.n - 1)}

\* c is a copy of n bytes of the block b of the file, from at on, to their place.
Piece(f, o, c, b, t, at, n) ==
    /\ c.to = t /\ c.at = at /\ c.n = n
    /\ n > 0 => c.block = f.blocks[b + 1]
    /\ at + n <= BlockSize /\ o + t = BlockSize * b + at

\* A part of one block is copied to its place.
LEMMA FilledIs ==
    ASSUME NEW f, NEW o \in Nat, NEW c, NEW b \in Nat, NEW t \in Nat, NEW at \in Nat, NEW n \in Nat,
           Piece(f, o, c, b, t, at, n)
    PROVE  Filled(c) = Bytes(f, o, o + t, o + t + n)
<1> USE DEF Piece
<1>1. /\ Filled(c) = {<<t + i, c.block, at + i>> : i \in 0..(n - 1)}
      /\ BlockSize \in Nat \ {0} /\ BlockSize * b \in Nat
  BY Products, InitrdAssumption DEF Filled
<1>2. ASSUME NEW i \in 0..(n - 1), NEW x \in Nat, x = o + t + i
      PROVE  <<t + i, c.block, at + i>> = Byte(f, o, x)
  <2>1. at + i \in 0..(BlockSize - 1) /\ x = BlockSize * b + (at + i)
    BY <1>1, <1>2
  <2>2. PICK r \in 0..(BlockSize - 1) : r = at + i
    BY <2>1
  <2>3. x \div BlockSize = b /\ x % BlockSize = r
    BY <1>1, <2>1, <2>2, QuotientUnique
  <2>4. x - o = t + i /\ c.block = f.blocks[b + 1]
    BY <1>2
  <2> QED
    BY <2>2, <2>3, <2>4 DEF Byte
<1>3. ASSUME NEW i \in 0..(n - 1)
      PROVE  <<t + i, c.block, at + i>> \in Bytes(f, o, o + t, o + t + n)
  <2>1. PICK x \in Nat : x = o + t + i
    OBVIOUS
  <2>2. x \in (o + t)..(o + t + n - 1)
    BY <2>1
  <2>3. Byte(f, o, x) \in Bytes(f, o, o + t, o + t + n)
    BY <2>2 DEF Bytes
  <2>4. <<t + i, c.block, at + i>> = Byte(f, o, x)
    BY <1>2, <2>1
  <2> QED
    BY <2>3, <2>4
<1>4. ASSUME NEW x \in (o + t)..(o + t + n - 1)
      PROVE  Byte(f, o, x) \in Filled(c)
  <2>1. PICK i \in 0..(n - 1) : x = o + t + i
    <3>1. x - o - t \in 0..(n - 1) /\ x = o + t + (x - o - t)
      OBVIOUS
    <3> QED
      BY <3>1
  <2>2. x \in Nat
    OBVIOUS
  <2> QED
    BY <1>1, <1>2, <2>1, <2>2
<1> QED
  <2>1. Filled(c) \subseteq Bytes(f, o, o + t, o + t + n)
    BY <1>1, <1>3
  <2>2. Bytes(f, o, o + t, o + t + n) \subseteq Filled(c)
    BY <1>4 DEF Bytes
  <2> QED
    BY <2>1, <2>2
-----------------------------------------------------------------------------
(* Reading a file *)

\* A file of an image: its blocks hold its bytes.
IsFile(f) == /\ f.blocks \in Seq(Nat) /\ f.size \in 0..(Word - 1)
             /\ Len(f.blocks) * BlockSize >= f.size

\* The parts of the tree that the code knows, with P pointers in a block.
Known(P, f) == \/ P = Hardwired /\ Len(f.blocks) <= Direct + Hardwired + Hardwired * Hardwired
               \/ Len(f.blocks) <= Direct + P

\* Whichever part of the inode's tree it is in, a block is found.
LEMMA BlockFound ==
    ASSUME NEW f, IsFile(f), NEW P \in Nat, P >= Hardwired, Known(P, f),
           NEW b \in Nat, b < Len(f.blocks)
    PROVE  ext2_get_inode_block(P, f, b) = f.blocks[b + 1]
<1>1. Len(f.blocks) \in Nat /\ Direct \in Nat \ {0} /\ Hardwired \in Nat \ {0}
  BY InitrdAssumption DEF IsFile
<1>2. Stored(f, b) = f.blocks[b + 1]
  BY DEF Stored
<1>3. CASE b < Direct
  BY <1>2, <1>3 DEF ext2_get_inode_block, Named
<1>4. CASE b >= Direct /\ b < Direct + P
  <2>1. b - Direct \in 0..(P - 1) /\ Direct + (b - Direct) = b
    BY <1>1, <1>4
  <2>2. ext2_get_inode_block(P, f, b) = Single(P, f, b - Direct)
    BY <1>1, <1>4 DEF ext2_get_inode_block
  <2>3. Single(P, f, b - Direct) = Stored(f, Direct + (b - Direct))
    BY <2>1 DEF Single
  <2> QED
    BY <1>2, <2>1, <2>2, <2>3
<1>5. CASE b >= Direct + P
  <2>1. P = Hardwired /\ b < Direct + Hardwired + Hardwired * Hardwired
    <3>1. ~(Len(f.blocks) <= Direct + P)
      BY <1>1, <1>5
    <3>2. Hardwired * Hardwired \in Nat
      BY <1>1, Products
    <3> QED
      BY <1>1, <3>1, <3>2 DEF Known
  <2>2. PICK k \in Nat : k = b - Direct - Hardwired
    BY <1>1, <1>5, <2>1
  <2>3. /\ k = Hardwired * (k \div Hardwired) + (k % Hardwired)
        /\ k \div Hardwired \in Nat /\ k % Hardwired \in 0..(Hardwired - 1)
    BY <1>1, Quotient
  <2>4. PICK c \in Nat : c = k \div Hardwired
    BY <2>3
  <2>5. PICK d \in 0..(Hardwired - 1) : d = k % Hardwired
    BY <2>3
  <2>6. k = Hardwired * c + d
    BY <2>3, <2>4, <2>5
  <2>7. c < Hardwired
    <3>1. Hardwired * Hardwired \in Nat /\ Hardwired * c \in Nat
      BY <1>1, Products
    <3>2. k < Hardwired * Hardwired
      BY <1>1, <2>1, <2>2, <3>1
    <3>3. Hardwired <= c => Hardwired * Hardwired <= Hardwired * c
      BY <1>1, Products
    <3> QED
      BY <1>1, <2>6, <3>1, <3>2, <3>3
  <2>8. ext2_get_inode_block(P, f, b) = Double(P, f, c, d)
    <3>1. ~(b < Direct) /\ ~(b < Direct + P)
      BY <1>1, <1>5
    <3> QED
      BY <2>1, <2>2, <2>4, <2>5, <3>1 DEF ext2_get_inode_block
  <2>9. Double(P, f, c, d) = Stored(f, Direct + P + c * P + d)
    BY <1>1, <2>1, <2>7 DEF Double
  <2>10. Direct + P + c * P + d = b
    <3>1. c * P = Hardwired * c
      BY <1>1, <2>1
    <3>2. Hardwired * c \in Nat
      BY <1>1, Products
    <3> QED
      BY <1>1, <2>1, <2>2, <2>6, <3>1, <3>2
  <2> QED
    BY <1>2, <2>8, <2>9, <2>10
<1> QED
  BY <1>1, <1>3, <1>4, <1>5

\* A read that begins in the file and does not wrap: where it ends.
LEMMA EndIs ==
    ASSUME NEW f, IsFile(f), NEW o \in 0..(Word - 1), NEW l \in 0..(Word - 1),
           o <= f.size, o + l < Word
    PROVE  /\ End(f, o, l) = IF o + l > f.size THEN f.size ELSE o + l
           /\ End(f, o, l) \in o..f.size /\ Count(f, o, l) = End(f, o, l) - o
<1>1. Word \in Nat /\ f.size \in 0..(Word - 1)
  BY InitrdAssumption DEF IsFile
<1>2. (o + l) % Word = o + l
  BY <1>1, Words
<1>3. End(f, o, l) = IF o + l > f.size THEN f.size ELSE o + l
  BY <1>2 DEF End
<1>4. End(f, o, l) \in o..f.size
  BY <1>1, <1>3
<1>5. PICK e \in o..f.size : e = End(f, o, l)
  BY <1>4
<1>6. (e - o) % Word = e - o
  BY <1>1, Words
<1> QED
  BY <1>3, <1>5, <1>6 DEF Count

\* A read that returns fewer bytes than asked for has reached the end.
LEMMA ShortEnds ==
    ASSUME NEW f, IsFile(f), NEW o \in 0..(Word - 1), NEW l \in 0..(Word - 1),
           Count(f, o, l) < l
    PROVE  (o + Count(f, o, l)) % Word = f.size
<1>1. Word \in Nat \ {0} /\ f.size \in 0..(Word - 1)
  BY InitrdAssumption DEF IsFile
<1>2. PICK y \in Nat : y = o + l /\ y < Word + Word
  BY <1>1
<1>3. y \in Int /\ -Word <= y
  BY <1>1, <1>2
<1>4. PICK s \in 0..(Word - 1) : s = y % Word /\ s = (o + l) % Word
  BY <1>2, <1>3, Words
<1>5. s = o + l \/ s = o + l - Word
  <2>1. CASE y < Word
    <3>1. y \in 0..(Word - 1)
      BY <1>1, <1>2, <2>1
    <3>2. y % Word = y
      BY <1>2, <1>3, <3>1, Words
    <3>3. s = y
      BY <1>4, <3>2, Zenon
    <3> QED
      BY <1>2, <3>3
  <2>2. CASE ~(y < Word)
    <3>1. y >= Word
      BY <1>1, <1>2, <2>2
    <3>2. y % Word = y - Word
      BY <1>2, <1>3, <3>1, Words
    <3>3. s = y - Word
      BY <1>4, <3>2, Zenon
    <3> QED
      BY <1>1, <1>2, <3>3
  <2> QED
    BY <2>1, <2>2
<1>6. PICK e \in 0..(Word - 1) : e = End(f, o, l)
  <2>1. End(f, o, l) = IF s > f.size THEN f.size ELSE s
    BY <1>4 DEF End
  <2>2. End(f, o, l) = f.size \/ End(f, o, l) = s
    BY <2>1
  <2> QED
    BY <1>1, <2>2
<1>7. PICK x \in Int : x = e - o /\ -Word <= x /\ x < Word
  BY <1>1
<1>8. x < Word + Word
  BY <1>1, <1>7
<1>9. PICK n \in 0..(Word - 1) : n = (e - o) % Word
  BY <1>7, <1>8, Words
<1>10. n = Count(f, o, l)
  BY <1>6, <1>9 DEF Count
<1>11. n = e - o \/ n = e - o + Word
  <2>1. CASE x < 0
    BY <1>9, <1>7, <1>8, <2>1, Words
  <2>2. CASE ~(x < 0)
    <3>1. x \in 0..(Word - 1)
      BY <1>1, <1>7, <2>2
    <3> QED
      BY <1>9, <1>7, <1>8, <3>1, Words
  <2> QED
    BY <2>1, <2>2
<1>12. e # s
  BY <1>1, <1>5, <1>10, <1>11
<1>13. e = f.size
  BY <1>4, <1>6, <1>12 DEF End
<1>14. (o + n) % Word = e
  <2>1. PICK z \in Nat : z = o + n
    OBVIOUS
  <2>2. z < Word + Word /\ (z = e \/ z = e + Word)
    BY <1>1, <1>11, <2>1
  <2>3. /\ z \in 0..(Word - 1) => z % Word = z
        /\ z >= Word => z % Word = z - Word
    <3>1. z \in Int /\ -Word <= z /\ z < Word + Word
      BY <1>1, <2>2
    <3> QED
      BY <3>1, Words
  <2> QED
    BY <1>1, <2>1, <2>2, <2>3
<1> QED
  BY <1>10, <1>13, <1>14

\* A copy of a part of a block of the file fills its place.
LEMMA CopyFills ==
    ASSUME NEW f, IsFile(f), NEW P \in Nat, P >= Hardwired, Known(P, f),
           NEW o \in Nat, NEW b \in Nat, NEW t \in Nat, NEW at \in Nat, NEW n \in Nat,
           at + n <= BlockSize, o + t = BlockSize * b + at, o + t + n <= f.size
    PROVE  Filled(Copy(P, f, t, b, at, n)) = Bytes(f, o, o + t, o + t + n)
<1> DEFINE c == Copy(P, f, t, b, at, n)
<1>1. /\ Word \in Nat /\ f.size \in 0..(Word - 1) /\ BlockSize \in Nat \ {0}
      /\ Len(f.blocks) \in Nat /\ Len(f.blocks) * BlockSize >= f.size
  BY InitrdAssumption DEF IsFile
<1>2. t % Word = t
  <2>1. t \in 0..(Word - 1) /\ -Word <= t /\ t < Word + Word /\ t \in Int
    BY <1>1
  <2> QED
    BY <2>1, Words
<1>3. c.to = t /\ c.at = at /\ c.n = n /\ c.block = ext2_get_inode_block(P, f, b)
  BY <1>2 DEF Copy
<1>4. ASSUME n > 0 PROVE c.block = f.blocks[b + 1]
  <2>1. PICK L \in Nat : L = Len(f.blocks)
    BY <1>1
  <2>2. /\ BlockSize * L \in Nat /\ BlockSize * b \in Nat
        /\ L <= b => BlockSize * L <= BlockSize * b
    BY <1>1, Products
  <2>3. L * BlockSize = BlockSize * L
    BY <1>1
  <2>4. b < L
    BY <1>1, <1>4, <2>1, <2>2, <2>3
  <2> QED
    BY <1>3, <2>1, <2>4, BlockFound
<1> HIDE DEF c
<1>5. n > 0 => c.block = f.blocks[b + 1]
  BY <1>4
<1>6. c.to = t /\ c.at = at /\ c.n = n
  BY <1>3
<1>7. Filled(c) = Bytes(f, o, o + t, o + t + n)
  <2>1. Piece(f, o, c, b, t, at, n)
    BY <1>5, <1>6 DEF Piece
  <2> QED
    BY <2>1, FilledIs
<1> QED
  BY <1>7 DEF c

\* A part of the bytes of a file.
LEMMA FewerBytes ==
    ASSUME NEW f, NEW o, NEW a \in Int, NEW b \in Int, NEW c \in Int, NEW d \in Int, c <= a, b <= d
    PROVE  Bytes(f, o, a, b) \subseteq Bytes(f, o, c, d)
<1>1. a..(b - 1) \subseteq c..(d - 1)
  OBVIOUS
<1> QED
  BY <1>1 DEF Bytes

\* Part of block b that lies between o, in block i, and e, in block j.
From(i, o, b) == IF b = i THEN o ELSE BlockSize * b
Upto(j, e, b) == IF b = j THEN e ELSE BlockSize * b + BlockSize

\* The parts in each block are all the bytes there are.
LEMMA PartsOfBlocks ==
    ASSUME NEW f, NEW o \in Nat, NEW e \in Nat, NEW i \in Nat, NEW j \in Nat,
           NEW s \in 0..(BlockSize - 1), NEW u \in 0..(BlockSize - 1),
           o = BlockSize * i + s, e = BlockSize * j + u, i <= j, o <= e
    PROVE  UNION {Bytes(f, o, From(i, o, b), Upto(j, e, b)) : b \in i..j} = Bytes(f, o, o, e)
<1> DEFINE part(b) == Bytes(f, o, From(i, o, b), Upto(j, e, b))
<1>1. BlockSize \in Nat \ {0}
  BY InitrdAssumption
<1>2. ASSUME NEW b \in i..j PROVE part(b) \subseteq Bytes(f, o, o, e)
  <2>1. /\ BlockSize * i \in Nat /\ BlockSize * j \in Nat /\ BlockSize * b \in Nat
        /\ i < b => BlockSize * i + BlockSize <= BlockSize * b
        /\ b < j => BlockSize * b + BlockSize <= BlockSize * j
    BY <1>1, Products
  <2>2. PICK x \in Int : x = From(i, o, b)
    BY <2>1 DEF From
  <2>3. PICK y \in Int : y = Upto(j, e, b)
    BY <1>1, <2>1 DEF Upto
  <2>4. o <= x
    BY <1>1, <2>1, <2>2 DEF From
  <2>5. y <= e
    BY <1>1, <2>1, <2>3 DEF Upto
  <2> QED
    BY <2>2, <2>3, <2>4, <2>5, FewerBytes
<1>3. ASSUME NEW x \in o..(e - 1)
      PROVE  \E b \in i..j : Byte(f, o, x) \in part(b)
  <2>1. x \in Nat
    OBVIOUS
  <2>2. /\ x = BlockSize * (x \div BlockSize) + (x % BlockSize)
        /\ x \div BlockSize \in Nat /\ x % BlockSize \in 0..(BlockSize - 1)
    BY <1>1, <2>1, Quotient
  <2>3. PICK b \in Nat : b = x \div BlockSize
    BY <2>2
  <2>4. PICK r \in 0..(BlockSize - 1) : r = x % BlockSize
    BY <2>2
  <2>5. x = BlockSize * b + r
    BY <2>2, <2>3, <2>4
  <2>6. /\ BlockSize * i \in Nat /\ BlockSize * j \in Nat /\ BlockSize * b \in Nat
        /\ b < i => BlockSize * b + BlockSize <= BlockSize * i
        /\ j < b => BlockSize * j + BlockSize <= BlockSize * b
    BY <1>1, Products
  <2>7. b \in i..j
    BY <1>1, <2>5, <2>6
  <2>8. x \in From(i, o, b)..(Upto(j, e, b) - 1)
    BY <1>1, <2>5, <2>6 DEF From, Upto
  <2> QED
    BY <2>7, <2>8 DEF Bytes
<1> HIDE DEF part
<1>4. UNION {part(b) : b \in i..j} \subseteq Bytes(f, o, o, e)
  BY <1>2
<1>5. Bytes(f, o, o, e) \subseteq UNION {part(b) : b \in i..j}
  BY <1>3 DEF Bytes
<1> QED
  BY <1>4, <1>5 DEF part

\* The bytes that the copies of a read fill.
LEMMA CopiesFill ==
    ASSUME NEW f, IsFile(f), NEW P \in Nat, P >= Hardwired, Known(P, f),
           NEW o \in 0..(Word - 1), NEW l \in 0..(Word - 1), o <= f.size, o + l < Word
    PROVE  UNION {Filled(c) : c \in Copies(P, f, o, l)} = Bytes(f, o, o, End(f, o, l))
<1>1. /\ Word \in Nat /\ f.size \in 0..(Word - 1) /\ BlockSize \in Nat \ {0} /\ o \in Nat
  BY InitrdAssumption DEF IsFile
<1>2. PICK e \in o..f.size : e = End(f, o, l) /\ Count(f, o, l) = e - o
  BY EndIs
<1>3. e \in Nat /\ f.size \in Nat
  BY <1>1
<1>4. PICK i \in Nat, s \in 0..(BlockSize - 1) :
          o = BlockSize * i + s /\ i = o \div BlockSize /\ s = o % BlockSize
  BY <1>1, Quotient
<1>5. PICK j \in Nat, u \in 0..(BlockSize - 1) :
          e = BlockSize * j + u /\ j = e \div BlockSize /\ u = e % BlockSize
  BY <1>1, <1>3, Quotient
<1>6. PICK p \in Nat, q \in Nat :
          /\ p = BlockSize * i /\ q = BlockSize * j
          /\ j < i => q + BlockSize <= p
          /\ i < j => p + BlockSize <= q
  BY <1>1, Products
<1>7. o = p + s /\ e = q + u /\ e <= f.size /\ o <= e /\ f.size \in Nat
  <2>1. o = p + s
    BY <1>4, <1>6
  <2>2. e = q + u
    BY <1>5, <1>6
  <2>3. e <= f.size /\ o <= e /\ f.size \in Nat
    BY <1>1
  <2> QED
    BY <2>1, <2>2, <2>3
<1>10. i <= j
  BY <1>1, <1>6, <1>7
<1> DEFINE part(b) == Bytes(f, o, From(i, o, b), Upto(j, e, b))
<1>8. CASE i = j
  <2>1. Copies(P, f, o, l) = {Copy(P, f, 0, i, s, e - o)}
    BY <1>2, <1>4, <1>5, <1>8 DEF Copies
  <2>2. PICK n \in Nat : n = e - o
    BY <1>1, <1>3
  <2>3. s + n <= BlockSize /\ o + 0 = BlockSize * i + s /\ o + 0 + n <= f.size
    <3>1. p = q
      BY <1>6, <1>8
    <3>2. s + n <= BlockSize /\ o + 0 + n <= f.size /\ o + 0 = p + s
      BY <1>1, <1>7, <2>2, <3>1
    <3> QED
      BY <1>6, <3>2
  <2>4. Filled(Copy(P, f, 0, i, s, n)) = Bytes(f, o, o + 0, o + 0 + n)
    BY <1>1, <2>3, CopyFills
  <2>5. o + 0 = o /\ o + 0 + n = e
    BY <1>1, <1>3, <2>2
  <2> QED
    BY <1>2, <2>1, <2>2, <2>4, <2>5
<1>9. CASE i < j
  <2> DEFINE copy(b) == IF b = i THEN Copy(P, f, 0, i, s, BlockSize - s)
                        ELSE IF b = j THEN Copy(P, f, BlockSize * (j - i) - s, j, 0, u)
                        ELSE Copy(P, f, BlockSize * (b - i) - s, b, 0, BlockSize)
  <2>1. Copies(P, f, o, l) = {copy(b) : b \in i..j}
    <3>1. i # j /\ ~(j < i) /\ {i} \intersect 0..(j - 1) = {i}
      BY <1>9
    <3>2. Copies(P, f, o, l) =
              {Copy(P, f, 0, b, s, BlockSize - s) : b \in {i} \intersect 0..(j - 1)}
              \union {Copy(P, f, BlockSize * (b - i) - s, b, 0, BlockSize) : b \in (i + 1)..(j - 1)}
              \union {Copy(P, f, BlockSize * (j - i) - s, j, 0, u)}
      <4>1. /\ o \div BlockSize = i /\ o % BlockSize = s
            /\ End(f, o, l) \div BlockSize = j /\ End(f, o, l) % BlockSize = u
        BY <1>2, <1>4, <1>5
      <4> QED
        BY <3>1, <4>1 DEF Copies
    <3>3. /\ copy(i) = Copy(P, f, 0, i, s, BlockSize - s)
          /\ copy(j) = Copy(P, f, BlockSize * (j - i) - s, j, 0, u)
          /\ \A b \in (i + 1)..(j - 1) :
                 copy(b) = Copy(P, f, BlockSize * (b - i) - s, b, 0, BlockSize)
      BY <3>1
    <3> HIDE DEF copy
    <3>4. Copies(P, f, o, l) = {copy(i)} \union {copy(b) : b \in (i + 1)..(j - 1)} \union {copy(j)}
      BY <3>1, <3>2, <3>3
    <3>5. i..j = {i} \union (i + 1)..(j - 1) \union {j}
      BY <1>9
    <3> QED
      BY <3>4, <3>5
  <2>2. ASSUME NEW b \in i..j PROVE Filled(copy(b)) = part(b)
    <3>1. CASE b = i
      <4>1. PICK n \in Nat : n = BlockSize - s
        BY <1>1
      <4>2. s + n <= BlockSize /\ o + 0 = BlockSize * i + s /\ o + 0 + n <= f.size
        <5>1. s + n <= BlockSize /\ o + 0 + n <= f.size /\ o + 0 = p + s
          BY <1>1, <1>6, <1>7, <1>9, <4>1
        <5> QED
          BY <1>6, <5>1
      <4>3. Filled(Copy(P, f, 0, i, s, n)) = Bytes(f, o, o + 0, o + 0 + n)
        BY <1>1, <4>2, CopyFills
      <4>4. o + 0 = From(i, o, b) /\ o + 0 + n = Upto(j, e, b)
        <5>1. From(i, o, b) = o /\ Upto(j, e, b) = p + BlockSize
          BY <1>6, <1>9, <3>1 DEF From, Upto
        <5> QED
          BY <1>1, <1>7, <4>1, <5>1
      <4> QED
        BY <3>1, <4>1, <4>3, <4>4
    <3>2. CASE b = j
      <4>1. BlockSize * (j - i) = q - p
        BY <1>1, <1>6, Products
      <4>2. PICK t \in Nat : t = BlockSize * (j - i) - s /\ t = q - p - s
        BY <1>1, <1>6, <1>9, <4>1
      <4>3. 0 + u <= BlockSize /\ o + t = BlockSize * j + 0 /\ o + t + u <= f.size
        <5>1. 0 + u <= BlockSize /\ o + t = q + 0 /\ o + t + u <= f.size
          BY <1>1, <1>7, <4>2
        <5> QED
          BY <1>6, <5>1
      <4>4. Filled(Copy(P, f, t, j, 0, u)) = Bytes(f, o, o + t, o + t + u)
        BY <1>1, <4>3, CopyFills
      <4>5. o + t = From(i, o, b) /\ o + t + u = Upto(j, e, b)
        <5>1. From(i, o, b) = q /\ Upto(j, e, b) = e
          BY <1>6, <1>9, <3>2 DEF From, Upto
        <5> QED
          BY <1>1, <1>7, <4>2, <5>1
      <4> QED
        BY <1>9, <3>2, <4>2, <4>4, <4>5
    <3>3. CASE b # i /\ b # j
      <4>1. PICK m \in Nat : /\ m = BlockSize * b /\ BlockSize * (b - i) = m - p
                             /\ p + BlockSize <= m /\ m + BlockSize <= q
        BY <1>1, <1>6, <3>3, Products
      <4>2. PICK t \in Nat : t = BlockSize * (b - i) - s /\ t = m - p - s
        BY <1>1, <4>1
      <4>3. /\ 0 + BlockSize <= BlockSize /\ o + t = BlockSize * b + 0
            /\ o + t + BlockSize <= f.size
        <5>1. 0 + BlockSize <= BlockSize /\ o + t = m + 0 /\ o + t + BlockSize <= f.size
          BY <1>1, <1>7, <4>1, <4>2
        <5> QED
          BY <4>1, <5>1
      <4>4. Filled(Copy(P, f, t, b, 0, BlockSize)) = Bytes(f, o, o + t, o + t + BlockSize)
        <5>1. PICK n \in Nat : n = BlockSize
          BY <1>1
        <5>2. 0 + n <= BlockSize /\ o + t = BlockSize * b + 0 /\ o + t + n <= f.size
          BY <4>3, <5>1
        <5>3. o \in Nat /\ b \in Nat /\ 0 \in Nat
          BY <1>1
        <5>4. Filled(Copy(P, f, t, b, 0, n)) = Bytes(f, o, o + t, o + t + n)
          BY <5>2, <5>3, CopyFills
        <5> QED
          BY <5>1, <5>4
      <4>5. o + t = From(i, o, b) /\ o + t + BlockSize = Upto(j, e, b)
        <5>1. From(i, o, b) = m /\ Upto(j, e, b) = m + BlockSize
          BY <3>3, <4>1 DEF From, Upto
        <5> QED
          BY <1>1, <1>7, <4>1, <4>2, <5>1
      <4> QED
        BY <3>3, <4>2, <4>4, <4>5
    <3> QED
      BY <3>1, <3>2, <3>3
  <2>3. UNION {part(b) : b \in i..j} = Bytes(f, o, o, e)
    <3>1. o \in Nat /\ o = BlockSize * i + s /\ e = BlockSize * j + u /\ o <= e
      BY <1>4, <1>5, <1>7
    <3> HIDE DEF part
    <3>2. UNION {Bytes(f, o, From(i, o, b), Upto(j, e, b)) : b \in i..j} = Bytes(f, o, o, e)
      BY <1>3, <1>10, <3>1, PartsOfBlocks
    <3> QED
      BY <3>2 DEF part
  <2> HIDE DEF copy, part
  <2>4. UNION {Filled(c) : c \in Copies(P, f, o, l)} = UNION {part(b) : b \in i..j}
    BY <2>1, <2>2
  <2> QED
    BY <1>2, <2>3, <2>4
<1> QED
  BY <1>8, <1>9, <1>10
-----------------------------------------------------------------------------
(* The answers of reads *)

\* What the answer of a read says is what read_initrd does with these arguments.
ReadInv ==
    last.op = "read" =>
        /\ last.file \in DOMAIN img.inode
        /\ last.offset \in 0..(Word - 1) /\ last.length \in 0..(Word - 1)
        /\ last.ret = Count(img.inode[last.file], last.offset, last.length)
        /\ last.copies = Copies(img.pointers, img.inode[last.file], last.offset, last.length)

\* A step that does not answer to a read keeps it.
NoRead == img' = img /\ (last' = last \/ last'.op # "read")

\* A step that does not read keeps what a read has answered.
LEMMA ReadKept == ReadInv /\ NoRead => ReadInv'
BY DEF ReadInv, NoRead

LEMMA NoReadAnswers ==
    ASSUME NEW path, NEW call \in Calls, NEW ret, Answer(path, call, ret)
    PROVE  last'.op # "read"
BY DEF Answer, Calls

LEMMA NoReadReturns ==
    ASSUME op \in Calls, NEW h, NEW n, Return(h, n)
    PROVE  last' = last \/ last'.op # "read"
BY NoReadAnswers DEF Return

LEMMA WorkReadsNothing == ASSUME MemoryIInv, Work PROVE NoRead
<1>1. op \in Calls
  BY DEF MemoryIInv, TypeOK
<1>2. CASE Token
  BY <1>2 DEF Token, NoRead
<1>3. CASE Joined
  BY <1>3 DEF Joined, NoRead
<1>4. CASE JoinedEmpty
  BY <1>4 DEF JoinedEmpty, NoRead
<1>5. CASE CloneRoot
  BY <1>1, <1>5, NoReadReturns DEF CloneRoot, NoRead
<1>6. CASE FreeNull
  BY <1>6 DEF FreeNull, NoRead
<1>7. CASE StartWalk
  BY <1>7 DEF StartWalk, NoRead
<1>8. CASE Find
  <2>1. img' = img
    BY <1>8 DEF Find
  <2>2. last' = last \/ \E h, n : Return(h, n)
    BY <1>8 DEF Find
  <2> QED
    BY <1>1, <2>1, <2>2, NoReadReturns DEF NoRead
<1>9. CASE FindNothing
  BY <1>1, <1>9, NoReadReturns DEF FindNothing, NoRead
<1>10. CASE FindAstray
  BY <1>10 DEF FindAstray, NoRead
<1>11. CASE Used
  BY <1>1, <1>11, NoReadAnswers DEF Used, NoRead
<1>12. CASE CallsGarbage
  BY <1>12 DEF CallsGarbage, NoRead
<1>13. CASE Resumed
  BY <1>13 DEF Resumed, NoRead
<1> QED
  BY <1>2, <1>3, <1>4, <1>5, <1>6, <1>7, <1>8, <1>9, <1>10, <1>11, <1>12, <1>13 DEF Work

\* The answers stay true to read_initrd.
LEMMA NextRead == ASSUME MemoryIInv, ReadInv, [Next]_vars PROVE ReadInv'
<1>1. CASE UNCHANGED vars
  BY <1>1, ReadKept DEF vars, NoRead
<1>2. CASE initrd_mount
  BY <1>2, ReadKept DEF initrd_mount, NoRead
<1>3. CASE AssertFails \/ MountAstray
  BY <1>3, ReadKept DEF AssertFails, MountAstray, NoRead
<1>4. CASE Work
  BY <1>4, WorkReadsNothing, ReadKept
<1>5. CASE Seen
  BY <1>5, ReadKept DEF Seen, NoRead, NoAnswer
<1>6. CASE Stops
  BY <1>6, ReadKept DEF Stops, vars, NoRead
<1>7. CASE \E path \in Paths : kopen(path)
  <2>1. PICK path \in Paths : kopen(path)
    BY <1>7
  <2>2. "kopen" \in Calls
    BY DEF Calls
  <2>3. NoRead
    BY <2>1, <2>2, NoReadAnswers DEF kopen, BeginKopen, NoRead
  <2> QED
    BY <2>3, ReadKept
<1>8. CASE \E path \in MakePaths, call \in {"create", "mkdir"} : Make(call, path)
  <2>1. PICK path \in MakePaths, call \in {"create", "mkdir"} : Make(call, path)
    BY <1>8
  <2>2. call \in Calls
    BY DEF Calls
  <2>3. NoRead
    BY <2>1, <2>2, NoReadAnswers DEF Make, BeginKopen, NoRead
  <2> QED
    BY <2>3, ReadKept
<1>9. CASE \E n \in held : Release(n)
  BY <1>9, ReadKept DEF Release, NoRead
<1>10. CASE \E n \in held, offset \in Offsets, length \in Lengths : read_fs(n, offset, length)
  <2>1. PICK n \in held, offset \in Offsets, length \in Lengths : read_fs(n, offset, length)
    BY <1>10
  <2>2. n.ino \in DOMAIN img.inode /\ offset \in 0..(Word - 1) /\ length \in 0..(Word - 1)
    BY VFSAssumption DEF MemoryIInv, HeldAreNodes
  <2>3. /\ img' = img
        /\ last' = [op |-> "read", file |-> n.ino, offset |-> offset, length |-> length,
                    ret |-> Count(img.inode[n.ino], offset, length),
                    copies |-> Copies(img.pointers, img.inode[n.ino], offset, length)]
    BY <2>1 DEF read_fs
  <2> QED
    BY <2>2, <2>3 DEF ReadInv
<1>11. CASE \E n \in held, index \in Indices : readdir_fs(n, index)
  <2>1. NoRead
    BY <1>11 DEF readdir_fs, NoRead
  <2> QED
    BY <2>1, ReadKept
<1> QED
  BY <1>1, <1>2, <1>3, <1>4, <1>5, <1>6, <1>7, <1>8, <1>9, <1>10, <1>11 DEF Next

\* The n bytes of the file from o on, as Wanted has them.
BytesAfter(f, o, n) ==
    {<<i, f.blocks[(o + i) \div BlockSize + 1], (o + i) % BlockSize>> : i \in 0..(n - 1)}

\* There are as many as that.
LEMMA BytesCounted ==
    ASSUME NEW f, NEW o \in Nat, NEW n \in Nat
    PROVE  Cardinality(BytesAfter(f, o, n)) = n
<1> DEFINE byte(i) == <<i, f.blocks[(o + i) \div BlockSize + 1], (o + i) % BlockSize>>
           g == [i \in 0..(n - 1) |-> byte(i)]
           T == {byte(i) : i \in 0..(n - 1)}
<1>1. g \in Bijection(0..(n - 1), T)
  <2>1. \A i \in 0..(n - 1) : byte(i)[1] = i
    OBVIOUS
  <2>2. g \in [0..(n - 1) -> T] /\ \A i \in 0..(n - 1) : g[i] = byte(i)
    OBVIOUS
  <2>3. \A t \in T : \E i \in 0..(n - 1) : g[i] = t
    BY <2>2
  <2> HIDE DEF g, byte, T
  <2>4. \A i, j \in 0..(n - 1) : g[i] = g[j] => i = j
    BY <2>1, <2>2
  <2> QED
    BY <2>2, <2>3, <2>4 DEF Bijection, Injection, Surjection, IsInjective
<1>2. IsFiniteSet(0..(n - 1)) /\ Cardinality(0..(n - 1)) = n
  BY FS_Interval
<1>3. Cardinality(T) = Cardinality(0..(n - 1))
  BY <1>1, <1>2, FS_Bijection DEF ExistsBijection
<1> QED
  BY <1>2, <1>3 DEF BytesAfter

\* The bytes a read fills are those it was to fill.
LEMMA ReadsExactly == MemoryIInv /\ ReadInv => ReadIsExact
<1> SUFFICES ASSUME MemoryIInv, ReadInv, last.op = "read" PROVE ReadIsExact
  BY DEF ReadIsExact
<1> DEFINE f == img.inode[last.file]
           P == img.pointers
           o == last.offset
           l == last.length
<1>1. /\ last.file \in DOMAIN img.inode /\ o \in 0..(Word - 1) /\ l \in 0..(Word - 1)
      /\ last.ret = Count(f, o, l) /\ last.copies = Copies(P, f, o, l)
  BY DEF ReadInv
<1>2. img \in Images
  BY DEF MemoryIInv, TypeOK
<1>3. IsFile(f) /\ P \in Nat /\ P >= Hardwired
  BY <1>1, <1>2, VFSAssumption DEF IsFile
<1>4. Mapped => Known(P, f)
  BY DEF Mapped, Known
<1> HIDE DEF f, P, o, l
<1>5. ASSUME Proper, Mapped PROVE Written = Wanted /\ last.ret = Cardinality(Wanted)
  <2>1. o <= f.size /\ o + l < Word
    BY <1>5 DEF Proper, f, o, l
  <2>2. PICK e \in o..f.size : /\ e = End(f, o, l) /\ Count(f, o, l) = e - o
                               /\ e = IF o + l > f.size THEN f.size ELSE o + l
    BY <1>1, <1>3, <2>1, EndIs
  <2>3. PICK n \in Nat : n = e - o
    BY <1>1, <1>3, <2>2 DEF IsFile
  <2>4. UNION {Filled(c) : c \in Copies(P, f, o, l)} = Bytes(f, o, o, e)
    <3>1. Known(P, f)
      BY <1>4, <1>5
    <3>2. UNION {Filled(c) : c \in Copies(P, f, o, l)} = Bytes(f, o, o, End(f, o, l))
      BY <1>1, <1>3, <2>1, <3>1, CopiesFill
    <3> QED
      BY <2>2, <3>2
  <2>5. Written = Bytes(f, o, o, e)
    BY <1>1, <2>4 DEF Written, Filled
  <2>6. Wanted = BytesAfter(f, o, n)
    <3>1. n = IF o + l > f.size THEN f.size - o ELSE l
      BY <1>1, <2>2, <2>3, <1>3 DEF IsFile
    <3> QED
      BY <3>1 DEF Wanted, BytesAfter, f, o, l
  <2>7. Bytes(f, o, o, e) = BytesAfter(f, o, n)
    <3>1. ASSUME NEW i \in 0..(n - 1), NEW x \in o..(e - 1), x = o + i
          PROVE  Byte(f, o, x) = <<i, f.blocks[(o + i) \div BlockSize + 1], (o + i) % BlockSize>>
      <4>1. x - o = i
        BY <1>1, <3>1
      <4> QED
        BY <3>1, <4>1 DEF Byte
    <3>2. \A i \in 0..(n - 1) : o + i \in o..(e - 1)
      BY <1>1, <2>2, <2>3
    <3>3. \A x \in o..(e - 1) : x - o \in 0..(n - 1) /\ x = o + (x - o)
      BY <1>1, <2>2, <2>3
    <3> QED
      BY <3>1, <3>2, <3>3 DEF Bytes, BytesAfter
  <2>8. last.ret = n
    BY <1>1, <2>2, <2>3
  <2>9. o \in Nat
    BY <1>1
  <2>10. Cardinality(Wanted) = n
    <3>1. Cardinality(BytesAfter(f, o, n)) = n
      BY <2>9, BytesCounted
    <3> QED
      BY <2>6, <3>1
  <2> QED
    BY <2>5, <2>6, <2>7, <2>8, <2>10
<1>6. ASSUME last.ret < last.length
      PROVE  (last.offset + last.ret) % Word = img.inode[last.file].size
  <2>1. Count(f, o, l) < l
    BY <1>1, <1>6 DEF l
  <2>2. (o + Count(f, o, l)) % Word = f.size
    BY <1>1, <1>3, <2>1, ShortEnds
  <2> QED
    BY <1>1, <2>2 DEF f, o
<1> QED
  BY <1>5, <1>6 DEF ReadIsExact

\* For any file, size of a block, number of pointers in a block, offset and length: a
\* read that begins in the file fills the buffer with the bytes of the file from its
\* offset on, each at its place, and says how many; one that is short has reached the
\* end of the file (read_initrd, ext2_get_inode_block).
THEOREM ReadsAreExact == Spec => []ReadIsExact
<1>1. Init => ReadInv
  BY DEF Init, ReadInv, NoAnswer
<1>2. MemoryIInv /\ ReadInv /\ [Next]_vars => ReadInv'
  BY NextRead
<1>3. Spec => [](MemoryIInv /\ ReadInv)
  BY <1>1, <1>2, InitMemory, NextMemory, PTL DEF Spec
<1> QED
  BY <1>3, ReadsExactly, PTL
-----------------------------------------------------------------------------
(* The names of a path, and strtok_r *)

\* A set of numbers up to N that is not empty has a greatest element.
LEMMA GreatestElement ==
    ASSUME NEW N \in Nat, NEW S \in SUBSET (0..N), S # {}
    PROVE  \E n \in S : \A m \in S : m <= n
<1> DEFINE R == {N - x : x \in S}
<1>1. R \in SUBSET Nat /\ R # {}
  <2>1. \A x \in S : N - x \in Nat
    OBVIOUS
  <2>2. R \subseteq Nat
    BY <2>1
  <2> QED
    BY <2>2
<1>2. PICK r \in R : \A q \in R : r <= q
  <2> HIDE DEF R
  <2> QED
    BY <1>1, LeastElement
<1>3. PICK n \in S : r = N - n
  BY <1>2
<1>4. \A m \in S : N - n <= N - m
  BY <1>2, <1>3
<1>5. \A m \in S : m <= n
  BY <1>4
<1> QED
  BY <1>5

\* strspn counts the delimiters in front.
LEMMA SpanIs ==
    ASSUME NEW S, NEW s \in Seq(S), NEW D
    PROVE  LET n == strspn(s, D) IN
           /\ n \in 0..Len(s) /\ \A i \in 1..n : s[i] \in D
           /\ n < Len(s) => s[n + 1] \notin D
<1> DEFINE Stop == {n \in 0..Len(s) : n = Len(s) \/ s[n + 1] \notin D}
<1>1. Len(s) \in Nat
  OBVIOUS
<1>2. Stop \in SUBSET Nat /\ Len(s) \in Stop
  BY <1>1
<1>3. PICK n \in Stop : \A m \in Stop : n <= m
  <2> HIDE DEF Stop
  <2> QED
    BY <1>2, LeastElement
<1>4. n \in 0..Len(s) /\ (n < Len(s) => s[n + 1] \notin D)
  BY <1>3
<1>5. ASSUME NEW i \in 1..n PROVE s[i] \in D
  <2>1. i - 1 \in 0..Len(s) /\ i - 1 # Len(s) /\ i - 1 \notin Stop
    BY <1>1, <1>3, <1>4
  <2>2. (i - 1) + 1 = i
    BY <1>4
  <2> QED
    BY <2>1, <2>2
<1>6. \E m \in 0..Len(s) : /\ \A i \in 1..m : s[i] \in D
                           /\ m < Len(s) => s[m + 1] \notin D
  BY <1>4, <1>5
<1> QED
  BY <1>6 DEF strspn

\* strpbrk finds the first delimiter.
LEMMA BreakIs ==
    ASSUME NEW S, NEW s \in Seq(S), NEW D
    PROVE  LET e == strpbrk(s, D) IN
           \/ e = 0 /\ \A i \in 1..Len(s) : s[i] \notin D
           \/ e \in 1..Len(s) /\ s[e] \in D /\ \A i \in 1..(e - 1) : s[i] \notin D
<1> DEFINE found == {i \in DOMAIN s : s[i] \in D}
<1>1. DOMAIN s = 1..Len(s) /\ Len(s) \in Nat /\ found \in SUBSET Nat
  OBVIOUS
<1>2. CASE found = {}
  BY <1>1, <1>2 DEF strpbrk
<1>3. CASE found # {}
  <2>1. strpbrk(s, D) = CHOOSE i \in found : \A j \in found : i <= j
    BY <1>3 DEF strpbrk
  <2>2. \E i \in found : \A j \in found : i <= j
    <3> HIDE DEF found
    <3> QED
      BY <1>1, <1>3, LeastElement
  <2> HIDE DEF found
  <2>3. PICK e \in found : e = strpbrk(s, D) /\ \A j \in found : e <= j
    BY <2>1, <2>2
  <2>4. e \in 1..Len(s) /\ s[e] \in D
    BY <1>1, <2>3 DEF found
  <2>5. ASSUME NEW i \in 1..(e - 1) PROVE s[i] \notin D
    <3>1. i \in DOMAIN s /\ ~(e <= i)
      BY <1>1, <2>4
    <3> QED
      BY <2>3, <3>1 DEF found
  <2> QED
    BY <2>3, <2>4, <2>5
<1> QED
  BY <1>2, <1>3

\* The end of a sequence, from behind its k-th element on.
LEMMA EndOf ==
    ASSUME NEW S, NEW s \in Seq(S), NEW k \in 0..Len(s)
    PROVE  LET t == SubSeq(s, k + 1, Len(s)) IN
           /\ t \in Seq(S) /\ Len(t) = Len(s) - k
           /\ \A i \in 1..(Len(s) - k) : t[i] = s[k + i]
<1>1. Len(s) \in Nat
  OBVIOUS
<1>2. SubSeq(s, k + 1, Len(s)) \in Seq(S) /\ Len(SubSeq(s, k + 1, Len(s))) = Len(s) - k
  BY <1>1
<1>3. \A i \in 1..(Len(s) - k) : SubSeq(s, k + 1, Len(s))[i] = s[k + i]
  BY <1>1
<1> QED
  BY <1>2, <1>3

\* Its beginning, up to the k-th.
LEMMA FrontOf ==
    ASSUME NEW S, NEW s \in Seq(S), NEW k \in 0..Len(s)
    PROVE  LET t == SubSeq(s, 1, k) IN
           /\ t \in Seq(S) /\ Len(t) = k /\ \A i \in 1..k : t[i] = s[i]
<1>1. Len(s) \in Nat
  OBVIOUS
<1>2. SubSeq(s, 1, k) \in Seq(S) /\ Len(SubSeq(s, 1, k)) = k
  BY <1>1
<1>3. \A i \in 1..k : SubSeq(s, 1, k)[i] = s[i]
  BY <1>1
<1> QED
  BY <1>2, <1>3

\* What strtok_r finds: n separators, the token, and, unless that is the end, a
\* separator and the rest.
TokenAt(s, n, token, save) ==
    /\ n \in Nat /\ n + Len(token) <= Len(s)
    /\ \A i \in 1..n : s[i] = SEP
    /\ \A i \in 1..Len(token) : token[i] = s[n + i] /\ token[i] # SEP
    /\ token = <<>> => n = Len(s)
    /\ \/ n + Len(token) = Len(s) /\ save = <<>>
       \/ /\ n + Len(token) < Len(s) /\ s[n + Len(token) + 1] = SEP
          /\ save = SubSeq(s, n + Len(token) + 2, Len(s))

\* It finds a token wherever there is one.
LEMMA TokenIs ==
    ASSUME NEW S, NEW s \in Seq(S)
    PROVE  LET t == strtok_r(s, {SEP}) IN
           t.token \in Seq(S) /\ t.save \in Seq(S) /\ \E n \in Nat : TokenAt(s, n, t.token, t.save)
<1>1. PICK n \in Nat : n = strspn(s, {SEP})
  BY SpanIs
<1>2. /\ n \in 0..Len(s) /\ \A i \in 1..n : s[i] = SEP
      /\ n < Len(s) => s[n + 1] # SEP
  BY <1>1, SpanIs
<1>3. PICK rest \in Seq(S) : rest = SubSeq(s, n + 1, Len(s))
  BY <1>2, EndOf
<1>4. /\ Len(rest) = Len(s) - n /\ Len(s) \in Nat /\ Len(rest) \in Nat
      /\ \A i \in 1..(Len(s) - n) : rest[i] = s[n + i]
  BY <1>2, <1>3, EndOf
<1>5. PICK e \in Nat : e = strpbrk(rest, {SEP})
  BY <1>4, BreakIs
<1>6. \/ e = 0 /\ \A i \in 1..Len(rest) : rest[i] # SEP
      \/ e \in 1..Len(rest) /\ rest[e] = SEP /\ \A i \in 1..(e - 1) : rest[i] # SEP
  BY <1>5, BreakIs
<1>7. PICK a, b : a = SubSeq(rest, 1, e - 1) /\ b = SubSeq(rest, e + 1, Len(rest))
  OBVIOUS
<1>10. strtok_r(s, {SEP}) = IF e = 0 THEN [token |-> rest, save |-> <<>>]
                            ELSE [token |-> a, save |-> b]
  BY <1>1, <1>3, <1>5, <1>7 DEF strtok_r
<1>8. CASE e = 0
  <2>1. strtok_r(s, {SEP}).token = rest /\ strtok_r(s, {SEP}).save = <<>>
    BY <1>8, <1>10
  <2>2. <<>> \in Seq(S)
    OBVIOUS
  <2>3. \A i \in 1..Len(rest) : rest[i] = s[n + i] /\ rest[i] # SEP
    BY <1>4, <1>6, <1>8
  <2>4. rest = <<>> => n = Len(s)
    BY <1>2, <1>4
  <2>5. TokenAt(s, n, rest, <<>>)
    BY <1>2, <1>4, <2>3, <2>4 DEF TokenAt
  <2> QED
    BY <1>3, <2>1, <2>2, <2>5
<1>9. CASE e # 0
  <2>1. e \in 1..Len(rest) /\ rest[e] = SEP /\ \A i \in 1..(e - 1) : rest[i] # SEP
    BY <1>6, <1>9
  <2>2. e # 1
    BY <1>2, <1>4, <2>1
  <2>3. PICK k \in 0..Len(rest), l \in 0..Len(rest) : k = e - 1 /\ l = e
    BY <1>4, <2>1
  <2>4. PICK token \in Seq(S) : token = SubSeq(rest, 1, k)
    BY FrontOf
  <2>5. Len(token) = e - 1 /\ \A i \in 1..(e - 1) : token[i] = rest[i]
    BY <2>3, <2>4, FrontOf
  <2>6. PICK save \in Seq(S) : save = SubSeq(rest, l + 1, Len(rest))
    BY EndOf
  <2>11. Len(save) = Len(rest) - e /\ \A i \in 1..(Len(rest) - e) : save[i] = rest[e + i]
    BY <2>3, <2>6, EndOf
  <2>7. save = SubSeq(s, n + e + 1, Len(s))
    <3>1. PICK j \in 0..Len(s) : j = n + e
      BY <1>2, <1>4, <2>1
    <3>2. PICK u \in Seq(S) : u = SubSeq(s, j + 1, Len(s))
      BY EndOf
    <3>3. Len(u) = Len(s) - j /\ \A i \in 1..(Len(s) - j) : u[i] = s[j + i]
      BY <3>2, EndOf
    <3>4. Len(u) = Len(save)
      <4>1. Len(u) = Len(s) - j /\ Len(save) = Len(rest) - e
        BY <2>11, <3>3
      <4> QED
        BY <1>2, <1>4, <2>1, <3>1, <4>1
    <3>5. ASSUME NEW i \in 1..Len(u) PROVE u[i] = save[i]
      <4>1. i \in 1..(Len(s) - j) /\ i \in 1..(Len(rest) - e) /\ e + i \in 1..(Len(s) - n)
        BY <1>2, <1>4, <2>1, <3>1, <3>3
      <4>2. j + i = n + (e + i)
        BY <1>2, <2>1, <3>1
      <4>3. PICK x \in 1..(Len(s) - n) : x = e + i
        BY <4>1
      <4>4. u[i] = s[n + x] /\ rest[x] = s[n + x] /\ save[i] = rest[x]
        BY <1>4, <2>11, <3>3, <4>1, <4>2, <4>3
      <4> QED
        BY <4>4
    <3>6. u = save
      BY <3>4, <3>5, SeqEqual
    <3> QED
      BY <3>1, <3>2, <3>6
  <2>8. strtok_r(s, {SEP}).token = token /\ strtok_r(s, {SEP}).save = save
    <3>1. a = token /\ b = save
      BY <1>7, <2>3, <2>4, <2>6
    <3> QED
      BY <1>9, <1>10, <3>1
  <2>9. TokenAt(s, n, token, save)
    <3>1. \A i \in 1..Len(token) : token[i] = s[n + i] /\ token[i] # SEP
      <4>1. \A i \in 1..(e - 1) : i \in 1..(Len(s) - n)
        BY <1>4, <2>1
      <4> QED
        BY <1>4, <2>1, <2>5, <4>1
    <3>2. token # <<>>
      BY <2>1, <2>2, <2>5
    <3>3. s[n + Len(token) + 1] = SEP /\ n + Len(token) < Len(s)
      <4>1. s[n + e] = SEP
        BY <1>4, <2>1
      <4>2. n + Len(token) + 1 = n + e
        BY <1>2, <2>1, <2>5
      <4> QED
        BY <1>2, <1>4, <2>1, <2>5, <4>1, <4>2
    <3>4. n + Len(token) + 2 = n + e + 1
      BY <1>2, <2>1, <2>5
    <3> QED
      <4>1. save = SubSeq(s, n + Len(token) + 2, Len(s))
        BY <2>7, <3>4
      <4>2. n + Len(token) <= Len(s) /\ Len(s) \in Nat
        BY <1>2, <1>4, <3>3
      <4> QED
        BY <1>2, <3>1, <3>2, <3>3, <4>1, <4>2 DEF TokenAt
  <2> QED
    BY <2>8, <2>9
<1> QED
  BY <1>8, <1>9

\* The names from the i-th character on, if rest are those behind it.
Before(s, i, rest) ==
    IF s[i] = SEP THEN rest
    ELSE IF i = Len(s) \/ s[i + 1] = SEP THEN <<<<s[i]>>>> \o rest
    ELSE [rest EXCEPT ![1] = <<s[i]>> \o @]

\* f[i] are the names from there on, for all i from k on.
Parsed(f, s, k) ==
    f = [i \in k..(Len(s) + 1) |-> IF i > Len(s) THEN <<>> ELSE Before(s, i, f[i + 1])]

\* There is such an f,
LEMMA ParsedExists ==
    ASSUME NEW S, NEW s \in Seq(S)
    PROVE  \E f : Parsed(f, s, 1)
<1>1. PICK N \in Nat : N = Len(s) + 1 /\ N >= 1
  OBVIOUS
<1> DEFINE Bad == {k \in 1..N : ~ \E f : Parsed(f, s, k)}
<1> SUFFICES ASSUME Bad # {} PROVE FALSE
  <2>1. 1 \in 1..N
    BY <1>1
  <2> QED
    BY <2>1
<1>2. Bad \in SUBSET (0..N)
  BY <1>1
<1>3. PICK k \in Bad : \A m \in Bad : m <= k
  <2> HIDE DEF Bad
  <2> QED
    BY <1>2, GreatestElement
<1>4. k \in 1..N /\ ~ \E f : Parsed(f, s, k)
  BY <1>3
<1>5. CASE k = N
  <2> DEFINE f == [i \in k..N |-> <<>>]
  <2>1. \A i \in k..N : i > Len(s)
    BY <1>1, <1>4, <1>5
  <2>2. f = [i \in k..(Len(s) + 1) |-> IF i > Len(s) THEN <<>> ELSE Before(s, i, f[i + 1])]
    BY <1>1, <2>1
  <2> QED
    BY <1>4, <2>2 DEF Parsed
<1>6. CASE k # N
  <2>1. k + 1 \in 1..N /\ k + 1 \notin Bad
    BY <1>1, <1>3, <1>4, <1>6
  <2>2. PICK f : Parsed(f, s, k + 1)
    BY <2>1
  <2> DEFINE h == [i \in k..N |-> IF i = k THEN Before(s, k, f[k + 1]) ELSE f[i]]
  <2>3. \A i \in (k + 1)..N : f[i] = IF i > Len(s) THEN <<>> ELSE Before(s, i, f[i + 1])
    BY <1>1, <2>2 DEF Parsed
  <2>4. \A i \in k..N : h[i] = IF i = k THEN Before(s, k, f[k + 1]) ELSE f[i]
    OBVIOUS
  <2>5. h = [i \in k..N |-> h[i]]
    OBVIOUS
  <2> HIDE DEF h
  <2>6. ASSUME NEW i \in k..N
        PROVE  h[i] = IF i > Len(s) THEN <<>> ELSE Before(s, i, h[i + 1])
    <3>1. i + 1 \in k..N => h[i + 1] = f[i + 1]
      BY <1>4, <2>4
    <3>2. CASE i = k
      <4>1. ~(i > Len(s)) /\ i + 1 \in k..N
        BY <1>1, <1>4, <1>6, <3>2
      <4> QED
        BY <2>4, <3>1, <3>2, <4>1
    <3>3. CASE i # k
      <4>1. i \in (k + 1)..N /\ h[i] = f[i]
        BY <1>4, <2>4, <3>3
      <4>2. i > Len(s) \/ i + 1 \in k..N
        BY <1>1, <1>4
      <4> QED
        BY <2>3, <3>1, <4>1, <4>2
    <3> QED
      BY <3>2, <3>3
  <2>7. h = [i \in k..(Len(s) + 1) |-> IF i > Len(s) THEN <<>> ELSE Before(s, i, h[i + 1])]
    BY <1>1, <2>5, <2>6
  <2> QED
    BY <1>4, <2>7 DEF Parsed
<1> QED
  BY <1>5, <1>6

\* Only what follows matters.
LEMMA ParsedAlike ==
    ASSUME NEW S, NEW s \in Seq(S), NEW t \in Seq(S), NEW f, NEW g, Parsed(f, s, 1), Parsed(g, t, 1),
           NEW k \in Nat, Len(s) = Len(t) + k, \A i \in 1..Len(t) : t[i] = s[k + i]
    PROVE  \A i \in 1..(Len(t) + 1) : f[k + i] = g[i]
<1>1. PICK N \in Nat : N = Len(t) + 1 /\ Len(t) \in Nat
  OBVIOUS
<1> DEFINE Bad == {i \in 1..N : f[k + i] # g[i]}
<1> SUFFICES ASSUME Bad # {} PROVE FALSE
  BY <1>1
<1>2. Bad \in SUBSET (0..N)
  BY <1>1
<1>3. PICK i \in Bad : \A m \in Bad : m <= i
  <2> HIDE DEF Bad
  <2> QED
    BY <1>2, GreatestElement
<1>4. i \in 1..N /\ f[k + i] # g[i]
  BY <1>3
<1>5. g[i] = IF i > Len(t) THEN <<>> ELSE Before(t, i, g[i + 1])
  BY <1>1, <1>4 DEF Parsed
<1>6. f[k + i] = IF k + i > Len(s) THEN <<>> ELSE Before(s, k + i, f[k + i + 1])
  <2>1. PICK m \in 1..(Len(s) + 1) : m = k + i
    BY <1>1, <1>4
  <2>2. f[m] = IF m > Len(s) THEN <<>> ELSE Before(s, m, f[m + 1])
    BY DEF Parsed
  <2> QED
    BY <2>1, <2>2
<1>7. i <= Len(t) /\ k + i <= Len(s)
  BY <1>1, <1>4, <1>5, <1>6
<1>8. f[k + i + 1] = g[i + 1]
  <2>1. PICK m \in 1..N : m = i + 1
    BY <1>1, <1>4, <1>7
  <2>2. m \notin Bad /\ k + m = k + i + 1
    BY <1>1, <1>3, <1>4, <2>1
  <2> QED
    BY <2>1, <2>2
<1>9. t[i] = s[k + i]
  BY <1>1, <1>4, <1>7
<1>10. i # Len(t) => t[i + 1] = s[k + i + 1]
  <2> SUFFICES ASSUME i # Len(t) PROVE t[i + 1] = s[k + i + 1]
    OBVIOUS
  <2>1. PICK m \in 1..Len(t) : m = i + 1
    BY <1>1, <1>4, <1>7
  <2> QED
    BY <2>1
<1>11. i = Len(t) <=> k + i = Len(s)
  <2>1. PICK a \in Nat, b \in Nat, j \in Nat :
            a = Len(t) /\ b = Len(s) /\ b = a + k /\ j = i
    BY <1>1, <1>4
  <2>2. j = a <=> k + j = b
    BY <2>1
  <2> QED
    BY <2>1, <2>2
<1>12. Before(t, i, g[i + 1]) = Before(s, k + i, f[k + i + 1])
  BY <1>8, <1>9, <1>10, <1>11 DEF Before
<1> QED
  BY <1>1, <1>4, <1>5, <1>6, <1>7, <1>12

\* and its value at the first character are the names.
LEMMA NamesAre ==
    ASSUME NEW S, NEW s \in Seq(S), NEW f, Parsed(f, s, 1)
    PROVE  Names(s) = f[1]
<1>1. Names(s) = (CHOOSE g : Parsed(g, s, 1))[1]
  BY DEF Names, Parsed, Before
<1>2. PICK g : g = (CHOOSE h : Parsed(h, s, 1))
  OBVIOUS
<1>3. Parsed(g, s, 1)
  BY <1>2
<1>4. Len(s) \in Nat /\ Len(s) = Len(s) + 0 /\ \A i \in 1..Len(s) : s[i] = s[0 + i]
  OBVIOUS
<1>5. \A i \in 1..(Len(s) + 1) : f[0 + i] = g[i]
  BY <1>3, <1>4, ParsedAlike
<1>6. 1 \in 1..(Len(s) + 1) /\ 0 + 1 = 1
  BY <1>4
<1>7. f[0 + 1] = g[1]
  BY <1>5, <1>6
<1> QED
  BY <1>1, <1>2, <1>6, <1>7

\* The names from a character on are those of the rest of the string.
LEMMA NamesBehind ==
    ASSUME NEW S, NEW s \in Seq(S), NEW f, Parsed(f, s, 1), NEW k \in 0..Len(s)
    PROVE  f[k + 1] = Names(SubSeq(s, k + 1, Len(s)))
<1>1. PICK t \in Seq(S) : t = SubSeq(s, k + 1, Len(s))
  BY EndOf
<1>2. Len(s) \in Nat /\ Len(t) = Len(s) - k /\ \A i \in 1..(Len(s) - k) : t[i] = s[k + i]
  BY <1>1, EndOf
<1>3. PICK g : Parsed(g, t, 1)
  BY ParsedExists
<1>4. Len(s) = Len(t) + k /\ Len(t) \in Nat /\ \A i \in 1..Len(t) : t[i] = s[k + i]
  BY <1>2
<1>5. \A i \in 1..(Len(t) + 1) : f[k + i] = g[i]
  BY <1>3, <1>4, ParsedAlike
<1>6. 1 \in 1..(Len(t) + 1)
  BY <1>4
<1>7. Names(t) = g[1]
  BY <1>3, NamesAre
<1> QED
  BY <1>1, <1>5, <1>6, <1>7

\* A sequence of one element.
LEMMA OneIn == ASSUME NEW S, NEW x \in S
               PROVE  <<x>> \in Seq(S) /\ Len(<<x>>) = 1 /\ <<x>>[1] = x
OBVIOUS

\* The first element of two sequences, one behind the other, is changed in the first.
LEMMA FirstChanged ==
    ASSUME NEW S, NEW a \in Seq(S), NEW b \in Seq(S), a # <<>>, NEW x \in S
    PROVE  [a \o b EXCEPT ![1] = x] = [a EXCEPT ![1] = x] \o b
<1>1. PICK m \in Nat, n \in Nat : m = Len(a) /\ n = Len(b) /\ m > 0
  BY EmptySeq
<1>2. PICK c \in Seq(S) : c = a \o b
  BY ConcatProperties
<1>3. Len(c) = m + n /\ \A i \in 1..(m + n) : c[i] = IF i <= m THEN a[i] ELSE b[i - m]
  BY <1>1, <1>2, ConcatProperties
<1>13. PICK o \in 1..Len(a) : o = 1
  BY <1>1
<1>4. PICK d \in Seq(S) : d = [a EXCEPT ![o] = x]
  BY ExceptSeq
<1>5. Len(d) = m /\ \A i \in 1..m : d[i] = IF i = 1 THEN x ELSE a[i]
  BY <1>1, <1>4, <1>13, ExceptSeq
<1>6. PICK e \in Seq(S) : e = d \o b
  BY ConcatProperties
<1>7. Len(e) = m + n /\ \A i \in 1..(m + n) : e[i] = IF i <= m THEN d[i] ELSE b[i - m]
  <2>1. /\ Len(e) = Len(d) + Len(b)
        /\ \A i \in 1..(Len(d) + Len(b)) : e[i] = IF i <= Len(d) THEN d[i] ELSE b[i - Len(d)]
    BY <1>6, ConcatProperties
  <2> QED
    BY <1>1, <1>5, <2>1
<1>8. PICK k \in 1..Len(c) : k = 1
  BY <1>1, <1>3
<1>9. PICK g \in Seq(S) : g = [c EXCEPT ![k] = x]
  BY ExceptSeq
<1>10. Len(g) = m + n /\ \A i \in 1..(m + n) : g[i] = IF i = 1 THEN x ELSE c[i]
  BY <1>3, <1>8, <1>9, ExceptSeq
<1>11. ASSUME NEW i \in 1..(m + n) PROVE g[i] = e[i]
  <2>1. CASE i <= m
    <3>1. i \in 1..m /\ c[i] = a[i] /\ e[i] = d[i]
      BY <1>1, <1>3, <1>7, <2>1
    <3> QED
      BY <1>5, <1>10, <3>1
  <2>2. CASE i > m
    <3>1. c[i] = b[i - m] /\ e[i] = b[i - m] /\ i # 1
      BY <1>1, <1>3, <1>7, <2>2
    <3> QED
      BY <1>10, <3>1
  <2> QED
    BY <1>1, <2>1, <2>2
<1>12. g = e
  BY <1>7, <1>10, <1>11, SeqEqual
<1> QED
  BY <1>2, <1>4, <1>6, <1>8, <1>9, <1>12, <1>13

\* What a path is made of.
Elements(S) == {w \in Seq(S) : w # <<>> /\ \A i \in 1..Len(w) : w[i] # SEP}

\* An element with a character more in front.
LEMMA LongerElement ==
    ASSUME NEW S, NEW w \in Elements(S), NEW c \in S, c # SEP
    PROVE  <<c>> \o w \in Elements(S)
<1>1. w \in Seq(S) /\ Len(w) \in Nat
  BY DEF Elements
<1>2. <<c>> \in Seq(S) /\ Len(<<c>>) = 1 /\ <<c>>[1] = c
  BY OneIn
<1>3. PICK u : u = <<c>> \o w
  OBVIOUS
<1>4. /\ u \in Seq(S) /\ Len(u) = 1 + Len(w)
      /\ \A i \in 1..(1 + Len(w)) : u[i] = IF i <= 1 THEN <<c>>[i] ELSE w[i - 1]
  BY <1>1, <1>2, <1>3, ConcatProperties
<1>5. u # <<>>
  BY <1>1, <1>4
<1>6. ASSUME NEW i \in 1..Len(u) PROVE u[i] # SEP
  <2>1. CASE i = 1
    BY <1>1, <1>2, <1>4, <2>1
  <2>2. CASE i # 1
    <3>1. i - 1 \in 1..Len(w) /\ u[i] = w[i - 1]
      BY <1>1, <1>4, <2>2
    <3> QED
      BY <3>1 DEF Elements
  <2> QED
    BY <2>1, <2>2
<1> QED
  BY <1>3, <1>4, <1>5, <1>6 DEF Elements

\* What is in front of the names.
LEMMA BeforeIs ==
    ASSUME NEW S, NEW s \in Seq(S), NEW i \in 1..Len(s), NEW rest \in Seq(Elements(S)),
           i # Len(s) /\ s[i + 1] # SEP => rest # <<>>
    PROVE  /\ Before(s, i, rest) \in Seq(Elements(S))
           /\ s[i] # SEP => Before(s, i, rest) # <<>>
<1>1. s[i] \in S
  OBVIOUS
<1>2. CASE s[i] = SEP
  BY <1>2 DEF Before
<1>3. CASE s[i] # SEP /\ (i = Len(s) \/ s[i + 1] = SEP)
  <2>1. <<s[i]>> \in Elements(S)
    BY <1>1, <1>3, OneIn DEF Elements
  <2>2. PICK w \in Elements(S) : w = <<s[i]>>
    BY <2>1
  <2>3. <<w>> \in Seq(Elements(S)) /\ Len(<<w>>) = 1
    BY OneIn
  <2>4. <<w>> \o rest \in Seq(Elements(S)) /\ Len(<<w>> \o rest) = 1 + Len(rest)
    BY <2>3, ConcatProperties
  <2>5. <<w>> \o rest # <<>>
    BY <2>4, EmptySeq
  <2> QED
    BY <1>3, <2>2, <2>4, <2>5 DEF Before
<1>4. CASE s[i] # SEP /\ ~(i = Len(s) \/ s[i + 1] = SEP)
  <2>1. rest # <<>> /\ 1 \in 1..Len(rest)
    BY <1>4, EmptySeq
  <2>2. rest[1] \in Elements(S)
    BY <2>1, ElementOfSeq
  <2>3. PICK w \in Elements(S) : w = <<s[i]>> \o rest[1]
    BY <1>1, <1>4, <2>2, LongerElement
  <2>4. /\ [rest EXCEPT ![1] = w] \in Seq(Elements(S))
        /\ Len([rest EXCEPT ![1] = w]) = Len(rest)
    BY <2>1, ExceptSeq
  <2>5. [rest EXCEPT ![1] = w] # <<>>
    BY <2>1, <2>4, EmptySeq
  <2>6. Before(s, i, rest) = [rest EXCEPT ![1] = w]
    BY <1>4, <2>3 DEF Before
  <2> QED
    BY <2>4, <2>5, <2>6
<1> QED
  BY <1>2, <1>3, <1>4

\* The names of a path are elements; where no separator is, there is one.
LEMMA ParsedNames ==
    ASSUME NEW S, NEW s \in Seq(S), NEW f, Parsed(f, s, 1)
    PROVE  \A i \in 1..(Len(s) + 1) : /\ f[i] \in Seq(Elements(S))
                                      /\ i <= Len(s) /\ s[i] # SEP => f[i] # <<>>
<1>1. PICK L \in Nat : L = Len(s)
  OBVIOUS
<1> DEFINE Good(i) == f[i] \in Seq(Elements(S)) /\ (i <= L /\ s[i] # SEP => f[i] # <<>>)
           Bad == {i \in 1..(L + 1) : ~Good(i)}
<1> SUFFICES ASSUME Bad # {} PROVE FALSE
  BY <1>1
<1>2. Bad \in SUBSET (0..(L + 1))
  OBVIOUS
<1>3. PICK i \in Bad : \A m \in Bad : m <= i
  <2> HIDE DEF Bad
  <2>1. L + 1 \in Nat
    OBVIOUS
  <2> QED
    BY <1>2, <2>1, GreatestElement
<1>4. i \in 1..(L + 1) /\ ~Good(i)
  BY <1>3
<1>5. f[i] = IF i > L THEN <<>> ELSE Before(s, i, f[i + 1])
  BY <1>1, <1>4 DEF Parsed
<1>6. CASE i > L
  <2>1. <<>> \in Seq(Elements(S))
    BY EmptySeq
  <2> QED
    BY <1>4, <1>5, <1>6, <2>1
<1>7. CASE i <= L
  <2>1. PICK m \in 1..(L + 1) : m = i + 1
    BY <1>4, <1>7
  <2>2. Good(m)
    <3>1. m \notin Bad
      BY <1>3, <1>4, <2>1
    <3> QED
      BY <3>1
  <2>3. f[i + 1] \in Seq(Elements(S)) /\ (i # L /\ s[i + 1] # SEP => f[i + 1] # <<>>)
    BY <1>4, <1>7, <2>1, <2>2
  <2>4. PICK rest \in Seq(Elements(S)) : rest = f[i + 1]
    BY <2>3
  <2>5. i \in 1..Len(s) /\ (i # Len(s) /\ s[i + 1] # SEP => rest # <<>>)
    BY <1>1, <1>4, <1>7, <2>3, <2>4
  <2>6. f[i] = Before(s, i, rest)
    BY <1>4, <1>5, <1>7, <2>4
  <2>7. Before(s, i, rest) \in Seq(Elements(S)) /\ (s[i] # SEP => Before(s, i, rest) # <<>>)
    BY <2>5, BeforeIs
  <2> QED
    BY <1>4, <2>6, <2>7
<1> QED
  BY <1>4, <1>6, <1>7

\* All names of a path are elements.
LEMMA NamesIn ==
    ASSUME NEW S, NEW s \in Seq(S)
    PROVE  Names(s) \in Seq(Elements(S))
<1>1. PICK f : Parsed(f, s, 1)
  BY ParsedExists
<1>2. 1 \in 1..(Len(s) + 1)
  OBVIOUS
<1> QED
  BY <1>1, <1>2, NamesAre, ParsedNames

\* a is what s has in front of a separator, its k-th character.
FrontPart(s, a, k) ==
    /\ k \in 1..Len(s) /\ s[k] = SEP /\ Len(a) = k - 1 /\ \A i \in 1..(k - 1) : a[i] = s[i]

\* Where a name goes on there is one.
WordOn(a, i, rest) == i # Len(a) /\ a[i + 1] # SEP => rest # <<>>

\* What is in front of other names, and of more behind the separator.
LEMMA BeforeMore ==
    ASSUME NEW S, NEW s \in Seq(S), NEW a \in Seq(S), NEW k, FrontPart(s, a, k),
           NEW i \in 1..Len(a), NEW rest \in Seq(Elements(S)), NEW more \in Seq(Elements(S)),
           WordOn(a, i, rest)
    PROVE  Before(s, i, rest \o more) = Before(a, i, rest) \o more
<1>1. /\ k \in Nat /\ i \in Nat /\ i < k /\ k <= Len(s) /\ i # Len(s) /\ a[i] = s[i]
      /\ i \in 1..Len(s) /\ Len(a) = k - 1
  BY DEF FrontPart
<1>2. i # Len(a) => i + 1 \in 1..(k - 1)
  BY <1>1
<1>3. i # Len(a) => a[i + 1] = s[i + 1]
  BY <1>2 DEF FrontPart
<1>4. i = Len(a) => s[i + 1] = SEP
  <2>1. i = Len(a) => i + 1 = k
    BY <1>1
  <2> QED
    BY <2>1 DEF FrontPart
<1>5. s[i] \in S
  BY <1>1
<1>6. CASE s[i] = SEP
  BY <1>1, <1>6 DEF Before
<1>7. CASE s[i] # SEP /\ (i = Len(a) \/ a[i + 1] = SEP)
  <2>1. <<s[i]>> \in Elements(S)
    BY <1>5, <1>7, OneIn DEF Elements
  <2>2. PICK w \in Elements(S) : w = <<s[i]>>
    BY <2>1
  <2>3. <<w>> \in Seq(Elements(S))
    BY OneIn
  <2>4. (<<w>> \o rest) \o more = <<w>> \o (rest \o more)
    BY <2>3, ConcatAssociative
  <2>5. Before(s, i, rest \o more) = <<w>> \o (rest \o more)
    BY <1>1, <1>3, <1>4, <1>7, <2>2 DEF Before
  <2>6. Before(a, i, rest) = <<w>> \o rest
    BY <1>1, <1>7, <2>2 DEF Before
  <2> QED
    BY <2>4, <2>5, <2>6
<1>8. CASE s[i] # SEP /\ i # Len(a) /\ a[i + 1] # SEP
  <2>1. rest # <<>> /\ 1 \in 1..Len(rest)
    BY <1>8, EmptySeq DEF WordOn
  <2>2. rest[1] \in Elements(S)
    BY <2>1, ElementOfSeq
  <2>3. PICK w \in Elements(S) : w = <<s[i]>> \o rest[1]
    BY <1>5, <1>8, <2>2, LongerElement
  <2>4. (rest \o more)[1] = rest[1]
    BY <2>1, ConcatProperties
  <2>5. Before(s, i, rest \o more) = [rest \o more EXCEPT ![1] = w]
    BY <1>1, <1>3, <1>8, <2>3, <2>4 DEF Before
  <2>6. Before(a, i, rest) = [rest EXCEPT ![1] = w]
    BY <1>1, <1>8, <2>3 DEF Before
  <2> QED
    BY <2>1, <2>5, <2>6, FirstChanged
<1> QED
  BY <1>6, <1>7, <1>8

\* One step of Parsed.
LEMMA ParsedAt ==
    ASSUME NEW S, NEW s \in Seq(S), NEW f, Parsed(f, s, 1), NEW i \in 1..Len(s)
    PROVE  f[i] = Before(s, i, f[i + 1])
<1>1. i \in 1..(Len(s) + 1) /\ ~(i > Len(s))
  OBVIOUS
<1> QED
  BY <1>1 DEF Parsed

\* The names of a path are those in front of a separator and those behind it.
LEMMA SplitNames ==
    ASSUME NEW S, NEW s \in Seq(S), NEW k \in 1..Len(s), s[k] = SEP
    PROVE  Names(s) = Names(SubSeq(s, 1, k - 1)) \o Names(SubSeq(s, k + 1, Len(s)))
<1>1. PICK j \in 0..Len(s) : j = k - 1
  OBVIOUS
<1>2. PICK a \in Seq(S) : a = SubSeq(s, 1, j)
  BY FrontOf
<1>3. FrontPart(s, a, k)
  <2>1. Len(a) = j /\ \A i \in 1..j : a[i] = s[i]
    BY <1>2, FrontOf
  <2> QED
    BY <1>1, <2>1 DEF FrontPart
<1>4. PICK f, g : Parsed(f, s, 1) /\ Parsed(g, a, 1)
  BY ParsedExists
<1>5. /\ \A i \in 1..(Len(s) + 1) : f[i] \in Seq(Elements(S))
      /\ \A i \in 1..(Len(a) + 1) : /\ g[i] \in Seq(Elements(S))
                                    /\ i <= Len(a) /\ a[i] # SEP => g[i] # <<>>
  BY <1>4, ParsedNames
<1>6. k \in Nat /\ Len(a) = k - 1 /\ Len(s) \in Nat /\ k <= Len(s) /\ k >= 1
  BY <1>3 DEF FrontPart
<1>7. PICK more \in Seq(Elements(S)) : more = f[k]
  BY <1>5, <1>6
<1> DEFINE Bad == {i \in 1..k : f[i] # g[i] \o more}
<1>8. Bad = {}
  <2> SUFFICES ASSUME Bad # {} PROVE FALSE
    OBVIOUS
  <2>1. Bad \in SUBSET (0..k)
    BY <1>6
  <2>2. PICK i \in Bad : \A m \in Bad : m <= i
    <3> HIDE DEF Bad
    <3> QED
      BY <1>6, <2>1, GreatestElement
  <2>3. i \in 1..k /\ f[i] # g[i] \o more
    BY <2>2
  <2>4. i # k
    <3>1. k \in 1..(Len(a) + 1) /\ k > Len(a)
      BY <1>6
    <3>2. g[k] = <<>>
      BY <1>4, <3>1 DEF Parsed
    <3>3. <<>> \o more = more
      BY ConcatEmptySeq
    <3> QED
      BY <1>7, <2>3, <3>2, <3>3
  <2>14. i \in Nat /\ 1 <= i /\ i < k
    <3>1. i \in 1..k
      BY <2>3
    <3> QED
      BY <1>6, <2>4, <3>1
  <2>5. PICK m \in 1..k : m = i + 1
    BY <1>6, <2>14
  <2>6. f[m] = g[m] \o more
    <3>1. m \notin Bad
      BY <2>2, <2>3, <2>5
    <3> QED
      BY <3>1
  <2>7. i \in 1..Len(a) /\ i \in 1..(Len(a) + 1) /\ i \in 1..(Len(s) + 1) /\ i <= Len(s)
    <3>1. i <= Len(a) /\ i <= Len(s)
      BY <1>6, <2>14
    <3> QED
      BY <1>6, <2>14, <3>1
  <2>8. f[i] = Before(s, i, f[m])
    BY <1>4, <2>5, <2>7, ParsedAt
  <2>9. g[i] = Before(a, i, g[m])
    BY <1>4, <2>5, <2>7, ParsedAt
  <2>10. m \in 1..(Len(a) + 1)
    BY <1>6, <2>5
  <2>11. PICK rest \in Seq(Elements(S)) : rest = g[m]
    BY <1>5, <2>10
  <2>12. WordOn(a, i, rest)
    BY <1>5, <1>6, <2>5, <2>7, <2>10, <2>11 DEF WordOn
  <2> HIDE DEF Bad
  <2>13. Before(s, i, rest \o more) = Before(a, i, rest) \o more
    <3>1. PICK x \in 1..Len(a) : x = i
      BY <2>7
    <3>2. WordOn(a, x, rest)
      BY <2>12, <3>1
    <3>3. Before(s, x, rest \o more) = Before(a, x, rest) \o more
      BY <1>3, <3>2, BeforeMore
    <3> QED
      BY <3>1, <3>3
  <2> QED
    BY <2>3, <2>6, <2>8, <2>9, <2>11, <2>13
<1>9. f[1] = g[1] \o more
  <2>1. 1 \in 1..k
    BY <1>6
  <2>2. 1 \notin Bad
    BY <1>8
  <2> QED
    BY <2>1, <2>2
<1>10. Names(s) = f[1] /\ Names(a) = g[1]
  BY <1>4, NamesAre
<1>11. more = Names(SubSeq(s, k + 1, Len(s)))
  <2>2. f[k] = Before(s, k, f[k + 1])
    BY <1>4, ParsedAt
  <2>3. f[k] = f[k + 1]
    BY <2>2 DEF Before
  <2>4. PICK x \in 0..Len(s) : x = k
    BY <1>6
  <2>5. f[x + 1] = Names(SubSeq(s, x + 1, Len(s)))
    BY <1>4, NamesBehind
  <2> QED
    BY <1>7, <2>3, <2>4, <2>5
<1> QED
  BY <1>1, <1>2, <1>9, <1>10, <1>11

\* Separators have no names.
LEMMA NoNames ==
    ASSUME NEW S, NEW s \in Seq(S), \A i \in 1..Len(s) : s[i] = SEP
    PROVE  Names(s) = <<>>
<1>1. PICK f : Parsed(f, s, 1)
  BY ParsedExists
<1>2. PICK L \in Nat : L = Len(s)
  OBVIOUS
<1> DEFINE Bad == {i \in 1..(L + 1) : f[i] # <<>>}
<1>3. Bad = {}
  <2> SUFFICES ASSUME Bad # {} PROVE FALSE
    OBVIOUS
  <2>1. Bad \in SUBSET (0..(L + 1)) /\ L + 1 \in Nat
    BY <1>2
  <2>2. PICK i \in Bad : \A m \in Bad : m <= i
    <3> HIDE DEF Bad
    <3> QED
      BY <2>1, GreatestElement
  <2>3. i \in 1..(L + 1) /\ f[i] # <<>> /\ i + 1 \notin Bad
    BY <1>2, <2>2
  <2>5. f[i] = IF i > L THEN <<>> ELSE Before(s, i, f[i + 1])
    BY <1>1, <1>2, <2>3 DEF Parsed
  <2>6. i \in 1..L /\ i + 1 \in 1..(L + 1)
    BY <1>2, <2>3, <2>5
  <2>7. f[i + 1] = <<>> /\ f[i] = Before(s, i, f[i + 1])
    BY <2>3, <2>5, <2>6
  <2>8. s[i] = SEP
    BY <1>2, <2>6
  <2> QED
    BY <2>3, <2>7, <2>8 DEF Before
<1>4. 1 \in 1..(L + 1)
  BY <1>2
<1>5. f[1] = <<>>
  BY <1>3, <1>4
<1> QED
  BY <1>1, <1>5, NamesAre

\* The only element of a sequence is changed.
LEMMA OneChanged ==
    ASSUME NEW S, NEW u \in S, NEW x \in S
    PROVE  [<<u>> EXCEPT ![1] = x] = <<x>>
<1>1. PICK a \in Seq(S), b \in Seq(S) : a = <<u>> /\ b = <<x>>
  BY OneIn
<1>2. Len(a) = 1 /\ Len(b) = 1 /\ a[1] = u /\ b[1] = x
  BY <1>1, OneIn
<1>3. PICK k \in 1..Len(a) : k = 1
  BY <1>2
<1>4. PICK c \in Seq(S) : c = [a EXCEPT ![k] = x]
  BY ExceptSeq
<1>5. Len(c) = 1 /\ \A j \in 1..1 : c[j] = IF j = k THEN x ELSE a[j]
  BY <1>2, <1>4, ExceptSeq
<1>6. \A j \in 1..Len(c) : c[j] = b[j]
  BY <1>2, <1>3, <1>5
<1>7. c = b
  BY <1>2, <1>5, <1>6, SeqEqual
<1> QED
  BY <1>1, <1>3, <1>4, <1>7

\* The end of an element, from its i-th character on.
LEMMA ElementEnd ==
    ASSUME NEW S, NEW w \in Elements(S), NEW i \in 1..Len(w)
    PROVE  /\ SubSeq(w, i, Len(w)) \in Elements(S)
           /\ SubSeq(w, i, Len(w)) = <<w[i]>> \o SubSeq(w, i + 1, Len(w))
<1>1. w \in Seq(S) /\ Len(w) \in Nat /\ w[i] # SEP
  BY DEF Elements
<1>2. PICK k \in 0..Len(w) : k = i - 1
  BY <1>1
<1>3. PICK u \in Seq(S) : u = SubSeq(w, k + 1, Len(w))
  BY <1>1, EndOf
<1>4. Len(u) = Len(w) - k /\ \A j \in 1..(Len(w) - k) : u[j] = w[k + j]
  BY <1>1, <1>3, EndOf
<1>5. u # <<>>
  BY <1>1, <1>2, <1>4
<1>6. ASSUME NEW j \in 1..Len(u) PROVE u[j] # SEP
  <2>1. PICK m \in 1..Len(w) : m = k + j
    BY <1>1, <1>2, <1>4
  <2>2. u[j] = w[m]
    BY <1>4, <2>1
  <2> QED
    BY <2>2 DEF Elements
<1>7. SubSeq(w, i, Len(w)) = u
  BY <1>2, <1>3
<1>8. Len(w) \in i..Len(w)
  BY <1>1
<1>9. SubSeq(w, i, Len(w)) = <<w[i]>> \o SubSeq(w, i + 1, Len(w))
  BY <1>1, <1>8, SubSeqRecursiveFirst
<1> QED
  BY <1>3, <1>5, <1>6, <1>7, <1>9 DEF Elements

\* An element is its one name.
LEMMA OneName ==
    ASSUME NEW S, NEW w \in Elements(S)
    PROVE  Names(w) = <<w>>
<1>1. w \in Seq(S) /\ w # <<>> /\ \A i \in 1..Len(w) : w[i] # SEP
  BY DEF Elements
<1>2. PICK f : Parsed(f, w, 1)
  BY <1>1, ParsedExists
<1>3. PICK L \in Nat : L = Len(w) /\ L >= 1
  BY <1>1, EmptySeq
<1> DEFINE Bad == {i \in 1..L : f[i] # <<SubSeq(w, i, L)>>}
<1>4. Bad = {}
  <2> SUFFICES ASSUME Bad # {} PROVE FALSE
    OBVIOUS
  <2>1. Bad \in SUBSET (0..L)
    BY <1>3
  <2>2. PICK i \in Bad : \A m \in Bad : m <= i
    <3> HIDE DEF Bad
    <3> QED
      BY <1>3, <2>1, GreatestElement
  <2>3. i \in 1..L /\ f[i] # <<SubSeq(w, i, L)>> /\ i + 1 \notin Bad
    BY <1>3, <2>2
  <2>4. i + 1 \in 1..L => f[i + 1] = <<SubSeq(w, i + 1, L)>>
    BY <2>3
  <2> HIDE DEF Bad
  <2>5. PICK m \in 1..Len(w) : m = i
    BY <1>3, <2>3
  <2>6. PICK u \in Elements(S) : u = SubSeq(w, m, L) /\ u = <<w[m]>> \o SubSeq(w, m + 1, L)
    BY <1>3, ElementEnd
  <2>7. f[m] = Before(w, m, f[m + 1]) /\ w[m] # SEP
    BY <1>1, <1>2, ParsedAt
  <2>8. CASE m = L
    <3>1. f[m + 1] = <<>>
      <4>1. L + 1 \in 1..(Len(w) + 1) /\ L + 1 > Len(w)
        BY <1>3
      <4> QED
        BY <1>2, <2>8, <4>1 DEF Parsed
    <3>2. <<w[m]>> \in Elements(S)
      BY <1>1, <2>7, OneIn DEF Elements
    <3>3. PICK v \in Elements(S) : v = <<w[m]>>
      BY <3>2
    <3>4. <<v>> \o <<>> = <<v>> /\ v \o <<>> = v
      <4>1. <<v>> \in Seq(Elements(S)) /\ v \in Seq(S)
        BY OneIn DEF Elements
      <4> QED
        BY <4>1, ConcatEmptySeq
    <3>5. SubSeq(w, m + 1, L) = <<>>
      BY <1>3, <2>8, SubSeqEmpty
    <3>6. f[m] = <<v>> \o <<>>
      BY <1>3, <2>7, <2>8, <3>1, <3>3 DEF Before
    <3>7. u = v
      BY <2>6, <3>3, <3>4, <3>5
    <3> QED
      BY <2>3, <2>5, <2>6, <3>4, <3>6, <3>7
  <2>9. CASE m # L
    <3>1. PICK n \in 1..Len(w) : n = m + 1
      BY <1>3, <2>9
    <3>2. PICK v \in Elements(S) : v = SubSeq(w, n, L)
      BY <1>3, ElementEnd
    <3>3. f[n] = <<v>> /\ w[n] # SEP
      <4>1. n = i + 1 /\ n \in 1..L
        BY <1>3, <2>5, <3>1
      <4> QED
        BY <1>1, <2>4, <3>2, <4>1
    <3>4. f[m] = [<<v>> EXCEPT ![1] = <<w[m]>> \o <<v>>[1]]
      BY <1>3, <2>7, <2>9, <3>1, <3>3 DEF Before
    <3>5. <<v>>[1] = v
      OBVIOUS
    <3>6. <<w[m]>> \o v = u
      BY <2>6, <3>1, <3>2
    <3>7. f[m] = <<u>>
      BY <3>4, <3>5, <3>6, OneChanged
    <3> QED
      BY <2>3, <2>5, <2>6, <3>7
  <2> QED
    BY <2>8, <2>9
<1>5. f[1] = <<SubSeq(w, 1, L)>>
  <2>1. 1 \in 1..L
    BY <1>3
  <2>2. 1 \notin Bad
    BY <1>4
  <2> QED
    BY <2>1, <2>2
<1>6. SubSeq(w, 1, L) = w
  BY <1>1, <1>3, SubSeqFull
<1> QED
  BY <1>1, <1>2, <1>5, <1>6, NamesAre

\* The path s: n separators, and then the element w.
WordLast(s, n, w) ==
    /\ n \in Nat /\ Len(s) = n + Len(w) /\ \A i \in 1..n : s[i] = SEP
    /\ \A i \in 1..Len(w) : s[n + i] = w[i]

\* It has the name w and no other.
LEMMA LastName ==
    ASSUME NEW S, NEW s \in Seq(S), NEW n, NEW w \in Elements(S), WordLast(s, n, w)
    PROVE  Names(s) = <<w>>
<1>1. w \in Seq(S) /\ Len(w) \in Nat /\ Len(s) = n + Len(w) /\ n \in Nat
  BY DEF Elements, WordLast
<1>2. CASE n = 0
  <2>1. Len(s) = Len(w)
    BY <1>1, <1>2
  <2>2. ASSUME NEW i \in 1..Len(s) PROVE s[i] = w[i]
    <3>1. i \in 1..Len(w) /\ n + i = i
      BY <1>1, <1>2, <2>1
    <3> QED
      BY <3>1 DEF WordLast
  <2>3. s = w
    BY <1>1, <2>1, <2>2, SeqEqual
  <2> QED
    BY <2>3, OneName
<1>3. CASE n # 0
  <2>1. PICK k \in 1..Len(s) : k = n
    BY <1>1, <1>3
  <2>2. s[k] = SEP
    <3>1. n \in 1..n
      BY <1>1, <1>3
    <3> QED
      BY <2>1, <3>1 DEF WordLast
  <2>3. PICK j \in 0..Len(s), l \in 0..Len(s) : j = k - 1 /\ l = k
    BY <1>1, <2>1
  <2>4. PICK a \in Seq(S) : a = SubSeq(s, 1, j)
    BY FrontOf
  <2>5. Names(a) = <<>>
    <3>1. Len(a) = j /\ \A i \in 1..j : a[i] = s[i]
      BY <2>4, FrontOf
    <3>2. ASSUME NEW i \in 1..Len(a) PROVE a[i] = SEP
      <4>1. i \in 1..j /\ i \in 1..n
        BY <1>1, <2>1, <2>3, <3>1
      <4> QED
        BY <3>1, <4>1 DEF WordLast
    <3> QED
      BY <3>2, NoNames
  <2>6. PICK b \in Seq(S) : b = SubSeq(s, l + 1, Len(s))
    BY EndOf
  <2>7. b = w
    <3>1. Len(b) = Len(s) - l /\ \A i \in 1..(Len(s) - l) : b[i] = s[l + i]
      BY <2>6, EndOf
    <3>2. Len(b) = Len(w)
      BY <1>1, <2>1, <2>3, <3>1
    <3>3. ASSUME NEW i \in 1..Len(b) PROVE b[i] = w[i]
      <4>1. b[i] = s[n + i]
        BY <2>1, <2>3, <3>1
      <4> QED
        BY <3>2, <4>1 DEF WordLast
    <3> QED
      BY <1>1, <3>2, <3>3, SeqEqual
  <2>8. Names(s) = Names(a) \o Names(b)
    BY <2>2, <2>3, <2>4, <2>6, SplitNames
  <2>9. <<>> \o <<w>> = <<w>>
    <3>1. <<w>> \in Seq(Elements(S))
      BY OneIn
    <3> QED
      BY <3>1, ConcatEmptySeq
  <2> QED
    BY <2>5, <2>7, <2>8, <2>9, OneName
<1> QED
  BY <1>2, <1>3

\* The token is the first name; what follows has the others.
FirstName(S, s, token, save) ==
    /\ token = <<>> => Names(s) = <<>>
    /\ token # <<>> => token \in Elements(S) /\ Names(s) = <<token>> \o Names(save)

\* So it is for what strtok_r finds.
LEMMA TokenNames ==
    ASSUME NEW S, NEW s \in Seq(S), NEW n, NEW token \in Seq(S), NEW save,
           TokenAt(s, n, token, save)
    PROVE  FirstName(S, s, token, save)
<1>1. /\ n \in Nat /\ n + Len(token) <= Len(s) /\ Len(token) \in Nat /\ Len(s) \in Nat
      /\ \A i \in 1..n : s[i] = SEP
      /\ \A i \in 1..Len(token) : token[i] = s[n + i] /\ token[i] # SEP
  BY DEF TokenAt
<1>2. CASE token = <<>>
  <2>1. n = Len(s)
    BY <1>2 DEF TokenAt
  <2> QED
    BY <1>1, <1>2, <2>1, NoNames DEF FirstName
<1>3. CASE token # <<>>
  <2>1. token \in Elements(S)
    BY <1>1, <1>3 DEF Elements
  <2>2. CASE n + Len(token) = Len(s)
    <3>1. save = <<>>
      BY <1>1, <2>2 DEF TokenAt
    <3>2. WordLast(s, n, token)
      BY <1>1, <2>2 DEF WordLast
    <3>3. Names(s) = <<token>>
      BY <2>1, <3>2, LastName
    <3>4. Names(save) = <<>>
      <4>1. save \in Seq(S) /\ \A i \in 1..Len(save) : save[i] = SEP
        BY <3>1
      <4> QED
        BY <4>1, NoNames
    <3>5. <<token>> \o <<>> = <<token>>
      <4>1. <<token>> \in Seq(Seq(S))
        BY OneIn
      <4> QED
        BY <4>1, ConcatEmptySeq
    <3> QED
      BY <1>3, <2>1, <3>3, <3>4, <3>5 DEF FirstName
  <2>3. CASE n + Len(token) # Len(s)
    <3>1. /\ s[n + Len(token) + 1] = SEP
          /\ save = SubSeq(s, n + Len(token) + 2, Len(s))
      BY <1>1, <2>3 DEF TokenAt
    <3>2. PICK k \in 1..Len(s), j \in 0..Len(s) : k = n + Len(token) + 1 /\ j = n + Len(token)
      BY <1>1, <2>3
    <3>3. PICK a \in Seq(S) : a = SubSeq(s, 1, j)
      BY FrontOf
    <3>4. Len(a) = j /\ \A i \in 1..j : a[i] = s[i]
      BY <3>3, FrontOf
    <3>5. WordLast(a, n, token)
      <4>1. ASSUME NEW i \in 1..n PROVE a[i] = SEP
        <5>1. i \in 1..j
          BY <1>1, <3>2
        <5> QED
          BY <1>1, <3>4, <5>1
      <4>2. ASSUME NEW i \in 1..Len(token) PROVE a[n + i] = token[i]
        <5>1. PICK m \in 1..j : m = n + i
          BY <1>1, <3>2
        <5>2. a[m] = s[m]
          BY <3>4
        <5> QED
          BY <1>1, <5>1, <5>2
      <4> QED
        BY <1>1, <3>2, <3>4, <4>1, <4>2 DEF WordLast
    <3>6. Names(a) = <<token>>
      BY <2>1, <3>5, LastName
    <3>7. s[k] = SEP
      BY <3>1, <3>2
    <3>8. Names(s) = Names(SubSeq(s, 1, k - 1)) \o Names(SubSeq(s, k + 1, Len(s)))
      BY <3>7, SplitNames
    <3>9. SubSeq(s, 1, k - 1) = a /\ SubSeq(s, k + 1, Len(s)) = save
      <4>1. k - 1 = j /\ k + 1 = n + Len(token) + 2
        BY <1>1, <3>2
      <4> QED
        BY <3>1, <3>3, <4>1
    <3> QED
      BY <1>3, <2>1, <3>6, <3>8, <3>9 DEF FirstName
  <2> QED
    BY <2>2, <2>3
<1> QED
  BY <1>2, <1>3

\* What strtok_r answers with.
LEMMA FirstToken ==
    ASSUME NEW S, NEW s \in Seq(S), NEW t, t = strtok_r(s, {SEP})
    PROVE  /\ t.token \in Seq(S) /\ t.save \in Seq(S)
           /\ FirstName(S, s, t.token, t.save)
<1>1. PICK token \in Seq(S), save \in Seq(S) : token = t.token /\ save = t.save
  BY TokenIs
<1>2. PICK n \in Nat : TokenAt(s, n, token, save)
  BY <1>1, TokenIs
<1>3. FirstName(S, s, token, save)
  BY <1>2, TokenNames
<1> QED
  BY <1>1, <1>3
-----------------------------------------------------------------------------
(* Paths made of names *)

\* FlattenSeq by its recursive function.
Flat(f, q) == f = [i \in 1..Len(q) |-> IF i = 1 THEN q[i] ELSE f[i - 1] \o q[i]]

\* q are the sequences of g in the order of at.
Ordered(q, g, at) == \A i \in 1..Len(q) : q[i] = g[at[i]]

\* It is the sequences one behind the other.
LEMMA FlattenIs ==
    ASSUME NEW S, NEW g, NEW at, NEW q \in Seq(Seq(S)), Ordered(q, g, at),
           NEW e, Strung(e, Len(q), g, at)
    PROVE  FlattenSeq(q) = e[Len(q)]
<1>1. PICK N \in Nat : N = Len(q)
  OBVIOUS
<1>2. \A i \in 0..N : e[i] = IF i = 0 THEN <<>> ELSE e[i - 1] \o g[at[i]]
  BY <1>1 DEF Strung
<1>3. CASE N = 0
  <2>1. q = <<>>
    BY <1>1, <1>3, EmptySeq
  <2>2. e[0] = <<>>
    BY <1>1, <1>2
  <2> QED
    BY <1>1, <1>3, <2>1, <2>2 DEF FlattenSeq
<1>4. CASE N # 0
  <2>1. FlattenSeq(q) = (CHOOSE f : Flat(f, q))[N]
    BY <1>1, <1>4 DEF FlattenSeq, Flat
  <2>2. ASSUME NEW i \in 1..N PROVE e[i] = IF i = 1 THEN q[i] ELSE e[i - 1] \o q[i]
    <3>1. i \in 0..N /\ i # 0
      BY <1>1
    <3>2. e[i] = e[i - 1] \o g[at[i]]
      BY <1>2, <3>1
    <3>3. CASE i = 1
      <4>1. e[0] = <<>> /\ i - 1 = 0
        BY <1>1, <1>2, <3>3
      <4>2. q[i] \in Seq(S) /\ q[i] = g[at[i]]
        BY <1>1, ElementOfSeq DEF Ordered
      <4>3. <<>> \o q[i] = q[i]
        BY <4>2, ConcatEmptySeq
      <4> QED
        BY <3>2, <3>3, <4>1, <4>2, <4>3
    <3>4. CASE i # 1
      BY <1>1, <3>2, <3>4 DEF Ordered
    <3> QED
      BY <3>3, <3>4
  <2>3. \E f : Flat(f, q)
    <3> DEFINE h == [i \in 1..N |-> e[i]]
    <3>1. \A i \in 1..N : h[i] = e[i]
      OBVIOUS
    <3> HIDE DEF h
    <3>2. ASSUME NEW i \in 1..N PROVE h[i] = IF i = 1 THEN q[i] ELSE h[i - 1] \o q[i]
      <4>1. i # 1 => i - 1 \in 1..N
        BY <1>1
      <4>2. i # 1 => h[i - 1] = e[i - 1]
        BY <3>1, <4>1
      <4> QED
        BY <2>2, <3>1, <4>2
    <3>3. h = [i \in 1..N |-> h[i]]
      BY DEF h
    <3>4. h = [i \in 1..N |-> IF i = 1 THEN q[i] ELSE h[i - 1] \o q[i]]
      BY <3>2, <3>3
    <3> QED
      BY <1>1, <3>4 DEF Flat
  <2>4. PICK f : f = (CHOOSE k : Flat(k, q)) /\ Flat(f, q)
    BY <2>3
  <2>5. \A i \in 1..N : f[i] = IF i = 1 THEN q[i] ELSE f[i - 1] \o q[i]
    <3>1. f = [i \in 1..N |-> IF i = 1 THEN q[i] ELSE f[i - 1] \o q[i]]
      BY <1>1, <2>4 DEF Flat
    <3> QED
      BY <3>1
  <2> DEFINE Bad == {i \in 1..N : f[i] # e[i]}
  <2>6. Bad = {}
    <3> SUFFICES ASSUME Bad # {} PROVE FALSE
      OBVIOUS
    <3>1. Bad \in SUBSET Nat
      OBVIOUS
    <3>2. PICK i \in Bad : \A j \in Bad : i <= j
      <4> HIDE DEF Bad
      <4> QED
        BY <3>1, LeastElement
    <3>3. i \in 1..N /\ f[i] # e[i] /\ i - 1 \notin Bad
      BY <3>2
    <3>4. i # 1
      BY <2>2, <2>5, <3>3
    <3>5. i - 1 \in 1..N
      BY <1>1, <3>3, <3>4
    <3>6. f[i - 1] = e[i - 1]
      BY <3>3, <3>5
    <3> HIDE DEF Bad
    <3> QED
      BY <2>2, <2>5, <3>3, <3>4, <3>6
  <2>7. f[N] = e[N]
    <3>1. N \in 1..N /\ N \notin Bad
      BY <1>1, <1>4, <2>6
    <3> QED
      BY <3>1
  <2> QED
    BY <1>1, <2>1, <2>4, <2>7
<1> QED
  BY <1>3, <1>4

\* Names with one separator in front of each.
Neat(s) == /\ s # <<>> /\ s[1] = SEP /\ s[Len(s)] # SEP
           /\ \A i \in 1..(Len(s) - 1) : s[i] # SEP \/ s[i + 1] # SEP

\* t is s with a separator and w behind it.
OneFurther(s, w, t) ==
    /\ Len(t) = Len(s) + 1 + Len(w) /\ \A i \in 1..Len(s) : t[i] = s[i]
    /\ t[Len(s) + 1] = SEP /\ \A i \in 1..Len(w) : t[Len(s) + 1 + i] = w[i]

\* What its elements are,
LEMMA Further ==
    ASSUME NEW S, SEP \in S, NEW s \in Seq(S), NEW w \in Elements(S)
    PROVE  s \o (<<SEP>> \o w) \in Seq(S) /\ OneFurther(s, w, s \o (<<SEP>> \o w))
<1>1. w \in Seq(S) /\ Len(w) \in Nat /\ Len(s) \in Nat
  BY DEF Elements
<1>2. PICK o \in Seq(S) : o = <<SEP>> /\ Len(o) = 1 /\ o[1] = SEP
  BY OneIn
<1>3. PICK u \in Seq(S) : u = o \o w
  BY <1>1, ConcatProperties
<1>4. Len(u) = 1 + Len(w) /\ \A i \in 1..(1 + Len(w)) : u[i] = IF i <= 1 THEN o[i] ELSE w[i - 1]
  BY <1>1, <1>2, <1>3, ConcatProperties
<1>5. PICK t \in Seq(S) : t = s \o u
  BY ConcatProperties
<1>6. /\ Len(t) = Len(s) + Len(u)
      /\ \A i \in 1..(Len(s) + Len(u)) : t[i] = IF i <= Len(s) THEN s[i] ELSE u[i - Len(s)]
  BY <1>5, ConcatProperties
<1>7. Len(t) = Len(s) + 1 + Len(w)
  BY <1>1, <1>4, <1>6
<1>8. \A i \in 1..Len(s) : t[i] = s[i]
  BY <1>1, <1>4, <1>6
<1>9. t[Len(s) + 1] = SEP
  <2>1. PICK k \in 1..(Len(s) + Len(u)) : k = Len(s) + 1
    BY <1>1, <1>4
  <2>2. k - Len(s) = 1 /\ ~(k <= Len(s))
    BY <1>1, <2>1
  <2>3. t[k] = u[1]
    BY <1>6, <2>2
  <2>4. 1 \in 1..(1 + Len(w)) /\ u[1] = o[1]
    BY <1>1, <1>4
  <2> QED
    BY <1>2, <2>1, <2>3, <2>4
<1>10. ASSUME NEW i \in 1..Len(w) PROVE t[Len(s) + 1 + i] = w[i]
  <2>1. PICK k \in 1..(Len(s) + Len(u)), j \in 1..(1 + Len(w)) : k = Len(s) + 1 + i /\ j = 1 + i
    BY <1>1, <1>4
  <2>2. ~(k <= Len(s)) /\ k - Len(s) = j /\ ~(j <= 1) /\ j - 1 = i
    BY <1>1, <2>1
  <2>3. t[k] = u[j] /\ u[j] = w[i]
    BY <1>4, <1>6, <2>2
  <2> QED
    BY <2>1, <2>3
<1> QED
  BY <1>2, <1>3, <1>5, <1>7, <1>8, <1>9, <1>10 DEF OneFurther

\* that it stays neat,
LEMMA NeatFurther ==
    ASSUME NEW S, NEW s \in Seq(S), NEW w \in Elements(S), NEW t \in Seq(S), OneFurther(s, w, t),
           s = <<>> \/ Neat(s)
    PROVE  Neat(t)
<1>1. PICK m \in Nat, n \in Nat : m = Len(s) /\ n = Len(w) /\ n > 0
  BY EmptySeq DEF Elements
<1>2. /\ Len(t) = m + 1 + n /\ \A i \in 1..m : t[i] = s[i]
      /\ t[m + 1] = SEP /\ \A i \in 1..n : t[m + 1 + i] = w[i]
  BY <1>1 DEF OneFurther
<1>3. \A i \in 1..n : w[i] # SEP
  BY <1>1 DEF Elements
<1>4. t # <<>> /\ Len(t) - 1 = m + n
  BY <1>1, <1>2, EmptySeq
<1>5. t[1] = SEP
  <2>1. CASE s = <<>>
    BY <1>1, <1>2, <2>1
  <2>2. CASE s # <<>>
    <3>1. 1 \in 1..m
      BY <1>1, <2>2, EmptySeq
    <3> QED
      BY <1>2, <2>2, <3>1 DEF Neat
  <2> QED
    BY <2>1, <2>2
<1>6. t[Len(t)] # SEP
  <2>1. n \in 1..n /\ Len(t) = m + 1 + n
    BY <1>1, <1>2
  <2> QED
    BY <1>2, <1>3, <2>1
<1>7. ASSUME NEW i \in 1..(m + n) PROVE t[i] # SEP \/ t[i + 1] # SEP
  <2>1. CASE i < m
    <3>1. i \in 1..m /\ i + 1 \in 1..m /\ i \in 1..(m - 1)
      BY <1>1, <2>1
    <3>2. s # <<>>
      BY <1>1, <3>1
    <3>3. t[i] = s[i] /\ t[i + 1] = s[i + 1]
      BY <1>2, <3>1
    <3> QED
      BY <1>1, <3>1, <3>2, <3>3 DEF Neat
  <2>2. CASE i = m
    <3>1. i \in 1..m /\ s # <<>>
      BY <1>1, <2>2
    <3>2. t[i] = s[i] /\ s[Len(s)] # SEP
      BY <1>2, <3>1 DEF Neat
    <3> QED
      BY <1>1, <2>2, <3>2
  <2>3. CASE i > m
    <3>1. PICK x \in Nat : x = i /\ x <= m + n
      BY <1>1
    <3>2. PICK j \in 1..n : j = x - m
      BY <2>3, <3>1
    <3>3. x + 1 = m + 1 + j
      BY <1>1, <3>1, <3>2
    <3>4. t[m + 1 + j] = w[j] /\ w[j] # SEP
      BY <1>2, <1>3
    <3> QED
      BY <3>1, <3>3, <3>4
  <2> QED
    BY <1>1, <2>1, <2>2, <2>3
<1> QED
  BY <1>4, <1>5, <1>6, <1>7 DEF Neat

\* and that w is its last name.
LEMMA NamesFurther ==
    ASSUME NEW S, NEW s \in Seq(S), NEW w \in Elements(S), NEW t \in Seq(S), OneFurther(s, w, t)
    PROVE  Names(t) = Names(s) \o <<w>>
<1>1. PICK m \in Nat, n \in Nat : m = Len(s) /\ n = Len(w) /\ w \in Seq(S)
  BY DEF Elements
<1>2. /\ Len(t) = m + 1 + n /\ \A i \in 1..m : t[i] = s[i]
      /\ t[m + 1] = SEP /\ \A i \in 1..n : t[m + 1 + i] = w[i]
  BY <1>1 DEF OneFurther
<1>3. PICK k \in 1..Len(t), j \in 0..Len(t), l \in 0..Len(t) : k = m + 1 /\ j = k - 1 /\ l = k
  BY <1>1, <1>2
<1>4. Names(t) = Names(SubSeq(t, 1, j)) \o Names(SubSeq(t, l + 1, Len(t)))
  BY <1>2, <1>3, SplitNames
<1>5. SubSeq(t, 1, j) = s
  <2>1. PICK a \in Seq(S) : a = SubSeq(t, 1, j)
    BY FrontOf
  <2>2. Len(a) = j /\ \A i \in 1..j : a[i] = t[i]
    BY <2>1, FrontOf
  <2>3. j = m
    BY <1>1, <1>3
  <2>4. \A i \in 1..Len(a) : a[i] = s[i]
    BY <1>2, <2>2, <2>3
  <2> QED
    BY <1>1, <2>1, <2>2, <2>3, <2>4, SeqEqual
<1>6. SubSeq(t, l + 1, Len(t)) = w
  <2>1. PICK b \in Seq(S) : b = SubSeq(t, l + 1, Len(t))
    BY EndOf
  <2>2. Len(b) = Len(t) - l /\ \A i \in 1..(Len(t) - l) : b[i] = t[l + i]
    BY <2>1, EndOf
  <2>3. Len(b) = n /\ l = m + 1
    BY <1>1, <1>2, <1>3, <2>2
  <2>4. \A i \in 1..Len(b) : b[i] = w[i]
    BY <1>2, <2>2, <2>3
  <2> QED
    BY <1>1, <2>1, <2>3, <2>4, SeqEqual
<1> QED
  BY <1>4, <1>5, <1>6, OneName

\* The path s spells the first i names of W.
Spells(S, W, i, s) ==
    s \in Seq(S) /\ Names(s) = SubSeq(W, 1, i) /\ (s = <<>> \/ Neat(s)) /\ (i # 0 => Neat(s))

\* None at first,
LEMMA SpellsNone ==
    ASSUME NEW S, NEW W, NEW s, s = <<>>
    PROVE  Spells(S, W, 0, s)
<1>1. s \in Seq(S) /\ \A i \in 1..Len(s) : s[i] = SEP
  OBVIOUS
<1>2. Names(s) = <<>>
  BY <1>1, NoNames
<1>3. SubSeq(W, 1, 0) = <<>>
  BY SubSeqEmpty
<1> QED
  BY <1>1, <1>2, <1>3 DEF Spells

\* and with each name put behind it one more.
LEMMA SpellsMore ==
    ASSUME NEW S, SEP \in S, NEW W \in Seq(Elements(S)), NEW i \in 1..Len(W), NEW s,
           Spells(S, W, i - 1, s)
    PROVE  Spells(S, W, i, s \o (<<SEP>> \o W[i]))
<1>1. s \in Seq(S) /\ Names(s) = SubSeq(W, 1, i - 1) /\ (s = <<>> \/ Neat(s))
  BY DEF Spells
<1>2. PICK w \in Elements(S) : w = W[i]
  BY ElementOfSeq
<1>3. PICK u \in Seq(S) : u = s \o (<<SEP>> \o w) /\ OneFurther(s, w, u)
  BY <1>1, Further
<1>4. Neat(u)
  BY <1>1, <1>3, NeatFurther
<1>5. Names(u) = Names(s) \o <<w>>
  BY <1>1, <1>3, NamesFurther
<1>6. SubSeq(W, 1, i - 1) \o <<w>> = SubSeq(W, 1, i)
  <2>1. PICK k \in 1..Len(W), o \in 1..Len(W) : k = i /\ o = 1 /\ k \in o..Len(W)
    OBVIOUS
  <2>2. SubSeq(W, o, k) = SubSeq(W, o, k - 1) \o <<W[k]>>
    BY <2>1, SubSeqRecursiveSecond
  <2> QED
    BY <1>2, <2>1, <2>2
<1>7. Spells(S, W, i, u)
  BY <1>1, <1>4, <1>5, <1>6 DEF Spells
<1> QED
  BY <1>2, <1>3, <1>7

\* The names of a path put together with a separator in front of each are these.
LEMMA JoinedNames ==
    ASSUME NEW S, SEP \in S, NEW W \in Seq(Elements(S)), W # <<>>,
           NEW t, t = FlattenSeq([i \in DOMAIN W |-> <<SEP>> \o W[i]])
    PROVE  t \in Seq(S) /\ Neat(t) /\ Names(t) = W
<1>1. PICK N \in Nat : N = Len(W) /\ N > 0 /\ DOMAIN W = 1..N
  BY EmptySeq
<1>2. \A i \in 1..N : W[i] \in Elements(S)
  BY <1>1, ElementOfSeq
<1> DEFINE q == [i \in 1..N |-> <<SEP>> \o W[i]]
<1>3. \A i \in 1..N : q[i] = <<SEP>> \o W[i]
  OBVIOUS
<1>4. q \in Seq(Seq(S)) /\ Len(q) = N
  <2>1. ASSUME NEW i \in 1..N PROVE q[i] \in Seq(S)
    <3>1. W[i] \in Seq(S) /\ <<SEP>> \in Seq(S)
      BY <1>2, OneIn DEF Elements
    <3> QED
      BY <1>3, <3>1, ConcatProperties
  <2> QED
    BY <2>1, IsASeq
<1>5. t = FlattenSeq(q)
  BY <1>1
<1> HIDE DEF q
<1> DEFINE at == [i \in 1..N |-> i]
<1>6. \A i \in 1..N : at[i] = i
  OBVIOUS
<1> HIDE DEF at
<1>7. PICK e : Strung(e, N, q, at)
  BY StrungExists
<1>8. t = e[N]
  <2>1. Strung(e, Len(q), q, at) /\ Ordered(q, q, at)
    BY <1>4, <1>6, <1>7 DEF Ordered
  <2>2. FlattenSeq(q) = e[Len(q)]
    BY <1>4, <2>1, FlattenIs
  <2> QED
    BY <1>4, <1>5, <2>2
<1>9. \A i \in 0..N : e[i] = IF i = 0 THEN <<>> ELSE e[i - 1] \o q[at[i]]
  BY <1>7 DEF Strung
<1> DEFINE Bad == {i \in 0..N : ~Spells(S, W, i, e[i])}
<1>10. Bad = {}
  <2> SUFFICES ASSUME Bad # {} PROVE FALSE
    OBVIOUS
  <2>1. Bad \in SUBSET Nat
    OBVIOUS
  <2>2. PICK i \in Bad : \A j \in Bad : i <= j
    <3> HIDE DEF Bad
    <3> QED
      BY <2>1, LeastElement
  <2>3. i \in 0..N /\ ~Spells(S, W, i, e[i]) /\ i - 1 \notin Bad
    <3>1. i \in 0..N /\ ~Spells(S, W, i, e[i])
      OBVIOUS
    <3>2. ~(i <= i - 1)
      BY <3>1
    <3> QED
      BY <2>2, <3>1, <3>2
  <2>4. i # 0
    <3>1. 0 \in 0..N
      BY <1>1
    <3>2. e[0] = <<>>
      BY <1>9, <3>1
    <3> QED
      BY <2>3, <3>2, SpellsNone
  <2>5. i - 1 \in 0..N /\ i \in 1..N
    BY <2>3, <2>4
  <2>6. Spells(S, W, i - 1, e[i - 1])
    BY <2>3, <2>5
  <2> HIDE DEF Bad
  <2>7. PICK k \in 1..Len(W) : k = i
    BY <1>1, <2>5
  <2>8. Spells(S, W, k, e[k - 1] \o (<<SEP>> \o W[k]))
    BY <2>6, <2>7, SpellsMore
  <2>9. e[i] = e[i - 1] \o (<<SEP>> \o W[i])
    BY <1>3, <1>6, <1>9, <2>3, <2>4, <2>5
  <2> QED
    BY <2>3, <2>7, <2>8, <2>9
<1>11. Spells(S, W, N, e[N])
  <2>1. N \in 0..N
    BY <1>1
  <2>2. N \notin Bad
    BY <1>10
  <2> QED
    BY <2>1, <2>2
<1>12. SubSeq(W, 1, N) = W
  BY <1>1, SubSeqFull
<1>13. t \in Seq(S) /\ Neat(t) /\ Names(t) = SubSeq(W, 1, N)
  <2>1. Spells(S, W, N, t) /\ N # 0
    BY <1>1, <1>8, <1>11
  <2> QED
    BY <2>1 DEF Spells
<1> QED
  BY <1>12, <1>13
-----------------------------------------------------------------------------
(* What is ahead in a path that is taken apart *)

\* What a path is made of.
Chars == (STRING \union {SEP, "."}) \ {NUL}

\* Any character, or the terminator.
Cells == Chars \union {NUL}

\* The separator is a character.
LEMMA SepIsChar == SEP \in Chars /\ SEP # NUL
<1>1. SEP # NUL
  BY DEF SEP, NUL
<1> QED
  BY <1>1 DEF Chars

\* t is what is ahead in s behind its first separator when terminators have taken the
\* place of the others.
Ahead(s, t) == /\ t \in Seq(Cells) /\ Len(t) = Len(s) - 1
               /\ \A i \in 1..Len(t) : t[i] = IF s[i + 1] = SEP THEN NUL ELSE s[i + 1]

\* This is what strtok_r leaves behind the first separator when it ends the
\* others, its characters one by one.
LEMMA AheadIs ==
    ASSUME NEW s \in Seq(Chars), s # <<>>
    PROVE  Ahead(s, Tail([i \in DOMAIN s |-> IF s[i] = SEP THEN NUL ELSE s[i]]))
<1>1. Len(s) \in Nat /\ Len(s) > 0 /\ DOMAIN s = 1..Len(s)
  BY EmptySeq
<1>2. PICK c : c = [i \in 1..Len(s) |-> IF s[i] = SEP THEN NUL ELSE s[i]]
  OBVIOUS
<1>3. ASSUME NEW i \in 1..Len(s) PROVE c[i] \in Cells
  <2>1. s[i] \in Chars
    BY ElementOfSeq
  <2> QED
    BY <1>2, <2>1 DEF Cells
<1>4. c \in Seq(Cells) /\ Len(c) = Len(s)
  BY <1>1, <1>2, <1>3, IsASeq
<1>5. c # <<>>
  BY <1>1, <1>4
<1>6. PICK t : t = Tail(c)
  OBVIOUS
<1>7. t \in Seq(Cells) /\ Len(t) = Len(c) - 1 /\ \A i \in 1..Len(t) : t[i] = c[i + 1]
  BY <1>4, <1>5, <1>6, HeadTailProperties
<1>8. ASSUME NEW i \in 1..Len(t) PROVE t[i] = IF s[i + 1] = SEP THEN NUL ELSE s[i + 1]
  <2>1. PICK j \in 1..Len(s) : j = i + 1
    BY <1>1, <1>4, <1>7
  <2>2. t[i] = c[j]
    BY <1>7, <2>1
  <2> QED
    BY <1>2, <2>1, <2>2
<1> QED
  BY <1>1, <1>2, <1>4, <1>6, <1>7, <1>8 DEF Ahead

\* s, of which t is ahead, has one name more.
LEMMA LastAhead ==
    ASSUME NEW s \in Seq(Chars), Neat(s), NEW t, Ahead(s, t), \A i \in 1..Len(t) : t[i] # NUL
    PROVE  t \in Elements(Chars) /\ Names(s) = <<t>>
<1>1. PICK L \in Nat, n \in Nat : L = Len(s) /\ n = Len(t) /\ n = L - 1 /\ L > 0
  BY EmptySeq DEF Ahead, Neat
<1>2. /\ t \in Seq(Cells)
      /\ \A i \in 1..n : t[i] = IF s[i + 1] = SEP THEN NUL ELSE s[i + 1]
  BY <1>1 DEF Ahead
<1>3. ASSUME NEW i \in 1..n PROVE t[i] = s[i + 1] /\ t[i] # SEP /\ t[i] \in Chars
  <2>1. t[i] # NUL
    BY <1>1
  <2>2. s[i + 1] # SEP /\ t[i] = s[i + 1]
    BY <1>2, <2>1
  <2>3. PICK j \in 1..Len(s) : j = i + 1
    BY <1>1
  <2>4. s[j] \in Chars
    BY ElementOfSeq
  <2> QED
    BY <2>2, <2>3, <2>4
<1>4. t \in Seq(Chars)
  <2>1. t = [i \in 1..n |-> t[i]]
    BY <1>1, <1>2, LenProperties
  <2> QED
    BY <1>3, <2>1, IsASeq
<1>5. s[1] = SEP /\ s[L] # SEP
  BY <1>1 DEF Neat
<1>6. t # <<>>
  <2>1. L # 1
    <3>1. SUFFICES ASSUME L = 1 PROVE FALSE
      OBVIOUS
    <3> QED
      BY <1>5, <3>1
  <2>2. Len(t) # 0
    BY <1>1, <2>1
  <2> QED
    BY <1>4, <2>2, EmptySeq
<1>7. t \in Elements(Chars)
  BY <1>1, <1>3, <1>4, <1>6 DEF Elements
<1>8. WordLast(s, 1, t)
  <2>1. \A i \in 1..1 : s[i] = SEP
    BY <1>5
  <2>2. \A i \in 1..Len(t) : s[1 + i] = t[i]
    <3> SUFFICES ASSUME NEW i \in 1..Len(t) PROVE s[1 + i] = t[i]
      OBVIOUS
    <3>1. 1 + i = i + 1 /\ i \in 1..n
      BY <1>1
    <3> QED
      BY <1>3, <3>1
  <2> QED
    BY <1>1, <2>1, <2>2 DEF WordLast
<1> QED
  BY <1>7, <1>8, LastName

\* s begins with the name w, and r is the path of the others.
Leaves(s, w, r) == /\ w \in Elements(Chars) /\ r \in Seq(Chars) /\ Neat(r)
                   /\ Names(s) = <<w>> \o Names(r)

\* So it is whenever more is ahead than one name.
LEMMA NextAhead ==
    ASSUME NEW s \in Seq(Chars), Neat(s), NEW e \in 2..(Len(s) - 1), s[e + 1] = SEP,
           \A i \in 2..e : s[i] # SEP
    PROVE  LET w == SubSeq(s, 2, e)
               r == SubSeq(s, e + 1, Len(s))
           IN Leaves(s, w, r)
<1>1. PICK L \in Nat : L = Len(s) /\ e \in Nat /\ 2 <= e /\ e + 1 <= L
  OBVIOUS
<1>2. PICK w : w = SubSeq(s, 2, e)
  OBVIOUS
<1>3. w \in Seq(Chars) /\ Len(w) = e - 1 /\ \A i \in 1..(e - 1) : w[i] = s[1 + i]
  <2>1. \A i \in 2..e : s[i] \in Chars
    BY <1>1, ElementOfSeq
  <2>2. e - 2 + 1 = e - 1 /\ 2 <= e /\ 2 \in Int /\ e \in Int
    BY <1>1
  <2>3. \A i \in 1..(e - 2 + 1) : w[i] = s[2 + i - 1]
    BY <1>2, <2>1, <2>2, SubSeqProperties
  <2>4. w \in Seq(Chars) /\ Len(w) = e - 1
    BY <1>2, <2>1, <2>2, SubSeqProperties
  <2>5. ASSUME NEW i \in 1..(e - 1) PROVE w[i] = s[1 + i]
    <3>1. 2 + i - 1 = 1 + i
      OBVIOUS
    <3> QED
      BY <2>2, <2>3, <3>1
  <2> QED
    BY <2>4, <2>5
<1>4. w \in Elements(Chars)
  <2>1. ASSUME NEW i \in 1..Len(w) PROVE w[i] # SEP
    <3>1. 1 + i \in 2..e /\ w[i] = s[1 + i]
      BY <1>1, <1>3
    <3> QED
      BY <3>1
  <2>2. w # <<>>
    BY <1>1, <1>3
  <2> QED
    BY <1>3, <2>1, <2>2 DEF Elements
<1>5. PICK j \in 0..L, k \in 1..L : j = e /\ k = e + 1
  BY <1>1
<1>6. PICK a \in Seq(Chars) : a = SubSeq(s, 1, j)
  BY <1>1, FrontOf
<1>7. Len(a) = e /\ \A i \in 1..e : a[i] = s[i]
  BY <1>1, <1>5, <1>6, FrontOf
<1>8. Names(a) = <<w>>
  <2>1. a[1] = SEP
    BY <1>1, <1>7 DEF Neat
  <2>2. ASSUME NEW i \in 1..Len(w) PROVE a[1 + i] = w[i]
    <3>1. 1 + i \in 1..e /\ i \in 1..(e - 1)
      BY <1>1, <1>3
    <3> QED
      BY <1>3, <1>7, <3>1
  <2>3. WordLast(a, 1, w)
    BY <1>1, <1>3, <1>7, <2>1, <2>2 DEF WordLast
  <2> QED
    BY <1>4, <2>3, LastName
<1>9. PICK r \in Seq(Chars) : r = SubSeq(s, j + 1, L)
  BY <1>1, EndOf
<1>10. Len(r) = L - e /\ \A i \in 1..(L - e) : r[i] = s[e + i]
  BY <1>1, <1>5, <1>9, EndOf
<1>11. Neat(r)
  <2>1. r # <<>>
    BY <1>1, <1>10
  <2>2. r[1] = SEP
    <3>1. 1 \in 1..(L - e)
      BY <1>1
    <3> QED
      BY <1>10, <3>1
  <2>3. r[Len(r)] # SEP
    <3>1. L - e \in 1..(L - e) /\ e + (L - e) = L
      BY <1>1
    <3>2. r[L - e] = s[L]
      BY <1>10, <3>1
    <3> QED
      BY <1>1, <1>10, <3>2 DEF Neat
  <2>4. ASSUME NEW i \in 1..(Len(r) - 1) PROVE r[i] # SEP \/ r[i + 1] # SEP
    <3>1. PICK m \in 1..(L - 1) : m = e + i
      BY <1>1, <1>10
    <3>2. i \in 1..(L - e) /\ i + 1 \in 1..(L - e) /\ e + (i + 1) = m + 1
      BY <1>1, <1>10, <3>1
    <3>3. r[i] = s[m] /\ r[i + 1] = s[m + 1]
      BY <1>10, <3>1, <3>2
    <3>4. s[m] # SEP \/ s[m + 1] # SEP
      BY <1>1 DEF Neat
    <3> QED
      BY <3>3, <3>4
  <2> QED
    BY <2>1, <2>2, <2>3, <2>4 DEF Neat
<1>12. PICK z \in 0..L : z = k
  BY <1>5
<1>13. PICK b \in Seq(Chars) : b = SubSeq(s, z + 1, L)
  BY <1>1, EndOf
<1>14. Len(b) = L - (e + 1) /\ \A i \in 1..(L - (e + 1)) : b[i] = s[e + 1 + i]
  BY <1>1, <1>5, <1>12, <1>13, EndOf
<1>15. Names(s) = <<w>> \o Names(b)
  <2>1. k \in 1..Len(s) /\ s[k] = SEP
    BY <1>1, <1>5
  <2>2. Names(s) = Names(SubSeq(s, 1, k - 1)) \o Names(SubSeq(s, k + 1, Len(s)))
    BY <2>1, SplitNames
  <2>3. k - 1 = j
    BY <1>1, <1>5
  <2> QED
    BY <1>1, <1>6, <1>8, <1>12, <1>13, <2>2, <2>3
<1>16. Names(r) = Names(b)
  <2>1. PICK o \in 1..Len(r), y \in 0..Len(r) : o = 1 /\ y = 1
    BY <1>1, <1>10
  <2>2. Names(r) = Names(SubSeq(r, 1, o - 1)) \o Names(SubSeq(r, o + 1, Len(r)))
    BY <1>11, <2>1, SplitNames DEF Neat
  <2>3. SubSeq(r, 1, o - 1) = <<>>
    BY <2>1, SubSeqEmpty
  <2>4. PICK x \in Seq(Chars) : x = <<>>
    BY EmptySeq
  <2>5. Names(x) = <<>>
    <3>1. Len(x) = 0
      BY <2>4, EmptySeq
    <3>2. \A i \in 1..Len(x) : x[i] = SEP
      BY <3>1
    <3> QED
      BY <3>2, NoNames
  <2>6. PICK c \in Seq(Chars) : c = SubSeq(r, y + 1, Len(r))
    BY EndOf
  <2>7. c = b
    <3>1. Len(c) = Len(r) - y /\ \A i \in 1..(Len(r) - y) : c[i] = r[y + i]
      BY <2>6, EndOf
    <3>2. Len(c) = Len(b)
      BY <1>1, <1>10, <1>14, <2>1, <3>1
    <3>3. ASSUME NEW i \in 1..Len(c) PROVE c[i] = b[i]
      <4>1. 1 + i \in 1..(L - e) /\ e + (1 + i) = e + 1 + i /\ i \in 1..(L - (e + 1))
        <5>1. PICK R \in Nat : R = Len(r) /\ R = L - e
          BY <1>1, <1>10
        <5>2. i \in 1..(R - 1)
          BY <2>1, <3>1, <5>1
        <5> QED
          BY <1>1, <5>1, <5>2
      <4>2. c[i] = r[1 + i] /\ r[1 + i] = s[e + (1 + i)]
        BY <1>10, <2>1, <3>1, <4>1
      <4> QED
        BY <1>14, <4>1, <4>2
    <3> QED
      BY <3>2, <3>3, SeqEqual
  <2>8. Names(r) = <<>> \o Names(b)
    BY <2>1, <2>2, <2>3, <2>4, <2>5, <2>6, <2>7
  <2>9. Names(b) \in Seq(Elements(Chars))
    BY NamesIn
  <2> QED
    BY <2>8, <2>9, ConcatEmptySeq
<1>17. Leaves(s, w, r)
  BY <1>4, <1>11, <1>15, <1>16 DEF Leaves
<1> QED
  BY <1>1, <1>2, <1>5, <1>9, <1>17

\* The terminator that ends the next name, at e in t: the separator behind it in s.
LEMMA EndAhead ==
    ASSUME NEW s \in Seq(Chars), Neat(s), NEW t, Ahead(s, t), NEW e \in 1..Len(t), t[e] = NUL,
           \A i \in 1..(e - 1) : t[i] # NUL
    PROVE  /\ e \in 2..(Len(s) - 1) /\ s[e + 1] = SEP
           /\ \A i \in 2..e : s[i] # SEP /\ t[i - 1] = s[i]
<1>1. PICK L \in Nat, n \in Nat : L = Len(s) /\ n = Len(t) /\ n = L - 1 /\ L > 0
  BY EmptySeq DEF Ahead, Neat
<1>2. \A i \in 1..n : t[i] = IF s[i + 1] = SEP THEN NUL ELSE s[i + 1]
  BY <1>1 DEF Ahead
<1>3. e \in 1..n /\ e \in Nat
  BY <1>1
<1>4. s[e + 1] = SEP
  <2>1. PICK j \in 1..Len(s) : j = e + 1
    BY <1>1, <1>3
  <2>2. s[j] # NUL
    BY ElementOfSeq DEF Chars
  <2>3. t[e] = IF s[e + 1] = SEP THEN NUL ELSE s[e + 1]
    BY <1>2, <1>3
  <2> QED
    BY <2>1, <2>2, <2>3
<1>5. e # 1
  <2>1. SUFFICES ASSUME e = 1 PROVE FALSE
    OBVIOUS
  <2>2. s[1] = SEP /\ s[1 + 1] = SEP /\ 1 \in 1..(L - 1)
    BY <1>1, <1>3, <1>4, <2>1 DEF Neat
  <2>3. s[1] # SEP \/ s[1 + 1] # SEP
    BY <1>1, <2>2 DEF Neat
  <2> QED
    BY <2>2, <2>3
<1>6. e + 1 # L
  <2>1. s[L] # SEP
    BY <1>1 DEF Neat
  <2> QED
    BY <1>4, <2>1
<1>7. ASSUME NEW i \in 2..e PROVE s[i] # SEP /\ t[i - 1] = s[i]
  <2>1. PICK j \in 1..(e - 1) : j = i - 1
    BY <1>3
  <2>2. j \in 1..n /\ j + 1 = i
    BY <1>1, <1>3, <2>1
  <2>3. t[j] # NUL
    OBVIOUS
  <2>4. t[j] = IF s[i] = SEP THEN NUL ELSE s[i]
    BY <1>2, <2>2
  <2> QED
    BY <2>1, <2>3, <2>4
<1>8. e \in 2..(L - 1)
  BY <1>1, <1>3, <1>5, <1>6
<1> QED
  BY <1>1, <1>4, <1>7, <1>8

\* What is ahead behind the terminator.
LEMMA BehindAhead ==
    ASSUME NEW s \in Seq(Chars), NEW t, Ahead(s, t), NEW e \in 1..Len(t)
    PROVE  Ahead(SubSeq(s, e + 1, Len(s)), SubSeq(t, e + 1, Len(t)))
<1>1. PICK L \in Nat, n \in Nat : L = Len(s) /\ n = Len(t) /\ n = L - 1
  BY LenProperties DEF Ahead
<1>2. t \in Seq(Cells) /\ \A i \in 1..n : t[i] = IF s[i + 1] = SEP THEN NUL ELSE s[i + 1]
  BY <1>1 DEF Ahead
<1>3. e \in 1..n /\ e \in Nat /\ e \in 0..Len(s) /\ e \in 0..Len(t)
  BY <1>1
<1>4. PICK a : a = SubSeq(s, e + 1, Len(s))
  OBVIOUS
<1>5. Len(a) = L - e /\ \A i \in 1..(L - e) : a[i] = s[e + i]
  BY <1>1, <1>3, <1>4, EndOf
<1>6. PICK b : b = SubSeq(t, e + 1, Len(t))
  OBVIOUS
<1>7. b \in Seq(Cells) /\ Len(b) = n - e /\ \A i \in 1..(n - e) : b[i] = t[e + i]
  <2>1. t \in Seq(Cells)
    BY <1>2
  <2>2. b \in Seq(Cells) /\ Len(b) = Len(t) - e /\ \A i \in 1..(Len(t) - e) : b[i] = t[e + i]
    BY <1>3, <1>6, <2>1, EndOf
  <2> QED
    BY <1>1, <2>2
<1>8. Len(b) = Len(a) - 1
  BY <1>1, <1>3, <1>5, <1>7
<1>9. ASSUME NEW i \in 1..Len(b) PROVE b[i] = IF a[i + 1] = SEP THEN NUL ELSE a[i + 1]
  <2>1. i \in 1..(n - e) /\ i + 1 \in 1..(L - e) /\ e + i \in 1..n /\ e + (i + 1) = e + i + 1
    BY <1>1, <1>3, <1>7
  <2>2. a[i + 1] = s[e + i + 1]
    <3>1. PICK m \in 1..(L - e) : m = i + 1
      BY <2>1
    <3>2. a[m] = s[e + m]
      BY <1>5
    <3> QED
      BY <2>1, <3>1, <3>2
  <2>3. b[i] = t[e + i]
    BY <1>7, <2>1
  <2>4. t[e + i] = IF s[e + i + 1] = SEP THEN NUL ELSE s[e + i + 1]
    BY <1>2, <2>1
  <2> QED
    BY <2>2, <2>3, <2>4
<1> QED
  BY <1>4, <1>6, <1>7, <1>8, <1>9 DEF Ahead

\* finddir_initrd is asked for the next name; the others are ahead behind it, if there
\* are any.
NextName(s, t) ==
    \/ NUL \notin ToSet(t) /\ UpTo(t, NUL) \in Elements(Chars) /\ Names(s) = <<UpTo(t, NUL)>>
    \/ NUL \in ToSet(t) /\ \E r : Leaves(s, UpTo(t, NUL), r) /\ Ahead(r, Behind(t, NUL))

\* This is so in each turn of the walk.
LEMMA NextIs ==
    ASSUME NEW s \in Seq(Chars), Neat(s), NEW t, Ahead(s, t)
    PROVE  NextName(s, t)
<1>1. t \in Seq(Cells)
  BY DEF Ahead
<1>2. PICK e : e = strpbrk(t, {NUL})
  OBVIOUS
<1>3. \/ e = 0 /\ \A i \in 1..Len(t) : t[i] \notin {NUL}
      \/ e \in 1..Len(t) /\ t[e] \in {NUL} /\ \A i \in 1..(e - 1) : t[i] \notin {NUL}
  BY <1>1, <1>2, BreakIs
<1>4. CASE e = 0
  <2>1. \A i \in 1..Len(t) : t[i] # NUL
    <3>1. e \notin 1..Len(t)
      BY <1>1, <1>4, LenProperties
    <3> QED
      BY <1>3, <3>1
  <2>2. t \in Elements(Chars) /\ Names(s) = <<t>>
    BY <2>1, LastAhead
  <2>3. UpTo(t, NUL) = t
    BY <1>2, <1>4 DEF UpTo
  <2>4. NUL \notin ToSet(t)
    BY <1>1, <2>1, LenProperties DEF ToSet
  <2> QED
    BY <2>2, <2>3, <2>4 DEF NextName
<1>5. CASE e # 0
  <2>1. e \in 1..Len(t) /\ t[e] = NUL /\ \A i \in 1..(e - 1) : t[i] # NUL
    BY <1>3, <1>5
  <2>2. /\ e \in 2..(Len(s) - 1) /\ s[e + 1] = SEP
        /\ \A i \in 2..e : s[i] # SEP /\ t[i - 1] = s[i]
    BY <2>1, EndAhead
  <2>3. PICK L \in Nat, n \in Nat : L = Len(s) /\ n = Len(t) /\ n = L - 1
    BY LenProperties DEF Ahead
  <2>4. e \in 2..n /\ e \in Nat
    BY <2>2, <2>3
  <2>5. PICK w : w = SubSeq(s, 2, e)
    OBVIOUS
  <2>6. PICK r : r = SubSeq(s, e + 1, Len(s))
    OBVIOUS
  <2>7. Leaves(s, w, r)
    BY <2>2, <2>5, <2>6, NextAhead
  <2>8. Ahead(r, SubSeq(t, e + 1, Len(t)))
    BY <2>1, <2>6, BehindAhead
  <2>9. Behind(t, NUL) = SubSeq(t, e + 1, Len(t))
    BY <1>2, <1>5 DEF Behind
  <2>10. PICK u : u = SubSeq(t, 1, e - 1)
    OBVIOUS
  <2>11. UpTo(t, NUL) = u
    BY <1>2, <1>5, <2>10 DEF UpTo
  <2>12. u = w
    <3>1. PICK k \in 0..Len(t) : k = e - 1
      BY <2>3, <2>4
    <3>2. u \in Seq(Cells) /\ Len(u) = k /\ \A i \in 1..k : u[i] = t[i]
      BY <1>1, <2>10, <3>1, FrontOf
    <3>3. w \in Seq(Cells) /\ Len(w) = e - 1 /\ \A i \in 1..(e - 1) : w[i] = s[2 + i - 1]
      <4>1. \A i \in 2..e : s[i] \in Chars
        <5>1. \A i \in 2..e : i \in 1..Len(s)
          BY <2>3, <2>4
        <5> QED
          BY <5>1, ElementOfSeq
      <4>2. \A i \in 2..e : s[i] \in Cells
        BY <4>1 DEF Cells
      <4>3. e - 2 + 1 = e - 1 /\ 2 <= e /\ 2 \in Int /\ e \in Int
        BY <2>4
      <4>4. /\ w \in Seq(Cells) /\ Len(w) = e - 2 + 1
            /\ \A i \in 1..(e - 2 + 1) : w[i] = s[2 + i - 1]
        BY <2>5, <4>2, <4>3, SubSeqProperties
      <4> QED
        BY <4>3, <4>4
    <3>4. ASSUME NEW i \in 1..Len(u) PROVE u[i] = w[i]
      <4>1. PICK m \in 2..e : m = i + 1 /\ 2 + i - 1 = m /\ m - 1 = i
        BY <2>4, <3>1, <3>2
      <4>2. i \in 1..k /\ i \in 1..(e - 1)
        BY <3>1, <3>2
      <4>3. u[i] = t[i] /\ w[i] = s[m]
        BY <3>2, <3>3, <4>1, <4>2
      <4>4. t[m - 1] = s[m]
        BY <2>2
      <4> QED
        BY <4>1, <4>3, <4>4
    <3> QED
      BY <3>1, <3>2, <3>3, <3>4, SeqEqual
  <2>13. NUL \in ToSet(t)
    BY <1>1, <2>1, LenProperties DEF ToSet
  <2> QED
    BY <2>7, <2>8, <2>9, <2>11, <2>12, <2>13 DEF NextName
<1> QED
  BY <1>4, <1>5
-----------------------------------------------------------------------------
(* Where names lead *)

\* Where a name leads from a file.
Onward(i, name) ==
    IF i = NONE \/ Type(i) # "DIR" THEN NONE
    ELSE IF name = DOT THEN i
    ELSE LET c == Children(i, name) IN IF c = {} THEN NONE ELSE CHOOSE x \in c : TRUE

\* f[n] is where the first n names lead.
Went(f, N, names) == f = [n \in 0..N |-> IF n = 0 THEN RootInode ELSE Onward(f[n - 1], names[n])]

\* There is such an f for any names,
LEMMA WentExists ==
    ASSUME NEW names, NEW N \in Nat
    PROVE  \E f : Went(f, N, names)
<1> DEFINE Bad == {n \in Nat : ~ \E f : Went(f, n, names)}
<1> SUFFICES ASSUME Bad # {} PROVE FALSE
  OBVIOUS
<1>1. Bad \in SUBSET Nat
  OBVIOUS
<1>2. PICK n \in Bad : \A m \in Bad : n <= m
  <2> HIDE DEF Bad
  <2> QED
    BY <1>1, LeastElement
<1>3. n \in Nat /\ ~ \E f : Went(f, n, names)
  BY <1>2
<1>4. CASE n = 0
  <2> DEFINE f == [k \in 0..0 |-> RootInode]
  <2>1. f = [k \in 0..n |-> IF k = 0 THEN RootInode ELSE Onward(f[k - 1], names[k])]
    BY <1>4
  <2> QED
    BY <1>3, <2>1 DEF Went
<1>5. CASE n # 0
  <2>1. n - 1 \in Nat /\ n - 1 \notin Bad
    BY <1>2, <1>3, <1>5
  <2>2. PICK f : Went(f, n - 1, names)
    BY <2>1
  <2> DEFINE h == [k \in 0..n |-> IF k = n THEN Onward(f[n - 1], names[n]) ELSE f[k]]
  <2>3. \A k \in 0..(n - 1) : f[k] = IF k = 0 THEN RootInode ELSE Onward(f[k - 1], names[k])
    BY <2>2 DEF Went
  <2>4. \A k \in 0..n : h[k] = IF k = n THEN Onward(f[n - 1], names[n]) ELSE f[k]
    OBVIOUS
  <2> HIDE DEF h
  <2>5. ASSUME NEW k \in 0..n PROVE h[k] = IF k = 0 THEN RootInode ELSE Onward(h[k - 1], names[k])
    <3>1. CASE k = n
      <4>1. n - 1 \in 0..n /\ n - 1 # n
        BY <1>3, <1>5
      <4>2. h[n - 1] = f[n - 1]
        BY <2>4, <4>1
      <4> QED
        BY <1>5, <2>4, <3>1, <4>2
    <3>2. CASE k # n
      <4>1. k \in 0..(n - 1) /\ h[k] = f[k]
        BY <1>3, <2>4, <3>2
      <4>2. CASE k = 0
        BY <2>3, <4>1, <4>2
      <4>3. CASE k # 0
        <5>1. k - 1 \in 0..n /\ k - 1 # n
          BY <1>3, <3>2, <4>3
        <5>2. h[k - 1] = f[k - 1]
          BY <2>4, <5>1
        <5> QED
          BY <2>3, <4>1, <4>3, <5>2
      <4> QED
        BY <4>2, <4>3
    <3> QED
      BY <3>1, <3>2
  <2>6. h = [k \in 0..n |-> h[k]]
    BY DEF h
  <2>7. h = [k \in 0..n |-> IF k = 0 THEN RootInode ELSE Onward(h[k - 1], names[k])]
    BY <2>5, <2>6
  <2> QED
    BY <1>3, <2>7 DEF Went
<1> QED
  BY <1>4, <1>5

\* a and b begin with the same N names.
AlikeUpTo(a, b, N) == \A i \in 1..N : a[i] = b[i]

\* They lead to the same file.
LEMMA WentAlike ==
    ASSUME NEW a, NEW b, NEW N \in Nat, NEW M \in Nat, N <= M, NEW f, NEW g,
           Went(f, N, a), Went(g, M, b), AlikeUpTo(a, b, N)
    PROVE  f[N] = g[N]
<1> DEFINE Bad == {n \in 0..N : f[n] # g[n]}
<1> SUFFICES ASSUME Bad # {} PROVE FALSE
  <2>1. N \in 0..N
    OBVIOUS
  <2> QED
    BY <2>1
<1>1. Bad \in SUBSET Nat
  OBVIOUS
<1>2. PICK n \in Bad : \A m \in Bad : n <= m
  <2> HIDE DEF Bad
  <2> QED
    BY <1>1, LeastElement
<1>3. n \in 0..N /\ f[n] # g[n]
  BY <1>2
<1>4. f[n] = IF n = 0 THEN RootInode ELSE Onward(f[n - 1], a[n])
  BY <1>3 DEF Went
<1>5. g[n] = IF n = 0 THEN RootInode ELSE Onward(g[n - 1], b[n])
  <2>1. n \in 0..M
    BY <1>3
  <2> QED
    BY <2>1 DEF Went
<1>6. n # 0
  BY <1>3, <1>4, <1>5
<1>7. n - 1 \in 0..N /\ n - 1 \notin Bad /\ n \in 1..N
  BY <1>2, <1>3, <1>6
<1>8. f[n - 1] = g[n - 1] /\ a[n] = b[n]
  BY <1>7 DEF AlikeUpTo
<1> QED
  BY <1>3, <1>4, <1>5, <1>6, <1>8

\* Its last value is where they all lead.
LEMMA ResolveIs ==
    ASSUME NEW S, NEW names \in Seq(S), NEW f, Went(f, Len(names), names)
    PROVE  Resolve(names) = f[Len(names)]
<1>1. PICK N \in Nat : N = Len(names)
  BY LenProperties
<1>2. Resolve(names) = (CHOOSE g : Went(g, N, names))[N]
  BY <1>1 DEF Resolve, Went, Onward
<1>3. PICK g : g = (CHOOSE h : Went(h, N, names))
  OBVIOUS
<1>4. Went(g, N, names) /\ Went(f, N, names)
  BY <1>1, <1>3
<1>5. N <= N /\ AlikeUpTo(names, names, N)
  BY <1>1 DEF AlikeUpTo
<1>6. f[N] = g[N]
  BY <1>4, <1>5, WentAlike
<1> QED
  BY <1>1, <1>2, <1>3, <1>6

\* No names lead to the root,
LEMMA ResolveNothing == Resolve(<<>>) = RootInode
<1>1. PICK names \in Seq({}) : names = <<>>
  BY EmptySeq
<1>2. Len(names) = 0
  BY <1>1, EmptySeq
<1>3. PICK f : Went(f, Len(names), names)
  BY <1>2, WentExists
<1>4. Resolve(names) = f[Len(names)]
  BY <1>3, ResolveIs
<1>5. f[0] = RootInode
  BY <1>2, <1>3 DEF Went
<1> QED
  BY <1>1, <1>2, <1>4, <1>5

\* each name leads on from where the others lead,
LEMMA ResolveMore ==
    ASSUME NEW S, NEW a \in Seq(S), NEW x \in S
    PROVE  Resolve(a \o <<x>>) = Onward(Resolve(a), x)
<1>1. PICK N \in Nat : N = Len(a)
  BY LenProperties
<1>2. PICK c \in Seq(S) : c = <<x>>
  BY OneIn
<1>3. Len(c) = 1 /\ c[1] = x
  BY <1>2, OneIn
<1>4. PICK b : b = a \o c
  OBVIOUS
<1>5. b \in Seq(S) /\ Len(b) = N + 1 /\ \A i \in 1..(N + 1) : b[i] = IF i <= N THEN a[i] ELSE c[i - N]
  <2>1. /\ b \in Seq(S) /\ Len(b) = Len(a) + Len(c)
        /\ \A i \in 1..(Len(a) + Len(c)) : b[i] = IF i <= Len(a) THEN a[i] ELSE c[i - Len(a)]
    BY <1>4, ConcatProperties
  <2> QED
    BY <1>1, <1>3, <2>1
<1>6. PICK M \in Nat : M = N + 1
  OBVIOUS
<1>7. PICK f : Went(f, N, a)
  BY WentExists
<1>8. PICK g : Went(g, M, b)
  BY WentExists
<1>9. AlikeUpTo(a, b, N)
  <2>1. \A i \in 1..N : i \in 1..(N + 1) /\ i <= N
    OBVIOUS
  <2> QED
    BY <1>5, <2>1 DEF AlikeUpTo
<1>10. f[N] = g[N]
  <2>1. N <= M
    BY <1>6
  <2> QED
    BY <1>7, <1>8, <1>9, <2>1, WentAlike
<1>11. Resolve(a) = f[N] /\ Resolve(b) = g[M]
  BY <1>1, <1>5, <1>6, <1>7, <1>8, ResolveIs
<1>12. g[M] = Onward(g[N], b[M])
  <2>1. M \in 0..M /\ M # 0 /\ M - 1 = N
    BY <1>6
  <2>2. g[M] = IF M = 0 THEN RootInode ELSE Onward(g[M - 1], b[M])
    BY <1>8, <2>1 DEF Went
  <2> QED
    BY <2>1, <2>2
<1>13. b[M] = x
  <2>1. M \in 1..(N + 1) /\ ~(M <= N) /\ M - N = 1
    BY <1>6
  <2> QED
    BY <1>3, <1>5, <2>1
<1> QED
  BY <1>2, <1>4, <1>10, <1>11, <1>12, <1>13

\* and nowhere is nowhere whatever follows.
LEMMA ResolveFails ==
    ASSUME NEW S, NEW a \in Seq(S), NEW c \in Seq(S), Resolve(a) = NONE
    PROVE  Resolve(a \o c) = NONE
<1>1. PICK N \in Nat, K \in Nat : N = Len(a) /\ K = Len(c)
  BY LenProperties
<1>2. PICK b : b = a \o c
  OBVIOUS
<1>3. b \in Seq(S) /\ Len(b) = N + K /\ \A i \in 1..N : b[i] = a[i]
  <2>1. b \in Seq(S) /\ Len(b) = N + K
    BY <1>1, <1>2, ConcatProperties
  <2>2. \A i \in 1..(N + K) : b[i] = IF i <= N THEN a[i] ELSE c[i - N]
    BY <1>1, <1>2, ConcatProperties
  <2>3. ASSUME NEW i \in 1..N PROVE b[i] = a[i]
    <3>1. i \in 1..(N + K) /\ i <= N
      BY <1>1
    <3> QED
      BY <2>2, <3>1
  <2> QED
    BY <2>1, <2>3
<1>4. PICK M \in Nat : M = N + K
  BY <1>1
<1>5. PICK f : Went(f, N, a)
  BY <1>1, WentExists
<1>6. PICK g : Went(g, M, b)
  BY WentExists
<1>7. g[N] = NONE
  <2>1. N <= M
    BY <1>1, <1>4
  <2>2. AlikeUpTo(a, b, N)
    BY <1>3 DEF AlikeUpTo
  <2>3. f[N] = g[N]
    BY <1>5, <1>6, <2>1, <2>2, WentAlike
  <2>4. Resolve(a) = f[N]
    BY <1>1, <1>5, ResolveIs
  <2> QED
    BY <2>3, <2>4
<1>8. Resolve(b) = g[M]
  BY <1>3, <1>4, <1>6, ResolveIs
<1>9. g[M] = NONE
  <2> DEFINE Bad == {n \in N..M : g[n] # NONE}
  <2> SUFFICES ASSUME Bad # {} PROVE FALSE
    <3>1. M \in N..M
      BY <1>1, <1>4
    <3> QED
      BY <3>1
  <2>1. Bad \in SUBSET Nat
    BY <1>1
  <2>2. PICK n \in Bad : \A m \in Bad : n <= m
    <3> HIDE DEF Bad
    <3> QED
      BY <2>1, LeastElement
  <2>3. n \in N..M /\ g[n] # NONE
    BY <2>2
  <2>4. n # N
    BY <1>7, <2>3
  <2>5. n - 1 \in N..M /\ n - 1 \notin Bad /\ n \in 0..M /\ n # 0
    BY <1>1, <2>2, <2>3, <2>4
  <2>6. g[n - 1] = NONE
    BY <2>5
  <2>7. g[n] = Onward(g[n - 1], b[n])
    BY <1>6, <2>5 DEF Went
  <2> QED
    BY <2>3, <2>6, <2>7 DEF Onward
<1> QED
  BY <1>2, <1>8, <1>9
-----------------------------------------------------------------------------
(* The entries finddir_initrd and readdir_fs read *)

\* What is in a sequence.
Members(s) == {s[i] : i \in 1..Len(s)}

\* Of two sequences, one behind the other, it is what is in either.
LEMMA ElementsOfBoth ==
    ASSUME NEW S, NEW a \in Seq(S), NEW b \in Seq(S)
    PROVE  Members(a \o b) = Members(a) \union Members(b)
<1>1. PICK N \in Nat, M \in Nat : N = Len(a) /\ M = Len(b)
  BY LenProperties
<1>2. PICK c : c = a \o b
  OBVIOUS
<1>3. Len(c) = N + M /\ \A i \in 1..(N + M) : c[i] = IF i <= N THEN a[i] ELSE b[i - N]
  BY <1>1, <1>2, ConcatProperties
<1>4. ASSUME NEW i \in 1..(N + M) PROVE c[i] \in Members(a) \union Members(b)
  <2>1. CASE i <= N
    <3>1. i \in 1..Len(a) /\ c[i] = a[i]
      BY <1>1, <1>3, <2>1
    <3> QED
      BY <3>1 DEF Members
  <2>2. CASE ~(i <= N)
    <3>1. PICK j \in 1..Len(b) : j = i - N
      <4>1. i - N \in 1..M
        BY <2>2
      <4> QED
        BY <1>1, <4>1
    <3>2. c[i] = b[j]
      BY <1>3, <2>2, <3>1
    <3> QED
      BY <3>2 DEF Members
  <2> QED
    BY <2>1, <2>2
<1>5. ASSUME NEW i \in 1..N PROVE a[i] \in Members(c)
  <2>1. i \in 1..(N + M) /\ i <= N
    BY <1>1
  <2>2. c[i] = a[i] /\ i \in 1..Len(c)
    BY <1>3, <2>1
  <2> QED
    BY <2>2 DEF Members
<1>6. ASSUME NEW i \in 1..M PROVE b[i] \in Members(c)
  <2>1. PICK j \in 1..(N + M) : j = i + N /\ ~(j <= N) /\ j - N = i
    BY <1>1
  <2>2. c[j] = b[i] /\ j \in 1..Len(c)
    BY <1>3, <2>1
  <2> QED
    BY <2>2 DEF Members
<1>7. Members(c) \subseteq Members(a) \union Members(b)
  BY <1>3, <1>4 DEF Members
<1>8. Members(a) \subseteq Members(c) /\ Members(b) \subseteq Members(c)
  BY <1>1, <1>5, <1>6 DEF Members
<1> QED
  BY <1>2, <1>7, <1>8

\* What is in one of the first n sequences.
Together(g, at, n) == UNION {Members(g[at[k]]) : k \in 1..n}

\* It is what is in all of them together.
LEMMA StrungTogether ==
    ASSUME NEW g, NEW at, NEW N \in Nat, NEW f, Strung(f, N, g, at), NEW S,
           \A n \in 1..N : g[at[n]] \in Seq(S)
    PROVE  Members(f[N]) = Together(g, at, N)
<1>1. \A n \in 0..N : f[n] \in Seq(S)
  BY StrungIn
<1> DEFINE Bad == {n \in 0..N : Members(f[n]) # Together(g, at, n)}
<1> SUFFICES ASSUME Bad # {} PROVE FALSE
  <2>1. N \in 0..N
    OBVIOUS
  <2> QED
    BY <2>1
<1>2. Bad \in SUBSET Nat
  OBVIOUS
<1>3. PICK n \in Bad : \A m \in Bad : n <= m
  <2> HIDE DEF Bad
  <2> QED
    BY <1>2, LeastElement
<1>4. n \in 0..N /\ Members(f[n]) # Together(g, at, n)
  BY <1>3
<1>5. f[n] = IF n = 0 THEN <<>> ELSE f[n - 1] \o g[at[n]]
  BY <1>4 DEF Strung
<1>6. n # 0
  <2> SUFFICES ASSUME n = 0 PROVE FALSE
    OBVIOUS
  <2>1. Len(f[n]) = 0
    BY <1>5
  <2>2. Members(f[n]) = {}
    BY <2>1 DEF Members
  <2>3. Together(g, at, n) = {}
    BY DEF Together
  <2> QED
    BY <1>4, <2>2, <2>3
<1>7. n - 1 \in 0..N /\ n - 1 \notin Bad /\ n \in 1..N
  BY <1>3, <1>4, <1>6
<1>8. Members(f[n - 1]) = Together(g, at, n - 1)
  BY <1>7
<1>9. PICK a \in Seq(S), b \in Seq(S) : a = f[n - 1] /\ b = g[at[n]]
  BY <1>1, <1>7
<1>10. Members(f[n]) = Members(a) \union Members(b)
  BY <1>5, <1>6, <1>9, ElementsOfBoth
<1>11. Together(g, at, n) = Together(g, at, n - 1) \union Members(b)
  <2>1. 1..n = (1..(n - 1)) \union {n}
    BY <1>4, <1>6
  <2> QED
    BY <1>9, <2>1 DEF Together
<1> QED
  BY <1>4, <1>8, <1>9, <1>10, <1>11

\* By its flags a directory is one, and a file is none.
LEMMA Looks ==
    LooksLikeDirectory("DIR") /\ ~LooksLikeDirectory("REG")
<1>1. LooksLikeDirectory("DIR")
  <2>1. FS_DIRECTORY \in Flag["DIR"] /\ "DIR" \in Types /\ Mode["DIR"] \subseteq Mode["DIR"]
    BY DEF FS_DIRECTORY, Flag, Types
  <2> QED
    BY <2>1 DEF LooksLikeDirectory, NodeFlags
<1>2. ASSUME NEW t \in Types, Mode[t] \subseteq Mode["REG"] PROVE FS_DIRECTORY \notin Flag[t]
  <2>1. t = "REG"
    BY <1>2 DEF Types, Mode
  <2> QED
    BY <2>1 DEF FS_DIRECTORY, Flag
<1>3. ~LooksLikeDirectory("REG")
  BY <1>2 DEF LooksLikeDirectory, NodeFlags
<1> QED
  BY <1>1, <1>3

\* On an orderly ramdisk the blocks searched are those of the directory.
LEMMA ScannedAre ==
    ASSUME img \in Images, Orderly, NEW i \in DOMAIN img.inode, LooksLikeDirectory(Type(i))
    PROVE  /\ Type(i) = "DIR" \/ img.inode[i].blocks = <<>>
           /\ Scanned(i) = img.inode[i].blocks /\ Readable(i)
<1>1. img.inode[i].blocks \in Seq(Nat)
  BY ImageFacts
<1>2. Type(i) # "LNK"
  BY DEF Orderly, Contiguous
<1>3. Type(i) # "REG"
  BY Looks
<1>4. Type(i) \in Types /\ (Type(i) \notin {"REG", "DIR", "LNK"} => img.inode[i].blocks = <<>>)
  BY DEF Orderly, Tree
<1>5. Type(i) = "DIR" \/ img.inode[i].blocks = <<>>
  BY <1>2, <1>3, <1>4
<1>6. PICK b \in Seq(Nat) : b = img.inode[i].blocks
  BY <1>1
<1>7. DOMAIN b = 1..Len(b) /\ Len(b) \in Nat
  BY <1>6, LenProperties
<1>8. ASSUME NEW k \in DOMAIN b PROVE b[k] = b[1] + k - 1 /\ b[k] \in DOMAIN img.block
  <2>1. Type(i) = "DIR"
    <3>1. b # <<>>
      BY <1>7
    <3> QED
      BY <1>5, <1>6, <3>1
  <2>2. b[k] = b[1] + k - 1
    BY <1>6, <2>1 DEF Orderly, Contiguous
  <2>3. b[k] \in DOMAIN img.block
    BY <1>6, <2>1 DEF Orderly, Tree
  <2> QED
    BY <2>2, <2>3
<1>9. Scanned(i) = [k \in 1..Len(b) |-> b[1] + k - 1]
  BY <1>6 DEF Scanned
<1>10. b = [k \in 1..Len(b) |-> b[k]]
  BY <1>7
<1>11. Scanned(i) = b
  BY <1>7, <1>8, <1>9, <1>10
<1>12. Readable(i)
  BY <1>8, <1>11 DEF Readable
<1> QED
  BY <1>5, <1>6, <1>11, <1>12

\* The entries, read block after block.
LEMMA EntriesAre ==
    ASSUME img \in Images, NEW i \in DOMAIN img.inode
    PROVE  \E e : Strung(e, Len(Scanned(i)), img.block, Scanned(i))
                  /\ Entries(i) = e[Len(Scanned(i))]
<1>1. Len(Scanned(i)) \in Nat
  <2>1. img.inode[i].blocks \in Seq(Nat)
    BY ImageFacts
  <2>2. PICK b \in Seq(Nat) : b = img.inode[i].blocks
    BY <2>1
  <2>3. PICK a : a = Scanned(i)
    OBVIOUS
  <2>4. DOMAIN a = 1..Len(b) /\ Len(b) \in Nat
    BY <2>2, <2>3, LenProperties DEF Scanned
  <2>5. Len(a) = Len(b)
    BY <2>2, <2>3 DEF Scanned
  <2> QED
    BY <2>3, <2>4, <2>5
<1>2. PICK at : at = Scanned(i)
  OBVIOUS
<1>3. PICK N \in Nat : N = Len(at)
  BY <1>1, <1>2
<1>4. Entries(i) = (CHOOSE f : Strung(f, N, img.block, at))[N]
  BY <1>3, <1>2 DEF Entries, Strung
<1>5. PICK e : e = (CHOOSE f : Strung(f, N, img.block, at))
  OBVIOUS
<1>6. Strung(e, N, img.block, at)
  BY <1>3, <1>5, StrungExists
<1> QED
  BY <1>3, <1>4, <1>5, <1>6, <1>2

\* On an orderly ramdisk the entries searched are those of the directory.
LEMMA EntriesListed ==
    ASSUME img \in Images, Orderly, NEW i \in DOMAIN img.inode, LooksLikeDirectory(Type(i))
    PROVE  Members(Entries(i)) = Listed(i)
<1>1. PICK at : at = img.inode[i].blocks
  OBVIOUS
<1>2. Scanned(i) = at /\ Readable(i)
  BY <1>1, ScannedAre
<1>3. at \in Seq(Nat)
  BY <1>1, ImageFacts
<1>4. PICK N \in Nat : N = Len(at) /\ DOMAIN at = 1..N
  BY <1>3, LenProperties
<1>5. PICK e : Strung(e, N, img.block, at) /\ Entries(i) = e[N]
  BY <1>2, <1>4, EntriesAre
<1>6. ASSUME NEW n \in 1..N PROVE img.block[at[n]] \in Seq(DirEntries)
  <2>1. at[n] \in DOMAIN img.block
    BY <1>2, <1>4 DEF Readable
  <2> QED
    BY <2>1, ImageFacts DEF DirEntries
<1>7. Members(Entries(i)) = Together(img.block, at, N)
  BY <1>5, <1>6, StrungTogether
<1>8. ASSUME NEW n \in 1..N
      PROVE  Members(img.block[at[n]]) = {img.block[at[n]][k] : k \in DOMAIN img.block[at[n]]}
  <2>1. PICK q \in Seq(DirEntries) : q = img.block[at[n]]
    BY <1>6
  <2>2. DOMAIN q = 1..Len(q)
    BY LenProperties
  <2> QED
    BY <2>1, <2>2 DEF Members
<1>9. Listed(i) = UNION {{img.block[b][k] : k \in DOMAIN img.block[b]} : b \in {at[n] : n \in 1..N}}
  BY <1>1, <1>4 DEF Listed
<1>10. Together(img.block, at, N) = Listed(i)
  <2> DEFINE here(b) == {img.block[b][k] : k \in DOMAIN img.block[b]}
  <2>1. \A n \in 1..N : Members(img.block[at[n]]) = here(at[n])
    BY <1>8
  <2>2. Listed(i) = UNION {here(b) : b \in {at[n] : n \in 1..N}}
    BY <1>9
  <2> HIDE DEF here
  <2>3. UNION {here(b) : b \in {at[n] : n \in 1..N}} = UNION {here(at[n]) : n \in 1..N}
    OBVIOUS
  <2>4. UNION {here(at[n]) : n \in 1..N} = UNION {Members(img.block[at[n]]) : n \in 1..N}
    BY <2>1
  <2> QED
    BY <2>2, <2>3, <2>4 DEF Together
<1> QED
  BY <1>7, <1>10

\* finddir_initrd finds what the name leads to.
LEMMA LookupIs ==
    ASSUME img \in Images, Orderly, NEW i \in DOMAIN img.inode, LooksLikeDirectory(Type(i)),
           NEW name, name # DOT
    PROVE  Lookup(i, name) = Onward(i, name)
<1>1. Readable(i)
  BY ScannedAre
<1>2. PICK E \in Seq(DirEntries) : E = Entries(i)
  BY <1>1, EntriesIn
<1>3. DOMAIN E = 1..Len(E) /\ Len(E) \in Nat
  BY LenProperties
<1>4. Members(E) = Listed(i)
  BY <1>2, EntriesListed
<1>5. PICK M : M = Matches(i, name)
  OBVIOUS
<1>6. M = {k \in 1..Len(E) : E[k].name = name}
  BY <1>2, <1>3, <1>5 DEF Matches
<1>7. i # NONE
  BY ImageFacts
<1>8. CASE M = {}
  <2>1. Lookup(i, name) = NONE
    BY <1>5, <1>8 DEF Lookup
  <2>2. Children(i, name) = {}
    BY <1>4, <1>6, <1>8 DEF Children, Members
  <2> QED
    BY <2>1, <2>2 DEF Onward
<1>9. CASE M # {}
  <2>1. M \in SUBSET Nat
    BY <1>3, <1>6
  <2>2. \E k \in M : \A j \in M : k <= j
    BY <1>9, <2>1, LeastElement
  <2>3. PICK k : k = (CHOOSE m \in M : \A j \in M : m <= j)
    OBVIOUS
  <2>4. k \in M
    BY <2>2, <2>3
  <2>5. Lookup(i, name) = E[k].ino
    BY <1>2, <1>5, <1>9, <2>3 DEF Lookup
  <2>6. k \in 1..Len(E) /\ E[k].name = name
    BY <1>6, <2>4
  <2>7. PICK x : x = E[k]
    OBVIOUS
  <2>8. x \in Listed(i) /\ x.name = name
    BY <1>4, <2>6, <2>7 DEF Members
  <2>9. x.ino \in Children(i, name)
    BY <2>8 DEF Children
  <2>10. Type(i) = "DIR"
    <3>1. SUFFICES ASSUME img.inode[i].blocks = <<>> PROVE FALSE
      BY ScannedAre
    <3>2. DOMAIN img.inode[i].blocks = {}
      BY <3>1
    <3>3. Listed(i) = {}
      BY <3>2 DEF Listed
    <3> QED
      BY <2>8, <3>3
  <2>11. \A e, f \in Listed(i) : e.name = f.name => e.ino = f.ino
    BY <2>10 DEF Orderly, Tree
  <2>12. \A y \in Children(i, name) : y = x.ino
    BY <2>8, <2>11 DEF Children
  <2>13. (CHOOSE y \in Children(i, name) : TRUE) = x.ino
    BY <2>9, <2>12
  <2>14. Onward(i, name) = x.ino
    BY <1>7, <2>9, <2>10, <2>13 DEF Onward
  <2> QED
    BY <2>5, <2>7, <2>14
<1> QED
  BY <1>8, <1>9

\* What is no directory by its flags leads nowhere.
LEMMA NowhereFrom ==
    ASSUME NEW i, NEW name, ~LooksLikeDirectory(Type(i))
    PROVE  Onward(i, name) = NONE
BY Looks DEF Onward

\* A directory is listed from its first block to its last; what is none has nothing.
LEMMA EntriesFlat ==
    ASSUME img \in Images, Orderly, NEW i \in DOMAIN img.inode, LooksLikeDirectory(Type(i))
    PROVE  Entries(i) = IF Type(i) # "DIR" THEN <<>>
                        ELSE FlattenSeq([k \in DOMAIN img.inode[i].blocks |->
                                             img.block[img.inode[i].blocks[k]]])
<1>1. PICK at : at = img.inode[i].blocks
  OBVIOUS
<1>2. Scanned(i) = at /\ Readable(i)
  BY <1>1, ScannedAre
<1>3. at \in Seq(Nat)
  BY <1>1, ImageFacts
<1>4. PICK N \in Nat : N = Len(at) /\ DOMAIN at = 1..N
  BY <1>3, LenProperties
<1>5. PICK e : Strung(e, N, img.block, at) /\ Entries(i) = e[N]
  BY <1>2, <1>4, EntriesAre
<1>6. CASE Type(i) # "DIR"
  <2>1. at = <<>>
    BY <1>1, <1>6, ScannedAre
  <2>2. N = 0
    BY <1>4, <2>1
  <2>3. e[0] = <<>>
    BY <1>5, <2>2 DEF Strung
  <2> QED
    BY <1>5, <1>6, <2>2, <2>3
<1>7. CASE Type(i) = "DIR"
  <2>1. ASSUME NEW n \in 1..N PROVE img.block[at[n]] \in Seq(DirEntries)
    <3>1. at[n] \in DOMAIN img.block
      BY <1>2, <1>4 DEF Readable
    <3> QED
      BY <3>1, ImageFacts DEF DirEntries
  <2>2. PICK q : q = [k \in 1..N |-> img.block[at[k]]]
    OBVIOUS
  <2>3. q \in Seq(Seq(DirEntries)) /\ Len(q) = N
    BY <2>1, <2>2, IsASeq
  <2>4. Ordered(q, img.block, at)
    BY <2>2, <2>3 DEF Ordered
  <2>5. FlattenSeq(q) = e[N]
    BY <1>5, <2>3, <2>4, FlattenIs
  <2> QED
    BY <1>1, <1>4, <1>5, <1>7, <2>2, <2>5
<1> QED
  BY <1>6, <1>7
-----------------------------------------------------------------------------
(* Names that lead where others lead *)

\* An entry of a directory leads to its inode.
LEMMA OnwardIs ==
    ASSUME img \in Images, Orderly, NEW i \in DOMAIN img.inode, Type(i) = "DIR",
           NEW e \in Listed(i), e.name # DOT
    PROVE  Onward(i, e.name) = e.ino
<1>1. i # NONE
  BY ImageFacts
<1>2. e.ino \in Children(i, e.name)
  BY DEF Children
<1>3. \A f, g \in Listed(i) : f.name = g.name => f.ino = g.ino
  BY DEF Orderly, Tree
<1>4. \A y \in Children(i, e.name) : y = e.ino
  BY <1>3 DEF Children
<1>5. (CHOOSE y \in Children(i, e.name) : TRUE) = e.ino
  BY <1>2, <1>4
<1> QED
  BY <1>1, <1>2, <1>5 DEF Onward

\* What is listed is an inode.
LEMMA ListedIn ==
    ASSUME img \in Images, Orderly, NEW i \in DOMAIN img.inode, Type(i) = "DIR",
           NEW e \in Listed(i)
    PROVE  e \in DirEntries /\ e.ino \in DOMAIN img.inode
<1>1. PICK k \in DOMAIN img.inode[i].blocks : e \in {img.block[img.inode[i].blocks[k]][m] :
                                                   m \in DOMAIN img.block[img.inode[i].blocks[k]]}
  BY DEF Listed
<1>2. PICK b : b = img.inode[i].blocks[k]
  OBVIOUS
<1>3. b \in DOMAIN img.block
  BY <1>2 DEF Orderly, Tree
<1>4. img.block[b] \in Seq(DirEntries)
  BY <1>3, ImageFacts DEF DirEntries
<1>5. PICK q \in Seq(DirEntries) : q = img.block[b]
  BY <1>4
<1>6. PICK m \in DOMAIN q : e = q[m]
  BY <1>1, <1>2, <1>5
<1>7. e \in DirEntries
  BY <1>6, LenProperties, ElementOfSeq
<1> QED
  BY <1>7 DEF DirEntries

\* A name leads to an inode or nowhere.
LEMMA OnwardIn ==
    ASSUME img \in Images, Orderly, NEW i \in DOMAIN img.inode \union {NONE}, NEW name
    PROVE  Onward(i, name) \in DOMAIN img.inode \union {NONE}
<1>1. CASE i = NONE \/ Type(i) # "DIR"
  BY <1>1 DEF Onward
<1>2. CASE ~(i = NONE \/ Type(i) # "DIR")
  <2>1. i \in DOMAIN img.inode /\ Type(i) = "DIR"
    BY <1>2
  <2>2. CASE name = DOT
    BY <1>2, <2>2 DEF Onward
  <2>3. CASE name # DOT /\ Children(i, name) = {}
    BY <1>2, <2>3 DEF Onward
  <2>4. CASE name # DOT /\ Children(i, name) # {}
    <3>1. PICK e \in Listed(i) : e.name = name
      BY <2>4 DEF Children
    <3>2. Onward(i, name) = e.ino
      BY <2>1, <2>4, <3>1, OnwardIs
    <3> QED
      BY <2>1, <3>2, ListedIn
  <2> QED
    BY <2>2, <2>3, <2>4
<1> QED
  BY <1>1, <1>2

\* So do names in a row.
LEMMA ResolveIn ==
    ASSUME img \in Images, Orderly, NEW S, NEW names \in Seq(S)
    PROVE  Resolve(names) \in DOMAIN img.inode \union {NONE}
<1>1. PICK N \in Nat : N = Len(names)
  BY LenProperties
<1>2. PICK f : Went(f, N, names)
  BY WentExists
<1>3. Resolve(names) = f[N]
  BY <1>1, <1>2, ResolveIs
<1> DEFINE Bad == {n \in 0..N : f[n] \notin DOMAIN img.inode \union {NONE}}
<1> SUFFICES ASSUME Bad # {} PROVE FALSE
  <2>1. N \in 0..N
    OBVIOUS
  <2> QED
    BY <1>3, <2>1
<1>4. Bad \in SUBSET Nat
  OBVIOUS
<1>5. PICK n \in Bad : \A m \in Bad : n <= m
  <2> HIDE DEF Bad
  <2> QED
    BY <1>4, LeastElement
<1>6. n \in 0..N /\ f[n] \notin DOMAIN img.inode \union {NONE}
  BY <1>5
<1>7. f[n] = IF n = 0 THEN RootInode ELSE Onward(f[n - 1], names[n])
  BY <1>2, <1>6 DEF Went
<1>8. n # 0
  BY <1>6, <1>7, ImageFacts
<1>9. n - 1 \in 0..N /\ n - 1 \notin Bad
  BY <1>5, <1>6, <1>8
<1>10. f[n - 1] \in DOMAIN img.inode \union {NONE}
  BY <1>9
<1> QED
  BY <1>6, <1>7, <1>8, <1>10, OnwardIn

\* The names a lead where the names b do, if b leads anywhere; and they are b if nothing
\* in it leads back.
Leads(a, b) == /\ Resolve(b) # NONE => Resolve(a) = Resolve(b)
               /\ (~Within(b, UP) /\ ~Within(b, DOT)) => a = b

\* No names lead where no names do.
LEMMA LeadsItself == Leads(<<>>, <<>>)
BY DEF Leads

\* One more name is there, and so are the others.
LEMMA WithinMore ==
    ASSUME NEW S, NEW b \in Seq(S), NEW x \in S
    PROVE  /\ Within(b \o <<x>>, x) /\ \A y : Within(b, y) => Within(b \o <<x>>, y)
<1>1. PICK N \in Nat : N = Len(b)
  BY LenProperties
<1>2. PICK c \in Seq(S) : c = <<x>>
  BY OneIn
<1>3. Len(c) = 1 /\ c[1] = x
  BY <1>2, OneIn
<1>4. PICK d : d = b \o c
  OBVIOUS
<1>5. d \in Seq(S) /\ Len(d) = N + 1 /\ \A i \in 1..(N + 1) : d[i] = IF i <= N THEN b[i] ELSE c[i - N]
  <2>1. /\ d \in Seq(S) /\ Len(d) = Len(b) + Len(c)
        /\ \A i \in 1..(Len(b) + Len(c)) : d[i] = IF i <= Len(b) THEN b[i] ELSE c[i - Len(b)]
    BY <1>4, ConcatProperties
  <2> QED
    BY <1>1, <1>3, <2>1
<1>6. DOMAIN d = 1..(N + 1) /\ DOMAIN b = 1..N
  BY <1>1, <1>5, LenProperties
<1>7. Within(d, x)
  <2>1. PICK m \in 1..(N + 1) : m = N + 1 /\ ~(m <= N) /\ m - N = 1
    OBVIOUS
  <2>2. d[m] = x
    BY <1>3, <1>5, <2>1
  <2> QED
    BY <1>6, <2>2 DEF Within
<1>8. ASSUME NEW y, Within(b, y) PROVE Within(d, y)
  <2>1. PICK i \in 1..N : b[i] = y
    BY <1>6, <1>8 DEF Within
  <2>2. i \in 1..(N + 1) /\ i <= N
    OBVIOUS
  <2>3. d[i] = y
    BY <1>5, <2>1, <2>2
  <2> QED
    BY <1>6, <2>2, <2>3 DEF Within
<1> QED
  BY <1>2, <1>4, <1>7, <1>8

\* "." leads on to where one is;
LEMMA LeadsDot ==
    ASSUME NEW S, DOT \in S, NEW a, NEW b \in Seq(S), Leads(a, b)
    PROVE  Leads(a, b \o <<DOT>>)
<1>1. PICK c : c = b \o <<DOT>>
  OBVIOUS
<1>2. Resolve(c) = Onward(Resolve(b), DOT) /\ Within(c, DOT)
  BY <1>1, ResolveMore, WithinMore
<1>3. Resolve(c) # NONE => Resolve(b) # NONE /\ Resolve(c) = Resolve(b)
  BY <1>2 DEF Onward
<1> QED
  BY <1>1, <1>2, <1>3 DEF Leads

\* another name, to the same place from both;
LEMMA LeadsMore ==
    ASSUME NEW S, NEW x \in S, NEW a \in Seq(S), NEW b \in Seq(S), Leads(a, b)
    PROVE  Leads(a \o <<x>>, b \o <<x>>)
<1>1. PICK c, d : c = a \o <<x>> /\ d = b \o <<x>>
  OBVIOUS
<1>2. Resolve(c) = Onward(Resolve(a), x) /\ Resolve(d) = Onward(Resolve(b), x)
  BY <1>1, ResolveMore
<1>3. \A y : Within(b, y) => Within(d, y)
  BY <1>1, WithinMore
<1>4. Resolve(d) # NONE => Resolve(b) # NONE
  BY <1>2 DEF Onward
<1>5. Resolve(d) # NONE => Resolve(c) = Resolve(d)
  BY <1>2, <1>4 DEF Leads
<1>6. (~Within(d, UP) /\ ~Within(d, DOT)) => c = d
  BY <1>1, <1>3 DEF Leads
<1> QED
  BY <1>1, <1>5, <1>6 DEF Leads

\* "..", from the root to the root,
LEMMA LeadsUpFromRoot ==
    ASSUME img \in Images, Orderly, NEW S, UP \in S, NEW b \in Seq(S), Leads(<<>>, b)
    PROVE  Leads(<<>>, b \o <<UP>>)
<1>1. PICK c : c = b \o <<UP>>
  OBVIOUS
<1>2. Resolve(c) = Onward(Resolve(b), UP) /\ Within(c, UP)
  BY <1>1, ResolveMore, WithinMore
<1>3. Resolve(c) # NONE => Resolve(b) = RootInode
  BY <1>2, ResolveNothing DEF Onward, Leads
<1>4. Onward(RootInode, UP) = RootInode
  <2>1. PICK e : e = [name |-> UP, ino |-> RootInode]
    OBVIOUS
  <2>2. e \in Listed(RootInode) /\ e.name = UP /\ e.ino = RootInode
    BY <2>1 DEF Orderly, Tree
  <2>3. RootInode \in DOMAIN img.inode /\ Type(RootInode) = "DIR"
    BY VFSAssumption DEF Type
  <2>4. UP # DOT
    BY DEF UP, DOT
  <2> QED
    BY <2>2, <2>3, <2>4, OnwardIs
<1> QED
  BY <1>1, <1>2, <1>3, <1>4, ResolveNothing DEF Leads

\* and from a directory to the one it is in.
LEMMA LeadsUp ==
    ASSUME img \in Images, Orderly, NEW S, UP \in S, NEW x \in S, x \notin {UP, DOT},
           NEW a \in Seq(S), NEW b \in Seq(S), Leads(a \o <<x>>, b)
    PROVE  Leads(a, b \o <<UP>>)
<1>1. PICK c : c = b \o <<UP>>
  OBVIOUS
<1>2. Resolve(c) = Onward(Resolve(b), UP) /\ Within(c, UP)
  BY <1>1, ResolveMore, WithinMore
<1>3. PICK p : p = Resolve(a)
  OBVIOUS
<1>4. p \in DOMAIN img.inode \union {NONE}
  BY <1>3, ResolveIn
<1>5. PICK i : i = Resolve(b)
  OBVIOUS
<1>6. ASSUME Resolve(c) # NONE PROVE p = Resolve(c)
  <2>1. i # NONE /\ Type(i) = "DIR"
    BY <1>2, <1>5, <1>6 DEF Onward
  <2>2. Resolve(a \o <<x>>) = i
    BY <1>5, <2>1 DEF Leads
  <2>3. i = Onward(p, x)
    BY <1>3, <2>2, ResolveMore
  <2>4. p # NONE /\ Type(p) = "DIR" /\ x # DOT /\ Children(p, x) # {}
    BY <2>1, <2>3 DEF Onward
  <2>5. p \in DOMAIN img.inode
    BY <1>4, <2>4
  <2>6. PICK e \in Listed(p) : e.name = x
    BY <2>4 DEF Children
  <2>7. e.ino = i
    BY <2>3, <2>4, <2>5, <2>6, OnwardIs
  <2>8. i \in DOMAIN img.inode
    BY <2>4, <2>5, <2>7, ListedIn
  <2>9. PICK f : f = [name |-> UP, ino |-> p]
    OBVIOUS
  <2>10. f \in Listed(i)
    <3>1. \A d \in Listed(p) : d.name \notin {DOT, UP} /\ Type(d.ino) = "DIR"
                               => [name |-> UP, ino |-> p] \in Listed(d.ino)
      BY <2>4, <2>5 DEF Orderly, Tree
    <3> QED
      BY <2>1, <2>6, <2>7, <2>9, <3>1
  <2>11. f.name = UP /\ f.ino = p /\ UP # DOT
    BY <2>9 DEF UP, DOT
  <2> QED
    BY <1>2, <1>5, <2>1, <2>8, <2>10, <2>11, OnwardIs
<1> QED
  BY <1>1, <1>2, <1>3, <1>6 DEF Leads
-----------------------------------------------------------------------------
(* The strings in the list of canonicalize_path *)

\* The same names lead the same way as long as the ramdisk is the same.
LEMMA SameResolve == ASSUME img' = img, NEW a PROVE Resolve(a)' = Resolve(a)
BY DEF Resolve, Type, Children, Listed

\* So does the tree.
LEMMA SameTree ==
    ASSUME img' = img
    PROVE  Orderly' = Orderly /\ \A a, b : Leads(a, b)' = Leads(a, b)
<1>1. Orderly' = Orderly
  BY DEF Orderly, Tree, Contiguous, OneGroup, InTable, Type, Listed
<1>2. \A a : Resolve(a)' = Resolve(a)
  BY SameResolve
<1> QED
  BY <1>1, <1>2 DEF Leads

\* A sequence is all but its last element and that element.
LEMMA ButLast ==
    ASSUME NEW S, NEW c \in Seq(S), NEW a \in Seq(S), NEW x \in S, Len(c) = Len(a) + 1,
           \A i \in 1..Len(a) : a[i] = c[i], c[Len(a) + 1] = x
    PROVE  c = a \o <<x>>
<1>1. PICK N \in Nat : N = Len(a)
  BY LenProperties
<1>2. PICK o \in Seq(S) : o = <<x>>
  BY OneIn
<1>3. Len(o) = 1 /\ o[1] = x
  BY <1>2, OneIn
<1>4. PICK d : d = a \o o
  OBVIOUS
<1>5. d \in Seq(S) /\ Len(d) = N + 1 /\ \A i \in 1..(N + 1) : d[i] = IF i <= N THEN a[i] ELSE o[i - N]
  <2>1. /\ d \in Seq(S) /\ Len(d) = Len(a) + Len(o)
        /\ \A i \in 1..(Len(a) + Len(o)) : d[i] = IF i <= Len(a) THEN a[i] ELSE o[i - Len(a)]
    BY <1>4, ConcatProperties
  <2> QED
    BY <1>1, <1>3, <2>1
<1>6. ASSUME NEW i \in 1..Len(c) PROVE c[i] = d[i]
  <2>1. i \in 1..(N + 1)
    BY <1>1
  <2>2. CASE i <= N
    <3>1. i \in 1..N /\ d[i] = a[i]
      BY <1>5, <2>1, <2>2
    <3> QED
      BY <1>1, <3>1
  <2>3. CASE ~(i <= N)
    <3>1. i = N + 1 /\ i - N = 1
      BY <2>1, <2>3
    <3>2. d[i] = x
      BY <1>3, <1>5, <2>1, <2>3, <3>1
    <3> QED
      BY <1>1, <3>1, <3>2
  <2> QED
    BY <2>2, <2>3
<1>7. c = d
  BY <1>1, <1>5, <1>6, SeqEqual
<1> QED
  BY <1>2, <1>4, <1>7

\* The strings of the list l that goes through the nodes s, in their order.
Spelled(l, s, t) == [i \in 1..Len(s) |-> t[l.node[s[i]].value]]

\* They belong to S.
SpelledIn(S, l, s, t) == Spelled(l, s, t) \in Seq(S)

\* They are as many as the nodes.
LEMMA SpelledFacts ==
    ASSUME NEW l, NEW s, NEW t, Holding(l, s, t)
    PROVE  /\ Len(s) \in Nat /\ Len(Spelled(l, s, t)) = Len(s)
           /\ \A i \in 1..Len(s) : /\ Spelled(l, s, t)[i] = t[l.node[s[i]].value]
                                   /\ s[i] \in DOMAIN l.node /\ l.node[s[i]].value \in DOMAIN t
<1>1. Len(s) \in Nat /\ \A i \in 1..Len(s) : s[i] \in DOMAIN l.node
  <2>1. GoesOn(l, s)
    BY DEF Holding, Linked
  <2> QED
    BY <2>1, GoesOnFacts
<1>2. \A n \in DOMAIN l.node : l.node[n].value \in DOMAIN t
  BY DEF Holding
<1>3. PICK c : c = Spelled(l, s, t)
  OBVIOUS
<1>4. c = [i \in 1..Len(s) |-> t[l.node[s[i]].value]]
  BY <1>3 DEF Spelled
<1>5. Len(c) = Len(s)
  BY <1>1, <1>4
<1>6. \A i \in 1..Len(s) : c[i] = t[l.node[s[i]].value]
  BY <1>4
<1> QED
  BY <1>1, <1>2, <1>3, <1>5, <1>6

\* A string that is pushed comes last.
LEMMA PushSpells ==
    ASSUME NEW S, NEW l, NEW s, NEW t, Holding(l, s, t), SpelledIn(S, l, s, t),
           NEW n \in Blocks \ DOMAIN l.node, NEW v \in Blocks \ DOMAIN t, NEW x \in S
    PROVE  LET c == Spelled(list_insert(l, n, v), Append(s, n), Put(t, v, x)) IN
           c \in Seq(S) /\ c = Spelled(l, s, t) \o <<x>>
<1>1. PICK k, u, p : k = list_insert(l, n, v) /\ u = Append(s, n) /\ p = Put(t, v, x)
  OBVIOUS
<1>2. Holding(k, u, p)
  BY <1>1, PushHolds
<1>3. k.node[n].value = v /\ \A m \in DOMAIN l.node : k.node[m].value = l.node[m].value
  <2>1. v \in Nat /\ Linked(l, s)
    BY DEF Blocks, Holding
  <2> QED
    BY <1>1, <2>1, InsertLinks
<1>4. p[v] = x /\ \A w \in DOMAIN t : p[w] = t[w]
  BY <1>1 DEF Put
<1>5. PICK N \in Nat : N = Len(s)
  BY SpelledFacts
<1>6. Len(u) = N + 1 /\ u[N + 1] = n /\ \A i \in 1..N : u[i] = s[i]
  <2>1. s \in Seq(Blocks)
    BY GoesOnFacts DEF Holding, Linked
  <2> QED
    BY <1>1, <1>5, <2>1
<1>7. PICK a : a = Spelled(l, s, t)
  OBVIOUS
<1>8. a \in Seq(S) /\ Len(a) = N
  BY <1>5, <1>7, SpelledFacts DEF SpelledIn
<1>9. PICK c : c = Spelled(k, u, p)
  OBVIOUS
<1>10. Len(c) = N + 1 /\ \A i \in 1..(N + 1) : c[i] = p[k.node[u[i]].value]
  BY <1>2, <1>6, <1>9, SpelledFacts
<1>11. ASSUME NEW i \in 1..N PROVE a[i] = c[i]
  <2>1. a[i] = t[l.node[s[i]].value] /\ s[i] \in DOMAIN l.node /\ l.node[s[i]].value \in DOMAIN t
    BY <1>5, <1>7, SpelledFacts
  <2>2. i \in 1..(N + 1) /\ u[i] = s[i]
    BY <1>6
  <2> QED
    BY <1>3, <1>4, <1>10, <2>1, <2>2
<1>12. c[N + 1] = x
  <2>1. N + 1 \in 1..(N + 1)
    OBVIOUS
  <2> QED
    BY <1>3, <1>4, <1>6, <1>10, <2>1
<1>13. c \in Seq(S)
  <2>1. ASSUME NEW i \in 1..(N + 1) PROVE c[i] \in S
    <3>1. CASE i = N + 1
      BY <1>12, <3>1
    <3>2. CASE i # N + 1
      <4>1. i \in 1..N
        BY <3>2
      <4> QED
        BY <1>8, <1>11, <4>1, ElementOfSeq
    <3> QED
      BY <3>1, <3>2
  <2>2. c = [i \in 1..(N + 1) |-> c[i]]
    BY <1>6, <1>9 DEF Spelled
  <2> QED
    BY <2>1, <2>2, IsASeq
<1>14. c = a \o <<x>>
  BY <1>8, <1>10, <1>11, <1>12, <1>13, ButLast
<1> QED
  BY <1>1, <1>7, <1>9, <1>13, <1>14

\* The list k holds the strings w, those of l without the last.
OneLess(S, l, s, t, k, w) ==
    \E u, x : /\ x \in S /\ Holding(k, u, w) /\ Spelled(k, u, w) \in Seq(S)
              /\ Spelled(l, s, t) = Spelled(k, u, w) \o <<x>>

\* The string that is popped came last.
LEMMA PopSpells ==
    ASSUME NEW S, NEW l, NEW s, NEW t, Holding(l, s, t), SpelledIn(S, l, s, t), l.tail # NIL
    PROVE  LET n == l.tail
               k == Dropped(list_pop(l), n)
               w == Without(t, {l.node[n].value})
           IN OneLess(S, l, s, t, k, w)
<1>1. PICK n, v : n = l.tail /\ v = l.node[n].value
  OBVIOUS
<1>2. PICK k, w : k = Dropped(list_pop(l), n) /\ w = Without(t, {v})
  OBVIOUS
<1>3. /\ n \in DOMAIN l.node /\ v \in DOMAIN t
      /\ \E u : Holding(k, u, w) /\ Shorter(u, s)
      /\ \A m \in DOMAIN k.node : k.node[m].value = l.node[m].value
      /\ DOMAIN k.node = DOMAIN l.node \ {n} /\ DOMAIN w = DOMAIN t \ {v}
  BY <1>1, <1>2, PopHolds
<1>4. PICK u : Holding(k, u, w) /\ Shorter(u, s)
  BY <1>3
<1>5. PICK N \in Nat, M \in Nat : M = Len(s) /\ N = Len(u)
  BY <1>4, SpelledFacts
<1>6. M = N + 1 /\ \A i \in 1..N : u[i] = s[i]
  BY <1>4, <1>5 DEF Shorter
<1>7. PICK c : c = Spelled(l, s, t)
  OBVIOUS
<1>8. c \in Seq(S) /\ Len(c) = M
  BY <1>5, <1>7, SpelledFacts DEF SpelledIn
<1>9. PICK a : a = Spelled(k, u, w)
  OBVIOUS
<1>10. Len(a) = N /\ \A i \in 1..N : a[i] = w[k.node[u[i]].value]
  BY <1>4, <1>5, <1>9, SpelledFacts
<1>11. ASSUME NEW i \in 1..N PROVE a[i] = c[i]
  <2>1. i \in 1..M
    BY <1>6
  <2>2. c[i] = t[l.node[s[i]].value]
    BY <1>5, <1>7, <2>1, SpelledFacts
  <2>3. u[i] \in DOMAIN k.node /\ k.node[u[i]].value \in DOMAIN w
    BY <1>4, <1>5, SpelledFacts
  <2>4. k.node[u[i]].value = l.node[s[i]].value
    BY <1>3, <1>6, <2>3
  <2>5. w[k.node[u[i]].value] = t[k.node[u[i]].value]
    BY <1>2, <2>3 DEF Without
  <2> QED
    BY <1>10, <2>2, <2>4, <2>5
<1>12. \A i \in 1..N : c[i] \in S
  <2>1. \A i \in 1..N : i \in 1..Len(c)
    BY <1>6, <1>8
  <2> QED
    BY <1>8, <2>1, ElementOfSeq
<1>13. a \in Seq(S)
  <2>1. a = [i \in 1..N |-> a[i]]
    BY <1>5, <1>9 DEF Spelled
  <2> QED
    BY <1>11, <1>12, <2>1, IsASeq
<1>14. PICK x : x = c[N + 1]
  OBVIOUS
<1>15. x \in S
  <2>1. PICK m \in 1..Len(c) : m = N + 1
    BY <1>6, <1>8
  <2> QED
    BY <1>8, <1>14, <2>1, ElementOfSeq
<1>16. c = a \o <<x>>
  BY <1>6, <1>8, <1>10, <1>11, <1>13, <1>14, <1>15, ButLast
<1>17. OneLess(S, l, s, t, k, w)
  BY <1>4, <1>7, <1>9, <1>13, <1>15, <1>16 DEF OneLess
<1> QED
  BY <1>1, <1>2, <1>17
-----------------------------------------------------------------------------
(* The directory of a name *)

\* A name is a sequence of characters.
LEMMA PathIs ==
    ASSUME NEW path \in Paths \union MakePaths \union {<<>>}
    PROVE  path \in Seq(Chars)
<1>1. CASE path = <<>>
  BY <1>1, EmptySeq
<1>2. CASE path \in Paths \union MakePaths
  <2>1. path \in Seq(STRING) /\ NUL \notin ToSet(path)
    BY <1>2, VFSAssumption
  <2>2. Len(path) \in Nat /\ DOMAIN path = 1..Len(path)
    BY <2>1, LenProperties
  <2>3. ASSUME NEW i \in 1..Len(path) PROVE path[i] \in Chars
    <3>1. path[i] \in STRING
      BY <2>1, ElementOfSeq
    <3>2. path[i] # NUL
      BY <2>1, <2>2 DEF ToSet
    <3> QED
      BY <3>1, <3>2 DEF Chars
  <2>4. path = [i \in 1..Len(path) |-> path[i]]
    BY <2>1, <2>2
  <2> QED
    BY <2>2, <2>3, <2>4, IsASeq
<1> QED
  BY <1>1, <1>2

\* "." is a name.
LEMMA DotIs == DOT \in Seq(Chars) /\ DOT \in Elements(Chars)
<1>1. "." # NUL /\ "." # SEP
  BY DEF NUL, SEP
<1>2. PICK x \in Chars : x = "."
  BY <1>1 DEF Chars
<1>3. PICK d : d = <<x>>
  OBVIOUS
<1>4. d \in Seq(Chars) /\ Len(d) = 1 /\ d[1] = x
  BY <1>3, OneIn
<1>5. d # <<>> /\ \A i \in 1..Len(d) : d[i] # SEP
  <2>1. \A i \in 1..Len(d) : i = 1
    BY <1>4
  <2> QED
    BY <1>1, <1>2, <1>4, <2>1, EmptySeq
<1>6. d \in Elements(Chars)
  BY <1>4, <1>5 DEF Elements
<1>7. d = DOT
  BY <1>2, <1>3 DEF DOT
<1> QED
  BY <1>4, <1>6, <1>7

\* The name without the separator at its end.
LEMMA TrimmedIs ==
    ASSUME NEW path \in Seq(Chars)
    PROVE  Trimmed(path) \in Seq(Chars)
<1>1. CASE path # <<>> /\ path[Len(path)] = SEP
  <2>1. PICK k \in 0..Len(path) : k = Len(path) - 1
    <3>1. PICK N \in Nat : N = Len(path)
      BY LenProperties
    <3>2. N # 0
      BY <1>1, <3>1, EmptySeq
    <3>3. N - 1 \in 0..N
      BY <3>2
    <3> QED
      BY <3>1, <3>3
  <2> QED
    BY <1>1, <2>1, FrontOf DEF Trimmed
<1>2. CASE ~(path # <<>> /\ path[Len(path)] = SEP)
  BY <1>2 DEF Trimmed
<1> QED
  BY <1>1, <1>2

\* k is the last separator of the name.
LastSeparator(path, k) == /\ k \in 1..Len(path) /\ path[k] = SEP
                          /\ \A i \in 1..Len(path) : path[i] = SEP => i <= k

\* The directory: "." or what is in front of the last separator.
LEMMA ParentIs ==
    ASSUME NEW path \in Seq(Chars)
    PROVE  \/ Parent(path) = DOT /\ \A i \in 1..Len(path) : path[i] # SEP
           \/ \E k : LastSeparator(path, k) /\ Parent(path) = SubSeq(path, 1, k - 1)
<1>1. PICK N \in Nat : N = Len(path) /\ DOMAIN path = 1..N
  BY LenProperties
<1>2. PICK M : M = Separators(path)
  OBVIOUS
<1>3. M = {i \in 1..N : path[i] = SEP}
  BY <1>1, <1>2 DEF Separators
<1>4. CASE M = {}
  BY <1>1, <1>2, <1>3, <1>4 DEF Parent
<1>5. CASE M # {}
  <2>1. M \in SUBSET (0..N)
    BY <1>3
  <2>2. PICK m \in M : \A j \in M : j <= m
    BY <1>5, <2>1, GreatestElement
  <2>3. \A i, j \in M : i >= j <=> j <= i
    BY <2>1
  <2>4. PICK k : k = (CHOOSE i \in M : \A j \in M : i >= j)
    OBVIOUS
  <2>5. k \in M /\ \A j \in M : k >= j
    BY <2>2, <2>3, <2>4
  <2>6. LastSeparator(path, k)
    BY <1>1, <1>3, <2>3, <2>5 DEF LastSeparator
  <2>7. Parent(path) = SubSeq(path, 1, k - 1)
    BY <1>2, <1>5, <2>4 DEF Parent
  <2> QED
    BY <2>6, <2>7
<1> QED
  BY <1>4, <1>5

\* So is the directory.
LEMMA ParentIn ==
    ASSUME NEW path \in Seq(Chars)
    PROVE  Parent(path) \in Seq(Chars)
<1>1. CASE Parent(path) = DOT
  BY <1>1, DotIs
<1>2. CASE \E k : LastSeparator(path, k) /\ Parent(path) = SubSeq(path, 1, k - 1)
  <2>1. PICK k : LastSeparator(path, k) /\ Parent(path) = SubSeq(path, 1, k - 1)
    BY <1>2
  <2>2. PICK N \in Nat : N = Len(path)
    BY LenProperties
  <2>3. PICK j \in 0..Len(path) : j = k - 1
    BY <2>1, <2>2 DEF LastSeparator
  <2> QED
    BY <2>1, <2>3, FrontOf
<1> QED
  BY <1>1, <1>2, ParentIs
-----------------------------------------------------------------------------
(* The inductive invariant of the way *)

\* What kopen is to follow: the name it is given.
Source == IF op = "kopen" THEN asked ELSE Parent(Trimmed(asked))

\* It is a name.
LEMMA SourceIn ==
    ASSUME TypeOK
    PROVE  Source \in Seq(Chars)
<1>1. asked \in Seq(Chars)
  BY PathIs DEF TypeOK
<1>2. Parent(Trimmed(asked)) \in Seq(Chars)
  BY <1>1, TrimmedIs, ParentIn
<1> QED
  BY <1>1, <1>2 DEF Source

\* The names of files.
Plain == Elements(Chars) \ {UP, DOT}

\* The strings in the list of canonicalize_path.
Stack == Spelled(out, foreach(out), text)

\* In the loop of canonicalize_path: the list leads where the names that are done lead.
Splitting(done) ==
    /\ done \in Seq(Elements(Chars)) /\ todo \in Seq(Chars)
    /\ Names(Source) = done \o Names(todo)
    /\ Stack \in Seq(Plain) /\ (Orderly => Leads(Stack, done))

\* Behind it: the path made of the list leads where the names lead.
Straight ==
    /\ todo \in Seq(Chars) /\ Neat(todo) /\ Names(todo) \in Seq(Plain)
    /\ Orderly => Leads(Names(todo), Names(Source))

\* In the walk: the names that are done lead to the node, with those that are ahead
\* they lead where the names lead.
Following(done, s) ==
    /\ done \in Seq(Plain) /\ s \in Seq(Chars) /\ Neat(s) /\ Ahead(s, todo)
    /\ Names(s) \in Seq(Plain)
    /\ Orderly => Leads(done \o Names(s), Names(Source)) /\ Resolve(done) = node.ino

\* The names lead to the inode, or nowhere.
Reaches(ino) == Orderly => \E a : Leads(a, Names(Source)) /\ Resolve(a) = ino

\* Only kopen is asked for the empty name.
Asking == op # "kopen" => Trimmed(asked) # <<>>

\* In each step of a call.
OnTheWay ==
    /\ pc = "tokens" => \E done : Splitting(done)
    /\ pc = "root" => Reaches(RootInode)
    /\ pc = "walk" => Straight
    /\ pc = "find" => \E done, s : Following(done, s)
    /\ pc = "use" => Reaches(node.ino)

\* The machine stops only where there is no ramdisk.
Straying == (pc = "halted" => ~img.magic) /\ SearchStaysInside

\* The answers.
Answered == KopenFollowsTree /\ ListingIsComplete

\* With the invariant of the memory this is inductive.
RouteInv == Asking /\ OnTheWay /\ Straying /\ Answered
-----------------------------------------------------------------------------
(* What leaves the way alone *)

\* What other calls answer changes nothing.
LEMMA AnswersKept ==
    ASSUME Answered, img' = img, last' = last \/ last'.op \notin {"kopen", "readdir"}
    PROVE  Answered'
<1>1. Orderly' = Orderly
  BY SameTree
<1>2. KopenFollowsTree'
  <2>1. CASE last' = last
    <3>1. \A a : Resolve(a)' = Resolve(a)
      BY SameResolve
    <3> QED
      BY <1>1, <2>1, <3>1 DEF Answered, KopenFollowsTree
  <2>2. CASE last'.op \notin {"kopen", "readdir"}
    BY <2>2 DEF KopenFollowsTree
  <2> QED
    BY <2>1, <2>2
<1>3. ListingIsComplete'
  <2>1. CASE last' = last
    BY <1>1, <2>1 DEF Answered, ListingIsComplete
  <2>2. CASE last'.op \notin {"kopen", "readdir"}
    BY <2>2 DEF ListingIsComplete
  <2> QED
    BY <2>1, <2>2
<1> QED
  BY <1>2, <1>3 DEF Answered

\* No call is under way, or the step leaves alone what it works on.
LEMMA NotOnTheWay ==
    ASSUME pc' \notin {"tokens", "root", "walk", "find", "use"}
    PROVE  OnTheWay'
BY DEF OnTheWay

\* Neither has the machine stopped.
LEMMA NotAstray ==
    ASSUME pc' \notin {"halted", "astray"}
    PROVE  Straying'
BY DEF Straying, SearchStaysInside

\* Where names lead does not change in a call.
LEMMA SameReaches ==
    ASSUME UNCHANGED <<img, op, asked>>, NEW ino, Reaches(ino)
    PROVE  Reaches(ino)'
<1>1. Orderly' = Orderly /\ \A a, b : Leads(a, b)' = Leads(a, b)
  BY SameTree
<1>2. \A a : Resolve(a)' = Resolve(a)
  BY SameResolve
<1>3. Source' = Source
  BY DEF Source
<1> QED
  BY <1>1, <1>2, <1>3 DEF Reaches
-----------------------------------------------------------------------------
(* canonicalize_path splits its path *)

\* canonicalize_path begins with the name kopen is to follow.
LEMMA Starts ==
    ASSUME TypeOK', out' = list_create, text' = <<>>, todo' = Source'
    PROVE  Splitting(<<>>)'
<1>1. PICK src : src = Source'
  OBVIOUS
<1>2. src \in Seq(Chars)
  <2>1. Source' \in Seq(Chars)
    <3>1. asked' \in Seq(Chars)
      BY PathIs DEF TypeOK
    <3>2. Parent(Trimmed(asked')) \in Seq(Chars)
      BY <3>1, TrimmedIs, ParentIn
    <3> QED
      BY <3>1, <3>2 DEF Source
  <2> QED
    BY <1>1, <2>1
<1>3. Names(src) \in Seq(Elements(Chars))
  BY <1>2, NamesIn
<1>4. Names(src) = <<>> \o Names(src)
  BY <1>3, ConcatEmptySeq
<1>5. Stack' = <<>>
  <2>2. foreach(list_create) = <<>>
    <3>1. PICK e, l : e = <<>> /\ l = list_create
      OBVIOUS
    <3>2. Holding(l, e, e)
      BY <3>1, EmptyHolds
    <3>3. foreach(l) = e
      BY <3>2, ForeachIs DEF Holding, Linked
    <3> QED
      BY <3>1, <3>3
  <2>3. Len(foreach(list_create)) = 0
    BY <2>2
  <2>4. PICK c : c = Spelled(list_create, foreach(list_create), <<>>)
    OBVIOUS
  <2>5. c = [i \in 1..0 |-> (<<>>)[list_create.node[foreach(list_create)[i]].value]]
    BY <2>3, <2>4 DEF Spelled
  <2>6. c = <<>>
    BY <2>5
  <2>7. Stack' = c
    BY <2>4 DEF Stack
  <2> QED
    BY <2>6, <2>7
<1>6. <<>> \in Seq(Plain) /\ <<>> \in Seq(Elements(Chars))
  BY EmptySeq
<1>7. Leads(<<>>, <<>>)'
  BY DEF Leads
<1> QED
  BY <1>1, <1>2, <1>4, <1>5, <1>6, <1>7 DEF Splitting

\* One name more is done.
LEMMA OneMoreDone ==
    ASSUME MemoryIInv, pc = "tokens", NEW done, Splitting(done), Tok.token # <<>>
    PROVE  /\ Tok.token \in Elements(Chars) /\ Tok.save \in Seq(Chars)
           /\ done \o <<Tok.token>> \in Seq(Elements(Chars))
           /\ Names(Source) = (done \o <<Tok.token>>) \o Names(Tok.save)
<1>1. PICK t : t = Tok
  OBVIOUS
<1>2. t = strtok_r(todo, {SEP}) /\ todo \in Seq(Chars)
  BY <1>1 DEF Tok, Splitting
<1>3. t.token \in Seq(Chars) /\ t.save \in Seq(Chars) /\ FirstName(Chars, todo, t.token, t.save)
  BY <1>2, FirstToken
<1>4. PICK token, save : token = t.token /\ save = t.save
  OBVIOUS
<1>5. token \in Elements(Chars) /\ Names(todo) = <<token>> \o Names(save)
  BY <1>1, <1>3, <1>4 DEF FirstName
<1>6. PICK o : o = <<token>>
  OBVIOUS
<1>7. o \in Seq(Elements(Chars)) /\ Names(save) \in Seq(Elements(Chars)) /\ done \in Seq(Elements(Chars))
  BY <1>3, <1>4, <1>5, <1>6, OneIn, NamesIn DEF Splitting
<1>8. Names(Source) = done \o (o \o Names(save))
  BY <1>5, <1>6 DEF Splitting
<1>9. Names(Source) = (done \o o) \o Names(save) /\ done \o o \in Seq(Elements(Chars))
  BY <1>7, <1>8, ConcatAssociative, ConcatProperties
<1> QED
  BY <1>1, <1>3, <1>4, <1>5, <1>6, <1>9

\* The names of files are names.
LEMMA SeqOfPlain ==
    ASSUME NEW a \in Seq(Plain)
    PROVE  a \in Seq(Elements(Chars))
<1>1. \A i \in 1..Len(a) : a[i] \in Elements(Chars)
  BY ElementOfSeq DEF Plain
<1>2. Len(a) \in Nat /\ a = [i \in 1..Len(a) |-> a[i]]
  BY LenProperties
<1> QED
  BY <1>1, <1>2, IsASeq

\* A list without a tail has no strings.
LEMMA EmptyStack ==
    ASSUME Holding(out, foreach(out), text), out.tail = NIL
    PROVE  Stack = <<>>
<1>1. PICK s : s = foreach(out)
  OBVIOUS
<1>2. GoesOn(out, s)
  BY <1>1 DEF Holding, Linked
<1>3. /\ s \in Seq(Blocks) /\ out.tail = Final(s) /\ Len(s) \in Nat
      /\ (s = <<>> <=> Len(s) = 0)
  BY <1>2, GoesOnFacts
<1>4. s = <<>>
  <2>1. SUFFICES ASSUME s # <<>> PROVE FALSE
    OBVIOUS
  <2>2. PICK k \in 1..Len(s) : k = Len(s)
    BY <1>3, <2>1
  <2>3. s[k] \in Blocks /\ Final(s) = s[k]
    BY <1>3, <2>1, <2>2, ElementOfSeq DEF Final
  <2> QED
    BY <1>3, <2>3 DEF Blocks, NIL
<1>5. Len(s) = 0
  BY <1>4
<1>6. PICK c : c = Spelled(out, s, text)
  OBVIOUS
<1>7. c = [i \in 1..0 |-> text[out.node[s[i]].value]]
  BY <1>5, <1>6 DEF Spelled
<1>8. c = <<>>
  BY <1>7
<1> QED
  BY <1>1, <1>6, <1>8 DEF Stack

\* A name of the path, whichever: the list goes on leading where the names lead.
LEMMA SplitOn ==
    ASSUME MemoryIInv, pc = "tokens", NEW done, Splitting(done), Token
    PROVE  \E d : Splitting(d)'
<1>1. PICK token, save : token = Tok.token /\ save = Tok.save
  OBVIOUS
<1>2. /\ token # <<>> /\ todo' = save
      /\ \/ token = UP /\ out.tail # NIL /\ Pop
         \/ token = UP /\ out.tail = NIL /\ UNCHANGED <<heap, out, text>>
         \/ token = DOT /\ UNCHANGED <<heap, out, text>>
         \/ token \notin {UP, DOT} /\ Push(token)
      /\ UNCHANGED <<img, root, held, pc, op, asked, list, str, dirName, node, last>>
  BY <1>1 DEF Token
<1>3. PICK d : d = done \o <<token>>
  OBVIOUS
<1>4. /\ token \in Elements(Chars) /\ save \in Seq(Chars) /\ d \in Seq(Elements(Chars))
      /\ Names(Source) = d \o Names(save)
  BY <1>1, <1>2, <1>3, OneMoreDone
<1>5. Source' = Source
  BY <1>2 DEF Source
<1>6. /\ done \in Seq(Elements(Chars)) /\ Stack \in Seq(Plain)
      /\ Orderly => Leads(Stack, done)
  BY DEF Splitting
<1>7. /\ heap \in SUBSET Blocks /\ IsFiniteSet(heap) /\ heap = AllOf(Parts)
      /\ Holding(out, foreach(out), text)
  BY TokensFacts
<1>8. img \in Images
  BY DEF MemoryIInv, TypeOK
<1>9. Orderly' = Orderly /\ \A a, b : Leads(a, b)' = Leads(a, b)
  BY <1>2, SameTree
<1>10. SUFFICES Stack' \in Seq(Plain) /\ (Orderly => Leads(Stack', d))
  BY <1>2, <1>4, <1>5, <1>9 DEF Splitting
<1>11. CASE token = UP /\ out.tail # NIL /\ Pop
  <2>1. PICK n, v : n = out.tail /\ v = out.node[n].value
    OBVIOUS
  <2>2. out' = Dropped(list_pop(out), n) /\ text' = Without(text, {v})
    BY <1>11, <2>1 DEF Pop, Dropped
  <2>3. SpelledIn(Plain, out, foreach(out), text)
    BY <1>6 DEF SpelledIn, Stack
  <2>4. \E u, x : /\ x \in Plain /\ Holding(out', u, text') /\ Spelled(out', u, text') \in Seq(Plain)
                  /\ Spelled(out, foreach(out), text) = Spelled(out', u, text') \o <<x>>
    <3>1. PICK l, s, t : l = out /\ s = foreach(out) /\ t = text
      OBVIOUS
    <3>2. PICK k, w : k = Dropped(list_pop(l), l.tail) /\ w = Without(t, {l.node[l.tail].value})
      OBVIOUS
    <3>3. Holding(l, s, t) /\ SpelledIn(Plain, l, s, t) /\ l.tail # NIL
      BY <1>7, <1>11, <2>3, <3>1
    <3>4. OneLess(Plain, l, s, t, k, w)
      BY <3>2, <3>3, PopSpells
    <3>5. k = out' /\ w = text'
      BY <2>1, <2>2, <3>1, <3>2
    <3> QED
      BY <3>1, <3>4, <3>5 DEF OneLess
  <2>5. PICK u, x : /\ x \in Plain /\ Holding(out', u, text') /\ Spelled(out', u, text') \in Seq(Plain)
                    /\ Spelled(out, foreach(out), text) = Spelled(out', u, text') \o <<x>>
    BY <2>4
  <2>6. foreach(out') = u
    BY <2>5, ForeachIs DEF Holding, Linked
  <2>7. PICK a : a = Stack'
    OBVIOUS
  <2>8. a \in Seq(Plain) /\ Stack = a \o <<x>>
    BY <2>5, <2>6, <2>7 DEF Stack
  <2>9. ASSUME Orderly PROVE Leads(a, d)
    <3>1. PICK b : b = Stack
      OBVIOUS
    <3>2. Leads(a \o <<x>>, done)
      BY <1>6, <2>8, <2>9
    <3>3. a \in Seq(Elements(Chars))
      BY <2>8, SeqOfPlain
    <3>4. x \in Elements(Chars) /\ x \notin {UP, DOT} /\ UP \in Elements(Chars)
      BY <1>4, <1>11, <2>5 DEF Plain
    <3>5. Leads(a, done \o <<UP>>)
      BY <1>6, <1>8, <2>9, <3>2, <3>3, <3>4, LeadsUp
    <3> QED
      BY <1>3, <1>11, <3>5
  <2> QED
    BY <2>7, <2>8, <2>9
<1>12. CASE token = UP /\ out.tail = NIL /\ UNCHANGED <<heap, out, text>>
  <2>1. Stack' = Stack
    BY <1>12 DEF Stack
  <2>2. Stack = <<>>
    BY <1>7, <1>12, EmptyStack
  <2>3. ASSUME Orderly PROVE Leads(<<>>, d)
    <3>1. Leads(<<>>, done) /\ UP \in Elements(Chars)
      BY <1>4, <1>6, <1>12, <2>2, <2>3
    <3>2. Leads(<<>>, done \o <<UP>>)
      BY <1>6, <1>8, <2>3, <3>1, LeadsUpFromRoot
    <3> QED
      BY <1>3, <1>12, <3>2
  <2> QED
    BY <1>6, <2>1, <2>2, <2>3
<1>13. CASE token = DOT /\ UNCHANGED <<heap, out, text>>
  <2>1. Stack' = Stack
    BY <1>13 DEF Stack
  <2>2. ASSUME Orderly PROVE Leads(Stack, d)
    <3>1. PICK a : a = Stack
      OBVIOUS
    <3>2. Leads(a, done)
      BY <1>6, <2>2, <3>1
    <3>3. Leads(a, done \o <<DOT>>)
      BY <1>6, <3>2, DotIs, LeadsDot
    <3> QED
      BY <1>3, <1>13, <3>1, <3>3
  <2> QED
    BY <1>6, <2>1, <2>2
<1>14. CASE token \notin {UP, DOT} /\ Push(token)
  <2>1. PICK v : v = Fresh(heap)
    OBVIOUS
  <2>2. PICK n : n = Fresh(heap \union {v})
    OBVIOUS
  <2>3. out' = list_insert(out, n, v) /\ text' = Put(text, v, token)
    BY <1>14, <2>1, <2>2 DEF Push
  <2>4. v \in Blocks \ heap
    BY <1>7, <2>1, FreshIsNew
  <2>5. heap \union {v} \in SUBSET Blocks /\ IsFiniteSet(heap \union {v})
    BY <1>7, <2>4, FS_AddElement
  <2>6. n \in Blocks \ (heap \union {v})
    BY <2>2, <2>5, FreshIsNew
  <2>7. DOMAIN out.node \subseteq heap /\ DOMAIN text \subseteq heap
    BY <1>7, PartsAre DEF AllOf
  <2>8. n \in Blocks \ DOMAIN out.node /\ v \in Blocks \ DOMAIN text
    BY <2>4, <2>6, <2>7
  <2>9. token \in Plain
    BY <1>4, <1>14 DEF Plain
  <2>10. SpelledIn(Plain, out, foreach(out), text)
    BY <1>6 DEF SpelledIn, Stack
  <2>11. PICK u : u = Append(foreach(out), n)
    OBVIOUS
  <2>12. Holding(out', u, text')
    BY <1>7, <2>3, <2>8, <2>11, PushHolds
  <2>13. foreach(out') = u
    BY <2>12, ForeachIs DEF Holding, Linked
  <2>14. Spelled(out', u, text') \in Seq(Plain) /\ Spelled(out', u, text') = Stack \o <<token>>
    BY <1>7, <2>3, <2>8, <2>9, <2>10, <2>11, PushSpells DEF Stack
  <2>15. Stack' \in Seq(Plain) /\ Stack' = Stack \o <<token>>
    BY <2>13, <2>14 DEF Stack
  <2>16. ASSUME Orderly PROVE Leads(Stack', d)
    <3>1. PICK a : a = Stack
      OBVIOUS
    <3>2. Leads(a, done) /\ a \in Seq(Elements(Chars))
      BY <1>6, <2>16, <3>1, SeqOfPlain
    <3>3. Leads(a \o <<token>>, done \o <<token>>)
      BY <1>4, <1>6, <3>2, LeadsMore
    <3> QED
      BY <1>3, <2>15, <3>1, <3>3
  <2> QED
    BY <2>15, <2>16
<1> QED
  BY <1>2, <1>11, <1>12, <1>13, <1>14
-----------------------------------------------------------------------------
(* It joins the names again, and the walk begins *)

\* No name is left.
LEMMA AllDone ==
    ASSUME NEW done, Splitting(done), Tok.token = <<>>
    PROVE  Names(Source) = done
<1>1. PICK t : t = Tok
  OBVIOUS
<1>2. t = strtok_r(todo, {SEP}) /\ todo \in Seq(Chars)
  BY <1>1 DEF Tok, Splitting
<1>3. FirstName(Chars, todo, t.token, t.save)
  BY <1>2, FirstToken
<1>4. Names(todo) = <<>>
  BY <1>1, <1>3 DEF FirstName
<1>5. done \in Seq(Elements(Chars)) /\ Names(Source) = done \o <<>>
  BY <1>4 DEF Splitting
<1> QED
  BY <1>5, ConcatEmptySeq

\* The path made of the list leads where the names lead.
LEMMA JoinsStraight ==
    ASSUME MemoryIInv, NEW done, Splitting(done), Joined
    PROVE  Straight'
<1>1. /\ pc = "tokens" /\ Tok.token = <<>> /\ foreach(out) # <<>>
      /\ todo' = FlattenSeq([i \in DOMAIN foreach(out) |->
                                 <<SEP>> \o text[out.node[foreach(out)[i]].value]])
      /\ UNCHANGED <<img, op, asked>>
  BY DEF Joined
<1>2. Names(Source) = done
  BY <1>1, AllDone
<1>3. PICK W : W = Stack
  OBVIOUS
<1>4. W \in Seq(Plain) /\ (Orderly => Leads(W, done))
  BY <1>3 DEF Splitting
<1>5. W \in Seq(Elements(Chars))
  BY <1>4, SeqOfPlain
<1>6. PICK s : s = foreach(out)
  OBVIOUS
<1>7. Holding(out, s, text) /\ s # <<>>
  BY <1>1, <1>6, TokensFacts
<1>8. PICK N \in Nat : N = Len(s)
  BY <1>7, SpelledFacts
<1>9. Len(W) = N /\ \A i \in 1..N : W[i] = text[out.node[s[i]].value]
  BY <1>3, <1>6, <1>7, <1>8, SpelledFacts DEF Stack
<1>10. DOMAIN s = 1..N /\ N # 0
  <2>1. s \in Seq(Blocks)
    BY <1>7, GoesOnFacts DEF Holding, Linked
  <2> QED
    BY <1>7, <1>8, <2>1, LenProperties, EmptySeq
<1>11. DOMAIN W = 1..N /\ W # <<>>
  BY <1>5, <1>9, <1>10, LenProperties, EmptySeq
<1>12. PICK t : t = todo'
  OBVIOUS
<1>13. t = FlattenSeq([i \in 1..N |-> <<SEP>> \o text[out.node[s[i]].value]])
  BY <1>1, <1>6, <1>10, <1>12
<1>14. t = FlattenSeq([i \in DOMAIN W |-> <<SEP>> \o W[i]])
  BY <1>9, <1>11, <1>13
<1>15. t \in Seq(Chars) /\ Neat(t) /\ Names(t) = W
  BY <1>5, <1>11, <1>14, SepIsChar, JoinedNames
<1>16. Orderly' = Orderly /\ \A a, b : Leads(a, b)' = Leads(a, b)
  BY <1>1, SameTree
<1>17. Source' = Source
  BY <1>1 DEF Source
<1> QED
  BY <1>2, <1>4, <1>12, <1>15, <1>16, <1>17 DEF Straight

\* If it is empty they lead to the root.
LEMMA JoinsNothing ==
    ASSUME MemoryIInv, NEW done, Splitting(done), JoinedEmpty
    PROVE  Reaches(RootInode)'
<1>1. /\ pc = "tokens" /\ Tok.token = <<>> /\ foreach(out) = <<>> /\ UNCHANGED <<img, op, asked>>
  BY DEF JoinedEmpty
<1>2. Names(Source) = done
  BY <1>1, AllDone
<1>3. Stack = <<>>
  <2>1. PICK s : s = foreach(out)
    OBVIOUS
  <2>2. Len(s) = 0
    BY <1>1, <2>1
  <2>3. PICK c : c = Spelled(out, s, text)
    OBVIOUS
  <2>4. c = [i \in 1..0 |-> text[out.node[s[i]].value]]
    BY <2>2, <2>3 DEF Spelled
  <2>5. c = <<>>
    BY <2>4
  <2> QED
    BY <2>1, <2>3, <2>5 DEF Stack
<1>4. Orderly => Leads(<<>>, Names(Source))
  BY <1>2, <1>3 DEF Splitting
<1>5. PICK a : a = <<>>
  OBVIOUS
<1>6. Reaches(RootInode)
  BY <1>4, <1>5, ResolveNothing DEF Reaches
<1> QED
  BY <1>1, <1>6, SameReaches

\* The walk begins at the root.
LEMMA WalkBegins ==
    ASSUME MemoryIInv, Straight, StartWalk
    PROVE  \E s : Following(<<>>, s)'
<1>1. /\ pc = "walk" /\ UNCHANGED <<img, root, op, asked>>
      /\ todo' = Tail([i \in DOMAIN todo |-> IF todo[i] = SEP THEN NUL ELSE todo[i]])
      /\ node' = [root EXCEPT !.id = Fresh(heap)]
  BY DEF StartWalk
<1>2. root.ino = RootInode /\ root \in Nodes
  BY <1>1, WalkFacts
<1>3. node'.ino = RootInode
  BY <1>1, <1>2 DEF Nodes
<1>4. PICK s : s = todo
  OBVIOUS
<1>5. s \in Seq(Chars) /\ Neat(s) /\ Names(s) \in Seq(Plain)
  BY <1>4 DEF Straight
<1>6. Ahead(s, todo')
  <2>1. s # <<>>
    BY <1>5 DEF Neat
  <2> QED
    BY <1>1, <1>4, <1>5, <2>1, AheadIs
<1>7. PICK e : e = <<>>
  OBVIOUS
<1>8. e \in Seq(Plain) /\ e \o Names(s) = Names(s)
  BY <1>5, <1>7, EmptySeq, ConcatEmptySeq
<1>9. Orderly' = Orderly /\ \A a, b : Leads(a, b)' = Leads(a, b)
  BY <1>1, SameTree
<1>10. Resolve(e)' = Resolve(e) /\ Resolve(e) = RootInode
  BY <1>1, <1>7, SameResolve, ResolveNothing
<1>11. Source' = Source
  BY <1>1 DEF Source
<1>12. Orderly => Leads(e \o Names(s), Names(Source))
  BY <1>4, <1>8 DEF Straight
<1>13. Following(e, s)'
  BY <1>3, <1>5, <1>6, <1>8, <1>9, <1>10, <1>11, <1>12 DEF Following
<1> QED
  BY <1>7, <1>13

\* The first and the others.
LEMMA RestIn ==
    ASSUME NEW S, NEW T, NEW a \in Seq(T), NEW x \in T, <<x>> \o a \in Seq(S)
    PROVE  x \in S /\ a \in Seq(S)
<1>1. PICK o : o = <<x>>
  OBVIOUS
<1>2. o \in Seq(T) /\ Len(o) = 1 /\ o[1] = x
  BY <1>1, OneIn
<1>3. PICK N \in Nat : N = Len(a)
  BY LenProperties
<1>4. PICK c : c = o \o a
  OBVIOUS
<1>5. c \in Seq(S) /\ Len(c) = 1 + N /\ \A i \in 1..(1 + N) : c[i] = IF i <= 1 THEN o[i] ELSE a[i - 1]
  <2>1. Len(c) = Len(o) + Len(a) /\ \A i \in 1..(Len(o) + Len(a)) : c[i] = IF i <= Len(o) THEN o[i] ELSE a[i - Len(o)]
    BY <1>2, <1>4, ConcatProperties
  <2> QED
    BY <1>1, <1>2, <1>3, <1>4, <2>1
<1>6. x \in S
  <2>1. 1 \in 1..Len(c) /\ 1 \in 1..(1 + N)
    BY <1>5
  <2>2. c[1] = x
    BY <1>2, <1>5, <2>1
  <2> QED
    BY <1>5, <2>1, <2>2, ElementOfSeq
<1>7. ASSUME NEW i \in 1..N PROVE a[i] \in S
  <2>1. PICK j \in 1..(1 + N) : j = i + 1 /\ ~(j <= 1) /\ j - 1 = i
    OBVIOUS
  <2>2. j \in 1..Len(c) /\ c[j] = a[i]
    BY <1>5, <2>1
  <2> QED
    BY <1>5, <2>2, ElementOfSeq
<1>8. a = [i \in 1..N |-> a[i]]
  BY <1>3, LenProperties
<1>9. a \in Seq(S)
  BY <1>7, <1>8, IsASeq
<1> QED
  BY <1>6, <1>9

\* s is the path of the name w and of those ahead in t.
WithOthers(s, w, t) == \E r : /\ r \in Seq(Chars) /\ Neat(r) /\ Ahead(r, t) /\ Names(r) \in Seq(Plain)
                            /\ Names(s) = <<w>> \o Names(r)

\* The name finddir_initrd is asked for is the next of those that are ahead.
LEMMA NextOfPath ==
    ASSUME NEW done, NEW s, Following(done, s), NEW w, w = UpTo(todo, NUL)
    PROVE  /\ w \in Plain
           /\ NUL \notin ToSet(todo) => Names(s) = <<w>>
           /\ NUL \in ToSet(todo) => WithOthers(s, w, Behind(todo, NUL))
<1>1. s \in Seq(Chars) /\ Neat(s) /\ Ahead(s, todo) /\ Names(s) \in Seq(Plain)
  BY DEF Following
<1>2. NextName(s, todo)
  BY <1>1, NextIs
<1>3. CASE NUL \notin ToSet(todo)
  <2>1. Names(s) = <<w>>
    BY <1>2, <1>3 DEF NextName
  <2>2. PICK o \in Seq(Plain) : o = <<w>>
    BY <1>1, <2>1
  <2>3. Len(o) = 1 /\ o[1] = w
    BY <2>2, OneIn
  <2>4. w \in Plain
    BY <2>3, ElementOfSeq
  <2> QED
    BY <1>3, <2>1, <2>4
<1>4. CASE NUL \in ToSet(todo)
  <2>1. PICK r : Leaves(s, w, r) /\ Ahead(r, Behind(todo, NUL))
    BY <1>2, <1>4 DEF NextName
  <2>2. /\ w \in Elements(Chars) /\ r \in Seq(Chars) /\ Neat(r) /\ Names(s) = <<w>> \o Names(r)
    BY <2>1 DEF Leaves
  <2>3. Names(r) \in Seq(Elements(Chars))
    BY <2>2, NamesIn
  <2>4. w \in Plain /\ Names(r) \in Seq(Plain)
    BY <1>1, <2>2, <2>3, RestIn
  <2> QED
    BY <1>4, <2>1, <2>2, <2>4 DEF WithOthers
<1> QED
  BY <1>3, <1>4
-----------------------------------------------------------------------------
(* The turns of the walk *)

\* What the search for the next name finds is where the names up to it lead.
LEMMA OneFound ==
    ASSUME MemoryIInv, pc = "find", LooksLikeDirectory(Type(node.ino)), Orderly,
           NEW done, NEW s, Following(done, s), NEW w, w = UpTo(todo, NUL)
    PROVE  Resolve(done \o <<w>>) = Lookup(node.ino, w)
<1>1. done \in Seq(Plain) /\ Resolve(done) = node.ino
  BY DEF Following
<1>2. w \in Plain /\ w # DOT
  BY NextOfPath DEF Plain
<1>3. img \in Images /\ node.ino \in DOMAIN img.inode
  BY FindFacts
<1>4. Resolve(done \o <<w>>) = Onward(node.ino, w)
  BY <1>1, <1>2, ResolveMore
<1>5. PICK i : i = node.ino
  OBVIOUS
<1>6. Lookup(i, w) = Onward(i, w)
  BY <1>2, <1>3, <1>5, LookupIs
<1> QED
  BY <1>4, <1>5, <1>6

\* If it was the last name, it is where they all lead.
LEMMA LastFound ==
    ASSUME MemoryIInv, pc = "find", LooksLikeDirectory(Type(node.ino)),
           NEW done, NEW s, Following(done, s), NUL \notin ToSet(todo)
    PROVE  Reaches(Lookup(node.ino, UpTo(todo, NUL)))
<1> SUFFICES ASSUME Orderly
             PROVE  \E a : Leads(a, Names(Source)) /\ Resolve(a) = Lookup(node.ino, UpTo(todo, NUL))
  BY DEF Reaches
<1>1. PICK w : w = UpTo(todo, NUL)
  OBVIOUS
<1>2. Names(s) = <<w>>
  BY <1>1, NextOfPath
<1>3. PICK a : a = done \o <<w>>
  OBVIOUS
<1>4. Leads(a, Names(Source))
  BY <1>2, <1>3 DEF Following
<1>5. Resolve(a) = Lookup(node.ino, w)
  BY <1>1, <1>3, OneFound
<1> QED
  BY <1>1, <1>4, <1>5

\* What is ahead behind the name w, that done leads to the node found.
LEMMA NextFound ==
    ASSUME MemoryIInv, pc = "find", LooksLikeDirectory(Type(node.ino)),
           NEW done, NEW s, Following(done, s), NUL \in ToSet(todo),
           UNCHANGED <<img, op, asked>>, todo' = Behind(todo, NUL),
           node'.ino = Lookup(node.ino, UpTo(todo, NUL))
    PROVE  \E d, r : Following(d, r)'
<1>1. PICK w : w = UpTo(todo, NUL)
  OBVIOUS
<1>2. w \in Plain /\ WithOthers(s, w, Behind(todo, NUL))
  BY <1>1, NextOfPath
<1>3. PICK r : /\ r \in Seq(Chars) /\ Neat(r) /\ Ahead(r, todo') /\ Names(r) \in Seq(Plain)
               /\ Names(s) = <<w>> \o Names(r)
  BY <1>2 DEF WithOthers
<1>4. PICK d : d = done \o <<w>>
  OBVIOUS
<1>5. done \in Seq(Plain)
  BY DEF Following
<1>6. PICK o \in Seq(Plain) : o = <<w>>
  BY <1>2, OneIn
<1>7. d \in Seq(Plain) /\ d \o Names(r) = done \o Names(s)
  BY <1>3, <1>4, <1>5, <1>6, ConcatAssociative, ConcatProperties
<1>8. Orderly' = Orderly /\ \A a, b : Leads(a, b)' = Leads(a, b)
  BY SameTree
<1>9. Resolve(d)' = Resolve(d)
  BY SameResolve
<1>10. Source' = Source
  BY DEF Source
<1>11. Orderly => Leads(d \o Names(r), Names(Source))
  BY <1>7 DEF Following
<1>12. Orderly => Resolve(d) = node'.ino
  BY <1>1, <1>4, OneFound
<1>13. Following(d, r)'
  BY <1>3, <1>7, <1>8, <1>9, <1>10, <1>11, <1>12 DEF Following
<1> QED
  BY <1>13

\* What is not found is nowhere in the tree either.
LEMMA NoneFound ==
    ASSUME MemoryIInv, NEW done, NEW s, Following(done, s), FindNothing
    PROVE  Reaches(NONE)
<1> SUFFICES ASSUME Orderly
             PROVE  \E a : Leads(a, Names(Source)) /\ Resolve(a) = NONE
  BY DEF Reaches
<1>1. /\ pc = "find"
      /\ \/ ~LooksLikeDirectory(Type(node.ino))
         \/ LooksLikeDirectory(Type(node.ino)) /\ Lookup(node.ino, UpTo(todo, NUL)) = NONE
  BY DEF FindNothing
<1>2. PICK w : w = UpTo(todo, NUL)
  OBVIOUS
<1>3. /\ w \in Plain /\ (NUL \notin ToSet(todo) => Names(s) = <<w>>)
      /\ (NUL \in ToSet(todo) => WithOthers(s, w, Behind(todo, NUL)))
  BY <1>2, NextOfPath
<1>4. /\ done \in Seq(Plain) /\ Resolve(done) = node.ino /\ Leads(done \o Names(s), Names(Source))
      /\ Names(s) \in Seq(Plain)
  BY DEF Following
<1>5. PICK d : d = done \o <<w>>
  OBVIOUS
<1>6. Resolve(d) = NONE
  <2>1. CASE ~LooksLikeDirectory(Type(node.ino))
    <3>1. Onward(node.ino, w) = NONE
      BY <2>1, NowhereFrom
    <3> QED
      BY <1>3, <1>4, <1>5, <3>1, ResolveMore
  <2>2. CASE LooksLikeDirectory(Type(node.ino)) /\ Lookup(node.ino, UpTo(todo, NUL)) = NONE
    BY <1>1, <1>2, <1>5, <2>2, OneFound
  <2> QED
    BY <1>1, <2>1, <2>2
<1>7. PICK o \in Seq(Plain) : o = <<w>>
  BY <1>3, OneIn
<1>8. d \in Seq(Plain)
  BY <1>4, <1>5, <1>7, ConcatProperties
<1>9. Resolve(done \o Names(s)) = NONE
  <2>1. CASE NUL \notin ToSet(todo)
    BY <1>3, <1>5, <1>6, <2>1
  <2>2. CASE NUL \in ToSet(todo)
    <3>1. PICK r : Names(r) \in Seq(Plain) /\ Names(s) = <<w>> \o Names(r)
      BY <1>3, <2>2 DEF WithOthers
    <3>2. done \o Names(s) = d \o Names(r)
      BY <1>4, <1>5, <1>7, <3>1, ConcatAssociative
    <3>3. Resolve(d \o Names(r)) = NONE
      BY <1>6, <1>8, <3>1, ResolveFails
    <3> QED
      BY <3>2, <3>3
  <2> QED
    BY <2>1, <2>2
<1> QED
  BY <1>4, <1>9
\* kopen returns what the names lead to.
LEMMA Returned ==
    ASSUME MemoryIInv, RouteInv, NEW h, NEW n, Reaches(n.ino), Return(h, n), UNCHANGED <<img, root>>,
           pc \in {"root", "find"}
    PROVE  RouteInv'
<1>1. CASE op = "kopen" /\ pc' = "idle" /\ Answer(asked, op, n.ino)
  <2>1. Asking'
    BY <1>1 DEF Answer, Asking
  <2>2. OnTheWay' /\ Straying'
    BY <1>1, NotOnTheWay, NotAstray
  <2>3. last' = [op |-> "kopen", path |-> asked, ret |-> n.ino, mounted |-> root # NULL]
    BY <1>1 DEF Answer
  <2>4. PICK names : names = Names(asked)
    OBVIOUS
  <2>5. Source = asked
    BY <1>1 DEF Source
  <2>6. ASSUME Orderly
        PROVE  /\ Resolve(names) # NONE => n.ino = Resolve(names)
               /\ (~Within(names, UP) /\ ~Within(names, DOT)) => n.ino = Resolve(names)
    <3>1. PICK a : Leads(a, names) /\ Resolve(a) = n.ino
      BY <2>4, <2>5, <2>6 DEF Reaches
    <3> QED
      BY <3>1 DEF Leads
  <2>7. Orderly' = Orderly /\ Resolve(names)' = Resolve(names)
    BY SameTree, SameResolve
  <2>8. KopenFollowsTree'
    BY <2>3, <2>4, <2>6, <2>7 DEF KopenFollowsTree
  <2>9. ListingIsComplete'
    BY <2>3 DEF ListingIsComplete
  <2> QED
    BY <2>1, <2>2, <2>8, <2>9 DEF RouteInv, Answered
<1>2. CASE op # "kopen" /\ n # NULL /\ pc' = "use" /\ node' = n /\ UNCHANGED <<last, op, asked>>
  <2>1. Asking'
    BY <1>2 DEF RouteInv, Asking
  <2>2. Reaches(n.ino)'
    BY <1>2, SameReaches
  <2>3. OnTheWay'
    BY <1>2, <2>2 DEF OnTheWay
  <2>4. Straying'
    BY <1>2, NotAstray
  <2>5. Answered'
    BY <1>2, AnswersKept DEF RouteInv
  <2> QED
    BY <2>1, <2>3, <2>4, <2>5 DEF RouteInv
<1>3. CASE op # "kopen" /\ pc' = "idle" /\ Answer(asked, op, NoParent(op))
  <2>1. Asking'
    BY <1>3 DEF Answer, Asking
  <2>2. OnTheWay' /\ Straying'
    BY <1>3, NotOnTheWay, NotAstray
  <2>3. last'.op = op /\ op \in {"create", "mkdir"}
    BY <1>3 DEF Answer, MemoryIInv, TypeOK, Calls
  <2>4. Answered'
    BY <2>3, AnswersKept DEF RouteInv
  <2> QED
    BY <2>1, <2>2, <2>4 DEF RouteInv
<1> QED
  BY <1>1, <1>2, <1>3 DEF Return
-----------------------------------------------------------------------------
(* Each step keeps to the way *)

\* A step of a call that neither begins nor ends it.
LEMMA WayGoesOn ==
    ASSUME RouteInv, UNCHANGED <<img, op, asked, last>>, OnTheWay', Straying'
    PROVE  RouteInv'
<1>1. Asking'
  BY DEF RouteInv, Asking
<1>2. Answered'
  BY AnswersKept DEF RouteInv
<1> QED
  BY <1>1, <1>2 DEF RouteInv

\* A step of the machine outside of calls.
LEMMA Outside ==
    ASSUME RouteInv, UNCHANGED <<img, op, asked>>, pc' = "idle",
           last' = last \/ last'.op \notin {"kopen", "readdir"}
    PROVE  RouteInv'
<1>1. Asking'
  BY DEF RouteInv, Asking
<1>2. OnTheWay' /\ Straying'
  BY NotOnTheWay, NotAstray
<1>3. Answered'
  BY AnswersKept DEF RouteInv
<1> QED
  BY <1>1, <1>2, <1>3 DEF RouteInv

\* The search of a directory that is none of the tree stops the machine.
LEMMA Astray ==
    ASSUME img \in Images, NEW i \in DOMAIN img.inode, LooksLikeDirectory(Type(i)),
           ~Readable(i), img' = img
    PROVE  ~Orderly'
<1>1. ~Orderly
  BY ScannedAre
<1> QED
  BY <1>1, SameTree

\* So does what is found in another group.
LEMMA FoundBehind ==
    ASSUME img \in Images, NEW i \in DOMAIN img.inode, Readable(i), NEW name,
           ~InTable(Lookup(i, name)), img' = img
    PROVE  ~Orderly'
<1>1. Lookup(i, name) # NONE
  <2>1. img.group \in Nat
    BY VFSAssumption
  <2>2. 0 <= img.group
    BY <2>1
  <2> QED
    BY <2>2 DEF InTable, NONE
<1>2. Lookup(i, name) \in DOMAIN img.inode
  BY <1>1, LookupIn
<1>3. ~Orderly
  BY <1>2 DEF Orderly, OneGroup
<1> QED
  BY <1>3, SameTree

\* Each step of a call goes on where the names lead.
LEMMA WorkRoute == ASSUME MemoryIInv, RouteInv, Work PROVE RouteInv'
<1>1. CASE Token
  <2>1. pc = "tokens" /\ pc' = pc /\ UNCHANGED <<img, op, asked, last>>
    BY <1>1 DEF Token
  <2>2. PICK done : Splitting(done)
    BY <2>1 DEF RouteInv, OnTheWay
  <2>3. \E d : Splitting(d)'
    BY <1>1, <2>1, <2>2, SplitOn
  <2>4. OnTheWay'
    BY <2>1, <2>3 DEF OnTheWay
  <2>5. Straying'
    BY <2>1, NotAstray
  <2> QED
    BY <2>1, <2>4, <2>5, WayGoesOn
<1>2. CASE Joined
  <2>1. pc = "tokens" /\ pc' = "walk" /\ UNCHANGED <<img, op, asked, last>>
    BY <1>2 DEF Joined
  <2>2. PICK done : Splitting(done)
    BY <2>1 DEF RouteInv, OnTheWay
  <2>3. Straight'
    BY <1>2, <2>2, JoinsStraight
  <2>4. OnTheWay'
    BY <2>1, <2>3 DEF OnTheWay
  <2>5. Straying'
    BY <2>1, NotAstray
  <2> QED
    BY <2>1, <2>4, <2>5, WayGoesOn
<1>3. CASE JoinedEmpty
  <2>1. pc = "tokens" /\ pc' = "root" /\ UNCHANGED <<img, op, asked, last>>
    BY <1>3 DEF JoinedEmpty
  <2>2. PICK done : Splitting(done)
    BY <2>1 DEF RouteInv, OnTheWay
  <2>3. Reaches(RootInode)'
    BY <1>3, <2>2, JoinsNothing
  <2>4. OnTheWay'
    BY <2>1, <2>3 DEF OnTheWay
  <2>5. Straying'
    BY <2>1, NotAstray
  <2> QED
    BY <2>1, <2>4, <2>5, WayGoesOn
<1>4. CASE CloneRoot
  <2>1. pc = "root" /\ UNCHANGED <<img, root>>
    BY <1>4 DEF CloneRoot
  <2>2. PICK h, n : h = (heap \union {Fresh(heap)}) \ {str} /\ n = [root EXCEPT !.id = Fresh(heap)]
    OBVIOUS
  <2>3. Return(h, n)
    BY <1>4, <2>2 DEF CloneRoot
  <2>4. root.ino = RootInode /\ root \in Nodes
    BY <2>1, WalkFacts
  <2>5. n.ino = RootInode
    BY <2>2, <2>4 DEF Nodes
  <2>6. Reaches(n.ino)
    BY <2>1, <2>5 DEF RouteInv, OnTheWay
  <2> QED
    BY <2>1, <2>3, <2>6, Returned
<1>5. CASE FreeNull
  <2>1. pc' = "null" /\ UNCHANGED <<img, op, asked, last>>
    BY <1>5 DEF FreeNull
  <2>2. OnTheWay' /\ Straying'
    BY <2>1, NotOnTheWay, NotAstray
  <2> QED
    BY <2>1, <2>2, WayGoesOn
<1>6. CASE StartWalk
  <2>1. pc = "walk" /\ pc' = "find" /\ UNCHANGED <<img, op, asked, last>>
    BY <1>6 DEF StartWalk
  <2>2. Straight
    BY <2>1 DEF RouteInv, OnTheWay
  <2>3. \E s : Following(<<>>, s)'
    BY <1>6, <2>2, WalkBegins
  <2>4. OnTheWay'
    BY <2>1, <2>3 DEF OnTheWay
  <2>5. Straying'
    BY <2>1, NotAstray
  <2> QED
    BY <2>1, <2>4, <2>5, WayGoesOn
<1>7. CASE Find
  <2>1. PICK ino : ino = Lookup(node.ino, UpTo(todo, NUL))
    OBVIOUS
  <2>2. pc = "find" /\ LooksLikeDirectory(Type(node.ino)) /\ UNCHANGED <<img, root>>
    BY <1>7 DEF Find
  <2>3. PICK garbage \in BOOLEAN :
            LET n == [id |-> Fresh(heap), ino |-> ino, mkdir |-> garbage]
                h == Replaced(n.id)
            IN \/ NUL \notin ToSet(todo) /\ Return(h \ {str}, n)
               \/ /\ NUL \in ToSet(todo) /\ node' = n /\ heap' = h
                  /\ todo' = Behind(todo, NUL)
                  /\ UNCHANGED <<held, pc, str, dirName, last, op, asked>>
    BY <1>7, <2>1 DEF Find
  <2>4. PICK n : n = [id |-> Fresh(heap), ino |-> ino, mkdir |-> garbage]
    OBVIOUS
  <2>5. PICK g : g = Replaced(n.id)
    OBVIOUS
  <2>6. n.ino = ino
    BY <2>4
  <2>7. PICK done, s : Following(done, s)
    BY <2>2 DEF RouteInv, OnTheWay
  <2>8. CASE NUL \notin ToSet(todo) /\ Return(g \ {str}, n)
    <3>1. Reaches(n.ino)
      BY <2>1, <2>2, <2>6, <2>7, <2>8, LastFound
    <3>2. PICK h : h = g \ {str}
      OBVIOUS
    <3> QED
      BY <2>2, <2>8, <3>1, <3>2, Returned
  <2>9. CASE NUL \in ToSet(todo) /\ node' = n /\ todo' = Behind(todo, NUL)
             /\ UNCHANGED <<pc, last, op, asked>>
    <3>1. UNCHANGED <<img, op, asked, last>> /\ pc' = "find"
      BY <2>2, <2>9
    <3>2. \E d, r : Following(d, r)'
      BY <2>1, <2>2, <2>6, <2>7, <2>9, NextFound
    <3>3. OnTheWay'
      BY <3>1, <3>2 DEF OnTheWay
    <3>4. Straying'
      BY <3>1, NotAstray
    <3> QED
      BY <3>1, <3>3, <3>4, WayGoesOn
  <2> QED
    BY <2>3, <2>4, <2>5, <2>8, <2>9
<1>8. CASE FindNothing
  <2>1. pc = "find" /\ UNCHANGED <<img, root>> /\ Return(heap \ {node.id, str}, NULL)
    BY <1>8 DEF FindNothing
  <2>2. PICK done, s : Following(done, s)
    BY <2>1 DEF RouteInv, OnTheWay
  <2>3. PICK h, n : h = heap \ {node.id, str} /\ n = NULL
    OBVIOUS
  <2>4. n.ino = NONE
    BY <2>3 DEF NULL
  <2>5. Reaches(n.ino)
    BY <1>8, <2>2, <2>4, NoneFound
  <2> QED
    BY <2>1, <2>3, <2>5, Returned
<1>9. CASE FindAstray
  <2>1. /\ pc = "find" /\ pc' = "astray" /\ LooksLikeDirectory(Type(node.ino))
        /\ Readable(node.ino) => ~InTable(Lookup(node.ino, UpTo(todo, NUL)))
        /\ UNCHANGED <<img, op, asked, last>>
    BY <1>9 DEF FindAstray
  <2>2. img \in Images /\ node.ino \in DOMAIN img.inode
    BY <2>1, FindFacts
  <2>3. ~Orderly'
    <3>1. PICK name : name = UpTo(todo, NUL)
      OBVIOUS
    <3> QED
      BY <2>1, <2>2, <3>1, Astray, FoundBehind
  <2>4. OnTheWay' /\ Straying'
    BY <2>1, <2>3, NotOnTheWay DEF Straying, SearchStaysInside
  <2> QED
    BY <2>1, <2>4, WayGoesOn
<1>10. CASE Used
  <2>1. pc = "use" /\ pc' = "idle" /\ Answer(asked, op, 0) /\ img' = img
    BY <1>10 DEF Used
  <2>2. op \in {"create", "mkdir"}
    BY <2>1 DEF MemoryIInv, Phases, TypeOK, Calls
  <2>3. last'.op \notin {"kopen", "readdir"} /\ op' = "kopen"
    BY <2>1, <2>2 DEF Answer
  <2>4. Asking'
    BY <2>3 DEF Asking
  <2>5. OnTheWay' /\ Straying'
    BY <2>1, NotOnTheWay, NotAstray
  <2>6. Answered'
    BY <2>1, <2>3, AnswersKept DEF RouteInv
  <2> QED
    BY <2>4, <2>5, <2>6 DEF RouteInv
<1>11. CASE CallsGarbage
  <2>1. pc' = "garbage" /\ UNCHANGED <<img, op, asked, last>>
    BY <1>11 DEF CallsGarbage
  <2>2. OnTheWay' /\ Straying'
    BY <2>1, NotOnTheWay, NotAstray
  <2> QED
    BY <2>1, <2>2, WayGoesOn
<1>12. CASE Resumed
  <2>1. pc = "halted" /\ pc' = "astray" /\ UNCHANGED <<img, op, asked, last>>
    BY <1>12 DEF Resumed
  <2>2. ~img.magic
    BY <2>1 DEF RouteInv, Straying
  <2>3. OnTheWay' /\ Straying'
    BY <2>1, <2>2, NotOnTheWay DEF Straying, SearchStaysInside
  <2> QED
    BY <2>1, <2>3, WayGoesOn
<1> QED
  BY <1>1, <1>2, <1>3, <1>4, <1>5, <1>6, <1>7, <1>8, <1>9, <1>10, <1>11, <1>12 DEF Work

\* readdir_fs shows what the blocks of the directory say.
LEMMA ListsAll ==
    ASSUME MemoryIInv, RouteInv, NEW n \in held, NEW index \in Indices, readdir_fs(n, index)
    PROVE  RouteInv'
<1>1. /\ n.ino \in DOMAIN img.inode /\ img \in Images /\ index \in Nat
  BY VFSAssumption DEF MemoryIInv, HeldAreNodes, TypeOK
<1>2. PICK i \in DOMAIN img.inode : i = n.ino
  BY <1>1
<1>3. pc = "idle" /\ UNCHANGED <<img, op, asked>>
  BY DEF readdir_fs
<1>4. Asking'
  BY <1>3 DEF RouteInv, Asking
<1>5. Orderly' = Orderly
  BY <1>3, SameTree
<1>6. PICK all : all = IF img.inode[i].type # "DIR" THEN <<>>
                       ELSE FlattenSeq([k \in DOMAIN img.inode[i].blocks |->
                                            img.block[img.inode[i].blocks[k]]])
  OBVIOUS
<1>7. CASE LooksLikeDirectory(Type(i)) /\ Readable(i)
  <2>1. PICK entry : entry = ext2_get_direntry(i, index)
    OBVIOUS
  <2>2. PICK dirent : dirent = IF entry = NoEntry THEN NONE ELSE Fresh(heap)
    OBVIOUS
  <2>3. pc' = pc /\ last' = [op |-> "readdir", dir |-> i, index |-> index, dirent |-> dirent, ret |-> entry]
    BY <1>2, <1>7, <2>1, <2>2 DEF readdir_fs
  <2>4. ASSUME Orderly PROVE entry = IF index < Len(all) THEN all[index + 1] ELSE NoEntry
    <3>1. Entries(i) = all
      BY <1>1, <1>6, <1>7, <2>4, EntriesFlat DEF Type
    <3> QED
      BY <2>1, <3>1 DEF ext2_get_direntry
  <2>5. ListingIsComplete'
    BY <1>3, <1>5, <1>6, <2>3, <2>4 DEF ListingIsComplete
  <2>6. KopenFollowsTree'
    BY <2>3 DEF KopenFollowsTree
  <2>7. OnTheWay' /\ Straying'
    BY <1>3, <2>3, NotOnTheWay, NotAstray
  <2> QED
    BY <1>4, <2>5, <2>6, <2>7 DEF RouteInv, Answered
<1>8. CASE ~LooksLikeDirectory(Type(i))
  <2>1. pc' = pc /\ last' = [op |-> "readdir", dir |-> i, index |-> index, dirent |-> NONE, ret |-> NoEntry]
    BY <1>2, <1>8 DEF readdir_fs
  <2>2. all = <<>>
    BY <1>6, <1>8, Looks DEF Type
  <2>3. ~(index < Len(all))
    BY <1>1, <2>2
  <2>4. ListingIsComplete'
    BY <1>3, <1>6, <2>1, <2>3 DEF ListingIsComplete
  <2>5. KopenFollowsTree'
    BY <2>1 DEF KopenFollowsTree
  <2>6. OnTheWay' /\ Straying'
    BY <1>3, <2>1, NotOnTheWay, NotAstray
  <2> QED
    BY <1>4, <2>4, <2>5, <2>6 DEF RouteInv, Answered
<1>9. CASE LooksLikeDirectory(Type(i)) /\ ~Readable(i)
  <2>1. pc' = "astray" /\ last' = last
    BY <1>2, <1>9 DEF readdir_fs
  <2>2. ~Orderly'
    BY <1>1, <1>3, <1>9, Astray
  <2>3. OnTheWay' /\ Straying'
    BY <2>1, <2>2, NotOnTheWay DEF Straying, SearchStaysInside
  <2> QED
    BY <1>3, <2>1, <2>3, WayGoesOn
<1> QED
  BY <1>7, <1>8, <1>9

\* kopen begins to split its name, or answers that nothing is mounted.
LEMMA KopenRoute ==
    ASSUME MemoryIInv, MemoryIInv', RouteInv, NEW path \in Paths, kopen(path)
    PROVE  RouteInv'
<1>1. img' = img /\ pc = "idle"
  BY DEF kopen
<1>2. CASE root # NULL /\ BeginKopen(heap, path) /\ op' = "kopen" /\ asked' = path
  <2>1. /\ out' = list_create /\ todo' = path /\ pc' = "tokens" /\ last' = last
        /\ text' = text
    BY <1>2 DEF BeginKopen
  <2>2. text = <<>>
    BY <1>1 DEF MemoryIInv, Phases, Quiet
  <2>3. todo' = Source'
    BY <1>2, <2>1 DEF Source
  <2>4. TypeOK'
    BY DEF MemoryIInv
  <2>5. Splitting(<<>>)'
    BY <2>1, <2>2, <2>3, <2>4, Starts
  <2>6. OnTheWay'
    BY <2>1, <2>5 DEF OnTheWay
  <2>7. Straying'
    BY <2>1, NotAstray
  <2>8. Asking'
    BY <1>2 DEF Asking
  <2>9. Answered'
    BY <1>1, <2>1, AnswersKept DEF RouteInv
  <2> QED
    BY <2>6, <2>7, <2>8, <2>9 DEF RouteInv
<1>3. CASE root = NULL /\ Answer(path, "kopen", NONE) /\ pc' = pc
  <2>1. OnTheWay' /\ Straying'
    BY <1>1, <1>3, NotOnTheWay, NotAstray
  <2>2. Asking'
    BY <1>3 DEF Answer, Asking
  <2>3. last'.op = "kopen" /\ ~last'.mounted
    BY <1>3 DEF Answer
  <2>4. Answered'
    BY <2>3 DEF Answered, KopenFollowsTree, ListingIsComplete
  <2> QED
    BY <2>1, <2>2, <2>4 DEF RouteInv
<1> QED
  BY <1>2, <1>3 DEF kopen

\* So do create_file_fs and mkdir_fs, with the directory.
LEMMA MakeRoute ==
    ASSUME MemoryIInv, MemoryIInv', RouteInv, NEW path \in MakePaths,
           NEW call \in {"create", "mkdir"}, Make(call, path)
    PROVE  RouteInv'
<1>1. img' = img /\ pc = "idle"
  BY DEF Make
<1>2. CASE Trimmed(path) # <<>> /\ op' = call /\ asked' = path
           /\ BeginKopen(heap \union {Fresh(heap)}, Parent(Trimmed(path)))
  <2>1. /\ out' = list_create /\ todo' = Parent(Trimmed(path)) /\ pc' = "tokens" /\ last' = last
        /\ text' = text
    BY <1>2 DEF BeginKopen
  <2>2. text = <<>>
    BY <1>1 DEF MemoryIInv, Phases, Quiet
  <2>3. todo' = Source'
    BY <1>2, <2>1 DEF Source
  <2>4. TypeOK'
    BY DEF MemoryIInv
  <2>5. Splitting(<<>>)'
    BY <2>1, <2>2, <2>3, <2>4, Starts
  <2>6. OnTheWay'
    BY <2>1, <2>5 DEF OnTheWay
  <2>7. Straying'
    BY <2>1, NotAstray
  <2>8. Asking'
    BY <1>2 DEF Asking
  <2>9. Answered'
    BY <1>1, <2>1, AnswersKept DEF RouteInv
  <2> QED
    BY <2>6, <2>7, <2>8, <2>9 DEF RouteInv
<1>3. ASSUME NEW ret, Answer(path, call, ret), pc' = pc PROVE RouteInv'
  <2>1. OnTheWay' /\ Straying'
    BY <1>1, <1>3, NotOnTheWay, NotAstray
  <2>2. Asking'
    BY <1>3 DEF Answer, Asking
  <2>3. last'.op \notin {"kopen", "readdir"}
    BY <1>3 DEF Answer
  <2>4. Answered'
    BY <1>1, <2>3, AnswersKept DEF RouteInv
  <2> QED
    BY <2>1, <2>2, <2>4 DEF RouteInv
<1>4. CASE \E ret : Answer(path, call, ret) /\ pc' = pc
  BY <1>3, <1>4
<1> QED
  BY <1>2, <1>4 DEF Make

\* Nothing moves.
LEMMA Unmoved ==
    ASSUME RouteInv, UNCHANGED <<img, op, asked, last, pc, todo, out, text, node>>
    PROVE  RouteInv'
<1>1. Orderly' = Orderly /\ \A a, b : Leads(a, b)' = Leads(a, b)
  BY SameTree
<1>2. \A a : Resolve(a)' = Resolve(a)
  BY SameResolve
<1>3. Source' = Source /\ Stack' = Stack
  BY DEF Source, Stack
<1>4. ASSUME pc = "tokens" PROVE \E done : Splitting(done)'
  <2>1. PICK done : Splitting(done)
    BY <1>4 DEF RouteInv, OnTheWay
  <2>2. Splitting(done)'
    BY <1>1, <1>3, <2>1 DEF Splitting
  <2> QED
    BY <2>2
<1>5. ASSUME pc = "walk" PROVE Straight'
  <2>1. Straight
    BY <1>5 DEF RouteInv, OnTheWay
  <2> QED
    BY <1>1, <1>3, <2>1 DEF Straight
<1>6. ASSUME pc = "find" PROVE \E done, s : Following(done, s)'
  <2>1. PICK done, s : Following(done, s)
    BY <1>6 DEF RouteInv, OnTheWay
  <2>2. Following(done, s)'
    BY <1>1, <1>2, <1>3, <2>1 DEF Following
  <2> QED
    BY <2>2
<1>7. ASSUME pc = "root" PROVE Reaches(RootInode)'
  BY <1>7, SameReaches DEF RouteInv, OnTheWay
<1>8. ASSUME pc = "use" PROVE Reaches(node.ino)'
  <2>1. PICK ino : ino = node.ino
    OBVIOUS
  <2>2. Reaches(ino)
    BY <1>8, <2>1 DEF RouteInv, OnTheWay
  <2> QED
    BY <2>1, <2>2, SameReaches
<1>9. OnTheWay'
  BY <1>4, <1>5, <1>6, <1>7, <1>8 DEF OnTheWay
<1>10. Straying'
  BY <1>1 DEF RouteInv, Straying, SearchStaysInside, DescriptorsFound
<1> QED
  BY <1>9, <1>10, WayGoesOn

\* Each step keeps to the way.
LEMMA NextRoute == ASSUME MemoryIInv, RouteInv, [Next]_vars PROVE RouteInv'
<1>1. CASE UNCHANGED vars
  <2>1. UNCHANGED <<img, op, asked, last, pc, todo, out, text, node>>
    BY <1>1 DEF vars
  <2> QED
    BY <2>1, Unmoved
<1>2. CASE initrd_mount
  <2>1. UNCHANGED <<img, op, asked, last>> /\ pc' = "idle"
    BY <1>2 DEF initrd_mount
  <2> QED
    BY <2>1, Outside
<1>3. CASE AssertFails
  <2>1. UNCHANGED <<img, op, asked, last>> /\ pc' = "halted" /\ ~img.magic
    BY <1>3 DEF AssertFails
  <2>2. OnTheWay' /\ Straying'
    BY <2>1, NotOnTheWay DEF Straying, SearchStaysInside
  <2> QED
    BY <2>1, <2>2, WayGoesOn
<1>12. CASE MountAstray
  <2>1. UNCHANGED <<img, op, asked, last>> /\ pc' = "astray" /\ ~DescriptorsFound
    BY <1>12 DEF MountAstray
  <2>2. OnTheWay' /\ Straying'
    BY <2>1, NotOnTheWay DEF Straying, SearchStaysInside, DescriptorsFound
  <2> QED
    BY <2>1, <2>2, WayGoesOn
<1>4. CASE Work
  BY <1>4, WorkRoute
<1>5. CASE Seen
  <2>1. UNCHANGED <<img, op, asked>> /\ pc' = "idle" /\ last' = NoAnswer
    BY <1>5 DEF Seen
  <2>2. last'.op \notin {"kopen", "readdir"}
    BY <2>1 DEF NoAnswer
  <2> QED
    BY <2>1, <2>2, Outside
<1>6. CASE Stops
  <2>1. UNCHANGED <<img, op, asked, last, pc, todo, out, text, node>>
    BY <1>6 DEF Stops, vars
  <2> QED
    BY <2>1, Unmoved
<1>7. CASE \E path \in Paths : kopen(path)
  <2>1. MemoryIInv'
    BY NextMemory
  <2> QED
    BY <1>7, <2>1, KopenRoute
<1>8. CASE \E path \in MakePaths, call \in {"create", "mkdir"} : Make(call, path)
  <2>1. MemoryIInv'
    BY NextMemory
  <2> QED
    BY <1>8, <2>1, MakeRoute
<1>9. CASE \E n \in held : Release(n)
  <2>1. UNCHANGED <<img, op, asked, last>> /\ pc' = "idle"
    BY <1>9 DEF Release
  <2> QED
    BY <2>1, Outside
<1>10. CASE \E n \in held, offset \in Offsets, length \in Lengths : read_fs(n, offset, length)
  <2>1. UNCHANGED <<img, op, asked>> /\ pc' = "idle" /\ last'.op = "read"
    BY <1>10 DEF read_fs
  <2> QED
    BY <2>1, Outside
<1>11. CASE \E n \in held, index \in Indices : readdir_fs(n, index)
  BY <1>11, ListsAll
<1> QED
  BY <1>1, <1>2, <1>3, <1>4, <1>5, <1>6, <1>7, <1>8, <1>9, <1>10, <1>11, <1>12 DEF Next
-----------------------------------------------------------------------------
(* The directory create_file_fs and mkdir_fs use *)

\* At the start no call is under way and nothing is answered.
LEMMA InitRoute == Init => RouteInv
<1> SUFFICES ASSUME Init PROVE RouteInv
  OBVIOUS
<1>1. pc = "idle" /\ op = "kopen" /\ last.op = "none"
  BY DEF Init, NoAnswer
<1> QED
  BY <1>1 DEF RouteInv, Asking, OnTheWay, Straying, SearchStaysInside, Answered,
              KopenFollowsTree, ListingIsComplete

\* One separator at the end takes no name away, and makes none.
LEMMA TrimmedNames ==
    ASSUME NEW path \in Seq(Chars)
    PROVE  Names(path) = Names(Trimmed(path))
<1>1. CASE path # <<>> /\ path[Len(path)] = SEP
  <2>1. PICK N \in Nat : N = Len(path)
    BY LenProperties
  <2>2. N # 0
    BY <1>1, <2>1, EmptySeq
  <2>3. PICK k \in 1..Len(path) : k = N
    BY <2>1, <2>2
  <2>4. Names(path) = Names(SubSeq(path, 1, k - 1)) \o Names(SubSeq(path, k + 1, Len(path)))
    BY <1>1, <2>1, <2>3, SplitNames
  <2>5. PICK r : r = SubSeq(path, k + 1, Len(path))
    OBVIOUS
  <2>6. r \in Seq(Chars) /\ Len(r) = 0
    <3>1. k \in 0..Len(path) /\ Len(path) - k = 0
      BY <2>1, <2>3
    <3> QED
      BY <2>5, <3>1, EndOf
  <2>7. Names(r) = <<>>
    <3>1. \A i \in 1..Len(r) : r[i] = SEP
      BY <2>6
    <3> QED
      BY <2>6, <3>1, NoNames
  <2>8. PICK p : p = SubSeq(path, 1, k - 1)
    OBVIOUS
  <2>9. p = Trimmed(path)
    BY <1>1, <2>1, <2>3, <2>8 DEF Trimmed
  <2>10. Names(p) \in Seq(Elements(Chars))
    BY <2>9, TrimmedIs, NamesIn
  <2> QED
    BY <2>4, <2>5, <2>7, <2>8, <2>9, <2>10, ConcatEmptySeq
<1>2. CASE ~(path # <<>> /\ path[Len(path)] = SEP)
  BY <1>2 DEF Trimmed
<1> QED
  BY <1>1, <1>2

\* A name from which nothing is cut off does not end in a separator.
LEMMA TrimmedEnd ==
    ASSUME NEW p \in Seq(Chars), p # <<>>, Trimmed(p) = p
    PROVE  p[Len(p)] # SEP
<1> SUFFICES ASSUME p[Len(p)] = SEP PROVE FALSE
  OBVIOUS
<1>1. PICK N \in Nat : N = Len(p)
  BY LenProperties
<1>2. N # 0
  BY <1>1, EmptySeq
<1>3. PICK k \in 0..Len(p) : k = N - 1
  BY <1>1, <1>2
<1>4. p = SubSeq(p, 1, k)
  BY <1>1, <1>3 DEF Trimmed
<1>5. Len(SubSeq(p, 1, k)) = k
  BY FrontOf
<1> QED
  BY <1>1, <1>3, <1>4, <1>5

\* "." leads to the root.
LEMMA DotResolves ==
    ASSUME img \in Images
    PROVE  Names(DOT) = <<DOT>> /\ Resolve(<<DOT>>) = RootInode
<1>1. Names(DOT) = <<DOT>>
  BY DotIs, OneName
<1>2. PICK e : e = <<>>
  OBVIOUS
<1>3. PICK o : o = <<DOT>>
  OBVIOUS
<1>4. e \in Seq(Elements(Chars)) /\ o \in Seq(Elements(Chars))
  BY <1>2, <1>3, EmptySeq, DotIs, OneIn
<1>5. e \o o = o
  BY <1>2, <1>4, ConcatEmptySeq
<1>6. Resolve(e \o <<DOT>>) = Onward(Resolve(e), DOT)
  BY <1>4, DotIs, ResolveMore
<1>7. Resolve(e) = RootInode
  BY <1>2, ResolveNothing
<1>8. Resolve(o) = Onward(RootInode, DOT)
  BY <1>3, <1>5, <1>6, <1>7
<1>9. Type(RootInode) = "DIR"
  BY VFSAssumption DEF Type
<1>10. RootInode # NONE
  BY DEF RootInode, NONE
<1>11. Onward(RootInode, DOT) = RootInode
  BY <1>9, <1>10 DEF Onward
<1> QED
  BY <1>1, <1>3, <1>8, <1>11

\* What is in front of the last element.
LEMMA AllButLast ==
    ASSUME NEW S, NEW b \in Seq(S), NEW x \in S, NEW c, c = b \o <<x>>
    PROVE  SubSeq(c, 1, Len(c) - 1) = b
<1>1. PICK o \in Seq(S) : o = <<x>>
  BY OneIn
<1>2. Len(o) = 1
  BY <1>1, OneIn
<1>3. PICK N \in Nat : N = Len(b)
  BY LenProperties
<1>4. c \in Seq(S) /\ Len(c) = Len(b) + Len(o) /\ \A i \in 1..Len(b) : c[i] = b[i]
  BY <1>1, ConcatProperties
<1>5. Len(c) - 1 = N /\ N \in 0..Len(c)
  BY <1>2, <1>3, <1>4
<1>6. PICK t : t = SubSeq(c, 1, N)
  OBVIOUS
<1>7. t \in Seq(S) /\ Len(t) = N /\ \A i \in 1..N : t[i] = c[i]
  BY <1>4, <1>5, <1>6, FrontOf
<1>8. t = b
  BY <1>3, <1>4, <1>7, SeqEqual
<1> QED
  BY <1>5, <1>6, <1>8

\* A name without a separator is all of its names, and "." is its directory.
LEMMA ParentOfOne ==
    ASSUME img \in Images, NEW p \in Seq(Chars), p # <<>>, \A i \in 1..Len(p) : p[i] # SEP
    PROVE  LET names == Names(p) IN
           Resolve(Names(DOT)) = Resolve(SubSeq(names, 1, Len(names) - 1))
<1>1. p \in Elements(Chars)
  BY DEF Elements
<1>2. PICK n : n = Names(p)
  OBVIOUS
<1>3. n = <<p>>
  BY <1>1, <1>2, OneName
<1>4. PICK e : e = <<>>
  OBVIOUS
<1>5. e \in Seq(Elements(Chars))
  BY <1>4, EmptySeq
<1>6. n \in Seq(Elements(Chars))
  BY <1>1, <1>3, OneIn
<1>7. n = e \o n
  BY <1>4, <1>6, ConcatEmptySeq
<1>8. n = e \o <<p>>
  BY <1>3, <1>7
<1>9. SubSeq(n, 1, Len(n) - 1) = e
  BY <1>1, <1>5, <1>8, AllButLast
<1>10. Resolve(e) = RootInode
  BY <1>4, ResolveNothing
<1>11. Resolve(Names(DOT)) = RootInode
  BY DotResolves
<1> QED
  BY <1>2, <1>9, <1>10, <1>11

\* Of another name, what is in front of the last separator is all names but one.
LEMMA ParentOfMore ==
    ASSUME NEW p \in Seq(Chars), NEW k, LastSeparator(p, k), p[Len(p)] # SEP
    PROVE  LET names == Names(p) IN
           Names(SubSeq(p, 1, k - 1)) = SubSeq(names, 1, Len(names) - 1)
<1>1. PICK N \in Nat : N = Len(p)
  BY LenProperties
<1>2. k \in 1..N /\ p[k] = SEP /\ \A i \in 1..N : p[i] = SEP => i <= k
  BY <1>1 DEF LastSeparator
<1>3. k < N
  BY <1>1, <1>2
<1>4. PICK w : w = SubSeq(p, k + 1, Len(p))
  OBVIOUS
<1>5. k \in 0..Len(p)
  BY <1>1, <1>2
<1>6. w \in Seq(Chars) /\ Len(w) = Len(p) - k /\ \A i \in 1..(Len(p) - k) : w[i] = p[k + i]
  BY <1>4, <1>5, EndOf
<1>7. w # <<>>
  <2>1. Len(w) # 0
    BY <1>1, <1>2, <1>3, <1>6
  <2> QED
    BY <2>1, EmptySeq
<1>8. \A i \in 1..Len(w) : w[i] # SEP
  <2> SUFFICES ASSUME NEW i \in 1..Len(w) PROVE w[i] # SEP
    OBVIOUS
  <2>1. i \in 1..(N - k) /\ w[i] = p[k + i]
    BY <1>1, <1>6
  <2>2. k + i \in 1..N /\ ~(k + i <= k)
    BY <1>2, <2>1
  <2> QED
    BY <1>2, <2>1, <2>2
<1>9. w \in Elements(Chars)
  BY <1>6, <1>7, <1>8 DEF Elements
<1>10. PICK f : f = SubSeq(p, 1, k - 1)
  OBVIOUS
<1>11. f \in Seq(Chars)
  <2>1. PICK j \in 0..Len(p) : j = k - 1
    BY <1>1, <1>2
  <2> QED
    BY <1>10, <2>1, FrontOf
<1>12. PICK b : b = Names(f)
  OBVIOUS
<1>13. b \in Seq(Elements(Chars))
  BY <1>11, <1>12, NamesIn
<1>14. k \in 1..Len(p) /\ p[k] = SEP
  BY <1>1, <1>2
<1>15. Names(p) = b \o Names(w)
  BY <1>4, <1>10, <1>12, <1>14, SplitNames
<1>16. Names(w) = <<w>>
  BY <1>9, OneName
<1>17. PICK n : n = Names(p)
  OBVIOUS
<1>18. n = b \o <<w>>
  BY <1>15, <1>16, <1>17
<1>19. SubSeq(n, 1, Len(n) - 1) = b
  BY <1>9, <1>13, <1>18, AllButLast
<1> QED
  BY <1>10, <1>12, <1>17, <1>19

\* The names of the directory are those of the new file but the last.
LEMMA ParentNames ==
    ASSUME img \in Images, NEW p \in Seq(Chars), p # <<>>, Trimmed(p) = p
    PROVE  LET names == Names(p) IN
           Resolve(Names(Parent(p))) = Resolve(SubSeq(names, 1, Len(names) - 1))
<1>1. p[Len(p)] # SEP
  BY TrimmedEnd
<1>2. CASE Parent(p) = DOT /\ \A i \in 1..Len(p) : p[i] # SEP
  BY <1>2, ParentOfOne
<1>3. CASE \E k : LastSeparator(p, k) /\ Parent(p) = SubSeq(p, 1, k - 1)
  <2>1. PICK k : LastSeparator(p, k) /\ Parent(p) = SubSeq(p, 1, k - 1)
    BY <1>3
  <2> QED
    BY <1>1, <2>1, ParentOfMore
<1> QED
  BY <1>2, <1>3, ParentIs

\* What create_file_fs and mkdir_fs use is what their path is followed to.
LEMMA ParentUsed == ASSUME MemoryIInv, RouteInv PROVE MakeUsesParent
<1> SUFFICES ASSUME pc = "use", Orderly, Trimmed(Trimmed(asked)) = Trimmed(asked)
             PROVE  LET names == Names(asked) IN
                    Resolve(SubSeq(names, 1, Len(names) - 1)) \in {node.ino, NONE}
  BY DEF MakeUsesParent
<1>1. TypeOK /\ op # "kopen"
  BY DEF MemoryIInv, Phases
<1>2. Reaches(node.ino) /\ Trimmed(asked) # <<>>
  BY <1>1 DEF RouteInv, OnTheWay, Asking
<1>3. asked \in Seq(Chars) /\ img \in Images
  BY <1>1, PathIs DEF TypeOK
<1>4. PICK p : p = Trimmed(asked)
  OBVIOUS
<1>5. p \in Seq(Chars) /\ p # <<>> /\ Trimmed(p) = p
  BY <1>2, <1>3, <1>4, TrimmedIs
<1>6. Names(asked) = Names(p)
  BY <1>3, <1>4, TrimmedNames
<1>7. Source = Parent(p)
  BY <1>1, <1>4 DEF Source
<1>8. PICK a : Leads(a, Names(Source)) /\ Resolve(a) = node.ino
  BY <1>2 DEF Reaches
<1>9. Resolve(Names(Source)) \in {node.ino, NONE}
  BY <1>8 DEF Leads
<1>10. PICK n : n = Names(p)
  OBVIOUS
<1>11. Resolve(Names(Parent(p))) = Resolve(SubSeq(n, 1, Len(n) - 1))
  BY <1>3, <1>5, <1>10, ParentNames
<1> QED
  BY <1>6, <1>7, <1>9, <1>10, <1>11

\* Names lead where the tree of the ramdisk says, in every call and whatever the ramdisk
\* holds: what kopen opens (canonicalize_path, finddir_initrd), the directory that
\* create_file_fs and mkdir_fs use, and what readdir_fs lists.
THEOREM NamesLeadRight == Spec => []NamesFollowTree
<1>1. Init => MemoryIInv /\ RouteInv
  BY InitMemory, InitRoute
<1>2. MemoryIInv /\ RouteInv /\ [Next]_vars => (MemoryIInv /\ RouteInv)'
  BY NextMemory, NextRoute
<1>3. MemoryIInv /\ RouteInv => NamesFollowTree
  BY ParentUsed DEF RouteInv, Straying, Answered, NamesFollowTree
<1> QED
  BY <1>1, <1>2, <1>3, PTL DEF Spec
=============================================================================
