----------------------------- MODULE Heap_proofs -----------------------------
(***************************************************************************)
(* Proofs about Heap, for any numbers of pages, any size of a page, of a   *)
(* header and of a grain, and any sizes asked for.                         *)
(***************************************************************************)
EXTENDS Heap, FiniteSetTheorems, WellFoundedInduction, TLAPS

HeaderType == [length : Nat, next : Nat, last : Nat, free : BOOLEAN]

End(sg, a) == a + HeaderSize + sg[a].length

\* L is the list of headers from heapStart on: each leads to the one at its end,
\* which knows it, and the last one ends where the heap does.
Chain(sg, L, end) ==
    /\ heapStart \in L /\ L \subseteq DOMAIN sg
    /\ \A a \in L : IF sg[a].next = 0 THEN End(sg, a) = end
                    ELSE sg[a].next \in L /\ sg[a].next = End(sg, a) /\ sg[sg[a].next].last = a
    /\ \A a \in L : a # heapStart => \E p \in L : sg[p].next = a

\* Headers, those of the list and stale ones alike, stay within the heap.
Typed(sg, end) ==
    /\ DOMAIN sg \subseteq Nat \ {0}
    /\ \A a \in DOMAIN sg :
          /\ sg[a] \in HeaderType
          /\ End(sg, a) <= end /\ sg[a].last <= end
          /\ sg[a].next = 0 \/ (sg[a].next >= End(sg, a) /\ sg[a].next <= end)
-----------------------------------------------------------------------------
(* Sets of numbers, and functions that are defined step by step *)

\* A set of naturals that is not empty has a least element.
LEMMA LeastElement ==
    ASSUME NEW S \in SUBSET Nat, S # {}
    PROVE  \E x \in S : \A y \in S : x <= y
<1>1. PICK x \in S : \A y \in S : ~ (<<y, x>> \in OpToRel(<, Nat))
  BY NatLessThanWellFounded, WFMin
<1>2. \A y \in S : ~ (y < x)
  BY <1>1 DEF OpToRel
<1> QED
  BY <1>2

\* There is a sequence that starts with b and goes on by G, from 0 to N.
HasIterates(X, b, G, N) ==
    \E at \in [0..N -> X] : at = [n \in 0..N |-> IF n = 0 THEN b ELSE G[at[n - 1]]]

\* Applying a function n times, to a start, is well defined.
LEMMA Iterate ==
    ASSUME NEW X, NEW b \in X, NEW G \in [X -> X], NEW N \in Nat
    PROVE  HasIterates(X, b, G, N)
<1> DEFINE S == {n \in Nat : ~ HasIterates(X, b, G, n)}
<1> SUFFICES ASSUME S # {} PROVE FALSE
  OBVIOUS
<1>1. PICK n \in S : \A y \in S : n <= y
  BY LeastElement
<1>2. CASE n = 0
  <2> DEFINE at == [i \in 0..0 |-> b]
  <2>1. at \in [0..0 -> X] /\ \A i \in 0..0 : i = 0 /\ at[i] = b
    OBVIOUS
  <2> HIDE DEF at
  <2>3. \A i \in 0..0 : at[i] = IF i = 0 THEN b ELSE G[at[i - 1]]
    BY <2>1
  <2>2. at = [i \in 0..0 |-> IF i = 0 THEN b ELSE G[at[i - 1]]]
    BY <2>1, <2>3
  <2> QED
    BY <1>1, <1>2, <2>1, <2>2 DEF HasIterates
<1>3. CASE n # 0
  <2>1. n \in Nat /\ n - 1 \in Nat /\ n - 1 \notin S
    BY <1>1, <1>3
  <2>2. PICK f \in [0..(n - 1) -> X] :
            f = [i \in 0..(n - 1) |-> IF i = 0 THEN b ELSE G[f[i - 1]]]
    BY <2>1 DEF HasIterates
  <2> DEFINE at == [i \in 0..n |-> IF i = n THEN G[f[n - 1]] ELSE f[i]]
  <2>3. f[n - 1] \in X
    <3>1. PICK m \in 0..(n - 1) : m = n - 1
      BY <2>1
    <3>2. f \in [0..(n - 1) -> X]
      BY <2>2
    <3> QED
      BY <3>1, <3>2
  <2>4. at \in [0..n -> X]
    <3>1. f \in [0..(n - 1) -> X] /\ G[f[n - 1]] \in X
      BY <2>2, <2>3
    <3>2. \A i \in 0..n : i # n => i \in 0..(n - 1)
      BY <2>1
    <3> QED
      BY <3>1, <3>2
  <2>5. \A i \in 0..(n - 1) : at[i] = f[i]
    BY <2>1
  <2>6. ASSUME NEW i \in 0..n PROVE at[i] = IF i = 0 THEN b ELSE G[at[i - 1]]
    <3>1. CASE i = n
      BY <1>3, <2>1, <2>5, <3>1
    <3>2. CASE i # n
      <4>1. i \in 0..(n - 1) /\ (i # 0 => i - 1 \in 0..(n - 1))
        BY <2>1, <3>2
      <4>2. f[i] = IF i = 0 THEN b ELSE G[f[i - 1]]
        BY <2>2, <4>1
      <4> HIDE DEF at
      <4> QED
        BY <2>5, <4>1, <4>2
    <3> QED
      BY <3>1, <3>2
  <2> HIDE DEF at
  <2>7. at = [i \in 0..n |-> IF i = 0 THEN b ELSE G[at[i - 1]]]
    BY <2>4, <2>6
  <2> QED
    BY <1>1, <2>4, <2>7 DEF HasIterates
<1> QED
  BY <1>2, <1>3
-----------------------------------------------------------------------------
(* The list of headers *)

\* The headers of the list lie one behind the other, from heapStart on.
LEMMA ChainOrder ==
    ASSUME NEW sg, NEW L, NEW end, Typed(sg, end), Chain(sg, L, end)
    PROVE  /\ L \subseteq Nat /\ \A a \in L : heapStart <= a /\ a < End(sg, a) /\ End(sg, a) <= end
           /\ \A a, c \in L : a < c => End(sg, a) <= c
           /\ \A a, c \in L : sg[a].next = sg[c].next /\ sg[a].next # 0 => a = c
<1>1. /\ heapStart \in Nat \ {0} /\ HeaderSize \in Nat \ {0}
      /\ L \subseteq DOMAIN sg /\ heapStart \in L /\ L \subseteq Nat
  BY HeapAssumption DEF Chain, Typed
<1>2. ASSUME NEW a \in L
      PROVE  /\ a \in Nat \ {0} /\ sg[a].length \in Nat /\ End(sg, a) \in Nat
             /\ a < End(sg, a) /\ End(sg, a) <= end
             /\ sg[a].next # 0 => sg[a].next \in L /\ sg[a].next = End(sg, a) /\ sg[sg[a].next].last = a
  <2>1. a \in Nat \ {0} /\ sg[a] \in HeaderType
        /\ End(sg, a) <= end
    BY <1>1 DEF Typed
  <2>2. sg[a].length \in Nat
    BY <2>1 DEF HeaderType
  <2>3. End(sg, a) \in Nat /\ a < End(sg, a)
    BY <1>1, <2>1, <2>2 DEF End
  <2> QED
    BY <2>1, <2>2, <2>3 DEF Chain
<1>3. ASSUME NEW c \in L, c # heapStart
      PROVE  \E p \in L : sg[p].next = c /\ End(sg, p) = c /\ p < c
  <2>1. PICK p \in L : sg[p].next = c
    BY <1>3 DEF Chain
  <2>2. c # 0
    BY <1>2
  <2> QED
    BY <1>2, <2>1, <2>2
<1>4. \A a \in L : heapStart <= a
  <2> DEFINE S == {a \in L : ~(heapStart <= a)}
  <2> SUFFICES ASSUME S # {} PROVE FALSE
    OBVIOUS
  <2>1. PICK c \in S : \A y \in S : c <= y
    BY <1>1, LeastElement
  <2>2. PICK p \in L : p < c
    BY <1>1, <1>3, <2>1
  <2>3. p \in Nat /\ c \in Nat
    BY <1>1, <2>1, <2>2
  <2> QED
    BY <1>1, <2>1, <2>2, <2>3
<1>5. \A c, a \in L : a < c => End(sg, a) <= c
  <2> DEFINE S == {c \in L : \E a \in L : a < c /\ ~(End(sg, a) <= c)}
  <2> SUFFICES ASSUME S # {} PROVE FALSE
    OBVIOUS
  <2>1. PICK c \in S : \A y \in S : c <= y
    BY <1>1, LeastElement
  <2>2. PICK a \in L : a < c /\ ~(End(sg, a) <= c)
    BY <2>1
  <2>3. c # heapStart
    <3>1. a \in Nat /\ heapStart <= a
      BY <1>1, <1>4
    <3> QED
      BY <1>1, <2>2, <3>1
  <2>4. PICK p \in L : End(sg, p) = c /\ p < c
    BY <1>3, <2>1, <2>3
  <2>5. p \in Nat /\ a \in Nat /\ c \in Nat /\ End(sg, a) \in Nat
    BY <1>2, <2>1
  <2>6. p \notin S /\ a \notin S
    BY <2>1, <2>2, <2>4, <2>5
  <2>7. CASE a < p
    <3>1. End(sg, a) <= p
      BY <2>6, <2>7
    <3> QED
      BY <2>2, <2>4, <2>5, <3>1
  <2>8. CASE p < a
    <3>1. End(sg, p) <= a
      BY <2>6, <2>8
    <3> QED
      BY <2>2, <2>4, <2>5, <3>1
  <2>9. CASE p = a
    BY <2>2, <2>4, <2>5, <2>9
  <2> QED
    BY <2>5, <2>7, <2>8, <2>9
<1>6. ASSUME NEW a \in L, NEW c \in L, sg[a].next = sg[c].next, sg[a].next # 0
      PROVE  a = c
  BY <1>2, <1>6
<1> QED
  BY <1>1, <1>2, <1>4, <1>5, <1>6

\* There are finitely many headers.
LEMMA FiniteHeaders ==
    ASSUME NEW sg, NEW end \in Nat, Typed(sg, end)
    PROVE  IsFiniteSet(DOMAIN sg) /\ Cardinality(DOMAIN sg) \in Nat
<1>1. \A a \in DOMAIN sg : a \in 0..end
  <2> SUFFICES ASSUME NEW a \in DOMAIN sg PROVE a \in 0..end
    OBVIOUS
  <2>1. a \in Nat /\ sg[a] \in HeaderType
        /\ End(sg, a) <= end
    BY DEF Typed
  <2>2. sg[a].length \in Nat /\ HeaderSize \in Nat
    BY <2>1, HeapAssumption DEF HeaderType
  <2> QED
    BY <2>1, <2>2 DEF End
<1>2. IsFiniteSet(0..end)
  BY FS_Interval
<1> QED
  BY <1>1, <1>2, FS_Subset, FS_CardinalityType

\* How many headers of the list stand before address a.
Rank(L, a) == Cardinality({c \in L : c < a})

\* The ranks count the headers of the list from 0 on.
LEMMA RankSteps ==
    ASSUME NEW sg, NEW L, NEW end \in Nat, Typed(sg, end), Chain(sg, L, end)
    PROVE  /\ Rank(L, heapStart) = 0
           /\ \A a \in L : Rank(L, a) \in 0..Cardinality(DOMAIN sg)
           /\ \A a, p \in L : sg[p].next = a => Rank(L, a) = Rank(L, p) + 1
<1>1. /\ L \subseteq Nat /\ \A a \in L : heapStart <= a /\ a < End(sg, a) /\ End(sg, a) <= end
      /\ \A a, c \in L : a < c => End(sg, a) <= c
  BY ChainOrder
<1>2. L \subseteq DOMAIN sg /\ heapStart \in L /\ heapStart \in Nat
  BY <1>1 DEF Chain
<1>3. IsFiniteSet(DOMAIN sg)
  BY FiniteHeaders
<1>4. Cardinality(DOMAIN sg) \in Nat
  BY FiniteHeaders
<1>5. Rank(L, heapStart) = 0
  <2>1. ASSUME NEW c \in L, c < heapStart PROVE FALSE
    <3>1. c \in Nat /\ heapStart <= c
      BY <1>1
    <3> QED
      BY <1>2, <2>1, <3>1
  <2>2. {c \in L : c < heapStart} = {}
    BY <2>1
  <2> QED
    BY <2>2, FS_EmptySet DEF Rank
<1>6. ASSUME NEW a PROVE /\ IsFiniteSet({c \in L : c < a})
                         /\ Rank(L, a) \in 0..Cardinality(DOMAIN sg)
  <2>1. {c \in L : c < a} \subseteq DOMAIN sg
    BY <1>2
  <2>2. /\ IsFiniteSet({c \in L : c < a})
        /\ Cardinality({c \in L : c < a}) <= Cardinality(DOMAIN sg)
    BY <1>3, <2>1, FS_Subset
  <2>3. Cardinality({c \in L : c < a}) \in Nat
    BY <2>2, FS_CardinalityType
  <2> QED
    BY <1>4, <2>2, <2>3 DEF Rank
<1>7. ASSUME NEW a \in L, NEW p \in L, sg[p].next = a
      PROVE  Rank(L, a) = Rank(L, p) + 1
  <2>1. a = End(sg, p) /\ p < a /\ a \in Nat /\ p \in Nat
    <3>1. a # 0
      BY <1>2 DEF Typed
    <3> QED
      BY <1>1, <1>7, <3>1 DEF Chain
  <2>2. ASSUME NEW c \in L PROVE c < a <=> c < p \/ c = p
    <3>1. c \in Nat
      BY <1>1
    <3>2. p < c => a <= c
      BY <1>1, <2>1
    <3> QED
      BY <2>1, <3>1, <3>2
  <2>3. {c \in L : c < a} = {c \in L : c < p} \union {p}
    BY <2>2
  <2>4. p \notin {c \in L : c < p}
    BY <2>1
  <2>5. Cardinality({c \in L : c < p} \union {p}) = Cardinality({c \in L : c < p}) + 1
    BY <1>6, <2>4, FS_AddElement
  <2> QED
    BY <2>3, <2>5 DEF Rank
<1> QED
  BY <1>5, <1>6, <1>7

\* Walking the list as malloc does comes to its headers, to all of them, and to
\* nothing else.
LEMMA ListedIsChain ==
    ASSUME NEW L, NEW end \in Nat, Typed(seg, end), Chain(seg, L, end)
    PROVE  /\ Listed = L
           /\ \A n \in DOMAIN Nth : Nth[n] \in L \/ Nth[n] = 0
           /\ \A a \in L : \E n \in DOMAIN Nth : Nth[n] = a
<1> DEFINE N == Cardinality(DOMAIN seg)
           X == L \union {0}
           G == [x \in X |-> IF x \in DOMAIN seg THEN seg[x].next ELSE 0]
<1>1. /\ N \in Nat /\ heapStart \in L /\ L \subseteq DOMAIN seg /\ 0 \notin DOMAIN seg
      /\ L \subseteq Nat
  <2>1. Cardinality(DOMAIN seg) \in Nat
    BY FiniteHeaders
  <2>2. L \subseteq Nat
    BY ChainOrder
  <2> QED
    BY <2>1, <2>2 DEF Chain, Typed
<1>2. G \in [X -> X]
  <2> SUFFICES ASSUME NEW x \in X PROVE (IF x \in DOMAIN seg THEN seg[x].next ELSE 0) \in X
    OBVIOUS
  <2>1. CASE x \in L
    BY <1>1, <2>1 DEF Chain
  <2>2. CASE x = 0
    BY <1>1, <2>2
  <2> QED
    BY <2>1, <2>2
<1>3. /\ Nth \in [0..N -> X]
      /\ \A n \in 0..N : Nth[n] = IF n = 0 THEN heapStart
                                  ELSE IF Nth[n - 1] \in DOMAIN seg THEN seg[Nth[n - 1]].next ELSE 0
  <2>1. PICK at \in [0..N -> X] : at = [n \in 0..N |-> IF n = 0 THEN heapStart ELSE G[at[n - 1]]]
    <3> HIDE DEF G, X, N
    <3>1. heapStart \in X
      BY <1>1 DEF X
    <3>2. HasIterates(X, heapStart, G, N)
      BY <1>1, <1>2, <3>1, Iterate
    <3> QED
      BY <1>1, <1>2, <3>1, <3>2 DEF HasIterates
  <2>2. ASSUME NEW n \in 0..N, n # 0 PROVE G[at[n - 1]] = IF at[n - 1] \in DOMAIN seg
                                                          THEN seg[at[n - 1]].next ELSE 0
    <3>1. n - 1 \in 0..N
      BY <1>1, <2>2
    <3>2. at[n - 1] \in X
      BY <3>1
    <3> QED
      BY <3>2
  <2> HIDE DEF G, X, N
  <2>3. at = [n \in 0..N |-> IF n = 0 THEN heapStart
                             ELSE IF at[n - 1] \in DOMAIN seg THEN seg[at[n - 1]].next ELSE 0]
    BY <2>1, <2>2
  <2>4. Nth = [n \in 0..N |-> IF n = 0 THEN heapStart
                              ELSE IF Nth[n - 1] \in DOMAIN seg THEN seg[Nth[n - 1]].next ELSE 0]
    BY <2>3 DEF Nth, N
  <2>5. \A n \in 0..N : Nth[n] = IF n = 0 THEN heapStart
                                 ELSE IF Nth[n - 1] \in DOMAIN seg THEN seg[Nth[n - 1]].next ELSE 0
    BY <2>4
  <2>6. ASSUME NEW n \in 0..N, Nth[n] \notin X PROVE FALSE
    <3> DEFINE S == {i \in 0..N : Nth[i] \notin X}
    <3>1. S \in SUBSET Nat /\ S # {}
      BY <1>1, <2>6
    <3>2. PICK i \in S : \A y \in S : i <= y
      BY <3>1, LeastElement
    <3>3. CASE i = 0
      BY <1>1, <2>5, <3>2, <3>3 DEF X
    <3>4. CASE i # 0
      <4>1. i \in 0..N /\ i - 1 \in 0..N /\ i - 1 \notin S
        BY <1>1, <3>2, <3>4
      <4>2. Nth[i - 1] \in X
        BY <4>1
      <4>3. Nth[i] = G[Nth[i - 1]]
        BY <2>5, <3>4, <4>1, <4>2 DEF G
      <4>4. Nth[i] \in X
        BY <1>2, <4>2, <4>3
      <4> QED
        BY <3>2, <4>4
    <3> QED
      BY <3>3, <3>4
  <2> QED
    BY <2>4, <2>5, <2>6
<1>4. DOMAIN Nth = 0..N
  BY <1>3
<1>5. ASSUME NEW a \in L PROVE Rank(L, a) \in 0..N /\ Nth[Rank(L, a)] = a
  <2> DEFINE S == {c \in L : Nth[Rank(L, c)] # c}
  <2>1. \A c \in L : Rank(L, c) \in 0..N
    BY RankSteps
  <2>2. ASSUME S # {} PROVE FALSE
    <3>1. PICK c \in S : \A y \in S : c <= y
      BY <1>1, <2>2, LeastElement
    <3>2. c # heapStart
      <4>1. Rank(L, heapStart) = 0 /\ 0 \in 0..N
        BY <1>1, RankSteps
      <4>2. Nth[0] = heapStart
        BY <1>3, <4>1
      <4> QED
        BY <3>1, <4>1, <4>2
    <3>3. PICK p \in L : seg[p].next = c
      BY <3>1, <3>2 DEF Chain
    <3>4. p < c /\ p \in Nat /\ c \in Nat
      <4>1. c # 0 /\ c = End(seg, p)
        BY <1>1, <3>1, <3>3 DEF Chain
      <4>2. p < End(seg, p)
        BY ChainOrder
      <4> QED
        BY <1>1, <3>1, <4>1, <4>2
    <3>5. p \notin S
      BY <3>1, <3>4
    <3>6. Nth[Rank(L, p)] = p /\ Rank(L, c) = Rank(L, p) + 1
      BY <3>1, <3>3, <3>5, RankSteps
    <3>7. Rank(L, p) \in 0..N /\ Rank(L, c) \in 0..N
      BY <2>1, <3>1
    <3>8. Nth[Rank(L, c)] = seg[p].next
      <4> HIDE DEF N
      <4>1. Rank(L, c) # 0 /\ Rank(L, c) - 1 = Rank(L, p)
        BY <1>1, <3>6, <3>7
      <4> QED
        BY <1>1, <1>3, <3>6, <3>7, <4>1
    <3> QED
      BY <3>1, <3>3, <3>8
  <2> QED
    BY <2>1, <2>2
<1> HIDE DEF N
<1>6. \A n \in DOMAIN Nth : Nth[n] \in L \/ Nth[n] = 0
  BY <1>3, <1>4
<1>7. \A a \in L : \E n \in DOMAIN Nth : Nth[n] = a
  BY <1>4, <1>5
<1>8. Listed = L
  BY <1>1, <1>6, <1>7 DEF Listed, Range
<1> QED
  BY <1>6, <1>7, <1>8

\* What the pointers lead to are headers, those of the list among them.
LEMMA ReachedHoldsChain ==
    ASSUME NEW h, NEW end \in Nat, Typed(h.seg, end)
    PROVE  /\ Reached(h) \subseteq DOMAIN h.seg
           /\ \A L : Chain(h.seg, L, end) => L \subseteq Reached(h)
<1> DEFINE D     == DOMAIN h.seg
           N     == Cardinality(D)
           roots == {heapStart, h.last} \union {a \in D : ~h.seg[a].free}
           X     == SUBSET D
           More(K) == K \union (D \intersect UNION {{h.seg[a].next, h.seg[a].last} : a \in K})
           G     == [K \in X |-> More(K)]
<1>1. N \in Nat
  BY FiniteHeaders
<1>2. G \in [X -> X] /\ roots \intersect D \in X
  OBVIOUS
<1>3. PICK at \in [0..N -> X] : at = [n \in 0..N |-> IF n = 0 THEN roots \intersect D ELSE G[at[n - 1]]]
  <2> HIDE DEF G, X, N, D, roots
  <2>1. HasIterates(X, roots \intersect D, G, N)
    BY <1>1, <1>2, Iterate
  <2> QED
    BY <2>1 DEF HasIterates
<1>4. ASSUME NEW n \in 0..N, n # 0 PROVE G[at[n - 1]] = More(at[n - 1])
  <2>1. n - 1 \in 0..N
    BY <1>1, <1>4
  <2>2. at[n - 1] \in X
    BY <2>1
  <2> QED
    BY <2>2
<1>5. at = [n \in 0..N |-> IF n = 0 THEN roots \intersect D ELSE More(at[n - 1])]
  <2> HIDE DEF G, X, N, D, roots, More
  <2> QED
    BY <1>3, <1>4
<1>6. PICK reach : /\ reach = [n \in 0..N |-> IF n = 0 THEN roots \intersect D ELSE More(reach[n - 1])]
                   /\ Reached(h) = reach[N]
  BY <1>5 DEF Reached
<1>7. /\ reach[0] = roots \intersect D
      /\ \A n \in 0..N : n # 0 => reach[n] = More(reach[n - 1])
  <2> HIDE DEF N, D, roots, More
  <2>1. reach = [n \in 0..N |-> IF n = 0 THEN roots \intersect D ELSE More(reach[n - 1])]
    BY <1>6
  <2>2. \A n \in 0..N : reach[n] = IF n = 0 THEN roots \intersect D ELSE More(reach[n - 1])
    BY <2>1
  <2>3. 0 \in 0..N
    BY <1>1
  <2> QED
    BY <2>2, <2>3
<1>8. \A n \in 0..N : reach[n] \subseteq D
  <2> DEFINE S == {n \in 0..N : ~(reach[n] \subseteq D)}
  <2> SUFFICES ASSUME S # {} PROVE FALSE
    OBVIOUS
  <2>0. S \in SUBSET Nat
    BY <1>1
  <2>1. PICK n \in S : \A y \in S : n <= y
    <3> HIDE DEF S
    <3> QED
      BY <2>0, LeastElement
  <2>2. n # 0
    BY <1>7, <2>1
  <2>3. n - 1 \in 0..N /\ n - 1 \notin S
    <3> HIDE DEF D
    <3> QED
      BY <1>1, <2>1, <2>2
  <2>4. reach[n - 1] \subseteq D
    BY <2>3
  <2>5. reach[n] = More(reach[n - 1])
    BY <1>7, <2>1, <2>2
  <2> QED
    BY <2>1, <2>4, <2>5
<1>9. ASSUME NEW L, Chain(h.seg, L, end) PROVE L \subseteq reach[N]
  <2>1. /\ heapStart \in L /\ L \subseteq D /\ L \subseteq Nat /\ 0 \notin D
        /\ Rank(L, heapStart) = 0 /\ \A a \in L : Rank(L, a) \in 0..N
        /\ \A a, p \in L : h.seg[p].next = a => Rank(L, a) = Rank(L, p) + 1
    <3>1. 0 \notin D /\ heapStart \in L /\ L \subseteq D
      BY <1>9 DEF Chain, Typed
    <3>2. L \subseteq Nat
      BY <1>9, ChainOrder
    <3> QED
      BY <1>9, <3>1, <3>2, RankSteps
  <2> DEFINE S == {n \in 0..N : \E a \in L : Rank(L, a) <= n /\ a \notin reach[n]}
  <2>2. ASSUME S # {} PROVE FALSE
    <3>0. S \in SUBSET Nat
      BY <1>1
    <3>1. PICK n \in S : \A y \in S : n <= y
      <4> HIDE DEF S
      <4> QED
        BY <2>2, <3>0, LeastElement
    <3> HIDE DEF N, D, roots, More
    <3>2. PICK a \in L : Rank(L, a) <= n /\ a \notin reach[n]
      BY <3>1
    <3>3. CASE a = heapStart /\ n = 0
      BY <1>7, <2>1, <3>2, <3>3 DEF roots
    <3>4. CASE n # 0
      <4>1. n \in 0..N /\ n - 1 \in 0..N /\ n - 1 \notin S
        BY <1>1, <3>1, <3>4
      <4>2. reach[n] = More(reach[n - 1]) /\ a \notin reach[n - 1]
        BY <1>7, <3>2, <3>4, <4>1 DEF More
      <4>3. Rank(L, a) = n
        <5>1. ~(Rank(L, a) <= n - 1)
          BY <4>1, <4>2
        <5> QED
          BY <1>1, <2>1, <3>2, <4>1, <5>1
      <4>4. PICK p \in L : h.seg[p].next = a
        BY <1>9, <2>1, <3>2, <3>4, <4>3 DEF Chain
      <4>5. Rank(L, p) <= n - 1
        BY <1>1, <2>1, <4>1, <4>3, <4>4
      <4>6. p \in reach[n - 1]
        BY <4>1, <4>5
      <4> QED
        BY <2>1, <3>2, <4>2, <4>4, <4>6 DEF More
    <3>5. CASE n = 0 /\ a # heapStart
      <4>1. PICK p \in L : h.seg[p].next = a
        BY <1>9, <3>5 DEF Chain
      <4>2. Rank(L, a) = Rank(L, p) + 1 /\ Rank(L, p) \in 0..N
        BY <2>1, <4>1
      <4> QED
        BY <1>1, <3>2, <3>5, <4>2
    <3> QED
      BY <3>3, <3>4, <3>5
  <2>3. N \in 0..N /\ \A a \in L : Rank(L, a) <= N
    BY <1>1, <2>1
  <2> HIDE DEF N
  <2> QED
    BY <2>2, <2>3
<1> HIDE DEF N, D
<1>10. N \in 0..N
  BY <1>1
<1> QED
  BY <1>6, <1>8, <1>9, <1>10 DEF D
-----------------------------------------------------------------------------
(* Headers keep their type, whatever the list looks like *)

H(g, l, c) == [seg |-> g, last |-> l, corrupt |-> c]

\* The heap after a pointer to a header that is gone was followed.
Lost(g, l) == [seg |-> g, last |-> l, corrupt |-> TRUE]

With(h, g) == [h EXCEPT !.seg = g]

\* The fields of a heap, and changing one.
LEMMA HeapFields ==
    ASSUME NEW g, NEW l, NEW c
    PROVE  /\ H(g, l, c).seg = g /\ H(g, l, c).last = l /\ H(g, l, c).corrupt = c
           /\ \A f : With(H(g, l, c), f) = H(f, l, c)
           /\ Wild(H(g, l, c)) = Lost(g, l)
           /\ Lost(g, l).seg = g /\ Lost(g, l).last = l /\ Lost(g, l).corrupt
<1>1. H(g, l, c).seg = g /\ H(g, l, c).last = l /\ H(g, l, c).corrupt = c
  BY DEF H
<1>2. ASSUME NEW f PROVE With(H(g, l, c), f) = H(f, l, c)
  BY DEF H, With
<1>3. Wild(H(g, l, c)) = Lost(g, l)
  <2>1. PICK d : d = TRUE
    OBVIOUS
  <2>2. [H(g, l, c) EXCEPT !.corrupt = d] = H(g, l, d)
    BY DEF H
  <2>3. Wild(H(g, l, c)) = [H(g, l, c) EXCEPT !.corrupt = d] /\ H(g, l, d) = Lost(g, l)
    BY <2>1 DEF Wild, Lost, H
  <2> QED
    BY <2>2, <2>3
<1>4. Lost(g, l).seg = g /\ Lost(g, l).last = l /\ Lost(g, l).corrupt
  BY DEF Lost
<1> QED
  BY <1>1, <1>2, <1>3, <1>4

\* The header q has these fields, and is as free as r.
Is(q, length, next, last, r) ==
    q \in HeaderType /\ q.length = length /\ q.next = next /\ q.last = last /\ q.free = r.free

\* A header of which some fields change.
LEMMA HeaderFields ==
    ASSUME NEW r \in HeaderType, NEW length \in Nat, NEW next \in Nat, NEW last \in Nat
    PROVE  /\ Is(r, r.length, r.next, r.last, r)
           /\ Is([r EXCEPT !.length = length, !.next = next], length, next, r.last, r)
           /\ Is([r EXCEPT !.length = length, !.next = next, !.last = last], length, next, last, r)
           /\ Is([r EXCEPT !.last = last], r.length, r.next, last, r)
           /\ Is([r EXCEPT !.next = next], r.length, next, r.last, r)
BY DEF HeaderType, Is

\* What Typed says of one header.
LEMMA TypedHeader ==
    ASSUME NEW g, NEW end, Typed(g, end), NEW a \in DOMAIN g
    PROVE  /\ a \in Nat \ {0} /\ g[a] \in HeaderType
           /\ g[a].length \in Nat /\ g[a].next \in Nat /\ g[a].last \in Nat /\ g[a].free \in BOOLEAN
           /\ End(g, a) \in Nat /\ a < End(g, a) /\ End(g, a) <= end /\ g[a].last <= end
           /\ g[a].next # 0 => g[a].next >= End(g, a) /\ g[a].next <= end
<1>1. /\ a \in Nat \ {0} /\ g[a] \in HeaderType /\ End(g, a) <= end /\ g[a].last <= end
      /\ g[a].next = 0 \/ (g[a].next >= End(g, a) /\ g[a].next <= end)
  BY DEF Typed
<1>2. g[a].length \in Nat /\ g[a].next \in Nat /\ g[a].last \in Nat /\ g[a].free \in BOOLEAN
  BY <1>1 DEF HeaderType
<1>3. HeaderSize \in Nat \ {0}
  BY HeapAssumption
<1> QED
  BY <1>1, <1>2, <1>3 DEF End

\* A heap that grows keeps its headers typed.
LEMMA TypedLonger ==
    ASSUME NEW g, NEW end \in Nat, Typed(g, end), NEW more \in Nat
    PROVE  Typed(g, end + more)
<1>1. ASSUME NEW a \in DOMAIN g
      PROVE  /\ a \in Nat \ {0} /\ g[a] \in HeaderType /\ End(g, a) <= end + more /\ g[a].last <= end + more
             /\ g[a].next = 0 \/ (g[a].next >= End(g, a) /\ g[a].next <= end + more)
  BY TypedHeader
<1> QED
  BY <1>1 DEF Typed

\* The header after s is free, and so is to be absorbed.
Absorbs(g, s) ==
    /\ g[s].next # 0 /\ g[s].next \in DOMAIN g /\ g[g[s].next].free
    /\ g[g[s].next].next = 0 \/ g[g[s].next].next \in DOMAIN g

\* The headers after s has absorbed the one that follows it.
Joined(g, s) ==
    [a \in DOMAIN g |->
        IF a = s THEN [g[s] EXCEPT !.length = @ + g[g[s].next].length + HeaderSize,
                                   !.next = g[g[s].next].next]
        ELSE IF a = g[g[s].next].next THEN [g[a] EXCEPT !.last = s]
        ELSE g[a]]

\* CombineForward leaves the headers as they are, absorbs the next one, or
\* follows a pointer to a header that is gone.
LEMMA ForwardCases ==
    ASSUME NEW g, NEW l, NEW c, NEW end \in Nat, Typed(g, end), NEW s \in DOMAIN g
    PROVE  \/ /\ g[s].next = 0 \/ (g[s].next \in DOMAIN g /\ ~g[g[s].next].free)
              /\ CombineForward(H(g, l, c), s) = H(g, l, c)
           \/ Absorbs(g, s) /\ CombineForward(H(g, l, c), s) = H(Joined(g, s), l, c)
           \/ /\ g[s].next # 0 /\ ~(g[s].next \in DOMAIN g /\ ~g[g[s].next].free) /\ ~Absorbs(g, s)
              /\ CombineForward(H(g, l, c), s) = Lost(g, l)
<1> DEFINE n  == g[s].next
           nn == g[n].next
           j  == [g EXCEPT ![s].length = @ + g[n].length + HeaderSize, ![s].next = nn]
<1>1. PICK h : h = H(g, l, c)
  OBVIOUS
<1>2. /\ h.seg = g /\ Wild(h) = Lost(g, l)
      /\ \A f : With(h, f) = H(f, l, c)
  BY <1>1, HeapFields
<1>3. CombineForward(h, s) =
        IF n = 0 THEN h
        ELSE IF n \notin DOMAIN g THEN Wild(h)
        ELSE IF ~g[n].free THEN h
        ELSE IF nn = 0 THEN With(h, j)
        ELSE IF nn \notin DOMAIN g THEN Wild(h)
        ELSE With(h, [j EXCEPT ![nn].last = s])
  BY <1>2 DEF CombineForward, Intact, With
<1>4. ASSUME n # 0, n \in DOMAIN g
      PROVE  nn # s
  <2>1. n >= End(g, s) /\ (nn = 0 \/ nn >= End(g, n)) /\ s \in Nat \ {0} /\ n \in Nat
        /\ nn \in Nat /\ g[s].length \in Nat /\ g[n].length \in Nat
    BY <1>4, TypedHeader
  <2> QED
    BY <2>1, HeapAssumption DEF End
<1>5. ASSUME nn = 0 PROVE j = Joined(g, s)
  BY <1>5 DEF Joined, Typed
<1>6. ASSUME n # 0, n \in DOMAIN g, nn \in DOMAIN g PROVE [j EXCEPT ![nn].last = s] = Joined(g, s)
  BY <1>4, <1>6 DEF Joined
<1> HIDE DEF j
<1> QED
  BY <1>1, <1>2, <1>3, <1>5, <1>6 DEF Absorbs

\* Absorbing the next header leaves them typed.
LEMMA JoinedTyped ==
    ASSUME NEW g, NEW end \in Nat, Typed(g, end), NEW s \in DOMAIN g, Absorbs(g, s)
    PROVE  Typed(Joined(g, s), end) /\ DOMAIN Joined(g, s) = DOMAIN g
<1> DEFINE n  == g[s].next
           nn == g[n].next
           j  == Joined(g, s)
<1>1. DOMAIN j = DOMAIN g
  BY DEF Joined
<1>2. /\ n \in DOMAIN g /\ n # 0 /\ s \in Nat /\ n \in Nat /\ nn \in Nat
      /\ g[s].length \in Nat /\ g[n].length \in Nat /\ n >= End(g, s) /\ End(g, n) <= end
      /\ nn = 0 \/ (nn >= End(g, n) /\ nn <= end)
      /\ g[s].last \in Nat /\ g[s].last <= end /\ g[s].free \in BOOLEAN
  BY TypedHeader DEF Absorbs
<1>3. HeaderSize \in Nat \ {0}
  BY HeapAssumption
<1>4. ASSUME NEW a \in DOMAIN g
      PROVE  /\ j[a] \in HeaderType
             /\ End(j, a) <= end /\ j[a].last <= end
             /\ j[a].next = 0 \/ (j[a].next >= End(j, a) /\ j[a].next <= end)
  <2>1. CASE a = s
    <3>1. /\ j[a] = [g[s] EXCEPT !.length = g[s].length + g[n].length + HeaderSize, !.next = nn]
          /\ g[s] \in HeaderType
      BY <2>1 DEF Joined, Typed
    <3>2. /\ j[a].length = g[s].length + g[n].length + HeaderSize /\ j[a].next = nn
          /\ j[a].last = g[s].last
          /\ j[a] \in HeaderType
      <4>1. PICK sum \in Nat : sum = g[s].length + g[n].length + HeaderSize
        BY <1>2, <1>3
      <4> HIDE DEF n, nn, j
      <4>2. j[a] = [g[s] EXCEPT !.length = sum, !.next = nn]
        BY <3>1, <4>1
      <4>3. Is([g[s] EXCEPT !.length = sum, !.next = nn], sum, nn, g[s].last, g[s])
        BY <1>2, <3>1, <4>1, HeaderFields
      <4> QED
        BY <4>1, <4>2, <4>3 DEF Is
    <3>3. End(j, a) <= End(g, n)
      BY <1>2, <1>3, <2>1, <3>2 DEF End
    <3>4. End(j, a) \in Nat /\ End(g, n) \in Nat
      BY <1>2, <1>3, <2>1, <3>2 DEF End
    <3> HIDE DEF n, nn, j
    <3> QED
      BY <1>2, <3>2, <3>3, <3>4
  <2>2. CASE a # s
    <3>1. /\ g[a] \in HeaderType
          /\ End(g, a) <= end /\ g[a].last <= end
          /\ g[a].next = 0 \/ (g[a].next >= End(g, a) /\ g[a].next <= end)
      BY DEF Typed
    <3>2. j[a] = g[a] \/ j[a] = [g[a] EXCEPT !.last = s]
      BY <2>2 DEF Joined
    <3>3. s <= end
      BY <1>2, <1>3 DEF End, Typed
    <3>4. /\ j[a].length = g[a].length /\ j[a].next = g[a].next
          /\ j[a].last <= end /\ j[a] \in HeaderType
      <4> HIDE DEF j
      <4>1. \/ Is(j[a], g[a].length, g[a].next, g[a].last, g[a])
            \/ Is(j[a], g[a].length, g[a].next, s, g[a])
        <5>1. /\ g[a] \in HeaderType /\ s \in Nat
              /\ g[a].length \in Nat /\ g[a].next \in Nat /\ g[a].last \in Nat
          BY <1>2, <3>1, TypedHeader
        <5>2. CASE j[a] = g[a]
          BY <5>1, <5>2, HeaderFields
        <5>3. CASE j[a] = [g[a] EXCEPT !.last = s]
          BY <5>1, <5>3, HeaderFields
        <5> QED
          BY <3>2, <5>2, <5>3
      <4> QED
        BY <3>1, <3>3, <4>1 DEF Is
    <3>5. End(j, a) = End(g, a)
      BY <3>4 DEF End
    <3> HIDE DEF n, nn, j
    <3> QED
      BY <3>1, <3>4, <3>5
  <2> QED
    BY <2>1, <2>2
<1> HIDE DEF n, nn, j
<1>5. Typed(j, end)
  BY <1>1, <1>4 DEF Typed
<1> QED
  BY <1>1, <1>5 DEF j

\* The headers that one written at new leaves intact.
Clear(g, new) == {a \in DOMAIN g : a + HeaderSize <= new \/ new + HeaderSize <= a}

\* The headers after segment s was cut behind size bytes.
Cut(g, l, s, size) ==
    LET new == s + size + HeaderSize IN
    [a \in Clear(g, new) \union {new} |->
        IF a = new THEN Header(g[s].length - size - HeaderSize, g[s].next, s, g[s].free)
        ELSE IF a = s THEN [g[s] EXCEPT !.length = size, !.next = new,
                                        !.last = IF l = s THEN new ELSE @]
        ELSE IF a = g[s].next THEN [g[a] EXCEPT !.last = new]
        ELSE g[a]]

\* Split cuts, leaves the segment whole, or follows a pointer to nowhere.
LEMMA SplitCases ==
    ASSUME NEW g, NEW l, NEW c, NEW s, NEW size
    PROVE  \/ /\ g[s].length - size - HeaderSize < Grain
              /\ Split(H(g, l, c), s, size) = H(g, l, c)
           \/ /\ ~(g[s].length - size - HeaderSize < Grain)
              /\ g[s].next = 0 \/ g[s].next \in DOMAIN g
              /\ Split(H(g, l, c), s, size) = H(Cut(g, l, s, size), l, c)
           \/ /\ g[s].next # 0 /\ g[s].next \notin DOMAIN g
              /\ Split(H(g, l, c), s, size) = Lost(g, l)
<1>1. PICK h : h = H(g, l, c)
  OBVIOUS
<1>2. /\ h.seg = g /\ h.last = l /\ Wild(h) = Lost(g, l)
      /\ \A f : With(h, f) = H(f, l, c)
  BY <1>1, HeapFields
<1>3. Split(h, s, size) =
        IF g[s].length - size - HeaderSize < Grain THEN h
        ELSE IF g[s].next # 0 /\ g[s].next \notin DOMAIN g THEN Wild(h)
        ELSE With(h, Cut(g, l, s, size))
  BY <1>2 DEF Split, Intact, With, Cut, Cleared, Clear
<1> QED
  BY <1>1, <1>2, <1>3

\* Cutting a segment leaves the headers typed.
LEMMA CutTyped ==
    ASSUME NEW g, NEW l, NEW end \in Nat, Typed(g, end), NEW s \in DOMAIN g, NEW size \in Nat,
           ~(g[s].length - size - HeaderSize < Grain)
    PROVE  Typed(Cut(g, l, s, size), end)
<1> DEFINE new  == s + size + HeaderSize
           rest == g[s].length - size - HeaderSize
           k    == Cut(g, l, s, size)
<1>1. DOMAIN k = Clear(g, new) \union {new} /\ Clear(g, new) \subseteq DOMAIN g
  BY DEF Cut, Clear
<1>2. /\ HeaderSize \in Nat \ {0} /\ Grain \in Nat \ {0} /\ s \in Nat \ {0} /\ g[s].length \in Nat
      /\ g[s].next \in Nat /\ g[s].last \in Nat /\ g[s].last <= end /\ g[s].free \in BOOLEAN
      /\ g[s].next # 0 => g[s].next >= End(g, s) /\ g[s].next <= end
      /\ End(g, s) <= end /\ g[s] \in HeaderType
  BY HeapAssumption, TypedHeader
<1>3. /\ rest \in Nat /\ new \in Nat \ {0} /\ new # s /\ End(g, s) = new + HeaderSize + rest
      /\ new <= end /\ size \in Nat
  BY <1>2 DEF End
<1>4. ASSUME NEW a \in DOMAIN k
      PROVE  /\ a \in Nat \ {0} /\ k[a] \in HeaderType
             /\ End(k, a) <= end /\ k[a].last <= end
             /\ k[a].next = 0 \/ (k[a].next >= End(k, a) /\ k[a].next <= end)
  <2>1. CASE a = new
    <3>1. k[a] = Header(rest, g[s].next, s, g[s].free)
      BY <2>1 DEF Cut
    <3> HIDE DEF rest, new, k
    <3>2. /\ k[a].length = rest /\ k[a].next = g[s].next /\ k[a].last = s /\ k[a] \in HeaderType
      BY <1>2, <1>3, <3>1 DEF Header, HeaderType
    <3>3. s <= end
      BY <1>2 DEF End
    <3>4. End(k, a) = End(g, s)
      BY <1>2, <1>3, <2>1, <3>2 DEF End
    <3> QED
      BY <1>2, <1>3, <2>1, <3>2, <3>3, <3>4
  <2>2. CASE a = s
    <3>1. PICK last : last = IF l = s THEN new ELSE g[s].last
      OBVIOUS
    <3>2. k[a] = [g[s] EXCEPT !.length = size, !.next = new, !.last = last]
      BY <1>1, <1>3, <2>2, <3>1 DEF Cut
    <3> HIDE DEF rest, new, k
    <3>3. last \in Nat /\ last <= end
      BY <1>2, <1>3, <3>1
    <3>4. Is([g[s] EXCEPT !.length = size, !.next = new, !.last = last], size, new, last, g[s])
      BY <1>2, <1>3, <3>3, HeaderFields
    <3>5. k[a].length = size /\ k[a].next = new /\ k[a].last = last /\ k[a] \in HeaderType
      BY <3>2, <3>4 DEF Is
    <3>6. End(k, a) = new
      BY <1>2, <1>3, <2>2, <3>5 DEF End, new
    <3> QED
      BY <1>2, <1>3, <2>2, <3>3, <3>5, <3>6
  <2>3. CASE a # new /\ a # s
    <3>1. a \in DOMAIN g
      BY <1>1, <2>3
    <3>2. /\ a \in Nat \ {0} /\ g[a] \in HeaderType /\ g[a].length \in Nat /\ g[a].next \in Nat
          /\ g[a].last \in Nat /\ End(g, a) <= end /\ g[a].last <= end
          /\ g[a].next # 0 => g[a].next >= End(g, a) /\ g[a].next <= end
      BY <3>1, TypedHeader
    <3>3. k[a] = g[a] \/ k[a] = [g[a] EXCEPT !.last = new]
      BY <1>1, <2>3 DEF Cut
    <3> HIDE DEF rest, new, k
    <3>4. Is([g[a] EXCEPT !.last = new], g[a].length, g[a].next, new, g[a])
      BY <1>3, <3>2, HeaderFields
    <3>5. k[a].length = g[a].length /\ k[a].next = g[a].next /\ k[a].last <= end /\ k[a] \in HeaderType
      BY <1>3, <3>2, <3>3, <3>4 DEF Is
    <3>6. End(k, a) = End(g, a)
      BY <3>5 DEF End
    <3> QED
      BY <3>2, <3>5, <3>6
  <2> QED
    BY <2>1, <2>2, <2>3
<1> HIDE DEF k
<1>5. Typed(k, end)
  BY <1>4 DEF Typed
<1> QED
  BY <1>5 DEF k

\* Forgetting headers leaves the others typed.
LEMMA RestrictTyped ==
    ASSUME NEW g, NEW end \in Nat, Typed(g, end), NEW S \in SUBSET DOMAIN g
    PROVE  Typed(Restrict(g, S), end)
BY DEF Typed, Restrict, End

Freed(g, s) == [g EXCEPT ![s].free = TRUE]
Taken(g, s) == [g EXCEPT ![s].free = FALSE]

\* k is g with the flag of header s set to b.
Marked(k, g, s, b, end) ==
    /\ Typed(k, end) /\ DOMAIN k = DOMAIN g
    /\ \A a \in DOMAIN g :
          /\ k[a].length = g[a].length /\ k[a].next = g[a].next /\ k[a].last = g[a].last
          /\ k[a].free = IF a = s THEN b ELSE g[a].free

\* So does marking one free or in use.
LEMMA MarkTyped ==
    ASSUME NEW g, NEW end \in Nat, Typed(g, end), NEW s
    PROVE  /\ Typed(Freed(g, s), end) /\ DOMAIN Freed(g, s) = DOMAIN g
           /\ Typed(Taken(g, s), end) /\ DOMAIN Taken(g, s) = DOMAIN g
           /\ \A a \in DOMAIN g :
                /\ Freed(g, s)[a].length = g[a].length /\ Freed(g, s)[a].next = g[a].next
                /\ Freed(g, s)[a].last = g[a].last /\ (Freed(g, s)[a].free <=> a = s \/ g[a].free)
                /\ Taken(g, s)[a].length = g[a].length /\ Taken(g, s)[a].next = g[a].next
                /\ Taken(g, s)[a].last = g[a].last /\ (Taken(g, s)[a].free <=> a # s /\ g[a].free)
<1>1. ASSUME NEW b \in BOOLEAN, NEW k, k = [g EXCEPT ![s].free = b]
      PROVE  Marked(k, g, s, b, end)
  <2>1. DOMAIN k = DOMAIN g
    BY <1>1
  <2>2. ASSUME NEW a \in DOMAIN g
        PROVE  /\ k[a].length = g[a].length /\ k[a].next = g[a].next /\ k[a].last = g[a].last
               /\ k[a].free = (IF a = s THEN b ELSE g[a].free) /\ k[a] \in HeaderType
    <3>1. g[a] \in HeaderType
      BY TypedHeader
    <3>2. k[a] = IF a = s THEN [g[a] EXCEPT !.free = b] ELSE g[a]
      BY <1>1
    <3>3. CASE a = s
      BY <3>1, <3>2, <3>3 DEF HeaderType
    <3>4. CASE a # s
      BY <3>1, <3>2, <3>4
    <3> QED
      BY <3>3, <3>4
  <2>3. Typed(k, end)
    BY <2>1, <2>2 DEF Typed, End
  <2> QED
    BY <2>1, <2>2, <2>3 DEF Marked
<1>2. \A a \in DOMAIN g : g[a].free \in BOOLEAN
  BY TypedHeader
<1>3. PICK b \in BOOLEAN : b = TRUE
  OBVIOUS
<1>4. PICK d \in BOOLEAN : d = FALSE
  OBVIOUS
<1>5. Freed(g, s) = [g EXCEPT ![s].free = b]
  BY <1>3 DEF Freed
<1>6. Taken(g, s) = [g EXCEPT ![s].free = d]
  BY <1>4 DEF Taken
<1>7. Marked(Freed(g, s), g, s, b, end)
  BY <1>1, <1>5
<1>8. Marked(Taken(g, s), g, s, d, end)
  BY <1>1, <1>6
<1> QED
  BY <1>2, <1>3, <1>4, <1>7, <1>8 DEF Marked

\* A heap whose headers are typed, with l as LastHdr.
TypedHeap(h, l, end) ==
    \E g : \E c \in BOOLEAN : h = H(g, l, c) /\ Typed(g, end)

\* A heap is typed whether or not a pointer was followed to nowhere.
LEMMA TypedHeaps ==
    ASSUME NEW g, NEW l, NEW c \in BOOLEAN, NEW end \in Nat, Typed(g, end)
    PROVE  TypedHeap(H(g, l, c), l, end) /\ TypedHeap(Lost(g, l), l, end)
<1>1. PICK d \in BOOLEAN : d = TRUE
  OBVIOUS
<1>2. Lost(g, l) = H(g, l, d)
  BY <1>1 DEF Lost, H
<1> QED
  BY <1>2 DEF TypedHeap

LEMMA ForwardTyped ==
    ASSUME NEW g, NEW l, NEW c \in BOOLEAN, NEW end \in Nat, Typed(g, end), NEW s \in DOMAIN g
    PROVE  TypedHeap(CombineForward(H(g, l, c), s), l, end)
BY ForwardCases, JoinedTyped, TypedHeaps

\* CombineBackward absorbs into the one before, if that is free.
LEMMA BackwardCases ==
    ASSUME NEW g, NEW l, NEW c, NEW s
    PROVE  CombineBackward(H(g, l, c), s) =
             IF g[s].last = 0 THEN H(g, l, c)
             ELSE IF g[s].last \notin DOMAIN g THEN Lost(g, l)
             ELSE IF g[g[s].last].free THEN CombineForward(H(g, l, c), g[s].last)
             ELSE H(g, l, c)
<1>1. PICK h : h = H(g, l, c)
  OBVIOUS
<1>2. h.seg = g /\ Wild(h) = Lost(g, l)
  BY <1>1, HeapFields
<1>3. CombineBackward(h, s) =
             IF g[s].last = 0 THEN h
             ELSE IF g[s].last \notin DOMAIN g THEN Lost(g, l)
             ELSE IF g[g[s].last].free THEN CombineForward(h, g[s].last)
             ELSE h
  BY <1>2 DEF CombineBackward, Intact
<1> QED
  BY <1>1, <1>3

LEMMA BackwardTyped ==
    ASSUME NEW g, NEW l, NEW c \in BOOLEAN, NEW end \in Nat, Typed(g, end), NEW s
    PROVE  TypedHeap(CombineBackward(H(g, l, c), s), l, end)
BY BackwardCases, ForwardTyped, TypedHeaps

\* free marks the header free and combines it with its neighbours.
LEMMA FreeCases ==
    ASSUME NEW g, NEW l, NEW c, NEW payload
    PROVE  LET s == payload - HeaderSize
               f == CombineForward(H(Freed(g, s), l, c), s)
           IN free(H(g, l, c), payload) =
                IF s \notin DOMAIN g THEN Lost(g, l)
                ELSE IF f.corrupt THEN f ELSE CombineBackward(f, s)
<1> DEFINE s == payload - HeaderSize
<1>1. PICK h : h = H(g, l, c)
  OBVIOUS
<1>2. h.seg = g /\ Wild(h) = Lost(g, l) /\ With(h, Freed(g, s)) = H(Freed(g, s), l, c)
  BY <1>1, HeapFields
<1>3. With(h, Freed(g, s)) = [h EXCEPT !.seg = [@ EXCEPT ![s].free = TRUE]]
  BY <1>2 DEF With, Freed
<1>4. free(h, payload) =
        IF s \notin DOMAIN g THEN Wild(h)
        ELSE LET f == CombineForward(With(h, Freed(g, s)), s)
             IN IF f.corrupt THEN f ELSE CombineBackward(f, s)
  BY <1>2, <1>3 DEF free, Intact
<1> QED
  BY <1>1, <1>2, <1>4

LEMMA FreeTyped ==
    ASSUME NEW g, NEW l, NEW c \in BOOLEAN, NEW end \in Nat, Typed(g, end), NEW payload
    PROVE  TypedHeap(free(H(g, l, c), payload), l, end)
<1> DEFINE s == payload - HeaderSize
           f == CombineForward(H(Freed(g, s), l, c), s)
<1>1. CASE s \notin DOMAIN g
  BY <1>1, FreeCases, TypedHeaps
<1>2. CASE s \in DOMAIN g
  <2>1. Typed(Freed(g, s), end) /\ s \in DOMAIN Freed(g, s)
    BY <1>2, MarkTyped
  <2>2. TypedHeap(f, l, end)
    BY <2>1, ForwardTyped
  <2>3. TypedHeap(CombineBackward(f, s), l, end)
    BY <2>2, BackwardTyped DEF TypedHeap
  <2>4. free(H(g, l, c), payload) = IF f.corrupt THEN f ELSE CombineBackward(f, s)
    BY <1>2, FreeCases
  <2> QED
    BY <2>2, <2>3, <2>4
<1> QED
  BY <1>1, <1>2
-----------------------------------------------------------------------------
(* Remainders *)

LEMMA Remainder ==
    ASSUME NEW x \in Nat, NEW d \in Nat \ {0}
    PROVE  x = d * (x \div d) + (x % d) /\ x \div d \in Nat /\ x % d \in 0..(d - 1)
OBVIOUS

LEMMA RemainderUnique ==
    ASSUME NEW x \in Nat, NEW d \in Nat \ {0}, NEW q \in Nat, NEW r \in 0..(d - 1), x = d * q + r
    PROVE  x % d = r
<1>1. x = d * (x \div d) + (x % d) /\ x \div d \in Nat /\ x % d \in 0..(d - 1)
  BY Remainder
<1>2. PICK p \in Nat : p = x \div d
  BY <1>1
<1>3. PICK t \in 0..(d - 1) : t = x % d
  BY <1>1
<1>4. d * q + r = d * p + t
  BY <1>1, <1>2, <1>3
<1>5. ASSUME q < p PROVE FALSE
  <2>1. PICK e \in Nat : p = q + 1 + e
    <3>1. p - q - 1 \in Nat
      BY <1>5
    <3> QED
      BY <3>1
  <2>2. d * p = d * q + d + d * e
    BY <2>1, SMTT(30)
  <2>3. d * e \in Nat /\ d * q \in Nat
    BY SMTT(30)
  <2> QED
    BY <1>4, <2>2, <2>3, SMTT(30)
<1>6. ASSUME p < q PROVE FALSE
  <2>1. PICK e \in Nat : q = p + 1 + e
    <3>1. q - p - 1 \in Nat
      BY <1>6
    <3> QED
      BY <3>1
  <2>2. d * q = d * p + d + d * e
    BY <2>1, SMTT(30)
  <2>3. d * e \in Nat /\ d * p \in Nat
    BY SMTT(30)
  <2> QED
    BY <1>4, <2>2, <2>3, SMTT(30)
<1>7. p = q
  BY <1>5, <1>6
<1> QED
  BY <1>3, <1>4, <1>7

\* Adding a multiple changes no remainder.
LEMMA RemainderShift ==
    ASSUME NEW x \in Nat, NEW m \in Nat, NEW d \in Nat \ {0}, m % d = 0
    PROVE  (x + m) % d = x % d
<1>1. PICK q \in Nat : x = d * q + (x % d)
  BY Remainder
<1>2. PICK p \in Nat : m = d * p
  <2>1. m = d * (m \div d) + (m % d) /\ m \div d \in Nat
    BY Remainder
  <2> QED
    BY <2>1
<1>3. PICK r \in 0..(d - 1) : r = x % d
  BY Remainder
<1>4. PICK y \in Nat, k \in Nat : y = x + m /\ k = q + p
  OBVIOUS
<1>5. y = d * k + r
  <2>1. d * k = d * q + d * p
    BY <1>4, SMTT(30)
  <2>2. PICK a \in Nat, b \in Nat : a = d * q /\ b = d * p
    <3>1. d * q \in Nat /\ d * p \in Nat
      BY SMTT(30)
    <3> QED
      BY <3>1
  <2>3. x = a + r /\ m = b /\ d * k = a + b
    BY <1>1, <1>2, <1>3, <2>1, <2>2
  <2>4. y = a + b + r
    BY <1>4, <2>3
  <2> QED
    BY <2>3, <2>4
<1>6. y % d = r
  BY <1>5, RemainderUnique
<1> QED
  BY <1>3, <1>4, <1>6

\* A multiple of d that is not 0 is at least d.
LEMMA AtLeastOne ==
    ASSUME NEW x \in Nat, NEW d \in Nat \ {0}, x % d = 0, x # 0
    PROVE  x >= d
<1>1. ASSUME x < d PROVE FALSE
  <2>1. x = d * 0 + x /\ x \in 0..(d - 1)
    BY <1>1
  <2>2. x % d = x
    BY <2>1, RemainderUnique
  <2> QED
    BY <2>2
<1> QED
  BY <1>1

\* Round gives a multiple of the grain.
LEMMA RoundUp ==
    ASSUME NEW size \in Nat
    PROVE  /\ Round(size) \in Nat /\ Round(size) % Grain = 0
           /\ Round(size) > 0 => Round(size) >= Grain
<1>1. Grain \in Nat \ {0}
  BY HeapAssumption
<1>2. CASE size % Grain = 0
  BY <1>1, <1>2, AtLeastOne DEF Round
<1>3. CASE size % Grain # 0
  <2>1. PICK q \in Nat, r \in 0..(Grain - 1) :
            size = Grain * q + r /\ r = size % Grain
    BY <1>1, Remainder
  <2>2. PICK a \in Nat : a = Grain * q
    <3>1. Grain * q \in Nat
      BY <1>1, SMTT(30)
    <3> QED
      BY <3>1
  <2>3. PICK y \in Nat, k \in Nat : y = a + Grain /\ k = q + 1
    BY <1>1
  <2>4. y = Grain * k + 0
    <3>1. Grain * k = Grain * q + Grain
      BY <1>1, <2>3, SMTT(30)
    <3> QED
      BY <1>1, <2>2, <2>3, <3>1
  <2>5. y % Grain = 0
    <3>1. 0 \in 0..(Grain - 1)
      BY <1>1
    <3> QED
      BY <1>1, <2>4, <3>1, RemainderUnique
  <2>6. size = a + r
    BY <2>1, <2>2
  <2>7. Round(size) = size - r + Grain
    BY <1>3, <2>1 DEF Round
  <2>8. Round(size) = y
    BY <1>1, <2>1, <2>2, <2>3, <2>6, <2>7
  <2> QED
    BY <1>1, <2>3, <2>5, <2>8
<1> QED
  BY <1>2, <1>3

\* What is left of a page behind a header takes at least a grain.
LEMMA PageHolds == PageSize - HeaderSize >= Grain
<1>1. /\ PageSize \in Nat \ {0} /\ HeaderSize \in Nat \ {0} /\ Grain \in Nat \ {0}
      /\ HeaderSize < PageSize /\ PageSize % Grain = 0 /\ HeaderSize % Grain = 0
  BY HeapAssumption
<1>2. PICK x \in Nat : x = PageSize - HeaderSize /\ PageSize = x + HeaderSize /\ x # 0
  BY <1>1
<1>3. x % Grain = 0
  <2>1. (x + HeaderSize) % Grain = x % Grain
    BY <1>1, RemainderShift
  <2> QED
    BY <1>1, <1>2, <2>1
<1> QED
  BY <1>1, <1>2, <1>3, AtLeastOne
-----------------------------------------------------------------------------
(* The types: an invariant, and the theorem *)

Least == heapStart + InitialPages * PageSize
Most  == heapStart + MaxPages * PageSize

\* Whatever became of the list, headers stay within the heap, and what is asked
\* for is a number of grains.
TInv ==
    /\ heapEnd \in Nat /\ Least <= heapEnd /\ heapEnd <= Most
    /\ Typed(seg, heapEnd) /\ LastHdr \in Nat /\ LastHdr <= heapEnd
    /\ corrupt \in BOOLEAN /\ misled \in BOOLEAN
    /\ pending \in Nat /\ pending % Grain = 0 /\ (pending > 0 => pending >= Grain)
    /\ origin \in Nat /\ (origin # 0 => \E b \in live : b.start = origin)
    /\ live \subseteq [start : Nat, size : Nat \ {0}] /\ \A b \in live : b.start <= heapEnd

\* The bounds of the heap are numbers.
LEMMA Bounds ==
    /\ Least \in Nat /\ Most \in Nat /\ Least <= Most /\ heapStart + PageSize <= Least
    /\ InitialPages * PageSize \in Nat /\ PageSize <= InitialPages * PageSize
<1>1. /\ heapStart \in Nat \ {0} /\ InitialPages \in Nat \ {0} /\ MaxPages \in Nat
      /\ MaxPages >= InitialPages /\ PageSize \in Nat \ {0}
  BY HeapAssumption
<1>2. PICK d \in Nat, e \in Nat : MaxPages = InitialPages + d /\ InitialPages = 1 + e
  <2>1. MaxPages - InitialPages \in Nat /\ InitialPages - 1 \in Nat
    BY <1>1
  <2> QED
    BY <1>1, <2>1
<1>3. /\ MaxPages * PageSize = InitialPages * PageSize + d * PageSize /\ d * PageSize \in Nat
      /\ InitialPages * PageSize = PageSize + e * PageSize /\ e * PageSize \in Nat
      /\ InitialPages * PageSize \in Nat /\ MaxPages * PageSize \in Nat
  BY <1>1, <1>2, SMTT(30)
<1>4. PICK i \in Nat, m \in Nat, x \in Nat, y \in Nat :
          /\ i = InitialPages * PageSize /\ m = MaxPages * PageSize
          /\ x = d * PageSize /\ y = e * PageSize
  BY <1>3
<1>5. m = i + x /\ i = PageSize + y
  BY <1>3, <1>4
<1>6. Least = heapStart + i /\ Most = heapStart + m
  BY <1>4 DEF Least, Most
<1> QED
  BY <1>1, <1>4, <1>5, <1>6

\* What Become leaves is typed.
LEMMA BecomeTyped ==
    ASSUME NEW h, NEW l, NEW end \in Nat, TypedHeap(h, l, end), Become(h)
    PROVE  Typed(seg', end) /\ LastHdr' = l /\ corrupt' \in BOOLEAN
<1>1. PICK g : \E c \in BOOLEAN : h = H(g, l, c) /\ Typed(g, end)
  BY DEF TypedHeap
<1>2. PICK c \in BOOLEAN : h = H(g, l, c) /\ Typed(g, end)
  BY <1>1
<1>3. h.seg = g /\ h.last = l /\ h.corrupt = c
  BY <1>2, HeapFields
<1>4. Reached(h) \subseteq DOMAIN g
  BY <1>2, <1>3, ReachedHoldsChain
<1>5. Typed(Restrict(g, Reached(h)), end)
  BY <1>2, <1>4, RestrictTyped
<1> QED
  BY <1>2, <1>3, <1>5 DEF Become

\* Split, then taking the segment.
TakenHeap(g, l, c, s, size) ==
    LET h == Split(H(g, l, c), s, size) IN [h EXCEPT !.seg = [@ EXCEPT ![s].free = FALSE]]

LEMMA TakeCases ==
    ASSUME NEW g, NEW l, NEW c, NEW d, NEW s, NEW size,
           Split(H(g, l, c), s, size) = H(d, l, c)
    PROVE  TakenHeap(g, l, c, s, size) = H(Taken(d, s), l, c)
<1>1. PICK h : h = H(d, l, c)
  OBVIOUS
<1>2. h.seg = d /\ With(h, Taken(d, s)) = H(Taken(d, s), l, c)
  BY <1>1, HeapFields
<1>3. With(h, Taken(d, s)) = [h EXCEPT !.seg = [@ EXCEPT ![s].free = FALSE]]
  BY <1>2 DEF With, Taken
<1> QED
  BY <1>1, <1>2, <1>3 DEF TakenHeap

LEMMA TakeTyped ==
    ASSUME NEW g, NEW l, NEW c \in BOOLEAN, NEW end \in Nat, Typed(g, end), NEW s \in DOMAIN g,
           NEW size \in Nat
    PROVE  \/ Split(H(g, l, c), s, size) = Lost(g, l)
           \/ /\ Split(H(g, l, c), s, size).corrupt = c
              /\ TypedHeap(TakenHeap(g, l, c, s, size), l, end)
<1>1. CASE Split(H(g, l, c), s, size) = Lost(g, l)
  BY <1>1
<1>2. ASSUME NEW d, Typed(d, end), Split(H(g, l, c), s, size) = H(d, l, c)
      PROVE  /\ Split(H(g, l, c), s, size).corrupt = c
             /\ TypedHeap(TakenHeap(g, l, c, s, size), l, end)
  <2>1. Typed(Taken(d, s), end)
    BY <1>2, MarkTyped
  <2> QED
    BY <1>2, <2>1, TakeCases, TypedHeaps, HeapFields
<1> QED
  BY <1>1, <1>2, SplitCases, CutTyped

\* The headers with one more at the end, as the next of l.
Extended(g, l, end, size) ==
    [a \in DOMAIN g \union {end} |->
        IF a = end THEN Header(size - HeaderSize, 0, l, TRUE)
        ELSE IF a = l THEN [g[a] EXCEPT !.next = end]
        ELSE g[a]]

LEMMA GrowCases ==
    ASSUME NEW size, Typed(seg, heapEnd)
    PROVE  Grow(size) = IF LastHdr \notin DOMAIN seg THEN Lost(seg, LastHdr)
                        ELSE CombineBackward(
                                 H(Extended(seg, LastHdr, heapEnd, size), heapEnd, corrupt), heapEnd)
<1>1. heap.seg = seg /\ heap.last = LastHdr /\ Wild(heap) = Lost(seg, LastHdr)
  <2>1. heap = H(seg, LastHdr, corrupt)
    BY DEF heap, H
  <2> QED
    BY <2>1, HeapFields
<1>2. ASSUME LastHdr \in DOMAIN seg
      PROVE  Added([heap.seg EXCEPT ![LastHdr].next = heapEnd], Header(size - HeaderSize, 0, LastHdr, TRUE))
               = Extended(seg, LastHdr, heapEnd, size)
  BY <1>1, <1>2 DEF Added, Extended
<1>3. ASSUME LastHdr \in DOMAIN seg
      PROVE  [heap EXCEPT
                 !.seg = Added([@ EXCEPT ![LastHdr].next = heapEnd],
                               Header(size - HeaderSize, 0, LastHdr, TRUE)),
                 !.last = heapEnd]
             = H(Extended(seg, LastHdr, heapEnd, size), heapEnd, corrupt)
  <2>1. PICK f : f = Extended(seg, LastHdr, heapEnd, size)
    OBVIOUS
  <2>2. [heap EXCEPT !.seg = f, !.last = heapEnd] = H(f, heapEnd, corrupt)
    <3>1. PICK h : h = heap
      OBVIOUS
    <3>2. [h EXCEPT !.seg = f, !.last = heapEnd] = [With(h, f) EXCEPT !.last = heapEnd]
      BY DEF With
    <3>3. With(h, f) = H(f, LastHdr, corrupt)
      <4>1. h = H(seg, LastHdr, corrupt)
        BY <3>1 DEF heap, H
      <4> QED
        BY <4>1, HeapFields
    <3>4. [H(f, LastHdr, corrupt) EXCEPT !.last = heapEnd] = H(f, heapEnd, corrupt)
      BY DEF H
    <3> QED
      BY <3>1, <3>2, <3>3, <3>4
  <2>3. [heap EXCEPT
            !.seg = Added([@ EXCEPT ![LastHdr].next = heapEnd],
                          Header(size - HeaderSize, 0, LastHdr, TRUE)),
            !.last = heapEnd]
        = [heap EXCEPT !.seg = f, !.last = heapEnd]
    BY <1>2, <1>3, <2>1
  <2> QED
    BY <2>1, <2>2, <2>3
<1> QED
  BY <1>1, <1>3 DEF Grow, Intact

LEMMA ExtendedTyped ==
    ASSUME NEW g, NEW end \in Nat, Typed(g, end), NEW l \in DOMAIN g, NEW size \in Nat,
           size > HeaderSize
    PROVE  Typed(Extended(g, l, end, size), end + size) /\ end \notin DOMAIN g
<1> DEFINE k == Extended(g, l, end, size)
<1>1. DOMAIN k = DOMAIN g \union {end}
  BY DEF Extended
<1>2. HeaderSize \in Nat \ {0} /\ l \in Nat \ {0} /\ l < end /\ size - HeaderSize \in Nat /\ end \in Nat \ {0}
  BY HeapAssumption, TypedHeader
<1>3. end \notin DOMAIN g
  BY TypedHeader
<1>4. ASSUME NEW a \in DOMAIN k
      PROVE  /\ a \in Nat \ {0} /\ k[a] \in HeaderType
             /\ End(k, a) <= end + size /\ k[a].last <= end + size
             /\ k[a].next = 0 \/ (k[a].next >= End(k, a) /\ k[a].next <= end + size)
  <2>1. CASE a = end
    <3>1. k[a] = Header(size - HeaderSize, 0, l, TRUE)
      BY <2>1 DEF Extended
    <3> HIDE DEF k
    <3>2. k[a].length = size - HeaderSize /\ k[a].next = 0 /\ k[a].last = l /\ k[a] \in HeaderType
      BY <1>2, <3>1 DEF Header, HeaderType
    <3> QED
      BY <1>2, <2>1, <3>2 DEF End
  <2>2. CASE a # end
    <3>1. a \in DOMAIN g
      BY <1>1, <2>2
    <3>2. /\ a \in Nat \ {0} /\ g[a] \in HeaderType /\ g[a].length \in Nat /\ g[a].next \in Nat
          /\ g[a].last \in Nat /\ End(g, a) <= end /\ g[a].last <= end /\ End(g, a) \in Nat
          /\ g[a].next # 0 => g[a].next >= End(g, a) /\ g[a].next <= end
      BY <3>1, TypedHeader
    <3>3. k[a] = g[a] \/ k[a] = [g[a] EXCEPT !.next = end]
      BY <1>1, <2>2 DEF Extended
    <3> HIDE DEF k
    <3>4. Is([g[a] EXCEPT !.next = end], g[a].length, end, g[a].last, g[a])
      BY <3>2, HeaderFields
    <3>5. /\ k[a].length = g[a].length /\ k[a].next \in {g[a].next, end} /\ k[a].last = g[a].last
          /\ k[a] \in HeaderType
      BY <3>2, <3>3, <3>4 DEF Is
    <3>6. End(k, a) = End(g, a)
      BY <3>5 DEF End
    <3> QED
      BY <3>2, <3>5, <3>6
  <2> QED
    BY <2>1, <2>2
<1> HIDE DEF k
<1>5. Typed(k, end + size)
  BY <1>4 DEF Typed
<1> QED
  BY <1>3, <1>5 DEF k

LEMMA InitTypes == Init => TInv
<1> SUFFICES ASSUME Init PROVE TInv
  OBVIOUS
<1>1. /\ heapStart \in Nat \ {0} /\ HeaderSize \in Nat \ {0} /\ HeaderSize < PageSize
      /\ PageSize \in Nat /\ Grain \in Nat \ {0}
  BY HeapAssumption
<1>2. PICK i \in Nat : i = InitialPages * PageSize /\ PageSize <= i /\ heapEnd = heapStart + i
  BY Bounds DEF Init
<1>3. heapEnd \in Nat /\ heapEnd = Least /\ heapEnd <= Most /\ i - HeaderSize \in Nat
  BY <1>1, <1>2, Bounds DEF Least
<1>4. /\ DOMAIN seg = {heapStart}
      /\ seg[heapStart] = Header(i - HeaderSize, 0, 0, TRUE)
  BY <1>2 DEF Init
<1>5. /\ seg[heapStart] \in HeaderType /\ seg[heapStart].length = i - HeaderSize
      /\ seg[heapStart].next = 0 /\ seg[heapStart].last = 0
  BY <1>3, <1>4 DEF Header, HeaderType
<1>6. End(seg, heapStart) = heapEnd
  BY <1>1, <1>2, <1>5 DEF End
<1>7. Typed(seg, heapEnd)
  <2>1. ASSUME NEW a \in DOMAIN seg
        PROVE  /\ a \in Nat \ {0} /\ seg[a] \in HeaderType /\ End(seg, a) <= heapEnd
               /\ seg[a].last <= heapEnd /\ seg[a].next = 0
    <3>1. a = heapStart /\ 0 <= heapEnd /\ heapEnd <= heapEnd
      BY <1>3, <1>4
    <3> QED
      BY <1>1, <1>5, <1>6, <3>1
  <2> QED
    BY <2>1 DEF Typed
<1>8. 0 % Grain = 0
  <2>1. 0 = Grain * 0 + 0 /\ 0 \in 0..(Grain - 1)
    BY <1>1
  <2> QED
    BY <1>1, <2>1, RemainderUnique
<1> QED
  <2>1. LastHdr = heapStart /\ pending = 0 /\ origin = 0 /\ live = {} /\ corrupt = FALSE /\ misled = FALSE
    BY DEF Init
  <2>2. LastHdr \in Nat /\ LastHdr <= heapEnd /\ Least <= heapEnd
    BY <1>1, <1>2, <1>3, <2>1
  <2>3. ~(pending > 0) /\ ~(origin # 0)
    BY <2>1
  <2> QED
    BY <1>3, <1>7, <1>8, <2>1, <2>2, <2>3 DEF TInv

\* Every step keeps the types.
LEMMA NextTypes == TInv /\ [Next]_vars => TInv'
<1> SUFFICES ASSUME TInv, [Next]_vars PROVE TInv'
  OBVIOUS
<1>0. /\ HeaderSize \in Nat \ {0} /\ Grain \in Nat \ {0} /\ PageSize \in Nat \ {0}
      /\ HeaderSize < PageSize /\ Sizes \subseteq Nat
  BY HeapAssumption
<1>a. 0 % Grain = 0
  <2>1. 0 = Grain * 0 + 0 /\ 0 \in 0..(Grain - 1)
    BY <1>0
  <2> QED
    BY <1>0, <2>1, RemainderUnique
<1>b. /\ heapEnd \in Nat /\ corrupt \in BOOLEAN /\ Typed(seg, heapEnd) /\ heap = H(seg, LastHdr, corrupt)
  BY DEF TInv, heap, H
<1>1. ASSUME NEW size \in Sizes, malloc(size) \/ realloc(size) PROVE TInv'
  <2>1. size \in Nat
    BY <1>0
  <2>2. /\ pending' \in Nat /\ pending' % Grain = 0 /\ pending' > 0 /\ pending' >= Grain
    BY <1>1, <2>1, RoundUp DEF malloc, realloc
  <2>3. UNCHANGED <<seg, heapEnd, LastHdr, live, corrupt, misled>>
    BY <1>1 DEF malloc, realloc
  <2>4. CASE malloc(size)
    BY <2>2, <2>3, <2>4 DEF TInv, malloc
  <2>5. CASE realloc(size)
    <3>1. PICK b \in live : origin' = b.start
      BY <2>5 DEF realloc
    <3>2. origin' \in Nat
      BY <3>1 DEF TInv
    <3> QED
      BY <2>2, <2>3, <3>1, <3>2 DEF TInv
  <2> QED
    BY <1>1, <2>4, <2>5
<1>2. CASE Allocate
  <2>1. PICK n \in DOMAIN Nth :
            /\ Fits(n)
            /\ LET s == Nth[n]
                   h == Split(heap, s, pending)
               IN /\ Become(IF h.corrupt THEN h ELSE [h EXCEPT !.seg = [@ EXCEPT ![s].free = FALSE]])
                  /\ live' = live \union {[start |-> s + HeaderSize, size |-> pending]}
    BY <1>2 DEF Allocate
  <2>2. PICK s : s = Nth[n]
    OBVIOUS
  <2>3. PICK h : h = Split(H(seg, LastHdr, corrupt), s, pending)
    OBVIOUS
  <2>4. PICK g : g = TakenHeap(seg, LastHdr, corrupt, s, pending)
    OBVIOUS
  <2>5. /\ s \in DOMAIN seg /\ seg[s].length >= pending
        /\ Become(IF h.corrupt THEN h ELSE g)
        /\ live' = live \union {[start |-> s + HeaderSize, size |-> pending]}
    BY <1>b, <2>1, <2>2, <2>3, <2>4 DEF Fits, TakenHeap
  <2>6. /\ pending \in Nat \ {0} /\ pending' = 0 /\ origin' = origin /\ heapEnd' = heapEnd
        /\ misled' = misled
    BY <1>2 DEF Allocate, TInv
  <2>7. TypedHeap(IF h.corrupt THEN h ELSE g, LastHdr, heapEnd)
    <3>1. CASE h = Lost(seg, LastHdr)
      <4>1. h.corrupt
        BY <3>1, HeapFields
      <4>2. TypedHeap(h, LastHdr, heapEnd)
        BY <1>b, <3>1, TypedHeaps
      <4> QED
        BY <4>1, <4>2
    <3>2. CASE h.corrupt = corrupt /\ TypedHeap(g, LastHdr, heapEnd)
      <4>1. corrupt = FALSE
        BY <1>2 DEF Allocate, Sound
      <4> QED
        BY <3>2, <4>1
    <3> QED
      BY <1>b, <2>3, <2>4, <2>5, <2>6, <3>1, <3>2, TakeTyped
  <2>8. Typed(seg', heapEnd) /\ LastHdr' = LastHdr /\ corrupt' \in BOOLEAN
    BY <1>b, <2>5, <2>7, BecomeTyped
  <2>9. s + HeaderSize \in Nat /\ s + HeaderSize <= heapEnd
    <3>1. s \in Nat /\ seg[s].length \in Nat /\ End(seg, s) <= heapEnd
      BY <1>b, <2>5, TypedHeader
    <3> QED
      BY <1>0, <1>b, <3>1 DEF End
  <2>10. live' \subseteq [start : Nat, size : Nat \ {0}] /\ \A b \in live' : b.start <= heapEnd
    BY <2>5, <2>6, <2>9 DEF TInv
  <2>11. origin' # 0 => \E b \in live' : b.start = origin'
    BY <2>5, <2>6 DEF TInv
  <2> QED
    BY <1>a, <2>6, <2>8, <2>10, <2>11 DEF TInv
<1>3. CASE ExpandHeap
  <2>1. PICK size \in Nat :
            /\ size = IF pending % PageSize = 0 THEN pending ELSE PageSize
            /\ heapEnd + size <= Most /\ heapEnd' = heapEnd + size /\ Become(Grow(size))
            /\ size >= PageSize
    <3>1. pending % PageSize = 0 => pending >= PageSize
      BY <1>0, <1>3, AtLeastOne DEF ExpandHeap, TInv
    <3> QED
      BY <1>0, <1>3, <3>1 DEF ExpandHeap, TInv, Most
  <2>2. size > HeaderSize
    BY <1>0, <2>1
  <2>3. CASE LastHdr \notin DOMAIN seg
    <3>1. Grow(size) = Lost(seg, LastHdr)
      BY <1>b, <2>3, GrowCases
    <3>2. TypedHeap(Grow(size), LastHdr, heapEnd)
      BY <1>b, <3>1, TypedHeaps
    <3>3. Typed(seg', heapEnd) /\ LastHdr' = LastHdr /\ corrupt' \in BOOLEAN
      BY <1>b, <2>1, <3>2, BecomeTyped
    <3>4. Typed(seg', heapEnd + size)
      BY <1>b, <3>3, TypedLonger
    <3> QED
      <4>1. /\ heapEnd' \in Nat /\ Least <= heapEnd' /\ heapEnd' <= Most /\ LastHdr' \in Nat
            /\ LastHdr' <= heapEnd'
        BY <1>0, <2>1, <3>3, Bounds DEF TInv
      <4>2. pending' = pending /\ origin' = origin /\ live' = live /\ misled' = misled
        BY <1>3 DEF ExpandHeap
      <4>3. \A b \in live' : b.start <= heapEnd'
        BY <2>1, <4>2 DEF TInv
      <4> QED
        BY <2>1, <3>3, <3>4, <4>1, <4>2, <4>3 DEF TInv
  <2>4. CASE LastHdr \in DOMAIN seg
    <3>1. Typed(Extended(seg, LastHdr, heapEnd, size), heapEnd + size)
      BY <1>b, <2>2, <2>4, ExtendedTyped
    <3>2. TypedHeap(Grow(size), heapEnd, heapEnd + size)
      BY <1>b, <2>4, <3>1, GrowCases, BackwardTyped
    <3>3. Typed(seg', heapEnd + size) /\ LastHdr' = heapEnd /\ corrupt' \in BOOLEAN
      BY <1>b, <2>1, <3>2, BecomeTyped
    <3> QED
      <4>1. /\ heapEnd' \in Nat /\ Least <= heapEnd' /\ heapEnd' <= Most /\ LastHdr' \in Nat
            /\ LastHdr' <= heapEnd'
        BY <1>0, <2>1, <3>3, Bounds DEF TInv
      <4>2. pending' = pending /\ origin' = origin /\ live' = live /\ misled' = misled
        BY <1>3 DEF ExpandHeap
      <4>3. \A b \in live' : b.start <= heapEnd'
        BY <2>1, <4>2 DEF TInv
      <4> QED
        BY <2>1, <3>3, <4>1, <4>2, <4>3 DEF TInv
  <2> QED
    BY <2>3, <2>4
<1>4. ASSUME NEW b \in live, Release(b)
      PROVE  /\ Typed(seg', heapEnd) /\ LastHdr' = LastHdr /\ corrupt' \in BOOLEAN
             /\ misled' \in BOOLEAN /\ live' = live \ {b}
  <2>1. Become(free(heap, b.start)) /\ live' = live \ {b} /\ misled' \in BOOLEAN
    BY <1>4 DEF Release
  <2>2. TypedHeap(free(heap, b.start), LastHdr, heapEnd)
    BY <1>b, FreeTyped
  <2> QED
    BY <1>b, <2>1, <2>2, BecomeTyped
<1>5. CASE Free
  <2>1. PICK b \in live : Release(b)
    BY <1>5 DEF Free
  <2>2. heapEnd' = heapEnd /\ pending' = pending /\ origin' = origin /\ origin = 0
    BY <1>5 DEF Free
  <2> QED
    BY <1>4, <2>1, <2>2 DEF TInv
<1>6. CASE FreeOrigin
  <2>1. PICK b \in live : Release(b)
    BY <1>6 DEF FreeOrigin
  <2>2. heapEnd' = heapEnd /\ pending' = pending /\ origin' = 0
    BY <1>6 DEF FreeOrigin
  <2> QED
    BY <1>4, <2>1, <2>2 DEF TInv
<1>7. CASE Write
  <2>1. PICK a \in DOMAIN seg : Become([heap EXCEPT !.seg = Restrict(@, DOMAIN @ \ {a})])
    BY <1>7 DEF Write
  <2>2. PICK R \in SUBSET DOMAIN seg : R = DOMAIN seg \ {a}
    OBVIOUS
  <2>3. [heap EXCEPT !.seg = Restrict(@, DOMAIN @ \ {a})] = H(Restrict(seg, R), LastHdr, corrupt)
    BY <2>2 DEF heap, H
  <2>4. TypedHeap(H(Restrict(seg, R), LastHdr, corrupt), LastHdr, heapEnd)
    BY <1>b, RestrictTyped, TypedHeaps
  <2>5. Typed(seg', heapEnd) /\ LastHdr' = LastHdr /\ corrupt' \in BOOLEAN
    BY <1>b, <2>1, <2>3, <2>4, BecomeTyped
  <2>6. UNCHANGED <<heapEnd, pending, origin, live, misled>>
    BY <1>7 DEF Write
  <2> QED
    BY <2>5, <2>6 DEF TInv
<1>8. CASE UNCHANGED vars
  BY <1>8 DEF vars, TInv
<1> QED
  BY <1>1, <1>2, <1>3, <1>5, <1>6, <1>7, <1>8 DEF Next
-----------------------------------------------------------------------------
(* What the operations make of the list *)

\* The list is one of lengths and of pointers.
LEMMA ChainSame ==
    ASSUME NEW g, NEW k, NEW L, NEW end, Chain(g, L, end), L \subseteq DOMAIN k,
           \A a \in L : k[a].length = g[a].length /\ k[a].next = g[a].next /\ k[a].last = g[a].last
    PROVE  Chain(k, L, end)
<1>1. \A a \in L : End(k, a) = End(g, a)
  BY DEF End
<1>2. \A a \in L : IF k[a].next = 0 THEN End(k, a) = end
                   ELSE k[a].next \in L /\ k[a].next = End(k, a) /\ k[k[a].next].last = a
  <2> SUFFICES ASSUME NEW a \in L
               PROVE  IF k[a].next = 0 THEN End(k, a) = end
                      ELSE k[a].next \in L /\ k[a].next = End(k, a) /\ k[k[a].next].last = a
    OBVIOUS
  <2>1. IF g[a].next = 0 THEN End(g, a) = end
        ELSE g[a].next \in L /\ g[a].next = End(g, a) /\ g[g[a].next].last = a
    BY DEF Chain
  <2>2. g[a].next \in L => k[g[a].next].last = g[g[a].next].last
    OBVIOUS
  <2> QED
    BY <1>1, <2>1, <2>2
<1>3. ASSUME NEW a \in L, a # heapStart PROVE \E p \in L : k[p].next = a
  <2>1. PICK p \in L : g[p].next = a
    BY <1>3 DEF Chain
  <2> QED
    BY <2>1
<1> QED
  BY <1>2, <1>3 DEF Chain

\* One link of the list.
LEMMA Link ==
    ASSUME NEW g, NEW L, NEW end, Typed(g, end), Chain(g, L, end), NEW a \in L
    PROVE  /\ a \in DOMAIN g /\ a \in Nat \ {0} /\ heapStart <= a /\ a < End(g, a) /\ End(g, a) <= end
           /\ g[a].length \in Nat /\ g[a].next \in Nat /\ g[a].last \in Nat /\ g[a].free \in BOOLEAN
           /\ End(g, a) = a + HeaderSize + g[a].length
           /\ g[a].next = 0 => End(g, a) = end
           /\ g[a].next # 0 => /\ g[a].next \in L /\ g[a].next = End(g, a) /\ a < g[a].next
                               /\ g[g[a].next].last = a
<1>1. a \in DOMAIN g /\ heapStart <= a
  BY ChainOrder DEF Chain
<1>2. IF g[a].next = 0 THEN End(g, a) = end
      ELSE g[a].next \in L /\ g[a].next = End(g, a) /\ g[g[a].next].last = a
  BY DEF Chain
<1>3. End(g, a) = a + HeaderSize + g[a].length
  BY DEF End
<1> QED
  BY <1>1, <1>2, <1>3, TypedHeader

\* The fields after s absorbed the next one.
LEMMA JoinedFields ==
    ASSUME NEW g, NEW end \in Nat, Typed(g, end), NEW s \in DOMAIN g, Absorbs(g, s)
    PROVE  LET k == Joined(g, s)
               n == g[s].next
           IN /\ DOMAIN k = DOMAIN g
              /\ k[s].length = g[s].length + g[n].length + HeaderSize
              /\ k[s].next = g[n].next /\ k[s].last = g[s].last
              /\ \A a \in DOMAIN g \ {s} :
                    /\ k[a].length = g[a].length /\ k[a].next = g[a].next
                    /\ k[a].last = IF a = g[n].next THEN s ELSE g[a].last
              /\ \A a \in DOMAIN g : k[a].free <=> g[a].free
<1> DEFINE k  == Joined(g, s)
           n  == g[s].next
           nn == g[n].next
<1>1. DOMAIN k = DOMAIN g
  BY DEF Joined
<1>2. /\ g[s] \in HeaderType /\ g[s].length \in Nat /\ g[n].length \in Nat /\ HeaderSize \in Nat
      /\ n \in DOMAIN g /\ nn \in Nat /\ g[s].last \in Nat /\ s \in Nat
  BY TypedHeader, HeapAssumption DEF Absorbs
<1>3. PICK sum \in Nat : sum = g[s].length + g[n].length + HeaderSize
  BY <1>2
<1>4. k[s] = [g[s] EXCEPT !.length = sum, !.next = nn]
  BY <1>3 DEF Joined
<1>5. Is([g[s] EXCEPT !.length = sum, !.next = nn], sum, nn, g[s].last, g[s])
  <2> HIDE DEF nn
  <2> QED
    BY <1>2, HeaderFields
<1>6. ASSUME NEW a \in DOMAIN g, a # s
      PROVE  /\ k[a].length = g[a].length /\ k[a].next = g[a].next /\ (k[a].free <=> g[a].free)
             /\ k[a].last = IF a = nn THEN s ELSE g[a].last
  <2>1. k[a] = IF a = nn THEN [g[a] EXCEPT !.last = s] ELSE g[a]
    BY <1>6 DEF Joined
  <2>2. /\ g[a] \in HeaderType /\ g[a].length \in Nat /\ g[a].next \in Nat /\ g[a].last \in Nat
    BY TypedHeader
  <2>3. Is([g[a] EXCEPT !.last = s], g[a].length, g[a].next, s, g[a])
    BY <1>2, <2>2, HeaderFields
  <2> HIDE DEF k, nn
  <2> QED
    BY <2>1, <2>3 DEF Is
<1> HIDE DEF k, nn
<1>7. k[s].length = sum /\ k[s].next = nn /\ k[s].last = g[s].last /\ k[s].free = g[s].free
  BY <1>4, <1>5 DEF Is
<1> QED
  BY <1>1, <1>3, <1>6, <1>7 DEF k, nn

\* The list after s absorbed the next one.
LEMMA JoinedChain ==
    ASSUME NEW g, NEW L, NEW end \in Nat, Typed(g, end), Chain(g, L, end), NEW s \in L,
           g[s].next # 0, g[g[s].next].free
    PROVE  /\ Absorbs(g, s) /\ Chain(Joined(g, s), L \ {g[s].next}, end)
           /\ g[s].next \in L /\ g[s].next # s /\ g[s].next # heapStart
<1> DEFINE k  == Joined(g, s)
           n  == g[s].next
           nn == g[n].next
<1>1. /\ n \in L /\ n # s /\ n # heapStart /\ n \in DOMAIN g /\ s \in DOMAIN g
      /\ nn # 0 => nn \in L /\ nn # n /\ nn # s /\ nn \in DOMAIN g
  <2>1. n \in L /\ s < n /\ heapStart <= s /\ s \in Nat /\ n \in Nat /\ n \in DOMAIN g /\ s \in DOMAIN g
    BY Link
  <2>2. nn # 0 => nn \in L /\ n < nn /\ nn \in Nat /\ nn \in DOMAIN g
    BY <2>1, Link
  <2> QED
    BY <2>1, <2>2, HeapAssumption
<1>2. Absorbs(g, s)
  BY <1>1 DEF Absorbs
<1>3. /\ DOMAIN k = DOMAIN g
      /\ k[s].length = g[s].length + g[n].length + HeaderSize
      /\ k[s].next = nn /\ k[s].last = g[s].last
      /\ \A a \in DOMAIN g \ {s} :
            /\ k[a].length = g[a].length /\ k[a].next = g[a].next
            /\ k[a].last = IF a = nn THEN s ELSE g[a].last
  BY <1>1, <1>2, JoinedFields
<1> HIDE DEF k, nn
<1>4. End(k, s) = End(g, n)
  <2>1. /\ g[s].length \in Nat /\ g[n].length \in Nat /\ HeaderSize \in Nat /\ n = End(g, s)
        /\ s \in Nat
    BY <1>1, Link, HeapAssumption
  <2> QED
    BY <1>3, <2>1 DEF End
<1>5. ASSUME NEW a \in L \ {n}
      PROVE  IF k[a].next = 0 THEN End(k, a) = end
             ELSE k[a].next \in L \ {n} /\ k[a].next = End(k, a) /\ k[k[a].next].last = a
  <2>1. CASE a = s
    <3>1. nn = 0 => End(g, n) = end
      BY <1>1, Link DEF nn
    <3>2. nn # 0 => nn = End(g, n)
      BY <1>1, Link DEF nn
    <3>3. nn # 0 => k[nn].last = s
      BY <1>1, <1>3
    <3> QED
      BY <1>1, <1>3, <1>4, <2>1, <3>1, <3>2, <3>3
  <2>2. CASE a # s
    <3>1. /\ a \in DOMAIN g /\ (g[a].next = 0 => End(g, a) = end)
          /\ g[a].next # 0 => g[a].next \in L /\ g[a].next = End(g, a) /\ g[g[a].next].last = a
                              /\ g[a].next \in DOMAIN g
      <4>1. g[a].next # 0 => g[a].next \in L
        BY Link
      <4> QED
        BY <4>1, Link
    <3>2. k[a].length = g[a].length /\ k[a].next = g[a].next
      BY <1>3, <2>2, <3>1
    <3>3. End(k, a) = End(g, a)
      BY <3>2 DEF End
    <3>4. g[a].next # 0 => g[a].next # n
      BY <2>2, ChainOrder
    <3>5. g[a].next # 0 => g[a].next # nn
      BY <1>1, ChainOrder DEF nn
    <3>6. g[a].next # 0 => k[g[a].next].last = a
      BY <1>3, <3>1, <3>5
    <3> QED
      BY <3>1, <3>2, <3>3, <3>4, <3>6
  <2> QED
    BY <2>1, <2>2
<1>6. ASSUME NEW c \in L \ {n}, c # heapStart PROVE \E p \in L \ {n} : k[p].next = c
  <2>1. PICK p \in L : g[p].next = c
    BY <1>6 DEF Chain
  <2>2. CASE p = n
    BY <1>1, <1>3, <2>1, <2>2 DEF nn
  <2>3. CASE p # n
    <3>1. p # s /\ p \in DOMAIN g
      BY <1>6, <2>1, Link
    <3> QED
      BY <1>3, <2>1, <2>3, <3>1
  <2> QED
    BY <2>2, <2>3
<1>7. Chain(k, L \ {n}, end)
  <2>1. heapStart \in L \ {n} /\ L \ {n} \subseteq DOMAIN k
    BY <1>1, <1>3 DEF Chain
  <2> QED
    BY <1>5, <1>6, <2>1 DEF Chain
<1> QED
  BY <1>1, <1>2, <1>7 DEF k

\* k is g with s cut in two, the second part starting at new.
IsCut(k, new, g, l, s, size) ==
    /\ DOMAIN k = Clear(g, new) \union {new} /\ s \in Clear(g, new) /\ new \in Nat /\ new > s /\ new < End(g, s)
    /\ k[new].length = g[s].length - size - HeaderSize /\ k[new].length \in Nat
    /\ k[new].length >= Grain
    /\ k[new].next = g[s].next /\ k[new].last = s /\ (k[new].free <=> g[s].free)
    /\ End(k, new) = End(g, s)
    /\ k[s].length = size /\ k[s].next = new /\ (k[s].free <=> g[s].free)
    /\ k[s].last = IF l = s THEN new ELSE g[s].last
    /\ \A a \in Clear(g, new) \ {s, new} :
          /\ k[a].length = g[a].length /\ k[a].next = g[a].next /\ (k[a].free <=> g[a].free)
          /\ k[a].last = IF a = g[s].next THEN new ELSE g[a].last

LEMMA CutFields ==
    ASSUME NEW g, NEW l, NEW end \in Nat, Typed(g, end), NEW s \in DOMAIN g, NEW size \in Nat,
           ~(g[s].length - size - HeaderSize < Grain)
    PROVE  IsCut(Cut(g, l, s, size), s + size + HeaderSize, g, l, s, size)
<1> DEFINE k    == Cut(g, l, s, size)
           new  == s + size + HeaderSize
           rest == g[s].length - size - HeaderSize
<1>1. DOMAIN k = Clear(g, new) \union {new} /\ Clear(g, new) \subseteq DOMAIN g
  BY DEF Cut, Clear
<1>2. /\ g[s] \in HeaderType /\ g[s].length \in Nat /\ HeaderSize \in Nat \ {0} /\ Grain \in Nat \ {0}
      /\ g[s].next \in Nat /\ g[s].last \in Nat /\ s \in Nat /\ g[s].free \in BOOLEAN
  BY TypedHeader, HeapAssumption
<1>3. /\ new \in Nat /\ new > s /\ new < End(g, s) /\ rest \in Nat /\ rest >= Grain
      /\ new + HeaderSize + rest = End(g, s) /\ s \in Clear(g, new)
  BY <1>2 DEF End, Clear
<1>4. k[new] = Header(rest, g[s].next, s, g[s].free)
  BY DEF Cut
<1>5. PICK last \in Nat : last = IF l = s THEN new ELSE g[s].last
  BY <1>2, <1>3
<1>6. k[s] = [g[s] EXCEPT !.length = size, !.next = new, !.last = last]
  BY <1>1, <1>3, <1>5 DEF Cut
<1>7. ASSUME NEW a \in Clear(g, new) \ {s, new}
      PROVE  /\ k[a].length = g[a].length /\ k[a].next = g[a].next /\ (k[a].free <=> g[a].free)
             /\ k[a].last = IF a = g[s].next THEN new ELSE g[a].last
  <2>1. k[a] = IF a = g[s].next THEN [g[a] EXCEPT !.last = new] ELSE g[a]
    BY DEF Cut
  <2>0. a \in DOMAIN g
    BY <1>1
  <2>2. g[a] \in HeaderType /\ g[a].length \in Nat /\ g[a].next \in Nat /\ g[a].last \in Nat
    BY <2>0, TypedHeader
  <2> HIDE DEF k, new
  <2>3. Is([g[a] EXCEPT !.last = new], g[a].length, g[a].next, new, g[a])
    BY <1>3, <2>2, HeaderFields
  <2> QED
    BY <2>1, <2>3 DEF Is
<1> HIDE DEF k, new, rest
<1>8. k[new].length = rest /\ k[new].next = g[s].next /\ k[new].last = s /\ k[new].free = g[s].free
  BY <1>4 DEF Header
<1>9. Is([g[s] EXCEPT !.length = size, !.next = new, !.last = last], size, new, last, g[s])
  BY <1>2, <1>3, HeaderFields
<1>10. k[s].length = size /\ k[s].next = new /\ k[s].last = last /\ k[s].free = g[s].free
  BY <1>6, <1>9 DEF Is
<1>11. End(k, new) = End(g, s)
  BY <1>3, <1>8 DEF End
<1> QED
  BY <1>1, <1>3, <1>5, <1>7, <1>8, <1>10, <1>11 DEF k, new, rest, IsCut

\* The list after s was cut.
LEMMA CutChain ==
    ASSUME NEW g, NEW L, NEW end \in Nat, Typed(g, end), Chain(g, L, end), NEW s \in L,
           NEW size \in Nat, ~(g[s].length - size - HeaderSize < Grain)
    PROVE  LET new == s + size + HeaderSize
           IN /\ new \notin L /\ g[s].next # new /\ L \subseteq Clear(g, new)
              /\ Chain(Cut(g, heapStart, s, size), L \union {new}, end)
<1> DEFINE k   == Cut(g, heapStart, s, size)
           new == s + size + HeaderSize
           n   == g[s].next
<1>0. s \in DOMAIN g
  BY Link
<1>1. /\ DOMAIN k = Clear(g, new) \union {new} /\ new \in Nat /\ new > s /\ new < End(g, s)
      /\ k[new].next = n /\ k[new].last = s /\ End(k, new) = End(g, s)
      /\ k[s].length = size /\ k[s].next = new
      /\ k[s].last = IF heapStart = s THEN new ELSE g[s].last
      /\ \A a \in Clear(g, new) \ {s, new} :
            /\ k[a].length = g[a].length /\ k[a].next = g[a].next
            /\ k[a].last = IF a = n THEN new ELSE g[a].last
  <2>1. IsCut(k, new, g, heapStart, s, size)
    BY <1>0, CutFields
  <2> HIDE DEF k, new
  <2> QED
    BY <2>1 DEF IsCut
<1>2. /\ s \in Nat \ {0} /\ heapStart <= s /\ heapStart \in Nat \ {0} /\ End(g, s) \in Nat
      /\ n = 0 => End(g, s) = end
      /\ n # 0 => n \in L /\ n = End(g, s) /\ n # s /\ n \in DOMAIN g
  <2>1. n # 0 => n \in L
    BY Link
  <2> QED
    BY <1>0, <2>1, Link, HeapAssumption, TypedHeader
<1>3. new \notin L
  <2>1. ASSUME new \in L PROVE FALSE
    <3>1. s < new => End(g, s) <= new
      BY <2>1, ChainOrder
    <3> QED
      BY <1>1, <1>2, <3>1
  <2> QED
    BY <2>1
<1>4. n # new
  BY <1>1, <1>2
<1>a. L \subseteq Clear(g, new)
  <2> SUFFICES ASSUME NEW a \in L PROVE a \in Clear(g, new)
    OBVIOUS
  <2>1. /\ a \in DOMAIN g /\ a \in Nat /\ g[a].length \in Nat /\ g[s].length \in Nat
        /\ End(g, a) = a + HeaderSize + g[a].length /\ End(g, s) = s + HeaderSize + g[s].length
    BY Link
  <2>2. HeaderSize \in Nat \ {0} /\ Grain \in Nat \ {0} /\ size \in Nat /\ s \in Nat
    BY <1>2, HeapAssumption
  <2>3. (s < a => End(g, s) <= a) /\ (a < s => End(g, a) <= s)
    BY ChainOrder
  <2>4. a + HeaderSize <= new \/ new + HeaderSize <= a
    BY <2>1, <2>2, <2>3
  <2> HIDE DEF new
  <2> QED
    BY <2>1, <2>4 DEF Clear
<1>5. End(k, s) = new
  <2>1. size \in Nat /\ HeaderSize \in Nat
    BY HeapAssumption
  <2> QED
    BY <1>1, <1>2, <2>1 DEF End
<1> HIDE DEF k, new, n
<1>6. ASSUME NEW a \in L \union {new}
      PROVE  IF k[a].next = 0 THEN End(k, a) = end
             ELSE k[a].next \in L \union {new} /\ k[a].next = End(k, a) /\ k[k[a].next].last = a
  <2>1. CASE a = new
    <3>1. n # 0 => k[n].last = new
      BY <1>1, <1>2, <1>4, <1>a
    <3> QED
      BY <1>1, <1>2, <2>1, <3>1
  <2>2. CASE a = s
    BY <1>1, <1>2, <1>5, <2>2
  <2>3. CASE a # s /\ a # new
    <3>0. a \in L
      BY <2>3
    <3>1. g[a].next # 0 => g[a].next \in L
      BY <3>0, Link
    <3>2. /\ a \in DOMAIN g /\ (g[a].next = 0 => End(g, a) = end)
          /\ g[a].next # 0 => g[a].next \in L /\ g[a].next = End(g, a) /\ g[g[a].next].last = a
                              /\ g[a].next \in DOMAIN g /\ g[a].next > a /\ heapStart <= a /\ a \in Nat
                              /\ g[a].next \in Nat
      BY <3>0, <3>1, Link
    <3>3. k[a].length = g[a].length /\ k[a].next = g[a].next
      BY <1>1, <1>a, <2>3, <3>0
    <3>4. End(k, a) = End(g, a)
      BY <3>3 DEF End
    <3>5. g[a].next # 0 => g[a].next # n /\ g[a].next # new
      BY <1>3, <2>3, <3>0, <3>1, ChainOrder DEF n
    <3>6. g[a].next # 0 => k[g[a].next].last = a
      <4>1. ASSUME g[a].next = s, g[a].next # 0 PROVE heapStart # s
        BY <1>2, <3>2, <4>1
      <4> QED
        BY <1>1, <1>2, <1>a, <3>2, <3>5, <4>1
    <3> QED
      BY <3>2, <3>3, <3>4, <3>6
  <2> QED
    BY <2>1, <2>2, <2>3
<1>7. ASSUME NEW c \in L \union {new}, c # heapStart
      PROVE  \E p \in L \union {new} : k[p].next = c
  <2>1. CASE c = new
    BY <1>1, <2>1
  <2>2. CASE c # new
    <3>1. PICK p \in L : g[p].next = c
      BY <1>7, <2>2 DEF Chain
    <3>2. CASE p = s
      BY <1>1, <3>1, <3>2 DEF n
    <3>3. CASE p # s
      <4>1. p \in L /\ p # new
        BY <1>3, Link
      <4> QED
        BY <1>1, <1>a, <3>1, <3>3, <4>1
    <3> QED
      BY <3>2, <3>3
  <2> QED
    BY <2>1, <2>2
<1>8. Chain(k, L \union {new}, end)
  <2>1. heapStart \in L \union {new} /\ L \union {new} \subseteq DOMAIN k
    BY <1>1, <1>a DEF Chain
  <2> QED
    BY <1>6, <1>7, <2>1 DEF Chain
<1> QED
  BY <1>3, <1>4, <1>8, <1>a DEF k, new, n
-----------------------------------------------------------------------------
(* A good list, and what the operations make of it *)

\* Two free segments are never neighbours.
Combined(g, L) == \A a \in L : g[a].next # 0 => ~(g[a].free /\ g[g[a].next].free)

\* Segments start at grains, and hold one at least.
Grained(g, L) == \A a \in L : g[a].length >= Grain /\ a % Grain = heapStart % Grain

\* The first header has none before it; but Split may have set its back pointer.
\* It names the next header, or one that was absorbed into the first segment.
BackOfFirst(g) ==
    LET l == g[heapStart].last IN
    \/ l = 0
    \/ l = g[heapStart].next
    \/ heapStart + HeaderSize <= l /\ l + HeaderSize + Grain <= End(g, heapStart)

Good(g, L, end) == Chain(g, L, end) /\ Combined(g, L) /\ Grained(g, L) /\ BackOfFirst(g)

\* The segments in use.
Used(g, L) == {a \in L : ~g[a].free}

\* Forgetting headers that are not of the list does not matter.
LEMMA GoodKept ==
    ASSUME NEW g, NEW L, NEW end \in Nat, Typed(g, end), Good(g, L, end),
           NEW R \in SUBSET DOMAIN g, L \subseteq R
    PROVE  /\ Good(Restrict(g, R), L, end) /\ Used(Restrict(g, R), L) = Used(g, L)
           /\ \A a \in L : Restrict(g, R)[a] = g[a]
<1> DEFINE k == Restrict(g, R)
<1>1. DOMAIN k = R /\ \A a \in L : k[a] = g[a]
  BY DEF Restrict
<1> HIDE DEF k
<1>2. heapStart \in L /\ \A a \in L : g[a].next # 0 => g[a].next \in L
  BY DEF Good, Chain
<1>3. Chain(k, L, end)
  <2>1. Chain(g, L, end) /\ L \subseteq DOMAIN k
    BY <1>1 DEF Good
  <2> QED
    BY <1>1, <2>1, ChainSame
<1>4. Combined(k, L) /\ Grained(k, L)
  BY <1>1, <1>2 DEF Good, Combined, Grained
<1>5. BackOfFirst(k)
  <2>1. k[heapStart] = g[heapStart] /\ End(k, heapStart) = End(g, heapStart)
    BY <1>1, <1>2 DEF End
  <2>2. BackOfFirst(g)
    BY DEF Good
  <2> QED
    BY <2>1, <2>2 DEF BackOfFirst
<1>6. Used(k, L) = Used(g, L)
  BY <1>1 DEF Used
<1> QED
  BY <1>1, <1>3, <1>4, <1>5, <1>6 DEF Good, k

\* Two free segments, one behind the other, in a list that is sound.
Joinable(g, L, end, s, n) ==
    /\ end \in Nat /\ Typed(g, end) /\ Chain(g, L, end) /\ Grained(g, L) /\ BackOfFirst(g)
    /\ s \in L /\ n = g[s].next /\ n # 0 /\ g[s].free /\ g[n].free

\* What absorbing leaves of the list, of the flags and of the pointers.
JoinKept(k, g, L, end, s, n) ==
    /\ Absorbs(g, s) /\ Typed(k, end) /\ Chain(k, L \ {n}, end) /\ Grained(k, L \ {n})
    /\ BackOfFirst(k) /\ Used(k, L \ {n}) = Used(g, L)
    /\ \A a \in Used(g, L) : k[a].length = g[a].length
    /\ \A a \in DOMAIN g : k[a].free <=> g[a].free
    /\ n \in L /\ n # s /\ s \in L \ {n} /\ DOMAIN k = DOMAIN g
    /\ k[s].next = g[n].next /\ k[s].last = g[s].last
    /\ \A a \in DOMAIN g \ {s} : k[a].next = g[a].next

\* Absorbing a free segment into a free one.
LEMMA JoinKeeps ==
    ASSUME NEW g, NEW L, NEW end, NEW s, NEW n, Joinable(g, L, end, s, n),
           NEW k, k = Joined(g, s)
    PROVE  JoinKept(k, g, L, end, s, n)
<1> USE DEF Joinable
<1>1. /\ Absorbs(g, s) /\ Chain(k, L \ {n}, end) /\ n \in L /\ n # s /\ n # heapStart
  BY JoinedChain
<1>2. s \in DOMAIN g /\ L \subseteq DOMAIN g /\ heapStart \in L
  BY DEF Chain
<1>3. Typed(k, end) /\ DOMAIN k = DOMAIN g
  BY <1>1, <1>2, JoinedTyped
<1>4. /\ k[s].length = g[s].length + g[n].length + HeaderSize
      /\ k[s].next = g[n].next /\ k[s].last = g[s].last
      /\ \A a \in DOMAIN g \ {s} :
            /\ k[a].length = g[a].length /\ k[a].next = g[a].next
            /\ k[a].last = IF a = g[n].next THEN s ELSE g[a].last
      /\ \A a \in DOMAIN g : k[a].free <=> g[a].free
  BY <1>1, <1>2, JoinedFields
<1>5. g[s].length \in Nat /\ g[n].length \in Nat /\ HeaderSize \in Nat \ {0} /\ Grain \in Nat \ {0}
      /\ s \in Nat
  BY <1>1, <1>2, TypedHeader, HeapAssumption
<1>6. Grained(k, L \ {n})
  <2> SUFFICES ASSUME NEW a \in L \ {n}
               PROVE  k[a].length >= Grain /\ a % Grain = heapStart % Grain
    BY DEF Grained
  <2>1. g[a].length >= Grain /\ a % Grain = heapStart % Grain /\ g[s].length >= Grain
    BY DEF Grained
  <2>2. CASE a = s
    BY <1>4, <1>5, <2>1, <2>2
  <2>3. CASE a # s
    BY <1>2, <1>4, <2>1, <2>3
  <2> QED
    BY <2>2, <2>3
<1>7. Used(k, L \ {n}) = Used(g, L) /\ \A a \in Used(g, L) : k[a].length = g[a].length
  BY <1>1, <1>2, <1>4 DEF Used
<1>8. BackOfFirst(k)
  <2>1. CASE s # heapStart
    <3>1. g[n].next # heapStart
      <4>1. n \in L /\ s < n /\ heapStart <= s /\ s \in Nat /\ n \in Nat /\ heapStart \in Nat \ {0}
        BY <1>1, Link, HeapAssumption
      <4>2. g[n].next # 0 => g[n].next \in Nat /\ n < g[n].next
        BY <4>1, Link
      <4> QED
        BY <4>1, <4>2
    <3>2. /\ k[heapStart].length = g[heapStart].length /\ k[heapStart].next = g[heapStart].next
          /\ k[heapStart].last = g[heapStart].last /\ (k[heapStart].free <=> g[heapStart].free)
      BY <1>2, <1>4, <2>1, <3>1
    <3>3. End(k, heapStart) = End(g, heapStart)
      BY <3>2 DEF End
    <3> QED
      BY <1>3, <3>2, <3>3 DEF BackOfFirst
  <2>2. CASE s = heapStart
    <3>1. /\ n = End(g, s) /\ End(g, s) = s + HeaderSize + g[s].length
          /\ End(k, s) = s + HeaderSize + (g[s].length + g[n].length + HeaderSize)
          /\ n \in Nat /\ g[n].length >= Grain
      BY <1>1, <1>4, Link DEF End, Grained
    <3>2. k[s].free
      BY <1>2, <1>4
    <3>3. CASE g[s].last = 0
      BY <1>4, <2>2, <3>3 DEF BackOfFirst
    <3>4. CASE g[s].last = n
      <4>1. heapStart + HeaderSize <= n /\ n + HeaderSize + Grain <= End(k, s)
        BY <1>5, <2>2, <3>1
      <4> QED
        BY <1>4, <2>2, <3>2, <3>4, <4>1 DEF BackOfFirst
    <3>5. CASE heapStart + HeaderSize <= g[s].last /\ g[s].last + HeaderSize + Grain <= End(g, s)
      <4>1. g[s].last \in Nat /\ End(g, s) <= End(k, s) /\ End(g, s) \in Nat /\ End(k, s) \in Nat
        BY <1>2, <1>5, <3>1, TypedHeader
      <4>2. g[s].last + HeaderSize + Grain <= End(k, s)
        BY <1>5, <3>5, <4>1
      <4> QED
        BY <1>4, <2>2, <3>2, <3>5, <4>2 DEF BackOfFirst
    <3> QED
      BY <2>2, <3>3, <3>4, <3>5 DEF BackOfFirst
  <2> QED
    BY <2>1, <2>2
<1> QED
  BY <1>1, <1>2, <1>3, <1>4, <1>6, <1>7, <1>8 DEF JoinKept

\* A free segment that holds size is taken.
LEMMA MarkGood ==
    ASSUME NEW g, NEW L, NEW end \in Nat, Typed(g, end), Chain(g, L, end), Grained(g, L),
           BackOfFirst(g), NEW s \in L, NEW size \in Nat, size <= g[s].length,
           g[s].length - size - HeaderSize < Grain,
           \A a \in L \ {s} : g[a].next \notin {0, s} => ~(g[a].free /\ g[g[a].next].free),
           NEW k, k = Taken(g, s)
    PROVE  /\ Typed(k, end) /\ Good(k, L, end) /\ Used(k, L) = Used(g, L) \union {s}
           /\ \A a \in L : k[a].length = g[a].length
<1>1. /\ Typed(k, end) /\ DOMAIN k = DOMAIN g
      /\ \A a \in DOMAIN g :
            /\ k[a].length = g[a].length /\ k[a].next = g[a].next
            /\ k[a].last = g[a].last /\ (k[a].free <=> a # s /\ g[a].free)
  BY MarkTyped
<1>2. /\ L \subseteq DOMAIN g /\ heapStart \in L /\ \A a \in L : g[a].next # 0 => g[a].next \in L
  BY DEF Chain
<1>3. \A a \in L : /\ k[a].length = g[a].length /\ k[a].next = g[a].next
                   /\ k[a].last = g[a].last /\ (k[a].free <=> a # s /\ g[a].free)
  BY <1>1, <1>2
<1>4. Chain(k, L, end)
  <2>1. L \subseteq DOMAIN k
    BY <1>1, <1>2
  <2>2. \A a \in L : k[a].length = g[a].length /\ k[a].next = g[a].next /\ k[a].last = g[a].last
    BY <1>3
  <2> QED
    BY <2>1, <2>2, ChainSame, Zenon
<1>5. Combined(k, L)
  <2> SUFFICES ASSUME NEW a \in L, k[a].next # 0, k[a].free, k[k[a].next].free PROVE FALSE
    BY DEF Combined
  <2>1. g[a].next # 0 /\ g[a].next \in L /\ a # s /\ g[a].free
    BY <1>2, <1>3
  <2>2. g[a].next # s /\ g[g[a].next].free
    BY <1>3, <2>1
  <2> QED
    BY <2>1, <2>2
<1>6. Grained(k, L)
  BY <1>3 DEF Grained
<1>7. BackOfFirst(k)
  <2>1. /\ k[heapStart].length = g[heapStart].length /\ k[heapStart].next = g[heapStart].next
        /\ k[heapStart].last = g[heapStart].last
    BY <1>2, <1>3
  <2>2. End(k, heapStart) = End(g, heapStart)
    BY <2>1 DEF End
  <2> QED
    BY <2>1, <2>2 DEF BackOfFirst
<1>8. Used(k, L) = Used(g, L) \union {s}
  BY <1>3 DEF Used
<1> QED
  BY <1>1, <1>3, <1>4, <1>5, <1>6, <1>7, <1>8 DEF Good

\* k with the list M is what g with the list L has become when s was taken.
TakesOver(k, M, g, L, s, size, end) ==
    /\ Typed(k, end) /\ Good(k, M, end) /\ Used(k, M) = Used(g, L) \union {s}
    /\ \A a \in Used(g, L) : k[a].length = g[a].length
    /\ k[s].length >= size

\* Taking a free segment of a good list leaves a good list.
LEMMA TakeGood ==
    ASSUME NEW g, NEW L, NEW end \in Nat, NEW c, Typed(g, end), Good(g, L, end),
           NEW s \in L, g[s].free, NEW size \in Nat, size <= g[s].length, size >= Grain,
           size % Grain = 0
    PROVE  /\ Split(H(g, heapStart, c), s, size).corrupt = c
           /\ \E k, M : /\ TakenHeap(g, heapStart, c, s, size) = H(k, heapStart, c)
                        /\ TakesOver(k, M, g, L, s, size, end)
<1>1. /\ Chain(g, L, end) /\ Combined(g, L) /\ Grained(g, L) /\ BackOfFirst(g)
      /\ L \subseteq DOMAIN g /\ heapStart \in L /\ s \in DOMAIN g
      /\ \A a \in L : g[a].next # 0 => g[a].next \in L
  BY DEF Good, Chain
<1>2. /\ s \in Nat /\ g[s].length \in Nat /\ HeaderSize \in Nat \ {0} /\ Grain \in Nat \ {0}
      /\ HeaderSize % Grain = 0
  BY <1>1, Link, HeapAssumption
<1>3. ASSUME NEW d, NEW M, Split(H(g, heapStart, c), s, size) = H(d, heapStart, c),
             Typed(d, end), Chain(d, M, end), Grained(d, M), BackOfFirst(d), s \in M,
             size <= d[s].length, d[s].length - size - HeaderSize < Grain,
             \A a \in M \ {s} : d[a].next \notin {0, s} => ~(d[a].free /\ d[d[a].next].free),
             Used(d, M) = Used(g, L), \A a \in Used(g, L) : d[a].length = g[a].length
      PROVE  /\ Split(H(g, heapStart, c), s, size).corrupt = c
             /\ \E k, N : /\ TakenHeap(g, heapStart, c, s, size) = H(k, heapStart, c)
                          /\ TakesOver(k, N, g, L, s, size, end)
  <2>1. PICK k : k = Taken(d, s)
    OBVIOUS
  <2>2. TakenHeap(g, heapStart, c, s, size) = H(k, heapStart, c)
    BY <1>3, <2>1, TakeCases
  <2>3. /\ Typed(k, end) /\ Good(k, M, end) /\ Used(k, M) = Used(d, M) \union {s}
        /\ \A a \in M : k[a].length = d[a].length
    BY <1>3, <2>1, MarkGood
  <2>4. TakesOver(k, M, g, L, s, size, end)
    <3>1. \A a \in Used(g, L) : a \in M
      BY <1>3 DEF Used
    <3> QED
      BY <1>3, <2>3, <3>1 DEF TakesOver
  <2>5. Split(H(g, heapStart, c), s, size).corrupt = c
    BY <1>3, HeapFields
  <2> QED
    BY <2>2, <2>4, <2>5
<1>4. CASE g[s].length - size - HeaderSize < Grain
  <2>1. Split(H(g, heapStart, c), s, size) = H(g, heapStart, c)
    BY <1>1, <1>4, SplitCases
  <2>2. \A a \in L \ {s} : g[a].next \notin {0, s} => ~(g[a].free /\ g[g[a].next].free)
    BY <1>1 DEF Combined
  <2> QED
    BY <1>1, <1>3, <1>4, <2>1, <2>2
<1>5. CASE ~(g[s].length - size - HeaderSize < Grain)
  <2> DEFINE d   == Cut(g, heapStart, s, size)
             new == s + size + HeaderSize
  <2>1. Split(H(g, heapStart, c), s, size) = H(d, heapStart, c)
    BY <1>1, <1>5, SplitCases
  <2>2. Typed(d, end)
    BY <1>1, <1>5, CutTyped
  <2>3. /\ new \notin L /\ g[s].next # new /\ Chain(d, L \union {new}, end)
        /\ L \subseteq Clear(g, new)
    BY <1>1, <1>5, CutChain
  <2>4. IsCut(d, new, g, heapStart, s, size)
    BY <1>1, <1>5, CutFields
  <2>a. new % Grain = s % Grain
    <3>1. (s + size) % Grain = s % Grain
      BY <1>2, RemainderShift
    <3>2. PICK x \in Nat : x = s + size
      BY <1>2
    <3>3. (x + HeaderSize) % Grain = x % Grain
      BY <1>2, RemainderShift
    <3> QED
      BY <3>1, <3>2, <3>3
  <2> HIDE DEF d, new
  <2>5. /\ new \in Nat /\ new > s /\ new < End(g, s)
        /\ d[new].length >= Grain
        /\ d[new].next = g[s].next /\ d[new].last = s /\ d[new].free
        /\ d[s].length = size /\ d[s].next = new /\ d[s].free
        /\ d[s].last = IF heapStart = s THEN new ELSE g[s].last
        /\ \A a \in Clear(g, new) \ {s, new} :
              /\ d[a].length = g[a].length /\ d[a].next = g[a].next /\ (d[a].free <=> g[a].free)
              /\ d[a].last = IF a = g[s].next THEN new ELSE g[a].last
    BY <1>1, <2>4 DEF IsCut
  <2>6. \A a \in L \ {s} : /\ d[a].length = g[a].length /\ d[a].next = g[a].next
                           /\ (d[a].free <=> g[a].free) /\ a # new
    BY <1>1, <2>3, <2>5
  <2>7. Grained(d, L \union {new})
    <3> SUFFICES ASSUME NEW a \in L \union {new}
                 PROVE  d[a].length >= Grain /\ a % Grain = heapStart % Grain
      BY DEF Grained
    <3>1. s % Grain = heapStart % Grain
      BY <1>1 DEF Grained
    <3>2. CASE a = new
      BY <2>5, <2>a, <3>1, <3>2
    <3>3. CASE a = s
      BY <2>5, <3>1, <3>3
    <3>4. CASE a # new /\ a # s
      BY <1>1, <2>6, <3>4 DEF Grained
    <3> QED
      BY <3>2, <3>3, <3>4
  <2>8. ASSUME NEW a \in (L \union {new}) \ {s}, d[a].next \notin {0, s}
        PROVE  ~(d[a].free /\ d[d[a].next].free)
    <3>1. CASE a = new
      <4>1. g[s].next # 0 /\ g[s].next \in L /\ g[s].next # s
        BY <1>1, <2>5, <2>8, <3>1
      <4>2. ~g[g[s].next].free
        BY <1>1, <4>1 DEF Combined
      <4> QED
        BY <2>5, <2>6, <3>1, <4>1, <4>2
    <3>2. CASE a # new
      <4>1. a \in L \ {s} /\ g[a].next # 0 /\ g[a].next \in L \ {s}
        BY <1>1, <2>6, <2>8, <3>2
      <4>2. ~(g[a].free /\ g[g[a].next].free)
        BY <1>1, <4>1 DEF Combined
      <4> QED
        BY <2>6, <4>1, <4>2
    <3> QED
      BY <3>1, <3>2
  <2>9. BackOfFirst(d)
    <3>1. CASE s = heapStart
      BY <2>5, <3>1 DEF BackOfFirst
    <3>2. CASE s # heapStart
      <4>1. heapStart # g[s].next /\ heapStart # new /\ End(g, heapStart) <= s
        <5>1. s \in Nat /\ heapStart <= s /\ heapStart \in Nat
          BY <1>1, Link, HeapAssumption
        <5>2. g[s].next # 0 => s < g[s].next
          BY <1>1, Link
        <5>3. heapStart < s => End(g, heapStart) <= s
          BY <1>1, ChainOrder
        <5> QED
          BY <1>1, <2>3, <3>2, <5>1, <5>2, <5>3, HeapAssumption
      <4>2. /\ d[heapStart].length = g[heapStart].length /\ d[heapStart].next = g[heapStart].next
            /\ d[heapStart].last = g[heapStart].last /\ (d[heapStart].free <=> g[heapStart].free)
        BY <1>1, <2>3, <2>5, <3>2, <4>1
      <4>3. End(d, heapStart) = End(g, heapStart)
        BY <4>2 DEF End
      <4> QED
        BY <1>1, <4>2, <4>3 DEF BackOfFirst
    <3> QED
      BY <3>1, <3>2
  <2>10. Used(d, L \union {new}) = Used(g, L)
    BY <2>5, <2>6 DEF Used
  <2>11. \A a \in Used(g, L) : d[a].length = g[a].length
    BY <2>6 DEF Used
  <2>12. s \in L \union {new} /\ size <= d[s].length /\ d[s].length - size - HeaderSize < Grain
    BY <1>2, <2>5
  <2> QED
    BY <1>3, <2>1, <2>2, <2>3, <2>7, <2>8, <2>9, <2>10, <2>11, <2>12
<1> QED
  BY <1>4, <1>5

\* k with the list M is what g with the list L has become when s was given back.
GivesBack(k, M, g, L, s, end) ==
    /\ Typed(k, end) /\ Good(k, M, end) /\ Used(k, M) = Used(g, L) \ {s}
    /\ \A a \in Used(g, L) \ {s} : k[a].length = g[a].length

\* s is free, and combined with the next one: what is left to do is to combine
\* it with the one before.
HalfFreed(k, M, g, L, s, end) ==
    /\ Typed(k, end) /\ Chain(k, M, end) /\ Grained(k, M) /\ BackOfFirst(k)
    /\ s \in M /\ k[s].free /\ (k[s].next # 0 => ~k[k[s].next].free)
    /\ \A a \in M \ {s} : k[a].next \notin {0, s} => ~(k[a].free /\ k[k[a].next].free)
    /\ Used(k, M) = Used(g, L) \ {s}
    /\ \A a \in Used(g, L) \ {s} : k[a].length = g[a].length
    /\ s = heapStart => LET l == k[s].last
                        IN l = 0 \/ (l \in DOMAIN k /\ k[l].next = k[s].next) \/ l = k[s].next

\* The back pointer of a segment does not lead into its payload.
Straight(g, s) == g[s].last \notin (s + HeaderSize)..(End(g, s) - 1)

\* The first half of free: forward.
LEMMA FreeForward ==
    ASSUME NEW g, NEW L, NEW end \in Nat, NEW c, Typed(g, end), Good(g, L, end),
           NEW s \in L, ~g[s].free, Straight(g, s)
    PROVE  \E k, M : /\ CombineForward(H(Freed(g, s), heapStart, c), s) = H(k, heapStart, c)
                     /\ HalfFreed(k, M, g, L, s, end)
<1> DEFINE f == Freed(g, s)
           n == g[s].next
<1>1. /\ Chain(g, L, end) /\ Combined(g, L) /\ Grained(g, L) /\ BackOfFirst(g)
      /\ L \subseteq DOMAIN g /\ heapStart \in L /\ s \in DOMAIN g
      /\ \A a \in L : g[a].next # 0 => g[a].next \in L
  BY DEF Good, Chain
<1>2. /\ Typed(f, end) /\ DOMAIN f = DOMAIN g
      /\ \A a \in DOMAIN g :
            /\ f[a].length = g[a].length /\ f[a].next = g[a].next
            /\ f[a].last = g[a].last /\ (f[a].free <=> a = s \/ g[a].free)
  BY MarkTyped
<1> HIDE DEF f
<1>3. \A a \in L : /\ f[a].length = g[a].length /\ f[a].next = g[a].next
                   /\ f[a].last = g[a].last /\ (f[a].free <=> a = s \/ g[a].free)
  BY <1>1, <1>2
<1>4. Chain(f, L, end)
  <2>1. L \subseteq DOMAIN f
    BY <1>1, <1>2
  <2>2. \A a \in L : f[a].length = g[a].length /\ f[a].next = g[a].next /\ f[a].last = g[a].last
    BY <1>3
  <2> QED
    BY <1>1, <2>1, <2>2, ChainSame, Zenon
<1>5. Grained(f, L)
  BY <1>1, <1>3 DEF Grained
<1>6. BackOfFirst(f)
  <2>1. /\ f[heapStart].next = g[heapStart].next /\ f[heapStart].last = g[heapStart].last
        /\ (g[heapStart].free => f[heapStart].free) /\ f[heapStart].length = g[heapStart].length
    BY <1>1, <1>3
  <2>2. End(f, heapStart) = End(g, heapStart)
    BY <2>1 DEF End
  <2> QED
    BY <1>1, <1>2, <2>1, <2>2 DEF BackOfFirst
<1>7. Used(f, L) = Used(g, L) \ {s}
  BY <1>3 DEF Used
<1>8. n # 0 => n \in L /\ n # s /\ n \in DOMAIN g /\ n \in Nat
  <2>1. n # 0 => n \in L
    BY <1>1
  <2> QED
    BY <1>1, <2>1, Link
<1>9. \A a \in L \ {s} : f[a].next \notin {0, s} => ~(f[a].free /\ f[f[a].next].free)
  <2> SUFFICES ASSUME NEW a \in L \ {s}, f[a].next \notin {0, s}
               PROVE  ~(f[a].free /\ f[f[a].next].free)
    OBVIOUS
  <2>1. f[a].next = g[a].next /\ g[a].next \in L \ {s} /\ g[a].next # 0
    BY <1>1, <1>3
  <2> QED
    BY <1>1, <1>3, <2>1 DEF Combined
<1>10. s = heapStart => g[s].last = 0 \/ g[s].last = n
  <2> SUFFICES ASSUME s = heapStart, s + HeaderSize <= g[s].last,
                      g[s].last + HeaderSize + Grain <= End(g, s)
               PROVE  FALSE
    BY <1>1 DEF BackOfFirst
  <2>1. g[s].last \in Nat /\ End(g, s) \in Nat /\ s \in Nat
    BY <1>1, TypedHeader
  <2>2. HeaderSize \in Nat \ {0} /\ Grain \in Nat
    BY HeapAssumption
  <2>3. g[s].last \in (s + HeaderSize)..(End(g, s) - 1)
    BY <2>1, <2>2
  <2> QED
    BY <2>3 DEF Straight
<1>11. CASE n = 0 \/ ~g[n].free
  <2>1. CombineForward(H(f, heapStart, c), s) = H(f, heapStart, c)
    <3>1. f[s].next = n /\ s \in DOMAIN f /\ (n # 0 => n \in DOMAIN f /\ ~f[n].free)
      BY <1>1, <1>2, <1>3, <1>8, <1>11
    <3>2. ~Absorbs(f, s)
      BY <3>1 DEF Absorbs
    <3> QED
      BY <1>2, <3>1, <3>2, ForwardCases
  <2>2. HalfFreed(f, L, g, L, s, end)
    <3>1. f[s].free /\ (f[s].next # 0 => ~f[f[s].next].free)
      BY <1>3, <1>8, <1>11
    <3>2. \A a \in Used(g, L) \ {s} : f[a].length = g[a].length
      BY <1>3 DEF Used
    <3>3. s = heapStart => f[s].last = 0 \/ f[s].last = f[s].next
      BY <1>3, <1>10
    <3> QED
      BY <1>2, <1>4, <1>5, <1>6, <1>7, <1>9, <3>1, <3>2, <3>3 DEF HalfFreed
  <2> QED
    BY <2>1, <2>2 DEF f
<1>12. CASE n # 0 /\ g[n].free
  <2>1. PICK k : k = Joined(f, s)
    OBVIOUS
  <2>2. f[s].next = n /\ f[s].free /\ f[n].free /\ f[n].next = g[n].next
    BY <1>3, <1>8, <1>12
  <2>3. /\ Absorbs(f, s) /\ Typed(k, end) /\ Chain(k, L \ {n}, end) /\ Grained(k, L \ {n})
        /\ BackOfFirst(k) /\ Used(k, L \ {n}) = Used(f, L)
        /\ \A a \in Used(f, L) : k[a].length = f[a].length
        /\ \A a \in DOMAIN f : k[a].free <=> f[a].free
        /\ n \in L /\ n # s /\ s \in L \ {n} /\ DOMAIN k = DOMAIN f
        /\ k[s].next = f[n].next /\ k[s].last = f[s].last
        /\ \A a \in DOMAIN f \ {s} : k[a].next = f[a].next
    <3>1. /\ Typed(f, end) /\ Chain(f, L, end) /\ Grained(f, L) /\ BackOfFirst(f)
          /\ s \in L /\ n # 0 /\ f[s].free /\ k = Joined(f, s)
      BY <1>2, <1>4, <1>5, <1>6, <1>12, <2>1, <2>2
    <3>2. Joinable(f, L, end, s, n)
      BY <2>2, <3>1 DEF Joinable
    <3> HIDE DEF n
    <3>3. JoinKept(k, f, L, end, s, n)
      BY <2>1, <3>2, JoinKeeps
    <3> QED
      BY <2>2, <3>3 DEF JoinKept
  <2>4. CombineForward(H(f, heapStart, c), s) = H(k, heapStart, c)
    <3>1. s \in DOMAIN f /\ f[s].next # 0 /\ f[f[s].next].free /\ Absorbs(f, s) /\ Typed(f, end)
      BY <1>1, <1>2, <1>12, <2>2, <2>3
    <3> QED
      BY <2>1, <3>1, ForwardCases
  <2>5. k[s].next # 0 => /\ ~k[k[s].next].free /\ k[s].next \in L
    <3>1. g[n].next # 0 => g[n].next \in L /\ ~g[g[n].next].free /\ g[n].next # s
      <4>1. g[n].next # 0 => g[n].next \in L /\ ~g[g[n].next].free
        BY <1>1, <1>8, <1>12 DEF Combined
      <4>2. s \in Nat /\ s < n /\ (g[n].next # 0 => n < g[n].next /\ g[n].next \in Nat)
        BY <1>1, <1>8, <1>12, Link
      <4> QED
        BY <1>8, <1>12, <4>1, <4>2
    <3> QED
      BY <1>1, <1>2, <1>3, <2>2, <2>3, <3>1
  <2>6. ASSUME NEW a \in (L \ {n}) \ {s}, k[a].next \notin {0, s}
        PROVE  ~(k[a].free /\ k[k[a].next].free)
    <3>1. k[a].next = f[a].next /\ f[a].next = g[a].next /\ g[a].next \in L
      BY <1>1, <1>2, <1>3, <2>3, <2>6
    <3> QED
      BY <1>1, <1>2, <1>9, <2>3, <2>6, <3>1
  <2>7. s = heapStart => LET l == k[s].last
                         IN l = 0 \/ (l \in DOMAIN k /\ k[l].next = k[s].next)
    <3>1. k[s].last = g[s].last /\ DOMAIN k = DOMAIN g /\ k[n].next = g[n].next /\ k[s].next = g[n].next
      BY <1>1, <1>2, <1>3, <1>8, <1>12, <2>2, <2>3
    <3> QED
      BY <1>8, <1>10, <1>12, <3>1
  <2>8. \A a \in Used(g, L) \ {s} : k[a].length = g[a].length
    BY <1>3, <1>7, <2>3 DEF Used
  <2>9. HalfFreed(k, L \ {n}, g, L, s, end)
    <3>1. k[s].free
      BY <1>1, <1>2, <2>2, <2>3
    <3> QED
      BY <1>7, <2>3, <2>5, <2>6, <2>7, <2>8, <3>1 DEF HalfFreed
  <2> QED
    BY <2>4, <2>9 DEF f
<1> QED
  BY <1>11, <1>12

\* The second half: backward.
LEMMA FreeBackward ==
    ASSUME NEW g, NEW L, NEW k, NEW M, NEW end \in Nat, NEW c, NEW s,
           HalfFreed(k, M, g, L, s, end)
    PROVE  \E d, N : /\ CombineBackward(H(k, heapStart, c), s) = H(d, heapStart, c)
                     /\ GivesBack(d, N, g, L, s, end)
<1>1. /\ Typed(k, end) /\ Chain(k, M, end) /\ Grained(k, M) /\ BackOfFirst(k)
      /\ s \in M /\ k[s].free /\ (k[s].next # 0 => ~k[k[s].next].free)
      /\ \A a \in M \ {s} : k[a].next \notin {0, s} => ~(k[a].free /\ k[k[a].next].free)
      /\ Used(k, M) = Used(g, L) \ {s}
      /\ \A a \in Used(g, L) \ {s} : k[a].length = g[a].length
      /\ M \subseteq DOMAIN k /\ \A a \in M : k[a].next # 0 => k[a].next \in M
  BY DEF HalfFreed, Chain
<1> DEFINE l == k[s].last
<1>2. ASSUME CombineBackward(H(k, heapStart, c), s) = H(k, heapStart, c),
             \A a \in M : k[a].next = s => ~k[a].free
      PROVE  GivesBack(k, M, g, L, s, end)
  <2>1. Combined(k, M)
    <3> SUFFICES ASSUME NEW a \in M, k[a].next # 0, k[a].free, k[k[a].next].free PROVE FALSE
      BY DEF Combined
    <3>1. a # s
      BY <1>1
    <3>2. k[a].next # s
      BY <1>2
    <3> QED
      BY <1>1, <3>1, <3>2
  <2> QED
    BY <1>1, <2>1 DEF GivesBack, Good
<1>3. CASE s = heapStart
  <2>1. \A a \in M : k[a].next # s
    <3> SUFFICES ASSUME NEW a \in M, k[a].next = s PROVE FALSE
      OBVIOUS
    <3>1. heapStart <= a /\ a \in Nat /\ s \in Nat \ {0} /\ a < s
      BY <1>1, Link
    <3> QED
      BY <1>3, <3>1
  <2>2. l = 0 \/ (l \in DOMAIN k /\ k[l].next = k[s].next) \/ l = k[s].next
    BY <1>3 DEF HalfFreed
  <2>3. CASE l = 0
    BY <1>2, <2>1, <2>3, BackwardCases
  <2>4. CASE l # 0 /\ l = k[s].next
    BY <1>1, <1>2, <2>1, <2>4, BackwardCases
  <2>5. CASE l # 0 /\ l \in DOMAIN k /\ k[l].next = k[s].next
    <3>1. k[l].next = 0 \/ (k[l].next \in DOMAIN k /\ ~k[k[l].next].free)
      BY <1>1, <2>5
    <3>2. ~Absorbs(k, l)
      BY <3>1 DEF Absorbs
    <3>3. CombineForward(H(k, heapStart, c), l) = H(k, heapStart, c)
      BY <1>1, <2>5, <3>1, <3>2, ForwardCases
    <3> QED
      BY <1>2, <2>1, <2>5, <3>3, BackwardCases
  <2> QED
    BY <2>2, <2>3, <2>4, <2>5
<1>4. CASE s # heapStart
  <2>1. PICK p \in M : k[p].next = s
    BY <1>1, <1>4 DEF Chain
  <2>2. s # 0 /\ l = p /\ p # 0 /\ p \in DOMAIN k /\ p < s /\ p \in Nat /\ s \in Nat
    <3>1. s # 0 /\ p # 0 /\ p \in DOMAIN k /\ p \in Nat /\ s \in Nat
      BY <1>1, Link
    <3> QED
      BY <1>1, <2>1, <3>1, Link
  <2>3. \A a \in M : k[a].next = s => a = p
    BY <1>1, <2>1, <2>2, ChainOrder
  <2>4. CASE ~k[p].free
    BY <1>2, <2>2, <2>3, <2>4, BackwardCases
  <2>5. CASE k[p].free
    <3>1. PICK d : d = Joined(k, p)
      OBVIOUS
    <3>2. /\ Absorbs(k, p) /\ Typed(d, end) /\ Chain(d, M \ {s}, end) /\ Grained(d, M \ {s})
          /\ BackOfFirst(d) /\ Used(d, M \ {s}) = Used(k, M)
          /\ \A a \in Used(k, M) : d[a].length = k[a].length
          /\ \A a \in DOMAIN k : d[a].free <=> k[a].free
          /\ DOMAIN d = DOMAIN k /\ d[p].next = k[s].next
          /\ \A a \in DOMAIN k \ {p} : d[a].next = k[a].next
      <4>1. Joinable(k, M, end, p, s)
        BY <1>1, <2>1, <2>2, <2>5 DEF Joinable
      <4>2. JoinKept(d, k, M, end, p, s)
        BY <3>1, <4>1, JoinKeeps
      <4> QED
        BY <2>1, <4>2 DEF JoinKept
    <3>3. CombineBackward(H(k, heapStart, c), s) = CombineForward(H(k, heapStart, c), p)
      BY <2>2, <2>5, BackwardCases
    <3>4. CombineForward(H(k, heapStart, c), p) = H(d, heapStart, c)
      BY <1>1, <2>1, <2>2, <3>1, <3>2, ForwardCases
    <3>5. Combined(d, M \ {s})
      <4> SUFFICES ASSUME NEW a \in M \ {s}, d[a].next # 0, d[a].free, d[d[a].next].free PROVE FALSE
        BY DEF Combined
      <4>1. CASE a = p
        <5>1. k[s].next \in M /\ k[s].next # 0 /\ d[a].next = k[s].next
          BY <1>1, <3>2, <4>1
        <5> QED
          BY <1>1, <3>2, <5>1
      <4>2. CASE a # p
        <5>1. d[a].next = k[a].next /\ k[a].next # s /\ k[a].next \in M /\ k[a].free
          BY <1>1, <2>3, <3>2, <4>2
        <5> QED
          BY <1>1, <3>2, <5>1
      <4> QED
        BY <4>1, <4>2
    <3>6. GivesBack(d, M \ {s}, g, L, s, end)
      BY <1>1, <3>2, <3>5 DEF GivesBack, Good
    <3> QED
      BY <3>3, <3>4, <3>6
  <2> QED
    BY <2>4, <2>5
<1> QED
  BY <1>3, <1>4

\* Giving back a segment in use leaves a good list, unless its back pointer leads into
\* the block.
LEMMA ReleaseGood ==
    ASSUME NEW g, NEW L, NEW end \in Nat, NEW c, ~c, Typed(g, end), Good(g, L, end),
           NEW s \in L, ~g[s].free, Straight(g, s), NEW payload, payload = s + HeaderSize
    PROVE  \E d, N : /\ free(H(g, heapStart, c), payload) = H(d, heapStart, c)
                     /\ GivesBack(d, N, g, L, s, end)
<1>1. s \in DOMAIN g /\ payload - HeaderSize = s
  <2>1. s \in Nat /\ HeaderSize \in Nat /\ s \in DOMAIN g
    <3>1. Chain(g, L, end)
      BY DEF Good
    <3> QED
      BY <3>1, Link, HeapAssumption
  <2> QED
    BY <2>1
<1>2. PICK k, M : /\ CombineForward(H(Freed(g, s), heapStart, c), s) = H(k, heapStart, c)
                  /\ HalfFreed(k, M, g, L, s, end)
  BY FreeForward
<1>3. ~H(k, heapStart, c).corrupt
  BY HeapFields
<1>4. free(H(g, heapStart, c), payload) = CombineBackward(H(k, heapStart, c), s)
  BY <1>1, <1>2, <1>3, FreeCases
<1> QED
  BY <1>2, <1>4, FreeBackward
-----------------------------------------------------------------------------
(* The list and the blocks handed out: an invariant, and the theorems *)

\* The blocks handed out are the payloads of the segments in use.
Blocks(g, L, lv) ==
    /\ {b.start : b \in lv} = {a + HeaderSize : a \in Used(g, L)}
    /\ \A b, c \in lv : b.start = c.start => b = c
    /\ \A b \in lv : \A a \in Used(g, L) : b.start = a + HeaderSize => b.size <= g[a].length

\* Until the heap first grows, and as long as no block was freed whose back
\* pointer led into itself, no pointer leads to nowhere and the list is good.
LInv ==
    Unexpanded /\ ~misled =>
        /\ ~corrupt
        /\ LastHdr = heapStart
        /\ \E L : Good(seg, L, heapEnd) /\ Blocks(seg, L, live)

IInv == TInv /\ LInv

LEMMA BecomeGood ==
    ASSUME NEW h, NEW d, NEW c, NEW N, NEW end \in Nat, h = H(d, heapStart, c), Typed(d, end),
           Good(d, N, end), Become(h)
    PROVE  /\ Good(seg', N, end) /\ Used(seg', N) = Used(d, N) /\ \A a \in N : seg'[a] = d[a]
           /\ LastHdr' = heapStart /\ corrupt' = c
<1>1. h.seg = d /\ h.last = heapStart /\ h.corrupt = c
  BY HeapFields
<1>2. Chain(d, N, end)
  BY DEF Good
<1>3. PICK R : R = Reached(h)
  OBVIOUS
<1>4. R \in SUBSET DOMAIN d /\ N \subseteq R
  BY <1>1, <1>2, <1>3, ReachedHoldsChain
<1>5. seg' = Restrict(d, R) /\ LastHdr' = heapStart /\ corrupt' = c
  BY <1>1, <1>3 DEF Become
<1> QED
  BY <1>4, <1>5, GoodKept

LEMMA BlocksTaken ==
    ASSUME NEW g, NEW L, NEW lv, Blocks(g, L, lv), L \subseteq Nat,
           NEW k, NEW M, NEW s \in Nat, s \notin Used(g, L), NEW size, NEW end,
           TakesOver(k, M, g, L, s, size, end)
    PROVE  Blocks(k, M, lv \union {[start |-> s + HeaderSize, size |-> size]})
<1> DEFINE n == [start |-> s + HeaderSize, size |-> size]
<1>1. /\ Used(k, M) = Used(g, L) \union {s} /\ k[s].length >= size
      /\ \A a \in Used(g, L) : k[a].length = g[a].length
  BY DEF TakesOver
<1>2. HeaderSize \in Nat /\ Used(g, L) \subseteq Nat
  BY HeapAssumption DEF Used
<1>3. n.start = s + HeaderSize /\ n.size = size
  OBVIOUS
<1> HIDE DEF n
<1>4. \A b \in lv : b.start # s + HeaderSize
  <2> SUFFICES ASSUME NEW b \in lv, b.start = s + HeaderSize PROVE FALSE
    OBVIOUS
  <2>1. PICK a \in Used(g, L) : b.start = a + HeaderSize
    BY DEF Blocks
  <2> QED
    BY <1>2, <2>1
<1>5. {b.start : b \in lv \union {n}} = {a + HeaderSize : a \in Used(k, M)}
  <2>1. {b.start : b \in lv \union {n}} = {b.start : b \in lv} \union {s + HeaderSize}
    BY <1>3
  <2>2. {a + HeaderSize : a \in Used(k, M)}
          = {a + HeaderSize : a \in Used(g, L)} \union {s + HeaderSize}
    BY <1>1
  <2> QED
    BY <2>1, <2>2 DEF Blocks
<1>6. \A b, c \in lv \union {n} : b.start = c.start => b = c
  BY <1>3, <1>4 DEF Blocks
<1>7. ASSUME NEW b \in lv \union {n}, NEW a \in Used(k, M), b.start = a + HeaderSize
      PROVE  b.size <= k[a].length
  <2>1. CASE b = n
    <3>1. a = s
      BY <1>1, <1>2, <1>3, <1>7, <2>1
    <3> QED
      BY <1>1, <1>3, <2>1, <3>1
  <2>2. CASE b # n
    <3>1. b \in lv /\ a # s
      BY <1>4, <1>7, <2>2
    <3>2. a \in Used(g, L)
      BY <1>1, <3>1
    <3> QED
      BY <1>1, <1>7, <3>1, <3>2 DEF Blocks
  <2> QED
    BY <2>1, <2>2
<1> QED
  BY <1>5, <1>6, <1>7 DEF Blocks, n

LEMMA BlocksGiven ==
    ASSUME NEW g, NEW L, NEW lv, Blocks(g, L, lv), L \subseteq Nat,
           NEW k, NEW M, NEW s \in Nat, NEW b \in lv, b.start = s + HeaderSize, NEW end,
           GivesBack(k, M, g, L, s, end)
    PROVE  Blocks(k, M, lv \ {b})
<1>1. /\ Used(k, M) = Used(g, L) \ {s}
      /\ \A a \in Used(g, L) \ {s} : k[a].length = g[a].length
  BY DEF GivesBack
<1>2. HeaderSize \in Nat /\ Used(g, L) \subseteq Nat
  BY HeapAssumption DEF Used
<1>3. \A c \in lv : c.start = s + HeaderSize => c = b
  BY DEF Blocks
<1>4. ASSUME NEW c \in lv \ {b} PROVE \E a \in Used(k, M) : c.start = a + HeaderSize
  <2>1. PICK a \in Used(g, L) : c.start = a + HeaderSize
    BY DEF Blocks
  <2> QED
    BY <1>1, <1>3, <2>1
<1>5. ASSUME NEW a \in Used(k, M) PROVE \E c \in lv \ {b} : c.start = a + HeaderSize
  <2>1. a \in Used(g, L) /\ a # s /\ a \in Nat
    BY <1>1, <1>2
  <2>2. PICK c \in lv : c.start = a + HeaderSize
    BY <2>1 DEF Blocks
  <2>3. c # b
    BY <1>2, <2>1, <2>2
  <2> QED
    BY <2>2, <2>3
<1>6. {c.start : c \in lv \ {b}} = {a + HeaderSize : a \in Used(k, M)}
  BY <1>4, <1>5
<1>7. \A d, c \in lv \ {b} : d.start = c.start => d = c
  BY DEF Blocks
<1>8. \A c \in lv \ {b} : \A a \in Used(k, M) : c.start = a + HeaderSize => c.size <= k[a].length
  BY <1>1 DEF Blocks
<1> QED
  BY <1>6, <1>7, <1>8 DEF Blocks

\* The blocks only look at the segments in use.
LEMMA BlocksSame ==
    ASSUME NEW g, NEW k, NEW L, NEW lv, Blocks(g, L, lv), Used(k, L) = Used(g, L),
           \A a \in L : k[a] = g[a]
    PROVE  Blocks(k, L, lv)
BY DEF Blocks, Used

LEMMA InitList == Init => LInv
<1> SUFFICES ASSUME Init PROVE LInv
  OBVIOUS
<1>1. /\ heapStart \in Nat \ {0} /\ HeaderSize \in Nat \ {0} /\ HeaderSize < PageSize
      /\ PageSize \in Nat /\ Grain \in Nat \ {0}
  BY HeapAssumption
<1>2. PICK i \in Nat : i = InitialPages * PageSize /\ PageSize <= i /\ heapEnd = heapStart + i
  BY Bounds DEF Init
<1>3. i - HeaderSize >= Grain /\ i - HeaderSize \in Nat
  BY <1>1, <1>2, PageHolds
<1>4. /\ DOMAIN seg = {heapStart}
      /\ seg[heapStart] = Header(i - HeaderSize, 0, 0, TRUE)
  BY <1>2 DEF Init
<1>5. /\ seg[heapStart].length = i - HeaderSize /\ seg[heapStart].next = 0
      /\ seg[heapStart].last = 0 /\ seg[heapStart].free
  BY <1>4 DEF Header
<1>6. End(seg, heapStart) = heapEnd
  BY <1>1, <1>2, <1>5 DEF End
<1>7. Chain(seg, {heapStart}, heapEnd)
  BY <1>4, <1>5, <1>6 DEF Chain
<1>8. Good(seg, {heapStart}, heapEnd)
  BY <1>3, <1>5, <1>7 DEF Good, Combined, Grained, BackOfFirst
<1>9. Used(seg, {heapStart}) = {}
  BY <1>5 DEF Used
<1>10. Blocks(seg, {heapStart}, live)
  BY <1>9 DEF Blocks, Init
<1> QED
  BY <1>8, <1>10 DEF LInv, Init

\* A good list is the one malloc walks, and tiles the heap.
LEMMA GoodTiles ==
    ASSUME NEW L, heapEnd \in Nat, Typed(seg, heapEnd), Chain(seg, L, heapEnd), Combined(seg, L)
    PROVE  Listed = L /\ Tiling
<1>1. Listed = L
  BY ListedIsChain
<1>2. ASSUME NEW a \in L
      PROVE  /\ a \in DOMAIN seg
             /\ IF seg[a].next = 0 THEN SegmentEnd(a) = heapEnd
                ELSE /\ seg[a].next = SegmentEnd(a)
                     /\ seg[seg[a].next].last = a
                     /\ ~(seg[a].free /\ seg[seg[a].next].free)
  <2>1. SegmentEnd(a) = End(seg, a)
    BY DEF SegmentEnd, End
  <2> QED
    BY <2>1, Link DEF Combined
<1> QED
  BY <1>1, <1>2 DEF Tiling

\* As long as the list is good, the blocks handed out are apart.
LEMMA InvariantBlocks == TInv /\ LInv => Tiled /\ BlocksDisjoint
<1> SUFFICES ASSUME TInv, LInv, Unexpanded, ~misled
             PROVE  /\ Sound
                    /\ {a + HeaderSize : a \in {s \in Listed : ~seg[s].free}} = {b.start : b \in live}
                    /\ \A b, c \in live : b.start = c.start => b = c
                    /\ \A b \in live :
                          /\ b.start % Grain = heapStart % Grain
                          /\ b.start + b.size <= heapEnd
                          /\ \A c \in live \ {b} : Apart(b, c)
                          /\ \A a \in Listed : Apart(b, [start |-> a, size |-> HeaderSize])
  BY DEF Tiled, BlocksDisjoint
<1>1. heapEnd \in Nat /\ Typed(seg, heapEnd) /\ live \subseteq [start : Nat, size : Nat \ {0}]
  BY DEF TInv
<1>2. PICK L : Good(seg, L, heapEnd) /\ Blocks(seg, L, live)
  BY DEF LInv
<1>3. Chain(seg, L, heapEnd) /\ Combined(seg, L) /\ Grained(seg, L)
  BY <1>2 DEF Good
<1>4. Listed = L /\ Sound
  BY <1>1, <1>3, GoodTiles DEF LInv, Sound
<1>5. {a + HeaderSize : a \in {s \in Listed : ~seg[s].free}} = {b.start : b \in live}
  BY <1>2, <1>4 DEF Blocks, Used
<1>6. \A b, c \in live : b.start = c.start => b = c
  BY <1>2 DEF Blocks
<1>7. HeaderSize \in Nat \ {0} /\ HeaderSize % Grain = 0 /\ Grain \in Nat \ {0}
  BY HeapAssumption
<1>8. ASSUME NEW b \in live
      PROVE  \E a \in L : /\ b.start = a + HeaderSize /\ b.start + b.size <= End(seg, a)
                          /\ a \in Nat /\ b.start \in Nat /\ b.size \in Nat /\ End(seg, a) \in Nat
                          /\ End(seg, a) <= heapEnd
  <2>1. PICK a \in Used(seg, L) : b.start = a + HeaderSize
    BY <1>2 DEF Blocks
  <2>2. b.size <= seg[a].length /\ a \in L
    BY <1>2, <2>1 DEF Blocks, Used
  <2>3. /\ a \in Nat /\ seg[a].length \in Nat /\ End(seg, a) = a + HeaderSize + seg[a].length
        /\ End(seg, a) <= heapEnd
    BY <1>1, <1>3, <2>2, Link
  <2>4. b.start \in Nat /\ b.size \in Nat
    BY <1>1
  <2> QED
    BY <1>7, <2>1, <2>2, <2>3, <2>4
<1>9. \A a, c \in L : a < c => End(seg, a) <= c
  BY <1>1, <1>3, ChainOrder
<1>10. \A a \in L : a \in Nat
  BY <1>1, <1>3, ChainOrder
<1>11. ASSUME NEW b \in live
       PROVE  /\ b.start % Grain = heapStart % Grain
              /\ b.start + b.size <= heapEnd
              /\ \A c \in live \ {b} : Apart(b, c)
              /\ \A a \in Listed : Apart(b, [start |-> a, size |-> HeaderSize])
  <2>1. PICK a \in L : /\ b.start = a + HeaderSize /\ b.start + b.size <= End(seg, a)
                       /\ a \in Nat /\ b.start \in Nat /\ b.size \in Nat /\ End(seg, a) \in Nat
                       /\ End(seg, a) <= heapEnd
    BY <1>8
  <2>2. b.start % Grain = heapStart % Grain
    <3>1. (a + HeaderSize) % Grain = a % Grain
      BY <1>7, <2>1, RemainderShift
    <3>2. a % Grain = heapStart % Grain
      BY <1>3 DEF Grained
    <3> QED
      BY <2>1, <3>1, <3>2
  <2>3. b.start + b.size <= heapEnd
    BY <1>1, <2>1
  <2>4. ASSUME NEW c \in live \ {b} PROVE Apart(b, c)
    <3>1. PICK d \in L : /\ c.start = d + HeaderSize /\ c.start + c.size <= End(seg, d)
                         /\ d \in Nat /\ c.start \in Nat /\ c.size \in Nat /\ End(seg, d) \in Nat
      BY <1>8
    <3>2. a # d
      BY <1>6, <2>1, <3>1
    <3>3. a < d => b.start + b.size <= c.start
      BY <1>7, <1>9, <2>1, <3>1
    <3>4. d < a => c.start + c.size <= b.start
      BY <1>7, <1>9, <2>1, <3>1
    <3> QED
      BY <2>1, <3>1, <3>2, <3>3, <3>4 DEF Apart
  <2>5. ASSUME NEW d \in Listed PROVE Apart(b, [start |-> d, size |-> HeaderSize])
    <3>1. d \in L /\ d \in Nat
      BY <1>4, <1>10
    <3>2. a < d => b.start + b.size <= d
      BY <1>9, <2>1, <3>1
    <3>3. ~(a < d) => d + HeaderSize <= b.start
      BY <1>7, <2>1, <3>1
    <3> QED
      BY <3>2, <3>3 DEF Apart
  <2> QED
    BY <2>2, <2>3, <2>4, <2>5
<1> QED
  BY <1>4, <1>5, <1>6, <1>11

\* Allocating takes a segment of the list.
LEMMA AllocateList == TInv /\ LInv /\ Allocate => LInv'
<1> SUFFICES ASSUME TInv, LInv, Allocate, Unexpanded', ~misled'
             PROVE  /\ ~corrupt' /\ LastHdr' = heapStart
                    /\ \E L : Good(seg', L, heapEnd') /\ Blocks(seg', L, live')
  BY DEF LInv
<1>0. HeaderSize \in Nat \ {0} /\ heapStart \in Nat \ {0}
  BY HeapAssumption
<1>1. /\ heapEnd \in Nat /\ Typed(seg, heapEnd) /\ heap = H(seg, LastHdr, corrupt) /\ heapEnd' = heapEnd
      /\ pending \in Nat \ {0} /\ pending >= Grain /\ pending % Grain = 0 /\ ~corrupt /\ Unexpanded /\ ~misled
      /\ live \subseteq [start : Nat, size : Nat \ {0}]
  BY DEF TInv, heap, H, Allocate, Sound, Unexpanded
<1>2. LastHdr = heapStart
  BY <1>1 DEF LInv
<1>3. PICK L : Good(seg, L, heapEnd) /\ Blocks(seg, L, live)
  BY <1>1 DEF LInv
<1>4. Chain(seg, L, heapEnd) /\ L \subseteq Nat /\ L \subseteq DOMAIN seg
  BY <1>1, <1>3, ChainOrder DEF Good, Chain
<1>5. PICK n \in DOMAIN Nth :
          /\ Fits(n)
          /\ LET s == Nth[n]
                 h == Split(heap, s, pending)
             IN /\ Become(IF h.corrupt THEN h ELSE [h EXCEPT !.seg = [@ EXCEPT ![s].free = FALSE]])
                /\ live' = live \union {[start |-> s + HeaderSize, size |-> pending]}
  BY DEF Allocate
<1>6. PICK s : s = Nth[n]
  OBVIOUS
<1>7. PICK h : h = Split(H(seg, heapStart, corrupt), s, pending)
  OBVIOUS
<1>8. PICK g : g = TakenHeap(seg, heapStart, corrupt, s, pending)
  OBVIOUS
<1>9. /\ s \in DOMAIN seg /\ seg[s].free /\ seg[s].length >= pending
      /\ Become(IF h.corrupt THEN h ELSE g)
      /\ live' = live \union {[start |-> s + HeaderSize, size |-> pending]}
  BY <1>1, <1>2, <1>5, <1>6, <1>7, <1>8 DEF Fits, TakenHeap
<1>10. s \in L /\ s \in Nat
  <2>1. s \in L \/ s = 0
    BY <1>1, <1>4, <1>6, ListedIsChain
  <2>2. s # 0
    BY <1>1, <1>9, TypedHeader
  <2> QED
    BY <1>4, <2>1, <2>2
<1>11. pending <= seg[s].length
  BY <1>1, <1>9, TypedHeader
<1>12. /\ h.corrupt = corrupt
       /\ \E k, M : g = H(k, heapStart, corrupt) /\ TakesOver(k, M, seg, L, s, pending, heapEnd)
  BY <1>1, <1>3, <1>7, <1>8, <1>9, <1>10, <1>11, TakeGood
<1>13. PICK k, M : g = H(k, heapStart, corrupt) /\ TakesOver(k, M, seg, L, s, pending, heapEnd)
  BY <1>12
<1>14. /\ Typed(k, heapEnd) /\ Good(k, M, heapEnd) /\ Used(k, M) = Used(seg, L) \union {s}
       /\ Chain(k, M, heapEnd)
  BY <1>13 DEF TakesOver, Good
<1>15. M \subseteq Nat
  BY <1>1, <1>14, ChainOrder
<1> DEFINE new == [start |-> s + HeaderSize, size |-> pending]
<1>16. s \notin Used(seg, L)
  BY <1>9 DEF Used
<1>17. Blocks(k, M, live \union {new})
  BY <1>3, <1>4, <1>10, <1>13, <1>16, BlocksTaken
<1>18. /\ Good(seg', M, heapEnd) /\ Used(seg', M) = Used(k, M) /\ \A a \in M : seg'[a] = k[a]
       /\ LastHdr' = heapStart /\ corrupt' = corrupt
  BY <1>1, <1>9, <1>12, <1>13, <1>14, BecomeGood
<1>19. Blocks(seg', M, live')
  BY <1>9, <1>17, <1>18, BlocksSame
<1> QED
  BY <1>1, <1>18, <1>19

\* Freeing gives one back.
LEMMA ReleaseList ==
    ASSUME TInv, LInv, Sound, NEW b \in live, Release(b), heapEnd' = heapEnd PROVE LInv'
<1> SUFFICES ASSUME Unexpanded', ~misled'
             PROVE  /\ ~corrupt' /\ LastHdr' = heapStart
                    /\ \E L : Good(seg', L, heapEnd') /\ Blocks(seg', L, live')
  BY DEF LInv
<1>1. /\ heapEnd \in Nat /\ Typed(seg, heapEnd) /\ heap = H(seg, LastHdr, corrupt)
      /\ ~corrupt /\ Unexpanded /\ ~misled /\ ~Misleads(b.start)
  BY DEF TInv, heap, H, Release, Sound, Unexpanded
<1>2. LastHdr = heapStart
  BY <1>1 DEF LInv
<1>3. PICK L : Good(seg, L, heapEnd) /\ Blocks(seg, L, live)
  BY <1>1 DEF LInv
<1>4. L \subseteq Nat /\ L \subseteq DOMAIN seg
  BY <1>1, <1>3, ChainOrder DEF Good, Chain
<1>5. Become(free(heap, b.start)) /\ live' = live \ {b}
  BY DEF Release
<1>6. PICK a \in Used(seg, L) : b.start = a + HeaderSize
  BY <1>3 DEF Blocks
<1>7. a \in L /\ ~seg[a].free /\ a \in Nat /\ a \in DOMAIN seg
  BY <1>4 DEF Used
<1>8. Straight(seg, a)
  <2>1. b.start - HeaderSize = a
    BY <1>6, <1>7, HeapAssumption
  <2> QED
    BY <1>1, <1>6, <1>7, <2>1 DEF Misleads, Straight, SegmentEnd, End
<1>9. PICK d, N : free(heap, b.start) = H(d, heapStart, corrupt) /\ GivesBack(d, N, seg, L, a, heapEnd)
  BY <1>1, <1>2, <1>3, <1>6, <1>7, <1>8, ReleaseGood
<1>10. Typed(d, heapEnd) /\ Good(d, N, heapEnd)
  BY <1>9 DEF GivesBack
<1>11. /\ Good(seg', N, heapEnd) /\ Used(seg', N) = Used(d, N) /\ \A x \in N : seg'[x] = d[x]
       /\ LastHdr' = heapStart /\ corrupt' = corrupt
  BY <1>1, <1>5, <1>9, <1>10, BecomeGood
<1>12. Blocks(d, N, live \ {b})
  BY <1>3, <1>4, <1>6, <1>7, <1>9, BlocksGiven
<1>13. Blocks(seg', N, live')
  BY <1>5, <1>11, <1>12, BlocksSame
<1> QED
  BY <1>1, <1>11, <1>13

\* What an owner writes over is no header of the list.
LEMMA WriteList == TInv /\ LInv /\ Write => LInv'
<1> SUFFICES ASSUME TInv, LInv, Write, Unexpanded', ~misled'
             PROVE  /\ ~corrupt' /\ LastHdr' = heapStart
                    /\ \E L : Good(seg', L, heapEnd') /\ Blocks(seg', L, live')
  BY DEF LInv
<1>1. /\ heapEnd \in Nat /\ Typed(seg, heapEnd) /\ ~corrupt /\ Unexpanded /\ ~misled
      /\ heapEnd' = heapEnd /\ live' = live
      /\ live \subseteq [start : Nat, size : Nat \ {0}]
  BY DEF TInv, Write, Sound, Unexpanded
<1>2. LastHdr = heapStart
  BY <1>1 DEF LInv
<1>3. PICK L : Good(seg, L, heapEnd) /\ Blocks(seg, L, live)
  BY <1>1 DEF LInv
<1>4. Chain(seg, L, heapEnd) /\ Combined(seg, L) /\ L \subseteq DOMAIN seg
  BY <1>3 DEF Good, Chain
<1>5. PICK b \in live, a \in DOMAIN seg :
          /\ a < b.start + b.size /\ b.start < a + HeaderSize
          /\ Become([heap EXCEPT !.seg = Restrict(@, DOMAIN @ \ {a})])
  BY DEF Write
<1>6. a \notin L
  <2>1. Listed = L
    BY <1>1, <1>4, GoodTiles
  <2>2. ASSUME a \in L PROVE Apart(b, [start |-> a, size |-> HeaderSize])
    BY <1>1, <2>1, <2>2, InvariantBlocks DEF BlocksDisjoint
  <2>3. b.start \in Nat /\ b.size \in Nat /\ a \in Nat /\ HeaderSize \in Nat
    BY <1>1, HeapAssumption, TypedHeader
  <2>4. ~(b.start + b.size <= a \/ a + HeaderSize <= b.start)
    BY <1>5, <2>3
  <2> QED
    BY <2>2, <2>4 DEF Apart
<1>7. PICK R \in SUBSET DOMAIN seg : R = DOMAIN seg \ {a}
  OBVIOUS
<1>8. PICK k : k = Restrict(seg, R)
  OBVIOUS
<1>9. [heap EXCEPT !.seg = Restrict(@, DOMAIN @ \ {a})] = H(k, heapStart, corrupt)
  BY <1>2, <1>7, <1>8 DEF heap, H
<1>10. /\ Typed(k, heapEnd) /\ Good(k, L, heapEnd) /\ Used(k, L) = Used(seg, L)
       /\ \A x \in L : k[x] = seg[x]
  <2>1. L \subseteq R
    BY <1>4, <1>6, <1>7
  <2> QED
    BY <1>1, <1>3, <1>8, <2>1, GoodKept, RestrictTyped
<1>11. /\ Good(seg', L, heapEnd) /\ Used(seg', L) = Used(k, L) /\ \A x \in L : seg'[x] = k[x]
       /\ LastHdr' = heapStart /\ corrupt' = corrupt
  BY <1>1, <1>5, <1>9, <1>10, BecomeGood
<1>12. Blocks(seg', L, live')
  BY <1>1, <1>3, <1>10, <1>11, BlocksSame
<1> QED
  BY <1>1, <1>11, <1>12

\* Every step keeps the list good, until the heap grows.
LEMMA NextList == TInv /\ LInv /\ [Next]_vars => LInv'
<1> SUFFICES ASSUME TInv, LInv, [Next]_vars PROVE LInv'
  OBVIOUS
<1>1. ASSUME UNCHANGED <<seg, heapEnd, LastHdr, live, corrupt, misled>> PROVE LInv'
  BY <1>1 DEF LInv, Unexpanded
<1>2. ASSUME NEW size \in Sizes, malloc(size) \/ realloc(size) PROVE LInv'
  BY <1>1, <1>2 DEF malloc, realloc
<1>3. CASE Allocate
  BY <1>3, AllocateList
<1>4. CASE ExpandHeap
  <2>1. PICK size \in Nat : heapEnd' = heapEnd + size /\ size > 0
    <3>1. PageSize \in Nat \ {0}
      BY HeapAssumption
    <3> QED
      BY <1>4, <3>1 DEF ExpandHeap, TInv
  <2>2. heapEnd' # Least
    BY <2>1, Bounds DEF TInv
  <2> QED
    BY <2>2 DEF LInv, Unexpanded, Least
<1>5. CASE Free
  <2>1. PICK b \in live : Release(b)
    BY <1>5 DEF Free
  <2> QED
    BY <1>5, <2>1, ReleaseList DEF Free
<1>6. CASE FreeOrigin
  <2>1. PICK b \in live : Release(b)
    BY <1>6 DEF FreeOrigin
  <2> QED
    BY <1>6, <2>1, ReleaseList DEF FreeOrigin
<1>7. CASE Write
  BY <1>7, WriteList
<1>8. CASE UNCHANGED vars
  BY <1>1, <1>8 DEF vars
<1> QED
  BY <1>2, <1>3, <1>4, <1>5, <1>6, <1>7, <1>8 DEF Next

LEMMA Invariant == Spec => []IInv
<1>1. Init => IInv
  BY InitTypes, InitList DEF IInv
<1>2. IInv /\ [Next]_vars => IInv'
  BY NextTypes, NextList DEF IInv
<1> QED
  BY <1>1, <1>2, PTL DEF Spec

LEMMA InvariantTypes == TInv => TypeOK
<1> SUFFICES ASSUME TInv PROVE TypeOK
  OBVIOUS
<1>1. PICK m \in Nat : m = heapStart + MaxPages * PageSize /\ heapEnd <= m /\ m = Most
  BY Bounds DEF TInv, Most
<1>2. Addresses = 0..m /\ heapEnd \in Nat /\ Typed(seg, heapEnd)
  BY <1>1 DEF Addresses, TInv
<1>3. HeaderSize \in Nat
  BY HeapAssumption
<1>4. ASSUME NEW a \in DOMAIN seg PROVE a \in Addresses \ {0} /\ seg[a] \in Headers
  <2>1. /\ a \in Nat \ {0} /\ seg[a] \in HeaderType
        /\ seg[a].length \in Nat /\ seg[a].next \in Nat /\ seg[a].last \in Nat
        /\ a < End(seg, a) /\ End(seg, a) <= heapEnd /\ seg[a].last <= heapEnd
        /\ seg[a].next # 0 => seg[a].next <= heapEnd
    BY <1>2, TypedHeader
  <2>2. /\ a \in Addresses /\ seg[a].length \in Addresses /\ seg[a].next \in Addresses
        /\ seg[a].last \in Addresses
    BY <1>1, <1>2, <1>3, <2>1 DEF End
  <2> QED
    BY <2>1, <2>2 DEF HeaderType, Headers
<1>5. heapEnd \in Addresses /\ LastHdr \in Addresses /\ origin \in Addresses
  BY <1>1, <1>2 DEF TInv
<1>6. \A b \in live : b \in [start : Addresses, size : Nat \ {0}]
  BY <1>1, <1>2 DEF TInv
<1> QED
  BY <1>4, <1>5, <1>6 DEF TypeOK, TInv

\* For any sizes asked for and any number of pages: every header stays within
\* the heap, and until the heap first grows or a block is freed whose back
\* pointer leads into itself, the list tiles the heap and the blocks handed out
\* are whole payloads of different segments (malloc, realloc, free, Split and
\* the Combine functions), whatever their owners write to them.
THEOREM HeapIsSound == Spec => []HeapInv
<1>1. IInv => HeapInv
  BY InvariantTypes, InvariantBlocks DEF IInv, HeapInv
<1> QED
  BY <1>1, Invariant, PTL

\* For any history of calls that ends with nothing handed out, before the heap
\* grows and with no block freed whose back pointer leads into itself, one free
\* segment holds it all again (free).
THEOREM NothingIsLost == Spec => []AllComesBack
<1>1. IInv => AllComesBack
  <2> SUFFICES ASSUME IInv, Unexpanded, ~misled, live = {}
               PROVE  seg[heapStart] = [seg[heapStart] EXCEPT !.free = TRUE, !.next = 0,
                                           !.length = InitialPages * PageSize - HeaderSize]
    BY DEF AllComesBack
  <2>1. heapEnd \in Nat /\ Typed(seg, heapEnd)
    BY DEF IInv, TInv
  <2>2. PICK L : Good(seg, L, heapEnd) /\ Blocks(seg, L, live)
    BY DEF IInv, LInv
  <2>3. Chain(seg, L, heapEnd) /\ Combined(seg, L) /\ heapStart \in L
    BY <2>2 DEF Good, Chain
  <2>4. \A a \in L : seg[a].free
    <3> SUFFICES ASSUME NEW a \in L, ~seg[a].free PROVE FALSE
      OBVIOUS
    <3>1. a + HeaderSize \in {b.start : b \in live}
      BY <2>2 DEF Blocks, Used
    <3> QED
      BY <3>1
  <2>5. seg[heapStart].next = 0
    <3>1. seg[heapStart].next # 0 => seg[heapStart].next \in L
      BY <2>3 DEF Chain
    <3> QED
      BY <2>3, <2>4, <3>1 DEF Combined
  <2>6. /\ End(seg, heapStart) = heapEnd /\ seg[heapStart].length \in Nat
        /\ End(seg, heapStart) = heapStart + HeaderSize + seg[heapStart].length
        /\ heapStart \in DOMAIN seg
    BY <2>1, <2>3, <2>5, Link
  <2>7. PICK i \in Nat : i = InitialPages * PageSize /\ heapEnd = heapStart + i
    BY Bounds DEF Unexpanded
  <2>8. seg[heapStart].length = i - HeaderSize
    <3>1. PICK len \in Nat : len = seg[heapStart].length
      BY <2>6
    <3>2. heapStart \in Nat /\ HeaderSize \in Nat
      BY HeapAssumption
    <3>3. heapStart + HeaderSize + len = heapStart + i
      BY <2>6, <2>7, <3>1
    <3>4. len = i - HeaderSize
      BY <2>7, <3>2, <3>3
    <3> QED
      BY <3>1, <3>4
  <2>9. seg[heapStart] \in HeaderType /\ seg[heapStart].free = TRUE
    BY <2>1, <2>3, <2>4, <2>6, TypedHeader
  <2> QED
    BY <2>5, <2>7, <2>8, <2>9 DEF HeaderType
<1> QED
  BY <1>1, Invariant, PTL
-----------------------------------------------------------------------------
(* The heap grows at the end of its list *)

\* A list that tiles the heap, as malloc walks it, is a chain: it does not end
\* for want of steps, for each step leads to a higher header.
LEMMA TilesChain ==
    ASSUME heapEnd \in Nat, Typed(seg, heapEnd), Tiling
    PROVE  Chain(seg, Listed, heapEnd) /\ Combined(seg, Listed)
<1> DEFINE D == DOMAIN seg
           N == Cardinality(D)
           G == [x \in Nat |-> IF x \in D THEN seg[x].next ELSE 0]
<1>1. /\ N \in Nat /\ IsFiniteSet(D) /\ D \subseteq Nat \ {0} /\ heapStart \in Nat \ {0}
  BY FiniteHeaders, HeapAssumption DEF Typed
<1>2. G \in [Nat -> Nat]
  BY TypedHeader
<1>3. /\ Nth \in [0..N -> Nat]
      /\ \A n \in 0..N : Nth[n] = IF n = 0 THEN heapStart
                                  ELSE IF Nth[n - 1] \in D THEN seg[Nth[n - 1]].next ELSE 0
  <2>1. PICK at \in [0..N -> Nat] : at = [n \in 0..N |-> IF n = 0 THEN heapStart ELSE G[at[n - 1]]]
    <3> HIDE DEF G, N, D
    <3>1. HasIterates(Nat, heapStart, G, N)
      BY <1>1, <1>2, Iterate
    <3> QED
      BY <3>1 DEF HasIterates
  <2>2. ASSUME NEW n \in 0..N, n # 0
        PROVE  G[at[n - 1]] = IF at[n - 1] \in D THEN seg[at[n - 1]].next ELSE 0
    <3>1. n - 1 \in 0..N
      BY <1>1, <2>2
    <3>2. at[n - 1] \in Nat
      BY <3>1
    <3> QED
      BY <3>2
  <2> HIDE DEF G, N
  <2>3. at = [n \in 0..N |-> IF n = 0 THEN heapStart
                             ELSE IF at[n - 1] \in D THEN seg[at[n - 1]].next ELSE 0]
    BY <2>1, <2>2
  <2>4. Nth = [n \in 0..N |-> IF n = 0 THEN heapStart
                              ELSE IF Nth[n - 1] \in D THEN seg[Nth[n - 1]].next ELSE 0]
    BY <2>3 DEF Nth, N
  <2>5. Nth \in [0..N -> Nat]
    <3>1. \A n \in 0..N : at[n] \in Nat
      BY <2>1
    <3>2. ASSUME NEW n \in 0..N, Nth[n] \notin Nat PROVE FALSE
      <4>1. CASE n = 0
        BY <1>1, <2>4, <3>2, <4>1
      <4>2. CASE n # 0
        <5>1. Nth[n] = IF Nth[n - 1] \in D THEN seg[Nth[n - 1]].next ELSE 0
          BY <2>4, <4>2
        <5> QED
          BY <3>2, <5>1, TypedHeader
      <4> QED
        BY <4>1, <4>2
    <3> QED
      BY <2>4, <3>2
  <2> QED
    BY <2>4, <2>5
<1> HIDE DEF G
<1>4. Listed = {Nth[n] : n \in 0..N} \ {0} /\ DOMAIN Nth = 0..N
  BY <1>3 DEF Listed, Range
<1>5. heapStart \in Listed
  <2>1. 0 \in 0..N
    BY <1>1
  <2>2. Nth[0] = heapStart
    BY <1>3, <2>1
  <2> QED
    BY <1>1, <1>4, <2>1, <2>2
<1>6. ASSUME NEW a \in Listed
      PROVE  /\ a \in D
             /\ IF seg[a].next = 0 THEN End(seg, a) = heapEnd
                ELSE /\ seg[a].next = End(seg, a) /\ seg[seg[a].next].last = a
                     /\ ~(seg[a].free /\ seg[seg[a].next].free)
  BY DEF Tiling, SegmentEnd, End
<1>7. ASSUME NEW n \in 0..N, Nth[n] # 0, n # 0
      PROVE  /\ n - 1 \in 0..N /\ Nth[n - 1] \in Listed /\ seg[Nth[n - 1]].next = Nth[n]
             /\ Nth[n - 1] < Nth[n]
  <2>1. n - 1 \in 0..N
    BY <1>1, <1>7
  <2>2. Nth[n - 1] \in D /\ Nth[n] = seg[Nth[n - 1]].next
    BY <1>3, <1>7
  <2>3. Nth[n - 1] \in Listed
    BY <1>1, <1>4, <2>1, <2>2
  <2>4. Nth[n - 1] < Nth[n]
    <3>1. PICK a : a = Nth[n - 1]
      OBVIOUS
    <3>2. Nth[n] = End(seg, a)
      BY <1>6, <1>7, <2>2, <2>3, <3>1
    <3>3. a < End(seg, a)
      BY <2>2, <3>1, TypedHeader
    <3> QED
      BY <3>1, <3>2, <3>3
  <2> QED
    BY <2>1, <2>2, <2>3, <2>4
<1>8. \A n \in 0..N : Nth[n] # 0 => n <= Rank(D, Nth[n])
  <2> DEFINE S == {n \in 0..N : Nth[n] # 0 /\ ~(n <= Rank(D, Nth[n]))}
  <2> SUFFICES ASSUME S # {} PROVE FALSE
    OBVIOUS
  <2>a. S \in SUBSET Nat
    OBVIOUS
  <2>1. PICK n \in S : \A y \in S : n <= y
    BY <2>a, LeastElement
  <2>b. n \in 0..N /\ Nth[n] # 0 /\ ~(n <= Rank(D, Nth[n])) /\ n \in Nat
    BY <2>1
  <2>2. ASSUME NEW a PROVE IsFiniteSet({c \in D : c < a}) /\ Rank(D, a) \in Nat
    <3>1. {c \in D : c < a} \subseteq D
      OBVIOUS
    <3>2. IsFiniteSet({c \in D : c < a})
      BY <1>1, <3>1, FS_Subset
    <3>3. Cardinality({c \in D : c < a}) \in Nat
      BY <3>2, FS_CardinalityType
    <3> HIDE DEF D
    <3> QED
      BY <3>2, <3>3 DEF Rank
  <2>3. n # 0
    <3>1. PICK x : x = Nth[n]
      OBVIOUS
    <3>2. Rank(D, x) \in Nat /\ ~(n <= Rank(D, x))
      BY <2>b, <2>2, <3>1
    <3> QED
      BY <3>2
  <2>4. /\ n - 1 \in 0..N /\ Nth[n - 1] \in Listed /\ seg[Nth[n - 1]].next = Nth[n]
        /\ Nth[n - 1] < Nth[n]
    BY <1>7, <2>b, <2>3
  <2>5. PICK p \in Nat, a \in Nat, m \in Nat : p = Nth[n - 1] /\ a = Nth[n] /\ m = n - 1
    BY <1>3, <2>b, <2>4
  <2>6. p \in D /\ p # 0 /\ p < a
    BY <1>1, <1>6, <2>4, <2>5
  <2>7. m <= Rank(D, p)
    <3>1. m \notin S
      BY <2>b, <2>1, <2>5
    <3> QED
      BY <2>4, <2>5, <2>6, <3>1
  <2>8. Rank(D, p) + 1 <= Rank(D, a)
    <3>1. Cardinality({c \in D : c < p} \union {p}) = Cardinality({c \in D : c < p}) + 1
      <4>1. p \notin {c \in D : c < p}
        BY <2>5
      <4> QED
        BY <2>2, <4>1, FS_AddElement
    <3>2. ASSUME NEW c \in {c \in D : c < p} \union {p} PROVE c \in {x \in D : x < a}
      <4>1. c \in D /\ c \in Nat
        BY <1>1, <2>6
      <4> QED
        BY <2>5, <2>6, <4>1
    <3>3. {c \in D : c < p} \union {p} \subseteq {c \in D : c < a}
      BY <3>2
    <3>4. Cardinality({c \in D : c < p} \union {p}) <= Cardinality({c \in D : c < a})
      BY <2>2, <3>3, FS_Subset
    <3> QED
      BY <3>1, <3>4 DEF Rank
  <2>9. Rank(D, p) \in Nat /\ Rank(D, a) \in Nat
    BY <2>2
  <2> QED
    BY <2>b, <2>5, <2>7, <2>8, <2>9
<1>9. \A a \in D : Rank(D, a) < N
  <2> SUFFICES ASSUME NEW a \in D PROVE Rank(D, a) < N
    OBVIOUS
  <2>1. {c \in D : c < a} \subseteq D
    OBVIOUS
  <2>2. {c \in D : c < a} # D
    <3>1. a \notin {c \in D : c < a}
      BY <1>1
    <3> QED
      BY <3>1
  <2>3. PICK S : S = {c \in D : c < a}
    OBVIOUS
  <2>4. Cardinality(S) <= Cardinality(D) /\ Cardinality(S) # Cardinality(D) /\ Cardinality(S) \in Nat
    <3>1. S \in SUBSET D /\ S # D
      BY <2>1, <2>2, <2>3
    <3>2. IsFiniteSet(S) /\ Cardinality(S) <= Cardinality(D)
          /\ (Cardinality(D) = Cardinality(S) => D = S)
      BY <1>1, <3>1, FS_Subset
    <3> HIDE DEF D
    <3> QED
      BY <3>1, <3>2, FS_CardinalityType
  <2> HIDE DEF D
  <2> QED
    BY <1>1, <2>3, <2>4 DEF Rank
<1>10. ASSUME NEW a \in Listed, seg[a].next # 0 PROVE seg[a].next \in Listed
  <2>1. PICK n \in 0..N : a = Nth[n]
    BY <1>4
  <2>2. a \in D /\ a # 0
    BY <1>1, <1>6
  <2>3. n # N
    <3>1. n <= Rank(D, a) /\ Rank(D, a) < N
      BY <1>8, <1>9, <2>1, <2>2
    <3> HIDE DEF N
    <3>2. Rank(D, a) \in Nat
      <4>1. {c \in D : c < a} \subseteq D
        OBVIOUS
      <4> QED
        BY <1>1, <4>1, FS_Subset, FS_CardinalityType DEF Rank
    <3> QED
      BY <1>1, <3>1, <3>2
  <2> HIDE DEF N
  <2>4. n + 1 \in 0..N /\ n + 1 # 0 /\ (n + 1) - 1 = n
    BY <1>1, <2>3
  <2>5. Nth[n + 1] = seg[a].next
    BY <1>3, <2>1, <2>2, <2>4
  <2> QED
    BY <1>4, <1>10, <2>4, <2>5
<1>11. ASSUME NEW a \in Listed, a # heapStart PROVE \E p \in Listed : seg[p].next = a
  <2>1. PICK n \in 0..N : a = Nth[n] /\ a # 0
    BY <1>4
  <2>2. n # 0
    BY <1>3, <1>11, <2>1
  <2> QED
    BY <1>7, <2>1, <2>2
<1>12. Chain(seg, Listed, heapEnd)
  BY <1>5, <1>6, <1>10, <1>11 DEF Chain
<1>13. Combined(seg, Listed)
  BY <1>6 DEF Combined
<1> QED
  BY <1>12, <1>13

\* k is g with one more free segment, behind the last one of the list, l.
IsExtended(k, g, L, l, end, size) ==
    /\ Typed(k, end + size) /\ Chain(k, L \union {end}, end + size) /\ end \notin DOMAIN g
    /\ end # 0 /\ DOMAIN k = DOMAIN g \union {end}
    /\ k[end].length = size - HeaderSize /\ k[end].next = 0 /\ k[end].last = l /\ k[end].free
    /\ k[l].next = end /\ k[l].length = g[l].length
    /\ \A a \in L : (k[a].free <=> g[a].free) /\ k[a].last = g[a].last
    /\ \A a \in L \ {l} : k[a].next = g[a].next /\ g[a].next # 0

\* The list after one more segment was put behind its last one.
LEMMA ExtendedChain ==
    ASSUME NEW g, NEW L, NEW end \in Nat, Typed(g, end), Chain(g, L, end), Combined(g, L),
           NEW l \in L, g[l].next = 0, NEW size \in Nat, size > HeaderSize,
           NEW k, k = Extended(g, l, end, size)
    PROVE  IsExtended(k, g, L, l, end, size)
<1>1. /\ L \subseteq DOMAIN g /\ l \in DOMAIN g /\ HeaderSize \in Nat \ {0} /\ heapStart \in L
      /\ l \in Nat \ {0}
  BY Link, HeapAssumption DEF Chain
<1>2. Typed(k, end + size) /\ end \notin DOMAIN g
  BY <1>1, ExtendedTyped
<1>3. DOMAIN k = DOMAIN g \union {end}
  BY DEF Extended
<1>4. k[end].length = size - HeaderSize /\ k[end].next = 0 /\ k[end].last = l /\ k[end].free
  <2>1. k[end] = Header(size - HeaderSize, 0, l, TRUE)
    BY DEF Extended
  <2> QED
    BY <2>1 DEF Header
<1>5. end \in Nat \ {0}
  BY <1>1, <1>2, <1>3, TypedHeader
<1>6. ASSUME NEW a \in L
      PROVE  /\ k[a].length = g[a].length /\ (k[a].free <=> g[a].free) /\ k[a].last = g[a].last
             /\ k[a].next = IF a = l THEN end ELSE g[a].next
  <2>1. a \in DOMAIN g /\ a # end
    BY <1>1, <1>2
  <2>2. g[a] \in HeaderType
    BY <2>1, TypedHeader
  <2>3. k[a] = IF a = l THEN [g[a] EXCEPT !.next = end] ELSE g[a]
    BY <2>1 DEF Extended
  <2>4. Is([g[a] EXCEPT !.next = end], g[a].length, end, g[a].last, g[a])
    BY <2>2, HeaderFields
  <2> QED
    BY <2>3, <2>4 DEF Is
<1>7. \A a \in L : End(k, a) = End(g, a)
  BY <1>6 DEF End
<1>8. ASSUME NEW a \in L, a # l PROVE g[a].next # 0
  <2>1. ASSUME g[a].next = 0 PROVE FALSE
    <3>1. /\ End(g, a) = end /\ End(g, l) = end /\ a < End(g, a) /\ l < End(g, l)
          /\ a \in Nat /\ l \in Nat
      BY <2>1, Link
    <3>2. (a < l => End(g, a) <= l) /\ (l < a => End(g, l) <= a)
      BY ChainOrder
    <3> QED
      BY <1>8, <3>1, <3>2
  <2> QED
    BY <2>1
<1>9. ASSUME NEW a \in L \union {end}
      PROVE  IF k[a].next = 0 THEN End(k, a) = end + size
             ELSE k[a].next \in L \union {end} /\ k[a].next = End(k, a) /\ k[k[a].next].last = a
  <2>1. CASE a = end
    <3>1. End(k, end) = end + size
      BY <1>1, <1>4 DEF End
    <3> QED
      BY <1>4, <2>1, <3>1
  <2>2. CASE a = l
    <3>1. End(g, l) = end
      BY Link
    <3> QED
      BY <1>4, <1>5, <1>6, <1>7, <2>2, <3>1
  <2>3. CASE a # l /\ a # end
    <3>1. a \in L
      BY <2>3
    <3>2. g[a].next # 0
      BY <1>8, <2>3, <3>1
    <3>3. g[a].next \in L /\ g[a].next = End(g, a) /\ g[g[a].next].last = a
      BY <3>1, <3>2, Link
    <3>4. k[a].next = g[a].next
      BY <1>6, <2>3, <3>1
    <3> QED
      BY <1>6, <1>7, <3>1, <3>2, <3>3, <3>4
  <2> QED
    BY <2>1, <2>2, <2>3
<1>10. ASSUME NEW c \in L \union {end}, c # heapStart PROVE \E p \in L \union {end} : k[p].next = c
  <2>1. CASE c = end
    BY <1>6, <2>1
  <2>2. CASE c # end
    <3>1. PICK p \in L : g[p].next = c
      BY <1>10, <2>2 DEF Chain
    <3>2. p # l
      <4>1. c # 0
        BY <1>1, <2>2, TypedHeader
      <4> QED
        BY <3>1, <4>1
    <3> QED
      BY <1>6, <3>1, <3>2
  <2> QED
    BY <2>1, <2>2
<1>11. Chain(k, L \union {end}, end + size)
  <2>1. heapStart \in L \union {end} /\ L \union {end} \subseteq DOMAIN k
    BY <1>1, <1>3
  <2> QED
    BY <1>9, <1>10, <2>1 DEF Chain
<1> QED
  BY <1>2, <1>3, <1>4, <1>5, <1>6, <1>8, <1>11 DEF IsExtended

\* A list without free neighbours, with a free segment that holds size.
Serves(k, L, end, size) ==
    /\ Typed(k, end) /\ Chain(k, L, end) /\ Combined(k, L)
    /\ \E a \in L : k[a].free /\ k[a].length >= size

\* The heap that grew behind the last segment of its list serves what fits into
\* the new one, alone or joined with the old last one.
LEMMA GrowServes ==
    ASSUME NEW L, heapEnd \in Nat, Typed(seg, heapEnd), Chain(seg, L, heapEnd), Combined(seg, L),
           LastHdr \in L, seg[LastHdr].next = 0, NEW size \in Nat, size > HeaderSize
    PROVE  \E k, M : /\ Grow(size) = H(k, heapEnd, corrupt)
                     /\ Serves(k, M, heapEnd + size, size - HeaderSize)
<1>b. PICK c : c = corrupt
  OBVIOUS
<1>1. PICK l \in L, end \in Nat : l = LastHdr /\ end = heapEnd
  OBVIOUS
<1>2. PICK k : k = Extended(seg, l, end, size)
  OBVIOUS
<1>a. Typed(seg, end) /\ Chain(seg, L, end) /\ seg[l].next = 0
  BY <1>1
<1>3. /\ Typed(k, end + size) /\ Chain(k, L \union {end}, end + size) /\ end \notin DOMAIN seg
      /\ end # 0 /\ DOMAIN k = DOMAIN seg \union {end}
      /\ k[end].length = size - HeaderSize /\ k[end].next = 0 /\ k[end].last = l /\ k[end].free
      /\ k[l].next = end /\ k[l].length = seg[l].length
      /\ \A a \in L : (k[a].free <=> seg[a].free) /\ k[a].last = seg[a].last
      /\ \A a \in L \ {l} : k[a].next = seg[a].next /\ seg[a].next # 0
  <2>1. l \in L /\ end \in Nat /\ Combined(seg, L)
    OBVIOUS
  <2>2. IsExtended(k, seg, L, l, end, size)
    BY <1>2, <1>a, <2>1, ExtendedChain
  <2> QED
    BY <2>2 DEF IsExtended
<1>4. /\ L \subseteq DOMAIN seg /\ l \in DOMAIN seg /\ l \in L /\ l \in Nat \ {0} /\ l \in DOMAIN k
      /\ end \in DOMAIN k /\ end \notin L /\ HeaderSize \in Nat /\ l # end
  <2>1. L \subseteq DOMAIN seg /\ l \in L /\ HeaderSize \in Nat
    BY <1>a, HeapAssumption DEF Chain
  <2>2. l \in DOMAIN seg /\ l \in Nat \ {0}
    BY <1>a, <2>1, TypedHeader
  <2> QED
    BY <1>3, <2>1, <2>2
<1>5. Grow(size) = CombineBackward(H(k, end, c), end)
  BY <1>1, <1>b, <1>2, <1>4, GrowCases
<1>6. Grow(size) = IF k[l].free THEN CombineForward(H(k, end, c), l) ELSE H(k, end, c)
  BY <1>3, <1>4, <1>5, BackwardCases
<1>7. ASSUME NEW a \in L, a # l PROVE /\ k[a].next = seg[a].next /\ seg[a].next \in L
                                      /\ ~(k[a].free /\ k[k[a].next].free)
  <2>1. k[a].next = seg[a].next /\ seg[a].next # 0
    BY <1>3, <1>7
  <2>2. seg[a].next \in L
    BY <2>1 DEF Chain
  <2>3. ~(seg[a].free /\ seg[seg[a].next].free)
    BY <2>1 DEF Combined
  <2> QED
    BY <1>3, <2>1, <2>2, <2>3
<1>8. CASE ~k[l].free
  <2>1. Combined(k, L \union {end})
    <3>1. ASSUME NEW a \in L \union {end}, k[a].next # 0 PROVE ~(k[a].free /\ k[k[a].next].free)
      <4>1. a = end \/ a = l \/ (a \in L /\ a # l)
        OBVIOUS
      <4> QED
        BY <1>3, <1>7, <1>8, <3>1, <4>1
    <3> QED
      BY <3>1 DEF Combined
  <2>2. k[end].free /\ k[end].length >= size - HeaderSize
    BY <1>3, <1>4
  <2>3. Serves(k, L \union {end}, end + size, size - HeaderSize)
    BY <1>3, <2>1, <2>2 DEF Serves
  <2> QED
    BY <1>1, <1>b, <1>6, <1>8, <2>3
<1>9. CASE k[l].free
  <2>1. k[l].next = end /\ k[end].next = 0 /\ k[end].free /\ l \in L \union {end} /\ end + size \in Nat
    BY <1>3, <1>4
  <2>2. /\ Absorbs(k, l) /\ Chain(Joined(k, l), (L \union {end}) \ {end}, end + size)
    BY <1>3, <2>1, JoinedChain
  <2>3. PICK j : j = Joined(k, l)
    OBVIOUS
  <2>4. Typed(j, end + size)
    BY <1>3, <1>4, <2>1, <2>2, <2>3, JoinedTyped
  <2>5. Chain(j, L, end + size)
    <3>1. (L \union {end}) \ {end} = L
      BY <1>4
    <3> QED
      BY <2>2, <2>3, <3>1
  <2>6. /\ DOMAIN j = DOMAIN k
        /\ j[l].length = k[l].length + k[end].length + HeaderSize /\ j[l].next = 0
        /\ \A a \in DOMAIN k \ {l} : j[a].next = k[a].next
        /\ \A a \in DOMAIN k : j[a].free <=> k[a].free
    BY <1>3, <1>4, <2>1, <2>2, <2>3, JoinedFields
  <2>7. Combined(j, L)
    <3>1. ASSUME NEW a \in L, j[a].next # 0 PROVE ~(j[a].free /\ j[j[a].next].free)
      <4>1. a # l
        BY <2>6, <3>1
      <4>2. /\ k[a].next = seg[a].next /\ seg[a].next \in L /\ ~(k[a].free /\ k[k[a].next].free)
        BY <1>7, <4>1
      <4>3. a \in DOMAIN k \ {l} /\ seg[a].next \in DOMAIN k
        BY <1>3, <1>4, <4>1, <4>2
      <4>4. j[a].next = k[a].next
        BY <2>6, <4>3
      <4> QED
        BY <2>6, <4>2, <4>3, <4>4
    <3> QED
      BY <3>1 DEF Combined
  <2>8. j[l].free /\ j[l].length >= size - HeaderSize
    <3>1. k[l].length \in Nat
      BY <1>3, <1>4, <2>1, TypedHeader
    <3>2. j[l].length = k[l].length + (size - HeaderSize) + HeaderSize
      BY <1>3, <2>6
    <3>3. j[l].free
      BY <1>4, <1>9, <2>6
    <3> QED
      BY <1>4, <3>1, <3>2, <3>3
  <2>9. CombineForward(H(k, end, c), l) = H(j, end, c)
    <3>1. ~(k[l].next = 0 \/ (k[l].next \in DOMAIN k /\ ~k[k[l].next].free))
      BY <1>3
    <3> QED
      BY <1>3, <1>4, <2>1, <2>2, <2>3, <3>1, ForwardCases
  <2>10. Serves(j, L, end + size, size - HeaderSize)
    BY <1>4, <2>4, <2>5, <2>7, <2>8 DEF Serves
  <2> QED
    BY <1>1, <1>b, <1>6, <1>9, <2>9, <2>10
<1> QED
  BY <1>8, <1>9

\* Forgetting headers that are not of the list does not matter.
LEMMA ServesKept ==
    ASSUME NEW k, NEW M, NEW end \in Nat, NEW size, Serves(k, M, end, size),
           NEW R \in SUBSET DOMAIN k, M \subseteq R
    PROVE  Serves(Restrict(k, R), M, end, size)
<1>1. PICK q : q = Restrict(k, R)
  OBVIOUS
<1>2. DOMAIN q = R /\ \A a \in M : q[a] = k[a]
  BY <1>1 DEF Restrict
<1>3. Typed(k, end) /\ Chain(k, M, end) /\ Combined(k, M)
  BY DEF Serves
<1>4. Typed(q, end)
  BY <1>1, <1>3, RestrictTyped
<1>5. Chain(q, M, end)
  <2>1. M \subseteq DOMAIN q
    BY <1>2
  <2> QED
    BY <1>2, <1>3, <2>1, ChainSame
<1>6. Combined(q, M)
  <2>1. \A a \in M : k[a].next # 0 => k[a].next \in M
    BY <1>3 DEF Chain
  <2> QED
    BY <1>2, <1>3, <2>1 DEF Combined
<1> QED
  BY <1>1, <1>2, <1>4, <1>5, <1>6 DEF Serves

\* The list tiles the heap again, and has room for size.
Served(size) == heapEnd \in Nat /\ \E L : Serves(seg, L, heapEnd, size)

LEMMA ServedTiles == \A size : Served(size) => Tiling
<1> SUFFICES ASSUME NEW size, Served(size) PROVE Tiling
  OBVIOUS
<1>1. PICK L : Typed(seg, heapEnd) /\ Chain(seg, L, heapEnd) /\ Combined(seg, L)
  BY DEF Served, Serves
<1> QED
  BY <1>1, GoodTiles DEF Served

\* malloc finds the room.
LEMMA ServedFits == Served(pending) => \E n \in DOMAIN Nth : Fits(n)
<1> SUFFICES ASSUME Served(pending) PROVE \E n \in DOMAIN Nth : Fits(n)
  OBVIOUS
<1>1. PICK L : Serves(seg, L, heapEnd, pending) /\ heapEnd \in Nat
  BY DEF Served
<1>2. PICK a \in L : seg[a].free /\ seg[a].length >= pending
  BY <1>1 DEF Serves
<1>3. Typed(seg, heapEnd) /\ Chain(seg, L, heapEnd)
  BY <1>1 DEF Serves
<1>4. PICK n \in DOMAIN Nth : Nth[n] = a
  BY <1>1, <1>3, ListedIsChain
<1>5. a \in DOMAIN seg
  BY <1>3 DEF Chain
<1> QED
  BY <1>2, <1>4, <1>5 DEF Fits

\* Growing behind the last segment leaves a list with room for a page less a
\* header.
LEMMA ExpandServes ==
    ASSUME TInv, ExpandHeap, Tiling, LastHdr \in Listed, seg[LastHdr].next = 0
    PROVE  /\ \E size : Served(size)'
           /\ pending <= PageSize - HeaderSize => Served(pending)'
<1>1. /\ PageSize \in Nat \ {0} /\ HeaderSize \in Nat \ {0} /\ HeaderSize < PageSize
  BY HeapAssumption
<1>2. PICK size \in Nat :
          /\ size = IF pending % PageSize = 0 THEN pending ELSE PageSize
          /\ heapEnd' = heapEnd + size /\ Become(Grow(size))
          /\ size >= PageSize
  <2>1. pending % PageSize = 0 => pending >= PageSize
    BY <1>1, AtLeastOne DEF ExpandHeap, TInv
  <2> QED
    BY <1>1, <2>1 DEF ExpandHeap, TInv
<1>3. size > HeaderSize /\ pending \in Nat /\ pending' = pending
  BY <1>1, <1>2 DEF ExpandHeap, TInv
<1>4. heapEnd \in Nat /\ Typed(seg, heapEnd)
  BY DEF TInv
<1>5. Chain(seg, Listed, heapEnd) /\ Combined(seg, Listed)
  BY <1>4, TilesChain
<1>6. PICK k, M : /\ Grow(size) = H(k, heapEnd, corrupt)
                  /\ Serves(k, M, heapEnd + size, size - HeaderSize)
  <2>1. PICK L : L = Listed
    OBVIOUS
  <2> QED
    BY <1>3, <1>4, <1>5, <2>1, GrowServes
<1>7. PICK end \in Nat : end = heapEnd + size
  BY <1>4
<1>8. PICK h : h = Grow(size)
  OBVIOUS
<1>9. h.seg = k
  BY <1>6, <1>8, HeapFields
<1>10. Typed(k, end) /\ Chain(k, M, end) /\ Serves(k, M, end, size - HeaderSize)
  BY <1>6, <1>7 DEF Serves
<1>11. PICK R : R = Reached(h)
  OBVIOUS
<1>12. R \in SUBSET DOMAIN k /\ M \subseteq R
  BY <1>9, <1>10, <1>11, ReachedHoldsChain
<1>13. seg' = Restrict(k, R)
  BY <1>2, <1>8, <1>9, <1>11 DEF Become
<1>14. Serves(seg', M, heapEnd', size - HeaderSize) /\ heapEnd' \in Nat
  BY <1>2, <1>7, <1>10, <1>12, <1>13, ServesKept
<1>15. Served(size - HeaderSize)'
  BY <1>14 DEF Served
<1>16. ASSUME pending <= PageSize - HeaderSize PROVE Served(pending)'
  <2>1. pending <= size - HeaderSize
    BY <1>1, <1>2, <1>3, <1>16
  <2>2. PICK a \in M : seg'[a].free /\ seg'[a].length >= size - HeaderSize
    BY <1>14 DEF Serves
  <2>3. seg'[a].length \in Nat
    <3>1. Typed(seg', heapEnd') /\ a \in DOMAIN seg'
      BY <1>14 DEF Serves, Chain
    <3> QED
      BY <3>1, TypedHeader
  <2>4. seg'[a].length >= pending
    BY <1>1, <1>2, <1>3, <2>1, <2>2, <2>3
  <2>5. Serves(seg', M, heapEnd', pending)
    BY <1>14, <2>2, <2>4 DEF Serves
  <2> QED
    BY <1>3, <1>14, <2>5 DEF Served
<1> QED
  BY <1>15, <1>16

\* For any number of pages and any sizes asked for: a heap that grows behind the
\* last segment of its list tiles the longer heap, and what malloc grew it for
\* fits, if it is no larger than a page less a header (ExpandHeap, CombineBackward).
THEOREM GrowthServes == Spec => GrowthAppends
<1>1. ASSUME IInv, [Next]_vars
      PROVE  (/\ heapEnd' # heapEnd /\ Tiling
              /\ LastHdr \in Listed /\ seg[LastHdr].next = 0)
             => /\ Tiling'
                /\ pending <= PageSize - HeaderSize => (\E n \in DOMAIN Nth : Fits(n))'
  <2> SUFFICES ASSUME heapEnd' # heapEnd, Tiling, LastHdr \in Listed, seg[LastHdr].next = 0
               PROVE  /\ Tiling'
                      /\ pending <= PageSize - HeaderSize => (\E n \in DOMAIN Nth : Fits(n))'
    OBVIOUS
  <2>1. ExpandHeap
    BY <1>1 DEF Next, vars, malloc, realloc, Allocate, Write, Free, FreeOrigin
  <2>2. /\ \E size : Served(size)'
        /\ pending <= PageSize - HeaderSize => Served(pending)'
    BY <1>1, <2>1, ExpandServes DEF IInv
  <2>3. (\A size : Served(size) => Tiling)'
    BY ServedTiles, PTL
  <2>4. (Served(pending) => \E n \in DOMAIN Nth : Fits(n))'
    BY ServedFits, PTL
  <2>5. Tiling'
    BY <2>2, <2>3
  <2>6. ASSUME pending <= PageSize - HeaderSize PROVE (\E n \in DOMAIN Nth : Fits(n))'
    BY <2>2, <2>4, <2>6
  <2> QED
    BY <2>5, <2>6
<1>2. IInv /\ [Next]_vars
      => [(/\ heapEnd' # heapEnd /\ Tiling
           /\ LastHdr \in Listed /\ seg[LastHdr].next = 0)
          => /\ Tiling'
             /\ pending <= PageSize - HeaderSize => (\E n \in DOMAIN Nth : Fits(n))']_vars
  BY <1>1
<1> QED
  BY <1>2, Invariant, PTL DEF Spec, GrowthAppends
=============================================================================
