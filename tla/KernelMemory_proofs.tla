------------------------- MODULE KernelMemory_proofs -------------------------
(***************************************************************************)
(* Proofs about PageTables and KernelMemory, for tables of any size, any   *)
(* memory and any pool of frames.                                          *)
(***************************************************************************)
EXTENDS KernelMemory, FiniteSetTheorems, SequenceTheorems, WellFoundedInduction, TLAPS

Memories == [Ram -> [Slots -> Int]]

\* What MapMemory carries.
Carried == [mem : Memories, free : SUBSET Nat, at : Int, fault : BOOLEAN]

\* T[1] is the PML4, T[2] the tables it leads to, and so on down to T[4], the
\* tables whose entries are pages: each hangs from one entry of the level above,
\* and none is in the pool.
Tree(m, pool, T) ==
    /\ T \in [1..4 -> SUBSET Ram] /\ T[1] = {root}
    /\ \A k, l \in 1..4 : k # l => T[k] \intersect T[l] = {}
    /\ \A k \in 1..4 : T[k] \intersect pool = {}
    /\ \A k \in 1..3 : \A f \in T[k], i \in Slots : m[f][i] # Absent => m[f][i] \in T[k + 1]
    /\ \A k \in 1..3 : \A g \in T[k + 1] : \E f \in T[k], i \in Slots : m[f][i] = g
    /\ \A k \in 1..3 : \A f, g \in T[k], i, j \in Slots :
           m[f][i] # Absent /\ m[f][i] = m[g][j] => f = g /\ i = j

HasPage(pool) == pool \intersect Ram # {}

\* The index of page v in a table of level k.
Index(v, k) == CASE k = 1 -> PDP_i(v) [] k = 2 -> PD_i(v) [] k = 3 -> PT_i(v) [] OTHER -> P_i(v)

\* The table of level k on the walk for page v; at level 5 the frame of v.
Reach(m, v, k) ==
    CASE k = 1 -> root
      [] k = 2 -> Entry(m, root, PDP_i(v))
      [] k = 3 -> Entry(m, Entry(m, root, PDP_i(v)), PD_i(v))
      [] k = 4 -> Entry(m, Entry(m, Entry(m, root, PDP_i(v)), PD_i(v)), PT_i(v))
      [] OTHER -> Walk(m, root, v)

\* Every table on a walk in n is on it in m.
SameTables(m, n) == \A w \in Nat, k \in 1..4 : Reach(n, w, k) # Absent => Reach(m, w, k) = Reach(n, w, k)

SameWalks(m, n) == \A w \in Pages : Walk(m, root, w) = Walk(n, root, w)

\* No table is one of the frames of K.
Avoids(T, K) == \A j \in 1..4 : T[j] \intersect K = {}

IsTree == HasPage(free) => \E T : Tree(mem, free, T)

IInv == TypeOK /\ ~loaded /\ IsTree
-----------------------------------------------------------------------------
\* A set of naturals that is not empty has a least element.
LEMMA LowestIsLeast ==
    ASSUME NEW S \in SUBSET Nat, S # {}
    PROVE  Lowest(S) \in S /\ \A y \in S : Lowest(S) <= y
<1>1. PICK x \in S : \A y \in S : ~ (<<y, x>> \in OpToRel(<, Nat))
  BY NatLessThanWellFounded, WFMin
<1>2. \A y \in S : ~ (y < x)
  BY <1>1 DEF OpToRel
<1>3. \E z \in S : \A y \in S : z <= y
  BY <1>2
<1> QED
  BY <1>3 DEF Lowest

\* While a frame of memory is free, a request is answered with one.
LEMMA RequestPageType ==
    ASSUME NEW pool \in SUBSET Nat
    PROVE  /\ RequestPage(pool) \in Nat
           /\ HasPage(pool) => RequestPage(pool) \in pool \intersect Ram
<1>1. CASE pool = {}
  BY <1>1 DEF RequestPage, HasPage, NULL
<1>2. CASE pool # {}
  <2>1. Lowest(pool) \in pool /\ \A y \in pool : Lowest(pool) <= y
    BY <1>2, LowestIsLeast
  <2>2. ASSUME HasPage(pool) PROVE Lowest(pool) \in Ram
    <3>1. PICK y \in pool : y \in Ram
      BY <2>2 DEF HasPage
    <3>2. RamFrames \in Nat /\ Lowest(pool) \in Nat /\ Lowest(pool) <= y
      BY <2>1, PageTablesAssumption
    <3> QED
      BY <3>1, <3>2 DEF Ram
  <2> QED
    BY <1>2, <2>1, <2>2 DEF RequestPage
<1> QED
  BY <1>1, <1>2

\* A level of the walk after a fault.
LEMMA DescendFaulted ==
    ASSUME NEW s, NEW i, s.fault
    PROVE  Descend(s, i) = [s EXCEPT !.fault = TRUE]
BY DEF Descend

\* A level of the walk that follows an entry.
LEMMA DescendFollows ==
    ASSUME NEW s \in Carried, NEW i, ~s.fault, NEW table \in Ram, table = Deref(s.mem, s.at),
           s.mem[table][i] # Absent
    PROVE  LET d == Descend(s, i) IN
           /\ d = [s EXCEPT !.at = s.mem[table][i]]
           /\ d.mem = s.mem /\ d.free = s.free /\ d.at = s.mem[table][i] /\ ~d.fault
<1>1. Descend(s, i) = [s EXCEPT !.at = s.mem[table][i]]
  BY DEF Descend
<1>2. PICK x : x = s.mem[table][i]
  OBVIOUS
<1>3. PICK d : d = [s EXCEPT !.at = x]
  OBVIOUS
<1>4. d.mem = s.mem /\ d.free = s.free /\ d.at = x /\ d.fault = s.fault
  BY <1>3 DEF Carried
<1> QED
  BY <1>1, <1>2, <1>3, <1>4

\* What it does when the entry is absent: the table that is missing is entered.
Enters(d, s, after, new) ==
    /\ d = [s EXCEPT !.mem = after, !.free = @ \ {new}, !.at = new]
    /\ d.mem = after /\ d.free = s.free \ {new} /\ d.at = new /\ ~d.fault

LEMMA DescendEnters ==
    ASSUME NEW s \in Carried, NEW i, ~s.fault, NEW table \in Ram, table = Deref(s.mem, s.at),
           s.mem[table][i] = Absent, NEW new, new = RequestPage(s.free),
           NEW target \in Ram, target = Deref(s.mem, new),
           NEW cleared, cleared = [s.mem EXCEPT ![target] = EmptyTable],
           NEW again \in Ram, again = Deref(cleared, s.at),
           NEW after, after = SetEntry(cleared, again, i, new)
    PROVE  Enters(Descend(s, i), s, after, new)
<1>1. Descend(s, i) = [s EXCEPT !.mem = after, !.free = @ \ {new}, !.at = new]
  <2>1. Descend(s, i) = NewTable(s, i)
    BY DEF Descend
  <2> QED
    BY <2>1 DEF NewTable
<1>2. PICK rest : rest = s.free \ {new}
  OBVIOUS
<1>3. PICK d : d = [s EXCEPT !.mem = after, !.free = rest, !.at = new]
  OBVIOUS
<1>4. d.mem = after /\ d.free = rest /\ d.at = new /\ d.fault = s.fault
  BY <1>3 DEF Carried
<1> QED
  BY <1>1, <1>2, <1>3, <1>4 DEF Enters

\* The three outcomes of one level of the walk.
LEMMA DescendCases ==
    ASSUME NEW s \in Carried, NEW i \in Slots
    PROVE  LET d   == Descend(s, i)
               new == RequestPage(s.free)
           IN \/ d = [s EXCEPT !.fault = TRUE]
              \/ \E table \in Ram :
                    /\ ~s.fault /\ s.mem[table][i] # Absent
                    /\ d = [s EXCEPT !.at = s.mem[table][i]]
              \/ \E target, again \in Ram :
                    /\ ~s.fault
                    /\ d = [s EXCEPT !.mem = SetEntry([s.mem EXCEPT ![target] = EmptyTable], again, i, new),
                                     !.free = @ \ {new},
                                     !.at = new]
<1>1. PICK table : table = Deref(s.mem, s.at)
  OBVIOUS
<1>2. PICK new : new = RequestPage(s.free)
  OBVIOUS
<1>3. PICK target : target = Deref(s.mem, new)
  OBVIOUS
<1>4. PICK cleared : cleared = [s.mem EXCEPT ![target] = EmptyTable]
  OBVIOUS
<1>5. PICK again : again = Deref(cleared, s.at)
  OBVIOUS
<1>6. CASE s.fault \/ table \notin Ram
  <2>1. Descend(s, i) = [s EXCEPT !.fault = TRUE]
    BY <1>1, <1>6 DEF Descend
  <2> QED
    BY <2>1
<1>7. CASE ~s.fault /\ table \in Ram /\ s.mem[table][i] # Absent
  <2>1. Descend(s, i) = [s EXCEPT !.at = s.mem[table][i]]
    BY <1>1, <1>7, DescendFollows
  <2> QED
    BY <1>7, <2>1
<1>8. CASE /\ ~s.fault /\ table \in Ram /\ s.mem[table][i] = Absent
           /\ target \notin Ram \/ again \notin Ram
  <2>1. Descend(s, i) = NewTable(s, i)
    BY <1>1, <1>8 DEF Descend
  <2>2. NewTable(s, i) = [s EXCEPT !.fault = TRUE]
    BY <1>2, <1>3, <1>4, <1>5, <1>8 DEF NewTable
  <2> QED
    BY <2>1, <2>2
<1>9. CASE /\ ~s.fault /\ table \in Ram /\ s.mem[table][i] = Absent
           /\ target \in Ram /\ again \in Ram
  <2>1. PICK after : after = SetEntry(cleared, again, i, new)
    OBVIOUS
  <2>2. Enters(Descend(s, i), s, after, new)
    BY <1>1, <1>2, <1>3, <1>4, <1>5, <1>9, <2>1, DescendEnters
  <2>3. Descend(s, i) = [s EXCEPT !.mem = after, !.free = @ \ {new}, !.at = new]
    BY <2>2 DEF Enters
  <2> QED
    BY <1>2, <1>4, <1>9, <2>1, <2>3
<1> QED
  BY <1>6, <1>7, <1>8, <1>9

\* Every pointer that a level of the walk dereferences leads where it says.
Direct(s, i) ==
    LET new == RequestPage(s.free)
    IN /\ Deref(s.mem, s.at) = s.at
       /\ s.mem[s.at][i] = Absent =>
              /\ Deref(s.mem, new) = new
              /\ Deref([s.mem EXCEPT ![new] = EmptyTable], s.at) = s.at

\* They do before CR3 is loaded.
LEMMA DirectUnloaded ==
    ASSUME ~loaded, NEW s, NEW i
    PROVE  Direct(s, i)
BY DEF Direct, Deref

\* Memory stays memory.
LEMMA SetEntryType ==
    ASSUME NEW m \in Memories, NEW f \in Ram, NEW i \in Slots, NEW value \in Int
    PROVE  /\ SetEntry(m, f, i, value) \in Memories
           /\ \A g \in Ram, j \in Slots :
                  SetEntry(m, f, i, value)[g][j] = IF g = f /\ j = i THEN value ELSE m[g][j]
<1>1. m[f] \in [Slots -> Int]
  BY DEF Memories
<1>2. SetEntry(m, f, i, value) = [m EXCEPT ![f] = [m[f] EXCEPT ![i] = value]]
  BY DEF SetEntry
<1>3. [m[f] EXCEPT ![i] = value] \in [Slots -> Int]
  BY <1>1
<1>4. [m EXCEPT ![f] = [m[f] EXCEPT ![i] = value]] \in Memories
  BY <1>3 DEF Memories
<1>5. ASSUME NEW g \in Ram, NEW j \in Slots
      PROVE  SetEntry(m, f, i, value)[g][j] = IF g = f /\ j = i THEN value ELSE m[g][j]
  <2>1. CASE g = f
    BY <1>1, <1>2, <2>1 DEF Memories
  <2>2. CASE g # f
    BY <1>2, <2>2 DEF Memories
  <2> QED
    BY <2>1, <2>2
<1> QED
  BY <1>2, <1>4, <1>5

LEMMA ClearedType ==
    ASSUME NEW m \in Memories, NEW f \in Ram
    PROVE  /\ [m EXCEPT ![f] = EmptyTable] \in Memories
           /\ \A g \in Ram, j \in Slots :
                  [m EXCEPT ![f] = EmptyTable][g][j] = IF g = f THEN Absent ELSE m[g][j]
<1>1. EmptyTable \in [Slots -> Int] /\ \A j \in Slots : EmptyTable[j] = Absent
  BY DEF EmptyTable, Absent
<1>2. [m EXCEPT ![f] = EmptyTable] \in Memories
  BY <1>1 DEF Memories
<1>3. \A g \in Ram : [m EXCEPT ![f] = EmptyTable][g] = IF g = f THEN EmptyTable ELSE m[g]
  BY DEF Memories
<1> QED
  BY <1>1, <1>2, <1>3
-----------------------------------------------------------------------------
(* One level of MapMemory *)

LEMMA DescendType ==
    ASSUME NEW s \in Carried, NEW i \in Slots
    PROVE  /\ Descend(s, i) \in Carried
           /\ Descend(s, i).free \subseteq s.free
           /\ s.fault => Descend(s, i).fault
<1> DEFINE d   == Descend(s, i)
           new == RequestPage(s.free)
<1>1. /\ s.mem \in Memories /\ s.free \in SUBSET Nat /\ s.at \in Int /\ s.fault \in BOOLEAN
      /\ s = [mem |-> s.mem, free |-> s.free, at |-> s.at, fault |-> s.fault]
  BY DEF Carried
<1>2. CASE d = [s EXCEPT !.fault = TRUE]
  BY <1>2 DEF Carried
<1>3. ASSUME NEW table \in Ram, ~s.fault, d = [s EXCEPT !.at = s.mem[table][i]]
      PROVE  d \in Carried /\ d.free \subseteq s.free /\ (s.fault => d.fault)
  <2>1. s.mem[table][i] \in Int
    BY <1>1, <1>3 DEF Memories
  <2> QED
    BY <1>3, <2>1 DEF Carried
<1>4. ASSUME NEW target \in Ram, NEW again \in Ram, ~s.fault,
             d = [s EXCEPT !.mem = SetEntry([s.mem EXCEPT ![target] = EmptyTable], again, i, new),
                           !.free = @ \ {new},
                           !.at = new]
      PROVE  d \in Carried /\ d.free \subseteq s.free /\ (s.fault => d.fault)
  <2>1. new \in Int
    BY <1>1, RequestPageType
  <2>2. [s.mem EXCEPT ![target] = EmptyTable] \in Memories
    BY <1>1, <1>4, ClearedType
  <2>3. SetEntry([s.mem EXCEPT ![target] = EmptyTable], again, i, new) \in Memories
    BY <1>4, <2>1, <2>2, SetEntryType
  <2> QED
    BY <1>1, <1>4, <2>1, <2>3 DEF Carried
<1>5. d.free \subseteq s.free /\ (s.fault => d.fault) /\ d \in Carried
  <2>1. \/ d = [s EXCEPT !.fault = TRUE]
        \/ \E table \in Ram : ~s.fault /\ d = [s EXCEPT !.at = s.mem[table][i]]
        \/ \E target, again \in Ram :
              /\ ~s.fault
              /\ d = [s EXCEPT !.mem = SetEntry([s.mem EXCEPT ![target] = EmptyTable], again, i, new),
                               !.free = @ \ {new},
                               !.at = new]
    BY DescendCases
  <2>2. CASE d = [s EXCEPT !.fault = TRUE]
    BY <1>1, <1>2, <2>2
  <2> HIDE DEF d, new
  <2> QED
    BY <1>3, <1>4, <2>1, <2>2
<1> QED
  BY <1>5

\* A tree without frames of K, and the place in it that the walk for page v has
\* at level k.
OnPath(s, v, k, K) ==
    /\ ~s.fault /\ s.at = Reach(s.mem, v, k) /\ K \intersect s.free = {}
    /\ \E T : Tree(s.mem, s.free, T) /\ s.at \in T[k] /\ Avoids(T, K)

\* One level on: the entry was there, or a new table was entered that is empty.
Follows(d, s, i) ==
    \/ /\ s.mem[s.at][i] # Absent
       /\ d.mem = s.mem /\ d.free = s.free
    \/ /\ d.at = RequestPage(s.free) /\ d.at \in s.free \intersect Ram
       /\ \A j \in Slots : d.mem[d.at][j] = Absent

\* What lies in the frames of K is the same in both memories.
Untouched(m, n, K) == \A f \in K \intersect Ram : m[f] = n[f]

\* A new table is entered.
LEMMA TreeGrows ==
    ASSUME NEW m \in Memories, NEW pool \in SUBSET Nat, NEW T, Tree(m, pool, T),
           NEW k \in 1..3, NEW at \in T[k], NEW i \in Slots, m[at][i] = Absent,
           NEW new \in pool \intersect Ram
    PROVE  LET m2 == SetEntry([m EXCEPT ![new] = EmptyTable], at, i, new)
           IN Tree(m2, pool \ {new}, [T EXCEPT ![k + 1] = @ \union {new}])
<1> DEFINE m2 == SetEntry([m EXCEPT ![new] = EmptyTable], at, i, new)
           T2 == [T EXCEPT ![k + 1] = @ \union {new}]
<1>1. /\ T \in [1..4 -> SUBSET Ram] /\ T[1] = {root}
      /\ \A a, b \in 1..4 : a # b => T[a] \intersect T[b] = {}
      /\ \A a \in 1..4 : T[a] \intersect pool = {}
      /\ \A a \in 1..3 : \A f \in T[a], j \in Slots : m[f][j] # Absent => m[f][j] \in T[a + 1]
      /\ \A a \in 1..3 : \A g \in T[a + 1] : \E f \in T[a], j \in Slots : m[f][j] = g
      /\ \A a \in 1..3 : \A f, g \in T[a], j, l \in Slots :
             m[f][j] # Absent /\ m[f][j] = m[g][l] => f = g /\ j = l
  BY DEF Tree
<1>2. /\ k \in 1..4 /\ k + 1 \in 1..4 /\ k + 1 # 1 /\ k + 1 # k
      /\ \A a \in 1..3 : a \in 1..4 /\ a + 1 \in 1..4 /\ (a + 1 = k + 1 => a = k)
  OBVIOUS
<1>3. /\ at \in Ram /\ new \in Ram /\ new \in Int /\ at # new
      /\ \A a \in 1..4 : new \notin T[a] /\ (at \in T[a] => a = k)
  BY <1>1, <1>2 DEF Ram
<1>4. ASSUME NEW f \in Ram, NEW j \in Slots
      PROVE  m2[f][j] = IF f = at /\ j = i THEN new ELSE IF f = new THEN Absent ELSE m[f][j]
  <2> DEFINE cleared == [m EXCEPT ![new] = EmptyTable]
  <2>1. cleared \in Memories /\ cleared[f][j] = IF f = new THEN Absent ELSE m[f][j]
    BY <1>3, ClearedType
  <2> HIDE DEF cleared
  <2>2. SetEntry(cleared, at, i, new)[f][j] = IF f = at /\ j = i THEN new ELSE cleared[f][j]
    BY <1>3, <2>1, SetEntryType
  <2>3. m2 = SetEntry(cleared, at, i, new)
    BY DEF cleared
  <2> HIDE DEF m2
  <2> QED
    BY <1>3, <2>1, <2>2, <2>3
<1>5. /\ T2 \in [1..4 -> SUBSET Ram]
      /\ \A a \in 1..4 : T2[a] = IF a = k + 1 THEN T[a] \union {new} ELSE T[a]
  <2>1. T[k + 1] \union {new} \in SUBSET Ram
    BY <1>1, <1>2, <1>3
  <2> HIDE DEF m2
  <2> QED
    BY <1>1, <1>2, <2>1
<1> HIDE DEF m2, T2
<1>6. new \notin pool \ {new} /\ new # Absent
  BY <1>3 DEF Absent, Ram
<1>7. T2[1] = {root}
  BY <1>1, <1>2, <1>5
<1>8. \A a, b \in 1..4 : a # b => T2[a] \intersect T2[b] = {}
  BY <1>1, <1>3, <1>5
<1>9. \A a \in 1..4 : T2[a] \intersect (pool \ {new}) = {}
  BY <1>1, <1>5
<1>10. ASSUME NEW a \in 1..3, NEW f \in T2[a], NEW j \in Slots, m2[f][j] # Absent
       PROVE  /\ f \in T[a] /\ m2[f][j] \in T2[a + 1]
              /\ IF f = at /\ j = i THEN m2[f][j] = new ELSE m2[f][j] = m[f][j] /\ m[f][j] # new
  <2>1. f \in Ram /\ (f \in T[a] \/ f = new)
    BY <1>2, <1>5
  <2>2. f # new
    BY <1>3, <1>4, <1>10, <2>1
  <2>3. f \in T[a]
    BY <2>1, <2>2
  <2>4. CASE f = at /\ j = i
    <3>1. a = k /\ m2[f][j] = new
      BY <1>2, <1>3, <1>4, <2>1, <2>3, <2>4
    <3> QED
      BY <1>2, <1>5, <2>3, <2>4, <3>1
  <2>5. CASE ~(f = at /\ j = i)
    <3>1. m2[f][j] = m[f][j]
      BY <1>4, <2>1, <2>2, <2>5
    <3>2. m[f][j] \in T[a + 1]
      BY <1>1, <1>10, <2>3, <3>1
    <3> QED
      BY <1>2, <1>3, <1>5, <2>3, <2>5, <3>1, <3>2
  <2> QED
    BY <2>4, <2>5
<1>11. ASSUME NEW a \in 1..3, NEW g \in T2[a + 1]
       PROVE  \E f \in T2[a], j \in Slots : m2[f][j] = g
  <2>1. CASE g = new
    <3>1. a = k
      BY <1>2, <1>3, <1>5, <2>1
    <3>2. m2[at][i] = new /\ at \in T2[k]
      BY <1>2, <1>3, <1>4, <1>5
    <3> QED
      BY <2>1, <3>1, <3>2
  <2>2. CASE g # new
    <3>1. g \in T[a + 1]
      BY <1>2, <1>5, <2>2
    <3>2. PICK f \in T[a], j \in Slots : m[f][j] = g
      BY <1>1, <3>1
    <3>3. f \in Ram /\ f # new /\ f \in T2[a]
      BY <1>1, <1>2, <1>3, <1>5, <3>2
    <3>4. g # Absent
      BY <1>1, <1>2, <3>1 DEF Ram, Absent
    <3>5. ~(f = at /\ j = i)
      BY <3>2, <3>4
    <3>6. m2[f][j] = g
      BY <1>4, <3>2, <3>3, <3>5
    <3> QED
      BY <3>3, <3>6
  <2> QED
    BY <2>1, <2>2
<1>12. ASSUME NEW a \in 1..3, NEW f \in T2[a], NEW g \in T2[a], NEW j \in Slots, NEW l \in Slots,
              m2[f][j] # Absent, m2[f][j] = m2[g][l]
       PROVE  f = g /\ j = l
  <2>1. /\ f \in T[a]
        /\ IF f = at /\ j = i THEN m2[f][j] = new ELSE m2[f][j] = m[f][j] /\ m[f][j] # new
    BY <1>10, <1>12
  <2>2. /\ g \in T[a]
        /\ IF g = at /\ l = i THEN m2[g][l] = new ELSE m2[g][l] = m[g][l] /\ m[g][l] # new
    BY <1>10, <1>12
  <2>3. CASE f = at /\ j = i
    BY <1>12, <2>1, <2>2, <2>3
  <2>4. CASE ~(f = at /\ j = i)
    <3>1. m[f][j] = m[g][l] /\ m[f][j] # Absent
      BY <1>12, <2>1, <2>2, <2>4
    <3> QED
      BY <1>1, <2>1, <2>2, <3>1
  <2> QED
    BY <2>3, <2>4
<1>13. \A a \in 1..3 : \A f \in T2[a], j \in Slots : m2[f][j] # Absent => m2[f][j] \in T2[a + 1]
  BY <1>10
<1>14. \A a \in 1..3 : \A g \in T2[a + 1] : \E f \in T2[a], j \in Slots : m2[f][j] = g
  BY <1>11
<1>15. \A a \in 1..3 : \A f, g \in T2[a], j, l \in Slots :
           m2[f][j] # Absent /\ m2[f][j] = m2[g][l] => f = g /\ j = l
  BY <1>12
<1> QED
  BY <1>5, <1>7, <1>8, <1>9, <1>13, <1>14, <1>15 DEF Tree, m2, T2

\* An entry of the last level is no link, whatever is written there.
LEMMA LeafWritten ==
    ASSUME NEW m \in Memories, NEW pool, NEW T, Tree(m, pool, T),
           NEW at \in T[4], NEW i \in Slots, NEW p \in Int
    PROVE  Tree(SetEntry(m, at, i, p), pool, T)
<1> DEFINE m2 == SetEntry(m, at, i, p)
<1>1. T \in [1..4 -> SUBSET Ram] /\ \A a, b \in 1..4 : a # b => T[a] \intersect T[b] = {}
  BY DEF Tree
<1>2. at \in Ram
  BY <1>1
<1>3. ASSUME NEW a \in 1..3, NEW f \in T[a], NEW j \in Slots PROVE m2[f][j] = m[f][j]
  <2>1. f \in Ram /\ f # at
    BY <1>1
  <2> QED
    BY <1>2, <2>1, SetEntryType
<1> HIDE DEF m2
<1>4. ASSUME NEW a \in 1..3, NEW f \in T[a], NEW j \in Slots, m2[f][j] # Absent
      PROVE  m2[f][j] \in T[a + 1]
  <2>1. m[f][j] # Absent => m[f][j] \in T[a + 1]
    BY DEF Tree
  <2> QED
    BY <1>3, <1>4, <2>1
<1>5. \A a \in 1..3 : \A g \in T[a + 1] : \E f \in T[a], j \in Slots : m2[f][j] = g
  <2> SUFFICES ASSUME NEW a \in 1..3, NEW g \in T[a + 1]
               PROVE  \E f \in T[a], j \in Slots : m2[f][j] = g
    OBVIOUS
  <2>1. PICK f \in T[a], j \in Slots : m[f][j] = g
    BY DEF Tree
  <2> QED
    BY <1>3, <2>1
<1>6. \A a \in 1..3 : \A f, g \in T[a], j, l \in Slots :
          m2[f][j] # Absent /\ m2[f][j] = m2[g][l] => f = g /\ j = l
  <2> SUFFICES ASSUME NEW a \in 1..3, NEW f \in T[a], NEW g \in T[a], NEW j \in Slots, NEW l \in Slots,
                      m2[f][j] # Absent, m2[f][j] = m2[g][l]
               PROVE  f = g /\ j = l
    OBVIOUS
  <2>1. m2[f][j] = m[f][j] /\ m2[g][l] = m[g][l]
    BY <1>3
  <2>2. m[f][j] # Absent /\ m[f][j] = m[g][l]
    BY <2>1
  <2>3. m[f][j] # Absent /\ m[f][j] = m[g][l] => f = g /\ j = l
    BY DEF Tree
  <2> QED
    BY <2>2, <2>3
<1>7. \A a \in 1..4 : T[a] \intersect pool = {}
  BY DEF Tree
<1>8. T[1] = {root}
  BY DEF Tree
<1> QED
  BY <1>1, <1>4, <1>5, <1>6, <1>7, <1>8 DEF Tree, m2

-----------------------------------------------------------------------------
(* The walk of the processor *)

LEMMA ReachStep ==
    ASSUME NEW m, NEW v, NEW k \in 1..4
    PROVE  Reach(m, v, k + 1) = Entry(m, Reach(m, v, k), Index(v, k))
<1>1. k = 1 \/ k = 2 \/ k = 3 \/ k = 4
  OBVIOUS
<1> QED
  BY <1>1 DEF Reach, Index, Walk

LEMMA IndexTypes ==
    ASSUME NEW v \in Nat
    PROVE  /\ PDP_i(v) \in Slots /\ PD_i(v) \in Slots /\ PT_i(v) \in Slots /\ P_i(v) \in Slots
           /\ \A k \in 1..4 : Index(v, k) \in Slots
<1>1. Fanout \in Nat \ {0, 1}
  BY PageTablesAssumption
<1>2. Fanout * Fanout \in Nat \ {0}
  BY <1>1
<1>3. Fanout * Fanout * Fanout \in Nat \ {0}
  BY <1>1, <1>2
<1>4. ASSUME NEW x \in Int PROVE x % Fanout \in Slots
  BY <1>1 DEF Slots
<1>5. ASSUME NEW d \in Nat \ {0} PROVE v \div d \in Int
  OBVIOUS
<1>6. /\ v \div (Fanout * Fanout * Fanout) \in Int /\ v \div (Fanout * Fanout) \in Int
      /\ v \div Fanout \in Int
  BY <1>1, <1>2, <1>3, <1>5
<1>7. PDP_i(v) \in Slots /\ PD_i(v) \in Slots /\ PT_i(v) \in Slots /\ P_i(v) \in Slots
  BY <1>4, <1>6 DEF PDP_i, PD_i, PT_i, P_i
<1> QED
  BY <1>7 DEF Index

\* Quotient and remainder determine a number, and quotients compose.
LEMMA SameQuotient ==
    ASSUME NEW n \in Nat, NEW m \in Nat, NEW d \in Nat \ {0}, n % d = m % d, n \div d = m \div d
    PROVE  n = m
BY SMTT(30)

LEMMA QuotientType ==
    ASSUME NEW n \in Nat, NEW d \in Nat \ {0}
    PROVE  n \div d \in Nat
OBVIOUS

LEMMA QuotientTwice ==
    ASSUME NEW n \in Nat, NEW d \in Nat \ {0}, NEW e \in Nat \ {0}
    PROVE  (n \div d) \div e = n \div (d * e)
BY SMTT(30)

LEMMA QuotientBound ==
    ASSUME NEW n \in Nat, NEW d \in Nat \ {0}, NEW e \in Nat \ {0}, n < d * e
    PROVE  n \div d < e
BY SMTT(30)

LEMMA SmallRemainder ==
    ASSUME NEW n \in Nat, NEW d \in Nat \ {0}, n < d
    PROVE  n % d = n
OBVIOUS

\* PageMapIndexer loses nothing: four indices name one page.
LEMMA IndicesDetermine ==
    ASSUME NEW v \in Pages, NEW w \in Pages,
           PDP_i(v) = PDP_i(w), PD_i(v) = PD_i(w), PT_i(v) = PT_i(w), P_i(v) = P_i(w)
    PROVE  v = w
<1> DEFINE F == Fanout
<1>1. F \in Nat \ {0}
  BY PageTablesAssumption
<1>2. F * F \in Nat \ {0}
  BY <1>1
<1>3. F * F * F \in Nat \ {0}
  BY <1>1, <1>2
<1>4. v \in Nat /\ w \in Nat /\ v < F * F * F * F /\ w < F * F * F * F
  <2>1. F * F * F * F \in Nat
    BY <1>1, <1>3
  <2> QED
    BY <2>1 DEF Pages
<1>5. /\ v \div F \in Nat /\ v \div (F * F) \in Nat /\ v \div (F * F * F) \in Nat
      /\ w \div F \in Nat /\ w \div (F * F) \in Nat /\ w \div (F * F * F) \in Nat
  <2> HIDE DEF F
  <2> QED
    BY <1>1, <1>2, <1>3, <1>4, QuotientType
<1>6. /\ (v \div F) \div F = v \div (F * F) /\ (v \div (F * F)) \div F = v \div (F * F * F)
      /\ (w \div F) \div F = w \div (F * F) /\ (w \div (F * F)) \div F = w \div (F * F * F)
  <2> HIDE DEF F
  <2> QED
    BY <1>1, <1>2, <1>4, QuotientTwice
<1>7. v \div (F * F * F) < F /\ w \div (F * F * F) < F
  <2> HIDE DEF F
  <2> QED
    BY <1>1, <1>3, <1>4, QuotientBound
<1>8. v \div (F * F * F) = w \div (F * F * F)
  <2>1. (v \div (F * F * F)) % F = v \div (F * F * F) /\ (w \div (F * F * F)) % F = w \div (F * F * F)
    BY <1>1, <1>5, <1>7, SmallRemainder
  <2> QED
    BY <2>1 DEF PDP_i
<1>9. v \div (F * F) = w \div (F * F)
  <2>1. (v \div (F * F)) % F = (w \div (F * F)) % F
    BY DEF PD_i
  <2> HIDE DEF F
  <2> QED
    BY <1>1, <1>5, <1>6, <1>8, <2>1, SameQuotient
<1>10. v \div F = w \div F
  <2>1. (v \div F) % F = (w \div F) % F
    BY DEF PT_i
  <2> HIDE DEF F
  <2> QED
    BY <1>1, <1>5, <1>6, <1>9, <2>1, SameQuotient
<1>11. v % F = w % F
  BY DEF P_i
<1> HIDE DEF F
<1> QED
  BY <1>1, <1>4, <1>10, <1>11, SameQuotient

\* From a table the walk comes to a table of the next level or ends.
LEMMA ReachInTree ==
    ASSUME NEW m \in Memories, NEW pool, NEW T, Tree(m, pool, T), NEW w \in Nat, NEW k \in 1..4
    PROVE  Reach(m, w, k) \in T[k] \/ Reach(m, w, k) = Absent
<1>1. T[1] = {root} /\ T \in [1..4 -> SUBSET Ram]
  BY DEF Tree
<1>2. ASSUME NEW j \in 1..3, Reach(m, w, j) \in T[j] \/ Reach(m, w, j) = Absent
      PROVE  Reach(m, w, j + 1) \in T[j + 1] \/ Reach(m, w, j + 1) = Absent
  <2>1. j \in 1..4 /\ Absent \notin Ram
    BY DEF Ram, Absent
  <2>2. Reach(m, w, j + 1) = Entry(m, Reach(m, w, j), Index(w, j)) /\ Index(w, j) \in Slots
    BY <2>1, ReachStep, IndexTypes
  <2>3. CASE Reach(m, w, j) \in T[j]
    <3>1. Reach(m, w, j + 1) = m[Reach(m, w, j)][Index(w, j)]
      BY <1>1, <2>1, <2>2, <2>3 DEF Entry
    <3> QED
      BY <2>2, <2>3, <3>1 DEF Tree
  <2>4. CASE Reach(m, w, j) = Absent
    BY <2>1, <2>2, <2>4 DEF Entry
  <2> QED
    BY <1>2, <2>3, <2>4
<1>3. Reach(m, w, 1) \in T[1]
  BY <1>1 DEF Reach
<1>4. Reach(m, w, 2) \in T[2] \/ Reach(m, w, 2) = Absent
  BY <1>2, <1>3
<1>5. Reach(m, w, 3) \in T[3] \/ Reach(m, w, 3) = Absent
  BY <1>2, <1>4
<1>6. Reach(m, w, 4) \in T[4] \/ Reach(m, w, 4) = Absent
  BY <1>2, <1>5
<1>7. k = 1 \/ k = 2 \/ k = 3 \/ k = 4
  OBVIOUS
<1> QED
  BY <1>3, <1>4, <1>5, <1>6, <1>7

\* Pages whose walks meet in a table have shared every index above it.
LEMMA ReachInjective ==
    ASSUME NEW m \in Memories, NEW pool, NEW T, Tree(m, pool, T), NEW v \in Nat, NEW w \in Nat,
           NEW k \in 1..3, Reach(m, v, k + 1) = Reach(m, w, k + 1), Reach(m, v, k + 1) \in T[k + 1]
    PROVE  /\ Reach(m, v, k) = Reach(m, w, k) /\ Reach(m, v, k) \in T[k]
           /\ Index(v, k) = Index(w, k)
<1>1. /\ k \in 1..4 /\ k + 1 \in 1..4 /\ Absent \notin Ram /\ T \in [1..4 -> SUBSET Ram]
  BY DEF Ram, Absent, Tree
<1>2. /\ Reach(m, v, k + 1) = Entry(m, Reach(m, v, k), Index(v, k)) /\ Index(v, k) \in Slots
      /\ Reach(m, w, k + 1) = Entry(m, Reach(m, w, k), Index(w, k)) /\ Index(w, k) \in Slots
  BY <1>1, ReachStep, IndexTypes
<1>3. Reach(m, v, k + 1) # Absent
  BY <1>1
<1>4. Reach(m, v, k) \in T[k] /\ Reach(m, w, k) \in T[k]
  <2>1. Reach(m, v, k) # Absent /\ Reach(m, w, k) # Absent
    BY <1>1, <1>2, <1>3 DEF Entry
  <2> QED
    BY <1>1, <2>1, ReachInTree
<1>5. /\ Reach(m, v, k + 1) = m[Reach(m, v, k)][Index(v, k)]
      /\ Reach(m, w, k + 1) = m[Reach(m, w, k)][Index(w, k)]
  BY <1>1, <1>2, <1>4 DEF Entry
<1>6. \A f, g \in T[k], i, j \in Slots : m[f][i] # Absent /\ m[f][i] = m[g][j] => f = g /\ i = j
  BY DEF Tree
<1> QED
  BY <1>2, <1>3, <1>4, <1>5, <1>6

LEMMA SameTableSamePage ==
    ASSUME NEW m \in Memories, NEW pool, NEW T, Tree(m, pool, T), NEW v \in Pages, NEW w \in Pages,
           Reach(m, v, 4) = Reach(m, w, 4), Reach(m, v, 4) \in T[4], P_i(v) = P_i(w)
    PROVE  v = w
<1>1. v \in Nat /\ w \in Nat
  BY DEF Pages
<1>2. 3 + 1 = 4 /\ 2 + 1 = 3 /\ 1 + 1 = 2 /\ 1 \in 1..3 /\ 2 \in 1..3 /\ 3 \in 1..3
  OBVIOUS
<1>3. /\ Reach(m, v, 3) = Reach(m, w, 3) /\ Reach(m, v, 3) \in T[3] /\ Index(v, 3) = Index(w, 3)
  BY <1>1, <1>2, ReachInjective
<1>4. /\ Reach(m, v, 2) = Reach(m, w, 2) /\ Reach(m, v, 2) \in T[2] /\ Index(v, 2) = Index(w, 2)
  BY <1>1, <1>2, <1>3, ReachInjective
<1>5. Index(v, 1) = Index(w, 1)
  BY <1>1, <1>2, <1>4, ReachInjective
<1>6. PDP_i(v) = PDP_i(w) /\ PD_i(v) = PD_i(w) /\ PT_i(v) = PT_i(w)
  BY <1>3, <1>4, <1>5 DEF Index
<1> QED
  BY <1>6, IndicesDetermine

\* Entering a new, empty table changes the translation of no page, and leaves
\* every walk on the tables it was on.
LEMMA GrowthKeepsWalks ==
    ASSUME NEW m \in Memories, NEW pool \in SUBSET Nat, NEW T, Tree(m, pool, T),
           NEW k \in 1..3, NEW at \in T[k], NEW i \in Slots, m[at][i] = Absent,
           NEW new \in pool \intersect Ram
    PROVE  LET m2 == SetEntry([m EXCEPT ![new] = EmptyTable], at, i, new)
           IN SameWalks(m2, m) /\ SameTables(m2, m)
<1> DEFINE m2 == SetEntry([m EXCEPT ![new] = EmptyTable], at, i, new)
           Alike(x, y, j) == \/ x = y /\ x \in T[j]
                             \/ x = Absent /\ (y = Absent \/ y = new)
<1>1. /\ T \in [1..4 -> SUBSET Ram] /\ T[1] = {root} /\ Absent \notin Ram
      /\ \A a, b \in 1..4 : a # b => T[a] \intersect T[b] = {}
      /\ \A a \in 1..4 : T[a] \intersect pool = {}
  BY DEF Tree, Absent, Ram
<1>2. /\ at \in Ram /\ new \in Ram /\ new \in Int /\ at # new
      /\ \A a \in 1..4 : new \notin T[a]
      /\ at \notin T[4]
  BY <1>1 DEF Ram
<1>3. ASSUME NEW f \in Ram, NEW j \in Slots
      PROVE  m2[f][j] = IF f = at /\ j = i THEN new ELSE IF f = new THEN Absent ELSE m[f][j]
  <2> DEFINE cleared == [m EXCEPT ![new] = EmptyTable]
  <2>1. cleared \in Memories /\ cleared[f][j] = IF f = new THEN Absent ELSE m[f][j]
    BY <1>2, ClearedType
  <2> HIDE DEF cleared
  <2>2. SetEntry(cleared, at, i, new)[f][j] = IF f = at /\ j = i THEN new ELSE cleared[f][j]
    BY <1>2, <2>1, SetEntryType
  <2>3. m2 = SetEntry(cleared, at, i, new)
    BY DEF cleared
  <2> HIDE DEF m2
  <2> QED
    BY <1>2, <2>1, <2>2, <2>3
<1> HIDE DEF m2
<1>4. ASSUME NEW w \in Nat
      PROVE  /\ Walk(m2, root, w) = Walk(m, root, w)
             /\ \A j \in 1..4 : Reach(m, w, j) # Absent => Reach(m2, w, j) = Reach(m, w, j)
  <2>1. \A j \in 1..4 : Index(w, j) \in Slots
    BY IndexTypes
  <2>2. ASSUME NEW j \in 1..3, Alike(Reach(m, w, j), Reach(m2, w, j), j)
        PROVE  Alike(Reach(m, w, j + 1), Reach(m2, w, j + 1), j + 1)
    <3>1. j \in 1..4 /\ Index(w, j) \in Slots
      BY <2>1
    <3>2. /\ Reach(m, w, j + 1) = Entry(m, Reach(m, w, j), Index(w, j))
          /\ Reach(m2, w, j + 1) = Entry(m2, Reach(m2, w, j), Index(w, j))
      BY <3>1, ReachStep
    <3>3. CASE Reach(m, w, j) = Reach(m2, w, j) /\ Reach(m, w, j) \in T[j]
      <4>1. Reach(m, w, j) \in Ram /\ Reach(m, w, j) # new
        BY <1>1, <1>2, <3>1, <3>3
      <4>2. /\ Reach(m, w, j + 1) = m[Reach(m, w, j)][Index(w, j)]
            /\ Reach(m2, w, j + 1) = IF Reach(m, w, j) = at /\ Index(w, j) = i THEN new
                                     ELSE m[Reach(m, w, j)][Index(w, j)]
        BY <1>3, <3>1, <3>2, <3>3, <4>1 DEF Entry
      <4>3. \/ m[Reach(m, w, j)][Index(w, j)] = Absent
            \/ m[Reach(m, w, j)][Index(w, j)] \in T[j + 1]
        BY <3>1, <3>3 DEF Tree
      <4> QED
        BY <4>2, <4>3
    <3>4. CASE Reach(m, w, j) = Absent /\ Reach(m2, w, j) = Absent
      BY <1>1, <3>2, <3>4 DEF Entry
    <3>5. CASE Reach(m, w, j) = Absent /\ Reach(m2, w, j) = new
      <4>1. m2[new][Index(w, j)] = Absent
        BY <1>2, <1>3, <3>1
      <4> QED
        BY <1>1, <1>2, <3>2, <3>5, <4>1 DEF Entry
    <3> QED
      BY <2>2, <3>3, <3>4, <3>5
  <2>3. Alike(Reach(m, w, 1), Reach(m2, w, 1), 1)
    BY <1>1 DEF Reach
  <2>4. 3 + 1 = 4 /\ 2 + 1 = 3 /\ 1 + 1 = 2 /\ 1 \in 1..3 /\ 2 \in 1..3 /\ 3 \in 1..3
    OBVIOUS
  <2> HIDE DEF Alike
  <2>5. Alike(Reach(m, w, 2), Reach(m2, w, 2), 2)
    BY <2>2, <2>3, <2>4
  <2>6. Alike(Reach(m, w, 3), Reach(m2, w, 3), 3)
    BY <2>2, <2>4, <2>5
  <2>7. Alike(Reach(m, w, 4), Reach(m2, w, 4), 4)
    BY <2>2, <2>4, <2>6
  <2> USE DEF Alike
  <2>8. /\ Walk(m, root, w) = Entry(m, Reach(m, w, 4), P_i(w))
        /\ Walk(m2, root, w) = Entry(m2, Reach(m2, w, 4), P_i(w))
        /\ P_i(w) \in Slots
    BY <2>1, IndexTypes DEF Walk, Reach
  <2>9. ASSUME NEW j \in 1..4, Reach(m, w, j) # Absent PROVE Reach(m2, w, j) = Reach(m, w, j)
    <3>1. j = 1 \/ j = 2 \/ j = 3 \/ j = 4
      OBVIOUS
    <3> QED
      BY <2>3, <2>5, <2>6, <2>7, <2>9, <3>1
  <2>10. Walk(m2, root, w) = Walk(m, root, w)
    <3>1. CASE Reach(m, w, 4) = Reach(m2, w, 4) /\ Reach(m, w, 4) \in T[4]
      <4>1. Reach(m, w, 4) \in Ram /\ Reach(m, w, 4) # new /\ Reach(m, w, 4) # at
        BY <1>1, <1>2, <3>1
      <4> QED
        BY <1>3, <2>8, <3>1, <4>1 DEF Entry
    <3>2. CASE Reach(m, w, 4) = Absent /\ Reach(m2, w, 4) = Absent
      BY <1>1, <2>8, <3>2 DEF Entry
    <3>3. CASE Reach(m, w, 4) = Absent /\ Reach(m2, w, 4) = new
      <4>1. m2[new][P_i(w)] = Absent
        BY <1>2, <1>3, <2>8
      <4> QED
        BY <1>1, <1>2, <2>8, <3>3, <4>1 DEF Entry
    <3> QED
      BY <2>7, <3>1, <3>2, <3>3
  <2> QED
    BY <2>9, <2>10
<1>5. Pages \subseteq Nat
  BY DEF Pages
<1> QED
  BY <1>4, <1>5 DEF SameWalks, SameTables, m2

\* The entry written last is the translation of its page, and of no other.
LEMMA LeafTranslates ==
    ASSUME NEW m \in Memories, NEW pool, NEW T, Tree(m, pool, T), NEW v \in Pages, NEW p \in Int,
           NEW at \in T[4], Reach(m, v, 4) = at, NEW w \in Pages
    PROVE  Walk(SetEntry(m, at, P_i(v), p), root, w) = IF w = v THEN p ELSE Walk(m, root, w)
<1> DEFINE m2 == SetEntry(m, at, P_i(v), p)
<1>1. /\ T \in [1..4 -> SUBSET Ram] /\ Absent \notin Ram
      /\ \A a, b \in 1..4 : a # b => T[a] \intersect T[b] = {}
  BY DEF Tree, Absent, Ram
<1>2. at \in Ram /\ v \in Nat /\ w \in Nat
  BY <1>1 DEF Pages
<1>3. /\ P_i(v) \in Slots /\ P_i(w) \in Slots /\ \A j \in 1..4 : Index(w, j) \in Slots
  BY <1>2, IndexTypes
<1>4. \A f \in Ram, j \in Slots : m2[f][j] = IF f = at /\ j = P_i(v) THEN p ELSE m[f][j]
  BY <1>2, <1>3, SetEntryType
<1> HIDE DEF m2
<1>5. ASSUME NEW j \in 1..3, Reach(m2, w, j) = Reach(m, w, j)
      PROVE  Reach(m2, w, j + 1) = Reach(m, w, j + 1)
  <2>1. j \in 1..4 /\ Index(w, j) \in Slots
    BY <1>3
  <2>2. /\ Reach(m, w, j + 1) = Entry(m, Reach(m, w, j), Index(w, j))
        /\ Reach(m2, w, j + 1) = Entry(m2, Reach(m2, w, j), Index(w, j))
    BY <2>1, ReachStep
  <2>3. CASE Reach(m, w, j) \in T[j]
    <3>1. Reach(m, w, j) \in Ram /\ Reach(m, w, j) # at
      BY <1>1, <2>1, <2>3
    <3> QED
      BY <1>4, <1>5, <2>1, <2>2, <3>1 DEF Entry
  <2>4. CASE Reach(m, w, j) = Absent
    BY <1>1, <1>5, <2>2, <2>4 DEF Entry
  <2> QED
    BY <1>2, <2>1, <2>3, <2>4, ReachInTree
<1>6. 3 + 1 = 4 /\ 2 + 1 = 3 /\ 1 + 1 = 2 /\ 1 \in 1..3 /\ 2 \in 1..3 /\ 3 \in 1..3
  OBVIOUS
<1>7. Reach(m2, w, 1) = Reach(m, w, 1)
  BY DEF Reach
<1>8. Reach(m2, w, 2) = Reach(m, w, 2)
  BY <1>5, <1>6, <1>7
<1>9. Reach(m2, w, 3) = Reach(m, w, 3)
  BY <1>5, <1>6, <1>8
<1>10. Reach(m2, w, 4) = Reach(m, w, 4)
  BY <1>5, <1>6, <1>9
<1>11. /\ Walk(m, root, w) = Entry(m, Reach(m, w, 4), P_i(w))
       /\ Walk(m2, root, w) = Entry(m2, Reach(m, w, 4), P_i(w))
  BY <1>10 DEF Walk, Reach
<1>12. CASE w = v
  BY <1>2, <1>3, <1>4, <1>11, <1>12 DEF Entry, m2
<1>13. CASE w # v
  <2>1. ~(Reach(m, w, 4) = at /\ P_i(w) = P_i(v))
    <3> SUFFICES ASSUME Reach(m, w, 4) = at, P_i(w) = P_i(v) PROVE FALSE
      OBVIOUS
    <3>1. v = w
      BY SameTableSamePage
    <3> QED
      BY <1>13, <3>1
  <2>2. Walk(m2, root, w) = Walk(m, root, w)
    BY <1>3, <1>4, <1>11, <2>1 DEF Entry
  <2> QED
    BY <1>13, <2>2 DEF m2
<1> QED
  BY <1>12, <1>13

\* While the pool has a frame of memory and the pointers lead where they say, a
\* level of the walk comes from the table of page v to the one of the level below,
\* no translation changes, and the frames of K stay as they are.
LEMMA DescendKeeps ==
    ASSUME NEW s \in Carried, NEW v \in Nat, NEW k \in 1..3, NEW K, OnPath(s, v, k, K),
           Direct(s, Index(v, k)), HasPage(Descend(s, Index(v, k)).free)
    PROVE  /\ OnPath(Descend(s, Index(v, k)), v, k + 1, K)
           /\ SameWalks(Descend(s, Index(v, k)).mem, s.mem)
           /\ Untouched(Descend(s, Index(v, k)).mem, s.mem, K)
           /\ Follows(Descend(s, Index(v, k)), s, Index(v, k))
<1> DEFINE i   == Index(v, k)
           d   == Descend(s, i)
           new == RequestPage(s.free)
<1>1. /\ s.mem \in Memories /\ s.free \in SUBSET Nat /\ s.at \in Int /\ s.fault \in BOOLEAN
      /\ s = [mem |-> s.mem, free |-> s.free, at |-> s.at, fault |-> s.fault]
  BY DEF Carried
<1>2. /\ k \in 1..4 /\ i \in Slots /\ ~s.fault /\ s.at = Reach(s.mem, v, k)
      /\ Reach(s.mem, v, k + 1) = Entry(s.mem, s.at, i) /\ K \intersect s.free = {}
  BY IndexTypes, ReachStep DEF OnPath
<1>b. Direct(s, i)
  OBVIOUS
<1> HIDE DEF i
<1>3. PICK T : Tree(s.mem, s.free, T) /\ s.at \in T[k] /\ Avoids(T, K)
  BY DEF OnPath
<1>4. T \in [1..4 -> SUBSET Ram] /\ k + 1 \in 1..4 /\ s.at \in Ram
  BY <1>2, <1>3 DEF Tree
<1>5. HasPage(s.free)
  <2>1. d.free \subseteq s.free
    BY <1>2, DescendType
  <2> QED
    BY <2>1 DEF HasPage, i
<1>6. new \in s.free \intersect Ram
  BY <1>1, <1>5, RequestPageType
<1>a. s.at \notin K /\ new \notin K
  BY <1>2, <1>3, <1>6 DEF Avoids
<1>7. CASE s.mem[s.at][i] # Absent
  <2>1. PICK table \in Ram : table = s.at /\ table = Deref(s.mem, s.at)
    BY <1>4, <1>b DEF Direct
  <2>2. d.mem = s.mem /\ d.free = s.free /\ d.at = s.mem[s.at][i] /\ ~d.fault
    BY <1>2, <1>7, <2>1, DescendFollows
  <2>3. s.mem[s.at][i] \in T[k + 1]
    BY <1>2, <1>3, <1>7 DEF Tree
  <2>4. Reach(s.mem, v, k + 1) = s.mem[s.at][i]
    BY <1>2, <1>4 DEF Entry
  <2> HIDE DEF d
  <2>5. OnPath(d, v, k + 1, K) /\ SameWalks(d.mem, s.mem)
    BY <1>2, <1>3, <2>2, <2>3, <2>4 DEF OnPath, SameWalks
  <2>6. Untouched(d.mem, s.mem, K) /\ Follows(d, s, i)
    BY <1>7, <2>2 DEF Untouched, Follows
  <2> QED
    BY <2>5, <2>6 DEF d, i
<1>8. CASE s.mem[s.at][i] = Absent
  <2> DEFINE m2 == SetEntry([s.mem EXCEPT ![new] = EmptyTable], s.at, i, new)
             T2 == [T EXCEPT ![k + 1] = @ \union {new}]
  <2>1. PICK target \in Ram : target = new /\ target = Deref(s.mem, new)
    BY <1>6, <1>8, <1>b DEF Direct
  <2>2. d.mem = m2 /\ d.free = s.free \ {new} /\ d.at = new /\ ~d.fault
    <3>1. PICK cleared : cleared = [s.mem EXCEPT ![target] = EmptyTable]
      OBVIOUS
    <3>2. PICK again \in Ram : again = s.at /\ again = Deref(cleared, s.at)
      BY <1>4, <1>8, <1>b, <2>1, <3>1 DEF Direct
    <3>3. Deref(s.mem, s.at) = again
      BY <1>b, <3>2 DEF Direct
    <3>4. PICK after : after = SetEntry(cleared, again, i, new)
      OBVIOUS
    <3>5. Enters(d, s, after, new)
      BY <1>2, <1>8, <2>1, <3>1, <3>2, <3>3, <3>4, DescendEnters
    <3>6. after = m2
      BY <2>1, <3>1, <3>2, <3>4
    <3> QED
      BY <3>5, <3>6 DEF Enters
  <2>3. Tree(m2, s.free \ {new}, T2)
    BY <1>1, <1>2, <1>3, <1>6, <1>8, TreeGrows
  <2>4. SameWalks(m2, s.mem) /\ (Reach(s.mem, v, k) # Absent => Reach(m2, v, k) = Reach(s.mem, v, k))
    <3>1. SameWalks(m2, s.mem) /\ SameTables(m2, s.mem)
      <4>1. /\ s.mem \in Memories /\ s.free \in SUBSET Nat /\ Tree(s.mem, s.free, T) /\ k \in 1..3
            /\ s.at \in T[k] /\ i \in Slots /\ s.mem[s.at][i] = Absent /\ new \in s.free \intersect Ram
        BY <1>1, <1>2, <1>3, <1>6, <1>8
      <4> HIDE DEF new
      <4> QED
        BY <4>1, GrowthKeepsWalks
    <3> HIDE DEF m2
    <3> QED
      BY <1>2, <3>1 DEF SameTables
  <2>5. new \in T2[k + 1] /\ T2[k] = T[k] /\ Avoids(T2, K)
    BY <1>2, <1>3, <1>4, <1>a DEF Avoids
  <2>a. [s.mem EXCEPT ![new] = EmptyTable] \in Memories /\ new \in Int
    BY <1>1, <1>6, ClearedType
  <2>6. m2 \in Memories /\ m2[s.at][i] = new
    BY <1>2, <1>4, <2>a, SetEntryType
  <2>7. Reach(m2, v, k + 1) = new
    <3>1. Reach(m2, v, k) = s.at
      BY <1>2, <1>4, <2>4 DEF Absent, Ram
    <3> QED
      BY <1>2, <1>4, <2>6, <3>1, ReachStep DEF Entry, i
  <2>8. Untouched(m2, s.mem, K)
    <3> SUFFICES ASSUME NEW f \in K \intersect Ram PROVE m2[f] = s.mem[f]
      BY DEF Untouched
    <3>1. f # s.at /\ f # new
      BY <1>a
    <3>2. [s.mem EXCEPT ![new] = EmptyTable][f] = s.mem[f]
      BY <1>1, <3>1 DEF Memories
    <3> QED
      BY <1>4, <2>a, <3>1, <3>2 DEF SetEntry, Memories
  <2>9. new # s.at
    BY <1>2, <1>3, <1>6 DEF Tree
  <2>10. \A j \in Slots : m2[new][j] = Absent
    <3>1. PICK n : n = new
      OBVIOUS
    <3>2. PICK cleared : cleared = [s.mem EXCEPT ![n] = EmptyTable]
      OBVIOUS
    <3>3. n \in Ram /\ cleared \in Memories /\ n \in Int /\ n # s.at
      BY <1>6, <2>9, <2>a, <3>1, <3>2
    <3>4. \A j \in Slots : cleared[n][j] = Absent
      BY <1>1, <3>2, <3>3, ClearedType
    <3>5. \A j \in Slots : SetEntry(cleared, s.at, i, n)[n][j] = cleared[n][j]
      <4>1. PICK at \in Ram : at = s.at
        BY <1>4
      <4>2. i \in Slots /\ n # at
        BY <1>2, <3>3, <4>1
      <4>3. \A j \in Slots : SetEntry(cleared, at, i, n)[n][j] = cleared[n][j]
        BY <3>3, <4>2, SetEntryType
      <4> QED
        BY <4>1, <4>3
    <3> QED
      BY <3>1, <3>2, <3>4, <3>5
  <2> HIDE DEF d, m2, T2
  <2>11. OnPath(d, v, k + 1, K) /\ SameWalks(d.mem, s.mem)
    BY <1>2, <2>2, <2>3, <2>4, <2>5, <2>7 DEF OnPath
  <2>12. Untouched(d.mem, s.mem, K) /\ Follows(d, s, i)
    BY <1>6, <2>2, <2>8, <2>10 DEF Follows
  <2> QED
    BY <2>11, <2>12 DEF d, i
<1> QED
  BY <1>7, <1>8

-----------------------------------------------------------------------------
(* A call of MapMemory *)

\* The walk for page v, after one, two and three levels.
Second(s, v) == Descend(s, Index(v, 1))
Third(s, v)  == Descend(Second(s, v), Index(v, 2))
Fourth(s, v) == Descend(Third(s, v), Index(v, 3))

LEMMA MapFromType ==
    ASSUME NEW s \in Carried, NEW v \in Nat, NEW p \in Int
    PROVE  /\ Second(s, v) \in Carried /\ Second(s, v).free \subseteq s.free
           /\ Third(s, v) \in Carried /\ Third(s, v).free \subseteq Second(s, v).free
           /\ Fourth(s, v) \in Carried /\ Fourth(s, v).free \subseteq Third(s, v).free
           /\ MapFrom(s, v, p) \in Carried /\ MapFrom(s, v, p).free = Fourth(s, v).free
           /\ LET leaf == Deref(Fourth(s, v).mem, Fourth(s, v).at)
              IN \/ /\ Fourth(s, v).fault \/ leaf \notin Ram
                    /\ MapFrom(s, v, p).mem = Fourth(s, v).mem
                 \/ /\ ~Fourth(s, v).fault /\ ~MapFrom(s, v, p).fault /\ leaf \in Ram
                    /\ MapFrom(s, v, p).mem = SetEntry(Fourth(s, v).mem, leaf, P_i(v), p)
<1>1. P_i(v) \in Slots /\ \A k \in 1..4 : Index(v, k) \in Slots
  BY IndexTypes
<1>2. Second(s, v) \in Carried /\ Second(s, v).free \subseteq s.free
  BY <1>1, DescendType DEF Second
<1>3. Third(s, v) \in Carried /\ Third(s, v).free \subseteq Second(s, v).free
  BY <1>1, <1>2, DescendType DEF Third
<1>4. Fourth(s, v) \in Carried /\ Fourth(s, v).free \subseteq Third(s, v).free
  BY <1>1, <1>3, DescendType DEF Fourth
<1>5. PICK c : c = Fourth(s, v)
  OBVIOUS
<1>6. PICK r : r = MapFrom(s, v, p)
  OBVIOUS
<1>7. PICK leaf : leaf = Deref(c.mem, c.at)
  OBVIOUS
<1>8. r = IF c.fault \/ leaf \notin Ram THEN [c EXCEPT !.fault = TRUE]
          ELSE [c EXCEPT !.mem = SetEntry(c.mem, leaf, P_i(v), p)]
  <2>1. c = Descend(Descend(Descend(s, PDP_i(v)), PD_i(v)), PT_i(v))
    BY <1>5 DEF Second, Third, Fourth, Index
  <2> QED
    BY <1>6, <1>7, <2>1 DEF MapFrom
<1>9. /\ c.mem \in Memories /\ c.free \in SUBSET Nat /\ c.at \in Int /\ c.fault \in BOOLEAN
      /\ c = [mem |-> c.mem, free |-> c.free, at |-> c.at, fault |-> c.fault]
  BY <1>4, <1>5 DEF Carried
<1>10. /\ r \in Carried /\ r.free = c.free
       /\ \/ (c.fault \/ leaf \notin Ram) /\ r.mem = c.mem
          \/ ~c.fault /\ ~r.fault /\ leaf \in Ram /\ r.mem = SetEntry(c.mem, leaf, P_i(v), p)
  <2>1. CASE c.fault \/ leaf \notin Ram
    BY <1>8, <1>9, <2>1 DEF Carried
  <2>2. CASE ~(c.fault \/ leaf \notin Ram)
    <3>1. SetEntry(c.mem, leaf, P_i(v), p) \in Memories
      BY <1>1, <1>9, <2>2, SetEntryType
    <3>2. r = [c EXCEPT !.mem = SetEntry(c.mem, leaf, P_i(v), p)]
      BY <1>8, <2>2
    <3>3. r.mem = SetEntry(c.mem, leaf, P_i(v), p) /\ r.free = c.free /\ r.fault = c.fault
      BY <1>9, <3>2
    <3>4. r \in Carried
      BY <1>9, <3>1, <3>2 DEF Carried
    <3> QED
      BY <2>2, <3>3, <3>4
  <2> QED
    BY <2>1, <2>2
<1> QED
  BY <1>2, <1>3, <1>4, <1>5, <1>6, <1>7, <1>10

\* What MapMemory(v, p) owes its caller, from a state s of memory and pool.
Serves(r, s, v, p, K) ==
    /\ ~r.fault /\ K \intersect r.free = {}
    /\ \E T : Tree(r.mem, r.free, T) /\ Avoids(T, K)
    /\ v \in Pages => \A w \in Pages : Walk(r.mem, root, w) = IF w = v THEN p ELSE Walk(s.mem, root, w)
    /\ Untouched(r.mem, s.mem, K)

LEMMA LastLevel ==
    ASSUME NEW s \in Carried, NEW v \in Nat, NEW p \in Int, NEW K,
           OnPath(Fourth(s, v), v, 4, K), SameWalks(Fourth(s, v).mem, s.mem),
           Untouched(Fourth(s, v).mem, s.mem, K),
           Deref(Fourth(s, v).mem, Fourth(s, v).at) = Fourth(s, v).at
    PROVE  Serves(MapFrom(s, v, p), s, v, p, K)
<1>1. PICK c : c = Fourth(s, v)
  OBVIOUS
<1>2. PICK r : r = MapFrom(s, v, p)
  OBVIOUS
<1>3. PICK T : Tree(c.mem, c.free, T) /\ c.at \in T[4] /\ Avoids(T, K)
  BY <1>1 DEF OnPath
<1>4. c \in Carried /\ c.mem \in Memories /\ P_i(v) \in Slots
  BY <1>1, MapFromType, IndexTypes DEF Carried
<1>5. /\ ~c.fault /\ c.at = Reach(c.mem, v, 4) /\ c.at \in Ram /\ K \intersect c.free = {}
      /\ Deref(c.mem, c.at) = c.at
  BY <1>1, <1>3 DEF OnPath, Tree
<1>6. ~r.fault /\ r.free = c.free /\ r.mem = SetEntry(c.mem, c.at, P_i(v), p)
  <2>1. PICK leaf : leaf = Deref(c.mem, c.at)
    OBVIOUS
  <2>2. \/ (c.fault \/ leaf \notin Ram) /\ r.mem = c.mem
        \/ /\ ~c.fault /\ ~r.fault /\ leaf \in Ram
           /\ r.mem = SetEntry(c.mem, leaf, P_i(v), p)
    BY <1>1, <1>2, <2>1, MapFromType
  <2>3. r.free = c.free
    BY <1>1, <1>2, MapFromType
  <2> QED
    BY <1>5, <2>1, <2>2, <2>3
<1>7. Tree(r.mem, r.free, T)
  BY <1>3, <1>4, <1>6, LeafWritten
<1>8. ASSUME v \in Pages, NEW w \in Pages
      PROVE  Walk(r.mem, root, w) = IF w = v THEN p ELSE Walk(s.mem, root, w)
  <2>1. Walk(r.mem, root, w) = IF w = v THEN p ELSE Walk(c.mem, root, w)
    <3>1. PICK m : m = c.mem
      OBVIOUS
    <3>2. PICK at : at = c.at
      OBVIOUS
    <3>3. m \in Memories /\ Tree(m, c.free, T) /\ at \in T[4] /\ Reach(m, v, 4) = at
      BY <1>3, <1>4, <1>5, <3>1, <3>2
    <3>4. Walk(SetEntry(m, at, P_i(v), p), root, w) = IF w = v THEN p ELSE Walk(m, root, w)
      BY <1>8, <3>3, LeafTranslates
    <3>5. r.mem = SetEntry(m, at, P_i(v), p)
      BY <1>6, <3>1, <3>2
    <3> QED
      BY <3>1, <3>4, <3>5
  <2>2. Walk(c.mem, root, w) = Walk(s.mem, root, w)
    BY <1>1 DEF SameWalks
  <2> QED
    BY <2>1, <2>2
<1>9. Untouched(r.mem, s.mem, K)
  <2> SUFFICES ASSUME NEW f \in K \intersect Ram PROVE r.mem[f] = s.mem[f]
    BY DEF Untouched
  <2>1. f # c.at
    BY <1>3 DEF Avoids
  <2>2. r.mem[f] = c.mem[f]
    BY <1>4, <1>5, <1>6, <2>1 DEF SetEntry, Memories
  <2> QED
    BY <1>1, <2>2 DEF Untouched
<1> QED
  BY <1>2, <1>3, <1>5, <1>6, <1>7, <1>8, <1>9 DEF Serves

\* MapMemory(v, p) leaves the tables a tree, and while the pool has a frame of
\* memory and its pointers lead where they say, it faults nowhere and changes the
\* translation of v alone.
LEMMA MapFromKeeps ==
    ASSUME NEW s \in Carried, NEW v \in Nat, NEW p \in Int, NEW K, OnPath(s, v, 1, K),
           Direct(s, Index(v, 1)), Direct(Second(s, v), Index(v, 2)), Direct(Third(s, v), Index(v, 3)),
           Deref(Fourth(s, v).mem, Fourth(s, v).at) = Fourth(s, v).at,
           HasPage(MapFrom(s, v, p).free)
    PROVE  Serves(MapFrom(s, v, p), s, v, p, K)
<1>1. /\ Second(s, v) \in Carried /\ Third(s, v) \in Carried
      /\ HasPage(Second(s, v).free) /\ HasPage(Third(s, v).free) /\ HasPage(Fourth(s, v).free)
  <2>1. /\ Second(s, v) \in Carried /\ Third(s, v) \in Carried
        /\ Third(s, v).free \subseteq Second(s, v).free /\ Fourth(s, v).free \subseteq Third(s, v).free
        /\ MapFrom(s, v, p).free = Fourth(s, v).free
    BY MapFromType
  <2> QED
    BY <2>1 DEF HasPage
<1>2. 1 \in 1..3 /\ 2 \in 1..3 /\ 3 \in 1..3 /\ 1 + 1 = 2 /\ 2 + 1 = 3 /\ 3 + 1 = 4
  OBVIOUS
<1>3. /\ OnPath(Second(s, v), v, 2, K) /\ SameWalks(Second(s, v).mem, s.mem)
      /\ Untouched(Second(s, v).mem, s.mem, K)
  BY <1>1, <1>2, DescendKeeps DEF Second
<1>4. /\ OnPath(Third(s, v), v, 3, K) /\ SameWalks(Third(s, v).mem, Second(s, v).mem)
      /\ Untouched(Third(s, v).mem, Second(s, v).mem, K)
  BY <1>1, <1>2, <1>3, DescendKeeps DEF Third
<1>5. /\ OnPath(Fourth(s, v), v, 4, K) /\ SameWalks(Fourth(s, v).mem, Third(s, v).mem)
      /\ Untouched(Fourth(s, v).mem, Third(s, v).mem, K)
  BY <1>1, <1>2, <1>4, DescendKeeps DEF Fourth
<1>6. SameWalks(Fourth(s, v).mem, s.mem) /\ Untouched(Fourth(s, v).mem, s.mem, K)
  BY <1>3, <1>4, <1>5 DEF SameWalks, Untouched
<1> QED
  BY <1>5, <1>6, LastLevel

\* The state MapMemory starts from.
LEMMA StartType ==
    ASSUME TypeOK
    PROVE  /\ Start \in Carried /\ Start.mem = mem /\ Start.free = free /\ Start.at = root
           /\ Start.fault = fault /\ root \in Ram /\ mem \in Memories
BY DEF TypeOK, Start, Carried, Memories, Ram

LEMMA StartOnPath ==
    ASSUME NEW s, s.at = root, ~s.fault, NEW T, Tree(s.mem, s.free, T), NEW K, Avoids(T, K),
           K \intersect s.free = {}, NEW v
    PROVE  OnPath(s, v, 1, K)
<1>1. root \in T[1] /\ Reach(s.mem, v, 1) = root
  BY DEF Tree, Reach
<1> QED
  BY <1>1 DEF OnPath
-----------------------------------------------------------------------------
(* The steps *)

LEMMA InitIInv == Init => IInv
<1> SUFFICES ASSUME Init PROVE IInv
  OBVIOUS
<1>1. PICK pool \in Pools, g \in Garbage :
          /\ root = Lowest(pool) /\ free = pool \ {root}
          /\ mem = [f \in Ram |-> IF f = root THEN EmptyTable ELSE [i \in Slots |-> g]]
          /\ loaded = FALSE /\ fault = FALSE
  BY DEF Init
<1>2. pool \in SUBSET Nat /\ g \in Int /\ RamFrames \in Nat
  BY PageTablesAssumption
<1>3. root \in Ram /\ root \in pool
  <2>1. PICK f \in pool : f < RamFrames
    BY PageTablesAssumption
  <2>2. Lowest(pool) \in pool /\ Lowest(pool) <= f
    BY <1>2, <2>1, LowestIsLeast
  <2>3. Lowest(pool) \in Nat /\ f \in Nat
    BY <1>2, <2>1, <2>2
  <2> QED
    BY <1>1, <1>2, <2>1, <2>2, <2>3 DEF Ram
<1>4. EmptyTable \in [Slots -> Int] /\ \A i \in Slots : EmptyTable[i] = Absent
  BY DEF EmptyTable, Absent
<1>5. mem \in Memories /\ \A i \in Slots : mem[root][i] = Absent
  <2>1. [i \in Slots |-> g] \in [Slots -> Int]
    BY <1>2
  <2> QED
    BY <1>1, <1>3, <1>4, <2>1 DEF Memories
<1>6. TypeOK
  BY <1>1, <1>2, <1>3, <1>5 DEF TypeOK, Memories
<1> DEFINE T == [k \in 1..4 |-> IF k = 1 THEN {root} ELSE {}]
<1>7. /\ T \in [1..4 -> SUBSET Ram] /\ T[1] = {root}
      /\ \A k \in 1..3 : k + 1 \in 1..4 /\ k \in 1..4 /\ T[k + 1] = {} /\ T[k] \subseteq {root}
      /\ \A k, l \in 1..4 : k # l => T[k] \intersect T[l] = {}
      /\ \A k \in 1..4 : T[k] \subseteq {root}
  BY <1>3
<1> HIDE DEF T
<1>8. \A k \in 1..4 : T[k] \intersect free = {}
  BY <1>1, <1>7
<1>9. \A k \in 1..3 : \A f \in T[k], i \in Slots : mem[f][i] = Absent
  BY <1>5, <1>7
<1>10. Tree(mem, free, T)
  BY <1>7, <1>8, <1>9 DEF Tree
<1> QED
  BY <1>1, <1>6, <1>10 DEF IInv, IsTree

\* Before CR3 is loaded MapMemory does what it should while the pool has a frame of
\* memory.
LEMMA MapMemoryStep ==
    ASSUME IInv, NEW v \in Nat, NEW p \in Nat, MapMemory(v, p)
    PROVE  /\ IInv'
           /\ HasPage(free') => ~fault'
           /\ v \in Pages /\ HasPage(free') =>
                  \A w \in Pages : Walk(mem', root', w) = IF w = v THEN p ELSE Walk(mem, root, w)
<1>1. PICK r : r = MapFrom(Start, v, p)
  OBVIOUS
<1>2. /\ ~loaded /\ ~fault /\ loaded' = loaded /\ root' = root
      /\ mem' = r.mem /\ free' = r.free /\ fault' = r.fault /\ TypeOK
  BY <1>1 DEF IInv, MapMemory, Become
<1>3. /\ Start \in Carried /\ Start.mem = mem /\ Start.free = free /\ Start.at = root
      /\ Start.fault = fault /\ root \in Ram
  BY <1>2, StartType
<1>4. r \in Carried /\ r.free \subseteq free /\ p \in Int
  <2>1. p \in Int
    OBVIOUS
  <2>2. /\ r \in Carried /\ r.free = Fourth(Start, v).free
        /\ Fourth(Start, v).free \subseteq Third(Start, v).free
        /\ Third(Start, v).free \subseteq Second(Start, v).free
        /\ Second(Start, v).free \subseteq Start.free
    BY <1>1, <1>3, <2>1, MapFromType
  <2> QED
    BY <1>3, <2>1, <2>2
<1>5. TypeOK'
  BY <1>2, <1>3, <1>4 DEF TypeOK, Carried, Memories, Ram, Slots
<1>6. ASSUME HasPage(free')
      PROVE  Serves(r, Start, v, p, {})
  <2>1. HasPage(free) /\ HasPage(r.free)
    BY <1>2, <1>4, <1>6 DEF HasPage
  <2>2. PICK T : Tree(mem, free, T)
    BY <2>1 DEF IInv, IsTree
  <2>3. OnPath(Start, v, 1, {})
    BY <1>2, <1>3, <2>2, StartOnPath DEF Avoids
  <2>4. /\ Direct(Start, Index(v, 1)) /\ Direct(Second(Start, v), Index(v, 2))
        /\ Direct(Third(Start, v), Index(v, 3))
    BY <1>2, DirectUnloaded
  <2>5. Deref(Fourth(Start, v).mem, Fourth(Start, v).at) = Fourth(Start, v).at
    BY <1>2 DEF Deref
  <2> QED
    BY <1>1, <1>3, <1>4, <2>1, <2>3, <2>4, <2>5, MapFromKeeps
<1>7. IsTree'
  BY <1>2, <1>6 DEF Serves, IsTree, Tree, HasPage, Ram, Slots
<1>8. IInv'
  BY <1>2, <1>5, <1>7 DEF IInv
<1>9. ASSUME HasPage(free')
      PROVE  ~fault' /\ (v \in Pages => \A w \in Pages : Walk(mem', root', w) = IF w = v THEN p ELSE Walk(mem, root, w))
  BY <1>2, <1>3, <1>6, <1>9 DEF Serves
<1> QED
  BY <1>8, <1>9

LEMMA NextIInv ==
    ASSUME IInv, [Next]_ptvars
    PROVE  IInv'
<1>1. ASSUME NEW v \in MapPages, NEW p \in MapFrames, MapMemory(v, p) PROVE IInv'
  <2>1. v \in Nat /\ p \in Nat
    BY PageTablesAssumption DEF Pages
  <2> QED
    BY <1>1, <2>1, MapMemoryStep
<1>2. CASE UNCHANGED ptvars
  BY <1>2 DEF ptvars, IInv, TypeOK, IsTree, Tree, HasPage
<1> QED
  BY <1>1, <1>2 DEF Next

\* The tables below the PML4 stay a tree of separate frames, as long as the
\* allocator has a frame of memory to give.
THEOREM Inductive == Spec => []IInv
<1> QED
  BY InitIInv, NextIInv, PTL DEF Spec
-----------------------------------------------------------------------------
(* The tree is what TablesSound speaks of *)

LEMMA LinksOfTree ==
    ASSUME TypeOK, NEW T, Tree(mem, free, T), NEW l \in Links
    PROVE  \E k \in 1..3 : l[1] \in T[k] /\ l[2] \in Slots /\ mem[l[1]][l[2]] # Absent
<1>1. ASSUME NEW S, NEW e \in Level(S)
      PROVE  e[1] \in S /\ e[2] \in Slots /\ mem[e[1]][e[2]] # Absent
  BY <1>1 DEF Level
<1>2. ASSUME NEW S, NEW k \in 1..3, S \subseteq T[k]
      PROVE  Below(Level(S)) \subseteq T[k + 1]
  <2> SUFFICES ASSUME NEW g \in Below(Level(S)) PROVE g \in T[k + 1]
    OBVIOUS
  <2>1. PICK e \in Level(S) : mem[e[1]][e[2]] = g
    BY DEF Below
  <2>2. e[1] \in T[k] /\ e[2] \in Slots /\ mem[e[1]][e[2]] # Absent
    BY <1>1, <1>2
  <2> QED
    BY <2>1, <2>2 DEF Tree
<1> DEFINE top    == Level({root})
           middle == Level(Below(top))
<1>3. {root} \subseteq T[1] /\ 1 \in 1..3 /\ 2 \in 1..3 /\ 3 \in 1..3 /\ 1 + 1 = 2 /\ 2 + 1 = 3
  BY DEF Tree
<1>4. Below(top) \subseteq T[2]
  BY <1>2, <1>3
<1>5. Below(middle) \subseteq T[3]
  BY <1>2, <1>3, <1>4
<1>6. l \in top \/ l \in middle \/ l \in Level(Below(middle))
  BY DEF Links
<1> HIDE DEF top, middle
<1>7. CASE l \in top
  <2>1. l[1] \in {root} /\ l[2] \in Slots /\ mem[l[1]][l[2]] # Absent
    BY <1>1, <1>7 DEF top
  <2> QED
    BY <1>3, <2>1
<1>8. CASE l \in middle
  <2>1. l[1] \in Below(top) /\ l[2] \in Slots /\ mem[l[1]][l[2]] # Absent
    BY <1>1, <1>8 DEF middle
  <2> QED
    BY <1>3, <1>4, <2>1
<1>9. CASE l \in Level(Below(middle))
  <2>1. l[1] \in Below(middle) /\ l[2] \in Slots /\ mem[l[1]][l[2]] # Absent
    BY <1>1, <1>9
  <2> QED
    BY <1>3, <1>5, <2>1
<1> QED
  BY <1>6, <1>7, <1>8, <1>9

LEMMA LinksArePairs ==
    ASSUME NEW k \in Links, NEW l \in Links, k[1] = l[1], k[2] = l[2]
    PROVE  k = l
<1>1. \A S : \A e \in Level(S) : e = <<e[1], e[2]>>
  BY DEF Level
<1>2. \A e \in Links : \E S : e \in Level(S)
  BY DEF Links
<1> QED
  BY <1>1, <1>2

LEMMA TreeIsSound == IInv => TablesSound
<1> SUFFICES ASSUME IInv, Supplied PROVE TablesNotShared
  BY DEF IInv, TablesSound, TablesNotShared
<1>1. HasPage(free)
  <2>1. free \intersect Ram # {}
    BY FS_EmptySet DEF Supplied
  <2> QED
    BY <2>1 DEF HasPage
<1>2. TypeOK
  BY DEF IInv
<1>3. PICK T : Tree(mem, free, T)
  BY <1>1 DEF IInv, IsTree
<1>4. ASSUME NEW k \in 1..3, NEW f \in T[k], NEW i \in Slots, mem[f][i] # Absent
      PROVE  mem[f][i] \in T[k + 1] /\ k + 1 \in 1..4 /\ k + 1 # 1
  BY <1>3, <1>4 DEF Tree
<1>5. ASSUME NEW k \in Links, NEW l \in Links, mem[k[1]][k[2]] = mem[l[1]][l[2]]
      PROVE  k = l
  <2>1. PICK x \in 1..3 : k[1] \in T[x] /\ k[2] \in Slots /\ mem[k[1]][k[2]] # Absent
    BY <1>2, <1>3, LinksOfTree
  <2>2. PICK y \in 1..3 : l[1] \in T[y] /\ l[2] \in Slots /\ mem[l[1]][l[2]] # Absent
    BY <1>2, <1>3, LinksOfTree
  <2>3. mem[k[1]][k[2]] \in T[x + 1] /\ x + 1 \in 1..4
    BY <1>4, <2>1
  <2>4. mem[l[1]][l[2]] \in T[y + 1] /\ y + 1 \in 1..4
    BY <1>4, <2>2
  <2>5. x + 1 = y + 1
    BY <1>3, <1>5, <2>3, <2>4 DEF Tree
  <2>6. x = y
    BY <2>5
  <2>7. k[1] = l[1] /\ k[2] = l[2]
    BY <1>3, <1>5, <2>1, <2>2, <2>6 DEF Tree
  <2> QED
    BY <2>7, LinksArePairs
<1>6. ASSUME NEW g \in Tables PROVE g \in Ram \ (free \union {root})
  <2>1. PICK l \in Links : mem[l[1]][l[2]] = g
    BY DEF Tables
  <2>2. PICK k \in 1..3 : l[1] \in T[k] /\ l[2] \in Slots /\ mem[l[1]][l[2]] # Absent
    BY <1>2, <1>3, LinksOfTree
  <2>3. g \in T[k + 1] /\ k + 1 \in 1..4 /\ k + 1 # 1
    BY <1>4, <2>1, <2>2
  <2>4. g \in Ram /\ g \notin free
    BY <1>3, <2>3 DEF Tree
  <2>5. g # root
    BY <1>3, <2>3 DEF Tree
  <2> QED
    BY <2>4, <2>5
<1> QED
  BY <1>5, <1>6 DEF TablesNotShared

\* For tables of any size, any memory and any pool: while frames for a walk are
\* left, MapMemory's tables each hang from one entry and none is in the pool,
\* so that no request for a frame clears a table in use.
THEOREM TablesAreSound == Spec => []TablesSound
<1> QED
  BY Inductive, TreeIsSound, PTL
-----------------------------------------------------------------------------
(* The tables are a map from pages to frames *)

\* The pool has a frame of memory.
FramesLeft == HasPage(free)

LEMMA InitTranslation == Init => Space!Init
<1> SUFFICES ASSUME Init PROVE Space!Init
  OBVIOUS
<1>1. IInv
  BY InitIInv
<1>2. PICK g \in Garbage : mem = [f \in Ram |-> IF f = root THEN EmptyTable ELSE [i \in Slots |-> g]]
  BY DEF Init
<1>3. root \in Ram /\ \A i \in Slots : mem[root][i] = Absent
  BY <1>1, <1>2 DEF IInv, TypeOK, EmptyTable
<1>4. Absent \notin Ram
  BY DEF Absent, Ram
<1>5. ASSUME NEW v \in Pages PROVE Walk(mem, root, v) = Absent
  <2>1. PDP_i(v) \in Slots
    BY IndexTypes DEF Pages
  <2>2. Entry(mem, root, PDP_i(v)) = Absent
    BY <1>3, <2>1 DEF Entry
  <2> QED
    BY <1>4, <2>2 DEF Walk, Entry
<1> QED
  BY <1>5 DEF Space!Init, Translation

LEMMA NextTranslation ==
    ASSUME IInv, [Next]_ptvars, FramesLeft'
    PROVE  [Space!Next]_Translation
<1>1. ASSUME NEW v \in MapPages, NEW p \in MapFrames, MapMemory(v, p)
      PROVE  Space!Next
  <2>1. v \in Nat /\ v \in Pages /\ p \in Nat
    BY PageTablesAssumption DEF Pages
  <2>2. \A w \in Pages : Walk(mem', root', w) = IF w = v THEN p ELSE Walk(mem, root, w)
    BY <1>1, <2>1, MapMemoryStep DEF FramesLeft
  <2>3. Translation' = [Translation EXCEPT ![v] = p]
    BY <2>1, <2>2 DEF Translation
  <2> QED
    BY <2>3 DEF Space!Next, Space!Map
<1>2. CASE UNCHANGED ptvars
  <2>1. Translation' = Translation
    BY <1>2 DEF ptvars, Translation
  <2> QED
    BY <2>1
<1> QED
  BY <1>1, <1>2 DEF Next

\* While the pool has a frame of memory, MapMemory implements the abstract map:
\* it sets the translation of its page and of no other, whatever tables it had to
\* add on the way.  The hypothesis is needed: without a frame MapMemory faults.
THEOREM TablesAreAMap == Spec /\ []FramesLeft => ImplementsAddressSpace
<1>1. Spec => []IInv
  BY Inductive
<1> QED
  BY <1>1, InitTranslation, NextTranslation, PTL DEF Spec, ImplementsAddressSpace, Space!Spec
-----------------------------------------------------------------------------
(* Writes beside the tables *)

\* n keeps the entries that are present in the tables of T, or all of them.
KeepsEntries(n, m, T) ==
    \A j \in 1..4 : \A f \in T[j], l \in Slots : m[f][l] # Absent => n[f][l] = m[f][l]

Alike(n, m, T) == \A j \in 1..4 : \A f \in T[j], l \in Slots : n[f][l] = m[f][l]

\* A page that has a translation keeps it as long as its entries are kept.
LEMMA WalkKept ==
    ASSUME NEW m \in Memories, NEW n, NEW pool, NEW T, Tree(m, pool, T), KeepsEntries(n, m, T),
           NEW w \in Nat, Walk(m, root, w) # Absent
    PROVE  Walk(n, root, w) = Walk(m, root, w)
<1>1. T \in [1..4 -> SUBSET Ram] /\ Absent \notin Ram
  BY DEF Tree, Ram, Absent
<1>2. \A j \in 1..4 : Index(w, j) \in Slots
  BY IndexTypes
<1>3. ASSUME NEW j \in 1..4, Reach(m, w, j + 1) # Absent
      PROVE  Reach(m, w, j) # Absent /\ Reach(m, w, j) \in T[j]
  <2>1. Reach(m, w, j + 1) = Entry(m, Reach(m, w, j), Index(w, j))
    BY ReachStep
  <2>2. Reach(m, w, j) # Absent
    BY <1>1, <1>3, <2>1 DEF Entry
  <2> QED
    BY <2>2, ReachInTree
<1>4. ASSUME NEW j \in 1..4, Reach(m, w, j + 1) # Absent, Reach(n, w, j) = Reach(m, w, j)
      PROVE  Reach(n, w, j + 1) = Reach(m, w, j + 1)
  <2>1. /\ Reach(m, w, j + 1) = Entry(m, Reach(m, w, j), Index(w, j))
        /\ Reach(n, w, j + 1) = Entry(n, Reach(n, w, j), Index(w, j))
    BY ReachStep
  <2>2. Reach(m, w, j) \in T[j] /\ Reach(m, w, j) \in Ram
    BY <1>1, <1>3, <1>4
  <2>3. Reach(m, w, j + 1) = m[Reach(m, w, j)][Index(w, j)]
    BY <2>1, <2>2 DEF Entry
  <2>4. n[Reach(m, w, j)][Index(w, j)] = m[Reach(m, w, j)][Index(w, j)]
    BY <1>2, <1>4, <2>2, <2>3 DEF KeepsEntries
  <2> QED
    BY <1>4, <2>1, <2>2, <2>3, <2>4 DEF Entry
<1>5. /\ 4 + 1 = 5 /\ 3 + 1 = 4 /\ 2 + 1 = 3 /\ 1 + 1 = 2
      /\ 1 \in 1..4 /\ 2 \in 1..4 /\ 3 \in 1..4 /\ 4 \in 1..4
  OBVIOUS
<1>6. Walk(m, root, w) = Reach(m, w, 5) /\ Walk(n, root, w) = Reach(n, w, 5)
  BY DEF Reach
<1>7. Reach(m, w, 5) # Absent
  BY <1>6
<1>8. Reach(m, w, 4) # Absent
  BY <1>3, <1>5, <1>7
<1>9. Reach(m, w, 3) # Absent
  BY <1>3, <1>5, <1>8
<1>10. Reach(m, w, 2) # Absent
  BY <1>3, <1>5, <1>9
<1>11. Reach(n, w, 1) = Reach(m, w, 1)
  BY DEF Reach
<1>12. Reach(n, w, 2) = Reach(m, w, 2)
  BY <1>4, <1>5, <1>10, <1>11
<1>13. Reach(n, w, 3) = Reach(m, w, 3)
  BY <1>4, <1>5, <1>9, <1>12
<1>14. Reach(n, w, 4) = Reach(m, w, 4)
  BY <1>4, <1>5, <1>8, <1>13
<1> QED
  BY <1>4, <1>5, <1>6, <1>7, <1>14

\* What is written outside the tables, and a pool that shrinks, changes neither the
\* tree nor a translation.
LEMMA OffTree ==
    ASSUME NEW m \in Memories, NEW n, NEW pool, NEW less \in SUBSET pool, NEW T, Tree(m, pool, T),
           Alike(n, m, T)
    PROVE  Tree(n, less, T) /\ SameWalks(n, m)
<1>1. T \in [1..4 -> SUBSET Ram] /\ T[1] = {root} /\ Absent \notin Ram
  BY DEF Tree, Ram, Absent
<1>2. \A j \in 1..3 : j \in 1..4
  OBVIOUS
<1>3. \A j \in 1..3 : \A f \in T[j], l \in Slots : n[f][l] = m[f][l]
  BY <1>2 DEF Alike
<1>4. Tree(n, less, T)
  <2>1. \A k \in 1..3 : \A f \in T[k], i \in Slots : n[f][i] # Absent => n[f][i] \in T[k + 1]
    BY <1>3 DEF Tree
  <2>2. \A k \in 1..3 : \A g \in T[k + 1] : \E f \in T[k], i \in Slots : n[f][i] = g
    <3> SUFFICES ASSUME NEW k \in 1..3, NEW g \in T[k + 1] PROVE \E f \in T[k], i \in Slots : n[f][i] = g
      OBVIOUS
    <3>1. PICK f \in T[k], i \in Slots : m[f][i] = g
      BY DEF Tree
    <3> QED
      BY <1>3, <3>1
  <2>3. \A k \in 1..3 : \A f, g \in T[k], i, j \in Slots :
           n[f][i] # Absent /\ n[f][i] = n[g][j] => f = g /\ i = j
    <3> SUFFICES ASSUME NEW k \in 1..3, NEW f \in T[k], NEW g \in T[k], NEW i \in Slots, NEW j \in Slots,
                        n[f][i] # Absent, n[f][i] = n[g][j]
                 PROVE  f = g /\ i = j
      OBVIOUS
    <3>1. m[f][i] = n[f][i] /\ m[g][j] = n[g][j]
      BY <1>3
    <3>2. m[f][i] # Absent /\ m[f][i] = m[g][j] => f = g /\ i = j
      BY DEF Tree
    <3> QED
      BY <3>1, <3>2
  <2>4. \A k \in 1..4 : T[k] \intersect less = {}
    BY DEF Tree
  <2>5. \A k, l \in 1..4 : k # l => T[k] \intersect T[l] = {}
    BY DEF Tree
  <2> QED
    BY <1>1, <2>1, <2>2, <2>3, <2>4, <2>5 DEF Tree
<1>5. ASSUME NEW w \in Nat PROVE Walk(n, root, w) = Walk(m, root, w)
  <2>1. \A j \in 1..4 : Index(w, j) \in Slots
    BY IndexTypes
  <2>2. ASSUME NEW j \in 1..4, Reach(n, w, j) = Reach(m, w, j)
        PROVE  Reach(n, w, j + 1) = Reach(m, w, j + 1)
    <3>1. /\ Reach(m, w, j + 1) = Entry(m, Reach(m, w, j), Index(w, j))
          /\ Reach(n, w, j + 1) = Entry(n, Reach(n, w, j), Index(w, j))
      BY ReachStep
    <3>2. CASE Reach(m, w, j) \in T[j]
      <4>1. n[Reach(m, w, j)][Index(w, j)] = m[Reach(m, w, j)][Index(w, j)]
        BY <2>1, <3>2 DEF Alike
      <4> QED
        BY <2>2, <3>1, <4>1 DEF Entry
    <3>3. CASE Reach(m, w, j) = Absent
      BY <1>1, <2>2, <3>1, <3>3 DEF Entry
    <3> QED
      BY <3>2, <3>3, ReachInTree
  <2>3. /\ 4 + 1 = 5 /\ 3 + 1 = 4 /\ 2 + 1 = 3 /\ 1 + 1 = 2
        /\ 1 \in 1..4 /\ 2 \in 1..4 /\ 3 \in 1..4 /\ 4 \in 1..4
    OBVIOUS
  <2>4. Reach(n, w, 1) = Reach(m, w, 1)
    BY DEF Reach
  <2>5. Reach(n, w, 2) = Reach(m, w, 2)
    BY <2>2, <2>3, <2>4
  <2>6. Reach(n, w, 3) = Reach(m, w, 3)
    BY <2>2, <2>3, <2>5
  <2>7. Reach(n, w, 4) = Reach(m, w, 4)
    BY <2>2, <2>3, <2>6
  <2>8. Reach(n, w, 5) = Reach(m, w, 5)
    BY <2>2, <2>3, <2>7
  <2> QED
    BY <2>8 DEF Reach
<1>6. SameWalks(n, m)
  BY <1>5 DEF SameWalks, Pages
<1> QED
  BY <1>4, <1>6
-----------------------------------------------------------------------------
(* The tables that Corrupting speaks of *)

\* The frames that the tables of S lead to, the tables of level k, and the tables
\* of the higher half, in memory m with PML4 r.
Children(m, S) == {f \in Ram : \E t \in S, i \in Slots : m[t][i] = f}

Layer(m, r, k) ==
    CASE k = 1 -> {r}
      [] k = 2 -> Children(m, {r})
      [] k = 3 -> Children(m, Children(m, {r}))
      [] OTHER -> Children(m, Children(m, Children(m, {r})))

HigherTop(m, r) == {f \in Ram : m[r][PDP_i(HigherHalf)] = f}
Higher(m, r) == HigherTop(m, r) \union Children(m, HigherTop(m, r))
                                \union Children(m, Children(m, HigherTop(m, r)))

LEMMA BelowLevel == \A S : Below(Level(S)) = Children(mem, S)
<1> SUFFICES ASSUME NEW S PROVE Below(Level(S)) = Children(mem, S)
  OBVIOUS
<1>1. Absent \notin Ram
  BY DEF Ram, Absent
<1>2. ASSUME NEW f \in Below(Level(S)) PROVE f \in Children(mem, S)
  BY <1>2 DEF Below, Level, Children
<1>3. ASSUME NEW f \in Children(mem, S) PROVE f \in Below(Level(S))
  <2>1. PICK t \in S, i \in Slots : mem[t][i] = f
    BY <1>3 DEF Children
  <2>2. f \in Ram /\ f # Absent
    BY <1>1, <1>3 DEF Children
  <2>3. <<t, i>> \in Level(S)
    BY <2>1, <2>2 DEF Level
  <2>4. mem[<<t, i>>[1]][<<t, i>>[2]] = f
    BY <2>1
  <2> QED
    BY <2>2, <2>3, <2>4 DEF Below
<1> QED
  BY <1>2, <1>3

LEMMA HigherTablesAre == HigherTables = Higher(mem, root)
<1>1. Below({<<root, PDP_i(HigherHalf)>>}) = HigherTop(mem, root)
  BY DEF Below, HigherTop
<1> QED
  BY <1>1, BelowLevel DEF HigherTables, Higher

LayersInTables == \A k \in 2..4 : Layer(mem, root, k) \subseteq Tables

LEMMA LayersAreTables == LayersInTables
<1>1. \A S : Below(Level(S)) \subseteq {mem[l[1]][l[2]] : l \in Level(S)}
  BY DEF Below
<1>2. /\ Level({root}) \subseteq Links
      /\ Level(Below(Level({root}))) \subseteq Links
      /\ Level(Below(Level(Below(Level({root}))))) \subseteq Links
  BY DEF Links
<1>3. \A S : Level(S) \subseteq Links => Children(mem, S) \subseteq Tables
  <2> SUFFICES ASSUME NEW S, Level(S) \subseteq Links PROVE Children(mem, S) \subseteq Tables
    OBVIOUS
  <2>1. Below(Level(S)) \subseteq Tables
    BY <1>1 DEF Tables
  <2> QED
    BY <2>1, BelowLevel
<1>4. Children(mem, {root}) \subseteq Tables
  BY <1>2, <1>3
<1>5. Children(mem, Children(mem, {root})) \subseteq Tables
  BY <1>2, <1>3, BelowLevel
<1>6. Children(mem, Children(mem, Children(mem, {root}))) \subseteq Tables
  BY <1>2, <1>3, BelowLevel
<1>7. \A k \in 2..4 : k = 2 \/ k = 3 \/ k = 4
  OBVIOUS
<1> QED
  BY <1>4, <1>5, <1>6, <1>7 DEF Layer, LayersInTables

\* Every table of a tree is one of Tables, even if other entries have been written.
LEMMA TreeLayers ==
    ASSUME NEW m, NEW n, NEW pool, NEW T, Tree(m, pool, T), KeepsEntries(n, m, T), NEW k \in 1..4
    PROVE  T[k] \subseteq Layer(n, root, k)
<1>1. /\ T \in [1..4 -> SUBSET Ram] /\ T[1] = {root} /\ Absent \notin Ram
      /\ \A j \in 1..3 : j \in 1..4 /\ j + 1 \in 1..4
  BY DEF Tree, Ram, Absent
<1>2. ASSUME NEW j \in 1..3, NEW S, T[j] \subseteq S PROVE T[j + 1] \subseteq Children(n, S)
  <2> SUFFICES ASSUME NEW g \in T[j + 1] PROVE g \in Children(n, S)
    OBVIOUS
  <2>1. PICK f \in T[j], i \in Slots : m[f][i] = g
    BY DEF Tree
  <2>2. g \in Ram /\ g # Absent
    BY <1>1
  <2>3. n[f][i] = g
    BY <1>1, <2>1, <2>2 DEF KeepsEntries
  <2> QED
    BY <1>2, <2>1, <2>2, <2>3 DEF Children
<1>3. 3 + 1 = 4 /\ 2 + 1 = 3 /\ 1 + 1 = 2 /\ 1 \in 1..3 /\ 2 \in 1..3 /\ 3 \in 1..3
  OBVIOUS
<1>4. T[1] \subseteq {root}
  BY <1>1
<1>5. T[2] \subseteq Children(n, {root})
  BY <1>2, <1>3, <1>4
<1>6. T[3] \subseteq Children(n, Children(n, {root}))
  BY <1>2, <1>3, <1>5
<1>7. T[4] \subseteq Children(n, Children(n, Children(n, {root})))
  BY <1>2, <1>3, <1>6
<1>8. k = 1 \/ k = 2 \/ k = 3 \/ k = 4
  OBVIOUS
<1> QED
  BY <1>4, <1>5, <1>6, <1>7, <1>8 DEF Layer

\* The walk for a page that is not under the first entry of the higher half uses
\* none of its tables, and may write its own entries without adding to them.
LEMMA HigherElsewhere ==
    ASSUME NEW m \in Memories, NEW pool, NEW T, Tree(m, pool, T), NEW v \in Nat,
           PDP_i(v) # PDP_i(HigherHalf), NEW n,
           \A j \in 1..3 : \A f \in T[j], l \in Slots :
               f # Reach(m, v, j) \/ l # Index(v, j) => n[f][l] = m[f][l]
    PROVE  /\ Higher(n, root) \subseteq T[2] \union T[3] \union T[4]
           /\ \A k \in 1..4 : Reach(m, v, k) \notin Higher(n, root)
<1>1. /\ T \in [1..4 -> SUBSET Ram] /\ T[1] = {root} /\ Absent \notin Ram
      /\ \A j, k \in 1..4 : j # k => T[j] \intersect T[k] = {}
      /\ \A j \in 1..3 : j \in 1..4 /\ j + 1 \in 1..4
  BY DEF Tree, Ram, Absent
<1>2. \A j \in 1..4 : Index(v, j) \in Slots
  BY IndexTypes
<1>3. PDP_i(HigherHalf) \in Slots /\ Index(v, 1) # PDP_i(HigherHalf) /\ Reach(m, v, 1) = root
  <2>1. HigherHalf \in Nat
    BY KernelMemoryAssumption
  <2> QED
    BY <2>1, IndexTypes DEF Index, Reach
<1>4. HigherTop(n, root) \subseteq T[2] /\ Reach(m, v, 2) \notin HigherTop(n, root)
  <2> SUFFICES ASSUME NEW f \in HigherTop(n, root) PROVE f \in T[2] /\ f # Reach(m, v, 2)
    OBVIOUS
  <2>1. f \in Ram /\ f # Absent /\ n[root][PDP_i(HigherHalf)] = f
    BY <1>1 DEF HigherTop
  <2>2. m[root][PDP_i(HigherHalf)] = f
    BY <1>1, <1>3, <2>1
  <2>3. f \in T[1 + 1]
    BY <1>1, <1>3, <2>1, <2>2 DEF Tree
  <2>4. ASSUME f = Reach(m, v, 2) PROVE FALSE
    <3>1. Reach(m, v, 1 + 1) = Entry(m, root, Index(v, 1))
      BY <1>1, <1>3, ReachStep
    <3>2. m[root][Index(v, 1)] = f /\ root \in T[1]
      BY <1>1, <2>4, <3>1 DEF Entry
    <3>3. PDP_i(HigherHalf) = Index(v, 1)
      <4>1. \A a, b \in T[1], i, j \in Slots : m[a][i] # Absent /\ m[a][i] = m[b][j] => a = b /\ i = j
        BY DEF Tree
      <4> QED
        BY <1>1, <1>2, <1>3, <2>1, <2>2, <3>2, <4>1
    <3> QED
      BY <1>3, <3>3
  <2> QED
    BY <2>3, <2>4
<1>5. ASSUME NEW j \in 2..3, NEW S \in SUBSET T[j], Reach(m, v, j) \notin S
      PROVE  Children(n, S) \subseteq T[j + 1] /\ Reach(m, v, j + 1) \notin Children(n, S)
  <2> SUFFICES ASSUME NEW f \in Children(n, S) PROVE f \in T[j + 1] /\ f # Reach(m, v, j + 1)
    OBVIOUS
  <2>1. j \in 1..3 /\ j \in 1..4
    OBVIOUS
  <2>2. PICK t \in S, i \in Slots : n[t][i] = f
    BY DEF Children
  <2>3. f \in Ram /\ f # Absent /\ t \in T[j] /\ t # Reach(m, v, j)
    BY <1>1, <1>5, <2>2 DEF Children
  <2>4. m[t][i] = f
    BY <2>1, <2>2, <2>3
  <2>5. f \in T[j + 1]
    BY <2>1, <2>3, <2>4 DEF Tree
  <2>6. ASSUME f = Reach(m, v, j + 1) PROVE FALSE
    <3>1. Reach(m, v, j + 1) = Entry(m, Reach(m, v, j), Index(v, j)) /\ Index(v, j) \in Slots
      BY <1>2, <2>1, ReachStep
    <3>2. Reach(m, v, j) # Absent
      BY <1>1, <2>3, <2>6, <3>1 DEF Entry
    <3>3. Reach(m, v, j) \in T[j]
      BY <2>1, <3>2, ReachInTree
    <3>4. m[Reach(m, v, j)][Index(v, j)] = f
      BY <1>1, <2>1, <2>6, <3>1, <3>3 DEF Entry
    <3>5. t = Reach(m, v, j)
      <4>1. \A a, b \in T[j], x, y \in Slots : m[a][x] # Absent /\ m[a][x] = m[b][y] => a = b /\ x = y
        BY <2>1 DEF Tree
      <4> QED
        BY <2>2, <2>3, <2>4, <3>1, <3>3, <3>4, <4>1
    <3> QED
      BY <2>3, <3>5
  <2> QED
    BY <2>5, <2>6
<1>6. 2 \in 2..3 /\ 3 \in 2..3 /\ 2 + 1 = 3 /\ 3 + 1 = 4
  OBVIOUS
<1>7. Children(n, HigherTop(n, root)) \subseteq T[3] /\ Reach(m, v, 3) \notin Children(n, HigherTop(n, root))
  BY <1>4, <1>5, <1>6
<1>8. /\ Children(n, Children(n, HigherTop(n, root))) \subseteq T[4]
      /\ Reach(m, v, 4) \notin Children(n, Children(n, HigherTop(n, root)))
  BY <1>5, <1>6, <1>7
<1>9. ASSUME NEW k \in 1..4 PROVE Reach(m, v, k) \notin Higher(n, root)
  <2>1. Reach(m, v, k) \in T[k] \/ Reach(m, v, k) = Absent
    BY ReachInTree
  <2>2. k = 1 \/ k = 2 \/ k = 3 \/ k = 4
    OBVIOUS
  <2> QED
    BY <1>1, <1>4, <1>7, <1>8, <2>1, <2>2 DEF Higher
<1> QED
  BY <1>4, <1>7, <1>8, <1>9 DEF Higher

LEMMA LayerNext ==
    ASSUME NEW m, NEW r, NEW k \in 1..3
    PROVE  Layer(m, r, k + 1) = Children(m, Layer(m, r, k))
<1>1. k = 1 \/ k = 2 \/ k = 3
  OBVIOUS
<1> QED
  BY <1>1 DEF Layer
-----------------------------------------------------------------------------
(* What the kernel sees through its own tables *)

LEMMA RamIsPages == Ram \subseteq Pages /\ Ram \subseteq Nat
<1>1. RamFrames \in Nat /\ HigherHalf \in Nat /\ VirtualBase \in Nat /\ RamFrames <= VirtualBase
  BY PageTablesAssumption, KernelMemoryAssumption
<1>2. PICK F : F = Fanout * Fanout * Fanout * Fanout
  OBVIOUS
<1>3. F \in Nat /\ VirtualBase <= F - 1
  BY <1>2, PageTablesAssumption, KernelMemoryAssumption DEF Pages
<1> QED
  BY <1>1, <1>2, <1>3 DEF Ram, Pages

\* CR3 is loaded, and a pointer to a frame of memory reaches that frame, or the
\* heap's if it lies in the window.
Sighted ==
    /\ loaded /\ TypeOK
    /\ heapStart \in Nat /\ heap \in Seq(Nat) /\ IsInjective(heap) /\ ToSet(heap) \subseteq Ram
    /\ \A f \in Ram : Walk(mem, root, f) = IF f \in Window THEN heap[f - heapStart + 1] ELSE f

LEMMA SightedFrames ==
    ASSUME Sighted
    PROVE  /\ \A f \in Ram : /\ Walk(mem, root, f) \in Ram /\ Walk(mem, root, f) # Absent
                             /\ f \notin Window => Walk(mem, root, f) = f
                             /\ f \in Window => Walk(mem, root, f) \in ToSet(heap)
           /\ \A f, g \in Ram \intersect Window : Walk(mem, root, f) = Walk(mem, root, g) => f = g
<1>1. heapStart \in Nat /\ heap \in Seq(Nat) /\ Absent \notin Ram /\ Ram \subseteq Nat
  BY RamIsPages DEF Sighted, Ram, Absent
<1>2. ASSUME NEW f \in Ram, f \in Window
      PROVE  /\ f - heapStart + 1 \in DOMAIN heap /\ heap[f - heapStart + 1] \in ToSet(heap)
             /\ Walk(mem, root, f) = heap[f - heapStart + 1]
  <2>1. f - heapStart + 1 \in 1..Len(heap)
    BY <1>1, <1>2 DEF Window, heapEnd
  <2> QED
    BY <1>1, <1>2, <2>1 DEF ToSet, Sighted
<1>3. ASSUME NEW f \in Ram, NEW g \in Ram, f \in Window, g \in Window,
             Walk(mem, root, f) = Walk(mem, root, g)
      PROVE  f = g
  <2>1. f - heapStart + 1 = g - heapStart + 1
    BY <1>2, <1>3 DEF Sighted, IsInjective
  <2> QED
    BY <1>1, <2>1
<1>4. ASSUME NEW f \in Ram
      PROVE  /\ Walk(mem, root, f) \in Ram
             /\ f \notin Window => Walk(mem, root, f) = f
             /\ f \in Window => Walk(mem, root, f) \in ToSet(heap)
  BY <1>2, <1>4 DEF Sighted
<1> QED
  BY <1>1, <1>3, <1>4

\* A table on the walk for a page that is not the higher half's is where its
\* pointer leads, as long as the window hides none.
LEMMA TableSeen ==
    ASSUME TypeOK, loaded, ~Corrupting, NEW pool, NEW T, Tree(mem, pool, T), NEW v \in Nat,
           PDP_i(v) # PDP_i(HigherHalf), NEW k \in 1..4, Reach(mem, v, k) \in T[k]
    PROVE  Walk(mem, root, Reach(mem, v, k)) = Reach(mem, v, k)
<1>1. PICK f : f = Reach(mem, v, k)
  OBVIOUS
<1>2. mem \in Memories
  BY DEF TypeOK, Memories
<1>3. f \in AllTables
  <2>1. T[k] \subseteq Layer(mem, root, k)
    BY TreeLayers DEF KeepsEntries
  <2>2. k = 1 \/ k \in 2..4
    OBVIOUS
  <2>3. CASE k = 1
    BY <1>1, <2>1, <2>3 DEF Layer, AllTables
  <2>4. CASE k \in 2..4
    BY <1>1, <2>1, <2>4, LayersAreTables DEF AllTables, LayersInTables
  <2> QED
    BY <2>2, <2>3, <2>4
<1>4. f \notin HigherTables
  BY <1>1, <1>2, HigherElsewhere, HigherTablesAre
<1>5. f \notin Shadowed
  BY <1>4 DEF Corrupting
<1> QED
  BY <1>1, <1>3, <1>5 DEF Shadowed
-----------------------------------------------------------------------------
(* A table in a frame that the heap window hides *)

\* n is the memory m, with new entered where the walk for page v ended at level k,
\* and whatever written outside the tables; new lies behind the window.
Hidden(n, m, pool, T, k, new, v) ==
    /\ m \in Memories /\ Tree(m, pool, T) /\ SameWalks(m, mem)
    /\ Avoids(T, ToSet(heap)) /\ ToSet(heap) \intersect pool = {}
    /\ k \in 1..3 /\ Reach(m, v, k) \in T[k] /\ m[Reach(m, v, k)][Index(v, k)] = Absent
    /\ new \in pool \intersect Ram /\ new \in Window
    /\ \A j \in 1..4 : \A f \in T[j], l \in Slots :
           n[f][l] = IF f = Reach(m, v, k) /\ l = Index(v, k) THEN new ELSE m[f][l]

LEMMA HiddenKeeps ==
    ASSUME NEW n, NEW m, NEW pool, NEW T, NEW k, NEW new, NEW v, Hidden(n, m, pool, T, k, new, v)
    PROVE  KeepsEntries(n, m, T)
BY DEF Hidden, KeepsEntries

\* The pointers to memory lead where they led.
LEMMA HiddenSees ==
    ASSUME Sighted, NEW n, NEW m, NEW pool, NEW T, NEW k, NEW new, NEW v,
           Hidden(n, m, pool, T, k, new, v), NEW f \in Ram
    PROVE  Walk(n, root, f) = Walk(mem, root, f)
<1>1. KeepsEntries(n, m, T)
  BY HiddenKeeps
<1>2. f \in Nat /\ f \in Pages
  BY RamIsPages
<1>3. Walk(m, root, f) = Walk(mem, root, f)
  BY <1>2 DEF Hidden, SameWalks
<1>4. Walk(m, root, f) # Absent
  BY <1>3, SightedFrames
<1>5. m \in Memories /\ Tree(m, pool, T)
  BY DEF Hidden
<1> QED
  BY <1>1, <1>2, <1>3, <1>4, <1>5, WalkKept

\* What a pointer to a frame of the pool reaches is no table.
LEMMA HiddenOff ==
    ASSUME Sighted, NEW n, NEW m, NEW pool, NEW T, NEW k, NEW new, NEW v,
           Hidden(n, m, pool, T, k, new, v), NEW f \in pool \intersect Ram
    PROVE  Walk(mem, root, f) \in Ram /\ \A j \in 1..4 : Walk(mem, root, f) \notin T[j]
<1>1. \A j \in 1..4 : T[j] \intersect pool = {} /\ T[j] \intersect ToSet(heap) = {}
  BY DEF Hidden, Tree, Avoids
<1> QED
  BY <1>1, SightedFrames

LEMMA HiddenWritten ==
    ASSUME NEW n, NEW m, NEW pool, NEW T, NEW k, NEW new, NEW v,
           Hidden(n, m, pool, T, k, new, v), NEW g, \A j \in 1..4 : g \notin T[j],
           NEW n2, \A f \in Ram \ {g} : \A l \in Slots : n2[f][l] = n[f][l]
    PROVE  Hidden(n2, m, pool, T, k, new, v)
<1>1. \A j \in 1..4 : T[j] \subseteq Ram
  BY DEF Hidden, Tree
<1>2. \A j \in 1..4 : \A f \in T[j], l \in Slots : n2[f][l] = n[f][l]
  BY <1>1
<1> QED
  BY <1>2 DEF Hidden

\* The new table is a table that the window hides.
LEMMA HiddenCorrupts ==
    ASSUME Sighted, NEW v \in Nat, PDP_i(v) # PDP_i(HigherHalf), loaded', root' = root,
           NEW m, NEW pool, NEW T, NEW k, NEW new, Hidden(mem', m, pool, T, k, new, v)
    PROVE  Corrupting'
<1>1. PICK n : n = mem'
  OBVIOUS
<1>2. /\ m \in Memories /\ Tree(m, pool, T) /\ k \in 1..3 /\ k \in 1..4 /\ Reach(m, v, k) \in T[k]
      /\ new \in pool /\ new \in Ram /\ new \in Window /\ ToSet(heap) \intersect pool = {}
      /\ Hidden(n, m, pool, T, k, new, v)
  BY <1>1 DEF Hidden
<1>3. \A j \in 1..4 : \A f \in T[j], l \in Slots :
          n[f][l] = IF f = Reach(m, v, k) /\ l = Index(v, k) THEN new ELSE m[f][l]
  BY <1>2 DEF Hidden
<1>4. Index(v, k) \in Slots
  BY <1>2, IndexTypes
<1>5. new \in Layer(n, root, k + 1)
  <2>1. T[k] \subseteq Layer(n, root, k)
    BY <1>2, HiddenKeeps, TreeLayers
  <2>2. n[Reach(m, v, k)][Index(v, k)] = new
    BY <1>2, <1>3, <1>4
  <2>3. new \in Children(n, Layer(n, root, k))
    BY <1>2, <1>4, <2>1, <2>2 DEF Children
  <2> QED
    BY <1>2, <2>3, LayerNext
<1>6. new \in AllTables'
  <2>1. LayersInTables'
    BY LayersAreTables, PTL
  <2>2. \A j \in 2..4 : Layer(n, root, j) \subseteq Tables'
    BY <1>1, <2>1 DEF LayersInTables
  <2>3. k + 1 \in 2..4
    BY <1>2
  <2>4. new \in Tables'
    BY <1>5, <2>2, <2>3
  <2> QED
    BY <2>4 DEF AllTables
<1>7. Walk(n, root, new) # new
  BY <1>2, HiddenSees, SightedFrames
<1>8. new \notin HigherTables'
  <2>1. \A j \in 1..3 : \A f \in T[j], l \in Slots :
            f # Reach(m, v, j) \/ l # Index(v, j) => n[f][l] = m[f][l]
    <3> SUFFICES ASSUME NEW j \in 1..3, NEW f \in T[j], NEW l \in Slots,
                        f # Reach(m, v, j) \/ l # Index(v, j)
                 PROVE  n[f][l] = m[f][l]
      OBVIOUS
    <3>1. j \in 1..4
      OBVIOUS
    <3>2. j # k => f # Reach(m, v, k)
      BY <1>2, <3>1 DEF Tree
    <3> QED
      BY <1>3, <3>1, <3>2
  <2>2. Higher(n, root) \subseteq T[2] \union T[3] \union T[4]
    BY <1>2, <2>1, HigherElsewhere
  <2>3. new \notin T[2] \union T[3] \union T[4]
    BY <1>2 DEF Tree
  <2>4. (HigherTables = Higher(mem, root))'
    BY HigherTablesAre, PTL
  <2>5. HigherTables' = Higher(n, root)
    BY <1>1, <2>4
  <2> QED
    BY <2>2, <2>3, <2>5
<1>9. new \in Shadowed'
  BY <1>1, <1>6, <1>7 DEF Shadowed
<1> QED
  BY <1>8, <1>9 DEF Corrupting


\* A call that has entered such a table: the rest of its walk is beside the tables.
Doomed(s, v) ==
    \E m, pool, T, k, new :
        /\ Hidden(s.mem, m, pool, T, k, new, v) /\ s.free \subseteq pool
        /\ \/ s.fault
           \/ /\ s.at \in pool \intersect Ram /\ s.at \notin s.free
              /\ \A j \in Slots : s.mem[Walk(mem, root, s.at)][j] = Absent

LEMMA SightedDistinct ==
    ASSUME Sighted, NEW pool, ToSet(heap) \intersect pool = {},
           NEW f \in pool \intersect Ram, NEW g \in pool \intersect Ram, f # g
    PROVE  Walk(mem, root, f) # Walk(mem, root, g)
BY SightedFrames

LEMMA DoomedGoesOn ==
    ASSUME Sighted, NEW v, NEW s \in Carried, Doomed(s, v), NEW i \in Slots,
           HasPage(Descend(s, i).free)
    PROVE  Doomed(Descend(s, i), v)
<1>1. PICK m, pool, T, k, new :
          /\ Hidden(s.mem, m, pool, T, k, new, v) /\ s.free \subseteq pool
          /\ \/ s.fault
             \/ /\ s.at \in pool \intersect Ram /\ s.at \notin s.free
                /\ \A j \in Slots : s.mem[Walk(mem, root, s.at)][j] = Absent
  BY DEF Doomed
<1>2. /\ s.mem \in Memories /\ s.free \in SUBSET Nat /\ s.at \in Int /\ s.fault \in BOOLEAN
      /\ s = [mem |-> s.mem, free |-> s.free, at |-> s.at, fault |-> s.fault] /\ loaded
  BY DEF Carried, Sighted
<1>3. PICK d : d = Descend(s, i)
  OBVIOUS
<1>4. CASE s.fault
  <2>1. d = [s EXCEPT !.fault = TRUE]
    BY <1>3, <1>4, DescendFaulted
  <2>2. d.mem = s.mem /\ d.free = s.free /\ d.fault
    BY <1>2, <2>1
  <2> QED
    BY <1>1, <1>3, <2>2 DEF Doomed
<1>5. CASE ~s.fault
  <2>1. PICK next2 : next2 = RequestPage(s.free)
    OBVIOUS
  <2>2. next2 \in s.free \intersect Ram /\ next2 \in pool \intersect Ram /\ next2 \in Int
    <3>1. Descend(s, i).free \subseteq s.free
      BY DescendType
    <3>2. HasPage(s.free)
      BY <3>1 DEF HasPage
    <3> QED
      BY <1>1, <1>2, <2>1, <3>2, RequestPageType
  <2>3. s.at \in pool \intersect Ram /\ s.at \notin s.free /\ s.at # next2
    BY <1>1, <1>5, <2>2
  <2>4. PICK table : table = Walk(mem, root, s.at)
    OBVIOUS
  <2>5. PICK target : target = Walk(mem, root, next2)
    OBVIOUS
  <2>6. /\ table \in Ram /\ \A j \in 1..4 : table \notin T[j]
        /\ \A j \in Slots : s.mem[table][j] = Absent
    BY <1>1, <1>5, <2>3, <2>4, HiddenOff
  <2>7. target \in Ram /\ \A j \in 1..4 : target \notin T[j]
    BY <1>1, <2>2, <2>5, HiddenOff
  <2>8. table # target
    <3>1. ToSet(heap) \intersect pool = {}
      BY <1>1 DEF Hidden
    <3> QED
      BY <2>2, <2>3, <2>4, <2>5, <3>1, SightedDistinct
  <2>9. Deref(s.mem, s.at) = table /\ Deref(s.mem, next2) = target
    <3>1. Walk(s.mem, root, s.at) = table /\ Walk(s.mem, root, next2) = target
      BY <1>1, <2>2, <2>3, <2>4, <2>5, HiddenSees
    <3> QED
      BY <1>2, <3>1 DEF Deref
  <2>10. PICK cleared : cleared = [s.mem EXCEPT ![target] = EmptyTable]
    OBVIOUS
  <2>11. /\ cleared \in Memories
         /\ \A g \in Ram, j \in Slots : cleared[g][j] = IF g = target THEN Absent ELSE s.mem[g][j]
    BY <1>2, <2>7, <2>10, ClearedType
  <2>12. Hidden(cleared, m, pool, T, k, new, v)
    <3>1. \A f \in Ram \ {target} : \A l \in Slots : cleared[f][l] = s.mem[f][l]
      BY <2>11
    <3> QED
      BY <1>1, <2>7, <3>1, HiddenWritten
  <2>13. Deref(cleared, s.at) = table
    BY <1>2, <2>3, <2>4, <2>12, HiddenSees DEF Deref
  <2>14. PICK after : after = SetEntry(cleared, table, i, next2)
    OBVIOUS
  <2>15. \A g \in Ram, j \in Slots :
             after[g][j] = IF g = table /\ j = i THEN next2 ELSE cleared[g][j]
    <3>1. table \in Ram /\ next2 \in Int /\ cleared \in Memories
      BY <2>2, <2>6, <2>11
    <3>2. \A g \in Ram, j \in Slots : SetEntry(cleared, table, i, next2)[g][j]
              = IF g = table /\ j = i THEN next2 ELSE cleared[g][j]
      BY <3>1, SetEntryType
    <3> QED
      BY <2>14, <3>2
  <2>16. Hidden(after, m, pool, T, k, new, v)
    <3>1. \A f \in Ram \ {table} : \A l \in Slots : after[f][l] = cleared[f][l]
      BY <2>15
    <3> QED
      BY <2>6, <2>12, <3>1, HiddenWritten
  <2>17. Enters(d, s, after, next2)
    <3>1. table \in Ram /\ target \in Ram /\ s.mem[table][i] = Absent
      BY <2>6, <2>7
    <3> QED
      BY <1>3, <1>5, <2>1, <2>9, <2>10, <2>13, <2>14, <3>1, DescendEnters
  <2>18. d.mem = after /\ d.free = s.free \ {next2} /\ d.at = next2
    BY <2>17 DEF Enters
  <2>19. \A j \in Slots : after[target][j] = Absent
    BY <2>7, <2>8, <2>11, <2>15
  <2>20. d.free \subseteq pool /\ d.at \in pool \intersect Ram /\ d.at \notin d.free
    BY <1>1, <2>2, <2>18
  <2>21. Doomed(d, v)
    BY <2>5, <2>16, <2>18, <2>19, <2>20 DEF Doomed
  <2> QED
    BY <1>3, <2>21
<1> QED
  BY <1>2, <1>4, <1>5

LEMMA DoomedEnds ==
    ASSUME Sighted, NEW v \in Nat, NEW p \in Int, NEW s \in Carried, Doomed(Fourth(s, v), v)
    PROVE  \E m, pool, T, k, new : Hidden(MapFrom(s, v, p).mem, m, pool, T, k, new, v)
<1>1. PICK c : c = Fourth(s, v)
  OBVIOUS
<1>2. PICK n : n = MapFrom(s, v, p).mem
  OBVIOUS
<1>3. PICK leaf : leaf = Deref(c.mem, c.at)
  OBVIOUS
<1>4. c \in Carried /\ P_i(v) \in Slots /\ c.mem \in Memories /\ loaded
  BY <1>1, MapFromType, IndexTypes DEF Carried, Sighted
<1>5. \/ n = c.mem
      \/ ~c.fault /\ leaf \in Ram /\ n = SetEntry(c.mem, leaf, P_i(v), p)
  BY <1>1, <1>2, <1>3, MapFromType
<1>6. PICK m, pool, T, k, new :
          /\ Hidden(c.mem, m, pool, T, k, new, v) /\ c.free \subseteq pool
          /\ \/ c.fault
             \/ /\ c.at \in pool \intersect Ram /\ c.at \notin c.free
                /\ \A j \in Slots : c.mem[Walk(mem, root, c.at)][j] = Absent
  BY <1>1 DEF Doomed
<1>7. CASE n = c.mem
  BY <1>2, <1>6, <1>7
<1>8. CASE ~c.fault /\ leaf \in Ram /\ n = SetEntry(c.mem, leaf, P_i(v), p)
  <2>1. c.at \in pool \intersect Ram
    BY <1>6, <1>8
  <2>2. leaf = Walk(mem, root, c.at)
    BY <1>3, <1>4, <1>6, <2>1, HiddenSees DEF Deref
  <2>3. \A j \in 1..4 : leaf \notin T[j]
    BY <1>6, <2>1, <2>2, HiddenOff
  <2>4. \A f \in Ram \ {leaf} : \A l \in Slots : n[f][l] = c.mem[f][l]
    BY <1>4, <1>8, SetEntryType
  <2>5. Hidden(n, m, pool, T, k, new, v)
    BY <1>6, <2>3, <2>4, HiddenWritten
  <2> QED
    BY <1>2, <2>5
<1> QED
  BY <1>5, <1>7, <1>8
-----------------------------------------------------------------------------
(* MapMemory under the kernel's own tables *)

\* The walk is in a table it found, and has written nothing, or in one it has just
\* taken from outside the window.
Normal(s, v, k, K) ==
    /\ s \in Carried /\ OnPath(s, v, k, K) /\ SameWalks(s.mem, mem)
    /\ \/ s.mem = mem
       \/ s.at \in Ram /\ s.at \notin Window /\ \A j \in Slots : s.mem[s.at][j] = Absent

LEMMA NormalSeen ==
    ASSUME Sighted, ~Corrupting, NEW v \in Nat, PDP_i(v) # PDP_i(HigherHalf), NEW K,
           NEW k \in 1..4, NEW s, Normal(s, v, k, K)
    PROVE  s.at \in Ram /\ Walk(s.mem, root, s.at) = s.at /\ Deref(s.mem, s.at) = s.at
<1>1. PICK T : Tree(s.mem, s.free, T) /\ s.at \in T[k]
  BY DEF Normal, OnPath
<1>2. s.at \in Ram /\ s.at \in Pages /\ s.at = Reach(s.mem, v, k) /\ TypeOK /\ loaded
  BY <1>1, RamIsPages DEF Tree, Normal, OnPath, Sighted
<1>3. Walk(mem, root, s.at) = s.at
  <2>1. CASE s.mem = mem
    BY <1>1, <1>2, <2>1, TableSeen
  <2>2. CASE s.at \notin Window
    BY <1>2, <2>2, SightedFrames
  <2> QED
    BY <2>1, <2>2 DEF Normal
<1>4. Walk(s.mem, root, s.at) = Walk(mem, root, s.at)
  BY <1>2 DEF Normal, SameWalks
<1> QED
  BY <1>2, <1>3, <1>4 DEF Deref

\* One level on, or doomed: the frame for a new table may lie behind the window.
LEMMA Onward ==
    ASSUME Sighted, ~Corrupting, NEW v \in Nat, PDP_i(v) # PDP_i(HigherHalf),
           NEW K, ToSet(heap) \subseteq K, NEW k \in 1..3, NEW s, Normal(s, v, k, K),
           HasPage(Descend(s, Index(v, k)).free)
    PROVE  \/ Direct(s, Index(v, k)) /\ Normal(Descend(s, Index(v, k)), v, k + 1, K)
           \/ Doomed(Descend(s, Index(v, k)), v)
<1>1. PICK i : i = Index(v, k)
  OBVIOUS
<1>2. PICK d : d = Descend(s, i)
  OBVIOUS
<1>3. PICK n : n = RequestPage(s.free)
  OBVIOUS
<1>4. /\ s \in Carried /\ s.mem \in Memories /\ s.free \in SUBSET Nat /\ ~s.fault
      /\ s = [mem |-> s.mem, free |-> s.free, at |-> s.at, fault |-> s.fault]
      /\ OnPath(s, v, k, K) /\ s.at = Reach(s.mem, v, k) /\ K \intersect s.free = {}
      /\ SameWalks(s.mem, mem) /\ loaded /\ Absent \notin Ram
  BY DEF Normal, OnPath, Carried, Sighted, Ram, Absent
<1>5. i \in Slots /\ k \in 1..4
  BY <1>1, IndexTypes
<1>6. PICK T : Tree(s.mem, s.free, T) /\ s.at \in T[k] /\ Avoids(T, K)
  BY <1>4 DEF OnPath
<1>7. s.at \in Ram /\ Walk(s.mem, root, s.at) = s.at /\ Deref(s.mem, s.at) = s.at
  BY <1>5, NormalSeen
<1>8. n \in s.free /\ n \in Ram /\ n \in Int /\ n \in Pages /\ s.at # n /\ n \notin K
  <2>1. Descend(s, i).free \subseteq s.free
    BY <1>4, <1>5, DescendType
  <2>2. HasPage(s.free)
    BY <1>1, <2>1 DEF HasPage
  <2>3. n \in s.free \intersect Ram
    BY <1>3, <1>4, <2>2, RequestPageType
  <2>4. s.at \notin s.free
    BY <1>5, <1>6 DEF Tree
  <2> QED
    BY <1>4, <2>3, <2>4, RamIsPages
<1>9. Direct(s, i) => OnPath(d, v, k + 1, K) /\ SameWalks(d.mem, s.mem) /\ Follows(d, s, i)
  BY <1>1, <1>2, <1>4, DescendKeeps
<1>10. SameWalks(d.mem, s.mem) => SameWalks(d.mem, mem)
  BY <1>4 DEF SameWalks
<1>11. d \in Carried
  BY <1>2, <1>4, <1>5, DescendType
<1>12. ASSUME NEW t \in Ram, \A j \in 1..4 : t \notin T[j]
       PROVE  Deref([s.mem EXCEPT ![t] = EmptyTable], s.at) = s.at
  <2>1. PICK cleared : cleared = [s.mem EXCEPT ![t] = EmptyTable]
    OBVIOUS
  <2>2. \A g \in Ram, j \in Slots : cleared[g][j] = IF g = t THEN Absent ELSE s.mem[g][j]
    BY <1>4, <1>12, <2>1, ClearedType
  <2>3. KeepsEntries(cleared, s.mem, T)
    BY <1>6, <1>12, <2>2 DEF KeepsEntries, Tree
  <2>4. Walk(cleared, root, s.at) = s.at
    BY <1>4, <1>6, <1>7, <2>3, WalkKept, RamIsPages
  <2> QED
    BY <1>4, <2>1, <2>4 DEF Deref
<1>13. CASE s.mem[s.at][i] # Absent
  <2>1. Direct(s, i)
    BY <1>7, <1>13 DEF Direct
  <2>2. OnPath(d, v, k + 1, K) /\ SameWalks(d.mem, mem) /\ Follows(d, s, i)
    BY <1>9, <1>10, <2>1
  <2>3. s.mem = mem
    BY <1>5, <1>13 DEF Normal
  <2>4. d.mem = mem \/ (d.at \in Ram /\ d.at = n /\ s.mem[s.at][i] = Absent)
    <3>1. PICK table \in Ram : table = s.at /\ table = Deref(s.mem, s.at)
      BY <1>7
    <3>2. d.mem = s.mem
      BY <1>2, <1>4, <1>13, <3>1, DescendFollows
    <3> QED
      BY <2>3, <3>2
  <2>5. Normal(d, v, k + 1, K)
    BY <1>11, <1>13, <2>2, <2>4 DEF Normal
  <2> QED
    BY <1>1, <1>2, <2>1, <2>5
<1>14. CASE s.mem[s.at][i] = Absent /\ n \notin Window
  <2>1. Deref(s.mem, n) = n
    <3>1. Walk(s.mem, root, n) = n
      BY <1>4, <1>8, <1>14, SightedFrames DEF SameWalks
    <3> QED
      BY <1>4, <3>1 DEF Deref
  <2>2. \A j \in 1..4 : n \notin T[j]
    BY <1>6, <1>8 DEF Tree
  <2>3. Direct(s, i)
    BY <1>3, <1>7, <1>8, <1>12, <2>1, <2>2 DEF Direct
  <2>4. OnPath(d, v, k + 1, K) /\ SameWalks(d.mem, mem) /\ Follows(d, s, i)
    BY <1>9, <1>10, <2>3
  <2>5. d.at \in Ram /\ d.at \notin Window /\ \A j \in Slots : d.mem[d.at][j] = Absent
    BY <1>3, <1>8, <1>14, <2>4 DEF Follows
  <2>6. Normal(d, v, k + 1, K)
    BY <1>11, <2>4, <2>5 DEF Normal
  <2> QED
    BY <1>1, <1>2, <2>3, <2>6
<1>15. CASE s.mem[s.at][i] = Absent /\ n \in Window
  <2>1. PICK h : h = Walk(mem, root, n)
    OBVIOUS
  <2>2. h \in Ram /\ h \in ToSet(heap) /\ h \in K
    BY <1>8, <1>15, <2>1, SightedFrames
  <2>3. Deref(s.mem, n) = h
    BY <1>4, <1>8, <2>1 DEF Deref, SameWalks
  <2>4. (\A j \in 1..4 : h \notin T[j]) /\ h # s.at
    BY <1>5, <1>6, <2>2 DEF Avoids
  <2>5. PICK cleared : cleared = [s.mem EXCEPT ![h] = EmptyTable]
    OBVIOUS
  <2>6. /\ cleared \in Memories
        /\ \A g \in Ram, j \in Slots : cleared[g][j] = IF g = h THEN Absent ELSE s.mem[g][j]
    BY <1>4, <2>2, <2>5, ClearedType
  <2>7. Deref(cleared, s.at) = s.at
    BY <1>12, <2>2, <2>4, <2>5
  <2>8. PICK after : after = SetEntry(cleared, s.at, i, n)
    OBVIOUS
  <2>9. \A g \in Ram, j \in Slots : after[g][j] = IF g = s.at /\ j = i THEN n ELSE cleared[g][j]
    BY <1>5, <1>7, <1>8, <2>6, <2>8, SetEntryType
  <2>10. Enters(d, s, after, n)
    <3>1. PICK table \in Ram : table = s.at /\ table = Deref(s.mem, s.at)
      BY <1>7
    <3>2. s \in Carried /\ ~s.fault /\ s.mem[table][i] = Absent /\ table = Deref(cleared, s.at)
      BY <1>4, <1>15, <2>7, <3>1
    <3>3. after = SetEntry(cleared, table, i, n)
      BY <2>8, <3>1
    <3> QED
      BY <1>2, <1>3, <2>2, <2>3, <2>5, <3>1, <3>2, <3>3, DescendEnters
  <2>11. d.mem = after /\ d.free = s.free \ {n} /\ d.at = n
    BY <2>10 DEF Enters
  <2>12. Hidden(after, s.mem, s.free, T, k, n, v)
    <3>1. \A j \in 1..4 : \A f \in T[j], l \in Slots :
              after[f][l] = IF f = s.at /\ l = i THEN n ELSE s.mem[f][l]
      <4> SUFFICES ASSUME NEW j \in 1..4, NEW f \in T[j], NEW l \in Slots
                   PROVE  after[f][l] = IF f = s.at /\ l = i THEN n ELSE s.mem[f][l]
        OBVIOUS
      <4>1. f \in Ram /\ f # h
        BY <1>6, <2>4 DEF Tree
      <4> QED
        BY <2>6, <2>9, <4>1
    <3>2. Avoids(T, ToSet(heap)) /\ ToSet(heap) \intersect s.free = {}
      BY <1>4, <1>6 DEF Avoids
    <3> QED
      BY <1>1, <1>4, <1>6, <1>8, <1>15, <3>1, <3>2 DEF Hidden
  <2>13. \A j \in Slots : after[h][j] = Absent
    BY <2>2, <2>4, <2>6, <2>9
  <2>14. Doomed(d, v)
    <3>1. d.free \subseteq s.free /\ d.at \in s.free \intersect Ram /\ d.at \notin d.free
      BY <1>8, <2>11
    <3> QED
      BY <2>1, <2>11, <2>12, <2>13, <3>1 DEF Doomed
  <2> QED
    BY <1>1, <1>2, <2>14
<1> QED
  BY <1>13, <1>14, <1>15

\* MapMemory does what it should, or lays a table behind the window.
LEMMA MapSeen ==
    ASSUME Sighted, ~Corrupting, NEW v \in Nat, PDP_i(v) # PDP_i(HigherHalf), NEW p \in Int,
           NEW K, ToSet(heap) \subseteq K,
           NEW s \in Carried, s.mem = mem, s.at = root, ~s.fault, K \intersect s.free = {},
           NEW T, Tree(mem, s.free, T), Avoids(T, K), HasPage(MapFrom(s, v, p).free)
    PROVE  \/ Serves(MapFrom(s, v, p), s, v, p, K)
           \/ \E m, pool, U, k, new : Hidden(MapFrom(s, v, p).mem, m, pool, U, k, new, v)
<1>1. /\ Second(s, v) \in Carried /\ Third(s, v) \in Carried /\ Fourth(s, v) \in Carried
      /\ HasPage(Second(s, v).free) /\ HasPage(Third(s, v).free) /\ HasPage(Fourth(s, v).free)
  <2>1. /\ Second(s, v) \in Carried /\ Third(s, v) \in Carried /\ Fourth(s, v) \in Carried
        /\ Third(s, v).free \subseteq Second(s, v).free /\ Fourth(s, v).free \subseteq Third(s, v).free
        /\ MapFrom(s, v, p).free = Fourth(s, v).free
    BY MapFromType
  <2> QED
    BY <2>1 DEF HasPage
<1>2. 1 \in 1..3 /\ 2 \in 1..3 /\ 3 \in 1..3 /\ 1 + 1 = 2 /\ 2 + 1 = 3 /\ 3 + 1 = 4
  OBVIOUS
<1>3. Index(v, 2) \in Slots /\ Index(v, 3) \in Slots /\ 4 \in 1..4
  BY IndexTypes
<1>4. OnPath(s, v, 1, K)
  BY StartOnPath
<1>5. Normal(s, v, 1, K)
  BY <1>4 DEF Normal, SameWalks
<1>6. \/ Direct(s, Index(v, 1)) /\ Normal(Second(s, v), v, 2, K)
      \/ Doomed(Second(s, v), v)
  BY <1>1, <1>2, <1>5, Onward DEF Second
<1>7. CASE Doomed(Second(s, v), v)
  <2>1. Doomed(Third(s, v), v)
    BY <1>1, <1>3, <1>7, DoomedGoesOn DEF Third
  <2>2. Doomed(Fourth(s, v), v)
    BY <1>1, <1>3, <2>1, DoomedGoesOn DEF Fourth
  <2> QED
    BY <2>2, DoomedEnds
<1>8. CASE Direct(s, Index(v, 1)) /\ Normal(Second(s, v), v, 2, K)
  <2>1. \/ Direct(Second(s, v), Index(v, 2)) /\ Normal(Third(s, v), v, 3, K)
        \/ Doomed(Third(s, v), v)
    BY <1>1, <1>2, <1>8, Onward DEF Third
  <2>2. CASE Doomed(Third(s, v), v)
    <3>1. Doomed(Fourth(s, v), v)
      BY <1>1, <1>3, <2>2, DoomedGoesOn DEF Fourth
    <3> QED
      BY <3>1, DoomedEnds
  <2>3. CASE Direct(Second(s, v), Index(v, 2)) /\ Normal(Third(s, v), v, 3, K)
    <3>1. \/ Direct(Third(s, v), Index(v, 3)) /\ Normal(Fourth(s, v), v, 4, K)
          \/ Doomed(Fourth(s, v), v)
      BY <1>1, <1>2, <2>3, Onward DEF Fourth
    <3>2. CASE Doomed(Fourth(s, v), v)
      BY <3>2, DoomedEnds
    <3>3. CASE Direct(Third(s, v), Index(v, 3)) /\ Normal(Fourth(s, v), v, 4, K)
      <4>1. Deref(Fourth(s, v).mem, Fourth(s, v).at) = Fourth(s, v).at
        BY <1>3, <3>3, NormalSeen
      <4> QED
        BY <1>4, <1>8, <2>3, <3>3, <4>1, MapFromKeeps
    <3> QED
      BY <3>1, <3>2, <3>3
  <2> QED
    BY <2>1, <2>2, <2>3
<1> QED
  BY <1>6, <1>7, <1>8
-----------------------------------------------------------------------------
(* What the loops of KernelStart map *)

\* The frame that a page the loops map is mapped to.
FrameOf(v) ==
    IF v < RamFrames THEN v
    ELSE IF v < HigherHalf + RamFrames THEN v - HigherHalf
    ELSE PhysicalBase + (v - VirtualBase)

Covered(v) == \E l \in DOMAIN Loops : \E n \in 0..(Mapped(l) - 1) : v = Loops[l].page + n

\* Intended, with what Booted comes to.
Asked(v) ==
    IF v \in Window THEN heap[v - heapStart + 1]
    ELSE IF v \in devices THEN v
    ELSE IF Covered(v) THEN FrameOf(v)
    ELSE Absent

LoopRecords == [page : Nat, frame : Nat, length : Nat]

LEMMA LoopsAre ==
    /\ Len(Loops) = Len(Regions) + 2 /\ Len(Loops) \in Nat /\ DOMAIN Loops = 1..Len(Loops)
    /\ 1 \in DOMAIN Loops /\ Loops[1] = [page |-> 0, frame |-> 0, length |-> RamFrames]
    /\ \A l \in DOMAIN Loops :
           /\ Loops[l].page \in Nat /\ Loops[l].frame \in Nat /\ Loops[l].length \in Nat
           /\ \A n \in 0..(Loops[l].length - 1) :
                  /\ Loops[l].page + n \in Pages
                  /\ Loops[l].frame + n = FrameOf(Loops[l].page + n)
<1>1. PICK F : F = Fanout * Fanout * Fanout * Fanout
  OBVIOUS
<1>2. /\ F \in Nat /\ Pages = 0..(F - 1) /\ RamFrames \in Nat /\ HigherHalf \in Nat
      /\ VirtualBase \in 0..(F - 1) /\ PhysicalBase \in Nat
      /\ RamFrames <= HigherHalf /\ HigherHalf + RamFrames <= VirtualBase
      /\ Regions \in Seq([base : Nat, length : Nat])
      /\ \A r \in DOMAIN Regions :
             Regions[r].base >= VirtualBase /\ Regions[r].base + Regions[r].length <= F
  BY <1>1, PageTablesAssumption, KernelMemoryAssumption DEF Pages
<1>3. PICK N : N = Len(Regions)
  OBVIOUS
<1>4. /\ N \in Nat /\ DOMAIN Regions = 1..N
      /\ \A r \in 1..N : Regions[r] \in [base : Nat, length : Nat]
  <2>1. PICK S : S = [base : Nat, length : Nat]
    OBVIOUS
  <2>2. Regions \in Seq(S)
    BY <1>2, <2>1
  <2>3. /\ Len(Regions) \in Nat /\ DOMAIN Regions = 1..Len(Regions)
        /\ \A r \in 1..Len(Regions) : Regions[r] \in S
    BY <2>2
  <2> QED
    BY <1>3, <2>1, <2>3
<1>5. ASSUME NEW r \in 1..N
      PROVE  /\ Regions[r].base \in Nat /\ Regions[r].length \in Nat
             /\ Regions[r].base >= VirtualBase /\ Regions[r].base + Regions[r].length <= F
             /\ PhysicalBase + (Regions[r].base - VirtualBase) \in Nat
  <2>1. Regions[r] \in [base : Nat, length : Nat]
    BY <1>4
  <2>2. /\ Regions[r].base \in Nat /\ Regions[r].length \in Nat
        /\ Regions[r].base >= VirtualBase /\ Regions[r].base + Regions[r].length <= F
    BY <1>2, <1>4, <2>1
  <2>3. PICK b : b = Regions[r].base
    OBVIOUS
  <2>4. b \in Nat /\ b >= VirtualBase
    BY <2>2, <2>3
  <2>5. PhysicalBase + (b - VirtualBase) \in Nat
    BY <1>2, <2>4
  <2> QED
    BY <2>2, <2>3, <2>5
<1>6. PICK one : one = [page |-> 0, frame |-> 0, length |-> RamFrames]
  OBVIOUS
<1>7. PICK other : other = [page |-> HigherHalf, frame |-> 0, length |-> RamFrames]
  OBVIOUS
<1>8. PICK rest : rest = [r \in DOMAIN Regions |->
                            [page   |-> Regions[r].base,
                             frame  |-> PhysicalBase + (Regions[r].base - VirtualBase),
                             length |-> Regions[r].length]]
  OBVIOUS
<1>9. Loops = <<one, other>> \o rest
  BY <1>6, <1>7, <1>8 DEF Loops
<1>10. one \in LoopRecords /\ other \in LoopRecords
  BY <1>2, <1>6, <1>7 DEF LoopRecords
<1>11. ASSUME NEW r \in 1..N
       PROVE  /\ rest[r] \in LoopRecords
              /\ rest[r].page = Regions[r].base /\ rest[r].length = Regions[r].length
              /\ rest[r].frame = PhysicalBase + (Regions[r].base - VirtualBase)
  <2>1. PICK p : p = Regions[r].base
    OBVIOUS
  <2>2. PICK f : f = PhysicalBase + (Regions[r].base - VirtualBase)
    OBVIOUS
  <2>3. PICK n : n = Regions[r].length
    OBVIOUS
  <2>4. rest[r] = [page |-> p, frame |-> f, length |-> n]
    BY <1>4, <1>8, <2>1, <2>2, <2>3
  <2>5. p \in Nat /\ f \in Nat /\ n \in Nat
    BY <1>5, <2>1, <2>2, <2>3
  <2> QED
    BY <2>1, <2>2, <2>3, <2>4, <2>5 DEF LoopRecords
<1>12. rest \in Seq(LoopRecords) /\ Len(rest) = N
  <2>1. rest \in [1..N -> LoopRecords]
    <3>1. DOMAIN rest = 1..N /\ rest = [r \in 1..N |-> rest[r]]
      BY <1>4, <1>8
    <3> QED
      BY <1>11, <3>1
  <2>2. PICK S : S = LoopRecords
    OBVIOUS
  <2> QED
    BY <1>4, <2>1, <2>2
<1>13. PICK two : two = <<one, other>>
  OBVIOUS
<1>14. two \in Seq(LoopRecords) /\ Len(two) = 2 /\ two[1] = one /\ two[2] = other
  BY <1>10, <1>13
<1>15. Loops = two \o rest
  BY <1>9, <1>13
<1>16. /\ Loops \in Seq(LoopRecords) /\ Len(Loops) = N + 2
       /\ \A l \in 1..(N + 2) : Loops[l] = IF l <= 2 THEN two[l] ELSE rest[l - 2]
  <2>1. /\ Loops \in Seq(LoopRecords) /\ Len(Loops) = Len(two) + Len(rest)
        /\ \A l \in 1..(Len(two) + Len(rest)) :
               Loops[l] = IF l <= Len(two) THEN two[l] ELSE rest[l - Len(two)]
    BY <1>12, <1>14, <1>15, ConcatProperties
  <2> QED
    BY <1>4, <1>12, <1>14, <2>1
<1>17. DOMAIN Loops = 1..(N + 2)
  <2>1. PICK S : S = LoopRecords
    OBVIOUS
  <2> QED
    BY <1>16, <2>1
<1>18. ASSUME NEW l \in DOMAIN Loops
       PROVE  /\ Loops[l].page \in Nat /\ Loops[l].frame \in Nat /\ Loops[l].length \in Nat
              /\ \A n \in 0..(Loops[l].length - 1) :
                     /\ Loops[l].page + n \in Pages
                     /\ Loops[l].frame + n = FrameOf(Loops[l].page + n)
  <2>1. l \in 1..(N + 2) /\ (l = 1 \/ l = 2 \/ (~(l <= 2) /\ l - 2 \in 1..N))
    BY <1>4, <1>17
  <2>2. CASE l = 1
    <3>1. Loops[l].page = 0 /\ Loops[l].frame = 0 /\ Loops[l].length = RamFrames
      BY <1>4, <1>6, <1>14, <1>16, <2>2
    <3> QED
      BY <1>2, <3>1 DEF FrameOf
  <2>3. CASE l = 2
    <3>1. Loops[l].page = HigherHalf /\ Loops[l].frame = 0 /\ Loops[l].length = RamFrames
      BY <1>4, <1>7, <1>14, <1>16, <2>3
    <3> QED
      BY <1>2, <3>1 DEF FrameOf
  <2>4. CASE ~(l <= 2) /\ l - 2 \in 1..N
    <3>1. PICK r \in 1..N : r = l - 2
      BY <2>4
    <3>2. Loops[l] = rest[r]
      BY <1>16, <2>1, <2>4, <3>1
    <3>3. PICK b : b = Regions[r].base
      OBVIOUS
    <3>4. PICK c : c = Regions[r].length
      OBVIOUS
    <3>5. Loops[l].page = b /\ Loops[l].length = c /\ Loops[l].frame = PhysicalBase + (b - VirtualBase)
      BY <1>11, <3>2, <3>3, <3>4
    <3>6. b \in Nat /\ c \in Nat /\ b >= VirtualBase /\ b + c <= F
      BY <1>5, <3>3, <3>4
    <3>7. ASSUME NEW n \in 0..(c - 1)
          PROVE  b + n \in Pages /\ PhysicalBase + (b - VirtualBase) + n = FrameOf(b + n)
      <4>1. b + n \in 0..(F - 1)
        BY <1>2, <3>6
      <4>2. ~(b + n < RamFrames) /\ ~(b + n < HigherHalf + RamFrames)
        BY <1>2, <3>6
      <4>3. FrameOf(b + n) = PhysicalBase + ((b + n) - VirtualBase)
        BY <4>2 DEF FrameOf
      <4> QED
        BY <1>2, <3>6, <4>1, <4>3
    <3>8. PhysicalBase + (b - VirtualBase) \in Nat
      BY <1>2, <3>6
    <3> QED
      BY <3>5, <3>6, <3>7, <3>8
  <2> QED
    BY <2>1, <2>2, <2>3, <2>4
<1>19. 1 \in DOMAIN Loops /\ Loops[1] = [page |-> 0, frame |-> 0, length |-> RamFrames]
  BY <1>4, <1>6, <1>14, <1>16, <1>17
<1>20. Len(Loops) = Len(Regions) + 2 /\ Len(Loops) \in Nat
  BY <1>3, <1>4, <1>16
<1> QED
  BY <1>4, <1>16, <1>17, <1>18, <1>19, <1>20

LEMMA MappedType ==
    ASSUME KernelTypeOK, NEW l \in DOMAIN Loops
    PROVE  Mapped(l) \in Nat /\ Mapped(l) <= Loops[l].length
<1>1. Loops[l].length \in Nat /\ l \in 1..Len(Loops) /\ Len(Loops) \in Nat
  BY LoopsAre
<1>2. next \in Nat /\ (loop <= Len(Loops) => next <= Loops[loop].length)
  BY DEF KernelTypeOK
<1>3. CASE l < loop
  BY <1>1, <1>3 DEF Mapped
<1>4. CASE ~(l < loop) /\ l = loop
  BY <1>1, <1>2, <1>4 DEF Mapped
<1>5. CASE ~(l < loop) /\ l # loop
  BY <1>1, <1>5 DEF Mapped
<1> QED
  BY <1>3, <1>4, <1>5

\* Two loops that map the same page map it to the same frame.
LEMMA BootedFrames ==
    ASSUME KernelTypeOK, NEW b \in Booted
    PROVE  Covered(b[1]) /\ b[2] = FrameOf(b[1])
<1>a. PICK l \in DOMAIN Loops :
          b \in {<<Loops[l].page + n, Loops[l].frame + n>> : n \in 0..(Mapped(l) - 1)}
  BY DEF Booted
<1>1. PICK n \in 0..(Mapped(l) - 1) : b = <<Loops[l].page + n, Loops[l].frame + n>>
  BY <1>a
<1>2. n \in 0..(Loops[l].length - 1)
  BY MappedType, LoopsAre
<1> QED
  BY <1>1, <1>2, LoopsAre DEF Covered

LEMMA IntendedIsAsked ==
    ASSUME KernelTypeOK, NEW v \in Pages
    PROVE  Intended[v] = Asked(v)
<1>1. ASSUME NEW b \in Booted, b[1] = v PROVE Covered(v)
  BY <1>1, BootedFrames
<1>2. ASSUME Covered(v) PROVE \E b \in Booted : b[1] = v
  <2>a. PICK l \in DOMAIN Loops : \E n \in 0..(Mapped(l) - 1) : v = Loops[l].page + n
    BY <1>2 DEF Covered
  <2>1. PICK n \in 0..(Mapped(l) - 1) : v = Loops[l].page + n
    BY <2>a
  <2>2. <<Loops[l].page + n, Loops[l].frame + n>> \in Booted
    BY DEF Booted
  <2> QED
    BY <2>1, <2>2
<1>3. ASSUME Covered(v) PROVE (CHOOSE b \in Booted : b[1] = v)[2] = FrameOf(v)
  <2>1. PICK c : c = CHOOSE b \in Booted : b[1] = v
    OBVIOUS
  <2>2. c \in Booted /\ c[1] = v
    BY <1>2, <1>3, <2>1
  <2> QED
    BY <2>1, <2>2, BootedFrames
<1> QED
  BY <1>1, <1>2, <1>3 DEF Intended, Asked

LEMMA NothingAsked ==
    ASSUME KernelInit, NEW v
    PROVE  Asked(v) = Absent
<1>1. heap = <<>> /\ devices = {} /\ loop = 1 /\ next = 0 /\ heapStart \in Nat
  BY KernelMemoryAssumption DEF KernelInit
<1>2. Window = {}
  BY <1>1 DEF Window, heapEnd
<1>3. \A l \in DOMAIN Loops : Mapped(l) = 0
  BY <1>1, LoopsAre DEF Mapped
<1>4. ~Covered(v)
  BY <1>3 DEF Covered
<1> QED
  BY <1>1, <1>2, <1>4 DEF Asked
-----------------------------------------------------------------------------
(* What holds of the address space, and of the heap in it *)

\* As long as there is a frame of memory to give.
Sound ==
    /\ ~fault
    /\ \E T : Tree(mem, free, T) /\ Avoids(T, ToSet(heap))
    /\ IsInjective(heap) /\ ToSet(heap) \subseteq Ram
    /\ (ToSet(heap) \union driver) \intersect free = {}
    /\ ToSet(heap) \intersect driver = {}
    /\ \A w \in Pages : Walk(mem, root, w) = Asked(w)

KInv ==
    /\ TypeOK /\ KernelTypeOK
    /\ (loaded => loop > Len(Loops))
    /\ (~loaded => heap = <<>> /\ devices = {} /\ driver = {})
    /\ (HasPage(free) => Sound)

LEMMA ConstantLoops ==
    /\ Loops' = Loops /\ Ram' = Ram /\ Pages' = Pages /\ Slots' = Slots
BY DEF Loops, Ram, Pages, Slots

LEMMA EmptyHeap == ToSet(<<>>) = {} /\ IsInjective(<<>>) /\ Len(<<>>) = 0
<1>1. DOMAIN <<>> = {}
  OBVIOUS
<1> QED
  BY <1>1 DEF ToSet, IsInjective

LEMMA WindowInRam ==
    ASSUME KernelTypeOK
    PROVE  /\ heapStart \in Nat /\ Len(heap) \in Nat /\ heapEnd \in Nat
           /\ Window \subseteq Ram
           /\ (Len(heap) < MaxHeapPages => heapEnd \in Ram)
<1>1. PICK n : n = Len(heap)
  OBVIOUS
<1>2. heap \in Seq(Nat) /\ n <= MaxHeapPages /\ heapStart \in HeapStarts
  BY <1>1 DEF KernelTypeOK
<1>3. n \in Nat /\ MaxHeapPages \in Nat /\ RamFrames \in Nat
  BY <1>1, <1>2, KernelMemoryAssumption, PageTablesAssumption
<1>4. heapStart \in Nat /\ heapStart + MaxHeapPages <= RamFrames
  BY <1>2, KernelMemoryAssumption
<1>5. heapEnd = heapStart + n /\ Window = heapStart..(heapStart + n - 1)
  BY <1>1, <1>3, <1>4 DEF heapEnd, Window
<1>6. heapStart..(heapStart + n - 1) \subseteq 0..(RamFrames - 1)
  BY <1>2, <1>3, <1>4
<1>7. n < MaxHeapPages => heapStart + n \in 0..(RamFrames - 1)
  BY <1>3, <1>4
<1> QED
  BY <1>1, <1>3, <1>4, <1>5, <1>6, <1>7 DEF Ram

\* The loops over, memory is where its number says unless the heap hides it.
LEMMA RamCovered ==
    ASSUME KernelTypeOK, loop > Len(Loops), NEW f \in Ram
    PROVE  Covered(f) /\ FrameOf(f) = f
<1>1. /\ Len(Loops) \in Nat /\ 1 \in 1..Len(Loops) /\ 1 \in DOMAIN Loops
      /\ Loops[1].page = 0 /\ Loops[1].length = RamFrames
  BY LoopsAre
<1>2. loop \in Nat /\ 1 < loop
  BY <1>1 DEF KernelTypeOK
<1>3. Mapped(1) = RamFrames
  BY <1>1, <1>2 DEF Mapped
<1>4. f \in 0..(Mapped(1) - 1) /\ f = Loops[1].page + f /\ f < RamFrames
  BY <1>1, <1>3, PageTablesAssumption DEF Ram
<1> QED
  BY <1>1, <1>4 DEF Covered, FrameOf

LEMMA NoDeviceInWindow ==
    ASSUME KernelTypeOK, NEW v \in DevicePages
    PROVE  v \notin Window
<1>1. PICK n : n = Len(heap)
  OBVIOUS
<1>2. n \in Nat /\ MaxHeapPages \in Nat /\ n <= MaxHeapPages /\ heapStart \in Nat
  BY <1>1, WindowInRam, KernelMemoryAssumption DEF KernelTypeOK
<1>3. v \notin heapStart..(heapStart + MaxHeapPages - 1) /\ heapStart \in HeapStarts
  BY KernelMemoryAssumption DEF KernelTypeOK
<1>4. Window = heapStart..(heapStart + n - 1)
  BY <1>1, <1>2 DEF Window, heapEnd
<1> QED
  BY <1>2, <1>3, <1>4

LEMMA SoundIsSighted ==
    ASSUME KInv, HasPage(free), loaded
    PROVE  Sighted
<1>1. /\ TypeOK /\ KernelTypeOK /\ Sound /\ loop > Len(Loops)
  BY DEF KInv
<1>2. heapStart \in Nat /\ heap \in Seq(Nat) /\ IsInjective(heap) /\ ToSet(heap) \subseteq Ram
  BY <1>1, WindowInRam DEF Sound, KernelTypeOK
<1>3. ASSUME NEW f \in Ram
      PROVE  Walk(mem, root, f) = IF f \in Window THEN heap[f - heapStart + 1] ELSE f
  <2>1. Walk(mem, root, f) = Asked(f)
    BY <1>1, RamIsPages DEF Sound
  <2>2. Covered(f) /\ FrameOf(f) = f
    BY <1>1, RamCovered
  <2> QED
    BY <2>1, <2>2 DEF Asked
<1> QED
  BY <1>1, <1>2, <1>3 DEF Sighted

\* The heap is in use only after CR3.
LEMMA HeapIsLoaded ==
    ASSUME KInv, Running
    PROVE  loaded /\ heap # <<>>
<1>1. Len(heap) >= HeapPages /\ HeapPages \in Nat \ {0}
  BY KernelMemoryAssumption DEF Running
<1>2. heap # <<>>
  BY <1>1, EmptyHeap
<1> QED
  BY <1>2 DEF KInv

\* Sound in the next state, from its parts.
LEMMA SoundNext ==
    ASSUME root' = root, ~fault', NEW T, Tree(mem', free', T), Avoids(T, ToSet(heap')),
           IsInjective(heap'), ToSet(heap') \subseteq Ram,
           (ToSet(heap') \union driver') \intersect free' = {},
           ToSet(heap') \intersect driver' = {},
           \A w \in Pages : Walk(mem', root, w) = Asked(w)'
    PROVE  Sound'
<1>1. \E U : Tree(mem, free, U)' /\ Avoids(U, ToSet(heap'))
  BY ConstantLoops DEF Tree
<1>2. \A w \in Pages : Walk(mem, root, w)' = Asked(w)'
  BY ConstantLoops DEF Walk, Entry
<1> QED
  BY <1>1, <1>2, ConstantLoops DEF Sound, Avoids, ToSet, IsInjective

\* What is asked for is the same as long as the calls are.
LEMMA SameAsked ==
    ASSUME UNCHANGED <<loop, next, heapStart, heap, devices>>, NEW w
    PROVE  Asked(w)' = Asked(w)
<1>1. Covered(w)' = Covered(w)
  BY ConstantLoops DEF Covered, Mapped
<1>2. Window' = Window
  BY DEF Window, heapEnd
<1> QED
  BY <1>1, <1>2 DEF Asked, FrameOf
-----------------------------------------------------------------------------
(* The steps *)

LEMMA InitKInv == KernelInit => KInv
<1> SUFFICES ASSUME KernelInit PROVE KInv
  OBVIOUS
<1>1. /\ loop = 1 /\ next = 0 /\ heapStart \in HeapStarts /\ heap = <<>> /\ devices = {} /\ driver = {}
      /\ ~loaded /\ ~fault
  BY DEF KernelInit, Init
<1>2. IInv /\ Space!Init
  BY InitIInv, InitTranslation DEF KernelInit
<1>3. KernelTypeOK
  <2>1. Len(Loops) \in Nat /\ 1 \in 1..Len(Loops) /\ Loops[1].length \in Nat
    BY LoopsAre
  <2>2. Len(heap) = 0 /\ MaxHeapPages \in Nat /\ heap \in Seq(Nat)
    BY <1>1, KernelMemoryAssumption
  <2> QED
    BY <1>1, <2>1, <2>2 DEF KernelTypeOK
<1>4. ASSUME HasPage(free) PROVE Sound
  <2>1. PICK T : Tree(mem, free, T)
    BY <1>2, <1>4 DEF IInv, IsTree
  <2>2. ToSet(heap) = {} /\ IsInjective(heap)
    BY <1>1, EmptyHeap
  <2>3. ASSUME NEW w \in Pages PROVE Walk(mem, root, w) = Asked(w)
    <3>1. Asked(w) = Absent
      BY NothingAsked
    <3>2. Translation = [v \in Pages |-> Absent]
      BY <1>2 DEF Space!Init
    <3>3. Translation[w] = Walk(mem, root, w)
      BY DEF Translation
    <3> QED
      BY <3>1, <3>2, <3>3
  <2> QED
    BY <1>1, <2>1, <2>2, <2>3 DEF Sound, Avoids
<1> QED
  BY <1>1, <1>2, <1>3, <1>4 DEF KInv, IInv

\* A page of one of KernelStart's loops.
LEMMA BootMapKeeps ==
    ASSUME KInv, BootMap
    PROVE  KInv' /\ heap = <<>>
<1>1. PICK v : v = Loops[loop].page + next
  OBVIOUS
<1>2. PICK p : p = Loops[loop].frame + next
  OBVIOUS
<1>3. /\ loop <= Len(Loops) /\ next < Loops[loop].length /\ MapMemory(v, p) /\ next' = next + 1
      /\ UNCHANGED <<loop, heapStart, heap, devices, driver>> /\ root' = root /\ loaded' = loaded /\ ~fault
  BY <1>1, <1>2 DEF BootMap, MapMemory
<1>4. TypeOK /\ KernelTypeOK /\ ~loaded /\ heap = <<>> /\ devices = {} /\ driver = {}
  <2>1. loop \in Nat /\ Len(Loops) \in Nat
    BY LoopsAre DEF KInv, KernelTypeOK
  <2> QED
    BY <1>3, <2>1 DEF KInv
<1>5. /\ loop \in DOMAIN Loops /\ next \in 0..(Loops[loop].length - 1) /\ loop \in Nat /\ Len(Loops) \in Nat
      /\ Loops[loop].length \in Nat
  <2>1. loop \in 1..(Len(Loops) + 1) /\ Len(Loops) \in Nat /\ DOMAIN Loops = 1..Len(Loops)
    BY <1>4, LoopsAre DEF KernelTypeOK
  <2>2. loop \in DOMAIN Loops
    BY <1>3, <2>1
  <2>3. Loops[loop].length \in Nat /\ next \in Nat
    BY <1>4, <2>2, LoopsAre DEF KernelTypeOK
  <2> QED
    BY <1>3, <2>1, <2>2, <2>3
<1>6. v \in Pages /\ p = FrameOf(v) /\ v \in Nat /\ p \in Nat
  <2>1. Loops[loop].page \in Nat /\ Loops[loop].frame \in Nat /\ next \in Nat
    BY <1>5, LoopsAre
  <2> QED
    BY <1>1, <1>2, <1>5, <2>1, LoopsAre
<1>7. IsTree
  BY DEF KInv, IsTree, Sound
<1>8. /\ IInv'
      /\ HasPage(free') => ~fault'
      /\ HasPage(free') => \A w \in Pages : Walk(mem', root', w) = IF w = v THEN p ELSE Walk(mem, root, w)
  BY <1>3, <1>4, <1>6, <1>7, MapMemoryStep DEF IInv
<1>9. KernelTypeOK'
  <2>1. Loops' = Loops /\ next' \in Nat /\ next' <= Loops[loop].length
    BY <1>3, <1>5, ConstantLoops
  <2> QED
    BY <1>3, <1>4, <2>1 DEF KernelTypeOK
<1>10. \A w : Covered(w)' <=> Covered(w) \/ w = v
  <2> SUFFICES ASSUME NEW w PROVE Covered(w)' <=> Covered(w) \/ w = v
    OBVIOUS
  <2>1. \A l \in DOMAIN Loops : Mapped(l)' = IF l = loop THEN next + 1 ELSE Mapped(l)
    BY <1>3, <1>5, ConstantLoops DEF Mapped
  <2>2. Mapped(loop) = next
    BY <1>5 DEF Mapped
  <2>3. Covered(w)' <=> \E l \in DOMAIN Loops : \E n \in 0..(Mapped(l)' - 1) : w = Loops[l].page + n
    BY ConstantLoops DEF Covered
  <2>4. ASSUME Covered(w)' PROVE Covered(w) \/ w = v
    <3>1. PICK l \in DOMAIN Loops : \E n \in 0..(Mapped(l)' - 1) : w = Loops[l].page + n
      BY <2>3, <2>4
    <3>2. PICK n \in 0..(Mapped(l)' - 1) : w = Loops[l].page + n
      BY <3>1
    <3>3. CASE n \in 0..(Mapped(l) - 1)
      BY <3>2, <3>3 DEF Covered
    <3>4. CASE n \notin 0..(Mapped(l) - 1)
      <4>1. l = loop
        BY <2>1, <3>2, <3>4
      <4>2. n = next
        BY <1>5, <2>1, <2>2, <3>2, <3>4, <4>1
      <4> QED
        BY <1>1, <3>2, <4>1, <4>2
    <3> QED
      BY <3>3, <3>4
  <2>5. ASSUME Covered(w) PROVE Covered(w)'
    <3>1. PICK l \in DOMAIN Loops : \E n \in 0..(Mapped(l) - 1) : w = Loops[l].page + n
      BY <2>5 DEF Covered
    <3>2. PICK n \in 0..(Mapped(l) - 1) : w = Loops[l].page + n
      BY <3>1
    <3>3. n \in 0..(Mapped(l)' - 1)
      <4>1. CASE l = loop
        BY <1>5, <2>1, <2>2, <3>2, <4>1
      <4>2. CASE l # loop
        BY <2>1, <3>2, <4>2
      <4> QED
        BY <4>1, <4>2
    <3> QED
      BY <2>3, <3>2, <3>3
  <2>6. ASSUME w = v PROVE Covered(w)'
    <3>1. PICK l \in DOMAIN Loops : l = loop
      BY <1>5
    <3>2. Mapped(l)' = next + 1
      BY <2>1, <3>1
    <3>3. next \in 0..(Mapped(l)' - 1)
      BY <1>5, <3>2
    <3> QED
      BY <1>1, <2>3, <2>6, <3>1, <3>3
  <2> QED
    BY <2>4, <2>5, <2>6
<1>11. ASSUME HasPage(free') PROVE Sound'
  <2>1. HasPage(free) /\ Sound
    <3>1. free' \subseteq free
      <4>1. MapFrom(Start, v, p).free \subseteq Start.free
        <5>1. Start \in Carried /\ p \in Int /\ v \in Nat
          BY <1>4, <1>6, StartType
        <5>2. /\ MapFrom(Start, v, p).free = Fourth(Start, v).free
              /\ Fourth(Start, v).free \subseteq Third(Start, v).free
              /\ Third(Start, v).free \subseteq Second(Start, v).free
              /\ Second(Start, v).free \subseteq Start.free
          BY <5>1, MapFromType
        <5> QED
          BY <5>2
      <4> QED
        BY <1>3, <1>4, <4>1, StartType DEF MapMemory, Become
    <3> QED
      BY <1>11, <3>1 DEF HasPage, KInv
  <2>2. PICK T : Tree(mem', free', T)
    <3>1. HasPage(free)'
      BY <1>11, ConstantLoops DEF HasPage
    <3>2. \E T : Tree(mem, free, T)'
      BY <1>8, <3>1 DEF IInv, IsTree
    <3> QED
      BY <1>3, <3>2, ConstantLoops DEF Tree
  <2>3. heap' = <<>> /\ ToSet(heap') = {} /\ IsInjective(heap') /\ driver' = {}
    BY <1>3, <1>4, EmptyHeap
  <2>4. ASSUME NEW w \in Pages PROVE Walk(mem', root', w) = Asked(w)'
    <3>1. Window = {} /\ Window' = {} /\ devices = {} /\ devices' = {}
      <4>1. heapStart \in Nat /\ heapStart' = heapStart /\ Len(heap) = 0 /\ Len(heap') = 0
        BY <1>3, <1>4, WindowInRam, EmptyHeap
      <4> QED
        BY <1>3, <1>4, <4>1 DEF Window, heapEnd
    <3>2. Walk(mem, root, w) = IF Covered(w) THEN FrameOf(w) ELSE Absent
      BY <2>1, <3>1 DEF Sound, Asked
    <3>3. Asked(w)' = IF Covered(w)' THEN FrameOf(w) ELSE Absent
      BY <3>1 DEF Asked, FrameOf
    <3> QED
      BY <1>6, <1>8, <1>10, <1>11, <3>2, <3>3
  <2> QED
    BY <1>3, <1>8, <1>11, <2>2, <2>3, <2>4, SoundNext DEF Avoids
<1>12. TypeOK' /\ ~loaded'
  BY <1>3, <1>4, <1>8 DEF IInv
<1>13. HasPage(free)' => Sound'
  BY <1>11, ConstantLoops DEF HasPage
<1> QED
  BY <1>3, <1>4, <1>9, <1>12, <1>13 DEF KInv

LEMMA EndLoopKeeps ==
    ASSUME KInv, EndLoop
    PROVE  KInv' /\ UNCHANGED mem
<1>1. /\ loop <= Len(Loops) /\ next = Loops[loop].length /\ loop' = loop + 1 /\ next' = 0 /\ ~fault
      /\ UNCHANGED <<mem, free, root, loaded, fault, heapStart, heap, devices, driver>>
  BY DEF EndLoop, ptvars
<1>2. TypeOK /\ KernelTypeOK
  BY DEF KInv
<1>3. loop \in Nat /\ Len(Loops) \in Nat /\ loop \in DOMAIN Loops /\ ~loaded
  <2>1. loop \in 1..(Len(Loops) + 1) /\ Len(Loops) \in Nat /\ DOMAIN Loops = 1..Len(Loops)
    BY <1>2, LoopsAre DEF KernelTypeOK
  <2> QED
    BY <1>1, <2>1 DEF KInv
<1>4. KernelTypeOK'
  <2>1. loop' \in 1..(Len(Loops) + 1) /\ (loop' <= Len(Loops) => next' <= Loops[loop'].length)
    <3>1. loop' \in 1..(Len(Loops) + 1)
      BY <1>1, <1>2, <1>3 DEF KernelTypeOK
    <3>2. ASSUME loop' <= Len(Loops) PROVE next' <= Loops[loop'].length
      <4>1. loop' \in DOMAIN Loops
        BY <3>1, <3>2, LoopsAre
      <4>2. Loops[loop'].length \in Nat
        BY <4>1, LoopsAre
      <4> QED
        BY <1>1, <4>2
    <3> QED
      BY <3>1, <3>2
  <2> QED
    BY <1>1, <1>2, <2>1, ConstantLoops DEF KernelTypeOK
<1>5. \A w : Asked(w)' = Asked(w)
  <2> SUFFICES ASSUME NEW w PROVE Asked(w)' = Asked(w)
    OBVIOUS
  <2>1. ASSUME NEW l \in DOMAIN Loops PROVE Mapped(l)' = Mapped(l)
    <3>1. l \in Nat
      BY LoopsAre
    <3>2. Mapped(l)' = IF l < loop + 1 THEN Loops[l].length ELSE 0
      BY <1>1, <1>3, <3>1, ConstantLoops DEF Mapped
    <3>3. CASE l = loop
      BY <1>1, <1>3, <3>2, <3>3 DEF Mapped
    <3>4. CASE l # loop
      BY <1>3, <3>1, <3>2, <3>4 DEF Mapped
    <3> QED
      BY <3>3, <3>4
  <2>2. Covered(w)' = Covered(w)
    BY <2>1, ConstantLoops DEF Covered
  <2>3. Window' = Window
    BY <1>1 DEF Window, heapEnd
  <2> QED
    BY <1>1, <2>2, <2>3 DEF Asked, FrameOf
<1>6. ASSUME HasPage(free)' PROVE Sound'
  <2>1. Sound
    BY <1>1, <1>6, ConstantLoops DEF HasPage, KInv
  <2>2. PICK T : Tree(mem, free, T) /\ Avoids(T, ToSet(heap))
    BY <2>1 DEF Sound
  <2> QED
    BY <1>1, <1>5, <2>1, <2>2, SoundNext DEF Sound
<1>7. TypeOK'
  BY <1>1, <1>2, ConstantLoops DEF TypeOK
<1> QED
  BY <1>1, <1>3, <1>4, <1>6, <1>7 DEF KInv

LEMMA LoadCR3Keeps ==
    ASSUME KInv, LoadCR3
    PROVE  KInv' /\ UNCHANGED mem
<1>1. /\ loop > Len(Loops) /\ ~loaded /\ ~fault /\ loaded' = TRUE
      /\ UNCHANGED <<mem, free, root, fault, loop, next, heapStart, heap, devices, driver>>
  BY DEF LoadCR3, kvars
<1>2. TypeOK /\ KernelTypeOK
  BY DEF KInv
<1>3. KernelTypeOK'
  BY <1>1, <1>2, ConstantLoops DEF KernelTypeOK
<1>4. \A w : Asked(w)' = Asked(w)
  BY <1>1, SameAsked
<1>5. ASSUME HasPage(free)' PROVE Sound'
  <2>1. Sound
    BY <1>1, <1>5, ConstantLoops DEF HasPage, KInv
  <2>2. PICK T : Tree(mem, free, T) /\ Avoids(T, ToSet(heap))
    BY <2>1 DEF Sound
  <2> QED
    BY <1>1, <1>4, <2>1, <2>2, SoundNext DEF Sound
<1>6. TypeOK'
  BY <1>1, <1>2, ConstantLoops DEF TypeOK
<1> QED
  BY <1>1, <1>3, <1>5, <1>6, ConstantLoops DEF KInv


\* MapMemory takes frames from its pool, and memory stays memory.
LEMMA MapFromPool ==
    ASSUME NEW s \in Carried, NEW v \in Nat, NEW p \in Int
    PROVE  MapFrom(s, v, p) \in Carried /\ MapFrom(s, v, p).free \subseteq s.free
<1>1. /\ MapFrom(s, v, p) \in Carried
      /\ MapFrom(s, v, p).free = Fourth(s, v).free
      /\ Fourth(s, v).free \subseteq Third(s, v).free
      /\ Third(s, v).free \subseteq Second(s, v).free
      /\ Second(s, v).free \subseteq s.free
  BY MapFromType
<1> QED
  BY <1>1

LEMMA LoadedMapType ==
    ASSUME TypeOK, ~fault, NEW v \in Nat, NEW p \in Nat, NEW pool \in SUBSET free,
           NEW r, r = MapFrom([Start EXCEPT !.free = pool], v, p),
           mem' = r.mem, free' = r.free, fault' = r.fault, root' = root, loaded' = loaded
    PROVE  TypeOK' /\ free' \subseteq pool
<1>1. PICK s : s = [Start EXCEPT !.free = pool]
  OBVIOUS
<1>2. s \in Carried /\ s.free = pool
  BY <1>1, StartType DEF Carried, TypeOK
<1>3. r = MapFrom(s, v, p) /\ p \in Int
  BY <1>1
<1>4. r \in Carried /\ r.free \subseteq pool
  BY <1>2, <1>3, MapFromPool
<1> QED
  BY <1>4, ConstantLoops DEF TypeOK, Carried, Memories

\* A page mapped once the tables are loaded, with the frames of K spared.
Loads(v, p, pool, K, r) ==
    /\ v \in Nat /\ PDP_i(v) # PDP_i(HigherHalf) /\ p \in Nat
    /\ pool \in SUBSET free /\ ToSet(heap) \subseteq K
    /\ K \subseteq ToSet(heap) \union (free \intersect Ram) /\ K \intersect pool = {}
    /\ loaded /\ ~fault
    /\ r = MapFrom([Start EXCEPT !.free = pool], v, p)
    /\ mem' = r.mem /\ free' = r.free /\ fault' = r.fault /\ root' = root /\ loaded' = loaded

LEMMA LoadedMap ==
    ASSUME KInv, ~Corrupting, ~Corrupting', NEW v, NEW p, NEW pool, NEW K, NEW r,
           Loads(v, p, pool, K, r), HasPage(free')
    PROVE  /\ ~fault' /\ K \intersect free' = {}
           /\ \E T : Tree(mem', free', T) /\ Avoids(T, K)
           /\ v \in Pages => \A w \in Pages : Walk(mem', root', w) = IF w = v THEN p ELSE Walk(mem, root, w)
           /\ \A f \in K : mem'[f] = mem[f]
<1> USE DEF Loads
<1>1. TypeOK /\ KernelTypeOK /\ p \in Int
  BY DEF KInv
<1>2. PICK s : s = [Start EXCEPT !.free = pool]
  OBVIOUS
<1>3. s \in Carried /\ s.mem = mem /\ s.at = root /\ s.free = pool /\ ~s.fault
  BY <1>1, <1>2, StartType DEF Carried, TypeOK
<1>4. r = MapFrom(s, v, p)
  BY <1>2
<1>5. HasPage(r.free) /\ HasPage(free)
  BY <1>1, LoadedMapType DEF HasPage
<1>6. Sound /\ Sighted
  BY <1>5, SoundIsSighted DEF KInv
<1>7. PICK T : Tree(mem, free, T) /\ Avoids(T, ToSet(heap))
  BY <1>6 DEF Sound
<1>8. Tree(mem, pool, T) /\ Avoids(T, K)
  BY <1>7 DEF Tree, Avoids
<1>9. \/ Serves(r, s, v, p, K)
      \/ \E m, pl, U, k, new : Hidden(r.mem, m, pl, U, k, new, v)
  BY <1>1, <1>3, <1>4, <1>5, <1>6, <1>8, MapSeen
<1>10. ASSUME NEW m, NEW pl, NEW U, NEW k, NEW new, Hidden(r.mem, m, pl, U, k, new, v)
       PROVE  FALSE
  BY <1>6, <1>10, HiddenCorrupts
<1>11. Serves(r, s, v, p, K)
  BY <1>9, <1>10
<1>12. K \subseteq Ram
  BY <1>6 DEF Sound
<1> QED
  BY <1>3, <1>11, <1>12 DEF Serves, Untouched

\* A page more for the heap.
LEMMA GrowHeapKeeps ==
    ASSUME KInv, ~Corrupting, ~Corrupting', NEW limit, limit = HeapPages \/ limit = MaxHeapPages,
           GrowHeap(limit)
    PROVE  /\ KInv' /\ free' \subseteq free
           /\ HasPage(free') => \A f \in ToSet(heap) : mem'[f] = mem[f]
<1>1. PICK p : p = RequestPage(free)
  OBVIOUS
<1>2. PICK v : v = heapEnd
  OBVIOUS
<1>3. PICK pool : pool = free \ {p}
  OBVIOUS
<1>4. PICK r : r = MapFrom([Start EXCEPT !.free = pool], v, p)
  OBVIOUS
<1>5. /\ loaded /\ ~fault /\ Len(heap) < limit
      /\ mem' = r.mem /\ free' = r.free /\ fault' = r.fault /\ heap' = Append(heap, p)
      /\ UNCHANGED <<root, loaded, loop, next, heapStart, devices, driver>>
  <2>1. Start.free = free
    BY DEF Start
  <2>2. [Start EXCEPT !.free = @ \ {p}] = [Start EXCEPT !.free = pool]
    BY <1>3, <2>1
  <2> QED
    BY <1>1, <1>2, <1>4, <2>2 DEF GrowHeap, MapFresh, Become
<1>6. TypeOK /\ KernelTypeOK /\ HeapPages \in Nat /\ MaxHeapPages \in Nat /\ HeapPages <= MaxHeapPages
  BY KernelMemoryAssumption DEF KInv
<1>7. heap \in Seq(Nat) /\ Len(heap) \in Nat /\ Len(heap) < MaxHeapPages
  BY <1>5, <1>6 DEF KernelTypeOK
<1>8. v \in Ram /\ p \in Nat /\ v \in Pages /\ v \in Nat /\ PDP_i(v) # PDP_i(HigherHalf)
  <2>1. v \in Ram /\ p \in Nat
    BY <1>1, <1>2, <1>6, <1>7, WindowInRam, RequestPageType DEF TypeOK
  <2> QED
    BY <2>1, RamIsPages, KernelMemoryAssumption
<1>9. heap' \in Seq(Nat) /\ Len(heap') = Len(heap) + 1 /\ DOMAIN heap = 1..Len(heap)
      /\ \A i \in 1..(Len(heap) + 1) : heap'[i] = IF i <= Len(heap) THEN heap[i] ELSE p
  BY <1>5, <1>7, <1>8
<1>10. KernelTypeOK'
  BY <1>5, <1>6, <1>7, <1>9, ConstantLoops DEF KernelTypeOK
<1>11. TypeOK' /\ free' \subseteq pool
  BY <1>3, <1>4, <1>5, <1>6, <1>8, LoadedMapType
<1>12. ASSUME HasPage(free')
       PROVE  Sound' /\ \A f \in ToSet(heap) : mem'[f] = mem[f]
  <2>1. HasPage(free) /\ Sound
    BY <1>3, <1>11, <1>12 DEF HasPage, KInv
  <2>2. p \in free \intersect Ram /\ p \notin ToSet(heap)
    BY <1>1, <1>6, <2>1, RequestPageType DEF TypeOK, Sound
  <2>3. PICK K : K = ToSet(heap) \union {p}
    OBVIOUS
  <2>4. /\ ToSet(heap) \subseteq K /\ K \subseteq ToSet(heap) \union (free \intersect Ram)
        /\ K \intersect pool = {} /\ K \subseteq Ram
    BY <1>3, <2>1, <2>2, <2>3 DEF Sound
  <2>5. /\ ~fault' /\ K \intersect free' = {}
        /\ \E T : Tree(mem', free', T) /\ Avoids(T, K)
        /\ \A w \in Pages : Walk(mem', root', w) = IF w = v THEN p ELSE Walk(mem, root, w)
        /\ \A f \in K : mem'[f] = mem[f]
    <3>1. Loads(v, p, pool, K, r)
      BY <1>3, <1>4, <1>5, <1>8, <2>4 DEF Loads
    <3> QED
      BY <1>8, <1>12, <3>1, LoadedMap
  <2>6. ToSet(heap') = K
    <3>1. DOMAIN heap' = 1..(Len(heap) + 1)
      BY <1>7, <1>9
    <3>2. ASSUME NEW i \in 1..(Len(heap) + 1) PROVE heap'[i] \in K
      BY <1>9, <2>3, <3>2 DEF ToSet
    <3>3. ASSUME NEW i \in DOMAIN heap PROVE heap[i] \in ToSet(heap')
      <4>1. i \in 1..(Len(heap) + 1) /\ i <= Len(heap)
        BY <1>7, <1>9
      <4>2. heap'[i] = heap[i] /\ i \in DOMAIN heap'
        BY <1>9, <3>1, <4>1
      <4> QED
        BY <4>2 DEF ToSet
    <3>4. p \in ToSet(heap')
      <4>1. Len(heap) + 1 \in DOMAIN heap' /\ heap'[Len(heap) + 1] = p
        BY <1>7, <1>9, <3>1
      <4> QED
        BY <4>1 DEF ToSet
    <3> QED
      BY <2>3, <3>1, <3>2, <3>3, <3>4 DEF ToSet
  <2>7. IsInjective(heap')
    <3>1. DOMAIN heap' = 1..(Len(heap) + 1)
      BY <1>7, <1>9
    <3>2. ASSUME NEW i \in DOMAIN heap', NEW j \in DOMAIN heap', heap'[i] = heap'[j] PROVE i = j
      <4>1. i \in 1..(Len(heap) + 1) /\ j \in 1..(Len(heap) + 1)
        BY <3>1
      <4>2. \A k \in 1..(Len(heap) + 1) : k <= Len(heap) => k \in DOMAIN heap /\ heap[k] \in ToSet(heap)
        <5>1. \A k \in DOMAIN heap : heap[k] \in ToSet(heap)
          BY DEF ToSet
        <5>2. \A k \in 1..(Len(heap) + 1) : k <= Len(heap) => k \in 1..Len(heap)
          BY <1>7
        <5> QED
          BY <1>9, <5>1, <5>2
      <4>3. CASE i <= Len(heap) /\ j <= Len(heap)
        BY <1>9, <2>1, <3>2, <4>1, <4>2, <4>3 DEF Sound, IsInjective
      <4>4. CASE ~(i <= Len(heap)) /\ j <= Len(heap)
        BY <1>9, <2>2, <3>2, <4>1, <4>2, <4>4
      <4>5. CASE i <= Len(heap) /\ ~(j <= Len(heap))
        BY <1>9, <2>2, <3>2, <4>1, <4>2, <4>5
      <4>6. CASE ~(i <= Len(heap)) /\ ~(j <= Len(heap))
        BY <1>7, <4>1, <4>6
      <4> QED
        BY <4>3, <4>4, <4>5, <4>6
    <3> QED
      BY <3>2 DEF IsInjective
  <2>8. ASSUME NEW w \in Pages PROVE Walk(mem', root', w) = Asked(w)'
    <3>1. PICK n : n = Len(heap)
      OBVIOUS
    <3>2. heapStart \in Nat /\ n \in Nat /\ v = heapStart + n /\ Len(heap') = n + 1 /\ w \in Nat
      BY <1>2, <1>6, <1>7, <1>9, <3>1, WindowInRam DEF heapEnd, Pages
    <3>3. Window = heapStart..(heapStart + n - 1) /\ Window' = heapStart..(heapStart + (n + 1) - 1)
      BY <1>5, <3>1, <3>2 DEF Window, heapEnd
    <3>4. w \in Window' <=> w \in Window \/ w = v
      BY <3>2, <3>3
    <3>5. Covered(w)' = Covered(w)
      BY <1>5, ConstantLoops DEF Covered, Mapped
    <3>6. Walk(mem, root, w) = Asked(w)
      BY <2>1 DEF Sound
    <3>7. CASE w = v
      <4>1. Asked(w)' = heap'[w - heapStart + 1]
        BY <1>5, <3>4, <3>7 DEF Asked
      <4>2. w - heapStart + 1 = n + 1
        BY <3>2, <3>7
      <4> QED
        BY <1>9, <2>5, <3>1, <3>2, <3>7, <4>1, <4>2
    <3>8. CASE w # v /\ w \in Window
      <4>1. w - heapStart + 1 \in 1..n
        BY <3>2, <3>3, <3>8
      <4>2. heap'[w - heapStart + 1] = heap[w - heapStart + 1]
        BY <1>9, <3>1, <3>2, <4>1
      <4>3. Asked(w)' = heap[w - heapStart + 1] /\ Asked(w) = heap[w - heapStart + 1]
        BY <1>5, <3>4, <3>8, <4>2 DEF Asked
      <4> QED
        BY <2>5, <3>6, <3>8, <4>3
    <3>9. CASE w # v /\ w \notin Window
      <4>1. Asked(w)' = Asked(w)
        BY <1>5, <3>4, <3>5, <3>9 DEF Asked, FrameOf
      <4> QED
        BY <2>5, <3>6, <3>9, <4>1
    <3> QED
      BY <3>7, <3>8, <3>9
  <2>9. PICK T : Tree(mem', free', T) /\ Avoids(T, K)
    BY <2>5
  <2>10. (K \union driver') \intersect free' = {} /\ K \intersect driver' = {}
    BY <1>3, <1>5, <1>11, <2>1, <2>2, <2>3, <2>5 DEF Sound
  <2> QED
    BY <1>5, <2>4, <2>5, <2>6, <2>7, <2>8, <2>9, <2>10, SoundNext
<1>13. HasPage(free)' => Sound'
  BY <1>12, ConstantLoops DEF HasPage
<1> QED
  BY <1>3, <1>5, <1>10, <1>11, <1>12, <1>13, ConstantLoops DEF KInv


\* The registers of a device.
LEMMA MapDeviceKeeps ==
    ASSUME KInv, ~Corrupting, ~Corrupting', NEW v \in DevicePages, MapDevice(v)
    PROVE  /\ KInv' /\ free' \subseteq free
           /\ HasPage(free') => \A f \in ToSet(heap) : mem'[f] = mem[f]
<1>1. PICK pool : pool = free
  OBVIOUS
<1>2. PICK r : r = MapFrom([Start EXCEPT !.free = pool], v, v)
  OBVIOUS
<1>3. TypeOK /\ KernelTypeOK /\ loaded
  BY HeapIsLoaded DEF KInv, MapDevice
<1>4. /\ ~fault /\ mem' = r.mem /\ free' = r.free /\ fault' = r.fault /\ devices' = devices \union {v}
      /\ UNCHANGED <<root, loaded, loop, next, heapStart, heap, driver>>
  <2>1. [Start EXCEPT !.free = pool] = Start
    BY <1>1 DEF Start
  <2> QED
    BY <1>2, <2>1 DEF MapDevice, MapMemory, Become
<1>5. v \in Pages /\ v \in Nat /\ v \notin Window /\ PDP_i(v) # PDP_i(HigherHalf)
  BY <1>3, NoDeviceInWindow, KernelMemoryAssumption DEF Pages
<1>6. KernelTypeOK'
  BY <1>3, <1>4, ConstantLoops DEF KernelTypeOK
<1>7. TypeOK' /\ free' \subseteq pool
  BY <1>1, <1>2, <1>3, <1>4, <1>5, LoadedMapType
<1>8. ASSUME HasPage(free')
      PROVE  Sound' /\ \A f \in ToSet(heap) : mem'[f] = mem[f]
  <2>1. HasPage(free) /\ Sound
    BY <1>1, <1>7, <1>8 DEF HasPage, KInv
  <2>2. PICK K : K = ToSet(heap)
    OBVIOUS
  <2>3. /\ ToSet(heap) \subseteq K /\ K \subseteq ToSet(heap) \union (free \intersect Ram)
        /\ K \intersect pool = {}
    BY <1>1, <2>1, <2>2 DEF Sound
  <2>4. /\ ~fault' /\ K \intersect free' = {}
        /\ \E T : Tree(mem', free', T) /\ Avoids(T, K)
        /\ \A w \in Pages : Walk(mem', root', w) = IF w = v THEN v ELSE Walk(mem, root, w)
        /\ \A f \in K : mem'[f] = mem[f]
    <3>1. Loads(v, v, pool, K, r)
      BY <1>1, <1>2, <1>3, <1>4, <1>5, <2>3 DEF Loads
    <3> QED
      BY <1>5, <1>8, <3>1, LoadedMap
  <2>5. ASSUME NEW w \in Pages PROVE Walk(mem', root', w) = Asked(w)'
    <3>1. Window' = Window
      BY <1>4 DEF Window, heapEnd
    <3>2. Covered(w)' = Covered(w)
      BY <1>4, ConstantLoops DEF Covered, Mapped
    <3>3. Walk(mem, root, w) = Asked(w)
      BY <2>1 DEF Sound
    <3>4. CASE w = v
      <4>1. w \notin Window' /\ w \in devices'
        BY <1>4, <1>5, <3>1, <3>4
      <4>2. Asked(w)' = w
        BY <4>1 DEF Asked
      <4> QED
        BY <2>4, <3>4, <4>2
    <3>5. CASE w # v
      <4>1. w \in devices' <=> w \in devices
        BY <1>4, <3>5
      <4>2. Asked(w)' = Asked(w)
        BY <1>4, <3>1, <3>2, <4>1 DEF Asked, FrameOf
      <4> QED
        BY <2>4, <3>3, <3>5, <4>2
    <3> QED
      BY <3>4, <3>5
  <2>6. PICK T : Tree(mem', free', T) /\ Avoids(T, K)
    BY <2>4
  <2>7. (K \union driver') \intersect free' = {} /\ K \intersect driver' = {}
    BY <1>1, <1>4, <1>7, <2>1, <2>2, <2>4 DEF Sound
  <2>8. heap' = heap /\ IsInjective(heap) /\ ToSet(heap) \subseteq Ram
    BY <1>4, <2>1 DEF Sound
  <2> QED
    BY <1>4, <2>2, <2>4, <2>5, <2>6, <2>7, <2>8, SoundNext
<1>9. HasPage(free)' => Sound'
  BY <1>8, ConstantLoops DEF HasPage
<1> QED
  BY <1>1, <1>3, <1>4, <1>6, <1>7, <1>8, <1>9, ConstantLoops DEF KInv

\* A write to the heap stays in the heap's frames.
LEMMA WriteHeapKeeps ==
    ASSUME KInv, NEW v \in Window, NEW value \in HeapData, WriteHeap(v, value)
    PROVE  KInv' /\ free' = free
<1>1. PICK g : g = Reached(v)
  OBVIOUS
<1>2. PICK n : n = [mem EXCEPT ![g] = [i \in Slots |-> value]]
  OBVIOUS
<1>3. /\ Running /\ g \in Ram /\ mem' = n
      /\ UNCHANGED <<free, root, loaded, fault, loop, next, heapStart, heap, devices, driver>>
  BY <1>1, <1>2 DEF WriteHeap, kvars
<1>4. TypeOK /\ KernelTypeOK /\ loaded /\ value \in Int /\ mem \in Memories
  BY <1>3, HeapIsLoaded, KernelMemoryAssumption DEF KInv, TypeOK, Memories
<1>5. n \in Memories
  <2>1. [i \in Slots |-> value] \in [Slots -> Int]
    BY <1>4
  <2> QED
    BY <1>2, <1>4, <2>1 DEF Memories
<1>6. TypeOK'
  BY <1>3, <1>4, <1>5, ConstantLoops DEF TypeOK, Memories
<1>7. KernelTypeOK'
  BY <1>3, <1>4, ConstantLoops DEF KernelTypeOK
<1>8. ASSUME HasPage(free) PROVE Sound'
  <2>1. Sound /\ Sighted
    BY <1>4, <1>8, SoundIsSighted DEF KInv
  <2>2. g \in ToSet(heap)
    <3>1. v \in Ram /\ g = Walk(mem, root, v)
      BY <1>1, <1>4, WindowInRam DEF Reached, Deref
    <3> QED
      BY <2>1, <3>1, SightedFrames
  <2>3. PICK T : Tree(mem, free, T) /\ Avoids(T, ToSet(heap))
    BY <2>1 DEF Sound
  <2>4. Alike(n, mem, T)
    <3>1. ASSUME NEW j \in 1..4, NEW f \in T[j] PROVE n[f] = mem[f]
      <4>1. f \in Ram /\ f # g
        BY <2>2, <2>3 DEF Tree, Avoids
      <4> QED
        BY <1>2, <1>4, <4>1 DEF Memories
    <3> QED
      BY <3>1 DEF Alike
  <2>5. Tree(n, free, T) /\ SameWalks(n, mem)
    BY <1>4, <2>3, <2>4, OffTree
  <2>6. \A w \in Pages : Walk(mem', root', w) = Asked(w)'
    BY <1>3, <2>1, <2>5, SameAsked DEF Sound, SameWalks
  <2> QED
    BY <1>3, <2>1, <2>3, <2>5, <2>6, SoundNext DEF Sound
<1>9. HasPage(free)' => Sound'
  BY <1>3, <1>8, ConstantLoops DEF HasPage
<1> QED
  BY <1>3, <1>4, <1>6, <1>7, <1>9, ConstantLoops DEF KInv

\* A driver clears the frame it takes, or the heap's in its place.
LEMMA TakeDriverFrameKeeps ==
    ASSUME KInv, TakeDriverFrame
    PROVE  /\ KInv' /\ free' \subseteq free
           /\ HasPage(free') => \/ (free \ free') \intersect Window # {}
                                \/ \A f \in ToSet(heap) : mem'[f] = mem[f]
<1>1. PICK f : f = RequestPage(free)
  OBVIOUS
<1>2. PICK g : g = Reached(f)
  OBVIOUS
<1>3. PICK n : n = IF g \in Ram THEN [mem EXCEPT ![g] = EmptyTable] ELSE mem
  OBVIOUS
<1>4. /\ Running /\ free' = free \ {f} /\ driver' = driver \union {f} /\ mem' = n
      /\ fault' = (IF g \in Ram THEN fault ELSE TRUE)
      /\ UNCHANGED <<root, loaded, loop, next, heapStart, heap, devices>>
  <2>1. CASE g \in Ram
    BY <1>1, <1>2, <1>3, <2>1 DEF TakeDriverFrame
  <2>2. CASE g \notin Ram
    BY <1>1, <1>2, <1>3, <2>2 DEF TakeDriverFrame
  <2> QED
    BY <2>1, <2>2
<1>5. TypeOK /\ KernelTypeOK /\ loaded /\ mem \in Memories /\ free \in SUBSET Nat /\ f \in Nat /\ ~fault
  BY <1>1, <1>4, HeapIsLoaded, RequestPageType DEF KInv, TypeOK, Memories, Running
<1>6. n \in Memories
  BY <1>3, <1>5, ClearedType
<1>7. TypeOK'
  <2>1. fault \in BOOLEAN
    BY <1>5 DEF TypeOK
  <2>2. fault' \in BOOLEAN
    BY <1>4, <2>1
  <2> QED
    BY <1>4, <1>5, <1>6, <2>2, ConstantLoops DEF TypeOK, Memories
<1>8. KernelTypeOK'
  BY <1>4, <1>5, ConstantLoops DEF KernelTypeOK
<1>9. ASSUME HasPage(free')
      PROVE  /\ Sound'
             /\ \/ (free \ free') \intersect Window # {}
                \/ \A h \in ToSet(heap) : mem'[h] = mem[h]
  <2>1. HasPage(free)
    BY <1>4, <1>9 DEF HasPage
  <2>2. Sound /\ Sighted
    BY <1>5, <2>1, SoundIsSighted DEF KInv
  <2>3. f \in free \intersect Ram
    BY <1>1, <1>5, <2>1, RequestPageType
  <2>4. /\ g \in Ram /\ (f \notin Window => g = f) /\ (f \in Window => g \in ToSet(heap))
    <3>1. g = Walk(mem, root, f)
      BY <1>2, <1>5 DEF Reached, Deref
    <3> QED
      BY <2>2, <2>3, <3>1, SightedFrames
  <2>5. PICK T : Tree(mem, free, T) /\ Avoids(T, ToSet(heap))
    BY <2>2 DEF Sound
  <2>6. n = [mem EXCEPT ![g] = EmptyTable] /\ ~fault'
    BY <1>3, <1>4, <1>5, <2>4
  <2>7. Alike(n, mem, T)
    <3>1. ASSUME NEW j \in 1..4, NEW h \in T[j] PROVE n[h] = mem[h]
      <4>1. h \in Ram /\ h # g
        BY <2>3, <2>4, <2>5 DEF Tree, Avoids
      <4> QED
        BY <1>5, <2>6, <4>1 DEF Memories
    <3> QED
      BY <3>1 DEF Alike
  <2>8. Tree(n, free', T) /\ SameWalks(n, mem)
    BY <1>4, <1>5, <2>5, <2>7, OffTree
  <2>9. \A w \in Pages : Walk(mem', root', w) = Asked(w)'
    BY <1>4, <2>2, <2>8, SameAsked DEF Sound, SameWalks
  <2>10. /\ (ToSet(heap) \union driver') \intersect free' = {}
         /\ ToSet(heap) \intersect driver' = {}
    BY <1>4, <2>2, <2>3 DEF Sound
  <2>11. Sound'
    BY <1>4, <2>2, <2>5, <2>6, <2>8, <2>9, <2>10, SoundNext DEF Sound
  <2>12. CASE f \in Window
    BY <1>4, <2>3, <2>11, <2>12
  <2>13. CASE f \notin Window
    <3>1. \A h \in ToSet(heap) : h \in Ram /\ h # g
      BY <2>2, <2>3, <2>4, <2>13 DEF Sound
    <3>2. \A h \in ToSet(heap) : mem'[h] = mem[h]
      BY <1>4, <1>5, <2>6, <3>1 DEF Memories
    <3> QED
      BY <2>11, <3>2
  <2> QED
    BY <2>12, <2>13
<1>10. HasPage(free)' => Sound'
  BY <1>9, ConstantLoops DEF HasPage
<1> QED
  BY <1>4, <1>5, <1>7, <1>8, <1>9, <1>10, ConstantLoops DEF KInv


\* Each frame behind the heap keeps what it holds, unless somebody writes to the
\* heap or a driver takes a frame whose number is in the window.
HeapKept ==
    \/ (free \ free') \intersect Window # {}
    \/ \E v \in Window, value \in HeapData : WriteHeap(v, value)
    \/ \A f \in ToSet(heap) : mem'[f] = mem[f]

LEMMA KernelStep ==
    ASSUME KInv, [KernelNext]_vars, ~Corrupting, ~Corrupting'
    PROVE  KInv' /\ (HasPage(free') => HeapKept)
<1>1. CASE BootMap
  BY <1>1, BootMapKeeps, EmptyHeap DEF HeapKept
<1>2. CASE EndLoop
  BY <1>2, EndLoopKeeps DEF HeapKept
<1>3. CASE LoadCR3
  BY <1>3, LoadCR3Keeps DEF HeapKept
<1>4. CASE InitializeHeap
  BY <1>4, GrowHeapKeeps DEF InitializeHeap, HeapKept
<1>5. CASE ExpandHeap
  BY <1>5, GrowHeapKeeps DEF ExpandHeap, HeapKept
<1>6. ASSUME NEW v \in Window, NEW value \in HeapData, WriteHeap(v, value)
      PROVE  KInv' /\ (HasPage(free') => HeapKept)
  BY <1>6, WriteHeapKeeps DEF HeapKept
<1>7. ASSUME NEW v \in DevicePages, MapDevice(v)
      PROVE  KInv' /\ (HasPage(free') => HeapKept)
  BY <1>7, MapDeviceKeeps DEF HeapKept
<1>8. CASE TakeDriverFrame
  BY <1>8, TakeDriverFrameKeeps DEF HeapKept
<1>9. CASE UNCHANGED vars
  <2>1. /\ UNCHANGED <<mem, free, root, loaded, fault>>
        /\ UNCHANGED <<loop, next, heapStart, heap, devices, driver>>
    BY <1>9 DEF vars, ptvars, kvars
  <2>2. TypeOK /\ KernelTypeOK
    BY DEF KInv
  <2>3. TypeOK' /\ KernelTypeOK'
    BY <2>1, <2>2, ConstantLoops DEF TypeOK, KernelTypeOK
  <2>4. ASSUME HasPage(free)' PROVE Sound'
    <3>1. Sound
      BY <2>1, <2>4, ConstantLoops DEF HasPage, KInv
    <3>2. PICK T : Tree(mem, free, T) /\ Avoids(T, ToSet(heap))
      BY <3>1 DEF Sound
    <3>3. \A w : Asked(w)' = Asked(w)
      BY <2>1, SameAsked
    <3> QED
      BY <2>1, <3>1, <3>2, <3>3, SoundNext DEF Sound
  <2> QED
    BY <2>1, <2>3, <2>4, ConstantLoops DEF KInv, HeapKept
<1> QED
  BY <1>1, <1>2, <1>3, <1>4, <1>5, <1>6, <1>7, <1>8, <1>9 DEF KernelNext

\* Until the heap window lies over a table that is still walked, and while a
\* frame of memory is left, the tables are a tree of frames that are nobody
\* else's and translate every page as asked.
THEOREM KernelInductive == KernelSpec /\ []~Corrupting => []KInv
<1> QED
  BY InitKInv, KernelStep, PTL DEF KernelSpec

LEMMA SuppliedHasPage == Supplied => HasPage(free)
BY FS_EmptySet DEF Supplied, HasPage

LEMMA KInvGivesKernelInv == KInv /\ ~Corrupting => KernelInv
<1> SUFFICES ASSUME KInv, ~Corrupting, Supplied PROVE HeapFramesPrivate /\ ShadowedByHeapOnly
  BY DEF KInv, KernelInv, HeapFramesPrivate, ShadowedByHeapOnly
<1>1. TypeOK /\ KernelTypeOK /\ HasPage(free) /\ Sound
  BY SuppliedHasPage DEF KInv
<1>2. PICK T : Tree(mem, free, T) /\ Avoids(T, ToSet(heap))
  BY <1>1 DEF Sound
<1>3. ASSUME NEW f \in AllTables PROVE f \in Ram /\ f \notin ToSet(heap)
  <2>1. CASE f = root
    <3>1. f \in T[1] /\ 1 \in 1..4
      BY <1>2, <2>1 DEF Tree
    <3> QED
      BY <1>2, <3>1 DEF Tree, Avoids
  <2>2. CASE f \in Tables
    <3>1. PICK l \in Links : mem[l[1]][l[2]] = f
      BY <2>2 DEF Tables
    <3>2. PICK k \in 1..3 : l[1] \in T[k] /\ l[2] \in Slots /\ mem[l[1]][l[2]] # Absent
      BY <1>1, <1>2, LinksOfTree
    <3>3. f \in T[k + 1] /\ k + 1 \in 1..4
      BY <1>2, <3>1, <3>2 DEF Tree
    <3> QED
      BY <1>2, <3>3 DEF Tree, Avoids
  <2> QED
    BY <2>1, <2>2 DEF AllTables
<1>4. HeapFramesPrivate
  BY <1>1, <1>3 DEF HeapFramesPrivate, Sound
<1>5. ASSUME NEW f \in Shadowed PROVE f \in Window
  <2>1. f \in AllTables /\ loaded /\ Walk(mem, root, f) # f
    BY DEF Shadowed
  <2> QED
    BY <1>1, <1>3, <2>1, SoundIsSighted, SightedFrames
<1> QED
  BY <1>4, <1>5 DEF ShadowedByHeapOnly

LEMMA KInvGivesIntendedSpace == KInv => IntendedSpace
<1> SUFFICES ASSUME KInv, Supplied PROVE Translation = Intended
  BY DEF IntendedSpace
<1>1. KernelTypeOK /\ Sound
  BY SuppliedHasPage DEF KInv
<1>2. ASSUME NEW v \in Pages PROVE Translation[v] = Intended[v]
  <2>1. Translation[v] = Walk(mem, root, v)
    BY DEF Translation
  <2> QED
    BY <1>1, <2>1, IntendedIsAsked DEF Sound
<1> QED
  BY <1>2 DEF Translation, Intended

LEMMA KInvGivesFaultExplained == KInv => FaultExplained
BY SuppliedHasPage DEF KInv, Sound, FaultExplained

\* Heap growth, device registers and driver frames in any order leave the frames of
\* the heap the heap's alone, and no table is out of reach but behind the window.
THEOREM HeapFramesAreTheHeaps == KernelSpec /\ []~Corrupting => []KernelInv
<1>1. KInv /\ ~Corrupting => KernelInv
  BY KInvGivesKernelInv
<1> QED
  BY <1>1, KernelInductive, PTL

\* The processor translates every page as the calls of MapMemory asked.
THEOREM TranslatesAsAsked == KernelSpec /\ []~Corrupting => []IntendedSpace
<1>1. KInv => IntendedSpace
  BY KInvGivesIntendedSpace
<1> QED
  BY <1>1, KernelInductive, PTL

\* The walk never leaves memory while there are frames.
THEOREM FaultsAreExplained == KernelSpec /\ []~Corrupting => []FaultExplained
<1>1. KInv => FaultExplained
  BY KInvGivesFaultExplained
<1> QED
  BY <1>1, KernelInductive, PTL

\* What the heap holds is changed by writes to the heap, or by a driver that
\* clears a frame whose number lies in the window, and by nothing else.
THEOREM HeapKeepsItsContents ==
    KernelSpec /\ []~Corrupting /\ []FramesLeft => HeapContentsStable
<1>1. ASSUME KInv, [KernelNext]_vars, ~Corrupting, ~Corrupting', FramesLeft'
      PROVE  [HeapKept]_vars
  <2>1. HasPage(free')
    BY <1>1, ConstantLoops DEF FramesLeft, HasPage
  <2> QED
    BY <1>1, <2>1, KernelStep
<1>2. KernelSpec /\ []~Corrupting /\ []FramesLeft => [][HeapKept]_vars
  BY <1>1, KernelInductive, PTL DEF KernelSpec
<1>3. [HeapKept]_vars =>
          [\/ ~Supplied \/ Corrupting
           \/ (free \ free') \intersect Window # {}
           \/ \E v \in Window, value \in HeapData : WriteHeap(v, value)
           \/ \A f \in ToSet(heap) : mem'[f] = mem[f]]_vars
  BY DEF HeapKept
<1> QED
  BY <1>2, <1>3, PTL DEF HeapContentsStable
=============================================================================
