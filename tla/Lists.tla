------------------------------- MODULE Lists -------------------------------
(***************************************************************************)
(* The doubly linked lists of klib/list.cpp, pointer by pointer.           *)
(*                                                                         *)
(* A list is its header (head, tail, length) and the nodes its pointers    *)
(* lead to.  A node, like a value, is named by the number of the block it  *)
(* lies in; 0 is the null pointer.  The operations that allocate are given *)
(* the block malloc answered with.                                         *)
(***************************************************************************)
EXTENDS Integers, FiniteSets, SequencesExt

NIL == 0

list_create == [head |-> NIL, tail |-> NIL, length |-> 0, node |-> <<>>]

\* f with v at x
Put(f, x, v) == [y \in DOMAIN f \union {x} |-> IF y = x THEN v ELSE f[y]]

list_append(l, n) ==
    LET linked == IF l.tail = NIL THEN [l EXCEPT !.head = n]
                  ELSE [l EXCEPT !.node[l.tail].next = n, !.node[n].prev = l.tail]
    IN [linked EXCEPT !.node[n].next = NIL, !.tail = n, !.length = @ + 1]

list_insert(l, n, item) ==
    list_append([l EXCEPT !.node = Put(@, n, [value |-> item, next |-> NIL, prev |-> NIL])], n)

\* The node is unlinked, and still points to its neighbours.
list_delete(l, n) ==
    LET before == l.node[n].prev
        after  == l.node[n].next
    IN [l EXCEPT !.head = IF @ = n THEN after ELSE @,
                 !.tail = IF @ = n THEN before ELSE @,
                 !.length = @ - 1,
                 !.node = [m \in DOMAIN @ |->
                              CASE m = before -> [@[m] EXCEPT !.next = after]
                                [] m = after  -> [@[m] EXCEPT !.prev = before]
                                [] OTHER      -> @[m]]]

\* list_pop and list_dequeue answer with the node they have unlinked, which is the
\* tail or the head of the list as it was.
list_pop(l)     == IF l.tail = NIL THEN l ELSE list_delete(l, l.tail)
list_dequeue(l) == IF l.head = NIL THEN l ELSE list_delete(l, l.head)

\* The nodes from start on, each leading to the next, in as many steps as there are nodes.
Follow(start, succ) ==
    LET steps[k \in 0..Cardinality(DOMAIN succ)] ==
            IF k = 0 THEN <<>>
            ELSE LET n == IF steps[k - 1] = <<>> THEN start ELSE succ[Last(steps[k - 1])]
                 IN IF n = NIL THEN steps[k - 1] ELSE Append(steps[k - 1], n)
    IN steps[Cardinality(DOMAIN succ)]

\* "foreach": the nodes from the head on.
foreach(l) == Follow(l.head, [n \in DOMAIN l.node |-> l.node[n].next])

\* What list_destroy and list_free give back.
list_destroy(l) == {l.node[n].value : n \in ToSet(foreach(l))}
list_free(l)    == ToSet(foreach(l))

\* The first node with that value
list_find(l, item) ==
    LET found == {i \in DOMAIN foreach(l) : l.node[foreach(l)[i]].value = item}
    IN IF found = {} THEN NIL ELSE foreach(l)[CHOOSE i \in found : \A j \in found : i <= j]

\* list_remove, but for an index that is the length: then the null pointer is unlinked.
list_remove(l, index) == IF index > l.length THEN l ELSE list_delete(l, foreach(l)[index + 1])

\* The nodes of source go to the end of target; the first of them is not made to
\* point back.
list_merge(target, source) ==
    LET nodes == [n \in DOMAIN target.node \union DOMAIN source.node |->
                     IF n \in DOMAIN target.node THEN target.node[n] ELSE source.node[n]]
    IN [head   |-> IF target.tail # NIL THEN target.head ELSE source.head,
        tail   |-> IF source.tail # NIL THEN source.tail ELSE target.tail,
        length |-> target.length + source.length,
        node   |-> IF target.tail # NIL THEN [nodes EXCEPT ![target.tail].next = source.head]
                   ELSE nodes]
-----------------------------------------------------------------------------
(* What the pointers are to say *)

\* The nodes from the tail back.
Backwards(l) == Follow(l.tail, [n \in DOMAIN l.node |-> l.node[n].prev])

Values(l) == [i \in DOMAIN foreach(l) |-> l.node[foreach(l)[i]].value]

\* From the head on a walk meets each of its nodes once and then ends; the length
\* counts them.
ForwardSound(l) ==
    /\ Len(foreach(l)) = l.length /\ IsInjective(foreach(l))
    /\ l.length > 0 => l.node[Last(foreach(l))].next = NIL /\ l.tail = Last(foreach(l))

\* So does a walk from the tail back, the other way round.
ListSound(l) ==
    /\ ForwardSound(l) /\ Backwards(l) = Reverse(foreach(l))
    /\ l.length > 0 => l.node[l.head].prev = NIL

\* In a sound list, taking out any node leaves a sound list without its value, a
\* value is found where it stands first, and a merged list has the values of both
\* from the head on.
OperationsSound(l, other) ==
    /\ \A i \in 1..l.length :
           LET without == list_remove(l, i - 1) IN
           /\ ListSound(without) /\ Values(without) = RemoveAt(Values(l), i)
           /\ list_find(l, Values(l)[i]) = foreach(l)[i]
    /\ ListSound(list_dequeue(l))
    /\ LET both == list_merge(l, other) IN
       ForwardSound(both) /\ Values(both) = Values(l) \o Values(other)
=============================================================================
