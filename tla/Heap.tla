-------------------------------- MODULE Heap --------------------------------
(***************************************************************************)
(* The kernel heap (memory/heap.cpp): segments, each a header and a        *)
(* payload, in a list that starts at heapStart; first fit, splitting, and  *)
(* merging with the neighbours of the list.                                *)
(*                                                                         *)
(* seg maps the address of every header that is still intact to what it    *)
(* holds.  A header absorbed by a merge stays readable until another is    *)
(* written over it or it lies in a block whose owner writes there; the     *)
(* code may follow a pointer to it, so the model keeps it as long.         *)
(* Following a pointer to a header that is gone sets corrupt, and the      *)
(* model stops there, as it does when the list no longer tiles the heap.   *)
(* The frames under the heap are those of KernelMemory; here they never    *)
(* run out.                                                                *)
(***************************************************************************)
EXTENDS Integers, FiniteSets, Functions

CONSTANTS
    heapStart,     \* address of the first header, not 0, the null pointer
    InitialPages,  \* pages given to initializeHeap
    MaxPages,      \* bound: pages the heap may have
    PageSize,      \* 0x1000
    HeaderSize,    \* sizeof(HeapSegHdr)
    Grain,         \* 0x10
    Sizes          \* bound: sizes asked for

ASSUME HeapAssumption ==
    /\ heapStart \in Nat \ {0} /\ InitialPages \in Nat \ {0}
    /\ MaxPages \in Nat /\ MaxPages >= InitialPages
    /\ PageSize \in Nat \ {0} /\ HeaderSize \in Nat \ {0} /\ Grain \in Nat \ {0}
    /\ HeaderSize < PageSize /\ PageSize % Grain = 0 /\ HeaderSize % Grain = 0
    /\ Sizes \subseteq Nat

VARIABLES
    seg, heapEnd, LastHdr,
    pending,   \* size a malloc under way looks for, 0 outside of malloc
    origin,    \* payload a realloc under way will free, 0 if none
    live,      \* payloads handed out: [start, size]
    corrupt,   \* a pointer to a header that is gone was followed
    misled     \* history: a block was freed whose back pointer led into itself

vars == <<seg, heapEnd, LastHdr, pending, origin, live, corrupt, misled>>

heap == [seg |-> seg, last |-> LastHdr, corrupt |-> corrupt]

\* The headers some pointer leads to: from the first one, from LastHdr and from
\* the blocks handed out.
Reached(h) ==
    LET roots == {heapStart, h.last} \union {a \in DOMAIN h.seg : ~h.seg[a].free}
        reach[n \in 0..Cardinality(DOMAIN h.seg)] ==
            IF n = 0 THEN roots \intersect DOMAIN h.seg
            ELSE LET known == reach[n - 1]
                 IN known \union (DOMAIN h.seg \intersect
                        UNION {{h.seg[a].next, h.seg[a].last} : a \in known})
    IN reach[Cardinality(DOMAIN h.seg)]

\* What becomes of the heap; a header nothing leads to any more is forgotten.
Become(h) == /\ seg' = Restrict(h.seg, Reached(h))
             /\ LastHdr' = h.last /\ corrupt' = h.corrupt

Header(length, next, last, free) ==
    [length |-> length, next |-> next, last |-> last, free |-> free]

Intact(h, a) == a \in DOMAIN h.seg

Wild(h) == [h EXCEPT !.corrupt = TRUE]

Apart(b, c) == b.start + b.size <= c.start \/ c.start + c.size <= b.start

-----------------------------------------------------------------------------
\* The list, as malloc walks it: the n-th header, and its length in headers.
Nth == LET at[n \in 0..Cardinality(DOMAIN seg)] ==
               IF n = 0 THEN heapStart
               ELSE IF at[n - 1] \in DOMAIN seg THEN seg[at[n - 1]].next ELSE 0
       IN at

\* The headers of the list.
Listed == Range(Nth) \ {0}

SegmentEnd(a) == a + HeaderSize + seg[a].length

\* The list tiles the heap: every segment is followed by the next one or ends
\* the heap, the next one knows it, and two free ones are never neighbours.
Tiling ==
    \A a \in Listed :
        /\ a \in DOMAIN seg
        /\ IF seg[a].next = 0 THEN SegmentEnd(a) = heapEnd
           ELSE /\ seg[a].next = SegmentEnd(a)
                /\ seg[seg[a].next].last = a
                /\ ~(seg[a].free /\ seg[seg[a].next].free)

\* Bound: the heap is followed as long as its list tiles it.  A growth may cut
\* segments off the list; what the code does then depends on what the owners of
\* overlapping blocks store in them.
Sound == ~corrupt /\ Tiling

Round(size) == IF size % Grain = 0 THEN size ELSE size - (size % Grain) + Grain

\* Mutant of CombineForward: the header itself is not counted.
CombineForwardNoHeader(h, s) ==
    LET n == h.seg[s].next IN
    IF n = 0 THEN h
    ELSE IF ~Intact(h, n) THEN Wild(h)
    ELSE IF ~h.seg[n].free THEN h
    ELSE LET nn == h.seg[n].next
             joined == [h.seg EXCEPT ![s].length = @ + h.seg[n].length, ![s].next = nn]
         IN IF nn = 0 THEN [h EXCEPT !.seg = joined]
            ELSE IF ~Intact(h, nn) THEN Wild(h)
            ELSE [h EXCEPT !.seg = [joined EXCEPT ![nn].last = s]]

\* Absorb the next segment if it is free.  "LastHdr == this" compares and
\* assigns nothing, so LastHdr may go on naming the absorbed header.
CombineForward(h, s) ==
    LET n == h.seg[s].next IN
    IF n = 0 THEN h
    ELSE IF ~Intact(h, n) THEN Wild(h)
    ELSE IF ~h.seg[n].free THEN h
    ELSE LET nn == h.seg[n].next
             joined == [h.seg EXCEPT ![s].length = @ + h.seg[n].length + HeaderSize,
                                     ![s].next = nn]
         IN IF nn = 0 THEN [h EXCEPT !.seg = joined]
            ELSE IF ~Intact(h, nn) THEN Wild(h)
            ELSE [h EXCEPT !.seg = [joined EXCEPT ![nn].last = s]]

CombineBackward(h, s) ==
    LET l == h.seg[s].last IN
    IF l = 0 THEN h
    ELSE IF ~Intact(h, l) THEN Wild(h)
    ELSE IF h.seg[l].free THEN CombineForward(h, l) ELSE h

\* The headers that writing one at new leaves intact.
Cleared(h, new) == {a \in DOMAIN h.seg : a + HeaderSize <= new \/ new + HeaderSize <= a}

\* Mutant of Split: the new header lies on the end of the payload.
SplitNoHeader(h, s, size) ==
    LET rest == h.seg[s].length - size - HeaderSize
        new  == s + size
        old  == h.seg[s]
    IN IF rest < Grain THEN h
       ELSE IF old.next # 0 /\ ~Intact(h, old.next) THEN Wild(h)
       ELSE [h EXCEPT !.seg =
               [a \in Cleared(h, new) \union {new} |->
                  IF a = new THEN Header(rest, old.next, s, old.free)
                  ELSE IF a = s THEN [old EXCEPT !.length = size, !.next = new,
                                                 !.last = IF h.last = s THEN new ELSE @]
                  ELSE IF a = old.next THEN [h.seg[a] EXCEPT !.last = new]
                  ELSE h.seg[a]]]

\* Cut a free segment in two, unless too little would remain.  Without a next
\* segment the code writes the back pointer to address 0x10, outside of the
\* heap; where LastHdr should move on to the new segment, the back pointer of
\* the old one does.
Split(h, s, size) ==
    LET rest == h.seg[s].length - size - HeaderSize
        new  == s + size + HeaderSize
        old  == h.seg[s]
    IN IF rest < Grain THEN h
       ELSE IF old.next # 0 /\ ~Intact(h, old.next) THEN Wild(h)
       ELSE [h EXCEPT !.seg =
               [a \in Cleared(h, new) \union {new} |->
                  IF a = new THEN Header(rest, old.next, s, old.free)
                  ELSE IF a = s THEN [old EXCEPT !.length = size, !.next = new,
                                                 !.last = IF h.last = s THEN new ELSE @]
                  ELSE IF a = old.next THEN [h.seg[a] EXCEPT !.last = new]
                  ELSE h.seg[a]]]

\* The back pointer of the block leads into the block itself: the segment was
\* split while LastHdr named it, and later handed out whole.
Misleads(payload) ==
    LET s == payload - HeaderSize
    IN s \in DOMAIN seg /\ seg[s].last \in payload..(SegmentEnd(s) - 1)
-----------------------------------------------------------------------------
Init == /\ heapEnd = heapStart + InitialPages * PageSize
        /\ LastHdr = heapStart
        /\ seg = [a \in {heapStart} |-> Header(InitialPages * PageSize - HeaderSize, 0, 0, TRUE)]
        /\ pending = 0 /\ origin = 0 /\ live = {} /\ corrupt = FALSE /\ misled = FALSE

\* malloc and calloc, which differ in how the size is given; a rounded size
\* of 0 is answered with the null pointer.
malloc(size) == /\ Sound /\ pending = 0 /\ origin = 0 /\ Round(size) > 0
                /\ pending' = Round(size)
                /\ UNCHANGED <<seg, heapEnd, LastHdr, origin, live, corrupt, misled>>

\* The n-th segment takes the size looked for.
Fits(n) == /\ Nth[n] \in DOMAIN seg /\ seg[Nth[n]].free
           /\ seg[Nth[n]].length >= pending

free(h, payload) ==
    LET s == payload - HeaderSize IN
    IF ~Intact(h, s) THEN Wild(h)
    ELSE LET f == CombineForward([h EXCEPT !.seg = [@ EXCEPT ![s].free = TRUE]], s)
         IN IF f.corrupt THEN f ELSE CombineBackward(f, s)

\* First fit.
Allocate ==
    /\ Sound /\ pending > 0
    /\ \E n \in DOMAIN Nth :
         /\ Fits(n) /\ \A m \in 0..(n - 1) : ~Fits(m)
         /\ LET s == Nth[n]
                h == Split(heap, s, pending)
            IN /\ Become(IF h.corrupt THEN h ELSE [h EXCEPT !.seg = [@ EXCEPT ![s].free = FALSE]])
               /\ live' = live \union {[start |-> s + HeaderSize, size |-> pending]}
    /\ pending' = 0
    /\ UNCHANGED <<heapEnd, origin, misled>>

\* The owner of a block writes to it, over a header that still lies there.
Write == /\ Sound /\ pending = 0
         /\ \E b \in live : \E a \in DOMAIN seg :
              /\ a < b.start + b.size /\ b.start < a + HeaderSize
              /\ Become([heap EXCEPT !.seg = Restrict(@, DOMAIN @ \ {a})])
         /\ UNCHANGED <<heapEnd, pending, origin, live, misled>>

\* A header at the end of the heap.
Added(segments, header) ==
    [a \in DOMAIN segments \union {heapEnd} |-> IF a = heapEnd THEN header ELSE segments[a]]

\* Mutant of Grow: the new segment does not become the next of the last one.
GrowUnlinked(size) ==
    CombineBackward([heap EXCEPT
        !.seg = Added(@, Header(size - HeaderSize, 0, LastHdr, TRUE)),
        !.last = heapEnd], heapEnd)

\* A new segment of size at the end, behind LastHdr.
Grow(size) ==
    IF ~Intact(heap, LastHdr) THEN Wild(heap)
    ELSE CombineBackward([heap EXCEPT
             !.seg = Added([@ EXCEPT ![LastHdr].next = heapEnd],
                           Header(size - HeaderSize, 0, LastHdr, TRUE)),
             !.last = heapEnd], heapEnd)

\* The list ends without a fit: malloc lets the heap grow and starts over.  A
\* size that is no multiple of a page grows it by one page, however large.
ExpandHeap ==
    /\ Sound /\ pending > 0 /\ \A n \in DOMAIN Nth : ~Fits(n)
    /\ LET size == IF pending % PageSize = 0 THEN pending ELSE PageSize
       IN /\ heapEnd + size <= heapStart + MaxPages * PageSize
          /\ heapEnd' = heapEnd + size
          /\ Become(Grow(size))
    /\ UNCHANGED <<pending, origin, live, misled>>

Release(b) == /\ Become(free(heap, b.start))
              /\ live' = live \ {b}
              /\ misled' = (misled \/ Misleads(b.start))

Free == /\ Sound /\ pending = 0 /\ origin = 0
        /\ \E b \in live : Release(b)
        /\ UNCHANGED <<heapEnd, pending, origin>>

\* realloc takes the payload for a header: whatever byte lies where the flag
\* would be decides whether it gets a new block or the null pointer.
realloc(size) == /\ Sound /\ pending = 0 /\ origin = 0 /\ Round(size) > 0
                 /\ \E b \in live : origin' = b.start
                 /\ pending' = Round(size)
                 /\ UNCHANGED <<seg, heapEnd, LastHdr, live, corrupt, misled>>

\* It has the new block, has copied into it, and frees the old one.
FreeOrigin == /\ Sound /\ pending = 0 /\ origin > 0
              /\ \E b \in live : b.start = origin /\ Release(b)
              /\ origin' = 0
              /\ UNCHANGED <<heapEnd, pending>>

Next == \/ \E size \in Sizes : malloc(size) \/ realloc(size)
        \/ Allocate \/ ExpandHeap \/ Write \/ Free \/ FreeOrigin

Spec == Init /\ [][Next]_vars
-----------------------------------------------------------------------------
(* Properties *)

Addresses == 0..(heapStart + MaxPages * PageSize)

Headers == [length : Addresses, next : Addresses, last : Addresses, free : BOOLEAN]

\* Every variable has its type: no segment ever has a length below zero or above
\* the heap, however it was split.
TypeOK == /\ DOMAIN seg \subseteq Addresses \ {0}
          /\ \A a \in DOMAIN seg : seg[a] \in Headers
          /\ heapEnd \in Addresses /\ LastHdr \in Addresses
          /\ pending \in Nat /\ origin \in Addresses /\ corrupt \in BOOLEAN /\ misled \in BOOLEAN
          /\ live \subseteq [start : Addresses, size : Nat \ {0}]

Unexpanded == heapEnd = heapStart + InitialPages * PageSize

\* Until the heap first grows or a block is freed whose back pointer leads into
\* itself, no pointer leads to what is no header, the list tiles the heap, and the
\* blocks handed out are the payloads of the segments that are not free: none is
\* lost, none is shared by two callers.
Tiled ==
    Unexpanded /\ ~misled =>
        /\ Sound
        /\ {a + HeaderSize : a \in {s \in Listed : ~seg[s].free}} = {b.start : b \in live}
        /\ \A b, c \in live : b.start = c.start => b = c

\* As long, a block handed out lies in one payload, which no other block and no
\* header of the list touches.
BlocksDisjoint ==
    Unexpanded /\ ~misled =>
        \A b \in live :
            /\ b.start % Grain = heapStart % Grain
            /\ b.start + b.size <= heapEnd
            /\ \A c \in live \ {b} : Apart(b, c)
            /\ \A a \in Listed : Apart(b, [start |-> a, size |-> HeaderSize])

\* The list of segments is the heap.
HeapInv == TypeOK /\ Tiled /\ BlocksDisjoint

\* As long, giving everything back leaves one free segment.
AllComesBack ==
    Unexpanded /\ ~misled /\ live = {} =>
        seg[heapStart] = [seg[heapStart] EXCEPT !.free = TRUE, !.next = 0,
                             !.length = InitialPages * PageSize - HeaderSize]

\* A heap that grows while LastHdr really is its last segment stays tiled, and
\* what malloc grew it for is found at once, if it fits into a page.
GrowthAppends ==
    [][(/\ heapEnd' # heapEnd /\ Tiling
        /\ LastHdr \in Listed /\ seg[LastHdr].next = 0)
       => /\ Tiling'
          /\ pending <= PageSize - HeaderSize => (\E n \in DOMAIN Nth : Fits(n))']_vars
=============================================================================
