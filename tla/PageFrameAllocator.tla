------------------------- MODULE PageFrameAllocator -------------------------
(***************************************************************************)
(* The physical page frame allocator (memory/pageFrameAllocator.cpp) with  *)
(* the bitmap it keeps (memory/bitmap.cpp).                                *)
(*                                                                         *)
(* A frame is named by its index, Address / 4096.  The bitmap is the set   *)
(* of indices whose bit is 1.  The three byte counters are kept in pages   *)
(* and as integers: the code adds and subtracts 4096 only and branches on  *)
(* none of them, so a uint64_t holds 4096 times the value modulo 2^64.     *)
(***************************************************************************)
EXTENDS Integers, Sequences, FiniteSets

CONSTANTS
    MemMap,        \* the bootloader's memory map: [base, length, type], bytes
    AddressLimit,  \* every entry lies below this address
    PageBytes,     \* 4096
    LowFrames,     \* 0x100: frames reserved unconditionally from address 0
    IntPages,      \* 2^19: the first t for which the int t * 4096 overflows
    IntWraps,      \* whether the build lets that int wrap (undefined in C++)
    LockRanges,    \* [first, count] of the LockPages calls callers make
    MaxRun         \* bound: most pages one RequestPages or FreePages takes

EntryTypes == {"USABLE", "BOOTLOADER_RECLAIMABLE", "RESERVED",
               "KERNEL_AND_MODULES", "OTHER"}

\* Entries lie in a bounded physical address space.
ASSUME MemMapAssumption ==
    /\ AddressLimit \in Nat
    /\ MemMap \in Seq([base : 0..AddressLimit, length : 0..AddressLimit,
                       type : EntryTypes])

\* The boot protocol aligns the entries the kernel may use to pages; those
\* of the other types start and end where the firmware says.
ASSUME UsableAligned ==
    \A i \in DOMAIN MemMap :
        MemMap[i].type \in {"USABLE", "BOOTLOADER_RECLAIMABLE"} =>
            MemMap[i].base % PageBytes = 0

ASSUME ParameterAssumption ==
    /\ PageBytes \in Nat \ {0}
    /\ LowFrames \in Nat \ {0}
    /\ IntPages \in Nat \ {0}
    /\ IntWraps \in BOOLEAN
    /\ LockRanges \subseteq [first : Nat, count : Nat]
    /\ MaxRun \in 0..IntPages

VARIABLES
    Initialized,
    locked,           \* indices whose bit in PageBitmap is 1
    FreeMemory, UsedMemory, ReservedMemory,
    PageBitmapIndex,  \* where a search starts: 0, since it is only ever lowered
    stray,            \* bit found set in the byte after the bitmap
    held,             \* frames callers got from RequestPage(s), not yet freed
    result            \* what the last request returned

counters == <<FreeMemory, UsedMemory, ReservedMemory>>
vars == <<Initialized, locked, FreeMemory, UsedMemory, ReservedMemory,
          PageBitmapIndex, stray, held, result>>
-----------------------------------------------------------------------------
\* GetAllFreeMemory: the lengths of ALL entries added up, as the number of
\* (entry, byte) pairs.
MemorySize == Cardinality({p \in (DOMAIN MemMap) \X (1..AddressLimit) :
                              p[2] <= MemMap[p[1]].length})

MemoryFrames == MemorySize \div PageBytes

\* PageBitmap.Size in bytes, and the number of bits in it.
Size == MemoryFrames \div 8 + 1
Bits == Size * 8

\* Get and Set refuse an index only if index > Size * 8: index Bits passes,
\* and names the first bit of the byte after the bitmap.
Indices == 0..Bits

\* NULL is address 0, which is also the address of frame 0.
NULL == 0

\* (uint64_t)(t * 4096) in frames: t, unless the int overflows and wraps.
\* A negative offset is kept negative; added to an address it leaves
\* Indices exactly when the 64-bit sum does.
Offset(t) == IF IntWraps /\ t >= IntPages
             THEN ((t + IntPages) % (2 * IntPages)) - IntPages
             ELSE t

\* The bits the loop "for t < PageCount: Op(Address + t * 4096)" reaches.
Span(first, count) ==
    {i \in Indices : \E t \in 0..(count - 1) : i = first + Offset(t)}

\* Mutant of ReservedFrames: the count without "+ 1".
ReservedFramesShort ==
    Span(0, LowFrames)
        \union UNION {Span(MemMap[i].base \div PageBytes,
                           MemMap[i].length \div PageBytes) :
                      i \in {j \in DOMAIN MemMap : MemMap[j].type = "RESERVED"}}

ReservedFrames ==
    Span(0, LowFrames)
        \union UNION {Span(MemMap[i].base \div PageBytes,
                           MemMap[i].length \div PageBytes + 1) :
                      i \in {j \in DOMAIN MemMap : MemMap[j].type = "RESERVED"}}

\* The first of the longest usable entries holds the bitmap.
Usable == {i \in DOMAIN MemMap :
              /\ MemMap[i].type \in {"USABLE", "BOOTLOADER_RECLAIMABLE"}
              /\ MemMap[i].length > 0}

IsLargest(i) == \A j \in Usable : \/ MemMap[j].length < MemMap[i].length
                                  \/ MemMap[j].length = MemMap[i].length /\ i <= j

Buffer == IF Usable = {} THEN 0
          ELSE MemMap[CHOOSE i \in Usable : IsLargest(i)].base

BitmapFrames == Span(Buffer \div PageBytes, Size \div PageBytes + 1)

\* Frames no request may ever be answered with.
Pinned == ReservedFrames \union BitmapFrames
-----------------------------------------------------------------------------
Init == /\ Initialized = FALSE
        /\ stray \in SUBSET {Bits}
        /\ locked = stray
        /\ FreeMemory = 0 /\ UsedMemory = 0 /\ ReservedMemory = 0
        /\ PageBitmapIndex = 0
        /\ held = {}
        /\ result = NULL

\* Mutant of Lock: Set without its bound on the index.
LockUnchecked(S) == /\ locked' = locked \union S
                    /\ FreeMemory' = FreeMemory - Cardinality(S \ locked)
                    /\ UsedMemory' = UsedMemory + Cardinality(S \ locked)
                    /\ UNCHANGED ReservedMemory

\* Mutant of Lock: the loop forgets to add t * 4096 to the address.
LockFirstOnly(S) ==
    LET new == {i \in S \intersect Indices : \A j \in S : i <= j} \ locked
    IN /\ locked' = locked \union new
       /\ FreeMemory' = FreeMemory - Cardinality(new)
       /\ UsedMemory' = UsedMemory + Cardinality(new)
       /\ UNCHANGED ReservedMemory

\* Every bit an operation sets moves a page from FreeMemory to UsedMemory;
\* a bit that is set already is left alone and not counted.
Lock(S) == LET new == (S \intersect Indices) \ locked
           IN /\ locked' = locked \union new
              /\ FreeMemory' = FreeMemory - Cardinality(new)
              /\ UsedMemory' = UsedMemory + Cardinality(new)
              /\ UNCHANGED ReservedMemory

\* Mutant of Unlock: counts a page for every bit asked for, cleared or not.
UnlockUncounted(S) ==
    LET cleared == S \intersect locked
    IN /\ locked' = locked \ cleared
       /\ FreeMemory' = FreeMemory + Cardinality(S)
       /\ UsedMemory' = UsedMemory - Cardinality(S)
       /\ UNCHANGED ReservedMemory

Unlock(S) == LET cleared == S \intersect locked
             IN /\ locked' = locked \ cleared
                /\ FreeMemory' = FreeMemory + Cardinality(cleared)
                /\ UsedMemory' = UsedMemory - Cardinality(cleared)
                /\ UNCHANGED ReservedMemory

\* ReadMemoryMap: a second call returns at once, so it happens once.  The
\* bytes of the bitmap are zeroed; the byte after it keeps what it held.
ReadMemoryMap ==
    /\ ~Initialized
    /\ Initialized' = TRUE
    /\ LET reserved == ReservedFrames \ stray
           bitmap == BitmapFrames \ (ReservedFrames \union stray)
       IN /\ locked' = stray \union reserved \union bitmap
          /\ FreeMemory' = MemoryFrames - Cardinality(reserved) - Cardinality(bitmap)
          /\ UsedMemory' = UsedMemory + Cardinality(bitmap)
          /\ ReservedMemory' = ReservedMemory + Cardinality(reserved)
    /\ UNCHANGED <<PageBitmapIndex, stray, held, result>>

Lowest(S) == CHOOSE i \in S : \A j \in S : i <= j

\* Mutant of SearchStart: resume behind the last answer, never below it.
SearchStartNextFit == result

\* Both requests first look for a free frame below the hint.
SearchStart ==
    LET below == {i \in 0..(PageBitmapIndex - 1) : i \notin locked}
    IN IF below = {} THEN PageBitmapIndex ELSE Lowest(below)

RequestPage ==
    /\ Initialized
    /\ PageBitmapIndex' = SearchStart
    /\ \/ \E x \in SearchStart..(Bits - 1) :
             /\ x \notin locked
             /\ \A y \in SearchStart..(x - 1) : y \in locked
             /\ Lock({x})
             /\ held' = held \union {x}
             /\ result' = x
       \/ /\ \A x \in SearchStart..(Bits - 1) : x \in locked
          /\ result' = NULL
          /\ UNCHANGED <<locked, counters, held>>
    /\ UNCHANGED <<Initialized, stray>>

\* The bits from x on that RequestPages(amount) tests before it takes them;
\* Get answers false for those past Indices.
Run(x, amount) == x..(x + amount - 1)

\* The search of RequestPages, Bits if it finds nothing: a run that is not
\* free is skipped with "x += amount", and the loop header adds one more.
FirstRun(taken, bits, start, amount) ==
    LET from[x \in Nat] ==
            IF x >= bits THEN bits
            ELSE IF x \in taken THEN from[x + 1]
            ELSE IF Run(x, amount) \intersect taken = {} THEN x
            ELSE from[x + amount + 1]
    IN from[start]

RequestPages(amount) ==
    /\ Initialized
    /\ PageBitmapIndex' = SearchStart
    /\ \/ \E x \in SearchStart..(Bits - 1) :
             /\ x = FirstRun(locked, Bits, SearchStart, amount)
             /\ Run(x, amount) \intersect locked = {}
             /\ Lock(Run(x, amount))
             /\ held' = held \union Run(x, amount)
             /\ result' = x
       \/ /\ FirstRun(locked, Bits, SearchStart, amount) = Bits
          /\ result' = NULL
          /\ UNCHANGED <<locked, counters, held>>
    /\ UNCHANGED <<Initialized, stray>>

\* Freeing lowers the hint to the lowest index whose bit was cleared.
LowerHint(S) == PageBitmapIndex' =
    LET below == {i \in S \intersect locked : i < PageBitmapIndex}
    IN IF below = {} THEN PageBitmapIndex ELSE Lowest(below)

\* Callers free what they hold: one frame, or a run of them.
FreePages(first, count) ==
    /\ Initialized
    /\ Run(first, count) \subseteq held
    /\ Unlock(Run(first, count))
    /\ LowerHint(Run(first, count))
    /\ held' = held \ Run(first, count)
    /\ UNCHANGED <<Initialized, stray, result>>

FreePage(frame) == FreePages(frame, 1)

LockPages(first, count) ==
    /\ Initialized
    /\ Lock(Span(first, count))
    /\ UNCHANGED <<Initialized, PageBitmapIndex, stray, held, result>>

Next == \/ ReadMemoryMap
        \/ RequestPage
        \/ \E amount \in 1..MaxRun : RequestPages(amount)
        \/ \E frame \in held : FreePage(frame)
        \/ \E first \in held, count \in 2..MaxRun : FreePages(first, count)
        \/ \E r \in LockRanges : LockPages(r.first, r.count)

Spec == Init /\ [][Next]_vars
-----------------------------------------------------------------------------
(* Properties *)

\* Every variable has its type: locked frames are bits of the bitmap, and the
\* search hint and the answers stay in the range it covers.
TypeOK == /\ Initialized \in BOOLEAN
          /\ locked \subseteq Indices
          /\ FreeMemory \in Int /\ UsedMemory \in Int /\ ReservedMemory \in Int
          /\ PageBitmapIndex \in 0..Bits
          /\ stray \subseteq {Bits}
          /\ held \subseteq Nat
          /\ result \in 0..Bits

\* The three counters GetFreeRAM, GetUsedRAM and GetReservedRAM report are
\* what the bitmap says, whatever was reserved twice, locked twice or freed;
\* in particular UsedMemory never goes below zero.
Accounting ==
    Initialized =>
        /\ ReservedMemory = Cardinality(ReservedFrames \ stray)
        /\ UsedMemory = Cardinality(locked \ (ReservedFrames \union stray))
        /\ FreeMemory = MemoryFrames - UsedMemory - ReservedMemory

\* A frame a caller holds has its bit set, so that no request is answered
\* with it, and is none of the frames ReadMemoryMap reserved or locked for
\* the bitmap, so that freeing it gives none of those away.
NoFrameTwice ==
    /\ held \intersect Indices \subseteq locked
    /\ held \intersect (Pinned \union stray) = {}

\* What ReadMemoryMap reserves and locks stays so for good.
PinnedStayLocked == Initialized => Pinned \subseteq locked

FrameOf(byte) == byte \div PageBytes

\* Every byte of the bitmap, and the byte after it that Get(Size * 8) reads,
\* lies in a frame no request is answered with (if the bitmap covers it).
BitmapBytesLocked ==
    Initialized => \A b \in Buffer..(Buffer + Size) :
                      FrameOf(b) \in Indices => FrameOf(b) \in locked

\* Every byte of a RESERVED entry lies in such a frame, for the entries that
\* ReservePages(base, length / 0x1000 + 1) can cover: those that reach no
\* further into their last frame than one page past their aligned start.
ReservedBytesLocked ==
    Initialized =>
        \A i \in DOMAIN MemMap :
            LET e == MemMap[i]
            IN (/\ e.type = "RESERVED"
                /\ (e.base % PageBytes) + (e.length % PageBytes) <= PageBytes
                /\ e.length \div PageBytes < IntPages) =>
               \A b \in e.base..(e.base + e.length - 1) :
                   FrameOf(b) \in Indices => FrameOf(b) \in locked

\* What ReadMemoryMap sets aside is locked for good, byte by byte: the bitmap
\* and the RESERVED entries of the memory map.  The frames of the kernel itself
\* (KERNEL_AND_MODULES) are not among them: no code reserves those.
ReservedBytesKept == BitmapBytesLocked /\ ReservedBytesLocked

\* RequestPage answers NULL exactly when no frame is free: frame 0, whose
\* address is NULL, is never an answer of its own.
NullMeansExhausted ==
    [][RequestPage => (result' = NULL <=> 0..(Bits - 1) \subseteq locked)]_vars

\* The bitmap has up to eight bits more than the memory map has frames.
\* RequestPage answers with one of those only when every other is taken.
LowMemoryFirst ==
    [][RequestPage => \/ result' < MemoryFrames
                      \/ 0..(MemoryFrames - 1) \subseteq locked]_vars

\* The search of RequestPages skips more frames than it found taken, so it may
\* miss a run of the length asked for; but one of nearly twice that length is
\* never missed.
LongRunFound ==
    [][\A amount \in 1..MaxRun :
          result' = NULL /\ RequestPages(amount) =>
              ~\E s \in 0..(Bits - (2 * amount - 1)) :
                    Run(s, 2 * amount - 1) \intersect locked = {}]_vars

\* All three: a request is refused for want of memory only, and RequestPage
\* gives real memory first.
RequestAnswers == NullMeansExhausted /\ LowMemoryFirst /\ LongRunFound

Pool == INSTANCE FramePool WITH
            Frames <- 0..(Bits - 1),
            free   <- (0..(Bits - 1)) \ locked,
            loaned <- held \intersect (0..(Bits - 1))

\* Seen through the bitmap, every operation is one of FramePool's: a request
\* takes frames that are free and nobody holds, and only frames on loan
\* come back.
ImplementsFramePool == Pool!Spec
=============================================================================
