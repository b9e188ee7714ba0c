---------------------- MODULE PageFrameAllocator_proofs ----------------------
(***************************************************************************)
(* Proofs about PageFrameAllocator, for every memory map and page size.    *)
(* The inductive invariant joins the named invariants with what they need  *)
(* of each other: the stray bit stays set, and nothing is locked before    *)
(* ReadMemoryMap.                                                          *)
(***************************************************************************)
EXTENDS PageFrameAllocator, FiniteSetTheorems, WellFoundedInduction, TLAPS

StrayStays == stray \subseteq locked

NothingBeforeBoot ==
    ~Initialized => /\ locked = stray
                    /\ held = {}
                    /\ UsedMemory = 0 /\ ReservedMemory = 0

IInv == TypeOK /\ Accounting /\ NoFrameTwice /\ PinnedStayLocked
            /\ StrayStays /\ NothingBeforeBoot

-----------------------------------------------------------------------------
\* The size of memory is a number of bytes, and the bitmap has at least eight
\* bits.
LEMMA SizesAreNaturals ==
    /\ MemorySize \in Nat
    /\ MemoryFrames \in Nat
    /\ Size \in Nat \ {0}
    /\ Bits \in Nat \ {0}
<1> DEFINE pairs == (DOMAIN MemMap) \X (1..AddressLimit)
           counted == {p \in pairs : p[2] <= MemMap[p[1]].length}
<1>1. IsFiniteSet(DOMAIN MemMap)
  <2>1. DOMAIN MemMap = 1..Len(MemMap) /\ Len(MemMap) \in Nat
    BY MemMapAssumption
  <2> QED
    BY <2>1, FS_Interval
<1>2. IsFiniteSet(1..AddressLimit)
  BY FS_Interval, MemMapAssumption
<1>3. IsFiniteSet(pairs)
  BY <1>1, <1>2, FS_Product
<1>4. IsFiniteSet(counted)
  BY <1>3, FS_Subset
<1>5. MemorySize \in Nat
  BY <1>4, FS_CardinalityType DEF MemorySize
<1>6. MemoryFrames \in Nat
  BY <1>5, ParameterAssumption DEF MemoryFrames
<1>7. Size \in Nat \ {0}
  BY <1>6 DEF Size
<1> QED
  BY <1>5, <1>6, <1>7 DEF Bits

\* Every set of bits the bitmap has is finite.
LEMMA BitsFinite ==
    ASSUME NEW S, S \subseteq Indices
    PROVE  IsFiniteSet(S) /\ Cardinality(S) \in Nat
<1>1. IsFiniteSet(Indices)
  BY SizesAreNaturals, FS_Interval DEF Indices
<1> QED
  BY <1>1, FS_Subset, FS_CardinalityType

\* Bits added to a set of bits add to its size.
LEMMA CardinalityAdds ==
    ASSUME NEW S, S \subseteq Indices, NEW T, T \subseteq Indices,
           S \intersect T = {}
    PROVE  Cardinality(S \union T) = Cardinality(S) + Cardinality(T)
<1>1. Cardinality(S \union T) =
         Cardinality(S) + Cardinality(T) - Cardinality(S \intersect T)
  BY BitsFinite, FS_Union
<1>2. Cardinality(S \intersect T) = 0
  BY FS_EmptySet
<1> QED
  BY <1>1, <1>2, BitsFinite

\* What the map and the bitmap claim are bits of the bitmap.
LEMMA PinnedAreBits == ReservedFrames \subseteq Indices /\ BitmapFrames \subseteq Indices
BY DEF ReservedFrames, BitmapFrames, Span

\* Nothing but the bitmap and the counters changes in Lock: the new bits are
\* moved from FreeMemory to UsedMemory one by one.
LEMMA LockStep ==
    ASSUME IInv, Initialized, NEW S, Lock(S)
    PROVE  /\ locked' \subseteq Indices
           /\ locked \subseteq locked'
           /\ S \intersect Indices \subseteq locked'
           /\ FreeMemory' \in Int /\ UsedMemory' \in Int
           /\ ReservedMemory' = ReservedMemory
           /\ UsedMemory' = Cardinality(locked' \ (ReservedFrames \union stray))
           /\ FreeMemory' = MemoryFrames - UsedMemory' - ReservedMemory'
<1> DEFINE new == (S \intersect Indices) \ locked
           others == locked \ (ReservedFrames \union stray)
<1>1. /\ new \subseteq Indices
      /\ others \subseteq Indices
      /\ new \intersect others = {}
  BY DEF IInv, TypeOK
<1>2. locked' \ (ReservedFrames \union stray) = others \union new
  BY DEF Lock, IInv, PinnedStayLocked, Pinned, StrayStays
<1>3. Cardinality(others \union new) = Cardinality(others) + Cardinality(new)
  BY <1>1, CardinalityAdds
<1>4. Cardinality(new) \in Nat /\ Cardinality(others) \in Nat
  BY <1>1, BitsFinite
<1>5. /\ UsedMemory' = UsedMemory + Cardinality(new)
      /\ FreeMemory' = FreeMemory - Cardinality(new)
      /\ ReservedMemory' = ReservedMemory
  BY DEF Lock
<1>6. /\ UsedMemory = Cardinality(others)
      /\ FreeMemory = MemoryFrames - UsedMemory - ReservedMemory
      /\ FreeMemory \in Int /\ UsedMemory \in Int /\ ReservedMemory \in Int
  BY DEF IInv, Accounting, TypeOK
<1>7. /\ locked' \subseteq Indices
      /\ locked \subseteq locked'
      /\ S \intersect Indices \subseteq locked'
  BY DEF Lock, IInv, TypeOK
<1>8. UsedMemory' = Cardinality(locked' \ (ReservedFrames \union stray))
  BY <1>2, <1>3, <1>5, <1>6
<1>9. /\ FreeMemory' \in Int /\ UsedMemory' \in Int
      /\ FreeMemory' = MemoryFrames - UsedMemory' - ReservedMemory'
  <2> HIDE DEF new, others
  <2> QED
    BY <1>4, <1>5, <1>6, SizesAreNaturals
<1> QED
  BY <1>5, <1>7, <1>8, <1>9

\* Unlock undoes it, for frames that are not pinned.
LEMMA UnlockStep ==
    ASSUME IInv, Initialized, NEW S, S \intersect (Pinned \union stray) = {},
           Unlock(S)
    PROVE  /\ locked' = locked \ S
           /\ FreeMemory' \in Int /\ UsedMemory' \in Int
           /\ ReservedMemory' = ReservedMemory
           /\ UsedMemory' = Cardinality(locked' \ (ReservedFrames \union stray))
           /\ FreeMemory' = MemoryFrames - UsedMemory' - ReservedMemory'
<1> DEFINE cleared == S \intersect locked
           others == locked' \ (ReservedFrames \union stray)
<1>1. locked' = locked \ S
  BY DEF Unlock
<1>2. /\ cleared \subseteq Indices
      /\ others \subseteq Indices
      /\ cleared \intersect others = {}
  BY <1>1 DEF IInv, TypeOK
<1>3. locked \ (ReservedFrames \union stray) = others \union cleared
  BY <1>1 DEF Pinned
<1>4. Cardinality(others \union cleared) = Cardinality(others) + Cardinality(cleared)
  BY <1>2, CardinalityAdds
<1>5. Cardinality(cleared) \in Nat /\ Cardinality(others) \in Nat
  BY <1>2, BitsFinite
<1>6. /\ UsedMemory' = UsedMemory - Cardinality(cleared)
      /\ FreeMemory' = FreeMemory + Cardinality(cleared)
      /\ ReservedMemory' = ReservedMemory
  BY DEF Unlock
<1>7. /\ UsedMemory = Cardinality(others) + Cardinality(cleared)
      /\ FreeMemory = MemoryFrames - UsedMemory - ReservedMemory
      /\ FreeMemory \in Int /\ UsedMemory \in Int /\ ReservedMemory \in Int
  BY <1>3, <1>4 DEF IInv, Accounting, TypeOK
<1> HIDE DEF cleared, others
<1>8. UsedMemory' = Cardinality(others)
  BY <1>5, <1>6, <1>7
<1>9. /\ FreeMemory' \in Int /\ UsedMemory' \in Int
      /\ FreeMemory' = MemoryFrames - UsedMemory' - ReservedMemory'
  BY <1>5, <1>6, <1>7, SizesAreNaturals
<1> QED
  BY <1>1, <1>6, <1>8, <1>9 DEF others

\* A non-empty set of naturals has a least element.
LEMMA NatMinimum ==
    ASSUME NEW T, T \subseteq Nat, T # {}
    PROVE  \E x \in T : \A y \in T : x <= y
<1>1. PICK x \in T : \A y \in T : ~ (<<y, x>> \in OpToRel(<, Nat))
  BY NatLessThanWellFounded, WFMin
<1>2. \A y \in T : ~ (y < x)
  BY <1>1 DEF OpToRel
<1> QED
  BY <1>2

\* A search starts at the hint or below it.
LEMMA SearchStartBelowHint ==
    ASSUME PageBitmapIndex \in 0..Bits
    PROVE  SearchStart \in 0..PageBitmapIndex
<1> DEFINE below == {i \in 0..(PageBitmapIndex - 1) : i \notin locked}
<1>1. CASE below = {}
  BY <1>1, SizesAreNaturals DEF SearchStart
<1>2. CASE below # {}
  <2>1. below \subseteq Nat
    BY SizesAreNaturals
  <2>2. PICK low \in below : \A j \in below : low <= j
    BY <1>2, <2>1, NatMinimum
  <2>3. Lowest(below) \in below
    BY <2>2 DEF Lowest
  <2> QED
    BY <1>2, <2>3, SizesAreNaturals DEF SearchStart
<1> QED
  BY <1>1, <1>2
-----------------------------------------------------------------------------
\* The invariant holds before ReadMemoryMap has run.
LEMMA InitIInv == Init => IInv
<1> SUFFICES ASSUME Init PROVE IInv
  OBVIOUS
<1>1. TypeOK
  <2>1. Bits \in Indices /\ 0 \in 0..Bits
    BY SizesAreNaturals DEF Indices
  <2>2. stray \subseteq {Bits} /\ locked = stray
    BY DEF Init
  <2>3. locked \subseteq Indices
    BY <2>1, <2>2
  <2>4. Initialized \in BOOLEAN
    BY DEF Init
  <2>5. FreeMemory \in Int /\ UsedMemory \in Int /\ ReservedMemory \in Int
    BY DEF Init
  <2>6. PageBitmapIndex \in 0..Bits /\ held \subseteq Nat /\ result \in 0..Bits
    BY <2>1 DEF Init, NULL
  <2> QED
    BY <2>2, <2>3, <2>4, <2>5, <2>6 DEF TypeOK
<1> QED
  BY <1>1 DEF Init, IInv, Accounting, NoFrameTwice, PinnedStayLocked, StrayStays,
              NothingBeforeBoot

\* ReadMemoryMap counts every bit it sets once, in ReservedMemory if an entry
\* or the low range reserves it, in UsedMemory if only the bitmap needs it.
LEMMA ReadMemoryMapStep ==
    ASSUME IInv, ReadMemoryMap
    PROVE  IInv'
<1> DEFINE reserved == ReservedFrames \ stray
           bitmap == BitmapFrames \ (ReservedFrames \union stray)
<1>1. /\ reserved \subseteq Indices
      /\ bitmap \subseteq Indices
      /\ Cardinality(reserved) \in Nat
      /\ Cardinality(bitmap) \in Nat
  BY PinnedAreBits, BitsFinite
<1>2. /\ UsedMemory = 0 /\ ReservedMemory = 0 /\ held = {}
  BY DEF ReadMemoryMap, IInv, NothingBeforeBoot
<1>3. /\ UsedMemory' = Cardinality(bitmap)
      /\ ReservedMemory' = Cardinality(reserved)
      /\ FreeMemory' = MemoryFrames - UsedMemory' - ReservedMemory'
      /\ FreeMemory' \in Int
  <2>1. /\ UsedMemory' = UsedMemory + Cardinality(bitmap)
        /\ ReservedMemory' = ReservedMemory + Cardinality(reserved)
        /\ FreeMemory' = MemoryFrames - Cardinality(reserved) - Cardinality(bitmap)
    BY DEF ReadMemoryMap
  <2> HIDE DEF bitmap, reserved
  <2> QED
    BY <1>1, <1>2, <2>1, SizesAreNaturals
<1>4. /\ locked' = stray \union reserved \union bitmap
      /\ stray' = stray /\ held' = {} /\ Initialized'
      /\ PageBitmapIndex' = PageBitmapIndex /\ result' = result
  BY <1>2 DEF ReadMemoryMap
<1>5. locked' \ (ReservedFrames \union stray) = bitmap
  BY <1>4
<1>6. TypeOK'
  <2>1. stray \subseteq Indices
    BY SizesAreNaturals DEF IInv, TypeOK, Indices
  <2>2. locked' \subseteq Indices
    BY <1>1, <1>4, <2>1
  <2>3. UsedMemory' \in Int /\ ReservedMemory' \in Int
    BY <1>1, <1>3
  <2> QED
    BY <1>3, <1>4, <2>2, <2>3 DEF IInv, TypeOK
<1>7. Accounting'
  BY <1>3, <1>4, <1>5 DEF Accounting
<1>8. PinnedStayLocked'
  BY <1>4 DEF PinnedStayLocked, Pinned
<1> QED
  BY <1>4, <1>6, <1>7, <1>8 DEF IInv, NoFrameTwice, StrayStays, NothingBeforeBoot

\* A request that takes frames free before takes none of the pinned ones.
LEMMA TakeStep ==
    ASSUME IInv, Initialized, NEW S, S \subseteq Nat, S \intersect locked = {},
           Lock(S), held' = held \union S,
           result' \in 0..Bits, PageBitmapIndex' \in 0..Bits,
           UNCHANGED <<Initialized, stray>>
    PROVE  IInv'
<1>1. TypeOK'
  BY LockStep DEF IInv, TypeOK
<1>2. Accounting'
  BY LockStep DEF IInv, Accounting
<1>3. NoFrameTwice'
  BY LockStep DEF IInv, NoFrameTwice, PinnedStayLocked, StrayStays
<1>4. PinnedStayLocked'
  BY LockStep DEF IInv, PinnedStayLocked
<1> QED
  BY <1>1, <1>2, <1>3, <1>4, LockStep DEF IInv, StrayStays, NothingBeforeBoot

\* A request that finds nothing changes neither the bitmap nor the counters.
LEMMA NothingTakenStep ==
    ASSUME IInv, Initialized, result' = NULL, PageBitmapIndex' \in 0..Bits,
           UNCHANGED <<Initialized, stray, locked, counters, held>>
    PROVE  IInv'
BY SizesAreNaturals DEF IInv, TypeOK, Accounting, NoFrameTwice, PinnedStayLocked,
   StrayStays, NothingBeforeBoot, counters, NULL

\* RequestPage takes the lowest clear bit, or answers NULL.
LEMMA RequestPageStep ==
    ASSUME IInv, RequestPage
    PROVE  IInv'
<1>1. SearchStart \in 0..PageBitmapIndex /\ PageBitmapIndex \in 0..Bits
  BY SearchStartBelowHint DEF IInv, TypeOK
<1>2. /\ Initialized
      /\ PageBitmapIndex' \in 0..Bits
      /\ UNCHANGED <<Initialized, stray>>
  BY <1>1, SizesAreNaturals DEF RequestPage
<1>3. CASE \E x \in SearchStart..(Bits - 1) :
              x \notin locked /\ Lock({x}) /\ held' = held \union {x} /\ result' = x
  <2>1. PICK x \in SearchStart..(Bits - 1) :
              x \notin locked /\ Lock({x}) /\ held' = held \union {x} /\ result' = x
    BY <1>3
  <2>2. x \in 0..Bits
    BY <1>1, SizesAreNaturals
  <2>3. {x} \subseteq Nat /\ {x} \intersect locked = {} /\ result' \in 0..Bits
    BY <2>1, <2>2
  <2> QED
    BY <1>2, <2>1, <2>3, TakeStep
<1>4. CASE result' = NULL /\ UNCHANGED <<locked, counters, held>>
  BY <1>2, <1>4, NothingTakenStep
<1> QED
  BY <1>3, <1>4 DEF RequestPage

\* RequestPages takes a run of clear bits, or answers NULL.
LEMMA RequestPagesStep ==
    ASSUME IInv, NEW amount \in 1..MaxRun, RequestPages(amount)
    PROVE  IInv'
<1>1. SearchStart \in 0..PageBitmapIndex /\ PageBitmapIndex \in 0..Bits
  BY SearchStartBelowHint DEF IInv, TypeOK
<1>2. /\ Initialized
      /\ PageBitmapIndex' \in 0..Bits
      /\ UNCHANGED <<Initialized, stray>>
  BY <1>1, SizesAreNaturals DEF RequestPages
<1>3. CASE \E x \in SearchStart..(Bits - 1) :
              /\ Run(x, amount) \intersect locked = {}
              /\ Lock(Run(x, amount))
              /\ held' = held \union Run(x, amount)
              /\ result' = x
  <2>1. PICK x \in SearchStart..(Bits - 1) :
              /\ Run(x, amount) \intersect locked = {}
              /\ Lock(Run(x, amount))
              /\ held' = held \union Run(x, amount)
              /\ result' = x
    BY <1>3
  <2>2. x \in 0..Bits /\ amount \in Nat
    BY <1>1, SizesAreNaturals, ParameterAssumption
  <2>3. Run(x, amount) \subseteq Nat /\ result' \in 0..Bits
    BY <2>1, <2>2 DEF Run
  <2> QED
    BY <1>2, <2>1, <2>3, TakeStep
<1>4. CASE result' = NULL /\ UNCHANGED <<locked, counters, held>>
  BY <1>2, <1>4, NothingTakenStep
<1> QED
  BY <1>3, <1>4 DEF RequestPages

\* Freeing lowers the hint, if it moves it.
LEMMA LowerHintType ==
    ASSUME PageBitmapIndex \in 0..Bits, locked \subseteq Indices, NEW S, LowerHint(S)
    PROVE  PageBitmapIndex' \in 0..Bits
<1> DEFINE below == {i \in S \intersect locked : i < PageBitmapIndex}
<1>1. below \subseteq Indices /\ below \subseteq Nat
  <2>1. Indices \subseteq Nat
    BY SizesAreNaturals DEF Indices
  <2> QED
    BY <2>1
<1>2. CASE below = {}
  BY <1>2 DEF LowerHint
<1>3. CASE below # {}
  <2>1. PICK low \in below : \A j \in below : low <= j
    BY <1>1, <1>3, NatMinimum
  <2>2. Lowest(below) \in below
    BY <2>1 DEF Lowest
  <2> QED
    BY <1>1, <1>3, <2>2 DEF LowerHint, Indices
<1> QED
  BY <1>2, <1>3

\* FreePages clears bits that a caller holds, so none that is pinned.
LEMMA FreePagesStep ==
    ASSUME IInv, NEW first, NEW count, FreePages(first, count)
    PROVE  IInv'
<1> DEFINE run == Run(first, count)
<1>1. /\ Initialized /\ run \subseteq held /\ Unlock(run) /\ LowerHint(run)
      /\ held' = held \ run
      /\ UNCHANGED <<Initialized, stray, result>>
  BY DEF FreePages
<1>2. run \intersect (Pinned \union stray) = {}
  BY <1>1 DEF IInv, NoFrameTwice
<1> HIDE DEF run
<1>3. /\ locked' = locked \ run
      /\ FreeMemory' \in Int /\ UsedMemory' \in Int
      /\ ReservedMemory' = ReservedMemory
      /\ UsedMemory' = Cardinality(locked' \ (ReservedFrames \union stray))
      /\ FreeMemory' = MemoryFrames - UsedMemory' - ReservedMemory'
  BY <1>1, <1>2, UnlockStep
<1>4. PageBitmapIndex' \in 0..Bits
  BY <1>1, LowerHintType DEF IInv, TypeOK
<1>5. TypeOK'
  BY <1>1, <1>3, <1>4 DEF IInv, TypeOK
<1>6. Accounting'
  BY <1>1, <1>3 DEF IInv, Accounting
<1>7. NoFrameTwice' /\ PinnedStayLocked' /\ StrayStays' /\ NothingBeforeBoot'
  BY <1>1, <1>2, <1>3 DEF IInv, NoFrameTwice, PinnedStayLocked, StrayStays,
                          NothingBeforeBoot
<1> QED
  BY <1>5, <1>6, <1>7 DEF IInv

\* LockPages only sets bits.
LEMMA LockPagesStep ==
    ASSUME IInv, NEW first, NEW count, LockPages(first, count)
    PROVE  IInv'
<1>1. /\ Initialized /\ Lock(Span(first, count))
      /\ UNCHANGED <<Initialized, PageBitmapIndex, stray, held, result>>
  BY DEF LockPages
<1>2. /\ locked' \subseteq Indices
      /\ locked \subseteq locked'
      /\ FreeMemory' \in Int /\ UsedMemory' \in Int
      /\ ReservedMemory' = ReservedMemory
      /\ UsedMemory' = Cardinality(locked' \ (ReservedFrames \union stray))
      /\ FreeMemory' = MemoryFrames - UsedMemory' - ReservedMemory'
  BY <1>1, LockStep
<1> QED
  BY <1>1, <1>2 DEF IInv, TypeOK, Accounting, NoFrameTwice, PinnedStayLocked,
                    StrayStays, NothingBeforeBoot

\* Every operation preserves the invariant.
LEMMA NextIInv == IInv /\ [Next]_vars => IInv'
<1> SUFFICES ASSUME IInv, [Next]_vars PROVE IInv'
  OBVIOUS
<1>1. CASE ReadMemoryMap
  BY <1>1, ReadMemoryMapStep
<1>2. CASE RequestPage
  BY <1>2, RequestPageStep
<1>3. CASE \E amount \in 1..MaxRun : RequestPages(amount)
  BY <1>3, RequestPagesStep
<1>4. CASE \E frame \in held : FreePage(frame)
  BY <1>4, FreePagesStep DEF FreePage
<1>5. CASE \E first \in held, count \in 2..MaxRun : FreePages(first, count)
  BY <1>5, FreePagesStep
<1>6. CASE \E r \in LockRanges : LockPages(r.first, r.count)
  BY <1>6, LockPagesStep
<1>7. CASE UNCHANGED vars
  BY <1>7 DEF vars, IInv, TypeOK, Accounting, NoFrameTwice, PinnedStayLocked,
              StrayStays, NothingBeforeBoot
<1> QED
  BY <1>1, <1>2, <1>3, <1>4, <1>5, <1>6, <1>7 DEF Next

\* The inductive invariant: types, accounting, ownership of frames, and what the
\* bitmap says of frames the allocator claims for itself.
THEOREM Inductive == Spec => []IInv
BY InitIInv, NextIInv, PTL DEF Spec

\* The variables keep their types: indices stay inside the bitmap, the hint
\* and the answers inside the address range it covers.
THEOREM TypeCorrect == Spec => []TypeOK
BY Inductive, PTL DEF IInv

\* The counters the kernel prints agree with the bitmap, on every machine.
THEOREM AccountingCorrect == Spec => []Accounting
BY Inductive, PTL DEF IInv

\* No request is answered with a frame a caller holds, nor with one that the
\* memory map or the bitmap claims, on every machine.
THEOREM NoDoubleAllocation == Spec => []NoFrameTwice
BY Inductive, PTL DEF IInv

\* Reserved frames and those of the bitmap are never given away.
COROLLARY PinnedForGood == Spec => []PinnedStayLocked
BY Inductive, PTL DEF IInv
-----------------------------------------------------------------------------
\* At the start every frame is free in the pool and none is lent.
LEMMA InitRefines == Init => Pool!Init
BY DEF Init, Pool!Init

\* Setting bits of frames nobody holds withdraws them from the pool.
LEMMA WithdrawRefines ==
    ASSUME locked \subseteq locked', held' = held
    PROVE  Pool!Withdraw
BY DEF Pool!Withdraw

\* Setting bits of frames that become held lends them.
LEMMA LoanRefines ==
    ASSUME NEW S, S \intersect locked = {},
           locked' = locked \union (S \intersect Indices),
           held' = held \union S
    PROVE  Pool!Loan
<1> DEFINE bitmap == 0..(Bits - 1)
           T == S \intersect bitmap
<1>1. bitmap \subseteq Indices
  BY SizesAreNaturals DEF Indices
<1> HIDE DEF bitmap
<1>2. T \subseteq bitmap \ locked
  OBVIOUS
<1>3. bitmap \ locked' = (bitmap \ locked) \ T
  BY <1>1
<1>4. held' \intersect bitmap = (held \intersect bitmap) \union T
  OBVIOUS
<1> QED
  BY <1>2, <1>3, <1>4 DEF Pool!Loan, bitmap

\* Clearing bits of frames that are held takes them back.
LEMMA ReturnRefines ==
    ASSUME NEW S, S \subseteq held, held \intersect Indices \subseteq locked,
           locked' = locked \ S, held' = held \ S
    PROVE  Pool!Return
<1> DEFINE bitmap == 0..(Bits - 1)
           T == S \intersect bitmap
<1>1. bitmap \subseteq Indices
  BY SizesAreNaturals DEF Indices
<1> HIDE DEF bitmap
<1>2. T \subseteq held \intersect bitmap
  OBVIOUS
<1>3. bitmap \ locked' = (bitmap \ locked) \union T
  BY <1>1
<1>4. held' \intersect bitmap = (held \intersect bitmap) \ T
  OBVIOUS
<1> QED
  BY <1>2, <1>3, <1>4 DEF Pool!Return, bitmap

\* Locking a set of clear bits sets all of them.
LEMMA LockSets ==
    ASSUME NEW S, Lock(S), S \intersect locked = {}
    PROVE  locked' = locked \union (S \intersect Indices)
BY DEF Lock

\* Every operation is a step of the pool or leaves it alone.
LEMMA NextRefines == IInv /\ [Next]_vars => [Pool!Next]_(Pool!vars)
<1> SUFFICES ASSUME IInv, [Next]_vars PROVE [Pool!Next]_(Pool!vars)
  OBVIOUS
<1>1. CASE ReadMemoryMap
  <2>1. locked \subseteq locked' /\ held' = held
    BY <1>1 DEF ReadMemoryMap, IInv, NothingBeforeBoot
  <2> QED
    BY <2>1, WithdrawRefines DEF Pool!Next
<1>2. CASE RequestPage
  <2>1. CASE \E x \in SearchStart..(Bits - 1) :
                x \notin locked /\ Lock({x}) /\ held' = held \union {x}
    <3>1. PICK x \in SearchStart..(Bits - 1) :
                x \notin locked /\ Lock({x}) /\ held' = held \union {x}
      BY <2>1
    <3>2. {x} \intersect locked = {}
      BY <3>1
    <3> QED
      BY <3>1, <3>2, LockSets, LoanRefines DEF Pool!Next
  <2>2. CASE UNCHANGED <<locked, counters, held>>
    BY <2>2 DEF Pool!vars
  <2> QED
    BY <1>2, <2>1, <2>2 DEF RequestPage
<1>3. CASE \E amount \in 1..MaxRun : RequestPages(amount)
  <2>1. PICK amount \in 1..MaxRun : RequestPages(amount)
    BY <1>3
  <2>2. CASE \E x \in SearchStart..(Bits - 1) :
                /\ Run(x, amount) \intersect locked = {}
                /\ Lock(Run(x, amount))
                /\ held' = held \union Run(x, amount)
    BY <2>2, LockSets, LoanRefines DEF Pool!Next
  <2>3. CASE UNCHANGED <<locked, counters, held>>
    BY <2>3 DEF Pool!vars
  <2> QED
    BY <2>1, <2>2, <2>3 DEF RequestPages
<1>4. ASSUME NEW first, NEW count, FreePages(first, count)
      PROVE  Pool!Next
  <2>1. /\ Run(first, count) \subseteq held
        /\ locked' = locked \ Run(first, count)
        /\ held' = held \ Run(first, count)
    BY <1>4 DEF FreePages, Unlock
  <2> QED
    BY <2>1, ReturnRefines DEF Pool!Next, IInv, NoFrameTwice
<1>5. CASE \E r \in LockRanges : LockPages(r.first, r.count)
  <2>1. locked \subseteq locked' /\ held' = held
    BY <1>5 DEF LockPages, Lock
  <2> QED
    BY <2>1, WithdrawRefines DEF Pool!Next
<1>6. CASE UNCHANGED vars
  BY <1>6 DEF vars, Pool!vars
<1> QED
  BY <1>1, <1>2, <1>3, <1>4, <1>5, <1>6 DEF Next, FreePage

\* Whatever the memory map, callers see a pool of frames in which a request
\* takes only free frames and only loans come back.
THEOREM RefinesFramePool == Spec => ImplementsFramePool
<1>1. Init => Pool!Init
  BY InitRefines
<1>2. IInv /\ [Next]_vars => [Pool!Next]_(Pool!vars)
  BY NextRefines
<1> QED
  BY <1>1, <1>2, Inductive, PTL DEF Spec, Pool!Spec, ImplementsFramePool
-----------------------------------------------------------------------------
(* The bytes ReadMemoryMap sets aside *)

\* What division by the size of a page means.
LEMMA PageDivision ==
    ASSUME NEW a \in Nat
    PROVE  /\ a \div PageBytes \in Nat /\ a % PageBytes \in 0..(PageBytes - 1)
           /\ a = PageBytes * (a \div PageBytes) + (a % PageBytes)
<1>1. a \div PageBytes \in Int /\ a = PageBytes * (a \div PageBytes) + (a % PageBytes)
  BY ParameterAssumption
<1>2. a % PageBytes \in 0..(PageBytes - 1)
  BY ParameterAssumption
<1> QED
  BY <1>1, <1>2, ParameterAssumption

\* A byte in front of the end of page q lies in page q or one before it.
LEMMA PageBelow ==
    ASSUME NEW a \in Nat, NEW q \in Nat, a < PageBytes * (q + 1)
    PROVE  FrameOf(a) \in 0..q
<1> DEFINE k == a \div PageBytes
<1>1. k \in Nat /\ PageBytes * k <= a /\ PageBytes \in Nat \ {0}
  BY PageDivision, ParameterAssumption
<1> HIDE DEF k
<1>2. ASSUME k > q PROVE FALSE
  <2>1. PICK d \in Nat : k = (q + 1) + d
    BY <1>1, <1>2
  <2>2. PageBytes * k = PageBytes * (q + 1) + PageBytes * d
    BY <1>1, <2>1
  <2>3. PageBytes * d \in Nat /\ PageBytes * (q + 1) \in Nat
    BY <1>1, <2>1
  <2> QED
    BY <1>1, <2>2, <2>3
<1> QED
  BY <1>1, <1>2 DEF FrameOf, k

\* A byte from the beginning of page q on lies in page q or one behind it.
LEMMA PageAbove ==
    ASSUME NEW a \in Nat, NEW q \in Nat, a >= PageBytes * q
    PROVE  FrameOf(a) \in Nat /\ FrameOf(a) >= q
<1> DEFINE k == a \div PageBytes
           r == a % PageBytes
<1>1. k \in Nat /\ r \in 0..(PageBytes - 1) /\ a = PageBytes * k + r /\ PageBytes \in Nat \ {0}
  BY PageDivision, ParameterAssumption
<1> HIDE DEF k, r
<1>2. ASSUME k < q PROVE FALSE
  <2>1. PICK d \in Nat : q = (k + 1) + d
    BY <1>1, <1>2
  <2>2. PageBytes * q = PageBytes * k + PageBytes + PageBytes * d
    BY <1>1, <2>1
  <2>3. PageBytes * d \in Nat /\ PageBytes * k \in Nat
    BY <1>1, <2>1
  <2> QED
    BY <1>1, <2>2, <2>3
<1> QED
  BY <1>1, <1>2 DEF FrameOf, k

\* A span has the frames one would expect as long as its int does not overflow.
LEMMA SpanCovers ==
    ASSUME NEW first \in Nat, NEW last \in Nat, ~IntWraps \/ last < IntPages,
           NEW f \in first..(first + last), f \in Indices
    PROVE  f \in Span(first, last + 1)
<1>1. PICK t \in 0..last : f = first + t
  <2>1. f - first \in 0..last /\ f = first + (f - first)
    OBVIOUS
  <2> QED
    BY <2>1
<1>2. Offset(t) = t
  BY <1>1, ParameterAssumption DEF Offset
<1>3. t \in 0..(last + 1 - 1)
  BY <1>1
<1> QED
  BY <1>1, <1>2, <1>3 DEF Span

\* If nothing overflows, what is reserved for an entry covers the pages its bytes
\* lie in, unless the entry and the start of its first page do.
LEMMA EntryCovered ==
    ASSUME NEW base \in Nat, NEW length \in Nat, NEW b \in base..(base + length - 1),
           (base % PageBytes) + (length % PageBytes) <= PageBytes,
           length \div PageBytes < IntPages, FrameOf(b) \in Indices
    PROVE  FrameOf(b) \in Span(base \div PageBytes, length \div PageBytes + 1)
<1> DEFINE q == base \div PageBytes
           r == base % PageBytes
           n == length \div PageBytes
           s == length % PageBytes
<1>1. /\ q \in Nat /\ n \in Nat /\ r \in Nat /\ s \in Nat /\ PageBytes \in Nat \ {0}
      /\ base = PageBytes * q + r /\ length = PageBytes * n + s
  BY PageDivision, ParameterAssumption
<1>2. r + s <= PageBytes /\ n < IntPages
  OBVIOUS
<1> HIDE DEF q, r, n, s
<1>3. /\ PageBytes * (q + n + 1) = PageBytes * q + PageBytes * n + PageBytes
      /\ PageBytes * q \in Nat /\ PageBytes * n \in Nat
  BY <1>1
<1>4. b \in Nat /\ b >= PageBytes * q /\ b < PageBytes * (q + n + 1)
  BY <1>1, <1>2, <1>3
<1>5. FrameOf(b) \in q..(q + n)
  BY <1>1, <1>4, PageBelow, PageAbove
<1>6. FrameOf(b) \in Span(q, n + 1)
  BY <1>1, <1>2, <1>5, SpanCovers
<1> QED
  BY <1>6 DEF q, n

\* An entry of the memory map is where the boot loader may put one.
LEMMA MapEntry ==
    ASSUME NEW i \in DOMAIN MemMap
    PROVE  /\ i \in Nat /\ AddressLimit \in Nat
           /\ MemMap[i].base \in 0..AddressLimit /\ MemMap[i].length \in 0..AddressLimit
<1> DEFINE Entry == [base : 0..AddressLimit, length : 0..AddressLimit, type : EntryTypes]
<1>1. MemMap \in Seq(Entry) /\ i \in 1..Len(MemMap) /\ Len(MemMap) \in Nat
  BY MemMapAssumption
<1> HIDE DEF Entry
<1>2. MemMap[i] \in Entry
  BY <1>1
<1> QED
  BY <1>1, <1>2, MemMapAssumption DEF Entry

\* The bitmap begins on a page.
LEMMA BufferAligned == Buffer \in Nat /\ Buffer % PageBytes = 0
<1>1. CASE Usable = {}
  <2>1. Buffer = 0
    BY <1>1 DEF Buffer
  <2>2. 0 % PageBytes = 0
    <3>1. 0 \div PageBytes \in Nat /\ 0 % PageBytes \in Nat /\ PageBytes \in Nat \ {0}
          /\ 0 = PageBytes * (0 \div PageBytes) + (0 % PageBytes)
      BY PageDivision, ParameterAssumption
    <3>2. PageBytes * (0 \div PageBytes) \in Nat
      BY <3>1
    <3> QED
      BY <3>1, <3>2
  <2> QED
    BY <2>1, <2>2
<1>2. CASE Usable # {}
  <2>1. /\ Usable \subseteq Nat /\ Usable \subseteq DOMAIN MemMap
        /\ \A i \in Usable : MemMap[i].length \in 0..AddressLimit
    BY MapEntry DEF Usable
  <2> DEFINE lengths == {MemMap[i].length : i \in Usable}
             rest == {AddressLimit - l : l \in lengths}
  <2>2. \E i \in Usable : \A j \in Usable : MemMap[j].length <= MemMap[i].length
    <3>1. \A l \in lengths : l \in 0..AddressLimit
      BY <2>1
    <3>2. rest \subseteq Nat /\ rest # {}
      <4>1. \A x \in rest : x \in Nat
        <5>1. \A l \in 0..AddressLimit : AddressLimit - l \in Nat
          BY MemMapAssumption
        <5> HIDE DEF lengths
        <5>2. ASSUME NEW x \in rest PROVE x \in Nat
          <6>1. PICK l \in lengths : x = AddressLimit - l
            OBVIOUS
          <6> QED
            BY <3>1, <5>1, <6>1
        <5> QED
          BY <5>2
      <4>2. \E i \in Usable : TRUE
        BY <1>2
      <4> QED
        BY <4>1, <4>2
    <3>3. PICK m \in rest : \A n \in rest : m <= n
      BY <3>2, NatMinimum
    <3>4. PICK i \in Usable : m = AddressLimit - MemMap[i].length
      OBVIOUS
    <3>5. ASSUME NEW j \in Usable PROVE MemMap[j].length <= MemMap[i].length
      <4>1. AddressLimit - MemMap[j].length \in rest
        OBVIOUS
      <4>2. AddressLimit - MemMap[i].length <= AddressLimit - MemMap[j].length
        BY <3>3, <3>4, <4>1
      <4> QED
        BY <2>1, <4>2, MemMapAssumption
    <3> QED
      BY <3>5
  <2>3. PICK top \in Usable : \A j \in Usable : MemMap[j].length <= MemMap[top].length
    BY <2>2
  <2> DEFINE longest == {i \in Usable : MemMap[i].length = MemMap[top].length}
  <2>4. longest \subseteq Nat /\ top \in longest
    BY <2>1
  <2>5. PICK i \in longest : \A j \in longest : i <= j
    BY <2>4, NatMinimum
  <2>6. IsLargest(i)
    <3> SUFFICES ASSUME NEW j \in Usable
                 PROVE  \/ MemMap[j].length < MemMap[i].length
                        \/ MemMap[j].length = MemMap[i].length /\ i <= j
      BY DEF IsLargest
    <3>1. MemMap[j].length <= MemMap[top].length /\ MemMap[i].length = MemMap[top].length
      BY <2>3
    <3>2. MemMap[j].length \in Nat /\ MemMap[i].length \in Nat
      BY <2>1, MemMapAssumption
    <3>3. MemMap[j].length = MemMap[i].length => i <= j
      BY <2>5, <3>1
    <3> QED
      BY <3>1, <3>2, <3>3
  <2> HIDE DEF longest
  <2>7. i \in Usable
    BY <2>5 DEF longest
  <2>8. PICK k \in Usable : Buffer = MemMap[k].base
    BY <1>2, <2>6, <2>7 DEF Buffer
  <2>9. MemMap[k].type \in {"USABLE", "BOOTLOADER_RECLAIMABLE"} /\ k \in DOMAIN MemMap
    BY DEF Usable
  <2> QED
    BY <2>8, <2>9, UsableAligned, MapEntry
<1> QED
  BY <1>1, <1>2

\* If its size in pages is a number an int can hold, the bitmap and the byte
\* behind it are within the pages that ReadMemoryMap locks for it.
LEMMA BitmapCovered ==
    ASSUME ~IntWraps \/ Size \div PageBytes < IntPages,
           NEW b \in Buffer..(Buffer + Size), FrameOf(b) \in Indices
    PROVE  FrameOf(b) \in BitmapFrames
<1> DEFINE q == Buffer \div PageBytes
           n == Size \div PageBytes
           s == Size % PageBytes
<1>1. /\ q \in Nat /\ n \in Nat /\ s \in 0..(PageBytes - 1) /\ PageBytes \in Nat \ {0}
      /\ Buffer = PageBytes * q /\ Size = PageBytes * n + s
  <2>1. Buffer \in Nat /\ Size \in Nat /\ Buffer % PageBytes = 0
    BY BufferAligned, SizesAreNaturals
  <2>2. q \in Nat /\ Buffer = PageBytes * q + 0
    BY <2>1, PageDivision
  <2>3. PageBytes * q \in Nat
    BY <2>2, ParameterAssumption
  <2>4. n \in Nat /\ s \in 0..(PageBytes - 1) /\ Size = PageBytes * n + s
    BY <2>1, PageDivision
  <2> QED
    BY <2>2, <2>3, <2>4, ParameterAssumption
<1>2. ~IntWraps \/ n < IntPages
  OBVIOUS
<1> HIDE DEF q, n, s
<1>3. /\ PageBytes * (q + n + 1) = PageBytes * q + PageBytes * n + PageBytes
      /\ PageBytes * q \in Nat /\ PageBytes * n \in Nat
  BY <1>1
<1>4. b \in Nat /\ b >= PageBytes * q /\ b < PageBytes * (q + n + 1)
  BY <1>1, <1>3
<1>5. FrameOf(b) \in q..(q + n)
  BY <1>1, <1>4, PageBelow, PageAbove
<1>6. FrameOf(b) \in Span(q, n + 1)
  BY <1>1, <1>2, <1>5, SpanCovers
<1> QED
  BY <1>6 DEF q, n, BitmapFrames

\* Every byte of the bitmap and of the RESERVED entries is locked for good, on
\* every memory map, if the pages of the bitmap can be counted in an int.
THEOREM ReservedKept ==
    ASSUME ~IntWraps \/ Size \div PageBytes < IntPages
    PROVE  Spec => []ReservedBytesKept
<1>1. ASSUME IInv PROVE BitmapBytesLocked
  BY <1>1, BitmapCovered DEF BitmapBytesLocked, IInv, PinnedStayLocked, Pinned
<1>2. ASSUME IInv PROVE ReservedBytesLocked
  <2> SUFFICES ASSUME Initialized, NEW i \in DOMAIN MemMap, MemMap[i].type = "RESERVED",
                      (MemMap[i].base % PageBytes) + (MemMap[i].length % PageBytes) <= PageBytes,
                      MemMap[i].length \div PageBytes < IntPages,
                      NEW b \in MemMap[i].base..(MemMap[i].base + MemMap[i].length - 1),
                      FrameOf(b) \in Indices
               PROVE  FrameOf(b) \in locked
    BY DEF ReservedBytesLocked
  <2>1. MemMap[i].base \in Nat /\ MemMap[i].length \in Nat
    BY MapEntry
  <2>2. FrameOf(b) \in Span(MemMap[i].base \div PageBytes, MemMap[i].length \div PageBytes + 1)
    BY <2>1, EntryCovered
  <2>3. FrameOf(b) \in ReservedFrames
    BY <2>2 DEF ReservedFrames
  <2> QED
    BY <1>2, <2>3 DEF IInv, PinnedStayLocked, Pinned
<1>3. IInv => ReservedBytesKept
  BY <1>1, <1>2 DEF ReservedBytesKept
<1> QED
  BY <1>3, Inductive, PTL
-----------------------------------------------------------------------------
(* The answers of RequestPage and RequestPages *)

\* Frame 0 is never free, so that no answer but the failure is NULL.
LEMMA FrameZeroLocked == ASSUME IInv, Initialized PROVE 0 \in locked
<1>1. 0 \in Indices /\ 0 \in 0..(LowFrames - 1) /\ Offset(0) = 0
  BY SizesAreNaturals, ParameterAssumption DEF Indices, Offset
<1>2. 0 \in Span(0, LowFrames)
  BY <1>1 DEF Span
<1> QED
  BY <1>2 DEF IInv, PinnedStayLocked, Pinned, ReservedFrames

\* In front of the place where a search starts nothing is free.
LEMMA LockedBelowStart ==
    ASSUME PageBitmapIndex \in 0..Bits, NEW y \in 0..(SearchStart - 1)
    PROVE  y \in locked
<1> DEFINE below == {i \in 0..(PageBitmapIndex - 1) : i \notin locked}
<1>0. PageBitmapIndex \in Nat
  BY SizesAreNaturals
<1>1. CASE below = {}
  <2>1. y \in 0..(PageBitmapIndex - 1)
    BY <1>1 DEF SearchStart
  <2> QED
    BY <1>1, <2>1
<1>2. CASE below # {}
  <2>1. below \subseteq Nat
    BY <1>0
  <2>2. PICK low \in below : \A j \in below : low <= j
    BY <1>2, <2>1, NatMinimum
  <2>3. Lowest(below) \in below /\ \A j \in below : Lowest(below) <= j
    BY <2>2 DEF Lowest
  <2>4. SearchStart = Lowest(below)
    BY <1>2 DEF SearchStart
  <2>5. y \notin below
    BY <1>0, <2>3, <2>4
  <2>6. y \in 0..(PageBitmapIndex - 1)
    BY <1>0, <2>3, <2>4
  <2> QED
    BY <2>5, <2>6
<1> QED
  BY <1>1, <1>2

\* The step of the search of RequestPages from frame x on.
SearchStep(f, x, taken, bits, amount) ==
    IF x >= bits THEN bits
    ELSE IF x \in taken THEN f[x + 1]
    ELSE IF Run(x, amount) \intersect taken = {} THEN x
    ELSE f[x + amount + 1]

\* Some function describes the search among the last n frames and behind them.
HasSearch(taken, bits, amount, n) ==
    \E f \in [{x \in Nat : x + n >= bits} -> Nat] :
        \A x \in Nat : x + n >= bits => f[x] = SearchStep(f, x, taken, bits, amount)

\* The search ends: what it answers is defined by where it goes on.
LEMMA SearchEnds ==
    ASSUME NEW taken, NEW bits \in Nat, NEW amount \in Nat, NEW N \in Nat
    PROVE  HasSearch(taken, bits, amount, N)
<1> DEFINE S == {n \in Nat : ~ HasSearch(taken, bits, amount, n)}
<1> SUFFICES ASSUME S # {} PROVE FALSE
  OBVIOUS
<1>1. PICK n \in S : \A y \in S : n <= y
  BY NatMinimum
<1>2. CASE n = 0
  <2> DEFINE f == [x \in {x \in Nat : x + n >= bits} |-> bits]
  <2>1. /\ f \in [{x \in Nat : x + n >= bits} -> Nat]
        /\ \A x \in Nat : x + n >= bits => f[x] = bits /\ x >= bits
    BY <1>2
  <2> HIDE DEF f
  <2> QED
    BY <1>1, <2>1 DEF HasSearch, SearchStep
<1>3. CASE n # 0
  <2>1. n \in Nat /\ n - 1 \in Nat /\ n - 1 \notin S
    BY <1>1, <1>3
  <2> DEFINE D == {x \in Nat : x + (n - 1) >= bits}
  <2>2. PICK f \in [D -> Nat] :
            \A x \in Nat : x + (n - 1) >= bits => f[x] = SearchStep(f, x, taken, bits, amount)
    BY <2>1 DEF HasSearch
  <2> DEFINE g == [x \in {x \in Nat : x + n >= bits} |->
                      IF x \in D THEN f[x] ELSE SearchStep(f, x, taken, bits, amount)]
  <2>3. ASSUME NEW x \in Nat, x + n >= bits
        PROVE  /\ x + 1 \in D /\ x + amount + 1 \in D
               /\ SearchStep(f, x, taken, bits, amount) \in Nat
    <3>1. x + 1 \in D /\ x + amount + 1 \in D
      BY <2>1, <2>3
    <3>2. f[x + 1] \in Nat /\ f[x + amount + 1] \in Nat
      BY <2>2, <3>1
    <3> QED
      BY <3>1, <3>2 DEF SearchStep
  <2>4. \A x \in D : x \in Nat /\ x + n >= bits /\ f[x] \in Nat
    BY <2>1, <2>2
  <2>5. /\ g \in [{x \in Nat : x + n >= bits} -> Nat]
        /\ \A x \in D : g[x] = f[x]
        /\ \A x \in Nat : x + n >= bits => g[x] = SearchStep(f, x, taken, bits, amount)
    <3> HIDE DEF D
    <3>1. \A x \in Nat : x + n >= bits =>
              (IF x \in D THEN f[x] ELSE SearchStep(f, x, taken, bits, amount)) \in Nat
      BY <2>3, <2>4
    <3>2. \A x \in D : g[x] = f[x]
      BY <2>4
    <3>3. \A x \in D : f[x] = SearchStep(f, x, taken, bits, amount)
      BY <2>2 DEF D
    <3> QED
      BY <3>1, <3>2, <3>3
  <2> HIDE DEF g
  <2>6. \A x \in Nat : x + n >= bits =>
            SearchStep(g, x, taken, bits, amount) = SearchStep(f, x, taken, bits, amount)
    <3> SUFFICES ASSUME NEW x \in Nat, x + n >= bits
                 PROVE  SearchStep(g, x, taken, bits, amount) = SearchStep(f, x, taken, bits, amount)
      OBVIOUS
    <3>1. g[x + 1] = f[x + 1] /\ g[x + amount + 1] = f[x + amount + 1]
      BY <2>3, <2>5
    <3> QED
      BY <3>1 DEF SearchStep
  <2> QED
    BY <1>1, <2>5, <2>6 DEF HasSearch
<1> QED
  BY <1>2, <1>3

\* What FirstRun answers is found step by step.
LEMMA SearchSteps ==
    ASSUME NEW taken, NEW bits \in Nat, NEW amount \in Nat
    PROVE  \E f : /\ \A x \in Nat : f[x] = SearchStep(f, x, taken, bits, amount)
                  /\ \A start : FirstRun(taken, bits, start, amount) = f[start]
<1> DEFINE Steps(f) == [x \in Nat |->
                            IF x >= bits THEN bits
                            ELSE IF x \in taken THEN f[x + 1]
                            ELSE IF Run(x, amount) \intersect taken = {} THEN x
                            ELSE f[x + amount + 1]]
           from == CHOOSE f : f = Steps(f)
<1>1. PICK f \in [{x \in Nat : x + bits >= bits} -> Nat] :
          \A x \in Nat : x + bits >= bits => f[x] = SearchStep(f, x, taken, bits, amount)
  BY SearchEnds DEF HasSearch
<1>2. f = Steps(f)
  <2>1. {x \in Nat : x + bits >= bits} = Nat
    OBVIOUS
  <2>2. f \in [Nat -> Nat] /\ \A x \in Nat : f[x] = SearchStep(f, x, taken, bits, amount)
    BY <1>1, <2>1
  <2> QED
    BY <2>2 DEF SearchStep
<1>3. from = Steps(from)
  <2> HIDE DEF Steps
  <2> QED
    BY <1>2
<1>4. \A x \in Nat : from[x] = SearchStep(from, x, taken, bits, amount)
  <2> HIDE DEF from
  <2> QED
    BY <1>3 DEF SearchStep
<1>5. \A start : FirstRun(taken, bits, start, amount) = from[start]
  BY DEF FirstRun
<1> HIDE DEF from
<1> QED
  BY <1>4, <1>5

\* A run of 2 * amount - 1 free frames is not missed by a search that starts in
\* front of it: the last skip that starts in front of the run ends in its first
\* amount frames.
LEMMA LongRunNotMissed ==
    ASSUME NEW taken, NEW bits \in Nat, NEW amount \in Nat \ {0},
           NEW s \in 0..(bits - (2 * amount - 1)),
           Run(s, 2 * amount - 1) \intersect taken = {},
           NEW start \in 0..s
    PROVE  FirstRun(taken, bits, start, amount) < bits
<1>1. PICK f : /\ \A x \in Nat : f[x] = SearchStep(f, x, taken, bits, amount)
               /\ \A x : FirstRun(taken, bits, x, amount) = f[x]
  BY SearchSteps
<1>2. s \in Nat /\ s + 2 * amount - 1 <= bits
  OBVIOUS
<1>3. ASSUME NEW x \in s..(s + amount - 1) PROVE f[x] = x /\ x < bits
  <2>1. x \in Nat /\ x < bits /\ x \in Run(x, amount)
        /\ Run(x, amount) \subseteq Run(s, 2 * amount - 1)
    BY <1>2, <1>3 DEF Run
  <2>2. x \notin taken /\ Run(x, amount) \intersect taken = {}
    BY <2>1
  <2> QED
    BY <1>1, <2>1, <2>2 DEF SearchStep
<1> DEFINE T == {d \in 0..s : ~(f[s - d] < bits)}
<1>4. T = {}
  <2> SUFFICES ASSUME T # {} PROVE FALSE
    OBVIOUS
  <2>1. PICK d \in T : \A e \in T : d <= e
    <3>1. T \subseteq Nat
      BY <1>2
    <3> HIDE DEF T
    <3> QED
      BY <3>1, NatMinimum
  <2> DEFINE m == s - d
  <2>2. m \in 0..s /\ ~(f[m] < bits) /\ m \in Nat /\ d \in 0..s
    BY <1>2, <2>1
  <2>3. \A x \in (m + 1)..s : f[x] < bits
    <3> SUFFICES ASSUME NEW x \in (m + 1)..s, ~(f[x] < bits) PROVE FALSE
      OBVIOUS
    <3>1. s - x \in 0..s /\ s - (s - x) = x /\ s - x < d
      BY <1>2, <2>2
    <3> QED
      BY <2>1, <2>2, <3>1
  <2>4. m < s
    BY <1>2, <1>3, <2>2
  <2> HIDE DEF m, T
  <2>5. m < bits /\ m + 1 \in (m + 1)..s
    BY <1>2, <2>2, <2>4
  <2>6. m \notin taken
    BY <1>1, <2>2, <2>3, <2>5 DEF SearchStep
  <2>7. PICK y \in Run(m, amount) : y \in taken
    BY <1>1, <2>2, <2>5, <2>6 DEF SearchStep
  <2>8. y \in (m + 1)..(s - 1)
    <3>1. y \in m..(m + amount - 1) /\ y # m /\ y \notin s..(s + (2 * amount - 1) - 1)
      BY <2>6, <2>7 DEF Run
    <3> QED
      BY <1>2, <2>2, <2>4, <3>1
  <2>9. f[m] = f[m + amount + 1]
    BY <1>1, <2>2, <2>5, <2>6, <2>7 DEF SearchStep
  <2>10. m + amount + 1 \in (m + 1)..s \/ m + amount + 1 \in s..(s + amount - 1)
    BY <1>2, <2>2, <2>8
  <2> QED
    BY <1>3, <2>2, <2>3, <2>9, <2>10
<1>5. s - start \in 0..s /\ s - (s - start) = start
  BY <1>2
<1> QED
  BY <1>1, <1>4, <1>5

\* RequestPage answers NULL exactly when no frame is free, and with a frame that is
\* not there only when all others are taken; RequestPages answers NULL only if no
\* run of nearly twice the length asked for is free; for every memory map.
THEOREM RequestsAnswered == Spec => RequestAnswers
<1>1. ASSUME IInv, RequestPage
      PROVE  /\ result' = NULL <=> 0..(Bits - 1) \subseteq locked
             /\ result' < MemoryFrames \/ 0..(MemoryFrames - 1) \subseteq locked
  <2>1. /\ SearchStart \in 0..Bits /\ Bits \in Nat /\ MemoryFrames \in 0..(Bits - 1)
        /\ \A y \in 0..(SearchStart - 1) : y \in locked
    <3>1. MemoryFrames < Bits /\ MemoryFrames \in Nat /\ Bits \in Nat
      BY SizesAreNaturals DEF Bits, Size
    <3>2. PageBitmapIndex \in 0..Bits
      BY <1>1 DEF IInv, TypeOK
    <3> QED
      BY <3>1, <3>2, SearchStartBelowHint, LockedBelowStart
  <2>2. ASSUME NEW x \in SearchStart..(Bits - 1), x \notin locked, result' = x,
               \A y \in SearchStart..(x - 1) : y \in locked
        PROVE  /\ result' = NULL <=> 0..(Bits - 1) \subseteq locked
               /\ result' < MemoryFrames \/ 0..(MemoryFrames - 1) \subseteq locked
    <3>1. x # 0
      BY <1>1, <2>2, FrameZeroLocked DEF RequestPage
    <3>2. \A y \in 0..(x - 1) : y \in locked
      BY <2>1, <2>2
    <3>3. x \in 0..(Bits - 1) /\ ~(0..(Bits - 1) \subseteq locked)
      BY <2>1, <2>2
    <3>4. x < MemoryFrames \/ 0..(MemoryFrames - 1) \subseteq locked
      BY <2>1, <3>2, <3>3
    <3> QED
      BY <2>2, <3>1, <3>3, <3>4 DEF NULL
  <2>3. ASSUME \A x \in SearchStart..(Bits - 1) : x \in locked, result' = NULL
        PROVE  /\ result' = NULL <=> 0..(Bits - 1) \subseteq locked
               /\ result' < MemoryFrames \/ 0..(MemoryFrames - 1) \subseteq locked
    <3>1. 0..(Bits - 1) \subseteq locked
      BY <2>1, <2>3
    <3>2. 0..(MemoryFrames - 1) \subseteq locked
      BY <2>1, <3>1
    <3> QED
      BY <2>3, <3>1, <3>2
  <2> QED
    BY <1>1, <2>2, <2>3 DEF RequestPage
<1>2. IInv /\ [Next]_vars
        => [RequestPage => (result' = NULL <=> 0..(Bits - 1) \subseteq locked)]_vars
  BY <1>1
<1>3. IInv /\ [Next]_vars
        => [RequestPage => \/ result' < MemoryFrames
                           \/ 0..(MemoryFrames - 1) \subseteq locked]_vars
  BY <1>1
<1>4. Spec => NullMeansExhausted
  BY <1>2, Inductive, PTL DEF Spec, NullMeansExhausted
<1>5. Spec => LowMemoryFirst
  BY <1>3, Inductive, PTL DEF Spec, LowMemoryFirst
<1>6. ASSUME IInv, NEW amount \in 1..MaxRun, result' = NULL, RequestPages(amount),
             NEW s \in 0..(Bits - (2 * amount - 1)),
             Run(s, 2 * amount - 1) \intersect locked = {}
      PROVE  FALSE
  <2>1. /\ amount \in Nat \ {0} /\ Bits \in Nat /\ s \in Nat
        /\ PageBitmapIndex \in 0..Bits /\ SearchStart \in 0..PageBitmapIndex
    BY <1>6, SizesAreNaturals, SearchStartBelowHint, ParameterAssumption DEF IInv, TypeOK
  <2>2. s \notin locked
    BY <1>6, <2>1 DEF Run
  <2>3. SearchStart \in 0..s
    <3>1. s \notin 0..(SearchStart - 1)
      BY <2>1, <2>2, LockedBelowStart
    <3> QED
      BY <2>1, <3>1
  <2>4. FirstRun(locked, Bits, SearchStart, amount) < Bits
    BY <1>6, <2>1, <2>3, LongRunNotMissed
  <2>5. PICK x \in SearchStart..(Bits - 1) :
            Run(x, amount) \intersect locked = {} /\ result' = x
    BY <1>6, <2>1, <2>4 DEF RequestPages
  <2>6. x = 0 /\ 0 \in Run(x, amount)
    BY <1>6, <2>1, <2>5 DEF Run, NULL
  <2> QED
    BY <1>6, <2>5, <2>6, FrameZeroLocked DEF RequestPages
<1>7. IInv /\ [Next]_vars
        => [\A amount \in 1..MaxRun :
               result' = NULL /\ RequestPages(amount) =>
                   ~\E s \in 0..(Bits - (2 * amount - 1)) :
                         Run(s, 2 * amount - 1) \intersect locked = {}]_vars
  BY <1>6
<1>8. Spec => LongRunFound
  BY <1>7, Inductive, PTL DEF Spec, LongRunFound
<1> QED
  BY <1>4, <1>5, <1>8 DEF RequestAnswers
=============================================================================
