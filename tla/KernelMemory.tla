----------------------------- MODULE KernelMemory -----------------------------
(***************************************************************************)
(* How Kernel::KernelStart (kernel.cpp) builds the address space, and what *)
(* the kernel does to it afterwards: the identity map of all memory, its   *)
(* higher-half copy, the kernel's own regions, CR3, the heap window, and   *)
(* then, in any order, heap growth (ExpandHeap), writes to the heap,       *)
(* device registers (PCI, AHCI) and the frames that the AHCI driver uses   *)
(* at their physical address.                                              *)
(*                                                                         *)
(* The heap window lies INSIDE the identity map: from initializeHeap on,   *)
(* its pages no longer lead to the frames of the same number, and a table  *)
(* in one of those frames is out of MapMemory's reach.                     *)
(***************************************************************************)
EXTENDS PageTables, SequencesExt

CONSTANTS
    HigherHalf,     \* first page of the higher-half copy
    Regions,        \* the kernel's regions: <<[base, length], ...>>, in pages
    VirtualBase, PhysicalBase,      \* where the boot loader put the kernel
    HeapStarts,     \* first page of the heap window, 0x1000 in the code
    HeapPages,      \* 0x10 pages at initializeHeap
    MaxHeapPages,   \* bound: pages the heap grows to
    DevicePages,    \* pages of device registers, above the memory
    MaxDriverPages, \* bound: frames drivers take
    HeapData        \* entries that heap data reads as, seen as a table

ASSUME KernelMemoryAssumption ==
    /\ HigherHalf \in Nat /\ VirtualBase \in Nat /\ PhysicalBase \in Nat
    \* Memory, its copy and the kernel lie one behind the other.
    /\ RamFrames <= HigherHalf /\ HigherHalf + RamFrames <= VirtualBase
    /\ VirtualBase \in Pages
    /\ Regions \in Seq([base : Nat, length : Nat])
    /\ \A r \in DOMAIN Regions :
          /\ Regions[r].base >= VirtualBase
          /\ Regions[r].base + Regions[r].length <= Fanout * Fanout * Fanout * Fanout
    \* The heap window lies inside memory, no device in it, and neither memory
    \* nor devices under the entry of the PML4 that the copy begins with.
    /\ HeapPages \in Nat \ {0} /\ MaxHeapPages \in Nat /\ HeapPages <= MaxHeapPages
    /\ MaxDriverPages \in Nat
    /\ \A h \in HeapStarts : h \in Nat /\ h + MaxHeapPages <= RamFrames
    /\ DevicePages \subseteq Pages
    /\ \A h \in HeapStarts, v \in DevicePages : v \notin h..(h + MaxHeapPages - 1)
    /\ \A v \in Ram \union DevicePages : PDP_i(v) # PDP_i(HigherHalf)
    /\ HeapData \subseteq Int

VARIABLES
    loop,        \* the loop of KernelStart that is running
    next,        \* how many pages it has mapped
    heapStart,   \* first page of the heap window
    heap,        \* the frames behind it, in order
    devices,     \* device pages mapped
    driver       \* frames drivers hold

kvars == <<loop, next, heapStart, heap, devices, driver>>
vars  == <<ptvars, kvars>>

\* The three loops of KernelStart, the last one for each region: the first page
\* and the frame it is mapped to, and how many follow one another.
Loops ==
    << [page |-> 0, frame |-> 0, length |-> RamFrames],
       [page |-> HigherHalf, frame |-> 0, length |-> RamFrames] >>
    \o [r \in DOMAIN Regions |->
           [page   |-> Regions[r].base,
            frame  |-> PhysicalBase + (Regions[r].base - VirtualBase),
            length |-> Regions[r].length]]

heapEnd == heapStart + Len(heap)
Window  == heapStart..(heapEnd - 1)

KernelInit == /\ Init
              /\ loop = 1 /\ next = 0
              /\ heapStart \in HeapStarts
              /\ heap = <<>>
              /\ devices = {} /\ driver = {}

BootMap == /\ loop <= Len(Loops) /\ next < Loops[loop].length
           /\ MapMemory(Loops[loop].page + next, Loops[loop].frame + next)
           /\ next' = next + 1
           /\ UNCHANGED <<loop, heapStart, heap, devices, driver>>

EndLoop == /\ ~fault
           /\ loop <= Len(Loops) /\ next = Loops[loop].length
           /\ loop' = loop + 1 /\ next' = 0
           /\ UNCHANGED <<ptvars, heapStart, heap, devices, driver>>

\* Mutant of LoadCR3: the tables are loaded before the loops have run.
LoadCR3Early == /\ (loop > 1 \/ next > 1) /\ ~loaded /\ ~fault
                /\ loaded' = TRUE
                /\ UNCHANGED <<mem, free, root, fault, kvars>>

LoadCR3 == /\ loop > Len(Loops) /\ ~loaded /\ ~fault
           /\ loaded' = TRUE
           /\ UNCHANGED <<mem, free, root, fault, kvars>>

\* Mutant of MapFresh: the frame that is mapped stays in the pool.
MapFreshUnlocked(v, p) == Become(MapFrom(Start, v, p))

\* MapMemory(v, RequestPage()): the argument is evaluated first.
MapFresh(v, p) == Become(MapFrom([Start EXCEPT !.free = @ \ {p}], v, p))

\* One page of initializeHeap's or of ExpandHeap's loop.
GrowHeap(limit) == /\ loaded /\ ~fault
                   /\ Len(heap) < limit
                   /\ MapFresh(heapEnd, RequestPage(free))
                   /\ heap' = Append(heap, RequestPage(free))
                   /\ UNCHANGED <<root, loaded, loop, next, heapStart, devices, driver>>

InitializeHeap == Len(heap) < HeapPages /\ GrowHeap(HeapPages)

Running == Len(heap) >= HeapPages /\ ~fault

ExpandHeap == Running /\ GrowHeap(MaxHeapPages)

\* The frame that a write to page v reaches.
Reached(v) == Deref(mem, v)

\* Somebody fills a page of the heap with data.
WriteHeap(v, value) ==
    /\ Running
    /\ v \in Window
    /\ Reached(v) \in Ram
    /\ mem' = [mem EXCEPT ![Reached(v)] = [i \in Slots |-> value]]
    /\ UNCHANGED <<free, root, loaded, fault, kvars>>

\* Configuration space and ABAR: MapMemory(address, address).
MapDevice(v) == /\ Running
                /\ MapMemory(v, v)
                /\ devices' = devices \union {v}
                /\ UNCHANGED <<loop, next, heapStart, heap, driver>>

\* Port::Configure and AHCIDriver: a frame is requested and cleared through
\* the pointer that equals its physical address.
TakeDriverFrame ==
    /\ Running
    /\ Cardinality(driver) < MaxDriverPages
    /\ LET f == RequestPage(free)
       IN /\ free' = free \ {f}
          /\ driver' = driver \union {f}
          /\ IF Reached(f) \in Ram
             THEN mem' = [mem EXCEPT ![Reached(f)] = EmptyTable] /\ UNCHANGED fault
             ELSE fault' = TRUE /\ UNCHANGED mem
    /\ UNCHANGED <<root, loaded, loop, next, heapStart, heap, devices>>

KernelNext == \/ BootMap
              \/ EndLoop
              \/ LoadCR3
              \/ InitializeHeap
              \/ ExpandHeap
              \/ \E v \in Window, value \in HeapData : WriteHeap(v, value)
              \/ \E v \in DevicePages : MapDevice(v)
              \/ TakeDriverFrame

KernelSpec == KernelInit /\ [][KernelNext]_vars
-----------------------------------------------------------------------------
(* Properties *)

\* Every variable of the boot sequence has its type: no loop maps a page
\* too many, and the heap stays within the bound.
KernelTypeOK == /\ loop \in 1..(Len(Loops) + 1)
                /\ next \in Nat
                /\ loop <= Len(Loops) => next <= Loops[loop].length
                /\ heapStart \in HeapStarts
                /\ heap \in Seq(Nat) /\ Len(heap) <= MaxHeapPages
                /\ devices \subseteq DevicePages
                /\ driver \subseteq Nat

AllTables == Tables \union {root}

\* Tables that MapMemory can no longer reach by their physical address.
Shadowed == {f \in AllTables : loaded /\ Walk(mem, root, f) # f}

\* Tables of the higher-half copy: nothing is mapped there after CR3.
HigherTables ==
    LET top == {<<root, PDP_i(HigherHalf)>>}
        second == Level(Below(top))
    IN Below(top) \union Below(second) \union Below(Level(Below(second)))

\* The heap window covers tables that are still walked.
Corrupting == Shadowed \ HigherTables # {}

\* The pages mapped by loop l, and the pairs of all the loops so far.
Mapped(l) == IF l < loop THEN Loops[l].length ELSE IF l = loop THEN next ELSE 0

Booted == UNION {{<<Loops[l].page + n, Loops[l].frame + n>> : n \in 0..(Mapped(l) - 1)} :
                     l \in DOMAIN Loops}

\* What the calls of MapMemory so far have asked for, last call first.
Intended ==
    LET booted == Booted
    IN [v \in Pages |->
          IF v \in Window THEN heap[v - heapStart + 1]
          ELSE IF v \in devices THEN v
          ELSE IF \E m \in booted : m[1] = v
               THEN (CHOOSE m \in booted : m[1] = v)[2]
          ELSE Absent]

\* From the first boot mapping to any later mix of heap growth, heap writes,
\* device mappings and driver frames, the processor translates every page as
\* the kernel asked, unless frames have run out or the heap window has been
\* laid over a table that is still needed.
IntendedSpace == Supplied /\ ~Corrupting => Translation = Intended

\* Only the heap window comes between MapMemory and its tables: as long as it
\* hides none that is still walked, every table outside it is seen at its own
\* address.
ShadowedByHeapOnly ==
    Supplied /\ (Shadowed \ HigherTables) \intersect Window = {} =>
        Shadowed \subseteq Window

\* Each frame behind the heap is behind one heap page only, is no table, is
\* not in a driver's hands and not in the pool.
HeapFramesPrivate ==
    Supplied =>
        /\ IsInjective(heap)
        /\ ToSet(heap) \intersect (AllTables \union driver \union free) = {}

\* The frames of the heap are the heap's, and the tables can be found, as long as
\* boot and the heap stay within their bounds.
KernelInv == KernelTypeOK /\ HeapFramesPrivate /\ ShadowedByHeapOnly

\* MapMemory and drivers fault only for want of frames or of the tables the
\* heap window hides.
FaultExplained == fault => ~Supplied \/ Corrupting

\* What the heap holds changes by writes to the heap only, as long as no
\* frame taken by a step lies in the window, where clearing it by its
\* physical address clears heap data instead.
HeapContentsStable ==
    [][\/ ~Supplied \/ Corrupting
       \/ (free \ free') \intersect Window # {}
       \/ \E v \in Window, value \in HeapData : WriteHeap(v, value)
       \/ \A f \in ToSet(heap) : mem'[f] = mem[f]]_vars
=============================================================================
