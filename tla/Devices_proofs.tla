--------------------------- MODULE Devices_proofs ---------------------------
(***************************************************************************)
(* Proofs about Devices, for any segments, numbers of devices and          *)
(* functions, machines, root tables and lists of processors.               *)
(***************************************************************************)
EXTENDS Devices, FiniteSetTheorems, TLAPS

After == {"madt", "core", "drivers", "done"}

\* Where the walk is, level by level; it goes down only behind a header that is
\* there, on a bus that is not the last.
WalkInOrder ==
    /\ position \in Nat \X Nat \X Nat \X Nat
    /\ position[1] \in 1..(Len(Segments) + 1)
    /\ pc = "prepare" => position[1] = 1
    /\ pc \in {"bus", "device", "function"} =>
           position[1] \in DOMAIN Segments /\ position[2] >= Segments[position[1]].start
    /\ pc = "bus" => position[3] = 0 /\ position[4] = 0
    /\ pc \in {"device", "function"} =>
           InRange /\ <<position[1], position[2], 0, 0>> \in present
    /\ pc = "device" => position[4] = 0 /\ position[3] <= LastDevice + 1
    /\ pc = "function" => /\ position[3] <= LastDevice /\ position[4] <= LastFunction + 1
                          /\ <<position[1], position[2], position[3], 0>> \in present
    /\ pc \in After => position[1] = Len(Segments) + 1

\* The functions in front of that place.
Behind(f) ==
    \/ f[1] < position[1]
    \/ /\ f[1] = position[1] /\ pc \in {"bus", "device", "function"}
       /\ \/ f[2] < position[2]
          \/ /\ f[2] = position[2] /\ pc \in {"device", "function"}
             /\ \/ f[3] < position[3]
                \/ f[3] = position[3] /\ pc = "function" /\ f[4] < position[4]

\* What the walk is to find.
Wanted(f) == /\ f \in Functions /\ f \in present /\ <<f[1], f[2], f[3], 0>> \in present
             /\ ~PassedOver(f)

Listed(f) == \E k \in DOMAIN PCIDevices : PCIDevices[k] = f

ListSoFar ==
    /\ PCIDevices \in Seq(Functions)
    /\ \A k, l \in DOMAIN PCIDevices : PCIDevices[k] = PCIDevices[l] => k = l
    /\ \A f : Listed(f) <=> Wanted(f) /\ Behind(f)

Places == {"prepare", "null", "wild", "segment", "bus", "device", "function"} \union After

\* As long as no heap header is in the vector.
WInv == pc \in Places /\ WalkInOrder /\ ListSoFar

\* Afterwards, the rest of it.
CInv ==
    /\ pc \in {"drivers", "done", "wild"} /\ WalkInOrder
    /\ PCIDevices \in Seq(Functions \union {HeapHeader})
    /\ \A k, l \in DOMAIN PCIDevices : PCIDevices[k] = PCIDevices[l] => k = l
    /\ \A f \in Functions : Listed(f) => Wanted(f)
    /\ 3 \in DOMAIN PCIDevices /\ PCIDevices[3] = HeapHeader

IInv == WInv \/ CInv
-----------------------------------------------------------------------------
\* A function is a tuple of a segment, one of its buses, a device and a number.
LEMMA FunctionParts ==
    ASSUME NEW f
    PROVE  f \in Functions <=>
              /\ f = <<f[1], f[2], f[3], f[4]>>
              /\ f[1] \in DOMAIN Segments
              /\ f[2] \in Segments[f[1]].start..Segments[f[1]].end
              /\ f[3] \in 0..LastDevice /\ f[4] \in 0..LastFunction
<1>1. ASSUME f \in Functions
      PROVE  /\ f = <<f[1], f[2], f[3], f[4]>>
             /\ f[1] \in DOMAIN Segments
             /\ f[2] \in Segments[f[1]].start..Segments[f[1]].end
             /\ f[3] \in 0..LastDevice /\ f[4] \in 0..LastFunction
  <2>1. PICK s \in DOMAIN Segments : \E b \in Segments[s].start..Segments[s].end,
            d \in 0..LastDevice, k \in 0..LastFunction : f = <<s, b, d, k>>
    BY <1>1 DEF Functions
  <2> QED
    BY <2>1
<1>2. ASSUME f = <<f[1], f[2], f[3], f[4]>>, f[1] \in DOMAIN Segments,
             f[2] \in Segments[f[1]].start..Segments[f[1]].end,
             f[3] \in 0..LastDevice, f[4] \in 0..LastFunction
      PROVE  f \in Functions
  BY <1>2 DEF Functions
<1> QED
  BY <1>1, <1>2

LEMMA SegmentParts ==
    /\ Len(Segments) \in Nat /\ DOMAIN Segments = 1..Len(Segments)
    /\ \A s \in DOMAIN Segments : Segments[s].start \in Nat /\ Segments[s].end \in Nat
<1> DEFINE Entry == [start : Nat, end : Nat]
<1>1. Segments \in Seq(Entry)
  BY DevicesAssumption
<1>2. \A e \in Entry : e.start \in Nat /\ e.end \in Nat
  OBVIOUS
<1> HIDE DEF Entry
<1>3. \A s \in DOMAIN Segments : Segments[s] \in Entry
  BY <1>1
<1>4. Len(Segments) \in Nat /\ DOMAIN Segments = 1..Len(Segments)
  BY <1>1
<1> QED
  BY <1>2, <1>3, <1>4

LEMMA InitWInv == Init => WInv
<1> SUFFICES ASSUME Init PROVE WInv
  OBVIOUS
<1>1. position = <<1, 0, 0, 0>> /\ pc = "prepare" /\ PCIDevices = <<>>
  BY DEF Init
<1>2. WalkInOrder
  BY <1>1, SegmentParts DEF WalkInOrder, After
<1>3. \A f : ~Listed(f)
  BY <1>1 DEF Listed
<1>4. ASSUME NEW f, Wanted(f) PROVE ~Behind(f)
  <2>1. f[1] \in 1..Len(Segments)
    BY <1>4, FunctionParts, SegmentParts DEF Wanted
  <2> QED
    BY <1>1, <2>1, SegmentParts DEF Behind
<1> QED
  BY <1>1, <1>2, <1>3, <1>4 DEF WInv, ListSoFar, Places

\* Steps that find nothing.
LEMMA ListStays ==
    ASSUME ListSoFar, PCIDevices' = PCIDevices, present' = present,
           \A f : Wanted(f) => (Behind(f)' <=> Behind(f))
    PROVE  ListSoFar'
<1>1. \A f : Wanted(f)' <=> Wanted(f)
  BY DEF Wanted, PassedOver
<1>2. \A f : Listed(f)' <=> Listed(f)
  BY DEF Listed
<1> QED
  BY <1>1, <1>2 DEF ListSoFar

\* The functions are numbered with numbers, so that they stand in an order.
LEMMA WantedNumbers ==
    ASSUME NEW f, Wanted(f)
    PROVE  /\ f[1] \in Nat /\ f[1] <= Len(Segments)
           /\ f[2] \in Nat /\ f[3] \in Nat /\ f[4] \in Nat
           /\ Segments[f[1]].start \in Nat /\ Segments[f[1]].end \in Nat
           /\ f[2] >= Segments[f[1]].start /\ f[2] < Segments[f[1]].end
           /\ f[3] <= LastDevice /\ f[4] <= LastFunction
           /\ <<f[1], f[2], 0, 0>> \in present /\ <<f[1], f[2], f[3], 0>> \in present
           /\ f = <<f[1], f[2], f[3], f[4]>> /\ f \in present
<1>1. /\ f[1] \in DOMAIN Segments
      /\ f[2] \in Segments[f[1]].start..Segments[f[1]].end
      /\ f[3] \in 0..LastDevice /\ f[4] \in 0..LastFunction
      /\ f = <<f[1], f[2], f[3], f[4]>>
  BY FunctionParts DEF Wanted
<1>2. f[2] # Segments[f[1]].end
  BY DEF Wanted, PassedOver
<1>3. Segments[f[1]].start \in Nat /\ Segments[f[1]].end \in Nat
  BY <1>1, SegmentParts
<1>4. <<f[1], f[2], 0, 0>> \in present /\ <<f[1], f[2], f[3], 0>> \in present /\ f \in present
  BY DEF Wanted, PassedOver
<1>5. f[1] \in Nat /\ f[1] <= Len(Segments)
  BY <1>1, SegmentParts
<1>6. f[2] \in Nat /\ f[2] >= Segments[f[1]].start /\ f[2] < Segments[f[1]].end
  <2>1. PICK s \in Nat, e \in Nat : s = Segments[f[1]].start /\ e = Segments[f[1]].end
    BY <1>3
  <2>2. f[2] \in s..e /\ f[2] # e
    BY <1>1, <1>2, <2>1
  <2>3. f[2] \in Nat /\ f[2] >= s /\ f[2] < e
    BY <2>1, <2>2
  <2> QED
    BY <2>1, <2>3
<1>7. f[3] \in Nat /\ f[4] \in Nat /\ f[3] <= LastDevice /\ f[4] <= LastFunction
  BY <1>1, DevicesAssumption
<1> QED
  BY <1>1, <1>3, <1>4, <1>5, <1>6, <1>7

\* A place is four numbers.
LEMMA PlaceParts ==
    ASSUME WalkInOrder
    PROVE  /\ position[1] \in Nat /\ position[2] \in Nat
           /\ position[3] \in Nat /\ position[4] \in Nat
           /\ position = <<position[1], position[2], position[3], position[4]>>
<1>1. position \in Nat \X Nat \X Nat \X Nat
  BY DEF WalkInOrder
<1> QED
  BY <1>1

\* The root tables.
LEMMA FindMCFGStep == ASSUME WInv, FindMCFG PROVE WInv'
<1>1. /\ pc = "prepare" /\ pc' \in {"segment", "null", "wild"}
      /\ position' = position /\ PCIDevices' = PCIDevices /\ present' = present
  BY DEF FindMCFG, FindTable, machine, walk
<1>2. WalkInOrder'
  BY <1>1 DEF WInv, WalkInOrder, After
<1>3. \A f : Behind(f)' <=> Behind(f)
  BY <1>1 DEF Behind
<1>4. ListSoFar'
  BY <1>1, <1>3, ListStays DEF WInv
<1> QED
  BY <1>1, <1>2, <1>4 DEF WInv, Places

LEMMA UseNullStep == ASSUME WInv, UseNull PROVE WInv'
<1>1. /\ pc = "null" /\ pc' = "wild"
      /\ position' = position /\ PCIDevices' = PCIDevices /\ present' = present
  BY DEF UseNull, machine, walk
<1>2. WalkInOrder'
  BY <1>1 DEF WInv, WalkInOrder, After
<1>3. \A f : Behind(f)' <=> Behind(f)
  BY <1>1 DEF Behind
<1>4. ListSoFar'
  BY <1>1, <1>3, ListStays DEF WInv
<1> QED
  BY <1>1, <1>2, <1>4 DEF WInv, Places

\* A segment begins with its first bus; there is none in front of it.
LEMMA NextSegmentStep == ASSUME WInv, NextSegment PROVE WInv'
<1>1. pc = "segment" /\ PCIDevices' = PCIDevices /\ present' = present
  BY DEF NextSegment, machine
<1>2. position[1] \in 1..(Len(Segments) + 1) /\ position[1] \in Nat
  BY SegmentParts DEF WInv, WalkInOrder
<1>3. CASE position[1] \in DOMAIN Segments
  <2>1. /\ pc' = "bus"
        /\ position' = <<position[1], Segments[position[1]].start, 0, 0>>
    BY <1>3 DEF NextSegment, Segment
  <2>2. Segments[position[1]].start \in Nat
    BY <1>3, SegmentParts
  <2>3. WalkInOrder'
    BY <1>2, <1>3, <2>1, <2>2 DEF WalkInOrder, After
  <2>4. ASSUME NEW f, Wanted(f) PROVE Behind(f)' <=> Behind(f)
    <3>1. /\ f[1] \in Nat /\ f[2] \in Nat /\ f[3] \in Nat /\ f[4] \in Nat
          /\ f[2] >= Segments[f[1]].start /\ f[2] < Segments[f[1]].end
          /\ f[3] <= LastDevice /\ f[4] <= LastFunction
          /\ <<f[1], f[2], 0, 0>> \in present /\ <<f[1], f[2], f[3], 0>> \in present
      BY <2>4, WantedNumbers
    <3> QED
      BY <1>1, <1>2, <2>1, <2>2, <3>1 DEF Behind
  <2>5. ListSoFar'
    BY <1>1, <2>4, ListStays DEF WInv
  <2> QED
    BY <2>1, <2>3, <2>5 DEF WInv, Places
<1>4. CASE position[1] \notin DOMAIN Segments
  <2>1. pc' = "madt" /\ position' = position
    BY <1>4 DEF NextSegment, Segment
  <2>2. position[1] = Len(Segments) + 1
    BY <1>2, <1>4, SegmentParts
  <2>3. WalkInOrder'
    BY <1>1, <2>1, <2>2 DEF WInv, WalkInOrder, After
  <2>4. \A f : Behind(f)' <=> Behind(f)
    BY <1>1, <2>1 DEF Behind
  <2>5. ListSoFar'
    BY <1>1, <2>4, ListStays DEF WInv
  <2> QED
    BY <2>1, <2>3, <2>5 DEF WInv, Places, After
<1> QED
  BY <1>3, <1>4

\* What follows the last bus that is walked, or stands on a bus without a first
\* header, is not wanted.
LEMMA EnumerateBusStep == ASSUME WInv, EnumerateBus PROVE WInv'
<1>1. pc = "bus" /\ PCIDevices' = PCIDevices /\ present' = present
  BY DEF EnumerateBus, machine
<1>2. /\ position[1] \in Nat /\ position[2] \in Nat
      /\ position = <<position[1], position[2], 0, 0>>
      /\ position[1] \in 1..Len(Segments) /\ position[1] \in DOMAIN Segments
      /\ position[2] >= Segments[position[1]].start
  BY <1>1, PlaceParts, SegmentParts DEF WInv, WalkInOrder
<1>3. Segments[position[1]].start \in Nat /\ Segments[position[1]].end \in Nat
  BY <1>2, SegmentParts
<1>4. CASE ~InRange /\ position' = Skip(1) /\ pc' = "segment"
  <2>1. position' = <<position[1] + 1, 0, 0, 0>> /\ pc' = "segment"
    BY <1>4 DEF Skip
  <2>2. ~(position[2] < Segments[position[1]].end)
    BY <1>4 DEF InRange
  <2>3. WalkInOrder'
    BY <1>2, <2>1, SegmentParts DEF WalkInOrder, After
  <2>4. ASSUME NEW f, Wanted(f) PROVE Behind(f)' <=> Behind(f)
    <3>1. /\ f[1] \in Nat /\ f[2] \in Nat /\ f[3] \in Nat /\ f[4] \in Nat
          /\ f[2] >= Segments[f[1]].start /\ f[2] < Segments[f[1]].end
          /\ f[3] <= LastDevice /\ f[4] <= LastFunction
          /\ <<f[1], f[2], 0, 0>> \in present /\ <<f[1], f[2], f[3], 0>> \in present
      BY <2>4, WantedNumbers
    <3> QED
      BY <1>1, <1>2, <1>3, <2>1, <2>2, <3>1 DEF Behind
  <2>5. ListSoFar'
    BY <1>1, <2>4, ListStays DEF WInv
  <2> QED
    BY <2>1, <2>3, <2>5 DEF WInv, Places
<1>5. CASE InRange /\ position \notin present /\ position' = Skip(2) /\ pc' = pc
  <2>1. position' = <<position[1], position[2] + 1, 0, 0>> /\ pc' = "bus"
    BY <1>1, <1>5 DEF Skip
  <2>2. <<position[1], position[2], 0, 0>> \notin present
    BY <1>2, <1>5
  <2>3. WalkInOrder'
    BY <1>2, <1>3, <2>1, SegmentParts DEF WalkInOrder, After
  <2>4. ASSUME NEW f, Wanted(f) PROVE Behind(f)' <=> Behind(f)
    <3>1. /\ f[1] \in Nat /\ f[2] \in Nat /\ f[3] \in Nat /\ f[4] \in Nat
          /\ f[2] >= Segments[f[1]].start /\ f[2] < Segments[f[1]].end
          /\ f[3] <= LastDevice /\ f[4] <= LastFunction
          /\ <<f[1], f[2], 0, 0>> \in present /\ <<f[1], f[2], f[3], 0>> \in present
      BY <2>4, WantedNumbers
    <3>2. f[1] = position[1] => f[2] # position[2]
      BY <2>2, <3>1
    <3> QED
      BY <1>1, <1>2, <2>1, <3>1, <3>2 DEF Behind
  <2>5. ListSoFar'
    BY <1>1, <2>4, ListStays DEF WInv
  <2> QED
    BY <2>1, <2>3, <2>5 DEF WInv, Places
<1>6. CASE InRange /\ position \in present /\ pc' = "device" /\ position' = position
  <2>1. /\ position[3] = 0 /\ position[4] = 0
        /\ <<position[1], position[2], 0, 0>> \in present
    BY <1>1, <1>2, <1>6 DEF WInv, WalkInOrder
  <2>2. InRange'
    BY <1>6 DEF InRange
  <2>3. WalkInOrder'
    BY <1>1, <1>2, <1>6, <2>1, <2>2, SegmentParts, DevicesAssumption
       DEF WInv, WalkInOrder, After
  <2>4. ASSUME NEW f, Wanted(f) PROVE Behind(f)' <=> Behind(f)
    <3>1. /\ f[1] \in Nat /\ f[2] \in Nat /\ f[3] \in Nat /\ f[4] \in Nat
          /\ f[2] >= Segments[f[1]].start /\ f[2] < Segments[f[1]].end
          /\ f[3] <= LastDevice /\ f[4] <= LastFunction
          /\ <<f[1], f[2], 0, 0>> \in present /\ <<f[1], f[2], f[3], 0>> \in present
      BY <2>4, WantedNumbers
    <3> QED
      BY <1>1, <1>2, <1>6, <2>1, <3>1 DEF Behind
  <2>5. ListSoFar'
    BY <1>1, <2>4, ListStays DEF WInv
  <2> QED
    BY <1>6, <2>3, <2>5 DEF WInv, Places
<1> QED
  BY <1>4, <1>5, <1>6 DEF EnumerateBus

\* So is what belongs to a device without a first header.
LEMMA EnumerateDeviceStep == ASSUME WInv, EnumerateDevice PROVE WInv'
<1>1. pc = "device" /\ PCIDevices' = PCIDevices /\ present' = present
  BY DEF EnumerateDevice, machine
<1>2. /\ position[1] \in Nat /\ position[2] \in Nat /\ position[3] \in Nat
      /\ position = <<position[1], position[2], position[3], 0>>
      /\ position[1] \in 1..Len(Segments) /\ position[1] \in DOMAIN Segments
      /\ position[2] >= Segments[position[1]].start
      /\ <<position[1], position[2], 0, 0>> \in present
      /\ position[3] <= LastDevice + 1 /\ position[4] = 0 /\ InRange
  BY <1>1, PlaceParts, SegmentParts DEF WInv, WalkInOrder
<1>3. Segments[position[1]].start \in Nat /\ Segments[position[1]].end \in Nat
  BY <1>2, SegmentParts
<1>4. LastDevice \in Nat /\ LastFunction \in Nat
  BY DevicesAssumption
<1>5. CASE position[3] > LastDevice /\ position' = Skip(2) /\ pc' = "bus"
  <2>1. position' = <<position[1], position[2] + 1, 0, 0>>
    BY <1>5 DEF Skip
  <2>2. WalkInOrder'
    BY <1>2, <1>3, <1>5, <2>1, SegmentParts DEF WalkInOrder, After
  <2>3. ASSUME NEW f, Wanted(f) PROVE Behind(f)' <=> Behind(f)
    <3>1. /\ f[1] \in Nat /\ f[2] \in Nat /\ f[3] \in Nat /\ f[4] \in Nat
          /\ f[2] >= Segments[f[1]].start /\ f[2] < Segments[f[1]].end
          /\ f[3] <= LastDevice /\ f[4] <= LastFunction
          /\ <<f[1], f[2], 0, 0>> \in present /\ <<f[1], f[2], f[3], 0>> \in present
      BY <2>3, WantedNumbers
    <3>2. /\ position'[1] = position[1] /\ position'[2] = position[2] + 1
          /\ pc = "device" /\ pc' = "bus"
      BY <1>1, <1>5, <2>1
    <3>3. /\ position[1] \in Nat /\ position[2] \in Nat /\ position[3] \in Nat
          /\ f[3] < position[3]
      BY <1>2, <1>4, <1>5, <3>1
    <3> QED
      BY <3>1, <3>2, <3>3 DEF Behind
  <2>4. ListSoFar'
    BY <1>1, <2>3, ListStays DEF WInv
  <2> QED
    BY <1>5, <2>2, <2>4 DEF WInv, Places
<1>6. CASE position[3] <= LastDevice /\ position \notin present
           /\ position' = Skip(3) /\ pc' = pc
  <2>1. position' = <<position[1], position[2], position[3] + 1, 0>> /\ pc' = "device"
    BY <1>1, <1>6 DEF Skip
  <2>2. <<position[1], position[2], position[3], 0>> \notin present
    BY <1>2, <1>6
  <2>3. InRange'
    BY <1>2, <2>1 DEF InRange
  <2>4. WalkInOrder'
    <3>1. /\ position'[1] = position[1] /\ position'[2] = position[2]
          /\ position'[3] = position[3] + 1 /\ position'[4] = 0
          /\ position' \in Nat \X Nat \X Nat \X Nat
      BY <1>2, <2>1
    <3>2. position[3] + 1 <= LastDevice + 1
      BY <1>2, <1>4, <1>6
    <3> QED
      BY <1>1, <1>2, <2>1, <2>3, <3>1, <3>2, SegmentParts DEF WalkInOrder, After
  <2>5. ASSUME NEW f, Wanted(f) PROVE Behind(f)' <=> Behind(f)
    <3>1. /\ f[1] \in Nat /\ f[2] \in Nat /\ f[3] \in Nat /\ f[4] \in Nat
          /\ f[2] >= Segments[f[1]].start /\ f[2] < Segments[f[1]].end
          /\ f[3] <= LastDevice /\ f[4] <= LastFunction
          /\ <<f[1], f[2], 0, 0>> \in present /\ <<f[1], f[2], f[3], 0>> \in present
      BY <2>5, WantedNumbers
    <3> QED
      BY <1>1, <1>2, <2>1, <2>2, <3>1 DEF Behind
  <2>6. ListSoFar'
    BY <1>1, <2>5, ListStays DEF WInv
  <2> QED
    BY <2>1, <2>4, <2>6 DEF WInv, Places
<1>7. CASE position[3] <= LastDevice /\ position \in present
           /\ pc' = "function" /\ position' = position
  <2>1. <<position[1], position[2], position[3], 0>> \in present
    BY <1>2, <1>7
  <2>2. InRange'
    BY <1>2, <1>7 DEF InRange
  <2>3. WalkInOrder'
    BY <1>1, <1>2, <1>4, <1>7, <2>1, <2>2, SegmentParts DEF WInv, WalkInOrder, After
  <2>4. ASSUME NEW f, Wanted(f) PROVE Behind(f)' <=> Behind(f)
    <3>1. /\ f[1] \in Nat /\ f[2] \in Nat /\ f[3] \in Nat /\ f[4] \in Nat
          /\ f[2] >= Segments[f[1]].start /\ f[2] < Segments[f[1]].end
          /\ f[3] <= LastDevice /\ f[4] <= LastFunction
          /\ <<f[1], f[2], 0, 0>> \in present /\ <<f[1], f[2], f[3], 0>> \in present
      BY <2>4, WantedNumbers
    <3> QED
      BY <1>1, <1>2, <1>7, <3>1 DEF Behind
  <2>5. ListSoFar'
    BY <1>1, <2>4, ListStays DEF WInv
  <2> QED
    BY <1>7, <2>3, <2>5 DEF WInv, Places
<1> QED
  BY <1>5, <1>6, <1>7 DEF EnumerateDevice

\* One more function at the end of the vector.
LEMMA ListGrows ==
    ASSUME ListSoFar, Wanted(position), ~Behind(position), present' = present,
           PCIDevices' = Append(PCIDevices, position),
           \A f : Wanted(f) => (Behind(f)' <=> Behind(f) \/ f = position)
    PROVE  ListSoFar'
<1>1. PCIDevices \in Seq(Functions) /\ position \in Functions
  BY DEF ListSoFar, Wanted
<1>2. ~Listed(position)
  BY DEF ListSoFar
<1>3. /\ PCIDevices' \in Seq(Functions)
      /\ DOMAIN PCIDevices' = 1..(Len(PCIDevices) + 1)
      /\ DOMAIN PCIDevices = 1..Len(PCIDevices) /\ Len(PCIDevices) \in Nat
      /\ \A k \in DOMAIN PCIDevices : PCIDevices'[k] = PCIDevices[k]
      /\ PCIDevices'[Len(PCIDevices) + 1] = position
  BY <1>1
<1>4. \A k \in DOMAIN PCIDevices' : k \in DOMAIN PCIDevices \/ k = Len(PCIDevices) + 1
  BY <1>3
<1>5. DOMAIN PCIDevices \subseteq DOMAIN PCIDevices'
      /\ Len(PCIDevices) + 1 \in DOMAIN PCIDevices'
  BY <1>3
<1>6. \A f : Listed(f)' <=> Listed(f) \/ f = position
  BY <1>3, <1>4, <1>5 DEF Listed
<1>7. ASSUME NEW k \in DOMAIN PCIDevices', NEW l \in DOMAIN PCIDevices',
             PCIDevices'[k] = PCIDevices'[l]
      PROVE  k = l
  <2>1. \A m \in DOMAIN PCIDevices : PCIDevices[m] # position
    BY <1>2 DEF Listed
  <2>2. CASE k \in DOMAIN PCIDevices /\ l \in DOMAIN PCIDevices
    BY <1>3, <1>7, <2>2 DEF ListSoFar
  <2>3. CASE k \in DOMAIN PCIDevices /\ l = Len(PCIDevices) + 1
    BY <1>3, <1>7, <2>1, <2>3
  <2>4. CASE l \in DOMAIN PCIDevices /\ k = Len(PCIDevices) + 1
    BY <1>3, <1>7, <2>1, <2>4
  <2> QED
    BY <1>4, <2>2, <2>3, <2>4
<1>8. \A f : Wanted(f)' <=> Wanted(f)
  BY DEF Wanted, PassedOver
<1>9. \A f : Listed(f)' <=> Wanted(f)' /\ Behind(f)'
  BY <1>6, <1>8 DEF ListSoFar
<1> QED
  BY <1>3, <1>7, <1>9 DEF ListSoFar

LEMMA EnumerateFunctionStep == ASSUME WInv, EnumerateFunction PROVE WInv'
<1>1. pc = "function" /\ present' = present
  BY DEF EnumerateFunction, machine
<1>2. /\ position[1] \in Nat /\ position[2] \in Nat
      /\ position[3] \in Nat /\ position[4] \in Nat
      /\ position = <<position[1], position[2], position[3], position[4]>>
      /\ position[1] \in 1..Len(Segments) /\ position[1] \in DOMAIN Segments
      /\ position[2] >= Segments[position[1]].start
      /\ <<position[1], position[2], 0, 0>> \in present
      /\ <<position[1], position[2], position[3], 0>> \in present
      /\ position[3] <= LastDevice /\ position[4] <= LastFunction + 1 /\ InRange
  BY <1>1, PlaceParts, SegmentParts DEF WInv, WalkInOrder
<1>3. /\ Segments[position[1]].start \in Nat /\ Segments[position[1]].end \in Nat
      /\ position[2] < Segments[position[1]].end
  BY <1>2, SegmentParts DEF InRange
<1>4. LastDevice \in Nat /\ LastFunction \in Nat
  BY DevicesAssumption
<1>5. CASE position[4] > LastFunction /\ position' = Skip(3) /\ pc' = "device"
           /\ PCIDevices' = PCIDevices
  <2>1. /\ position' = <<position[1], position[2], position[3] + 1, 0>>
        /\ position'[1] = position[1] /\ position'[2] = position[2]
        /\ position'[3] = position[3] + 1 /\ position'[4] = 0
        /\ position' \in Nat \X Nat \X Nat \X Nat
    BY <1>2, <1>5 DEF Skip
  <2>2. position[3] + 1 <= LastDevice + 1
    BY <1>2, <1>4
  <2>3. InRange'
    BY <1>2, <2>1 DEF InRange
  <2>4. WalkInOrder'
    BY <1>1, <1>2, <1>5, <2>1, <2>2, <2>3, SegmentParts DEF WalkInOrder, After
  <2>5. ASSUME NEW f, Wanted(f) PROVE Behind(f)' <=> Behind(f)
    <3>1. /\ f[1] \in Nat /\ f[2] \in Nat /\ f[3] \in Nat /\ f[4] \in Nat
          /\ f[4] <= LastFunction
      BY <2>5, WantedNumbers
    <3>2. ~(f[4] > LastFunction) /\ f[4] < position[4]
      BY <1>2, <1>4, <1>5, <3>1
    <3>3. /\ position[1] \in Nat /\ position[2] \in Nat
          /\ position[3] \in Nat /\ position[4] \in Nat
      BY <1>2
    <3>4. pc' = "device"
      BY <1>5
    <3>5. f[3] < position'[3] <=> f[3] < position[3] \/ f[3] = position[3]
      BY <2>1, <3>1, <3>3
    <3>6. Behind(f)' <=>
              \/ f[1] < position'[1]
              \/ f[1] = position'[1] /\ f[2] < position'[2]
              \/ f[1] = position'[1] /\ f[2] = position'[2] /\ f[3] < position'[3]
      BY <3>4 DEF Behind
    <3>7. Behind(f) <=>
              \/ f[1] < position[1]
              \/ f[1] = position[1] /\ f[2] < position[2]
              \/ /\ f[1] = position[1] /\ f[2] = position[2]
                 /\ f[3] < position[3] \/ f[3] = position[3]
      BY <1>1, <3>2 DEF Behind
    <3> QED
      BY <2>1, <3>5, <3>6, <3>7
  <2>6. ListSoFar'
    BY <1>1, <1>5, <2>5, ListStays DEF WInv
  <2> QED
    BY <1>5, <2>4, <2>6 DEF WInv, Places
<1>6. CASE /\ position[4] <= LastFunction /\ position' = Skip(4) /\ pc' = pc
           /\ PCIDevices' = IF position \in present THEN Append(PCIDevices, position)
                                                    ELSE PCIDevices
  <2>1. /\ position'[1] = position[1] /\ position'[2] = position[2]
        /\ position'[3] = position[3] /\ position'[4] = position[4] + 1
        /\ position' \in Nat \X Nat \X Nat \X Nat /\ pc' = "function"
    BY <1>1, <1>2, <1>6 DEF Skip
  <2>2. position[4] + 1 <= LastFunction + 1
    BY <1>2, <1>4, <1>6
  <2>3. InRange'
    BY <1>2, <2>1 DEF InRange
  <2>4. WalkInOrder'
    BY <1>1, <1>2, <2>1, <2>2, <2>3, SegmentParts DEF WalkInOrder, After
  <2>5. ASSUME NEW f, Wanted(f) PROVE Behind(f)' <=> Behind(f) \/ f = position
    <3>1. /\ f[1] \in Nat /\ f[2] \in Nat /\ f[3] \in Nat /\ f[4] \in Nat
          /\ f = <<f[1], f[2], f[3], f[4]>>
      BY <2>5, WantedNumbers
    <3>2. f = position <=> /\ f[1] = position[1] /\ f[2] = position[2]
                           /\ f[3] = position[3] /\ f[4] = position[4]
      BY <1>2, <3>1
    <3>3. Behind(f)' <=> Behind(f) \/ (/\ f[1] = position[1] /\ f[2] = position[2]
                                      /\ f[3] = position[3] /\ f[4] = position[4])
      <4>1. f[4] < position'[4] <=> f[4] < position[4] \/ f[4] = position[4]
        BY <1>2, <2>1, <3>1
      <4>2. Behind(f)' <=> \/ f[1] < position[1]
                           \/ /\ f[1] = position[1]
                              /\ \/ f[2] < position[2]
                                 \/ /\ f[2] = position[2]
                                    /\ \/ f[3] < position[3]
                                       \/ f[3] = position[3] /\ f[4] < position'[4]
        BY <2>1 DEF Behind
      <4>3. Behind(f) <=> \/ f[1] < position[1]
                          \/ /\ f[1] = position[1]
                             /\ \/ f[2] < position[2]
                                \/ /\ f[2] = position[2]
                                   /\ \/ f[3] < position[3]
                                      \/ f[3] = position[3] /\ f[4] < position[4]
        BY <1>1, <1>6, <2>1 DEF Behind
      <4>4. /\ ~(f[1] < position[1] /\ f[1] = position[1])
            /\ ~(f[2] < position[2] /\ f[2] = position[2])
            /\ ~(f[3] < position[3] /\ f[3] = position[3])
        BY <1>2, <3>1
      <4> QED
        BY <4>1, <4>2, <4>3, <4>4
    <3> QED
      BY <3>2, <3>3
  <2>6. ASSUME position \in present PROVE ListSoFar'
    <3>1. Wanted(position)
      <4>1. position[2] \in Segments[position[1]].start..Segments[position[1]].end
        BY <1>2, <1>3
      <4>2. position[3] \in 0..LastDevice /\ position[4] \in 0..LastFunction
        BY <1>2, <1>4, <1>6
      <4>3. position \in Functions
        BY <1>2, <4>1, <4>2, FunctionParts
      <4>4. position[2] # Segments[position[1]].end
        BY <1>2, <1>3
      <4> QED
        BY <1>2, <2>6, <4>3, <4>4 DEF Wanted, PassedOver
    <3>2. ~Behind(position)
      BY <1>2 DEF Behind
    <3>3. PCIDevices' = Append(PCIDevices, position)
      BY <1>6, <2>6
    <3> QED
      BY <1>1, <2>5, <3>1, <3>2, <3>3, ListGrows DEF WInv
  <2>7. ASSUME position \notin present PROVE ListSoFar'
    <3>1. PCIDevices' = PCIDevices
      BY <1>6, <2>7
    <3>2. \A f : Wanted(f) => f # position
      BY <2>7 DEF Wanted
    <3>3. \A f : Wanted(f) => (Behind(f)' <=> Behind(f))
      BY <2>5, <3>2
    <3> QED
      BY <1>1, <3>1, <3>3, ListStays DEF WInv
  <2> QED
    BY <2>1, <2>4, <2>6, <2>7 DEF WInv, Places
<1> QED
  BY <1>5, <1>6 DEF EnumerateFunction

\* What comes behind the walk leaves the vector alone.
LEMMA AfterStep ==
    ASSUME WInv, PCIDevices' = PCIDevices, FindMADT \/ ReadCore \/ StartDrivers
    PROVE  WInv'
<1>1. /\ position' = position /\ present' = present
      /\ pc \in {"madt", "core", "drivers"} /\ pc' \in After \union {"null", "wild"}
  BY DEF FindMADT, FindTable, ReadCore, StartDrivers, StartDriver, machine, walk, After
<1>2. WalkInOrder'
  BY <1>1 DEF WInv, WalkInOrder, After
<1>3. \A f : Behind(f)' <=> Behind(f)
  BY <1>1 DEF Behind, After
<1>4. ListSoFar'
  BY <1>1, <1>3, ListStays DEF WInv
<1> QED
  BY <1>1, <1>2, <1>4 DEF WInv, Places, After

LEMMA NoHeader == HeapHeader \notin Functions
<1>1. HeapHeader[1] = 0
  BY DEF HeapHeader
<1>2. 0 \notin DOMAIN Segments
  BY SegmentParts
<1> QED
  BY <1>1, <1>2, FunctionParts

\* The walk puts functions into the vector.
LEMMA WalkIntact == WInv => Intact
<1> SUFFICES ASSUME WInv, NEW k \in DOMAIN PCIDevices PROVE PCIDevices[k] # HeapHeader
  BY DEF Intact
<1>1. PCIDevices[k] \in Functions
  BY DEF WInv, ListSoFar
<1> QED
  BY <1>1, NoHeader

\* What the heap writes over the vector, at once or once more.
LEMMA HeaderPlaced ==
    ASSUME IInv, StartDrivers, PCIDevices' # PCIDevices
    PROVE  CInv' /\ WInv
<1>1. /\ pc = "drivers" /\ pc' \in {"drivers", "wild"} /\ PCIDevices' = Overwritten
      /\ position' = position /\ present' = present
  BY DEF StartDrivers, StartDriver, machine, walk
<1>2. /\ PCIDevices \in Seq(Functions \union {HeapHeader}) /\ WalkInOrder
      /\ \A k, l \in DOMAIN PCIDevices : PCIDevices[k] = PCIDevices[l] => k = l
      /\ \A f \in Functions : Listed(f) => Wanted(f)
  BY DEF IInv, WInv, CInv, ListSoFar
<1>3. /\ PCIDevices' \in Seq(Functions \union {HeapHeader})
      /\ DOMAIN PCIDevices' = DOMAIN PCIDevices
      /\ \A k \in DOMAIN PCIDevices : PCIDevices'[k] = IF k = 3 THEN HeapHeader ELSE PCIDevices[k]
  <2> DEFINE S == Functions \union {HeapHeader}
  <2>1. HeapHeader \in S /\ PCIDevices \in Seq(S)
    BY <1>2
  <2> HIDE DEF S
  <2>2. /\ [k \in 1..Len(PCIDevices) |-> IF k = 3 THEN HeapHeader ELSE PCIDevices[k]] \in Seq(S)
        /\ DOMAIN PCIDevices = 1..Len(PCIDevices)
    BY <2>1
  <2> QED
    BY <1>1, <2>2 DEF Overwritten, S
<1>4. 3 \in DOMAIN PCIDevices /\ PCIDevices[3] # HeapHeader
  <2>1. PCIDevices = [k \in DOMAIN PCIDevices |-> PCIDevices[k]]
    BY <1>2
  <2> QED
    BY <1>1, <2>1 DEF Overwritten
<1>5. WInv
  BY <1>4 DEF IInv, CInv
<1>6. \A k \in DOMAIN PCIDevices : PCIDevices[k] # HeapHeader
  BY <1>5, WalkIntact DEF Intact
<1>7. 3 \in DOMAIN PCIDevices' /\ PCIDevices'[3] = HeapHeader
  BY <1>3, <1>4
<1>8. \A f \in Functions : Listed(f)' => Wanted(f)'
  <2> SUFFICES ASSUME NEW f \in Functions, Listed(f)' PROVE Wanted(f)'
    OBVIOUS
  <2>1. PICK k \in DOMAIN PCIDevices' : PCIDevices'[k] = f
    BY DEF Listed
  <2>2. k \in DOMAIN PCIDevices /\ PCIDevices[k] = f
    BY <1>3, <2>1, NoHeader
  <2>3. Wanted(f)
    BY <1>2, <2>2 DEF Listed
  <2> QED
    BY <1>1, <2>3 DEF Wanted, PassedOver
<1>9. \A k, l \in DOMAIN PCIDevices' : PCIDevices'[k] = PCIDevices'[l] => k = l
  BY <1>2, <1>3, <1>6
<1>10. WalkInOrder'
  BY <1>1, <1>2 DEF WalkInOrder, After
<1> QED
  BY <1>1, <1>3, <1>5, <1>7, <1>8, <1>9, <1>10 DEF CInv

LEMMA CutStays ==
    ASSUME CInv, PCIDevices' = PCIDevices, present' = present, position' = position,
           pc' \in {"drivers", "done", "wild"}, pc' = pc \/ pc = "drivers"
    PROVE  CInv'
<1>1. \A f : Wanted(f)' <=> Wanted(f)
  BY DEF Wanted, PassedOver
<1>2. \A f : Listed(f)' <=> Listed(f)
  BY DEF Listed
<1>3. WalkInOrder'
  BY DEF CInv, WalkInOrder, After
<1> QED
  BY <1>1, <1>2, <1>3 DEF CInv

LEMMA PrepareStep ==
    ASSUME IInv, PrepareACPI
    PROVE  WInv' /\ pc \notin {"drivers", "done", "wild"}
<1>1. pc \notin {"drivers", "done", "wild"}
  BY DEF PrepareACPI, FindMCFG, UseNull, EnumeratePCI, NextSegment, EnumerateBus,
         EnumerateDevice, EnumerateFunction, FindMADT, ReadCore
<1>2. WInv
  BY <1>1 DEF IInv, CInv
<1>3. CASE FindMADT \/ ReadCore
  <2>1. PCIDevices' = PCIDevices
    BY <1>3 DEF FindMADT, ReadCore, walk
  <2> QED
    BY <1>1, <1>2, <1>3, <2>1, AfterStep
<1> QED
  BY <1>1, <1>2, <1>3, FindMCFGStep, UseNullStep, NextSegmentStep, EnumerateBusStep,
     EnumerateDeviceStep, EnumerateFunctionStep DEF PrepareACPI, EnumeratePCI

LEMMA NextIInv == IInv /\ [Next]_vars => IInv'
<1> SUFFICES ASSUME IInv, [Next]_vars PROVE IInv'
  OBVIOUS
<1>1. CASE vars' = vars
  <2>1. /\ pc' = pc /\ position' = position /\ PCIDevices' = PCIDevices
        /\ present' = present
    BY <1>1 DEF vars, machine, walk
  <2>2. CASE WInv
    <3>1. WalkInOrder'
      BY <2>1, <2>2 DEF WInv, WalkInOrder, InRange
    <3>2. \A f : Behind(f)' <=> Behind(f)
      BY <2>1 DEF Behind
    <3>3. ListSoFar'
      BY <2>1, <2>2, <3>2, ListStays DEF WInv
    <3> QED
      BY <2>1, <2>2, <3>1, <3>3 DEF WInv, IInv
  <2>3. CASE CInv
    <3>1. pc' \in {"drivers", "done", "wild"}
      BY <2>1, <2>3 DEF CInv
    <3> QED
      BY <2>1, <2>3, <3>1, CutStays DEF IInv
  <2> QED
    BY <2>2, <2>3 DEF IInv
<1>2. CASE PrepareACPI
  BY <1>2, PrepareStep DEF IInv
<1>3. CASE StartDrivers
  <2>1. CASE PCIDevices' # PCIDevices
    BY <1>3, <2>1, HeaderPlaced DEF IInv
  <2>2. CASE PCIDevices' = PCIDevices /\ WInv
    BY <1>3, <2>2, AfterStep DEF IInv
  <2>3. CASE PCIDevices' = PCIDevices /\ CInv
    <3>1. /\ pc = "drivers" /\ pc' \in {"drivers", "done", "wild"}
          /\ present' = present /\ position' = position
      BY <1>3 DEF StartDrivers, StartDriver, machine
    <3> QED
      BY <2>3, <3>1, CutStays DEF IInv
  <2> QED
    BY <2>1, <2>2, <2>3 DEF IInv
<1> QED
  BY <1>1, <1>2, <1>3 DEF Next, Stops

LEMMA Inductive == Spec => []IInv
<1>1. Init => IInv
  BY InitWInv DEF IInv
<1>2. IInv /\ [Next]_vars => IInv'
  BY NextIInv
<1> QED
  BY <1>1, <1>2, PTL DEF Spec

\* Each function that is there is listed once when its segment has been walked,
\* but for the last bus of a segment, buses without a first device, and what the
\* heap writes over; none is listed twice, and none that is absent, whatever the
\* machine.
THEOREM FoundOnce == Spec => []EachFunctionOnce
<1>1. ASSUME IInv PROVE EachFunctionOnce
  <2> SUFFICES ASSUME NEW f \in Functions
               PROVE  /\ Occurrences(f) <= 1
                      /\ Occurrences(f) = 1 => f \in present /\ ~PassedOver(f)
                      /\ (Scanned(f) /\ f \in present /\ <<f[1], f[2], f[3], 0>> \in present)
                             => (Occurrences(f) = 1 \/ PassedOver(f) \/ ~Intact)
    BY DEF EachFunctionOnce
  <2>1. Listed(f) => Wanted(f)
    BY <1>1 DEF IInv, WInv, CInv, ListSoFar
  <2>2. CASE Listed(f)
    <3>1. PICK k \in DOMAIN PCIDevices : PCIDevices[k] = f
      BY <2>2 DEF Listed
    <3>2. {l \in DOMAIN PCIDevices : PCIDevices[l] = f} = {k}
      BY <1>1, <3>1 DEF IInv, WInv, CInv, ListSoFar
    <3>3. Occurrences(f) = 1
      BY <3>2, FS_Singleton DEF Occurrences
    <3>4. f \in present /\ ~PassedOver(f)
      BY <2>1, <2>2 DEF Wanted
    <3> QED
      BY <3>3, <3>4
  <2>3. CASE ~Listed(f)
    <3>1. {l \in DOMAIN PCIDevices : PCIDevices[l] = f} = {}
      BY <2>3 DEF Listed
    <3>2. Occurrences(f) = 0
      BY <3>1, FS_EmptySet DEF Occurrences
    <3>3. ASSUME Scanned(f), f \in present, <<f[1], f[2], f[3], 0>> \in present, Intact
          PROVE  PassedOver(f)
      <4>1. f[1] \in 1..Len(Segments) /\ Len(Segments) \in Nat
        BY FunctionParts, SegmentParts
      <4>2. WInv
        BY <1>1, <3>3 DEF IInv, CInv, Intact
      <4>3. f[1] < position[1]
        BY <4>2, <3>3, <4>1 DEF Scanned, WInv, WalkInOrder, After
      <4>4. Wanted(f) /\ Behind(f) => Listed(f)
        BY <4>2 DEF WInv, ListSoFar
      <4> QED
        BY <2>3, <3>3, <4>3, <4>4 DEF Wanted, Behind
    <3> QED
      BY <3>2, <3>3
  <2> QED
    BY <2>2, <2>3
<1> QED
  BY <1>1, Inductive, PTL
-----------------------------------------------------------------------------
(* The tables, the processors and the drivers *)

\* Entries of processors that are on and stand before entry p.
Before(p) == {k \in On : k < p}

\* The processors behind the pointer are counted, each at its place.
Counted ==
    Cardinality(On) < CountLimit =>
        /\ numcore = Cardinality(Before(ptr))
        /\ \A k \in Before(ptr) : lapic_ids[Place(k)] = entries[k].id

\* An entry of length 0 is counted again and again, and nothing comes after it.
Stuck == ptr \in DOMAIN entries /\ entries[ptr].length = 0

CoresSoFar ==
    /\ entries \in Cores
    /\ ptr \in 1..(Len(entries) + 1) /\ numcore \in 0..(CountLimit - 1)
    /\ lapic_ids \in [0..(CountLimit - 1) -> Nat]
    /\ Stuck \/ Counted
    /\ pc \in {"drivers", "done"} => ptr = Len(entries) + 1

DriversSoFar ==
    /\ drivers \in Seq(Functions)
    /\ index \in 1..(Len(PCIDevices) + 1)
    /\ pc \notin {"drivers", "done", "wild"} => index = 1 /\ drivers = <<>>
    /\ \A f \in Functions : HasDriver(f) =>
           (\E k \in 1..(index - 1) : PCIDevices[k] = f) \/ ~Listed(f)
    /\ DriversAreThose

SInv == IInv /\ WildExplained /\ CoresSoFar /\ DriversSoFar

LEMMA EntryTypes ==
    ASSUME entries \in Cores
    PROVE  /\ Len(entries) \in Nat /\ DOMAIN entries = 1..Len(entries)
           /\ \A k \in DOMAIN entries : /\ entries[k].type \in Nat /\ entries[k].length \in Nat
                                        /\ entries[k].id \in Nat /\ entries[k].enabled \in BOOLEAN
<1> DEFINE E == [type : Nat, length : Nat, id : Nat, enabled : BOOLEAN]
<1>1. entries \in Seq(E)
  BY DevicesAssumption
<1>2. \A e \in E : e.type \in Nat /\ e.length \in Nat /\ e.id \in Nat /\ e.enabled \in BOOLEAN
  OBVIOUS
<1> HIDE DEF E
<1>3. Len(entries) \in Nat /\ DOMAIN entries = 1..Len(entries) /\ \A k \in DOMAIN entries : entries[k] \in E
  BY <1>1
<1> QED
  BY <1>2, <1>3

\* One more entry passed.
LEMMA BeforeNext ==
    ASSUME entries \in Cores, NEW p \in DOMAIN entries
    PROVE  /\ IsFiniteSet(On) /\ IsFiniteSet(Before(p))
           /\ Cardinality(Before(p)) \in Nat /\ Cardinality(On) \in Nat
           /\ p \notin On => Before(p + 1) = Before(p)
           /\ p \in On => /\ Before(p + 1) = Before(p) \union {p}
                          /\ Cardinality(Before(p + 1)) = Cardinality(Before(p)) + 1
                          /\ Cardinality(Before(p)) < Cardinality(On)
           /\ \A k \in Before(p) : Place(k) \in Nat /\ Place(k) < Cardinality(Before(p))
<1>1. Len(entries) \in Nat /\ DOMAIN entries = 1..Len(entries)
  BY EntryTypes
<1>2. On \subseteq DOMAIN entries /\ On \subseteq Nat /\ p \in Nat
  BY <1>1 DEF On
<1>3. IsFiniteSet(On)
  <2>1. IsFiniteSet(1..Len(entries))
    BY <1>1, FS_Interval
  <2> QED
    BY <1>1, <1>2, <2>1, FS_Subset
<1>4. \A q : Before(q) \subseteq On
  BY DEF Before
<1>5. ASSUME NEW q PROVE IsFiniteSet(Before(q)) /\ Cardinality(Before(q)) \in Nat
  BY <1>3, <1>4, FS_Subset, FS_CardinalityType
<1>6. Cardinality(On) \in Nat
  BY <1>3, FS_CardinalityType
<1>7. ASSUME p \notin On PROVE Before(p + 1) = Before(p)
  BY <1>2, <1>7 DEF Before
<1>8. ASSUME NEW q \in On PROVE Cardinality(Before(q) \union {q}) = Cardinality(Before(q)) + 1
  <2>1. q \notin Before(q)
    BY <1>2 DEF Before
  <2> QED
    BY <1>5, <2>1, FS_AddElement
<1>9. ASSUME p \in On
      PROVE  /\ Before(p + 1) = Before(p) \union {p}
             /\ Cardinality(Before(p + 1)) = Cardinality(Before(p)) + 1
             /\ Cardinality(Before(p)) < Cardinality(On)
  <2>1. Before(p + 1) = Before(p) \union {p}
    BY <1>2, <1>9 DEF Before
  <2>2. Cardinality(Before(p + 1)) = Cardinality(Before(p)) + 1
    BY <1>8, <1>9, <2>1
  <2>3. Cardinality(Before(p + 1)) <= Cardinality(On)
    BY <1>3, <1>4, FS_Subset
  <2> QED
    BY <1>5, <1>6, <2>1, <2>2, <2>3
<1>10. ASSUME NEW k \in Before(p) PROVE Place(k) \in Nat /\ Place(k) < Cardinality(Before(p))
  <2>1. k \in On /\ k < p /\ k \in Nat
    BY <1>2 DEF Before
  <2>2. Place(k) = Cardinality(Before(k))
    BY DEF Place, Before
  <2>3. Before(k) \union {k} \subseteq Before(p)
    BY <1>2, <2>1 DEF Before
  <2>4. Cardinality(Before(k) \union {k}) <= Cardinality(Before(p))
    BY <1>5, <2>3, FS_Subset
  <2>5. Cardinality(Before(k)) \in Nat /\ Cardinality(Before(p)) \in Nat
    BY <1>5
  <2> QED
    BY <1>8, <2>1, <2>2, <2>4, <2>5
<1> QED
  BY <1>3, <1>5, <1>6, <1>7, <1>9, <1>10

\* The remainder by 256 takes a byte to a byte, and leaves what fits.
LEMMA Byte ==
    ASSUME NEW n \in 0..(CountLimit - 1)
    PROVE  /\ (n + 1) % CountLimit \in 0..(CountLimit - 1)
           /\ n + 1 < CountLimit => (n + 1) % CountLimit = n + 1
<1>1. CountLimit \in Nat \ {0}
  BY DevicesAssumption
<1> QED
  BY <1>1

LEMMA ReadCoreStep ==
    ASSUME CoresSoFar, ReadCore
    PROVE  CoresSoFar'
<1>1. pc = "core" /\ entries' = entries /\ entries \in Cores /\ ptr \in 1..(Len(entries) + 1)
  BY DEF ReadCore, machine, CoresSoFar
<1>2. Len(entries) \in Nat /\ DOMAIN entries = 1..Len(entries)
  BY <1>1, EntryTypes
<1>3. On' = On /\ \A k : Place(k)' = Place(k)
  BY <1>1 DEF On, Place
<1>4. CASE ptr > Len(entries)
  <2>1. pc' = "drivers" /\ ptr' = ptr /\ numcore' = numcore /\ lapic_ids' = lapic_ids
    BY <1>4 DEF ReadCore, cores
  <2>2. ptr = Len(entries) + 1
    BY <1>1, <1>2, <1>4
  <2>3. Stuck' <=> Stuck
    BY <1>1, <2>1 DEF Stuck
  <2>4. Counted' <=> Counted
    BY <1>1, <1>3, <2>1 DEF Counted, Before
  <2> QED
    BY <1>1, <2>1, <2>2, <2>3, <2>4 DEF CoresSoFar
<1>5. CASE ~(ptr > Len(entries))
  <2> DEFINE e == entries[ptr]
  <2>1. /\ CountCore(e) /\ pc' = "core"
        /\ ptr' = IF e.length = 0 THEN ptr ELSE ptr + 1
    BY <1>1, <1>5 DEF ReadCore
  <2>2. ptr \in DOMAIN entries /\ ptr \in Nat
    BY <1>1, <1>2, <1>5
  <2>3. e.type \in Nat /\ e.length \in Nat /\ e.id \in Nat /\ e.enabled \in BOOLEAN
    BY <1>1, <2>2, EntryTypes
  <2>4. ptr \in On <=> e.type = 0 /\ e.enabled
    BY <2>2 DEF On
  <2>5. /\ numcore \in 0..(CountLimit - 1) /\ lapic_ids \in [0..(CountLimit - 1) -> Nat]
        /\ numcore \in Nat
    BY DevicesAssumption DEF CoresSoFar
  <2>6. ptr' \in 1..(Len(entries) + 1)
    BY <1>1, <1>2, <2>1, <2>2
  <2>7. /\ ptr \in On => /\ lapic_ids' = [lapic_ids EXCEPT ![numcore] = e.id]
                         /\ numcore' = (numcore + 1) % CountLimit
        /\ ptr \notin On => lapic_ids' = lapic_ids /\ numcore' = numcore
    BY <2>1, <2>4 DEF CountCore
  <2> HIDE DEF e
  <2>8. /\ numcore' \in 0..(CountLimit - 1) /\ lapic_ids' \in [0..(CountLimit - 1) -> Nat]
    BY <2>3, <2>5, <2>7, Byte
  <2>9. CASE e.length = 0
    <3>1. Stuck'
      BY <1>1, <2>1, <2>2, <2>9 DEF Stuck, e
    <3> QED
      BY <1>1, <2>1, <2>6, <2>8, <3>1 DEF CoresSoFar
  <2>10. CASE e.length # 0
    <3>1. ptr' = ptr + 1 /\ Counted
      BY <2>1, <2>10 DEF CoresSoFar, Stuck, e
    <3>2. ASSUME Cardinality(On) < CountLimit
          PROVE  /\ numcore' = Cardinality(Before(ptr + 1))
                 /\ \A k \in Before(ptr + 1) : lapic_ids'[Place(k)] = entries[k].id
      <4>1. /\ numcore = Cardinality(Before(ptr))
            /\ \A k \in Before(ptr) : lapic_ids[Place(k)] = entries[k].id
        BY <3>1, <3>2 DEF Counted
      <4>2. CASE ptr \notin On
        BY <1>1, <2>2, <2>7, <4>1, <4>2, BeforeNext
      <4>3. CASE ptr \in On
        <5>1. /\ Before(ptr + 1) = Before(ptr) \union {ptr}
              /\ Cardinality(Before(ptr + 1)) = numcore + 1
              /\ numcore < Cardinality(On) /\ Cardinality(On) \in Nat
              /\ \A k \in Before(ptr) : Place(k) \in Nat /\ Place(k) < numcore
          BY <1>1, <2>2, <4>1, <4>3, BeforeNext
        <5>2. numcore + 1 < CountLimit
          BY <2>5, <3>2, <5>1, DevicesAssumption
        <5>3. numcore' = numcore + 1
          BY <2>5, <2>7, <4>3, <5>2, Byte
        <5>4. Place(ptr) = numcore
          BY <4>1 DEF Place, Before
        <5>5. lapic_ids'[numcore] = e.id
          BY <2>5, <2>7, <4>3
        <5>6. ASSUME NEW k \in Before(ptr) PROVE lapic_ids'[Place(k)] = entries[k].id
          <6>1. Place(k) \in Nat /\ Place(k) < numcore
            BY <5>1
          <6>2. Place(k) \in 0..(CountLimit - 1) /\ Place(k) # numcore
            BY <2>5, <6>1, DevicesAssumption
          <6>3. lapic_ids'[Place(k)] = lapic_ids[Place(k)]
            BY <2>5, <2>7, <4>3, <6>2
          <6> QED
            BY <4>1, <6>3
        <5> QED
          BY <5>1, <5>3, <5>4, <5>5, <5>6 DEF e
      <4> QED
        BY <4>2, <4>3
    <3>3. Counted'
      BY <1>1, <1>3, <3>1, <3>2 DEF Counted, Before
    <3> QED
      BY <1>1, <2>1, <2>6, <2>8, <3>3 DEF CoresSoFar
  <2> QED
    BY <2>9, <2>10
<1> QED
  BY <1>4, <1>5

\* The other steps leave the count alone.
LEMMA CoresStay ==
    ASSUME CoresSoFar, UNCHANGED <<machine, cores>>,
           pc' \in {"drivers", "done"} => pc \in {"drivers", "done"}
    PROVE  CoresSoFar'
<1>1. /\ entries' = entries /\ ptr' = ptr /\ numcore' = numcore /\ lapic_ids' = lapic_ids
  BY DEF machine, cores
<1>2. On' = On /\ \A k : Place(k)' = Place(k)
  BY <1>1 DEF On, Place
<1>3. Counted' <=> Counted
  BY <1>1, <1>2 DEF Counted, Before
<1>4. Stuck' <=> Stuck
  BY <1>1 DEF Stuck
<1> QED
  BY <1>1, <1>3, <1>4 DEF CoresSoFar

\* Up to the loop over the vector no driver is started.
LEMMA DriversStay ==
    ASSUME DriversSoFar, UNCHANGED started, WInv',
           pc' # "done", pc \notin {"drivers", "done", "wild"}
    PROVE  DriversSoFar'
<1>1. index = 1 /\ index' = 1 /\ drivers' = <<>>
  BY DEF DriversSoFar, started
<1>2. Len(PCIDevices') \in Nat
  BY DEF WInv, ListSoFar
<1>3. \A k : k \notin 1..(index' - 1)
  BY <1>1
<1>4. index' \in 1..(Len(PCIDevices') + 1)
  BY <1>1, <1>2
<1>5. \A k \in DOMAIN PCIDevices' : PCIDevices'[k] # HeapHeader
  <2>1. \A k \in DOMAIN PCIDevices' : PCIDevices'[k] \in Functions
    BY DEF WInv, ListSoFar
  <2> QED
    BY <2>1, NoHeader
<1>6. \A f : ~HasDriver(f)' /\ drivers' \in Seq(Functions) /\ DOMAIN drivers' = {}
  BY <1>1 DEF HasDriver
<1> QED
  BY <1>1, <1>3, <1>4, <1>5, <1>6 DEF DriversSoFar, DriversAreThose

LEMMA ListParts ==
    ASSUME IInv
    PROVE  /\ PCIDevices \in Seq(Functions \union {HeapHeader}) /\ Len(PCIDevices) \in Nat
           /\ DOMAIN PCIDevices = 1..Len(PCIDevices)
           /\ \A k \in DOMAIN PCIDevices : PCIDevices[k] \in Functions \/ PCIDevices[k] = HeapHeader
           /\ \A k, l \in DOMAIN PCIDevices : PCIDevices[k] = PCIDevices[l] => k = l
<1>1. /\ PCIDevices \in Seq(Functions \union {HeapHeader})
      /\ \A k, l \in DOMAIN PCIDevices : PCIDevices[k] = PCIDevices[l] => k = l
  BY DEF IInv, WInv, CInv, ListSoFar
<1> QED
  BY <1>1

\* An entry that is written over is the third one, and a header from then on.
LEMMA OverwrittenParts ==
    ASSUME IInv, PCIDevices' \in {PCIDevices, Overwritten}
    PROVE  /\ Len(PCIDevices') = Len(PCIDevices) /\ DOMAIN PCIDevices' = DOMAIN PCIDevices
           /\ \A k \in DOMAIN PCIDevices :
                 \/ PCIDevices'[k] = PCIDevices[k]
                 \/ k = 3 /\ PCIDevices'[k] = HeapHeader
           /\ \A f \in Functions : Listed(f)' => Listed(f)
           /\ ~Intact => ~Intact'
<1>1. DOMAIN PCIDevices = 1..Len(PCIDevices) /\ Len(PCIDevices) \in Nat
  BY ListParts
<1>2. /\ Len(PCIDevices') = Len(PCIDevices) /\ DOMAIN PCIDevices' = DOMAIN PCIDevices
      /\ \A k \in DOMAIN PCIDevices :
            \/ PCIDevices'[k] = PCIDevices[k]
            \/ k = 3 /\ PCIDevices'[k] = HeapHeader
  BY <1>1 DEF Overwritten
<1>3. \A f \in Functions : Listed(f)' => Listed(f)
  BY <1>2, NoHeader DEF Listed
<1>4. ~Intact => ~Intact'
  BY <1>2 DEF Intact
<1> QED
  BY <1>2, <1>3, <1>4

LEMMA StartDriverStep ==
    ASSUME IInv, DriversSoFar, pc = "drivers", pc' = "drivers",
           index \in DOMAIN PCIDevices, PCIDevices[index] \in Controllers,
           drivers' = Append(drivers, PCIDevices[index]), index' = index + 1,
           PCIDevices' \in {PCIDevices, Overwritten}
    PROVE  DriversSoFar'
<1> DEFINE g == PCIDevices[index]
<1>1. /\ Len(PCIDevices) \in Nat /\ DOMAIN PCIDevices = 1..Len(PCIDevices)
      /\ \A k \in DOMAIN PCIDevices : PCIDevices[k] \in Functions \/ PCIDevices[k] = HeapHeader
      /\ \A k, l \in DOMAIN PCIDevices : PCIDevices[k] = PCIDevices[l] => k = l
  BY ListParts
<1>2. /\ Len(PCIDevices') = Len(PCIDevices) /\ DOMAIN PCIDevices' = DOMAIN PCIDevices
      /\ \A k \in DOMAIN PCIDevices :
            \/ PCIDevices'[k] = PCIDevices[k]
            \/ k = 3 /\ PCIDevices'[k] = HeapHeader
      /\ \A f \in Functions : Listed(f)' => Listed(f)
      /\ ~Intact => ~Intact'
  BY OverwrittenParts
<1>3. g \in Functions /\ g \in Controllers /\ index \in Nat /\ index >= 1
  BY <1>1, ClassAssumption
<1>4. drivers \in Seq(Functions) /\ Len(drivers) \in Nat /\ DOMAIN drivers = 1..Len(drivers)
  BY DEF DriversSoFar
<1>5. /\ drivers' \in Seq(Functions) /\ DOMAIN drivers' = 1..(Len(drivers) + 1)
      /\ \A k \in DOMAIN drivers : drivers'[k] = drivers[k]
      /\ drivers'[Len(drivers) + 1] = g /\ drivers' # <<>>
  BY <1>3, <1>4
<1> HIDE DEF g
<1>6. \A k : k \in DOMAIN drivers' <=> k \in DOMAIN drivers \/ k = Len(drivers) + 1
  BY <1>4, <1>5
<1>7. \A f : HasDriver(f)' <=> f = g \/ HasDriver(f)
  BY <1>5, <1>6 DEF HasDriver
<1>8. index' \in 1..(Len(PCIDevices') + 1)
  BY <1>1, <1>2, <1>3
<1>9. /\ index' - 1 = index
      /\ \A k : k \in 1..index <=> k = index \/ k \in 1..(index - 1)
      /\ \A k \in 1..index : k \in DOMAIN PCIDevices /\ k <= index
      /\ index \notin 1..(index - 1)
  BY <1>1, <1>3
<1>10. \A f \in Functions : HasDriver(f) =>
           /\ f \in Controllers
           /\ (\E k \in 1..(index - 1) : PCIDevices[k] = f) \/ (index > 3 /\ ~Intact)
           /\ (\E k \in 1..(index - 1) : PCIDevices[k] = f) \/ ~Listed(f)
  BY DEF DriversSoFar, DriversAreThose
\* A function whose driver was made before stands in front, or nowhere.
<1>11. ~HasDriver(g)
  <2> SUFFICES ASSUME HasDriver(g) PROVE FALSE
    OBVIOUS
  <2>1. Listed(g)
    BY DEF Listed, g
  <2>2. PICK k \in 1..(index - 1) : PCIDevices[k] = g
    BY <1>3, <1>10, <2>1
  <2>3. k \in DOMAIN PCIDevices /\ k # index
    BY <1>9
  <2> QED
    BY <1>1, <2>2, <2>3 DEF g
<1>12. ASSUME NEW k \in 1..(index' - 1), PCIDevices'[k] \in Controllers
       PROVE  HasDriver(PCIDevices[k])'
  <2>1. k \in DOMAIN PCIDevices /\ (k = index \/ k \in 1..(index - 1))
    BY <1>9
  <2>2. PCIDevices'[k] = PCIDevices[k]
    BY <1>2, <1>12, <2>1, ClassAssumption
  <2>3. \A l \in 1..(index - 1) : PCIDevices[l] \in Controllers => HasDriver(PCIDevices[l])
    BY DEF DriversSoFar, DriversAreThose
  <2>4. PCIDevices[k] = g \/ HasDriver(PCIDevices[k])
    BY <1>12, <2>1, <2>2, <2>3 DEF g
  <2>5. \A f : f = g \/ HasDriver(f) => HasDriver(f)'
    BY <1>7
  <2>6. HasDriver(PCIDevices[k])' <=> \E j \in DOMAIN drivers' : drivers'[j] = PCIDevices'[k]
    BY DEF HasDriver
  <2>7. \E j \in DOMAIN drivers' : drivers'[j] = PCIDevices[k]
    BY <2>4, <1>5, <1>6 DEF HasDriver
  <2> QED
    BY <2>2, <2>6, <2>7
\* What a step does to the place of a function.
<1>13. ASSUME NEW f \in Functions, NEW k \in 1..index, PCIDevices[k] = f
       PROVE  \/ \E j \in 1..(index' - 1) : PCIDevices'[j] = f
              \/ index' > 3 /\ ~Intact' /\ ~Listed(f)'
  <2>1. k \in DOMAIN PCIDevices /\ k <= index
    BY <1>9
  <2>2. CASE PCIDevices'[k] = PCIDevices[k]
    BY <1>9, <1>13, <2>2
  <2>3. CASE k = 3 /\ PCIDevices'[k] = HeapHeader
    <3>1. index' > 3
      BY <1>3, <2>1, <2>3
    <3>2. ~Intact'
      BY <1>2, <2>1, <2>3 DEF Intact
    <3>3. \A j \in DOMAIN PCIDevices' : PCIDevices'[j] # f
      <4> SUFFICES ASSUME NEW j \in DOMAIN PCIDevices, PCIDevices'[j] = f PROVE FALSE
        BY <1>2
      <4>1. PCIDevices[j] = f /\ j # 3
        BY <1>2, <2>3, NoHeader
      <4> QED
        BY <1>1, <1>13, <2>1, <2>3, <4>1
    <3> QED
      BY <3>1, <3>2, <3>3 DEF Listed
  <2> QED
    BY <1>2, <2>1, <2>2, <2>3
<1>14. ASSUME NEW f \in Functions, f = g \/ HasDriver(f)
       PROVE  /\ f \in Controllers
              /\ (\E k \in 1..(index' - 1) : PCIDevices'[k] = f) \/ (index' > 3 /\ ~Intact')
              /\ (\E k \in 1..(index' - 1) : PCIDevices'[k] = f) \/ ~Listed(f)'
  <2>1. CASE \E k \in 1..index : PCIDevices[k] = f
    BY <1>3, <1>10, <1>13, <1>14, <2>1
  <2>2. CASE ~\E k \in 1..index : PCIDevices[k] = f
    <3>1. HasDriver(f) /\ index > 3 /\ ~Intact /\ ~Listed(f) /\ f \in Controllers
      BY <1>9, <1>10, <1>14, <2>2 DEF g
    <3>2. index' > 3
      BY <1>3, <3>1
    <3> QED
      BY <1>2, <3>1, <3>2
  <2> QED
    BY <2>1, <2>2
<1>15. ASSUME NEW k \in DOMAIN drivers', NEW l \in DOMAIN drivers', drivers'[k] = drivers'[l]
       PROVE  k = l
  <2>1. \A i, j \in DOMAIN drivers : drivers[i] = drivers[j] => i = j
    BY DEF DriversSoFar, DriversAreThose
  <2>2. \A i \in DOMAIN drivers : drivers[i] # g
    BY <1>11 DEF HasDriver
  <2>3. CASE k \in DOMAIN drivers /\ l \in DOMAIN drivers
    BY <1>5, <1>15, <2>1, <2>3
  <2>4. CASE k \in DOMAIN drivers /\ l = Len(drivers) + 1
    BY <1>5, <1>15, <2>2, <2>4
  <2>5. CASE l \in DOMAIN drivers /\ k = Len(drivers) + 1
    BY <1>5, <1>15, <2>2, <2>5
  <2> QED
    BY <1>6, <2>3, <2>4, <2>5
<1>16. \A k \in DOMAIN PCIDevices' : PCIDevices'[k] = HeapHeader => k = 3
  BY <1>2 DEF DriversSoFar, DriversAreThose
<1>17. DriversAreThose'
  <2>1. \A k \in 1..(index' - 1) : PCIDevices'[k] \in Controllers => HasDriver(PCIDevices[k])'
    BY <1>12
  <2>2. \A f \in Functions : HasDriver(f)' =>
           /\ f \in Controllers
           /\ (\E k \in 1..(index' - 1) : PCIDevices'[k] = f) \/ (index' > 3 /\ ~Intact')
    BY <1>7, <1>14
  <2> QED
    BY <2>1, <2>2, <1>5, <1>15, <1>16 DEF DriversAreThose
<1> QED
  BY <1>5, <1>7, <1>8, <1>14, <1>17 DEF DriversSoFar

LEMMA StartDriversStep ==
    ASSUME IInv, DriversSoFar, StartDrivers
    PROVE  DriversSoFar'
<1>1. /\ Len(PCIDevices) \in Nat /\ DOMAIN PCIDevices = 1..Len(PCIDevices)
      /\ \A k \in DOMAIN PCIDevices : PCIDevices[k] \in Functions \/ PCIDevices[k] = HeapHeader
      /\ pc = "drivers" /\ index \in 1..(Len(PCIDevices) + 1) /\ index \in Nat
  BY ListParts DEF DriversSoFar, StartDrivers
<1>2. /\ drivers \in Seq(Functions)
      /\ \A k \in 1..(index - 1) : PCIDevices[k] \in Controllers => HasDriver(PCIDevices[k])
      /\ \A f \in Functions : HasDriver(f) =>
             /\ f \in Controllers
             /\ (\E k \in 1..(index - 1) : PCIDevices[k] = f) \/ (index > 3 /\ ~Intact)
             /\ (\E k \in 1..(index - 1) : PCIDevices[k] = f) \/ ~Listed(f)
      /\ \A k, l \in DOMAIN drivers : drivers[k] = drivers[l] => k = l
      /\ \A k \in DOMAIN PCIDevices : PCIDevices[k] = HeapHeader => k = 3
      /\ \A k \in DOMAIN PCIDevices : PCIDevices[k] = HeapHeader => drivers # <<>>
  BY <1>1 DEF DriversSoFar, DriversAreThose
<1>3. CASE index > Len(PCIDevices)
  <2>1. pc' = "done" /\ index' = index /\ drivers' = drivers /\ PCIDevices' = PCIDevices
    BY <1>3 DEF StartDrivers, started
  <2>2. index = Len(PCIDevices) + 1
    BY <1>1, <1>3
  <2>3. \A f : HasDriver(f)' <=> HasDriver(f)
    BY <2>1 DEF HasDriver
  <2>4. /\ Intact' <=> Intact
        /\ \A f : Listed(f)' <=> Listed(f)
    BY <2>1 DEF Intact, Listed
  <2>5. DriversAreThose'
    BY <1>2, <2>1, <2>2, <2>3, <2>4 DEF DriversAreThose, HasDriver
  <2> QED
    BY <1>1, <1>2, <2>1, <2>3, <2>4, <2>5 DEF DriversSoFar
<1>4. CASE index <= Len(PCIDevices) /\ PCIDevices[index] \notin Controllers
  <2>1. pc' = "drivers" /\ index' = index + 1 /\ drivers' = drivers /\ PCIDevices' = PCIDevices
    BY <1>1, <1>4 DEF StartDrivers
  <2>2. index' \in 1..(Len(PCIDevices') + 1) /\ index' - 1 = index
        /\ \A k : k \in 1..index <=> k = index \/ k \in 1..(index - 1)
    BY <1>1, <1>4, <2>1
  <2>3. \A f : HasDriver(f)' <=> HasDriver(f)
    BY <2>1 DEF HasDriver
  <2>4. /\ Intact' <=> Intact
        /\ \A f : Listed(f)' <=> Listed(f)
    BY <2>1 DEF Intact, Listed
  <2>5. index > 3 => index' > 3
    BY <1>1, <2>1
  <2>6. \A f \in Functions : HasDriver(f) =>
           /\ (\E k \in 1..index : PCIDevices[k] = f) \/ (index' > 3 /\ ~Intact)
           /\ (\E k \in 1..index : PCIDevices[k] = f) \/ ~Listed(f)
    BY <1>2, <2>2, <2>5
  <2>7. \A k \in 1..index : PCIDevices[k] \in Controllers => HasDriver(PCIDevices[k])
    BY <1>2, <1>4, <2>2
  <2>8. DriversAreThose'
    BY <1>2, <2>1, <2>2, <2>3, <2>4, <2>6, <2>7 DEF DriversAreThose, HasDriver
  <2> QED
    BY <1>2, <2>1, <2>2, <2>3, <2>4, <2>6, <2>8 DEF DriversSoFar
<1>5. CASE index <= Len(PCIDevices) /\ PCIDevices[index] \in Controllers
  <2>1. index \in DOMAIN PCIDevices /\ StartDriver
    BY <1>1, <1>5 DEF StartDrivers
  <2>2. CASE pc' = pc
    BY <1>1, <1>5, <2>1, <2>2, StartDriverStep DEF StartDriver
  <2>3. CASE pc' # pc
    <3>1. index = 3 /\ PCIDevices' = Overwritten /\ pc' = "wild" /\ index' = index /\ drivers' = drivers
      BY <2>1, <2>3 DEF StartDriver, started
    <3>2. /\ Len(PCIDevices') = Len(PCIDevices) /\ DOMAIN PCIDevices' = DOMAIN PCIDevices
          /\ \A k \in DOMAIN PCIDevices :
                \/ PCIDevices'[k] = PCIDevices[k]
                \/ k = 3 /\ PCIDevices'[k] = HeapHeader
          /\ \A f \in Functions : Listed(f)' => Listed(f)
      BY <3>1, OverwrittenParts
    <3>3. \A k \in 1..(index - 1) : k \in DOMAIN PCIDevices /\ k # 3
      BY <1>1, <1>5, <3>1
    <3>4. \A k \in 1..(index - 1) : PCIDevices'[k] = PCIDevices[k]
      BY <3>2, <3>3
    <3>5. ~(index > 3)
      BY <3>1
    <3>6. \A f : HasDriver(f)' <=> HasDriver(f)
      BY <3>1 DEF HasDriver
    <3>7. \A f \in Functions : HasDriver(f) =>
             f \in Controllers /\ \E k \in 1..(index - 1) : PCIDevices'[k] = f
      BY <1>2, <3>4, <3>5
    <3>8. \A k \in 1..(index - 1) : PCIDevices'[k] \in Controllers =>
             \E j \in DOMAIN drivers' : drivers'[j] = PCIDevices'[k]
      BY <1>2, <3>1, <3>4 DEF HasDriver
    <3>9. \A k \in DOMAIN PCIDevices' : PCIDevices'[k] = HeapHeader => k = 3
      BY <1>2, <3>2
    <3>10. DriversAreThose'
      <4>1. \A k \in 1..(index' - 1) : PCIDevices'[k] \in Controllers => HasDriver(PCIDevices[k])'
        BY <3>1, <3>8 DEF HasDriver
      <4> QED
        BY <1>2, <3>1, <3>6, <3>7, <3>9, <4>1 DEF DriversAreThose
    <3> QED
      BY <1>1, <1>2, <3>1, <3>2, <3>6, <3>7, <3>10 DEF DriversSoFar
  <2> QED
    BY <2>2, <2>3
<1> QED
  BY <1>1, <1>3, <1>4, <1>5

\* What a search for a table leaves behind.
LEMMA FindTableStep ==
    ASSUME WildExplained, NEW signature \in {"MCFG", "APIC"}, NEW place,
           FindTable(signature, place), place \notin {"wild", "null"}, tables' = tables
    PROVE  WildExplained'
BY DEF FindTable, WildExplained, Found

LEMMA InitSInv == Init => SInv
<1> SUFFICES ASSUME Init PROVE SInv
  OBVIOUS
<1>1. IInv
  BY InitWInv DEF IInv
<1>2. /\ pc = "prepare" /\ PCIDevices = <<>> /\ ptr = 1 /\ numcore = 0 /\ entries \in Cores
      /\ lapic_ids = [i \in 0..(CountLimit - 1) |-> 0] /\ index = 1 /\ drivers = <<>>
  BY DEF Init
<1>3. WildExplained
  BY <1>2 DEF WildExplained
<1>4. Before(1) = {}
  <2>1. Len(entries) \in Nat /\ DOMAIN entries = 1..Len(entries)
    BY <1>2, EntryTypes
  <2>2. \A k \in On : k \in 1..Len(entries)
    BY <2>1 DEF On
  <2>3. \A k \in On : ~(k < 1)
    BY <2>1, <2>2
  <2> QED
    BY <2>3 DEF Before
<1>5. Counted
  BY <1>2, <1>4, FS_EmptySet DEF Counted
<1>6. CoresSoFar
  <2>1. CountLimit \in Nat \ {0} /\ Len(entries) \in Nat
    BY <1>2, DevicesAssumption, EntryTypes
  <2> QED
    BY <1>2, <1>5, <2>1 DEF CoresSoFar
<1>7. DriversSoFar
  BY <1>2 DEF DriversSoFar, DriversAreThose, HasDriver
<1> QED
  BY <1>1, <1>3, <1>6, <1>7 DEF SInv

LEMMA NextSInv == SInv /\ [Next]_vars => SInv'
<1> SUFFICES ASSUME SInv, [Next]_vars PROVE SInv'
  OBVIOUS
<1>1. IInv'
  BY NextIInv DEF SInv
<1>2. IInv /\ WildExplained /\ CoresSoFar /\ DriversSoFar
  BY DEF SInv
<1>3. CASE UNCHANGED vars
  <2>1. /\ pc' = pc /\ UNCHANGED <<machine, cores, started>> /\ tables' = tables
        /\ PCIDevices' = PCIDevices /\ index' = index /\ drivers' = drivers
        /\ revision' = revision /\ isRSDT' = isRSDT
    BY <1>3 DEF vars, machine, walk, started
  <2>2. CoresSoFar'
    BY <1>2, <2>1, CoresStay
  <2>3. DriversSoFar'
    BY <1>2, <2>1 DEF DriversSoFar, DriversAreThose, HasDriver, Listed, Intact
  <2>4. WildExplained'
    BY <1>2, <2>1 DEF WildExplained, Found, Intact
  <2> QED
    BY <1>1, <2>2, <2>3, <2>4 DEF SInv
<1>4. CASE FindMCFG
  <2>1. /\ pc = "prepare" /\ pc' \in {"segment", "null", "wild"}
        /\ UNCHANGED <<machine, cores>> /\ UNCHANGED started /\ tables' = tables
        /\ revision' = revision /\ isRSDT' = isRSDT
    BY <1>4 DEF FindMCFG, FindTable, machine
  <2>2. WInv'
    BY <1>2, <1>4, PrepareStep DEF PrepareACPI
  <2>3. CASE revision = 0 /\ ~isRSDT
    <3>1. WildExplained'
      BY <2>1, <2>3 DEF WildExplained
    <3> QED
      BY <1>1, <1>2, <2>1, <2>2, <3>1, CoresStay, DriversStay DEF SInv
  <2>4. CASE ~(revision = 0 /\ ~isRSDT)
    <3>1. FindTable("MCFG", "segment")
      BY <1>4, <2>4 DEF FindMCFG
    <3> QED
      BY <1>1, <1>2, <2>1, <2>2, <3>1, CoresStay, DriversStay, FindTableStep DEF SInv
  <2> QED
    BY <2>3, <2>4
<1>5. CASE UseNull
  <2>1. /\ pc = "null" /\ pc' = "wild"
        /\ UNCHANGED <<machine, cores>> /\ UNCHANGED started /\ tables' = tables
        /\ revision' = revision /\ isRSDT' = isRSDT /\ PCIDevices' = PCIDevices
    BY <1>5 DEF UseNull, machine, walk
  <2>2. WildExplained'
    BY <1>2, <2>1 DEF WildExplained, Found, started, Intact
  <2>3. WInv'
    BY <1>2, <1>5, PrepareStep DEF PrepareACPI
  <2> QED
    BY <1>1, <1>2, <2>1, <2>2, <2>3, CoresStay, DriversStay DEF SInv
<1>6. CASE EnumeratePCI
  <2>1. /\ pc \in {"segment", "bus", "device", "function"}
        /\ pc' \in {"segment", "bus", "device", "function", "madt"}
        /\ UNCHANGED <<machine, cores>> /\ UNCHANGED started /\ tables' = tables
    <3>1. CASE NextSegment
      BY <3>1 DEF NextSegment, machine
    <3>2. CASE EnumerateBus
      BY <3>2 DEF EnumerateBus, machine
    <3>3. CASE EnumerateDevice
      BY <3>3 DEF EnumerateDevice, machine
    <3>4. CASE EnumerateFunction
      BY <3>4 DEF EnumerateFunction, machine
    <3> QED
      BY <1>6, <3>1, <3>2, <3>3, <3>4 DEF EnumeratePCI
  <2>2. WildExplained'
    BY <2>1 DEF WildExplained
  <2>3. WInv'
    BY <1>2, <1>6, PrepareStep DEF PrepareACPI
  <2> QED
    BY <1>1, <1>2, <2>1, <2>2, <2>3, CoresStay, DriversStay DEF SInv
<1>7. CASE FindMADT
  <2>1. /\ pc = "madt" /\ pc' \in {"core", "null", "wild"} /\ FindTable("APIC", "core")
        /\ UNCHANGED <<machine, cores>> /\ UNCHANGED started /\ tables' = tables
    BY <1>7 DEF FindMADT, FindTable, machine
  <2>2. WInv'
    BY <1>2, <1>7, PrepareStep DEF PrepareACPI
  <2> QED
    BY <1>1, <1>2, <2>1, <2>2, CoresStay, DriversStay, FindTableStep DEF SInv
<1>8. CASE ReadCore
  <2>1. pc = "core" /\ pc' \in {"core", "drivers"} /\ UNCHANGED started
    BY <1>8 DEF ReadCore
  <2>2. WildExplained'
    BY <2>1 DEF WildExplained
  <2>3. WInv'
    BY <1>2, <1>8, PrepareStep DEF PrepareACPI
  <2> QED
    BY <1>1, <1>2, <1>8, <2>1, <2>2, <2>3, ReadCoreStep, DriversStay DEF SInv
<1>9. CASE StartDrivers
  <2>1. /\ pc = "drivers" /\ pc' \in {"drivers", "done", "wild"}
        /\ UNCHANGED <<machine, cores>>
    BY <1>9 DEF StartDrivers, StartDriver
  <2>2. WildExplained'
    <3> SUFFICES ASSUME pc' = "wild" PROVE index' = 3 /\ ~Intact'
      BY <2>1 DEF WildExplained
    <3>1. /\ StartDriver /\ ~(index > Len(PCIDevices))
          /\ index' = 3 /\ index = 3 /\ PCIDevices' = Overwritten
      BY <1>9, <2>1 DEF StartDrivers, StartDriver, started
    <3>2. 3 \in DOMAIN PCIDevices
      BY <1>2, <3>1, ListParts
    <3>3. PCIDevices'[3] = HeapHeader /\ 3 \in DOMAIN PCIDevices'
      BY <3>1, <3>2 DEF Overwritten
    <3> QED
      BY <3>1, <3>3 DEF Intact
  <2> QED
    BY <1>1, <1>2, <1>9, <2>1, <2>2, CoresStay, StartDriversStep DEF SInv
<1> QED
  BY <1>3, <1>4, <1>5, <1>6, <1>7, <1>8, <1>9 DEF Next, PrepareACPI, Stops

\* Whatever tables the firmware has: a pointer that is none is followed only when
\* a table or XSDTAddress is missing, or when the heap has written over the third
\* function; the processors that are on are counted, each at its place, if they
\* fit; each controller that is in the vector when the loop comes to it is given
\* one driver, and nothing else is.
THEOREM SearchIsSound == Spec => []SearchInv
<1>1. ASSUME SInv PROVE SearchInv
  <2>1. TypeOK
    <3>1. pc \in Places
      BY <1>1 DEF SInv, IInv, WInv, CInv, Places, After
    <3> QED
      BY <1>1, <3>1, ListParts DEF SInv, Places, After, CoresSoFar, DriversSoFar, TypeOK
  <2>2. CoresAreThose
    <3> SUFFICES ASSUME pc \in {"drivers", "done"}, Cardinality(On) < CountLimit
                 PROVE  /\ numcore = Cardinality(On)
                        /\ \A k \in On : lapic_ids[Place(k)] = entries[k].id
      BY DEF CoresAreThose
    <3>1. entries \in Cores /\ ptr = Len(entries) + 1 /\ (Stuck \/ Counted)
      BY <1>1 DEF SInv, CoresSoFar
    <3>2. Len(entries) \in Nat /\ DOMAIN entries = 1..Len(entries)
      BY <3>1, EntryTypes
    <3>3. Counted
      BY <3>1, <3>2 DEF Stuck
    <3>4. Before(ptr) = On
      BY <3>1, <3>2 DEF Before, On
    <3> QED
      BY <3>3, <3>4 DEF Counted
  <2> QED
    BY <1>1, <2>1, <2>2 DEF SInv, DriversSoFar, SearchInv
<1> QED
  BY <1>1, InitSInv, NextSInv, PTL DEF Spec
=============================================================================
