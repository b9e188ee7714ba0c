------------------------------ MODULE Devices ------------------------------
(***************************************************************************)
(* The search for devices at boot: the tables of the firmware              *)
(* (cpu/acpi/acpi.cpp), the walk over the configuration space they point   *)
(* to (cpu/pci/pci.cpp), the processors they list, and the loop of         *)
(* KernelStart (kernel.cpp) that starts a driver for each AHCI controller. *)
(*                                                                         *)
(* A function is <<segment, bus, device, function>>, a segment being an    *)
(* entry of MCFG.  Its header is there or reads as absent (0 or 0xFFFF).   *)
(* A table that is missing leaves the code with NULL or with what lies     *)
(* after the root table: the model stops there, at "wild".                 *)
(*                                                                         *)
(* The array of the vector PCIDevices is a null pointer: its entries stand *)
(* at address 0 and after.  So does `last' of the segment that is not      *)
(* there, which Split writes when it cuts the last segment of the heap: it *)
(* falls on the third entry.                                               *)
(***************************************************************************)
EXTENDS Integers, Sequences, FiniteSets

CONSTANTS
    RootTables,   \* the lists of tables a machine may have: sequences of signatures
    Segments,     \* MCFG: a sequence of [start, end], the numbers of its first and last bus
    LastDevice,   \* 31
    LastFunction, \* 7
    Machines,     \* sets of functions that may be present
    Controllers,  \* functions that are AHCI controllers if they are present
    Cores,        \* MADT: the lists it may have, sequences of [type, length, id, enabled]
    CountLimit    \* 256, the values of numcore

ASSUME DevicesAssumption ==
    /\ \A list \in RootTables : list \in Seq({"FACP", "APIC", "MCFG"})
    /\ Segments \in Seq([start : Nat, end : Nat])
    /\ Cores \subseteq Seq([type : Nat, length : Nat, id : Nat, enabled : BOOLEAN])
    /\ LastDevice \in Nat /\ LastFunction \in Nat /\ CountLimit \in Nat \ {0}

\* A header of the heap, where the vector should have a function: it stands in no
\* segment, and what is read as its class is a byte of a heap address, 0.
HeapHeader == <<0, 0, 0, 0>>

ASSUME ClassAssumption == HeapHeader \notin Controllers

VARIABLES
    revision,    \* of the RSDP: 0 is that of ACPI 1.0, which has no XSDTAddress
    isRSDT,      \* what is read as XSDTAddress is 0
    tables,      \* signatures of the root table
    present,     \* functions that are present
    entries,     \* of MADT
    pc,
    position,    \* where the walk is: <<segment, bus, device, function>>
    PCIDevices,  \* the vector, a sequence of functions and, later, a heap header
    ptr,         \* entry of MADT that is looked at
    numcore, lapic_ids,
    index,       \* of the loop over PCIDevices, from 1
    drivers      \* controllers with an AHCIDriver, in order

machine == <<revision, isRSDT, tables, present, entries>>
walk    == <<position, PCIDevices>>
cores   == <<ptr, numcore, lapic_ids>>
started == <<index, drivers>>
vars    == <<machine, pc, walk, cores, started>>

Functions == UNION {{<<s, b, d, f>> : b \in Segments[s].start..Segments[s].end,
                                      d \in 0..LastDevice, f \in 0..LastFunction}
                    : s \in DOMAIN Segments}

Found(signature) == \E k \in DOMAIN tables : tables[k] = signature

\* Where FindTable looks in an RSDT, and in an XSDT, whose pointers of eight
\* bytes it counts as if they had four: what follows the table is looked at too,
\* and may be no address at all.
FindTable(signature, next) ==
    IF Found(signature) THEN pc' = next
    ELSE \/ pc' = "null"
         \/ ~isRSDT /\ pc' = "wild"

Init == /\ revision \in {0, 2} /\ isRSDT \in BOOLEAN /\ tables \in RootTables
        /\ present \in Machines /\ entries \in Cores
        /\ pc = "prepare" /\ position = <<1, 0, 0, 0>> /\ PCIDevices = <<>>
        /\ ptr = 1 /\ numcore = 0 /\ lapic_ids = [i \in 0..(CountLimit - 1) |-> 0]
        /\ index = 1 /\ drivers = <<>>

\* PrepareACPI.  The revision is not looked at: behind an RSDP of ACPI 1.0 there
\* may be anything, and what is not 0 is taken for the address of an XSDT.
FindMCFG == /\ pc = "prepare"
            /\ IF revision = 0 /\ ~isRSDT THEN pc' = "wild"
                                          ELSE FindTable("MCFG", "segment")
            /\ UNCHANGED <<machine, walk, cores, started>>

\* Neither of the results is compared with NULL.
UseNull == /\ pc = "null" /\ pc' = "wild"
           /\ UNCHANGED <<machine, walk, cores, started>>
-----------------------------------------------------------------------------
(* EnumeratePCI *)

Segment(s) == position[1] = s /\ s \in DOMAIN Segments

\* The bus of the walk: the loop ends before the last one.
InRange == position[2] < Segments[position[1]].end

NextSegment ==
    /\ pc = "segment"
    /\ IF Segment(position[1])
       THEN position' = <<position[1], Segments[position[1]].start, 0, 0>> /\ pc' = "bus"
       ELSE pc' = "madt" /\ UNCHANGED position
    /\ UNCHANGED <<machine, PCIDevices, cores, started>>

Skip(n) == CASE n = 1 -> <<position[1] + 1, 0, 0, 0>>
             [] n = 2 -> <<position[1], position[2] + 1, 0, 0>>
             [] n = 3 -> <<position[1], position[2], position[3] + 1, 0>>
             [] n = 4 -> <<position[1], position[2], position[3], position[4] + 1>>

\* A bus whose first header is absent is passed over.
EnumerateBus ==
    /\ pc = "bus"
    /\ \/ ~InRange /\ position' = Skip(1) /\ pc' = "segment"
       \/ InRange /\ position \notin present /\ position' = Skip(2) /\ UNCHANGED pc
       \/ InRange /\ position \in present /\ pc' = "device" /\ UNCHANGED position
    /\ UNCHANGED <<machine, PCIDevices, cores, started>>

\* Mutant of EnumerateDevice: a device that is absent ends its bus.
EnumerateDeviceStop ==
    /\ pc = "device"
    /\ \/ position[3] > LastDevice /\ position' = Skip(2) /\ pc' = "bus"
       \/ /\ position[3] <= LastDevice /\ position \notin present
          /\ position' = Skip(2) /\ pc' = "bus"
       \/ /\ position[3] <= LastDevice /\ position \in present
          /\ pc' = "function" /\ UNCHANGED position
    /\ UNCHANGED <<machine, PCIDevices, cores, started>>

EnumerateDevice ==
    /\ pc = "device"
    /\ \/ position[3] > LastDevice /\ position' = Skip(2) /\ pc' = "bus"
       \/ /\ position[3] <= LastDevice /\ position \notin present
          /\ position' = Skip(3) /\ UNCHANGED pc
       \/ /\ position[3] <= LastDevice /\ position \in present
          /\ pc' = "function" /\ UNCHANGED position
    /\ UNCHANGED <<machine, PCIDevices, cores, started>>

EnumerateFunction ==
    /\ pc = "function"
    /\ \/ /\ position[4] > LastFunction
          /\ position' = Skip(3) /\ pc' = "device" /\ UNCHANGED PCIDevices
       \/ /\ position[4] <= LastFunction
          /\ PCIDevices' = IF position \in present THEN Append(PCIDevices, position)
                                                   ELSE PCIDevices
          /\ position' = Skip(4) /\ UNCHANGED pc
    /\ UNCHANGED <<machine, cores, started>>

EnumeratePCI == NextSegment \/ EnumerateBus \/ EnumerateDevice \/ EnumerateFunction
-----------------------------------------------------------------------------
FindMADT == /\ pc = "madt"
            /\ FindTable("APIC", "core")
            /\ UNCHANGED <<machine, walk, cores, started>>

\* Mutant of CountCore: processors that are off are counted.
CountCoreOff(e) ==
    IF e.type = 0
    THEN /\ lapic_ids' = [lapic_ids EXCEPT ![numcore] = e.id]
         /\ numcore' = (numcore + 1) % CountLimit
    ELSE UNCHANGED <<numcore, lapic_ids>>

\* numcore is a byte.
CountCore(e) ==
    IF e.type = 0 /\ e.enabled
    THEN /\ lapic_ids' = [lapic_ids EXCEPT ![numcore] = e.id]
         /\ numcore' = (numcore + 1) % CountLimit
    ELSE UNCHANGED <<numcore, lapic_ids>>

\* Mutant of ReadCore: the step to the next entry is left out for types that are
\* not those of a processor.
ReadCoreStuck ==
    /\ pc = "core"
    /\ IF ptr > Len(entries)
       THEN pc' = "drivers" /\ UNCHANGED cores
       ELSE /\ CountCore(entries[ptr])
            /\ ptr' = IF entries[ptr].type # 0 THEN ptr ELSE ptr + 1
            /\ UNCHANGED pc
    /\ UNCHANGED <<machine, walk, started>>

\* An entry of length 0 is looked at for ever.
ReadCore == /\ pc = "core"
            /\ IF ptr > Len(entries)
               THEN pc' = "drivers" /\ UNCHANGED cores
               ELSE /\ CountCore(entries[ptr])
                    /\ ptr' = IF entries[ptr].length = 0 THEN ptr ELSE ptr + 1
                    /\ UNCHANGED pc
            /\ UNCHANGED <<machine, walk, started>>

\* new AHCIDriver, with the ports it makes.  One of these allocations may cut the
\* last segment of the heap.  The memory is asked for before the argument is
\* read, or after: the third function may be given to its driver as a header.
Overwritten == [k \in DOMAIN PCIDevices |-> IF k = 3 THEN HeapHeader ELSE PCIDevices[k]]

StartDriver ==
    \/ /\ drivers' = Append(drivers, PCIDevices[index])
       /\ index' = index + 1 /\ PCIDevices' \in {PCIDevices, Overwritten}
       /\ UNCHANGED pc
    \/ /\ index = 3 /\ PCIDevices' = Overwritten
       /\ pc' = "wild" /\ UNCHANGED started

\* A round of the loop of KernelStart over PCIDevices: by class, subclass and
\* interface it finds the controllers.
StartDrivers ==
    /\ pc = "drivers"
    /\ IF index > Len(PCIDevices)
       THEN pc' = "done" /\ UNCHANGED <<started, PCIDevices>>
       ELSE IF PCIDevices[index] \in Controllers
            THEN StartDriver
            ELSE index' = index + 1 /\ UNCHANGED <<pc, drivers, PCIDevices>>
    /\ UNCHANGED <<machine, position, cores>>

PrepareACPI == FindMCFG \/ UseNull \/ EnumeratePCI \/ FindMADT \/ ReadCore

Stops == pc \in {"done", "wild"} /\ UNCHANGED vars

Next == PrepareACPI \/ StartDrivers \/ Stops

Spec == Init /\ [][Next]_vars /\ WF_vars(PrepareACPI) /\ WF_vars(StartDrivers)
-----------------------------------------------------------------------------
(* Properties *)

\* Every variable has its type; what is in PCIDevices are functions of the buses
\* that the firmware gave, or a header of the heap.
TypeOK == /\ pc \in {"prepare", "null", "wild", "segment", "bus", "device",
                     "function", "madt", "core", "drivers", "done"}
          /\ PCIDevices \in Seq(Functions \union {HeapHeader}) /\ drivers \in Seq(Functions)
          /\ numcore \in 0..(CountLimit - 1) /\ ptr \in 1..(Len(entries) + 1)
          /\ lapic_ids \in [0..(CountLimit - 1) -> Nat] /\ index \in 1..(Len(PCIDevices) + 1)

Occurrences(f) == Cardinality({k \in DOMAIN PCIDevices : PCIDevices[k] = f})

Scanned(f) == f[1] < position[1] \/ pc \in {"madt", "core", "drivers", "done"}

\* What the walk passes over although it is there: the last bus of a segment, and
\* the buses that have no device 0.
PassedOver(f) == \/ f[2] = Segments[f[1]].end
                 \/ <<f[1], f[2], 0, 0>> \notin present

Intact == \A k \in DOMAIN PCIDevices : PCIDevices[k] # HeapHeader

\* Each function that is present, and whose device has a function 0 as all
\* devices have, is in PCIDevices once when its segment has been walked, unless
\* its bus is passed over, and as long as the heap has not written over the
\* vector; none is ever there twice, and none that is absent.
EachFunctionOnce ==
    \A f \in Functions :
        /\ Occurrences(f) <= 1
        /\ Occurrences(f) = 1 => f \in present /\ ~PassedOver(f)
        /\ (Scanned(f) /\ f \in present /\ <<f[1], f[2], f[3], 0>> \in present)
               => (Occurrences(f) = 1 \/ PassedOver(f) \/ ~Intact)

\* A pointer that is none is followed only when a table is missing, when the RSDP
\* is too short for the field that is read, or when the heap has written over the
\* function whose driver is being made.
WildExplained ==
    pc \in {"wild", "null"} =>
        \/ ~Found("MCFG") \/ ~Found("APIC")
        \/ revision = 0 /\ ~isRSDT
        \/ index = 3 /\ ~Intact

\* Entries of processors that are on, and how many of them stand before entry k.
On == {k \in DOMAIN entries : entries[k].type = 0 /\ entries[k].enabled}
Place(k) == Cardinality({j \in On : j < k})

\* The processors that are counted are those of MADT that are on, in its order,
\* as long as their number fits.
CoresAreThose ==
    (pc \in {"drivers", "done"} /\ Cardinality(On) < CountLimit) =>
        /\ numcore = Cardinality(On)
        /\ \A k \in On : lapic_ids[Place(k)] = entries[k].id

HasDriver(f) == \E k \in DOMAIN drivers : drivers[k] = f

\* Each controller among the functions the loop has passed has a driver, and one
\* only; nothing else has, but for a controller whose entry, the third, has been
\* written over since.  No other entry is, and that one by a driver only: when no
\* header is in the vector at the end, no controller in it is without a driver.
DriversAreThose ==
    /\ \A k \in 1..(index - 1) : PCIDevices[k] \in Controllers => HasDriver(PCIDevices[k])
    /\ \A f \in Functions : HasDriver(f) =>
           /\ f \in Controllers
           /\ (\E k \in 1..(index - 1) : PCIDevices[k] = f) \/ (index > 3 /\ ~Intact)
    /\ \A k, l \in DOMAIN drivers : drivers[k] = drivers[l] => k = l
    /\ \A k \in DOMAIN PCIDevices : PCIDevices[k] = HeapHeader =>
           k = 3 /\ (drivers # <<>> \/ pc = "wild")
    /\ pc = "done" => index = Len(PCIDevices) + 1

\* The tables are used as they are: the processors counted, the controllers
\* found given drivers, nothing else followed; what is not so is explained.
SearchInv == TypeOK /\ WildExplained /\ CoresAreThose /\ DriversAreThose

\* The search ends, unless an entry of MADT has length 0.
SearchEnds == (\A k \in DOMAIN entries : entries[k].length > 0)
                  => <>(pc \in {"done", "wild"})
=============================================================================
