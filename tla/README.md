# HuskyOS in TLA+

HuskyOS is a hobby operating system for x86-64: a kernel in C++ that the Limine
boot loader starts through the stivale2 protocol. It has one processor running,
one thread of its own (`KernelStart`, then an idle loop), interrupt handlers for
the timer and the keyboard, and devices that work on their own. This directory
holds TLA+ models of its parts, the TLC configurations that check them, and
proofs about eleven of them: the page frame allocator, page tables, the address space that
boot builds, the heap, interrupts, the console, the AHCI driver, the clock, the search for
devices, the serial log and the file system. Source paths below are relative to
`src/Kernel/src/`; headers are in `src/Kernel/include/`.

Contents

1. [The system](#1-the-system)
2. [Plan](#2-plan)
3. [The modules](#3-the-modules)
4. [The runs](#4-the-runs)
5. [Fairness](#5-fairness)
6. [Proofs](#6-proofs)
7. [What the models say about the code](#7-what-the-models-say-about-the-code)
8. [What the models assume](#8-what-the-models-assume)
9. [What is not modelled](#9-what-is-not-modelled)

To repeat a check: `tlc -config MCHeap.cfg MCHeap.tla`, and for the proofs
`tlapm PageFrameAllocator_proofs.tla` and the same with the other `*_proofs.tla`.

## 1. The system

### Boot

`Kernel::KernelStart` (kernel.cpp:35-160) calls everything once, in this order:

| Lines | Step | Component |
|---|---|---|
| 37-47 | the boot loader's tags, `initSerial` | serial log |
| 49-55 | `ReadMemoryMap`, `LockPages` of the kernel | page frame allocator |
| 57-86 | the PML4, identity map, higher half, regions, CR3 | page tables |
| 88 | `initializeHeap` | heap |
| 90-102 | framebuffer | terminal |
| 103-104 | `makeGDT`, `makeIDT` (-> `interrupts_init`) | interrupts |
| 105-106 | `timer_install`, `EnableKeyboard` | timer, keyboard |
| 108-124 | `initrd_mount`, then `finddir_fs` and `read_fs` of license.txt | VFS, ext2 |
| 126-131 | `GetTime`, `FormatTime` | clock |
| 133-135 | `PrepareACPI` (-> `EnumeratePCI`) | ACPI, PCI |
| 137-151 | an `AHCIDriver` for each controller | AHCI |
| 153-157 | `setlimit`, `activate_keyboard_processing`, the idle loop | terminal, keyboard |

Interrupts are on from `interrupts_init` onwards, before the interrupt controller
has been set up, so everything from line 104 on runs interleaved with handlers.

### Components

**Page frame allocator** (memory/pageFrameAllocator.cpp, bitmap.cpp). State: a bitmap
with a bit for each frame, laid into the largest usable region; three byte counters; the
index where a search starts. Operations: `ReadMemoryMap`, `RequestPage(s)`,
`FreePage(s)`, `LockPage(s)`, `ReservePages`. Page tables, heap and AHCI take single pages of
it; `RequestPages` and `FreePage(s)` have no caller yet. Hard: the bitmap describes the
memory it lies in; unaligned entries of the memory map; runs at the end of the bitmap;
arithmetic on `int`. Correct when no frame is handed out twice or taken from what was
reserved, the counters say what the bitmap says, and "no memory" is answered only when there is
none.

**Page tables** (memory/PageTableManager.cpp, paging.cpp, PageMapIndexer.cpp). State: four
levels of tables in frames of the allocator, reached through their own mappings once CR3 is
loaded. Operation: `MapMemory`. Hard: a table is written through the tables; memory
for tables may be missing; it holds garbage before it is cleared. Correct when one call
changes one translation.

**Boot-time address space** (kernel.cpp:57-86, heap.cpp:10-16, 112-119). The order in which
the maps are made, and the heap window at a fixed virtual address *inside* the identity
map. Correct when the translation is the intended one, before and after CR3, and the
heap keeps what was written to it.

**Heap** (memory/heap.cpp). State: a doubly linked list of segment headers in the heap
itself, `heapEnd`, `LastHdr`. Operations: `malloc`, `calloc`, `realloc`, `free`, with
`Split`, `CombineForward`, `CombineBackward`, `ExpandHeap`. Used by VFS, lists, AHCI,
`new`. Correct when the list tiles the heap, blocks are disjoint, and freed memory
comes back.

**Interrupts and timer** (cpu/idt, cpu/isr, cpu/pic, drivers/pit.cpp). State: IDT gates,
`static_handlers`, the masks and in-service bits of the two 8259s, `timer_ticks`. Hard: all
of it is set up with interrupts on. Correct when no interrupt finds its gate missing, each
is acknowledged, boot ends, and the clock ticks for ever.

**Keyboard** (drivers/keyboard.cpp). State: modifier and lock flags, the line buffer and
its `index`, what the 8042 holds. `EnableKeyboard` and `keyboard_init` set it up,
`keyboard_irq_handler` takes a scan code, decodes it, stores and echoes it. Shares the
line buffer with the terminal. Hard: bytes that come during set-up; a table shorter than
the scan codes; key codes cut to eight bits.

**Terminal** (terminal/terminal.cpp). State: `cursor`, `limit`, the framebuffer.
`gfxmode::putchar` draws, wraps, scrolls and, for backspace, erases and edits the
keyboard's buffer. Correct when the cursor never gets in front of `limit` and pixels are
written on the screen only.

**Serial log** (terminal/serial.cpp). State: a buffer and its index.
`debug` formats a message and `serialPutchar` stores its characters, and flushes at the end
of a line or when full. Correct when the wire carries what was printed, and that says what
the caller meant.

**Formatted output** (klib/hkStdio.cpp, Utils.cpp). No state between calls. `vkprint` goes
through a format with the state of one directive, and the conversions make digits. Hard:
four widths of arguments meet conversions of one; what one directive sets must not reach
the next. Correct when a reader of the digits gets the argument back.

**Real-time clock** (time/time.cpp). `GetTime` reads seven registers of a clock that
runs, `FormatTime` uses two fields of the answer as indices. Correct when the answer is one
moment.

**Device discovery** (cpu/acpi/acpi.cpp, cpu/pci/pci.cpp). State: the vector
`PCIDevices`, `numcore`, `lapic_ids`. `PrepareACPI` finds MCFG and MADT, `EnumeratePCI`
walks segments, buses, devices, functions; `KernelStart` starts a driver for each controller in
the vector. Correct when each function is found once, each controller has a driver and the
search ends.

**AHCI driver** (drivers/ahci.cpp). State: `ports`, `portCount`, the ports' registers.
`ProbePorts`, `Configure`, `stopCmd`, `startCmd`, `Read`. The controller works on its own.
Correct when memory is exchanged under stopped engines only, an answer is true, every
drive is read, and boot goes on.

**Virtual file system** (fs/vfs.cpp). State: `fs_root`, and the strings, list elements and
nodes a call allocates. `kopen`, `canonicalize_path`, `create_file_fs`, `mkdir_fs`,
`finddir_fs`, `read_fs`, `readdir_fs`. Correct when a path opens the file it leads to and
every allocation is freed once. The kernel itself only mounts the ramdisk and reads license.txt,
with `finddir_fs` and `read_fs` (kernel.cpp:108-124): `kopen`, `create_file_fs`, `mkdir_fs` and
`readdir_fs` have no caller yet. They are modelled as an interface, for callers that use them in
any order.

**ext2 initial ramdisk** (fs/ext2_initrd.cpp). State: the image, read only, of which
`initrd_mount` asserts that it is one.
`initrd_mount`, `finddir_initrd`, `read_initrd`, `readdir_initrd`,
`ext2_get_inode_block`. Correct when a read delivers the bytes of the file.

**Linked lists** (klib/list.cpp). Doubly linked lists with a header; `canonicalize_path` and
nobody else uses them. Correct when both directions show the same nodes, none of them freed.

**Strings** (klib/string.cpp). Pure functions; `strtok_r` is the one with a difficulty, for it
writes terminators into its argument and goes on behind them.

**Not modelled**: the boot protocol (stivale2_boot.cpp), GDT and port access, the library's
copying and comparing. See [section 9](#9-what-is-not-modelled).

### How they interact

```
 keyboard, PIT, RTC, 8259, 8042                 firmware tables
      |  interrupts, ports                          |
 Interrupts --> Console (line buffer, cursor)    Devices --> AHCI
      |  Sleep_pit                                  |          |
    Clock                                    MapMemory   RequestPage, malloc
                                                    |          |
 VFS --> Initrd        Heap --> KernelMemory --> PageTables --> PageFrameAllocator
  | \--- malloc, free ---/   RequestPage, MapMemory
  \----> Lists, Strings
 DebugLog --> FormattedOutput
     \------> Serial --> UART
```

Calls go along the arrows. Shared state that is not a call: the line buffer
and its index (keyboard handler and `putchar`), `timer_ticks` (handler and
`Sleep_pit`), the page tables themselves (`MapMemory` reads and writes them
through themselves), the heap's frames and the identity map (same addresses).

### Hazards

`PROJECT.json` lists, under `hazards`, each place where this code is hard to test, with the
properties that would see it go wrong. The groups are: bookkeeping over long sequences of
calls (allocator, heap, VFS); order of steps at boot (page tables and CR3, interrupt
controller and gates, keyboard); devices at their own pace (RTC, 8042, AHCI, UART);
limits (bitmap end, line buffer, serial buffer, heap growth, last bus, 16- and 32-bit wraps); state
read without ever being set (`portCount`, `node->mkdir`, the table behind
`standard_keycodes`).

## 2. Plan

Order: what everything else stands on first (frames, tables, heap), then what runs
concurrently (interrupts, keyboard, devices), then the long sequential paths (VFS).

| # | Module | Composed of | Abstract specification | State |
|---|---|---|---|---|
| 1 | PageFrameAllocator | - | FramePool | checked, proved |
| 2 | PageTables | a pool of frames as module 1 promises it | AddressSpace | checked, proved |
| 3 | KernelMemory | extends PageTables | the intended translation (`IntendedSpace`) | checked, proved |
| 4 | Interrupts | PIC, timer, keyboard controller, boot thread | - | checked, safety proved |
| 5 | Console | keyboard decoding and terminal | - | checked, proved |
| 6 | Heap | - | a tiling (`Tiled`, `BlocksDisjoint`) | checked, proved |
| 7 | AHCI | driver and controller | - | checked, safety proved |
| 8 | Clock | code and device | the calendar (`Reading`) | checked, proved |
| 9 | Devices | - | `PassedOver`: the functions to be found | checked, safety proved |
| 10 | Serial, FormattedOutput, DebugLog | DebugLog extends the two | `Means`: what a reader of the log understands | checked, safety proved |
| 11 | Lists, Strings, Ext2Nodes, Initrd, VFS | VFS extends the four | `Names`, `Resolve`, `Wanted`: the tree and the file; sequences for lists | checked, safety proved |

Left: `UnreservePage(s)` in `PageFrameAllocator`, with the discipline a caller has to keep,
when there is a caller.

## 3. The modules

Each specification module has an `MC` module and one or more `.cfg` files. Definitions
called `...` with a comment "Mutant of X" are X with a plausible mistake in it; no
specification uses them. They show that each property can fail.

### PageFrameAllocator, FramePool

| Model | Code |
|---|---|
| `locked` | the bits of `PageBitmap` that are 1 |
| `FreeMemory`, `UsedMemory`, `ReservedMemory` | the counters, in frames |
| `PageBitmapIndex` | where a search starts; always 0, for frees only lower it and nothing raises it |
| `stray` | the bit behind the bitmap, which `Get` reads and `Set` writes (`index > Size * 8`) |
| `held` | history: frames callers have and have not freed |
| `ReadMemoryMap` | pageFrameAllocator.cpp:14-62, with `ReservePages` and `LockPages` |
| `RequestPage`, `RequestPages`, `FreePages`, `FreePage`, `LockPages` | the methods |

One action is one call: nothing interleaves with the allocator, since handlers do not
allocate. `IntWraps` covers the overflow of `int t * 4096` in the loops (undefined
behaviour): either the build lets it wrap or it does not. `FreePages` takes frames
callers hold, because no caller does anything else.

`FramePool` says what callers may rely on: a frame is free, on loan, or withdrawn; loans
come from free frames; only a loan comes back.

### PageTables, AddressSpace

`mem` holds the entries of every frame of memory, `Garbage` being what a frame may read as
before it is cleared. `MapMemory` is the whole call: the split of the address, four
descents that take a frame, clear it and enter it, the last entry. `Deref` computes where
an access to a physical address really goes: to the frame itself before CR3, and through
the tables afterwards. An access with nothing behind it, which includes the case of a NULL
from `RequestPage` when that page is not mapped, sets `fault`, and the machine stops.
`AddressSpace` is the promise: a map from pages to frames changed at one place.

### KernelMemory

Extends PageTables with the order of things. `Loops` are the loops of kernel.cpp:63-80 (identity
map, higher half, one for each region): where each begins, and how many pages it maps. `loop`
is the one that is running and `next` how far it is; `BootMap` is one call of `MapMemory`, `EndLoop`
the end of a loop. `LoadCR3`, `InitializeHeap` follow; then, in any order, `ExpandHeap`, `WriteHeap` (somebody fills a block), `MapDevice`
(EnumerateFunction maps a configuration page) and `TakeDriverFrame` (`Configure`
takes a frame and clears it by its physical address). `Window` is the heap's virtual range.

### Interrupts

The boot thread is `pc`, a place between each two instructions that matter (`Places`).
A handler is `serving` and `stage`: entered, run, end of interrupt sent, returned. The
processor takes the waiting line of highest priority before the boot thread takes another
step, if the interrupt flag is on. The 8259 is `base`, `mask`, `irr`, `isr`; the 8042 is
`full`, `busy`, `queued`, `scanning`. `cached` chooses whether the build keeps
`timer_ticks` in a register while `Sleep_pit` loops (it is not volatile). `GapBytes`
chooses whether bytes may come between drain and registration.

### Console

`keyboard_irq_handler` from the byte it has read on (`HandleScanCode`) and `putchar` in one
state: `cursor`, `limit`, `index` and the modifiers. What is drawn is drawn at `ssfn_dst`, whose
coordinates are cut to 16 bits (`Int16`) and compared as unsigned numbers (`PastEdge`). Per step it records what was written to the line buffer,
drawn, erased and stored. Key codes and characters are the numbers of keyboard.h, because
`uint8_t key` (keyboard.cpp:159) cuts them: Alt becomes a backspace, and so on. Memory
behind `standard_keycodes` may hold any of `AnyWord`.

### Heap

`seg` maps each header's address to its content, also those of headers a merge has
absorbed, as long as their bytes are there: pointers to them are still followed
(`LastHdr`, the back pointer of the first segment). `malloc` searches (`Allocate`) or grows and
searches again (`ExpandHeap`); `pending` is the request under way. `realloc` reads the *payload* as a
header, as the code does, so its outcome depends on what the owner wrote; with a new block it
copies and frees the old one (`FreeOrigin`). An old header in a block stays until another is written
over it (`Cleared`) or the owner writes there (`Write`), which he may or may not do; `Become` takes
away those nothing leads to. `corrupt` marks that a pointer was followed to what is not a header any
more, `misled` that a block was freed whose header's back pointer led into the block itself.

### AHCI

The driver's `pc` and one action per block of the driver; per port the bits `ST`, `FRE`
(set by the driver), `CR`, `FR` (following them late), `busy`, `TFES`, `CI`. Firmware may
leave any combination of them (commands where `ST` is set); its commands may complete as long
as the port is not stopped, into its own memory. `stopCmd` clears both bits and then looks at one
engine after the other (`LookAtFR`, `LookAtCR`), going back to the first when either still runs, as
the loop does; an engine may start or stop between two looks. The registers are not volatile:
`build` says whether each look reads (`rereads`), or one read serves for all looks of a loop
(`looksOnce`: `LookBefore`, `startCmdHangs`, `ReadOnce`; the loop ends at once or in `hung`), or
loops that do nothing are gone as well (`leavesOut`). `portCount` starts with anything:
`ProbePorts` counts up from what `new` found in memory.

### Serial, FormattedOutput, DebugLog

`Serial`: `serialPutchar` with `buffer`, `idx` and the flush on a full buffer or an end of
line; `Send` is the loop of `serialWrite` byte by byte; `neighbour` is what the linker put
behind the buffer, for the terminator of a full buffer goes there: padding, a variable
somebody else uses, or the index itself.

`FormattedOutput`: `vkprint` goes from `State` to `State`, one character of the format a
`Step`: it copies the character, opens a directive, refines it (`Modified` for `l`, `h`, `.`,
`*`), has an argument converted, or closes what is no directive (`AfterDirective` is the reset at
the end). Widths are constants, so that the places where
a value is cut (`Width`, then the `int` of the conversions) are in reach of small numbers.
A float is a fraction `p / q`: rounding is not modelled. What `fnumber_to_string` does to it is
exact for the numbers that are tried, and `IsFraction` asks for whole parts and digits that an int
can hold, and for a precision above 0: with 0 and no whole part there is no digit, and the copy
(Utils.cpp:143) starts below the buffer. No caller prints a float.

`DebugLog` composes them: `debug` formats a message, `Putchar` hands each character to
`serialPutchar`, which may wait for the wire. A message is a sequence of parts, each with its
meaning and with the directive that asks for it, so that `Means` can be stated without
the code's way of printing. `IsPart` lists the parts: what the callers of `debug` may ask for,
with arguments of the kind the directive takes and a precision that leaves room in the buffers of
32 characters.

### Clock

`now` runs over a calendar; UIP is set first (`Announce`), registers change (`Change`), UIP
falls (`Updated`). `GetTime` tests UIP, may sleep, reads seven registers one at a time
in the order of the code, and converts (`Converted`). A register read while it changes yields
`Glitch`. Registers keep binary or BCD numbers, hours by 24 or by 12. `FormatTime` uses month
and day of the week as indices; one that is out of range ends in `astray`.

### Devices

The list of tables, segments, machines and MADT entries are constants of which the
initial state picks. `position` walks as the loops do, `ptr` over the MADT, `index` over
`PCIDevices` (one round of KernelStart's loop is one `StartDrivers`). `wild` is reached where
the code follows what is no table. The RSDP may be one of ACPI 1.0, in which what is read as
`XSDTAddress` belongs to something else (acpi.cpp:35).

The vector has no storage: its array is null (vector.h:39), and entry `i` stands at address
`8 * i`. So does the field `last` of a null `next`, at 0x10, which `Split` writes when it cuts the
last segment of the heap (heap.cpp:93). `StartDriver`, in which an `AHCIDriver` and its ports are
allocated, may therefore leave a `HeapHeader` in the third place (`Overwritten`), and when the
controller itself stands there, the driver may be given that header.

### Ext2Nodes, Initrd, Lists, Strings, VFS

`Ext2Nodes`: modes and flags as sets of bits that overlap, as the constants of ext2.h and
vfs.h do. `Initrd`: `Copies` is the set of `memcpy`s a `read_initrd` makes, with the block
tree of `ext2_get_inode_block`. `Lists`: a header and the nodes its pointers lead to, each
named by the block it lies in; every operation of list.cpp returns the list with its pointers
rewritten; `Follow` is the loop of the macro `foreach`. `Strings`: `strtok_r` and the functions it calls, on sequences of characters.

`VFS`: paths are sequences of characters. A call runs over several steps: `kopen`, or
`Make` for `create_file_fs` and `mkdir_fs`; a `Token` for each name, which pushes or pops
an element of the list; `Joined`; `StartWalk`, which turns separators into terminators; a
`Find` for each name; `Return`. Each has the allocations and frees of its lines; `heap` is the
set of blocks allocated. `read_fs` and `readdir_fs` are single steps, and the caller frees
the entry it is given (`Seen`). Directories are scanned as the code does, from the first
block on. An image with the wrong magic number fails the assertion of
`initrd_mount` (`AssertFails`), which halts until an interrupt comes (`Resumed`). The descriptor
of the first group is read at byte 2048 (ext2_initrd.cpp:389), which is its place for blocks of one
or two kilobytes only (`DescriptorsFound`; `MountAstray` otherwise), and all inodes are looked for in
that group's table (`InTable`): `Find` goes on with an inode of this group, `FindAstray` with
one of another. What the
machine does after a read of nothing (`astray`, `garbage`, `null`: the set `Lost`) is not
followed.

## 4. The runs

All constants are in the `.cfg`, or defined in the MC module it names. Bounds are
small where a larger value repeats what a smaller one shows.

| Run | States | Checks |
|---|---|---|
| page_frames | 190,082 | `TypeOK`, `Accounting`, `NoFrameTwice`, `ReservedBytesKept`, `RequestAnswers`, `ImplementsFramePool` |
| page_tables | 4,590 | `TablesSound`, `ImplementsAddressSpace` |
| kernel_memory | 180,602 | `KernelInv`, `IntendedSpace`, `FaultExplained`, `HeapContentsStable` |
| interrupts | 32,272 | `InterruptsInv`, `NoGateOnlyInRemap`, `BootEnds`, `TimerKeepsRunning`, `KeyboardKeepsSending` |
| keyboard_gap | 47,104 | `KeyboardKeepsSending` (violated, see section 7) |
| console | 45,724 | `ConsoleInv`, `EraseOnScreen`, `EchoVisible` |
| heap | 184,268 | `HeapInv`, `AllComesBack`, `GrowthAppends` |
| ahci | 776,608 | `DriverInv`, `TruthfulAnswer`, `EveryDriveRead`, `MemoryMovesIdle`, `BootGoesOn` |
| serial | 539,484 | `DebugInv`, `LineComesOut` |
| clock | 70,660 | `ClockInv`, `OneInstant` |
| devices | 195,284 | `SearchInv`, `EachFunctionOnce`, `SearchEnds` |
| vfs | 193,103 | `MemoryInv`, `NoLeak`, `NamesFollowTree`, `ReadIsExact`, `CallsReturn` |

**page_frames.** A machine of 22 bytes with frames of 2: unaligned, overlapping and
out-of-range entries, and a bitmap that covers 16 frames where the map describes 11, so that
there are frames that do not exist (the code's `size / 8 + 1`). `IntPages` 4 brings the
overflow of `int` within reach; one locked range lies above the bitmap (as the kernel's own
does, passed by a higher-half address) and one is longer than `IntPages`. Shows: counters
and bitmap agree whatever is locked twice or reserved twice; no frame is handed out twice;
what `ReadMemoryMap` reserved stays locked; NULL means exhausted (for `RequestPages`: no run
of twice the length less one), and frames that do not exist are
handed out only after all that do. The kernel's own frame is handed out like any other, see
section 7. `ReservedBytesKept` has a condition, which names the
entries for which `length / 0x1000 + 1` pages from an unaligned base are enough.

**page_tables.** Fanout 2, so four levels span 16 pages; the five pages mapped share three
tables, two, one and none with page 0. 16 frames and a pool with holes, whose last frame is no
memory. Shows: tables never share a
frame and one call changes one translation.

**kernel_memory.** Fanout 4 and 48 frames, so that the tables of the boot maps take
several frames at each level. The heap window is placed over identity tables,
over tables of the higher half, over those of the regions, and behind all of them, where the
frames are still in the pool or not: the cases of a machine with more or less memory. The
second pool has a frame that is no memory and runs dry early. Shows: the space is the intended one unless a
table lies under the window; a fault happens for want of frames or for that reason only; heap
contents are changed by heap writes only, with the same two exceptions.

**interrupts.** Two keys, two subticks to a tick, sleep of two ticks, ticks modulo 4: each
counter wraps or fills. All interleavings of the boot thread, two lines and the devices.
Shows: an interrupt without a gate is possible, in one window of `pic_remap` only, between
the writes that clear the masks and the one that restores them; elsewhere every interrupt is
acknowledged, boot ends unless `Sleep_pit` runs on a copy of `timer_ticks`, the timer
runs for ever, and the keyboard is read as long as no byte comes between drain and
registration.

**keyboard_gap.** The same without that condition.

**console.** Cells of 2×2 on screens of 6×4, 6×6 and 6×5 (the last is no multiple of a
cell), a line buffer of 3, thirteen scan codes, one of each kind the code tells apart; the
cursor in 32-bit arithmetic modulo 64, the renderer's `int16_t` modulo 16, no newline behind
row 16 (`Deepest`), so that rows are cut and none wraps. Shows: the line buffer is written inside,
but for a backspace on a full buffer, which blanks the byte behind it; and, if the screen is a
multiple of a cell and the limit a row of it: the cursor never gets in front of the limit;
erasing and echo are on the screen, except after the wrap at the end of the last row; the echo
appears where the cursor passes, until so many Returns have been given that `int16_t` cuts the row.

**heap.** One page of 18 units that may grow to two, headers of 4, sizes that split, that
just fit, that are zero and that force growth. Shows: until the heap first grows or a block is
freed whose back pointer leads into itself, every pointer leads to a header, the list tiles the heap and
all blocks come back; when it grows while `LastHdr` is the last segment, it stays a tiling.
Both exceptions are reached. The first takes a few calls: the first segment is split, freed, and
handed out whole, and what its owner left in place of the old header decides what `free` does.
In the other case segments are cut off, which `GrowthAppends` excludes by its condition.

**ahci.** Three ports, of which the page that is mapped covers two (in the machine, 30 of 32),
a limit of two looks instead of a million, `portCount` starting with 0, 1, 2, any
combination of engine bits, errors and commands left by the firmware, three builds. Shows: commands
go to ports with new memory and both engines enabled; `Read` says true exactly when the data has
come; if `portCount` starts with 0 every drive is read. If the build reads registers each time,
memory is exchanged under stopped engines only, and boot goes on although a drive may be busy
for ever (`portCount` starting with 0, no port behind the page). A pointer never stored, a
register not mapped and a loop without end are reached: `StopExplained` says when.

**serial.** A buffer of 4 and 7 characters printed: full buffers, full buffers that end with
a line, and what follows them. The log begins with one of some 600 messages: each directive
of the kernel's formats and those nobody uses, with numbers at and around the limits of each
width (2, 3, 8 and 10 bits stand for 8, 16, 32 and 64), pointers, fractions, a precision given
by an argument, a directive behind another. Shows: what debug prints means what its caller
means, modulo the narrower of the directive and the conversions; the wire
carries what was printed, in order, and each line comes out, unless a line longer than the
buffer put its terminator on a byte somebody uses.

**clock.** Seven seconds over the end of 2095, which changes each field, the day of the week
from its largest number to its smallest included, BCD and binary,
12 and 24 hours, updates between any two register reads. Shows: without the sleep and with a
24-hour clock the answer is one second between call and return; with the sleep each field
is the field of some second, unless a register was read while it changed; and only such a
register leads `FormatTime` out of its arrays of names.

**devices.** Two segments, three devices, two functions, any subset of 8 functions
present, lists with and without each table, `numcore` modulo 3. Shows: each function present is
in `PCIDevices` exactly once, unless it is on the last bus of a segment or on a bus without
device 0, or the heap has written over it; only a missing table, an RSDP without `XSDTAddress` or
an overwritten entry leads astray; the processors counted are the enabled ones; each
controller that was in the vector when the loop passed it has one driver. A third controller
may have none: `DriversAreThose` says that nothing else is lost.

**vfs.** Every path of at most five characters out of a separator, `.`, `a` and `b`, and some
longer ones, on three ramdisks: directories in consecutive blocks, with a link and a
socket, and with scattered directories; on one with larger blocks and one with two groups; and
on something that is no ramdisk. Files of 11 sizes
reach each part of the block tree, read at 12 offsets × 11 lengths modulo 32; directories are
listed at indices inside, at the end of and behind their entries. Before and after mounting,
with any content of fresh memory in `node->mkdir`. Shows: nothing is freed that is in use and
no call leaks, on the failing paths too; the list can be walked in both directions whatever
was pushed and popped, and the operations nobody calls would do on it what they are named
for; where the files form a tree in one group, directories are contiguous and there are no links
(`Orderly`),
a path opens the file it leads to and a listing shows each entry once; a read of a file that was
found, of an image that was mounted, that begins in the file and does not wrap delivers exactly its bytes, if the code finds all its blocks (`Mapped`).

`CHECK_DEADLOCK FALSE` is set in five configurations because the system really stops there
or a bound ends it: kernel_memory (fault, or out of frames), interrupts and keyboard_gap (panic), heap
(`corrupt`), serial (no more characters). The others have a step everywhere: the end states
of AHCI, Devices, Clock and VFS stutter explicitly (`Stops`).

## 5. Fairness

| Module | Assumed | Why |
|---|---|---|
| Interrupts | SF of `Boot` and of each `Enter(q)` | The PIT's period is 10 ms, its handler takes microseconds: between two ticks the boot thread runs and the keyboard's line is served. Weak fairness would not do, since each tick disables both for a moment. |
| | WF of `Handler`, `PITTick`, `Deliver`, `TakeCommand` | The processor runs; the PIT is programmed in mode 3; a keyboard sends what it has as soon as the 8042 is empty, and takes a command. No fairness for `Strike`: nobody has to type. |
| AHCI | WF of the driver, of the engines, and of `Complete ∨ Error` | Boot waits for nothing else, in a build that reads registers each time (a condition of `BootGoesOn`). The AHCI specification gives the engines 500 ms; a drive answers or fails. None for `Ready`: a drive may stay busy for ever, and `Read` gives up. |
| DebugLog | WF of `Send`, `Flushed`, `Putchar` | The UART empties its register at the line speed, and `vkprint` goes on to the next character. |
| Devices, VFS | WF of the code's own next step | It is one thread; handlers return. |

The liveness properties hold under these only; `BootEnds` has the two exceptions named in it,
`SearchEnds` assumes that no MADT entry has length 0 (with one, the loop of acpi.cpp:56
does not advance).

## 6. Proofs

TLC looks at the instances of section 4; the theorems hold for every value of the constants
that satisfies the named assumptions of the modules. Each proof module has an inductive
invariant `IInv`, lemmas that each action keeps it, and theorems drawn from it.

### PageFrameAllocator_proofs

For every memory map, page size, bound and every width of `int`:

| Theorem | States |
|---|---|
| `TypeCorrect` | `Spec => []TypeOK` |
| `AccountingCorrect` | `Spec => []Accounting` |
| `NoDoubleAllocation` | `Spec => []NoFrameTwice` |
| `PinnedForGood` | `Spec => []PinnedStayLocked` |
| `RefinesFramePool` | `Spec => ImplementsFramePool` |
| `ReservedKept` | `Spec => []ReservedBytesKept` |
| `RequestsAnswered` | `Spec => RequestAnswers` |
| `Inductive` | `Spec => []IInv`, from which the others follow |

Assumptions, all stated in PageFrameAllocator.tla and evaluated by TLC on the run's values:
`MemMapAssumption` (the map is a finite sequence of entries below some limit),
`UsableAligned` (usable entries begin on a page, which stivale2 guarantees; without it the
bitmap may share its first frame with somebody), `ParameterAssumption` (sizes are
positive, no request is longer than an `int` can count).

The argument. `NoFrameTwice` by itself is not inductive: to free a run must not clear bits of
pinned frames, and to take one must not take what is reserved. Nor is `Accounting`, a lock
counting only bits that were 0. The inductive invariant is

    IInv == TypeOK /\ Accounting /\ NoFrameTwice /\ PinnedStayLocked
            /\ StrayStays /\ NothingBeforeBoot

`PinnedStayLocked` says that what `ReadMemoryMap` reserved or locked stays locked, so that a
request, which takes unlocked frames, takes none of it. `StrayStays` keeps the bit behind the
bitmap out of what is counted and freed. `NothingBeforeBoot` says that nothing is held or
locked until `ReadMemoryMap` has run. The steps: `SizesAreNaturals` and
`BitsFinite` make cardinalities numbers; `LockStep` and `UnlockStep` say what setting and
clearing a set of bits does to the counters (each frame moves from one counter to the
other once, `CardinalityAdds`); `SearchStartBelowHint` and `LowerHintType` keep
`PageBitmapIndex` in range; then one lemma per action (`ReadMemoryMapStep`, `RequestPageStep`,
`RequestPagesStep`, `FreePagesStep`, `LockPagesStep`, with `TakeStep` and
`NothingTakenStep` for what requests share), put together in `NextIInv`. The refinement maps
`free` to the clear bits and `loaned` to the held frames the bitmap covers: `LoanRefines`,
`ReturnRefines` and `WithdrawRefines` map the steps.

`ReservedKept` assumes that an `int` does not wrap, or can count the pages of the bitmap. It is
arithmetic about one state: `PageBelow` and `PageAbove` find the page a byte lies in,
`SpanCovers` shows that the pages `ReservePages` and `LockPages` are given have every byte of
the range, and `BufferAligned` that the bitmap begins on a page, where an
entry of the map need not. It says nothing of the kernel's own frames: no code keeps those.
`RequestsAnswered` needs that the frames in front of the search are
taken (`LockedBelowStart`), and that frame 0, which looks like NULL, is (`FrameZeroLocked`).
For `RequestPages`, `SearchEnds` and `SearchSteps` show that the search is well defined, and
`LongRunNotMissed` that its last skip in front of a long run ends inside it.

### KernelMemory_proofs

| Theorem | States |
|---|---|
| `TablesAreSound` | `Spec => []TablesSound` |
| `TablesAreAMap` | `Spec /\ []FramesLeft => ImplementsAddressSpace` |
| `Inductive` | `Spec => []IInv`, from which they follow |

for tables of any size, any memory, any garbage in it and any pool of frames with one of
memory in it (`PageTablesAssumption`): the PML4 itself is taken from it. They are about PageTables,
that is `MapMemory` under the boot loader's tables. What the module says of KernelMemory,
before and after CR3 is loaded, comes behind them:

| Theorem | States |
|---|---|
| `HeapFramesAreTheHeaps` | `KernelSpec /\ []~Corrupting => []KernelInv` |
| `TranslatesAsAsked` | `KernelSpec /\ []~Corrupting => []IntendedSpace` |
| `FaultsAreExplained` | `KernelSpec /\ []~Corrupting => []FaultExplained` |
| `HeapKeepsItsContents` | `KernelSpec /\ []~Corrupting /\ []FramesLeft => HeapContentsStable` |
| `KernelInductive` | `KernelSpec /\ []~Corrupting => []KInv`, from which they follow |

**Tables under the boot loader's mappings.**

`TablesNotShared` is not inductive: `Links` only sees what hangs from the PML4, and a cleared
frame must be known to be off every path. The invariant is a witness, `Tree(mem, free, T)`:
four levels `T[1]` to `T[4]` of frames, disjoint from each other and from the pool, each table
below the PML4 entered once in the level above. It holds while the pool has a frame of memory
(`HasPage`); once it has none, `MapMemory` enters frame 0 or a frame that does not exist. One level
of the walk (`DescendCases`) faults, follows an entry, or adds a frame to the next level:
`TreeGrows` shows that what is cleared is no table yet, so that no entry but the new one
changes, and `LeafWritten` that an entry of the last level is never taken for a link.
`DescendKeeps` puts these together for each level, `MapMemoryStep` for the call; `LinksOfTree`
finds each of `Links` in the levels.

The refinement maps `translation` to what the processor's walk finds for each page. `FramesLeft`
says that the pool has a frame of memory; without one the code enters what is none, and the
promise cannot be kept. Three facts carry it. A page is its four indices
(`IndicesDetermine`), so that two pages never share a leaf entry of a tree
(`ReachInjective`, `SameTableSamePage`): the last write changes one translation
(`LeafTranslates`). A new table is empty and hangs where nothing was, so that it changes none
(`GrowthKeepsWalks`). And `MapMemory`, which walks by `Descend`, stands after each level where
the processor's walk does (`OnPath`).

**Tables that map themselves.** `KernelMemoryAssumption` lays memory, its copy and the kernel one
behind the other, the heap window inside memory, no device in it, and memory and devices under
other entries of the PML4 than the copy, as in the code (0, 0xffff800000000000, the kernel at
the top; the first entry of the copy is number 256). `[]~Corrupting` says that the window never lies
over a table that is still walked. That is not so on every machine, and nothing in the code
sees to it; once it is broken, tables are read and written as heap data, garbage included,
and nothing more can be said. `FramesLeft` is needed for single steps that take several frames.

`KInv` says what holds while the pool has a frame: there is a tree of tables, off the heap's
frames; these are memory, one page each, no driver's and not in the pool; and the walk for each
page comes to what was asked (`Asked`; `LoopsAre` and `BootedFrames` show that loops which map
the same page map it alike). Before CR3, `BootMapKeeps` is `MapMemoryStep`. Afterwards `MapMemory` sees
memory through the tables it changes, and this is the argument:

1. `SoundIsSighted`: a pointer to a frame reaches that frame, unless its number lies in the
   window, where it reaches the heap's frame.
2. `TableSeen`: a table on the walk for a page outside the copy is not under the copy
   (`HigherElsewhere`), so that, if nothing is corrupting, it is seen where it is.
3. One level (`Onward`): the entry is followed, or a frame is taken. If that frame's number
   is outside the window, the pointers lead where they say (`Direct`) and all is as before
   CR3, under `Normal`. If it is inside, the new table is entered, but it is the heap's memory that was
   cleared: the walk is `Doomed`. From there on it writes somewhere off the tree
   (`DoomedGoesOn`, `HiddenOff`), and at its end there is a table in the window that is walked
   (`HiddenCorrupts`), which `~Corrupting` in the next state excludes. So a window may be laid
   over free frames, as it is, and the theorems hold until one of these becomes a table.
4. `MapSeen` puts three levels and the last entry together; `GrowHeapKeeps`, `MapDeviceKeeps`,
   `WriteHeapKeeps` and `TakeDriverFrameKeeps` draw the conclusions, the last two from
   `OffTree`: writes to frames that are no tables change no translation.

The loops are a sequence of bounds, not of single calls, and `EndLoop` is a step: what the calls
so far have mapped is then a set given by `loop` and `next` (`Covered`), and no induction is needed.

### InterruptsAndConsole_proofs: the interrupts

| Theorem | States |
|---|---|
| `EachInterruptEnded` | `Spec => []InterruptsInv` |
| `GatesInPlace` | `Spec => []NoGateOnlyInRemap` |

for any number of keys, any lengths of tick and sleep, and a boot loader that leaves both lines
masked (`BootMasks \subseteq {Irqs}`): with a line open before `pic_remap`, a gate can be
missing elsewhere. Two parts make the invariant inductive. `StagesInOrder` ties the handler's
stage to the in-service bits and to the interrupt flag. `GatesOrMasks` says, for each
stretch of the boot thread, what stands between an interrupt and a missing gate: masks
before the remapping and at its end, gates afterwards, and in between nothing.

### InterruptsAndConsole_proofs: the console

| Theorem | States |
|---|---|
| `CursorAndBufferKept` | `ConsoleSpec => []ConsoleInv` |
| `ErasingStaysOnScreen` | `ConsoleSpec => EraseOnScreen` |
| `EchoIsVisible` | `ConsoleSpec => EchoVisible` |
| `NoModifierTaken` | `ConsoleSpec => []NoModifier` |

for every size of cell and line buffer, any scan codes, and whatever lies behind the
table of keys (`ConsoleAssumption`), and for framebuffers whose size, with one more cell, an
`int16_t` holds (`FramebuffersAssumption`). Two clauses are about how the kernel uses the
terminal: it prints no backspace while it boots, and rows are not counted up to where a
`uint32_t` wraps (`Deepest`); without the second the cursor does get in front of the limit.
What is said of the limit, of erasing and of the echo holds on screens that are a multiple of
a cell and have the limit on them (`Fits`).

`Placed` makes the cursor's part inductive: on a screen of whole cells the cursor stands on a
multiple of a cell's size, at most at the end of its row, and not in front of the limit.
Multiples are what the arithmetic rests on: two of them lie a whole cell apart (`MultipleGap`),
so one cell to the left or one row up never wraps and never skips the limit, which
`AtLimit` tests by equality. `NoModifier`, that no modifier is ever taken, is what makes
each character that is stored one of seven bits. `PhasesInOrder` says that the buffer is empty and the
limit at the origin until the kernel has booted. `Advanced`, `NewLinePlaced`, `BackspacePlaced`
and `PutPlaced` follow the arms of `putchar`; `MakePuts` says what a key that is pressed comes to.
For `EchoVisible`, `CutInFront` says what `int16_t` keeps of a coordinate that passes for one
in front of an edge, `CutMultiple` that it is a row of cells again (2^16 being a number of them),
`CellSeen` where a character then appears; `NextCellDiffers` shows that the five blanks of a tab
are not one cell.

### AHCI_proofs

| Theorem | States |
|---|---|
| `DriverInPlace` | `Spec => []DriverInv` |
| `AnswerIsTrue` | `Spec => []TruthfulAnswer` |
| `DrivesAllRead` | `Spec => []EveryDriveRead` |
| `ExchangedIdle` | `Spec => MemoryMovesIdle` |

for any ports and drives, anything the firmware has left, each build, any number of looks and any
first value of `portCount`, as long as fewer ports than the table has places are implemented and
its places fit a byte (`AHCIAssumption`). `PortReady` records what the driver knows of the engines at each of its
places: that both bits are clear, then that one engine stands, then the other. The parts
of `Table` say how the table grows and is read; those of `Commands`, that a command is
under way at the port at hand or was given up, or is one of the firmware's at a port not yet
stopped, so that what a drive delivers late cannot turn an answer false.

### Devices_proofs

| Theorem | States |
|---|---|
| `FoundOnce` | `Spec => []EachFunctionOnce` |
| `SearchIsSound` | `Spec => []SearchInv` |

for any segments, machines and numbers of devices and functions. `WalkInOrder` says where
the walk may stand, and behind which headers; `ListSoFar`, that the vector holds, once each,
exactly those wanted functions that are behind the walk (`Behind`, the order in which it goes);
`CInv` is what is left of it when a header of the heap stands in the third place.
Each step either moves over functions that are not wanted (`ListStays`) or adds the one it
stands on (`ListGrows`).

For `SearchIsSound`, `CoresSoFar` says that the processors in front of `ptr` are counted and kept
at their places, unless the walk hangs on an entry of length 0 (`Stuck`), where it counts the
same one for ever; `BeforeNext` is the step from one set of entries to the next. `DriversSoFar`
says that no driver is started before the loop, and that a controller whose entry is lost stands
nowhere else. That a controller has one driver only needs `FoundOnce`: the loop goes through
the vector once, and no function is in it twice.

### Heap_proofs

| Theorem | States |
|---|---|
| `HeapIsSound` | `Spec => []HeapInv` |
| `NothingIsLost` | `Spec => []AllComesBack` |
| `GrowthServes` | `Spec => GrowthAppends` |

for any page, header and grain whose sizes fit each other (`HeapAssumption`), any number of
pages, any sizes asked for and any writes of owners. Two invariants carry them. `TInv` holds for ever,
however the list fares: each header, the stale ones included, lies in the heap and leads
forward (`Typed`). `LInv` holds until the heap first grows or a block is freed whose back pointer
leads into itself (`misled`): nothing is corrupt, and there is a set of headers that is a list from the first one to the end of the heap (`Chain`), without free neighbours
(`Combined`), on grains (`Grained`), and its segments in use are the blocks handed out
(`Blocks`). `Tiled` alone is not inductive. The back pointers are not those of a list: `Split`
sets the one of the segment it cuts if `LastHdr` is that segment, which is the first one until
the heap grows. `BackOfFirst` says what that pointer may name: the next header, or one that the
first segment has absorbed. `CombineBackward` reads it when the first segment is freed. If it
names the next header, all is well (`FreeForward`: should that have been absorbed just now, its bytes
are still there, and what follows is in use). If it names an older one, the segment was handed
out whole around it, which is what `Straight` excludes and `misled` records.

The proofs go from the headers up. `ForwardCases`, `SplitCases`, `BackwardCases` and
`TakeCases` say what the operations do to one header; `JoinedChain` and `CutChain`
what becomes of the list; `JoinKeeps`, `TakeGood` and `ReleaseGood` what becomes of all that
`Good` says; `AllocateList` and `ReleaseList` put them together with the blocks, and `WriteList` uses that
the blocks are apart from the list (`InvariantBlocks`). `ListedIsChain` says
that malloc's walk comes to each header of the list: the headers are ranked by address, and
the n-th step is at the one of rank n. `GrowthServes` starts from any state whose list tiles
the heap, one that has grown included: `TilesChain` shows that such a walk does not end for
want of steps, and `GrowServes` that the new segment is behind the list or in its last segment.

### LogAndClock_proofs: the log

| Theorem | States |
|---|---|
| `LogIsPrinted` | `DebugSpec => []LogInv` |
| `MessagesMeant` | `DebugSpec => []DebugInv` |
| `Inductive` | `DebugSpec => [](IInv /\ Printing)`, from which the two follow |

for buffers of any size, integer types of any widths and messages of any parts, whatever the
byte behind the buffer belongs to. The assumptions: `SerialAssumption` (sizes, and which codes are
characters), `WidthAssumption` (a char is narrower than a short, and so on) and
`MessagesAssumption` (messages are sequences of parts, see `IsPart`).

`InBuffer` says that the buffer holds `idx` characters, then NULs, and a line feed at its end
only; `OnTheWire` is `LogFaithful` position by position. Both hold while the
terminator behind a full buffer hits nothing (`Harmless`, which never comes back once it is
lost). `StoreStep` says what the stores of `serialPutchar` leave, including an `idx` whose low byte
was cleared; `SentUpToIdx`, that `serialPrint` stops at `idx` and nowhere before. That a full
buffer was one line (`OverrunNeedsLongLine`) follows at the store that fills it, from
`InBuffer`, and stays true of what is printed later (`LongLineStays`).

`Printing` is the invariant of a message: what has been printed of it and what has yet to be,
together, say what it means. That is `MessageSaid`, about `vkprint` as a whole, and the
lemmas for it go from digits to messages:

- Numbers. `Written` is the text of a natural number; `WrittenNext` says what one digit more does
  to it, `ValueNext` to its value, and `WrittenFollows` that a reader gets the number back.
  `PaddedReads` adds the zeros a precision asks for, `SignedReads` the sign.
- Widths. `CongruentAtBits`: a value cut at the width of the directive and then at that of the
  conversions is the argument modulo the narrower one, so it is the value `Said` chooses (`SaidIs`).
  `UnsignedSays`, `SignedSays` and `FractionSays` are the three conversions.
- The format. `Leads` relates two states of `vkprint` and the piece of the format between them;
  `LeadsOn` puts two pieces one behind the other. `Prints` says of a directive that it takes
  its own arguments and adds its text whatever comes before and after, so no length
  or precision reaches the next one. `EveryLength` and `EveryNumeral` go through the directives of
  integers, `PartMeant` through the parts.
- The message. `vkprintStrings`: the text of a message is those of its parts, one behind the
  other (by induction over the parts, for any arguments that are left); `StrungMeans`: it can
  be cut there again, which is `Means`.

Induction over digits, characters and parts is over a set of naturals (`InductionOn`,
`InductionBelow`, from the well-foundedness of `<`); `PowersExists`, `ValuesExists`,
`ReversalsExists`, `CourseExists`, `FlattenedExists` and `CutExists` show first that a recursive
function exists.

### LogAndClock_proofs: the clock

| Theorem | States |
|---|---|
| `TimeOfOneInstant` | `ClockSpec => []OneInstant` |
| `FieldsAndNames` | `ClockSpec => []ClockInv` |

for every calendar whose fields are below 100, months 1 to 12 and days of the week 1 to 7, and
whatever a register reads as while it changes. `OneSecond` says that a call which has not
slept reads in the second it began in, the announcement keeping the change away;
`ReadSoFar`, that each value is of some second of the call. `BcdInverse` is
what makes converted fields the fields of the calendar.

### VFS_proofs

| Theorem | States |
|---|---|
| `MemoryIsSafe` | `Spec => []MemoryInv` |
| `NothingLeaks` | `Spec => []NoLeak` |
| `ReadsAreExact` | `Spec => []ReadIsExact` |
| `NamesLeadRight` | `Spec => []NamesFollowTree` |

for any ramdisks, paths, offsets, lengths and indices that satisfy `VFSAssumption`: the
root is there, blocks and sizes of inodes fit each other, directory entries name inodes
that exist, and a path is a sequence of characters without a terminator in it. `MemoryInv` says that two pointers
never lead to the same object; that a step frees nothing it still needs does not follow from it. `MemoryIInv` divides the heap instead:
`Parts` are the objects each variable leads to (the root, the header of the list, its nodes,
the strings they have for values, the path, the copy of the name, the node reached, the
callers' nodes, the entry given out). They are `Apart` and, unless `realloc` has just lost a string
(`Leaking`), they are all of the heap. `Phases` says which of them there are at each `pc`,
and `ListHolds` that the list goes through some sequence of nodes, in both directions, with each
string at one node. `PartsStep`, `OneMore` and `TwoMore` say what allocating does to
parts, and `Ending` what every return from a call has in common.

The operations on lists come first, for lists of any length, in two forms: what they do to
the fields of each node (`InsertFields`, `DeleteFields`, `MergeFields`), then which sequence the
list goes through afterwards (`InsertLinks`, `DeleteLinks`, `MergeGoesOn`). `Linked` holds after
all but `list_merge`, which leaves the way back as it was (`GoesOn`). `foreach` is a recursive
function: `FollowIs` shows that it exists and yields that sequence, by a least counterexample;
so do `StrungExists` and `EntriesIn` for the entries of a directory.

`ReadInv` says that the last answer is what `read_initrd` makes of its arguments; the rest is
arithmetic. `BlockFound` finds each block through the direct, single and double
indirect part; `CopyFills` says which bytes of the file a copy puts in their place;
`PartsOfBlocks`, that the parts of the first, the middle and the last blocks are all there
are; `ShortEnds`, modulo 2^32, that a short answer has come to the end. A file that
needs a triple indirect block is none of `Mapped`: `ext2_get_inode_block` knows no such part.
The theorem is about nodes that were found, so about images of blocks of one or two kilobytes and
inodes of the first group: what lies elsewhere is never held by a caller.

`NamesLeadRight` is about any path on any ramdisk, with nothing supposed of the ramdisk but
where `NamesFollowTree` itself supposes it (`Orderly`). `RouteInv` follows the names of the
path through a call. In the loop of `canonicalize_path` some names are done and the others are
still to be split off (`Splitting`); the strings in the list lead where the names done lead
(`Leads`: to the same file, if those lead to one; and they are those names, if none of them is
`..` or `.`). Behind the loop the path put together of the list leads where all names lead
(`Straight`). In the walk the node is where the names done lead, and what is left, in which
terminators have taken the place of separators, spells the names to come (`Following`,
`Ahead`). At the end the node is the file of the path, or nothing is (`Reaches`).

The lemmas come in the order in which the code goes: the names of a path and what `strtok_r`
takes off it (`TokenNames`); a path put together of names (`JoinedNames`); the path in which
terminators have been written (`NextAhead`); where names lead, one more name at a time
(`ResolveMore`), and that `..` undoes the name in front of it where the files form a tree
(`LeadsUp`); that the blocks scanned are those of the directory if these are contiguous
(`EntriesListed`, `LookupIs`); what the list spells after a push and a pop (`PushSpells`,
`PopSpells`). Then each step keeps `RouteInv` (`WorkRoute`, `NextRoute`). `Names`, `Resolve` and
the library's `FlattenSeq` are recursive functions: `ParsedExists`, `WentExists` and
`FlattenIs` show by a least counterexample that they exist, and what they do with one character,
name or sequence more.

### Only model-checked

Liveness (`BootEnds`, `BootGoesOn`, `TimerKeepsRunning`, `KeyboardKeepsSending`, `LineComesOut`,
`SearchEnds`, `CallsReturn`): TLAPS does not reason about fairness and ENABLED. Every other
property of the passing runs is a theorem. The library's induction theorems take an operator
as a parameter, which the installed provers cannot instantiate; where something is computed
recursively, the proofs use a recursive function and show first that it exists, by a least
counterexample.

## 7. What the models say about the code

### A disagreement with a comment: the keyboard can fall silent

keyboard.cpp:133 says the handler reads the data port "so that in any case it will be able
to send more IRQs". Run keyboard_gap shows a behaviour in which it does not:
`keyboard_init` unmasks the line (111) and drains the buffer (116-117); a byte arrives; the
line is raised, `intr_common_handler_c` finds no handler and acknowledges; `EnableKeyboard`
registers the handler (299). The 8042 keeps its byte, raises nothing more, and the
keyboard is dead for good. Registering before unmasking, or draining last, would close it.

### Other places where the code and its intention part

These are in the models as the code is. Properties state what holds around them.

- `pic_remap` runs with interrupts on and opens both masks before the gates exist
  (isr.cpp:115 before pic.cpp:38-46): an interrupt there panics. `NoGateOnlyInRemap`.
- `keyboard_send_command` writes the command *while* the controller is busy and not at all
  when it is not (keyboard.cpp:127-128), where 119 says the keyboard is enabled.
- The keyboard's table ends before its largest scan code (keyboard.cpp:89, entries missing)
  and is indexed without a test (150).
- `uint8_t key` cuts key codes (159): pressing Shift, Ctrl or Alt is never recognised
  (`NoModifierTaken`), the shifted half of `keycode_to_ascii` (195-241) never runs, and some keys alias backspace and
  other control characters.
- Return at the bottom moves the cursor on below the screen; only the next character brings it
  back. After 2^15 / 16 Returns in a row the row is negative as an `int16_t` (terminal.cpp:91-97,
  ssfn.h:160-161), which still is clamped; after 2^16 / 16 it is cut to a row of the screen
  and is not: the character appears there, and the cursor stays where it was. `EchoVisible`.
- The heap loses segments when it grows after `LastHdr` has become stale (heap.cpp:108,
  with 98 and 138). `GrowthAppends` names the condition.
- Where `LastHdr` should move on, `Split` sets the back pointer of the segment it cuts (heap.cpp:101).
  Once the first segment is handed out whole again, freeing it takes what its owner left there for a
  header (145). `HeapInv` names the condition (`misled`).
- `realloc` takes a payload for a header (heap.cpp:69, called from vfs.cpp:232).
- The heap window lies inside the identity map (kernel.cpp:88): with enough memory, tables lie
  under it. `KernelInv`, `IntendedSpace` have that exception.
- `portCount` is never initialised (ahci.cpp:49). The registers of the controller are not
  volatile (ahci.h:33-68), nor are the loops on them safe from the optimiser (ahci.cpp:89, 100, 109,
  150): `MemoryMovesIdle` and `BootGoesOn` are about builds that read each time.
- The serial buffer's terminator goes one byte behind it (serial.cpp:45).
- The last bus of a segment is not walked (pci.cpp:73). The number of entries of an XSDT is
  computed with four-byte pointers (acpi.cpp:21), a missing table is used all the same (42), and
  `XSDTAddress` is read from an RSDP that has none (35).
- The vector of PCI functions has a null array (vector.h:39): the first allocation of a driver that
  cuts the last segment of the heap (heap.cpp:93) overwrites the third function.
- UIP is not tested again after the sleep, and 12-hour clocks are read as 24-hour ones
  (time.cpp:48, 62). `OneInstant` excludes both.
- A device node or a link passes for a directory, the constants overlapping (vfs.h:51-57,
  ext2.h:92-98); directories are scanned as if contiguous (ext2_initrd.cpp:137).
- The double indirect part assumes 256 pointers to a block, and there is no triple one
  (ext2_initrd.cpp:331). The group descriptor is read at byte 2048 whatever the block size (389), and
  inodes of other groups from the first one's table (319).
- `node->mkdir` and `node->create` are called without having been set (vfs.cpp:92).
- A failed assertion halts only until the next interrupt, and the code behind it goes on
  (hkStdio.cpp:444): what is no ext2 image is mounted all the same (ext2_initrd.cpp:380).
- Every conversion takes an `int` (Utils.cpp:5): of `%llx` and `%p` the upper half is lost.
  A directive without a length reads 16 bits of its argument (hkStdio.cpp:98).
- `%f` loses the zeros behind the point (Utils.cpp, `fnumber_to_string`): 1.05 is printed as
  1.5; the fraction of a negative number comes out as other characters. A digit behind
  "." ends the directive and only `.*` gives a precision (hkStdio.cpp, `vkprint`).
- `list_merge` does not point back from the nodes it takes over, and `list_remove` with the
  length for an index unlinks the null pointer (list.cpp). Nobody calls them.
- `list_copy` never advances (list.cpp:105). Nobody calls it.
- `GetTime` is given an uninitialised pointer (kernel.cpp:126), and the license is logged
  without a terminator (kernel.cpp:120).
- `LockPages` is given the kernel's higher-half address (kernel.cpp:55), which is outside the
  bitmap: the call locks nothing. `ReadMemoryMap` reserves RESERVED entries only
  (pageFrameAllocator.cpp:47), so that the frames the kernel itself lies in (KERNEL_AND_MODULES
  entries) are free in the bitmap and may be handed out once those below them are taken.

## 8. What the models assume

- *Boot loader.* It leaves both lines masked (`BootMasks`) and interrupts off, gives
  page-aligned usable entries, maps low memory and the higher half, and hands over
  tables that may lie anywhere.
- *Hardware.* 8259, 8042, 8253, MC146818, AHCI and UART do what the code relies on, as their
  actions say; these definitions are marked external in `PROJECT.json`. UIP is set 244 µs
  before an update, longer than seven register reads take (`Prompt`). The PIT's period is
  longer than its handler runs (`PITTick`).
- *Translations* are seen at once: there is no TLB in `PageTables` and `KernelMemory`. The code
  never invalidates one (`MapMemory` has no `invlpg`). After CR3 is loaded the entries it changes are
  those of the heap window, which the identity map had entered before; the registers it maps get the
  address they had.
- *Ramdisk.* It is one as genext2fs makes it (makefile): no holes, no deleted entries, and no entry
  of length 0, at which the loops of `finddir_initrd` and `ext2_get_direntry` would stay. That its
  files form a tree (`Tree`) is a hypothesis of `NamesFollowTree`, not of the model.
- *Paths* are what C strings can be: they end at the first terminator.
- *Callers* free what they hold, once. There are no others in the source.
- *Memory at address 0.* `PCIDevices`' vector and a `realloc` that answers nullptr use it; with
  the identity map it is memory, and the models take it as such. The heap writes there too
  (`Overwritten` of Devices); that anything else does, or that frame 0 is handed out, is left out.
- *Undefined behaviour* is a choice: `IntWraps`, `cached`, AHCI's `build`, `AnyWord`, `Garbage`, the first value
  of `portCount`, the content of fresh memory.

## 9. What is not modelled

- **Boot protocol, GDT, port access, fonts, headers of third parties** (stivale2.h, ssfn.h):
  tables written once, single instructions, or no code of this project.
- **klib: `memcpy`, `memset`, `strcmp`, `strlen` and the like**: pure functions without
  branches to speak of; the modules that call them do with values what they do with bytes.
  `kprint` and `panic` differ from `debug` in the function that takes a character.
- **Floats** as such: the numbers `fnumber_to_string` is given are exact fractions.
- **Pixels, colours, status lines**: no decision of the code depends on them.
- **`getSubClass`** and other text; of `FormatTime`, all but the indices.
- **`UnreservePage(s)`, `pic_disable`, `irq_remap`, `disable_keyboard_processing`,
  `initrd_node_from_dirent`**: no caller. **`list_copy`**: no caller either, and on a list that
  is not empty it does not end.
- **`write_fs`, `open_fs`, `close_fs`** forward to functions that do nothing.
- **Application processors** (coprocessor.asm): never started.
