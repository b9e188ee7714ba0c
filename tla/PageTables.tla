------------------------------ MODULE PageTables ------------------------------
(***************************************************************************)
(* The four-level page tables of memory/PageTableManager.cpp, with the     *)
(* entry accessors of paging.cpp and the index split of PageMapIndexer.cpp.*)
(*                                                                         *)
(* MapMemory names a table by its physical address and dereferences that   *)
(* number as a virtual one.  Under the boot loader's tables that is the    *)
(* frame itself; once CR3 holds the kernel's own tables it is whatever     *)
(* those tables map the page of that number to, which the model computes   *)
(* from the tables themselves.                                             *)
(*                                                                         *)
(* Pages and frames are numbers (address / 4096).  Of an entry only the    *)
(* Present bit and the address matter: GetFlag parses as                   *)
(* Value & (BitSelector > 0), which is bit 0 for every flag, but MapMemory *)
(* asks it for Present, bit 0, alone.  ReadWrite is set in every entry.    *)
(***************************************************************************)
EXTENDS Integers, FiniteSets

CONSTANTS
    Fanout,        \* 512 entries in a table
    RamFrames,     \* frames 0..RamFrames-1 are memory
    Pools,         \* sets of frames the allocator may start from
    Garbage,       \* entries that memory may read as before it is cleared
    MapPages,      \* pages callers map
    MapFrames      \* frames callers map them to

ASSUME PageTablesAssumption ==
    /\ Fanout \in Nat \ {0, 1}
    /\ RamFrames \in Nat \ {0}
    /\ Pools \subseteq SUBSET (Nat \ {0})
    /\ \A pool \in Pools : \E f \in pool : f < RamFrames
    /\ Garbage \subseteq Int
    /\ MapPages \subseteq 0..(Fanout * Fanout * Fanout * Fanout - 1)
    /\ MapFrames \subseteq Nat

VARIABLES
    mem,      \* entries of every frame of memory, read as a table
    free,     \* frames RequestPage may return
    root,     \* frame of the PML4
    loaded,   \* CR3 holds root
    fault     \* the walk touched an address with no memory behind it

ptvars == <<mem, free, root, loaded, fault>>

Ram     == 0..(RamFrames - 1)
Slots   == 0..(Fanout - 1)
Pages   == 0..(Fanout * Fanout * Fanout * Fanout - 1)

\* An entry whose Present bit is 0, and a page that is not mapped.
Absent == -1

\* RequestPage's answer when nothing is free.
NULL == 0
-----------------------------------------------------------------------------
\* PageMapIndexer: the four indices of a page, root level first.
PDP_i(v) == (v \div (Fanout * Fanout * Fanout)) % Fanout
PD_i(v)  == (v \div (Fanout * Fanout)) % Fanout
PT_i(v)  == (v \div Fanout) % Fanout
P_i(v)   == v % Fanout

\* The entry the processor finds in slot i of frame f, if there is one.
Entry(m, f, i) == IF f \in Ram THEN m[f][i] ELSE Absent

\* The walk of the processor from the PML4, by physical addresses.
Walk(m, r, v) ==
    Entry(m, Entry(m, Entry(m, Entry(m, r, PDP_i(v)), PD_i(v)), PT_i(v)), P_i(v))

\* The frame a pointer to frame f reaches when the kernel dereferences it.
Deref(m, f) == IF loaded THEN Walk(m, root, f) ELSE f

Lowest(S) == CHOOSE x \in S : \A y \in S : x <= y

\* Mutant of RequestPage: the bitmap is searched from its last bit down.
RequestPageFromTop(pool) == IF pool = {} THEN NULL ELSE CHOOSE x \in pool : \A y \in pool : x >= y

RequestPage(pool) == IF pool = {} THEN NULL ELSE Lowest(pool)

EmptyTable == [i \in Slots |-> Absent]

SetEntry(m, f, i, value) == [m EXCEPT ![f] = [@ EXCEPT ![i] = value]]

\* What MapMemory carries from level to level: the memory and the pool as it
\* leaves them, and the table it has reached.
Start == [mem |-> mem, free |-> free, at |-> root, fault |-> fault]

\* Mutant of Descend: the new table is not cleared.
DescendUncleared(s, i) ==
    LET table == Deref(s.mem, s.at)
        new   == RequestPage(s.free)
    IN IF s.fault \/ table \notin Ram THEN [s EXCEPT !.fault = TRUE]
       ELSE IF s.mem[table][i] # Absent THEN [s EXCEPT !.at = s.mem[table][i]]
       ELSE [s EXCEPT !.mem = SetEntry(@, table, i, new),
                      !.free = @ \ {new},
                      !.at = new]

\* Mutant of Descend: a missing table takes the frame without locking it.
DescendUnlocked(s, i) ==
    LET table == Deref(s.mem, s.at)
        new   == RequestPage(s.free)
    IN IF s.fault \/ table \notin Ram \/ new \notin Ram THEN [s EXCEPT !.fault = TRUE]
       ELSE IF s.mem[table][i] # Absent THEN [s EXCEPT !.at = s.mem[table][i]]
       ELSE [s EXCEPT !.mem = SetEntry([@ EXCEPT ![new] = EmptyTable], table, i, new),
                      !.at = new]

\* A frame is taken for the table that entry i of the table reached lacks; it
\* is cleared, and entered.
NewTable(s, i) ==
    LET new     == RequestPage(s.free)
        target  == Deref(s.mem, new)
        cleared == [s.mem EXCEPT ![target] = EmptyTable]
        again   == Deref(cleared, s.at)
    IN IF target \notin Ram \/ again \notin Ram THEN [s EXCEPT !.fault = TRUE]
       ELSE [s EXCEPT !.mem = SetEntry(cleared, again, i, new),
                      !.free = @ \ {new},
                      !.at = new]

\* One level of MapMemory: follow entry i of the table reached, or make the
\* table that is missing.  An address with no memory behind it ends the walk.
Descend(s, i) ==
    LET table == Deref(s.mem, s.at)
    IN IF s.fault \/ table \notin Ram THEN [s EXCEPT !.fault = TRUE]
       ELSE IF s.mem[table][i] # Absent THEN [s EXCEPT !.at = s.mem[table][i]]
       ELSE NewTable(s, i)

\* MapMemory(v, p), from a state "start" of memory and pool.
MapFrom(start, v, p) ==
    LET s    == Descend(Descend(Descend(start, PDP_i(v)), PD_i(v)), PT_i(v))
        leaf == Deref(s.mem, s.at)
    IN IF s.fault \/ leaf \notin Ram THEN [s EXCEPT !.fault = TRUE]
       ELSE [s EXCEPT !.mem = SetEntry(@, leaf, P_i(v), p)]

Become(s) == mem' = s.mem /\ free' = s.free /\ fault' = s.fault

\* After a fault the kernel has panicked or works on memory that is not there.
MapMemory(v, p) == /\ ~fault
                   /\ Become(MapFrom(Start, v, p))
                   /\ UNCHANGED <<root, loaded>>

\* kernel.cpp takes a frame for the PML4 and clears it.
Init == \E pool \in Pools, g \in Garbage :
            /\ root = Lowest(pool)
            /\ free = pool \ {root}
            /\ mem = [f \in Ram |-> IF f = root THEN EmptyTable
                                    ELSE [i \in Slots |-> g]]
            /\ loaded = FALSE
            /\ fault = FALSE

Next == \E v \in MapPages, p \in MapFrames : MapMemory(v, p)

Spec == Init /\ [][Next]_ptvars
-----------------------------------------------------------------------------
(* Properties *)

\* Entries that lead from one table to the next, level by level.
Level(tables) == {l \in tables \X Slots : mem[l[1]][l[2]] # Absent}
Below(links)  == {mem[l[1]][l[2]] : l \in links} \intersect Ram

Links == LET top    == Level({root})
             middle == Level(Below(top))
         IN top \union middle \union Level(Below(middle))

\* Frames in use as tables below the PML4.
Tables == {mem[l[1]][l[2]] : l \in Links}

\* A page is still to be had for each table MapMemory may need.
Supplied == Cardinality(free \intersect Ram) >= 3

\* Every variable has its type: every table in RAM has an entry for every slot and
\* for no other, whatever MapMemory wrote to it.
TypeOK == /\ mem \in [Ram -> [Slots -> Int]]
          /\ free \subseteq Nat
          /\ root \in Ram
          /\ loaded \in BOOLEAN
          /\ fault \in BOOLEAN

\* Every table hangs from exactly one entry, is not the PML4 and is not left
\* in the pool, so that no later request clears a table in use.
TablesNotShared ==
    Supplied =>
        /\ \A k, l \in Links : mem[k[1]][k[2]] = mem[l[1]][l[2]] => k = l
        /\ Tables \subseteq Ram \ (free \union {root})

\* The tables are tables, and a tree.
TablesSound == TypeOK /\ TablesNotShared

Translation == [v \in Pages |-> Walk(mem, root, v)]

Space == INSTANCE AddressSpace WITH
             Requested <- MapPages, Frames <- MapFrames,
             NoFrame <- Absent, translation <- Translation

\* With frames for every table the tree may grow to, the tables are a map
\* from pages to frames and nothing else.
ImplementsAddressSpace == Space!Spec
=============================================================================
