------------------------------- MODULE Serial -------------------------------
(***************************************************************************)
(* The debug log on COM1 (terminal/serial.cpp): characters are collected   *)
(* in a buffer that is sent when a line ends or the buffer is full.        *)
(*                                                                         *)
(* Every store is followed by a terminator, and the last character of a    *)
(* full buffer has its terminator one byte past the end, in whatever the   *)
(* build puts there: padding, the counter idx itself, or a variable of     *)
(* somebody else.  The UART takes a character when it is ready for one.    *)
(***************************************************************************)
EXTENDS Integers, Sequences

CONSTANTS
    BUFSIZE,     \* 8192
    Byte,        \* 256
    Chars        \* characters printed; LF among them

NUL == 0
LF  == 10
JUNK == -1       \* what lies further on, as long as it is not 0

ASSUME SerialAssumption ==
    /\ BUFSIZE \in Nat \ {0} /\ Byte \in Nat \ {0}
    /\ BUFSIZE % Byte = 0
    /\ Chars \subseteq 1..127 /\ LF \in Chars

VARIABLES
    buffer, idx,
    neighbour,   \* what the byte after the buffer belongs to
    beyond,      \* its value, unless that is idx
    pc,          \* "idle", or why the buffer is being sent: "full", "line"
    at,          \* position in serialWrite
    held,        \* character that waits for room
    printed,     \* history: all characters given to serialPutchar
    sent,        \* history: all characters given to the UART
    overran      \* history: a terminator was written past the end

vars == <<buffer, idx, neighbour, beyond, pc, at, held, printed, sent, overran>>

Empty == [i \in 0..(BUFSIZE - 1) |-> NUL]

\* What serialWrite reads at a position of the buffer, or past it.
Read(i) == CASE i < BUFSIZE -> buffer[i]
             [] i = BUFSIZE -> IF neighbour = "idx" THEN idx % Byte ELSE beyond
             [] OTHER -> JUNK

\* initSerial
Init == /\ buffer = Empty /\ idx = 0 /\ beyond = NUL
        /\ neighbour \in {"padding", "idx", "other"}
        /\ pc = "idle" /\ at = 0 /\ held = NUL
        /\ printed = <<>> /\ sent = <<>> /\ overran = FALSE

\* The two stores and the increment of serialPutchar, into buffer b at n.  If
\* the terminator falls on idx, the build may have read idx before or after.
Store(b, n, c) ==
    /\ buffer' = IF n + 1 < BUFSIZE THEN [b EXCEPT ![n] = c, ![n + 1] = NUL]
                                    ELSE [b EXCEPT ![n] = c]
    /\ overran' = (overran \/ n + 1 = BUFSIZE)
    /\ beyond' = IF n + 1 = BUFSIZE THEN NUL ELSE beyond
    /\ idx' \in IF n + 1 = BUFSIZE /\ neighbour = "idx"
                THEN {n + 1, n - (n % Byte) + 1} ELSE {n + 1}
    /\ pc' = IF c = LF THEN "line" ELSE "idle"
    /\ at' = 0 /\ held' = NUL
    /\ UNCHANGED <<neighbour, sent>>

Room == idx + 1 <= BUFSIZE

\* serialPutchar, when it has to make room first and when not.
serialPutchar(c) ==
    /\ pc = "idle"
    /\ printed' = Append(printed, c)
    /\ \/ Room /\ Store(buffer, idx, c)
       \/ /\ ~Room
          /\ pc' = "full" /\ at' = 0 /\ held' = c
          /\ UNCHANGED <<buffer, idx, neighbour, beyond, sent, overran>>

\* serialPrint, when the transmitter is empty
Send == /\ pc # "idle" /\ Read(at) # NUL /\ at <= BUFSIZE
        /\ sent' = Append(sent, Read(at)) /\ at' = at + 1
        /\ UNCHANGED <<buffer, idx, neighbour, beyond, pc, held, printed, overran>>

\* Mutant of Flushed: the counter is not reset.
FlushedKeepsIdx ==
    /\ pc # "idle" /\ (Read(at) = NUL \/ at > BUFSIZE)
    /\ IF pc = "full" THEN Store(Empty, 0, held)
       ELSE /\ buffer' = Empty /\ pc' = "idle" /\ at' = 0
            /\ UNCHANGED <<idx, neighbour, beyond, held, sent, overran>>
    /\ UNCHANGED printed

\* The end of flushSerial, at the first NUL: somewhere past the buffer there
\* is one.  Then serialPutchar goes on with the character that waits.
Flushed ==
    /\ pc # "idle" /\ (Read(at) = NUL \/ at > BUFSIZE)
    /\ IF pc = "full" THEN Store(Empty, 0, held)
       ELSE /\ buffer' = Empty /\ idx' = 0 /\ pc' = "idle" /\ at' = 0
            /\ UNCHANGED <<neighbour, beyond, held, sent, overran>>
    /\ UNCHANGED printed

\* Somebody else's variable changes between two characters.
NeighbourChanges == /\ neighbour = "other" /\ pc = "idle" /\ beyond = NUL
                    /\ beyond' = JUNK
                    /\ UNCHANGED <<buffer, idx, neighbour, pc, at, held, printed,
                                   sent, overran>>
-----------------------------------------------------------------------------
(* Properties *)

\* Every variable has its type: idx stays between 0 and the size of the
\* buffer, so that no store of serialPutchar goes further than one byte past
\* the end.
TypeOK == /\ buffer \in [0..(BUFSIZE - 1) -> Chars \union {NUL}]
          /\ idx \in 0..BUFSIZE /\ at \in 0..(BUFSIZE + 1)
          /\ pc \in {"idle", "full", "line"} /\ held \in Chars \union {NUL}
          /\ beyond \in {NUL, JUNK}
          /\ printed \in Seq(Chars) /\ sent \in Seq(Chars \union {JUNK} \union 1..Byte)

\* Characters printed and not sent yet, in the order of serialPutchar.
Pending == LET stored == [i \in 1..(idx - at) |-> buffer[at + i - 1]]
           IN IF held = NUL THEN stored ELSE Append(stored, held)

\* The byte past the end belongs to nobody who uses it, or was never written
\* and never will have been read.
Harmless == neighbour = "padding" \/ ~overran

\* The log on the wire is what was printed: whatever the mix of full buffers and
\* ends of lines, no character is lost, doubled or moved.
LogFaithful == Harmless => sent \o Pending = printed

\* A line that has ended is on the wire some time later, with all that was
\* printed before it (debug returns only then, serialPutchar being synchronous).
LineComesOut == pc = "line" ~> (sent = printed \/ ~Harmless)

\* When the byte past the end is somebody's, a line longer than the buffer is
\* the only way to lose a character.
OverrunNeedsLongLine ==
    overran => \E n \in 0..(Len(printed) - BUFSIZE) :
                   LF \notin {printed[k] : k \in (n + 1)..(n + BUFSIZE - 1)}

\* What is printed comes out, or the line was too long and the byte past the end
\* somebody's.
LogInv == TypeOK /\ LogFaithful /\ OverrunNeedsLongLine
=============================================================================
