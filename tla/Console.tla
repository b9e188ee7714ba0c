------------------------------- MODULE Console -------------------------------
(***************************************************************************)
(* From a scan code to the screen: keyboard_irq_handler and                *)
(* keycode_to_ascii (drivers/keyboard.cpp) with the line buffer they fill, *)
(* and gfxmode::putchar (terminal/terminal.cpp), which moves the cursor,   *)
(* draws, erases, and edits the same buffer.                               *)
(*                                                                         *)
(* Keys and characters are the numbers of keyboard.h, for the make path    *)
(* keeps only the low byte of a key.  What is drawn is the cell, its upper *)
(* left pixel; the pixels themselves and the scrolling of what is on the   *)
(* screen are left out.  Cursors are uint32_t, modulo Word; ssfn_dst, where *)
(* the font renderer draws, has int16_t coordinates, modulo Short.         *)
(***************************************************************************)
EXTENDS Integers, FiniteSets, TLC

CONSTANTS
    ScanCodes,             \* bound: bytes the keyboard sends
    AnyWord,               \* what memory behind standard_keycodes may hold
    PrintedChars,          \* bound: characters the kernel prints while booting;
                           \* no caller of it prints a backspace
    Framebuffers,          \* [width, height] the boot loader may set, in pixels
    charWidth, charHeight, \* 8 and 16
    BUFFERSIZE,            \* 8192 * 2
    Deepest,               \* bound: cursor.y behind which no newline is given;
                           \* without it Word \div charHeight newlines wrap it
    Short,                 \* 2^16
    Word                   \* 2^32

ASSUME ConsoleAssumption ==
    /\ ScanCodes \subseteq 0..255 /\ AnyWord \subseteq Nat /\ AnyWord # {}
    /\ PrintedChars \subseteq 0..127 \ {8}
    /\ charWidth \in Nat \ {0} /\ charHeight \in Nat \ {0}
    /\ Deepest \in Nat /\ Deepest + charHeight < Word
    /\ BUFFERSIZE \in Nat \ {0}
    /\ Short \in Nat \ {0} /\ Word \in Nat \ {0} /\ Word % Short = 0
    /\ Short % charHeight = 0

\* A screen, with a cell beside it and one below, has coordinates of int16_t:
\* the renderer takes its size as such.
ASSUME FramebuffersAssumption ==
    Framebuffers \subseteq [width : charWidth..(Short \div 2 - charWidth),
                            height : charHeight..(Short \div 2 - charHeight)]

VARIABLES
    phase,       \* "booting", "limited", "active"
    fb,          \* the framebuffer
    cursor, limit,
    ctrl, alt, shift, capslock, numlock, scrolllock,
    index,       \* of the next character in buffer
    \* what the last step did
    wrote,       \* indices of buffer written
    drawn,       \* cells drawn
    erased,      \* cells erased
    stored       \* character stored in buffer, or NoCharacter

locks == <<capslock, numlock, scrolllock>>
last  == <<wrote, drawn, erased, stored>>
consoleVars == <<phase, fb, cursor, limit, ctrl, alt, shift, locks, index, last>>

NoCharacter == -1

KEY_LCTRL      == 16387
KEY_LALT       == 16388
KEY_LSHIFT     == 16386
KEY_RSHIFT     == 16390
KEY_RCTRL      == 16391
KEY_RALT       == 16392
KEY_CAPSLOCK   == 16385
KEY_KP_NUMLOCK == 12303
KEY_SCROLLLOCK == 16400
KEY_UNKNOWN    == 16402
KEY_F8         == 4616
KEY_F9         == 4617
KEY_F12        == 4619
BACKSPACE      == 8
TAB            == 9
LF             == 10
CR             == 13
SPACE          == 32
-----------------------------------------------------------------------------
\* standard_keycodes: 83 entries, 0x0 to 0x52; those for the letters, digits
\* and function keys left out here differ from their neighbours in the
\* character alone.
TableSize == 83

TableCodes ==
    {2, 14, 15, 28, 29, 30, 42, 54, 56, 57, 58, 66, 67, 69, 70, 76, 80, 82}

standard_keycodes == [code \in TableCodes |->
    CASE code = 2 -> 49                [] code = 14 -> BACKSPACE
      [] code = 15 -> TAB              [] code = 28 -> CR
      [] code = 29 -> KEY_LCTRL        [] code = 30 -> 97
      [] code = 42 -> KEY_LSHIFT       [] code = 54 -> KEY_RSHIFT
      [] code = 56 -> KEY_RALT         [] code = 57 -> SPACE
      [] code = 58 -> KEY_CAPSLOCK     [] code = 66 -> KEY_F8
      [] code = 67 -> KEY_F9           [] code = 69 -> KEY_KP_NUMLOCK
      [] code = 70 -> KEY_SCROLLLOCK   [] code = 76 -> 48
      [] code = 80 -> KEY_UNKNOWN      [] code = 82 -> KEY_F12]

ASSUME ScanCodesAssumption ==
    \A c \in ScanCodes : \/ c % 128 \in TableCodes
                          \/ c % 128 >= TableSize

\* Reading behind the table yields whatever lies there.
Lookup(code) == IF code < TableSize THEN {standard_keycodes[code]} ELSE AnyWord

\* The characters that keycode_to_ascii changes under Shift.
Shifted ==
    48 :> 41 @@ 49 :> 33 @@ 50 :> 64 @@ 51 :> 35 @@ 52 :> 36 @@ 53 :> 37
    @@ 54 :> 94 @@ 55 :> 38 @@ 56 :> 42 @@ 57 :> 40 @@ 44 :> 60 @@ 46 :> 62
    @@ 47 :> 63 @@ 59 :> 58 @@ 39 :> 34 @@ 91 :> 123 @@ 93 :> 125
    @@ 96 :> 126 @@ 45 :> 95 @@ 61 :> 43 @@ 92 :> 124

keycode_to_ascii(character) ==
    IF character \in 97..122 /\ shift # capslock THEN character - 32
    ELSE IF shift = 1 /\ character \in DOMAIN Shifted THEN Shifted[character]
    ELSE character
-----------------------------------------------------------------------------
\* What putchar works on.
Screen == [x |-> cursor.x, y |-> cursor.y, index |-> index,
           wrote |-> {}, drawn |-> {}, erased |-> {}]

MoveTo(s, x, y) == [s EXCEPT !.x = x, !.y = y]

\* What an int16_t keeps of a number.
Int16(n) == ((n + Short \div 2) % Short) - Short \div 2

\* ssfn_dst.x >= fb_width, and y alike, is a comparison of unsigned numbers: a
\* negative coordinate is behind every edge.
PastEdge(n, edge) == Int16(n) < 0 \/ Int16(n) >= edge

DrawAt(s, x, y) == [s EXCEPT !.drawn = @ \union {<<x, y>>}]

\* Mutant of putcharonTerm: the row is not clamped to the screen.
putcharonTermNoClamp(s) ==
    IF PastEdge(s.x, fb.width)
    THEN DrawAt(MoveTo(s, 0, (s.y + charHeight) % Word), 0, Int16(s.y) + charHeight)
    ELSE DrawAt(s, Int16(s.x), Int16(s.y))

\* Scroll if the row is below the screen, wrap if the column is behind its
\* right edge; draw at the coordinates of ssfn_dst.
putcharonTerm(s) ==
    IF PastEdge(s.y, fb.height)
    THEN DrawAt(MoveTo(s, 0, fb.height - charHeight), 0, fb.height - charHeight)
    ELSE IF PastEdge(s.x, fb.width)
    THEN DrawAt(MoveTo(s, 0, (s.y + charHeight) % Word), 0, Int16(s.y) + charHeight)
    ELSE DrawAt(s, Int16(s.x), Int16(s.y))

AtLimit(s) == /\ s.x = limit.x * charWidth
              /\ s.y = limit.y * charHeight

\* One cell back, to the left or to the end of the row above.
ColumnBack(s) == ((IF s.x = 0 THEN fb.width ELSE s.x) - charWidth) % Word
RowBack(s)    == IF s.x = 0 THEN (s.y - charHeight) % Word ELSE s.y

\* The blank goes to buffer[index], one behind the backspace the handler has
\* just stored.
EraseAt(s, x, y) == [MoveTo(s, x, y) EXCEPT !.wrote = @ \union {s.index}, !.index = @ - 1,
                                            !.erased = @ \union {<<x, y>>}]

\* Mutant of Backspace: the limit is not looked at.
BackspaceUnlimited(s) == EraseAt(s, ColumnBack(s), RowBack(s))

\* Mutant of Backspace: the row above is taken at every step.
BackspaceRowUp(s) ==
    IF AtLimit(s) THEN s ELSE EraseAt(s, ColumnBack(s), (s.y - charHeight) % Word)

\* Unless the cursor is at the limit.
Backspace(s) == IF AtLimit(s) THEN s ELSE EraseAt(s, ColumnBack(s), RowBack(s))

Advance(s) == [putcharonTerm(s) EXCEPT !.x = (@ + charWidth) % Word]

putchar(s, c) ==
    CASE c \in {CR, LF} -> MoveTo(s, 0, (s.y + charHeight) % Word)
      [] c = BACKSPACE  -> Backspace(s)
      [] c = TAB        -> Advance(Advance(Advance(Advance(Advance(s)))))
      [] OTHER          -> Advance(s)

\* Bound: no newline is given behind Deepest.
NotTooDeep(c) == c \in {CR, LF} => cursor.y <= Deepest

Show(s) == /\ cursor' = [x |-> s.x, y |-> s.y]
           /\ index' = s.index
           /\ wrote' = s.wrote /\ drawn' = s.drawn /\ erased' = s.erased
-----------------------------------------------------------------------------
ConsoleInit ==
    /\ phase = "booting"
    /\ fb \in Framebuffers
    /\ cursor = [x |-> 0, y |-> 0] /\ limit = [x |-> 0, y |-> 0]
    /\ ctrl = 0 /\ alt = 0 /\ shift = 0
    /\ capslock = 0 /\ numlock = 0 /\ scrolllock = 0
    /\ index = 0
    /\ wrote = {} /\ drawn = {} /\ erased = {}
    /\ stored = NoCharacter

\* The kernel's own output while it boots.
kprint(c) == /\ phase = "booting"
             /\ NotTooDeep(c)
             /\ Show(putchar(Screen, c))
             /\ stored' = NoCharacter
             /\ UNCHANGED <<phase, fb, limit, ctrl, alt, shift, locks>>

\* setlimit(0, cursor.y / charHeight): from here on a user types.
setlimit == /\ phase = "booting" /\ phase' = "limited"
            /\ limit' = [x |-> 0, y |-> cursor.y \div charHeight]
            /\ cursor' = [x |-> 0, y |-> limit'.y * charHeight]
            /\ wrote' = {} /\ drawn' = {} /\ erased' = {}
            /\ stored' = NoCharacter
            /\ UNCHANGED <<fb, ctrl, alt, shift, locks, index>>

activate_keyboard_processing ==
    /\ phase = "limited" /\ phase' = "active"
    /\ UNCHANGED <<fb, cursor, limit, ctrl, alt, shift, locks, index, last>>

\* A byte with the top bit set: a key was released.
Break(k) == /\ stored' = NoCharacter
            /\ ctrl' = IF k \in {KEY_LCTRL, KEY_RCTRL} THEN 0 ELSE ctrl
            /\ alt' = IF k \in {KEY_LALT, KEY_RALT} THEN 0 ELSE alt
            /\ shift' = IF k \in {KEY_LSHIFT, KEY_RSHIFT} THEN 0 ELSE shift
            /\ wrote' = {} /\ drawn' = {} /\ erased' = {}
            /\ UNCHANGED <<cursor, index, locks>>

\* Where the next character goes: the buffer starts over when it is full.
Store == IF index >= BUFFERSIZE THEN 0 ELSE index

\* A key was pressed.  Its entry is cut to eight bits before it is compared
\* with KEY_LCTRL (0x4003) and the others, which none of them equals then.
Make(k) ==
    LET byte == k % 256
        ascii == IF byte \in {KEY_LCTRL, KEY_RCTRL, KEY_LALT, KEY_RALT, KEY_LSHIFT,
                              KEY_RSHIFT, KEY_CAPSLOCK, KEY_KP_NUMLOCK, KEY_SCROLLLOCK}
                    \/ byte > 127
                 THEN 0 ELSE keycode_to_ascii(byte)
        s == putchar([Screen EXCEPT !.index = Store + 1], ascii)
    IN /\ NotTooDeep(ascii)
       /\ stored' = ascii
       /\ ctrl' = IF byte \in {KEY_LCTRL, KEY_RCTRL} THEN 1 ELSE ctrl
       /\ alt' = IF byte \in {KEY_LALT, KEY_RALT} THEN 1 ELSE alt
       /\ shift' = IF byte \in {KEY_LSHIFT, KEY_RSHIFT} THEN 1 ELSE shift
       /\ capslock' = IF byte = KEY_CAPSLOCK THEN 1 - capslock ELSE capslock
       /\ numlock' = IF byte = KEY_KP_NUMLOCK THEN 1 - numlock ELSE numlock
       /\ scrolllock' = IF byte = KEY_SCROLLLOCK THEN 1 - scrolllock ELSE scrolllock
       /\ Show([s EXCEPT !.wrote = @ \union {Store}])

\* keyboard_irq_handler, from the byte it has read on.
HandleScanCode(byte) ==
    /\ IF phase # "active"
       THEN /\ wrote' = {} /\ drawn' = {} /\ erased' = {} /\ stored' = NoCharacter
            /\ UNCHANGED <<cursor, ctrl, alt, shift, locks, index>>
       ELSE \/ byte >= 128 /\ \E k \in Lookup(byte - 128) : Break(k)
            \/ byte < 128 /\ \E k \in Lookup(byte) : Make(k)
    /\ UNCHANGED <<phase, fb, limit>>

ConsoleNext ==
    \/ \E c \in PrintedChars : kprint(c)
    \/ setlimit
    \/ activate_keyboard_processing
    \/ \E byte \in ScanCodes : HandleScanCode(byte)

ConsoleSpec == ConsoleInit /\ [][ConsoleNext]_consoleVars
-----------------------------------------------------------------------------
(* Properties *)

Cursors == [x : 0..(Word - 1), y : 0..(Word - 1)]

\* Every variable has its type: the modifier flags stay flags, and the number of
\* characters in the line buffer stays within its size.
ConsoleTypeOK ==
    /\ phase \in {"booting", "limited", "active"}
    /\ fb \in Framebuffers
    /\ cursor \in Cursors /\ limit \in Cursors
    /\ {ctrl, alt, shift, capslock, numlock, scrolllock} \subseteq 0..1
    /\ index \in 0..BUFFERSIZE
    /\ stored \in 0..127 \union {NoCharacter}

\* No key ever writes before the line buffer, and none behind it but the
\* backspace that comes when it is full, which blanks the byte after it.
BufferWritesInside == /\ wrote \subseteq 0..BUFFERSIZE
                      /\ BUFFERSIZE \in wrote => erased # {}

\* Columns and rows fill the screen.
WholeCells == fb.width % charWidth = 0 /\ fb.height % charHeight = 0

\* The limit is a row of it, too.
Fits == WholeCells /\ limit.y * charHeight < fb.height

\* However a user types, wraps, scrolls and erases, the cursor never gets in
\* front of the limit set at the end of boot: what the kernel printed in the
\* rows above cannot be erased.
CursorBehindLimit ==
    phase # "booting" /\ Fits => /\ cursor.y >= limit.y * charHeight
                                 /\ cursor.x <= fb.width

\* The buffer and the cursor stay where they belong.
ConsoleInv == ConsoleTypeOK /\ BufferWritesInside /\ CursorBehindLimit

OnScreen(cell) == /\ cell[1] + charWidth <= fb.width
                  /\ cell[2] + charHeight <= fb.height

\* Erasing writes to the framebuffer without any check.  From a cell of the
\* screen, and from the start of the row below it, where Return and the wrap
\* of the last row lead, it stays inside the framebuffer.
EraseOnScreen ==
    [][/\ phase = "active" /\ Fits
       /\ (cursor.y < fb.height \/ (cursor.y = fb.height /\ cursor.x = 0))
       => \A cell \in erased' : OnScreen(cell)]_consoleVars

\* Every character is drawn on the screen, except the one that wraps from the
\* end of the last row, which is drawn below it; and it is drawn where the
\* cursor passes, as long as the row of the cursor is not cut: after 2^16 / 16
\* Returns in a row (rows below the screen are counted on) it appears in a row
\* of the screen that has nothing to do with the cursor.
EchoVisible ==
    [][Fits /\ Cardinality(drawn') = 1 =>
          \A cell \in drawn' :
              /\ \/ OnScreen(cell)
                 \/ /\ cursor.x >= fb.width
                    /\ (cursor.y % Short) + charHeight >= fb.height
              /\ \/ cell = <<cursor'.x - charWidth, cursor'.y>>
                 \/ cursor.y >= Short]_consoleVars

=============================================================================
