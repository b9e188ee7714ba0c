-------------------- MODULE InterruptsAndConsole_proofs --------------------
(***************************************************************************)
(* Proofs about Interrupts, for any number of keys and any lengths of tick *)
(* and sleep, on a machine whose boot loader has masked both lines; and    *)
(* about Console, the work of the keyboard's handler, for any screen, any  *)
(* size of the line buffer and whatever lies behind the table of keys.     *)
(***************************************************************************)
EXTENDS Interrupts, Console, FiniteSetTheorems, TLAPS


\* The stages of a handler: in service from the entry to the end of interrupt,
\* and the interrupt flag off from the entry to the return.
StagesInOrder ==
    /\ serving = None <=> stage = "none"
    /\ stage \in {"handler", "eoi"} => isr = {serving}
    /\ (stage \in {"none", "iret"} /\ ~panicked) => isr = {}
    /\ stage # "none" => ~panicked
    /\ enabled => stage = "none" /\ ~panicked

BeforeRemap == {"lidt", "sti", "remap"}
InRemap     == {"unmasked", "oneMasked", "restore"}

\* Before pic_remap both lines are masked; it saves that mask, opens the lines and
\* masks them again; afterwards the gates are set.
GatesOrMasks ==
    /\ pc \in BeforeRemap => mask = Irqs
    /\ pc \in InRemap => savedMask = Irqs /\ base = 32
    /\ pc = "restore" => mask = Irqs
    /\ pc \in Places \ (BeforeRemap \union InRemap) => base = 32 /\ 32..47 \subseteq gates

IInv == TypeOK /\ StagesInOrder /\ GatesOrMasks /\ NoGateOnlyInRemap

-----------------------------------------------------------------------------
LEMMA InitIInv == ASSUME BootMasks \subseteq {Irqs}, Init PROVE IInv
<1> USE InterruptsAssumption DEF Irqs, TIMER_IRQ, KEYBOARD_IRQ, None
<1>1. TypeOK
  <2>1. /\ pc \in Places /\ enabled \in BOOLEAN /\ panicked \in BOOLEAN
        /\ serving \in Irqs \union {None} /\ stage \in {"none", "handler", "eoi", "iret"}
    BY DEF Init, Places
  <2>2. handlers \in [Irqs -> Irqs \union {None}] /\ gates \subseteq 0..255
    BY DEF Init
  <2>3. base \in {8, 32} /\ mask \subseteq Irqs /\ irr \subseteq Irqs /\ isr \subseteq Irqs
    BY DEF Init
  <2>4. /\ full \in BOOLEAN /\ queued \in Nat /\ struck \in 0..MaxKeys
        /\ timer_ticks \in 0..(TickBound - 1) /\ timer_subticks \in 0..(SubticksPerTick - 1)
        /\ startTime \in 0..(TickBound - 1)
    BY DEF Init
  <2> QED
    BY <2>1, <2>2, <2>3, <2>4 DEF TypeOK
<1>2. StagesInOrder
  BY DEF Init, StagesInOrder
<1>3. GatesOrMasks /\ NoGateOnlyInRemap
  BY DEF Init, GatesOrMasks, NoGateOnlyInRemap, BeforeRemap, InRemap, Places
<1> QED
  BY <1>1, <1>2, <1>3 DEF IInv
-----------------------------------------------------------------------------
(* Types: what a write of the masks, a registration, a read of the data port *)
(* and a step that moves nothing but pc do to them                           *)

LEMMA WriteMaskTypes ==
    ASSUME TypeOK, NEW from \in Places, NEW to \in Places, Run(from, to),
           NEW m \in SUBSET Irqs, WriteMask(m),
           UNCHANGED <<cpu, tables, savedMask, kbd, timer, sleep>>
    PROVE  TypeOK'
BY DEF TypeOK, Run, WriteMask, cpu, tables, kbd, timer, sleep

LEMMA RegisterTypes ==
    ASSUME TypeOK, NEW from \in Places, NEW to \in Places, NEW q \in Irqs,
           register_interrupt_handler(from, to, q)
    PROVE  TypeOK'
BY DEF TypeOK, Run, register_interrupt_handler, cpu, pic, kbd, timer, sleep

LEMMA ReadDataTypes ==
    ASSUME TypeOK, NEW drop \in BOOLEAN, ReadData(drop)
    PROVE  irr' \subseteq Irqs /\ full' \in BOOLEAN
BY DEF TypeOK, ReadData

LEMMA QueueTypes ==
    ASSUME TypeOK, NEW from \in Places, NEW to \in Places, Run(from, to), queued' \in Nat,
           UNCHANGED <<cpu, tables, pic, savedMask, full, struck, timer, sleep>>
    PROVE  TypeOK'
BY DEF TypeOK, Run, cpu, tables, pic, timer, sleep

LEMMA MoveTypes ==
    ASSUME TypeOK, NEW from \in Places, NEW to \in Places, Run(from, to),
           UNCHANGED <<cpu, tables, pic, savedMask, kbd, timer>>,
           startTime' \in {startTime, timer_ticks}
    PROVE  TypeOK'
BY DEF TypeOK, Run, cpu, tables, pic, kbd, timer

\* The boot thread keeps the types.
LEMMA BootTypes == ASSUME TypeOK, GatesOrMasks, Boot PROVE TypeOK'
<1> USE InterruptsAssumption DEF Irqs, TIMER_IRQ, KEYBOARD_IRQ, Places
<1>1. CASE LoadIDT
  BY <1>1 DEF LoadIDT, TypeOK, Run, cpu, pic, kbd, timer, sleep
<1>2. CASE EnableInterrupts
  BY <1>2 DEF EnableInterrupts, TypeOK, Run, tables, pic, kbd, timer, sleep
<1>3. CASE RemapICW
  BY <1>3 DEF RemapICW, TypeOK, Run, cpu, tables, kbd, timer, sleep
<1>4. CASE RemapOCW
  <2>1. pc = "oneMasked" => savedMask = Irqs
    BY DEF GatesOrMasks, InRemap
  <2> QED
    BY <1>4, <2>1, WriteMaskTypes DEF RemapOCW, Run
<1>5. CASE SetGates
  BY <1>5 DEF SetGates, TypeOK, Run, cpu, pic, kbd, timer, sleep
<1>6. CASE \/ pic_set_mask("gates", "maskKeyboard", TIMER_IRQ)
           \/ pic_set_mask("maskKeyboard", "unmaskTimer", KEYBOARD_IRQ)
  <2>1. mask \union {TIMER_IRQ} \in SUBSET Irqs /\ mask \union {KEYBOARD_IRQ} \in SUBSET Irqs
    BY DEF TypeOK
  <2> QED
    BY <1>6, <2>1, WriteMaskTypes DEF pic_set_mask
<1>7. CASE \/ pic_clear_mask("unmaskTimer", "timerHandler", TIMER_IRQ)
           \/ pic_clear_mask("unmaskKeyboard", "drain", KEYBOARD_IRQ)
  <2>1. mask \ {TIMER_IRQ} \in SUBSET Irqs /\ mask \ {KEYBOARD_IRQ} \in SUBSET Irqs
    BY DEF TypeOK
  <2> QED
    BY <1>7, <2>1, WriteMaskTypes DEF pic_clear_mask
<1>8. CASE \/ register_interrupt_handler("timerHandler", "unmaskKeyboard", TIMER_IRQ)
           \/ register_interrupt_handler("keyboardHandler", "getTime", KEYBOARD_IRQ)
  BY <1>8, RegisterTypes
<1>9. CASE Drain
  <2>1. CASE full /\ Run("drain", "drain")
    <3>1. irr' \subseteq Irqs /\ full' \in BOOLEAN
      BY <1>9, <2>1, ReadDataTypes DEF Drain, Run
    <3>2. UNCHANGED <<cpu, tables, base, mask, isr, savedMask, queued,
                      struck, busy, scanning, timer, sleep>> /\ pc' = "drain"
      BY <1>9, <2>1 DEF Drain, Run
    <3> QED
      BY <3>1, <3>2 DEF TypeOK, cpu, tables, timer, sleep
  <2>2. CASE ~full
    BY <1>9, <2>2, MoveTypes DEF Drain, sleep
  <2> QED
    BY <1>9, <2>1, <2>2 DEF Drain
<1>10. CASE keyboard_send_command
  <2>1. CASE busy
    <3>1. queued' \in Nat
      BY <1>10, <2>1 DEF keyboard_send_command, TypeOK
    <3> QED
      BY <1>10, <2>1, <3>1, QueueTypes DEF keyboard_send_command
  <2>2. CASE ~busy
    BY <1>10, <2>2, MoveTypes DEF keyboard_send_command, sleep
  <2> QED
    BY <2>1, <2>2
<1>11. CASE GetTime \/ Sleep_pit
  BY <1>11, MoveTypes DEF GetTime, Sleep_pit, sleep
<1> QED
  BY <1>1, <1>2, <1>3, <1>4, <1>5, <1>6, <1>7, <1>8, <1>9, <1>10, <1>11
     DEF Boot, timer_install, EnableKeyboard, keyboard_init

-----------------------------------------------------------------------------
(* The order of stages, the gates and the masks *)

LEMMA BootKeeps ==
    ASSUME IInv, Boot PROVE StagesInOrder' /\ GatesOrMasks' /\ NoGateOnlyInRemap'
<1> USE DEF Run, Irqs, TIMER_IRQ, KEYBOARD_IRQ
<1>1. ~panicked /\ serving = None /\ stage = "none" /\ isr = {}
  BY DEF Boot, LoadIDT, EnableInterrupts, RemapICW, RemapOCW, SetGates, pic_set_mask,
         timer_install, pic_clear_mask, register_interrupt_handler, EnableKeyboard,
         keyboard_init, Drain, keyboard_send_command, GetTime, Sleep_pit, IInv, StagesInOrder
<1>2. UNCHANGED <<serving, stage, panicked>> /\ isr' = {}
  BY <1>1 DEF Boot, LoadIDT, EnableInterrupts, RemapICW, RemapOCW, SetGates, pic_set_mask,
         timer_install, pic_clear_mask, register_interrupt_handler, EnableKeyboard,
         keyboard_init, Drain, keyboard_send_command, GetTime, Sleep_pit, WriteMask, cpu, pic
<1>3. StagesInOrder' /\ NoGateOnlyInRemap'
  BY <1>1, <1>2 DEF StagesInOrder, NoGateOnlyInRemap
<1>4. GatesOrMasks'
  <2> USE DEF IInv, GatesOrMasks, Places, BeforeRemap, InRemap
  <2>1. CASE LoadIDT \/ EnableInterrupts \/ RemapICW
    BY <2>1 DEF LoadIDT, EnableInterrupts, RemapICW, cpu, pic
  <2>2. CASE RemapOCW
    BY <2>2 DEF RemapOCW, WriteMask, cpu
  <2>3. CASE SetGates
    <3>1. /\ pc' = "gates" /\ base' = 32
          /\ gates' = gates \union (32..47) \union {255}
      BY <2>3 DEF SetGates, pic
    <3> QED
      BY <3>1
  <2>4. ASSUME NEW from \in Places \ (BeforeRemap \union InRemap),
               NEW to \in Places \ (BeforeRemap \union InRemap),
               Run(from, to), UNCHANGED <<base, gates>>
        PROVE  GatesOrMasks'
    BY <2>4
  <2>5. CASE \/ pic_set_mask("gates", "maskKeyboard", TIMER_IRQ)
             \/ pic_set_mask("maskKeyboard", "unmaskTimer", KEYBOARD_IRQ)
             \/ timer_install
    BY <2>5, <2>4 DEF pic_set_mask, timer_install, pic_clear_mask, WriteMask,
                      register_interrupt_handler, tables, pic
  <2>6. CASE EnableKeyboard \/ GetTime \/ Sleep_pit
    BY <2>6, <2>4 DEF EnableKeyboard, keyboard_init, pic_clear_mask, WriteMask, Drain,
                      keyboard_send_command, register_interrupt_handler, GetTime, Sleep_pit,
                      tables, pic
  <2> QED
    BY <2>1, <2>2, <2>3, <2>5, <2>6 DEF Boot
<1> QED
  BY <1>3, <1>4

\* An interrupt finds its gate, unless it comes while pic_remap has the masks open.
LEMMA EnterKeeps == ASSUME IInv, NEW q \in Irqs, Enter(q) PROVE IInv'
<1> USE DEF Irqs, TIMER_IRQ, KEYBOARD_IRQ, None
<1>1. /\ ~panicked /\ serving = None /\ enabled /\ isr = {} /\ stage = "none"
      /\ q \in irr \ mask
  BY DEF Enter, Interrupt, Waiting, IInv, StagesInOrder
<1>2. TypeOK'
  BY <1>1 DEF Enter, IInv, TypeOK, tables, kbd, timer, sleep
<1>3. StagesInOrder'
  BY <1>1 DEF Enter, StagesInOrder
<1>4. GatesOrMasks'
  BY DEF Enter, IInv, GatesOrMasks, tables
<1>5. NoGateOnlyInRemap'
  <2>1. pc \notin BeforeRemap /\ pc # "restore"
    BY <1>1 DEF IInv, GatesOrMasks, TypeOK
  <2>2. CASE pc \in {"unmasked", "oneMasked"}
    BY <2>2 DEF Enter, NoGateOnlyInRemap
  <2>3. CASE pc \in Places \ (BeforeRemap \union InRemap)
    <3>1. base + q \in 32..47 /\ 32..47 \subseteq gates
      BY <2>3 DEF IInv, GatesOrMasks
    <3>2. ~panicked'
      BY <1>1, <3>1 DEF Enter
    <3> QED
      BY <3>2 DEF NoGateOnlyInRemap
  <2> QED
    BY <2>1, <2>2, <2>3 DEF InRemap, IInv, TypeOK
<1> QED
  BY <1>2, <1>3, <1>4, <1>5 DEF IInv

LEMMA HandlerKeeps == ASSUME IInv, Handler PROVE IInv'
<1> USE InterruptsAssumption DEF Irqs, TIMER_IRQ, KEYBOARD_IRQ, None
<1>1. GatesOrMasks' /\ NoGateOnlyInRemap'
  <2>1. UNCHANGED <<pc, panicked, gates, base, mask, savedMask>>
    BY DEF Handler, Handle, pic_signal_EOI, Return, tables, pic
  <2> QED
    BY <2>1 DEF IInv, GatesOrMasks, NoGateOnlyInRemap
<1>2. CASE Handle
  <2>1. serving \in Irqs /\ handlers[serving] \in Irqs \union {None}
    BY <1>2 DEF Handle, IInv, TypeOK, StagesInOrder
  <2>2. /\ irr' \subseteq Irqs /\ full' \in BOOLEAN
        /\ timer_ticks' \in 0..(TickBound - 1) /\ timer_subticks' \in 0..(SubticksPerTick - 1)
    <3>1. CASE handlers[serving] = TIMER_IRQ
      BY <1>2, <3>1 DEF Handle, timer_handler, IInv, TypeOK
    <3>2. CASE handlers[serving] = KEYBOARD_IRQ
      <4>1. PICK drop \in BOOLEAN : ReadData(drop)
        BY <1>2, <3>2 DEF Handle, keyboard_irq_handler
      <4> QED
        BY <1>2, <3>2, <4>1, ReadDataTypes DEF Handle, keyboard_irq_handler, IInv, TypeOK, timer
    <3>3. CASE handlers[serving] = None
      BY <1>2, <3>3 DEF Handle, IInv, TypeOK, timer
    <3> QED
      BY <2>1, <3>1, <3>2, <3>3
  <2>3. TypeOK'
    BY <1>2, <2>2 DEF Handle, IInv, TypeOK, tables, sleep
  <2>4. StagesInOrder'
    BY <1>2 DEF Handle, IInv, StagesInOrder
  <2> QED
    BY <1>1, <2>3, <2>4 DEF IInv
<1>3. CASE pic_signal_EOI
  <2>1. TypeOK'
    BY <1>3 DEF pic_signal_EOI, IInv, TypeOK, tables, kbd, timer, sleep
  <2>2. StagesInOrder'
    BY <1>3 DEF pic_signal_EOI, IInv, StagesInOrder
  <2> QED
    BY <1>1, <2>1, <2>2 DEF IInv
<1>4. CASE Return
  <2>1. TypeOK'
    BY <1>4 DEF Return, IInv, TypeOK, tables, pic, kbd, timer, sleep
  <2>2. StagesInOrder'
    BY <1>4 DEF Return, IInv, StagesInOrder, pic
  <2> QED
    BY <1>1, <2>1, <2>2 DEF IInv
<1> QED
  BY <1>2, <1>3, <1>4 DEF Handler

LEMMA DevicesKeep ==
    ASSUME IInv, PITTick \/ Strike \/ Deliver \/ TakeCommand PROVE IInv'
<1> USE DEF Irqs, TIMER_IRQ, KEYBOARD_IRQ, None
<1>1. UNCHANGED <<pc, cpu, tables, base, mask, isr, savedMask, timer, sleep>>
  BY DEF PITTick, Strike, Deliver, TakeCommand, Raise, pic
<1>2. /\ irr' \subseteq Irqs /\ full' \in BOOLEAN /\ queued' \in Nat /\ struck' \in 0..MaxKeys
  <2> USE InterruptsAssumption DEF IInv, TypeOK
  <2>1. CASE PITTick
    BY <2>1 DEF PITTick, Raise, kbd
  <2>2. CASE Strike
    BY <2>2 DEF Strike, pic
  <2>3. CASE Deliver
    BY <2>3 DEF Deliver, Raise
  <2>4. CASE TakeCommand
    BY <2>4 DEF TakeCommand, pic
  <2> QED
    BY <2>1, <2>2, <2>3, <2>4
<1>3. TypeOK'
  BY <1>1, <1>2 DEF IInv, TypeOK, cpu, tables, timer, sleep
<1>4. StagesInOrder' /\ GatesOrMasks' /\ NoGateOnlyInRemap'
  BY <1>1 DEF IInv, StagesInOrder, GatesOrMasks, NoGateOnlyInRemap, cpu, tables
<1> QED
  BY <1>3, <1>4 DEF IInv
-----------------------------------------------------------------------------
LEMMA NextIInv == IInv /\ [Next]_vars => IInv'
<1> SUFFICES ASSUME IInv, [Next]_vars PROVE IInv'
  OBVIOUS
<1>1. CASE Boot
  BY <1>1, BootTypes, BootKeeps DEF IInv
<1>2. CASE \E q \in Irqs : Enter(q)
  BY <1>2, EnterKeeps
<1>3. CASE Handler
  BY <1>3, HandlerKeeps
<1>4. CASE PITTick \/ Strike \/ Deliver \/ TakeCommand
  BY <1>4, DevicesKeep
<1>5. CASE UNCHANGED vars
  BY <1>5 DEF IInv, TypeOK, StagesInOrder, GatesOrMasks, NoGateOnlyInRemap, vars, cpu,
              tables, pic, kbd, timer, sleep
<1> QED
  BY <1>1, <1>2, <1>3, <1>4, <1>5 DEF Next

\* When the boot loader leaves both lines masked, the invariant holds for good.
LEMMA Inductive == ASSUME BootMasks \subseteq {Irqs} PROVE Spec => []IInv
<1>1. Init => IInv
  BY InitIInv
<1>2. IInv /\ [Next]_vars => IInv'
  BY NextIInv
<1> QED
  BY <1>1, <1>2, PTL DEF Spec

\* However the devices interleave with boot, the variables keep their types, and
\* no line is left in service when the processor accepts interrupts again: each
\* interrupt that was entered, with a handler or without, has been ended.
THEOREM EachInterruptEnded == ASSUME BootMasks \subseteq {Irqs} PROVE Spec => []InterruptsInv
<1>1. IInv => InterruptsInv
  BY DEF IInv, StagesInOrder, InterruptsInv, NothingLeftInService
<1> QED
  BY <1>1, Inductive, PTL

\* A missing gate is met in pic_remap only, between the writes that open the
\* masks and the one that restores them: nowhere else can boot end in a panic.
THEOREM GatesInPlace == ASSUME BootMasks \subseteq {Irqs} PROVE Spec => []NoGateOnlyInRemap
<1>1. IInv => NoGateOnlyInRemap
  BY DEF IInv
<1> QED
  BY <1>1, Inductive, PTL
-----------------------------------------------------------------------------
(* Console: the table of keys *)

\* Whatever a byte finds, in the table or behind it, is a number.
LEMMA KeysAreNumbers ==
    ASSUME NEW byte \in ScanCodes, NEW code \in {byte, byte - 128}, code \in 0..127,
           NEW k \in Lookup(code)
    PROVE  k \in Nat
<1>1. byte \in 0..255 /\ AnyWord \subseteq Nat
  BY ConsoleAssumption
<1>2. code = byte % 128
  BY <1>1
<1>3. CASE code < TableSize
  <2>1. code \in TableCodes
    BY <1>2, <1>3, ScanCodesAssumption DEF TableSize
  <2>2. standard_keycodes[code] \in Nat
    BY <2>1 DEF standard_keycodes, TableCodes, BACKSPACE, TAB, CR, SPACE, KEY_LCTRL, KEY_LSHIFT,
                KEY_RSHIFT, KEY_RALT, KEY_CAPSLOCK, KEY_F8, KEY_F9, KEY_KP_NUMLOCK,
                KEY_SCROLLLOCK, KEY_UNKNOWN, KEY_F12
  <2> QED
    BY <1>3, <2>2 DEF Lookup
<1>4. CASE ~(code < TableSize)
  BY <1>1, <1>4 DEF Lookup
<1> QED
  BY <1>3, <1>4

\* What is left of a key once cut to eight bits is no modifier.
Modifiers == {KEY_LCTRL, KEY_RCTRL, KEY_LALT, KEY_RALT, KEY_LSHIFT, KEY_RSHIFT,
              KEY_CAPSLOCK, KEY_KP_NUMLOCK, KEY_SCROLLLOCK}

LEMMA CutKeys == ASSUME NEW k \in Nat PROVE k % 256 \in 0..255 /\ k % 256 \notin Modifiers
<1>1. k % 256 \in 0..255
  OBVIOUS
<1> QED
  BY <1>1 DEF Modifiers, KEY_LCTRL, KEY_RCTRL, KEY_LALT, KEY_RALT, KEY_LSHIFT, KEY_RSHIFT,
              KEY_CAPSLOCK, KEY_KP_NUMLOCK, KEY_SCROLLLOCK

\* Without Shift and Caps Lock a key is the character itself.
LEMMA Unshifted == ASSUME shift = 0, capslock = 0, NEW c \in 0..127
                   PROVE  keycode_to_ascii(c) = c
BY DEF keycode_to_ascii
-----------------------------------------------------------------------------
(* Console: arithmetic *)

Pixels == 0..(Word - 1)

\* A uint32_t stays one.
LEMMA WordMod == ASSUME NEW n \in Int PROVE n % Word \in Pixels
BY ConsoleAssumption DEF Pixels

\* In range, nothing wraps.
LEMMA WordStays == ASSUME NEW n \in Pixels PROVE n % Word = n
BY ConsoleAssumption DEF Pixels

Multiple(n, d) == \E q \in Nat : n = q * d

\* Quotient and remainder.
LEMMA Division == ASSUME NEW n \in Nat, NEW d \in Nat \ {0}
                  PROVE  n = d * (n \div d) + (n % d) /\ n \div d \in Nat /\ n % d \in 0..(d - 1)
OBVIOUS

\* There is one quotient and one remainder.
LEMMA RestIs == ASSUME NEW d \in Nat \ {0}, NEW q \in Nat, NEW c \in Nat, c < d
                PROVE  (d * q + c) % d = c
<1> DEFINE n == d * q + c
           p == n \div d
           e == n % d
<1>1. n \in Nat /\ n = d * q + c
  <2>1. d * q \in Nat
    OBVIOUS
  <2> QED
    BY <2>1
<1>2. n = d * p + e /\ p \in Nat /\ e \in 0..(d - 1)
  BY <1>1, Division
<1> HIDE DEF n, p, e
<1>3. ~(p < q)
  <2> SUFFICES ASSUME p < q PROVE FALSE
    OBVIOUS
  <2>1. PICK i \in Nat : q = p + 1 + i
    <3>1. q - p - 1 \in Nat /\ q = p + 1 + (q - p - 1)
      BY <1>2
    <3> QED
      BY <3>1
  <2>2. d * q = d * p + d + d * i /\ d * i \in Nat /\ d * p \in Nat
    BY <1>2, <2>1
  <2> QED
    BY <1>1, <1>2, <2>2
<1>4. ~(q < p)
  <2> SUFFICES ASSUME q < p PROVE FALSE
    OBVIOUS
  <2>1. PICK i \in Nat : p = q + 1 + i
    <3>1. p - q - 1 \in Nat /\ p = q + 1 + (p - q - 1)
      BY <1>2
    <3> QED
      BY <3>1
  <2>2. d * p = d * q + d + d * i /\ d * i \in Nat /\ d * q \in Nat
    BY <1>2, <2>1
  <2> QED
    BY <1>1, <1>2, <2>2
<1>5. p = q
  BY <1>2, <1>3, <1>4
<1>6. e = c
  BY <1>1, <1>2, <1>5
<1> QED
  BY <1>6 DEF e, n

\* Lines and columns are multiples of a cell's size; of multiples only this is used.
LEMMA MultipleOf == ASSUME NEW d \in Nat \ {0}, NEW n \in Nat, n % d = 0 PROVE Multiple(n, d)
<1>1. PICK q \in Nat : n = d * q
  <2>1. n = d * (n \div d) + (n % d) /\ n \div d \in Nat
    BY Division
  <2> QED
    BY <2>1
<1>2. n = q * d
  BY <1>1
<1> QED
  BY <1>2 DEF Multiple

LEMMA MultipleZero == ASSUME NEW d \in Nat \ {0} PROVE Multiple(0, d)
<1>1. 0 = 0 * d
  OBVIOUS
<1> QED
  BY <1>1 DEF Multiple

LEMMA MultipleUp == ASSUME NEW d \in Nat \ {0}, NEW n, Multiple(n, d) PROVE Multiple(n + d, d)
<1>1. PICK q \in Nat : n = q * d
  BY DEF Multiple
<1>2. n + d = (q + 1) * d
  BY <1>1
<1> QED
  BY <1>2 DEF Multiple

LEMMA MultipleDown == ASSUME NEW d \in Nat \ {0}, NEW n, Multiple(n, d), n # 0
                      PROVE  /\ n \in Nat /\ n - d \in Nat
                             /\ Multiple(n - d, d)
<1>1. PICK q \in Nat : n = q * d
  BY DEF Multiple
<1>2. q # 0
  BY <1>1
<1>3. n - d = (q - 1) * d /\ q - 1 \in Nat
  BY <1>1, <1>2
<1>4. (q - 1) * d \in Nat /\ q * d \in Nat
  BY <1>3
<1> QED
  BY <1>1, <1>3, <1>4 DEF Multiple

\* Two different multiples lie a step apart.
LEMMA MultipleGap == ASSUME NEW d \in Nat \ {0}, NEW m, NEW n, Multiple(m, d), Multiple(n, d), m < n
                     PROVE  m + d <= n
<1>1. PICK p \in Nat : m = p * d
  BY DEF Multiple
<1>2. PICK q \in Nat : n = q * d
  BY DEF Multiple
<1>3. p < q
  <2>1. SUFFICES ASSUME q <= p PROVE FALSE
    OBVIOUS
  <2>2. q * d <= p * d
    BY <2>1, SMTT(30)
  <2> QED
    BY <1>1, <1>2, <2>2
<1>4. (p + 1) * d <= q * d
  BY <1>3, SMTT(30)
<1>5. (p + 1) * d = p * d + d
  OBVIOUS
<1> QED
  BY <1>1, <1>2, <1>4, <1>5
-----------------------------------------------------------------------------
(* Console: coordinates of sixteen bits *)

\* Word is a number of Shorts, and half of one is less than it.
LEMMA ShortInWord ==
    /\ \E m \in Nat : Word = Short * m
    /\ Short \div 2 \in Nat /\ Short \div 2 < Short /\ Short \div 2 < Word
<1>1. Word = Short * (Word \div Short) + (Word % Short) /\ Word \div Short \in Nat
  BY Division, ConsoleAssumption
<1>2. PICK m \in Nat : Word = Short * m
  BY <1>1, ConsoleAssumption
<1>3. m # 0
  BY <1>2, ConsoleAssumption
<1>4. PICK k \in Nat : m = k + 1
  <2>1. m - 1 \in Nat /\ m = (m - 1) + 1
    BY <1>3
  <2> QED
    BY <2>1
<1>5. Word = Short * k + Short /\ Short * k \in Nat
  BY <1>2, <1>4, ConsoleAssumption
<1>6. Short \div 2 \in Nat /\ Short \div 2 < Short
  BY ConsoleAssumption
<1> QED
  BY <1>2, <1>5, <1>6, ConsoleAssumption

\* Small numbers are kept.
LEMMA ShortStays ==
    ASSUME NEW n \in Nat, n < Short \div 2
    PROVE  Int16(n) = n
<1>1. n + Short \div 2 \in 0..(Short - 1)
  BY ConsoleAssumption
<1>2. (n + Short \div 2) % Short = n + Short \div 2
  BY <1>1, ConsoleAssumption
<1> QED
  BY <1>2, ConsoleAssumption DEF Int16

\* What is kept of a coordinate that is in front of an edge, and that a step of a
\* cell leads to no other range of sixteen bits.
LEMMA CutInFront ==
    ASSUME NEW n \in Pixels, NEW edge \in Nat, NEW d \in Nat, edge + d <= Short \div 2,
           ~PastEdge(n, edge)
    PROVE  /\ Int16(n) \in 0..(edge - 1) /\ Int16(n) = n % Short
           /\ n + d \in Pixels /\ Int16(n + d) = Int16(n) + d
           /\ \E q \in Nat : n = Short * q + Int16(n)
<1>1. /\ Short \in Nat \ {0} /\ n \in Nat /\ n < Word
      /\ \E m \in Nat : Word = Short * m
  BY ShortInWord, ConsoleAssumption DEF Pixels
<1>2. PICK h \in Nat : h = Short \div 2 /\ h < Short
  BY ShortInWord
<1>3. PICK q \in Nat, r \in 0..(Short - 1) : n + h = Short * q + r /\ r = (n + h) % Short
  <2>1. n + h \in Nat
    BY <1>1
  <2>2. n + h = Short * ((n + h) \div Short) + ((n + h) % Short)
        /\ (n + h) \div Short \in Nat /\ (n + h) % Short \in 0..(Short - 1)
    BY <1>1, <2>1, Division
  <2> QED
    BY <2>2
<1>4. Int16(n) = r - h /\ r - h >= 0 /\ r - h < edge
  BY <1>1, <1>2, <1>3 DEF Int16, PastEdge
<1>5. PICK c \in Nat : c = r - h /\ c < edge /\ c + d < h
  BY <1>1, <1>2, <1>4
<1>6. n = Short * q + c /\ Short * q \in Nat
  BY <1>1, <1>2, <1>3, <1>5
<1>7. n % Short = c /\ (n + h) % Short = c + h
  <2>1. c \in 0..(Short - 1) /\ c = r - h
    BY <1>1, <1>2, <1>5
  <2>2. n % Short = c
    <3>1. c < Short
      BY <1>1, <2>1
    <3>2. (Short * q + c) % Short = c
      BY <1>1, <3>1, RestIs
    <3> QED
      BY <1>6, <3>2
  <2> QED
    BY <1>1, <1>2, <1>3, <1>5, <2>2
<1>8. (n + d + h) % Short = c + d + h
  <2>1. n + d + h = Short * q + (c + d + h) /\ c + d + h \in Nat
    BY <1>1, <1>2, <1>5, <1>6
  <2>2. c + d + h < Short
    <3>1. 2 * (Short \div 2) <= Short
      BY <1>1
    <3> QED
      BY <1>1, <1>2, <1>5, <3>1
  <2> QED
    BY <1>1, <2>1, <2>2, RestIs
<1>9. Int16(n + d) = c + d
  BY <1>1, <1>2, <1>5, <1>8 DEF Int16
<1>10. n + d < Word
  <2>1. PICK m \in Nat : Word = Short * m
    BY <1>1
  <2>2. q < m
    <3> SUFFICES ASSUME m <= q PROVE FALSE
      OBVIOUS
    <3>1. PICK k \in Nat : q = m + k
      <4>1. q - m \in Nat /\ q = m + (q - m)
        OBVIOUS
      <4> QED
        BY <4>1
    <3>2. Short * q = Short * m + Short * k /\ Short * k \in Nat
      BY <1>1, <3>1
    <3> QED
      BY <1>1, <1>6, <2>1, <3>2
  <2>3. PICK k \in Nat : m = q + 1 + k
    <3>1. m - q - 1 \in Nat /\ m = q + 1 + (m - q - 1)
      BY <2>2
    <3> QED
      BY <3>1
  <2>4. Word = Short * q + Short + Short * k /\ Short * k \in Nat
    BY <1>1, <2>1, <2>3
  <2> QED
    BY <1>1, <1>2, <1>5, <1>6, <2>4
<1>11. n + d \in Pixels
  BY <1>1, <1>10, ConsoleAssumption DEF Pixels
<1> QED
  BY <1>4, <1>5, <1>6, <1>7, <1>9, <1>11

\* A row is a multiple of a cell's height, and so is what is kept of it.
LEMMA CutMultiple ==
    ASSUME NEW n \in Nat, NEW c \in Nat, NEW q \in Nat, n = Short * q + c, Multiple(n, charHeight)
    PROVE  Multiple(c, charHeight)
<1>1. Short \in Nat \ {0} /\ charHeight \in Nat \ {0} /\ Short % charHeight = 0
  BY ConsoleAssumption
<1>2. PICK k \in Nat : n = k * charHeight
  BY DEF Multiple
<1>3. PICK m \in Nat : Short = m * charHeight
  BY <1>1, MultipleOf DEF Multiple
<1>4. Short * q = (m * q) * charHeight /\ m * q \in Nat
  BY <1>1, <1>3
<1>5. PICK j \in Nat : j = m * q
  BY <1>4
<1>6. k * charHeight = j * charHeight + c
  BY <1>2, <1>4, <1>5
<1>7. j <= k
  <2> SUFFICES ASSUME k < j PROVE FALSE
    OBVIOUS
  <2>1. PICK i \in Nat : j = k + 1 + i
    <3>1. j - k - 1 \in Nat /\ j = k + 1 + (j - k - 1)
      OBVIOUS
    <3> QED
      BY <3>1
  <2>2. j * charHeight = k * charHeight + charHeight + i * charHeight
        /\ i * charHeight \in Nat /\ k * charHeight \in Nat
    BY <1>1, <2>1
  <2> QED
    BY <1>1, <1>6, <2>2
<1>8. PICK i \in Nat : k = j + i
  <2>1. k - j \in Nat /\ k = j + (k - j)
    BY <1>7
  <2> QED
    BY <2>1
<1>9. k * charHeight = j * charHeight + i * charHeight
      /\ i * charHeight \in Nat /\ j * charHeight \in Nat
  BY <1>1, <1>8
<1>10. c = i * charHeight
  BY <1>6, <1>9
<1> QED
  BY <1>10 DEF Multiple
-----------------------------------------------------------------------------
(* Console: what putchar does to the cursor *)

Cells   == Int \X Int
Screens == [x : Pixels, y : Pixels, index : 0..BUFFERSIZE, wrote : SUBSET Int,
            drawn : SUBSET Cells, erased : SUBSET Cells]

OnGrid(x, y) == Multiple(x, charWidth) /\ Multiple(y, charHeight) /\ x <= fb.width

BehindLimit(y) == y >= limit.y * charHeight

\* On a screen of whole cells the cursor stands on one, at most at the end of its
\* row, and not in front of the limit.
Placed(x, y) == Fits => OnGrid(x, y) /\ BehindLimit(y)

\* What the screen and the cells are assumed to measure.
LEMMA Sizes == ASSUME fb \in Framebuffers
               PROVE  /\ Word \in Nat \ {0} /\ charWidth \in Nat \ {0} /\ charHeight \in Nat \ {0}
                      /\ fb.width \in Nat
                      /\ charWidth <= fb.width /\ fb.width + charWidth < Word
                      /\ fb.height \in Nat
                      /\ charHeight <= fb.height /\ fb.height + charHeight < Word
                      /\ fb.width + charWidth <= Short \div 2
                      /\ fb.height + charHeight <= Short \div 2
<1>1. fb \in [width : charWidth..(Short \div 2 - charWidth),
             height : charHeight..(Short \div 2 - charHeight)]
  BY FramebuffersAssumption
<1>2. Short \div 2 \in Nat /\ Short \div 2 < Word
  BY ConsoleAssumption, ShortInWord
<1> QED
  BY <1>1, <1>2, ConsoleAssumption

LEMMA WholeScreen == ASSUME fb \in Framebuffers, WholeCells
                     PROVE  Multiple(fb.width, charWidth) /\ Multiple(fb.height, charHeight)
BY Sizes, MultipleOf DEF WholeCells

LEMMA LimitRow == ASSUME limit.y \in Nat, charHeight \in Nat \ {0}
                  PROVE  Multiple(limit.y * charHeight, charHeight) /\ limit.y * charHeight \in Nat
BY DEF Multiple

\* Where putcharonTerm draws, and where it leaves the cursor.
CellOf(s) == IF PastEdge(s.y, fb.height) THEN <<0, fb.height - charHeight>>
             ELSE IF PastEdge(s.x, fb.width) THEN <<0, Int16(s.y) + charHeight>>
             ELSE <<Int16(s.x), Int16(s.y)>>

CursorAt(s) == IF PastEdge(s.y, fb.height) THEN <<0, fb.height - charHeight>>
               ELSE IF PastEdge(s.x, fb.width) THEN <<0, s.y + charHeight>>
               ELSE <<s.x, s.y>>

\* The fields of a screen after a move, after drawing and after erasing.
LEMMA Moved ==
    ASSUME NEW s \in Screens, NEW x \in Pixels, NEW y \in Pixels, NEW t, t = MoveTo(s, x, y)
    PROVE  /\ t \in Screens /\ t.x = x /\ t.y = y /\ t.drawn = s.drawn
           /\ t.index = s.index /\ t.wrote = s.wrote /\ t.erased = s.erased
BY DEF Screens, MoveTo

LEMMA MovedToStart ==
    ASSUME NEW s \in Screens, NEW y \in Pixels, NEW t, t = MoveTo(s, 0, y)
    PROVE  /\ t \in Screens /\ t.x = 0 /\ t.y = y /\ t.drawn = s.drawn
           /\ t.index = s.index /\ t.wrote = s.wrote /\ t.erased = s.erased
<1>1. PICK x \in Pixels : x = 0
  BY ConsoleAssumption DEF Pixels
<1>2. t = MoveTo(s, x, y)
  BY <1>1
<1>3. /\ t \in Screens /\ t.x = x /\ t.y = y /\ t.drawn = s.drawn
      /\ t.index = s.index /\ t.wrote = s.wrote /\ t.erased = s.erased
  BY <1>2, Moved
<1> QED
  BY <1>1, <1>3

LEMMA PixelCell == ASSUME NEW x \in Pixels, NEW y \in Pixels PROVE <<x, y>> \in Cells
BY ConsoleAssumption DEF Pixels, Cells

LEMMA Drawn ==
    ASSUME NEW s \in Screens, NEW x \in Int, NEW y \in Int, NEW t, t = DrawAt(s, x, y)
    PROVE  /\ t \in Screens /\ t.x = s.x /\ t.y = s.y /\ t.drawn = s.drawn \union {<<x, y>>}
           /\ t.index = s.index /\ t.wrote = s.wrote /\ t.erased = s.erased
<1>1. s.drawn \union {<<x, y>>} \in SUBSET Cells
  BY DEF Screens, Cells
<1> QED
  BY <1>1 DEF Screens, DrawAt

LEMMA ErasedAt ==
    ASSUME NEW s \in Screens, NEW x \in Pixels, NEW y \in Pixels, s.index # 0,
           NEW t, t = EraseAt(s, x, y)
    PROVE  /\ t \in Screens /\ t.x = x /\ t.y = y /\ t.drawn = s.drawn
           /\ t.index = s.index - 1 /\ t.wrote = s.wrote \union {s.index}
           /\ t.erased = s.erased \union {<<x, y>>}
<1>1. PICK m : m = MoveTo(s, x, y)
  OBVIOUS
<1>2. /\ m \in Screens /\ m.x = x /\ m.y = y /\ m.drawn = s.drawn
      /\ m.index = s.index /\ m.wrote = s.wrote /\ m.erased = s.erased
  BY <1>1, Moved
<1>3. t = [m EXCEPT !.wrote = @ \union {s.index}, !.index = @ - 1, !.erased = @ \union {<<x, y>>}]
  BY <1>1 DEF EraseAt
<1>4. /\ m.wrote \union {s.index} \in SUBSET Int /\ m.erased \union {<<x, y>>} \in SUBSET Cells
      /\ m.index - 1 \in 0..BUFFERSIZE
  BY <1>2, PixelCell, ConsoleAssumption DEF Screens
<1> QED
  BY <1>2, <1>3, <1>4 DEF Screens

\* What is left of a cursor in front of the edges, and one cell further.
LEMMA InFront ==
    ASSUME NEW s \in Screens, fb \in Framebuffers
    PROVE  /\ ~PastEdge(s.x, fb.width) =>
                 /\ Int16(s.x) \in 0..(fb.width - 1) /\ s.x + charWidth \in Pixels
                 /\ Int16(s.x + charWidth) = Int16(s.x) + charWidth
           /\ ~PastEdge(s.y, fb.height) =>
                 /\ Int16(s.y) \in 0..(fb.height - 1) /\ s.y + charHeight \in Pixels
                 /\ Int16(s.y + charHeight) = Int16(s.y) + charHeight
                 /\ Int16(s.y) = s.y % Short
                 /\ \E q \in Nat : s.y = Short * q + Int16(s.y)
<1>1. s.x \in Pixels /\ s.y \in Pixels
  BY DEF Screens
<1>2. /\ fb.width \in Nat /\ charWidth \in Nat /\ fb.width + charWidth <= Short \div 2
      /\ fb.height \in Nat /\ charHeight \in Nat /\ fb.height + charHeight <= Short \div 2
  BY Sizes
<1> QED
  BY <1>1, <1>2, CutInFront

\* A character is drawn in its cell, and the cursor goes behind it.
LEMMA Advanced ==
    ASSUME NEW s \in Screens, fb \in Framebuffers
    PROVE  /\ Advance(s) \in Screens
           /\ Advance(s).x = CursorAt(s)[1] + charWidth
           /\ Advance(s).y = CursorAt(s)[2]
           /\ Advance(s).drawn = s.drawn \union {CellOf(s)}
           /\ Advance(s).index = s.index /\ Advance(s).wrote = s.wrote
           /\ Advance(s).erased = s.erased
<1>1. /\ s.x \in Pixels /\ s.y \in Pixels /\ s.index \in 0..BUFFERSIZE /\ s.wrote \in SUBSET Int
      /\ s.drawn \in SUBSET Cells /\ s.erased \in SUBSET Cells
  BY DEF Screens
<1>2. PICK m \in Screens, x \in Int, y \in Int :
               /\ CursorAt(s) = <<m.x, m.y>> /\ m.x + charWidth \in Pixels
               /\ CellOf(s) = <<x, y>> /\ m.drawn = s.drawn /\ m.index = s.index
               /\ m.wrote = s.wrote /\ m.erased = s.erased
               /\ putcharonTerm(s) = DrawAt(m, x, y)
  <2>1. CASE PastEdge(s.y, fb.height)
    <3>1. 0 \in Pixels /\ fb.height - charHeight \in Pixels /\ 0 + charWidth \in Pixels
      BY Sizes DEF Pixels
    <3>2. PICK y \in Pixels : y = fb.height - charHeight
      BY <3>1
    <3>3. PICK m : m = MoveTo(s, 0, y)
      OBVIOUS
    <3>4. /\ m \in Screens /\ m.x = 0 /\ m.y = y /\ m.drawn = s.drawn
          /\ m.index = s.index /\ m.wrote = s.wrote /\ m.erased = s.erased
      BY <3>3, MovedToStart
    <3>5. 0 \in Int /\ y \in Int
      BY ConsoleAssumption DEF Pixels
    <3>6. CellOf(s) = <<0, y>> /\ CursorAt(s) = <<m.x, m.y>> /\ putcharonTerm(s) = DrawAt(m, 0, y)
      BY <2>1, <3>2, <3>3, <3>4 DEF putcharonTerm, CellOf, CursorAt
    <3> QED
      BY <3>1, <3>4, <3>5, <3>6
  <2>2. CASE ~PastEdge(s.y, fb.height) /\ PastEdge(s.x, fb.width)
    <3>1. 0 \in Pixels /\ s.y + charHeight \in Pixels /\ 0 + charWidth \in Pixels
      BY <1>1, <2>2, InFront, Sizes DEF Pixels
    <3>2. (s.y + charHeight) % Word = s.y + charHeight
      BY <3>1, WordStays
    <3>3. PICK y \in Pixels : y = s.y + charHeight
      BY <3>1
    <3>4. PICK m : m = MoveTo(s, 0, y)
      OBVIOUS
    <3>5. /\ m \in Screens /\ m.x = 0 /\ m.y = y /\ m.drawn = s.drawn
          /\ m.index = s.index /\ m.wrote = s.wrote /\ m.erased = s.erased
      BY <3>4, MovedToStart
    <3>6. 0 \in Int /\ Int16(s.y) + charHeight \in Int
      BY <2>2, InFront, Sizes
    <3>7. CellOf(s) = <<0, Int16(s.y) + charHeight>> /\ CursorAt(s) = <<m.x, m.y>>
          /\ putcharonTerm(s) = DrawAt(m, 0, Int16(s.y) + charHeight)
      BY <2>2, <3>2, <3>3, <3>4, <3>5 DEF putcharonTerm, CellOf, CursorAt
    <3> QED
      BY <3>1, <3>5, <3>6, <3>7
  <2>3. CASE ~PastEdge(s.y, fb.height) /\ ~PastEdge(s.x, fb.width)
    <3>1. s.x + charWidth \in Pixels /\ Int16(s.x) \in Int /\ Int16(s.y) \in Int
      BY <2>3, InFront, Sizes
    <3>2. CellOf(s) = <<Int16(s.x), Int16(s.y)>> /\ CursorAt(s) = <<s.x, s.y>>
          /\ putcharonTerm(s) = DrawAt(s, Int16(s.x), Int16(s.y))
      BY <2>3 DEF putcharonTerm, CellOf, CursorAt
    <3> QED
      BY <3>1, <3>2
  <2> QED
    BY <2>1, <2>2, <2>3
<1>3. PICK p : p = DrawAt(m, x, y)
  OBVIOUS
<1>4. /\ p \in Screens /\ p.x = m.x /\ p.y = m.y /\ p.drawn = m.drawn \union {<<x, y>>}
      /\ p.index = m.index /\ p.wrote = m.wrote /\ p.erased = m.erased
  BY <1>2, <1>3, Drawn
<1>5. (p.x + charWidth) % Word = p.x + charWidth
  BY <1>2, <1>4, WordStays
<1>6. Advance(s) = [p EXCEPT !.x = p.x + charWidth]
  BY <1>2, <1>3, <1>4, <1>5 DEF Advance, Screens
<1>7. /\ Advance(s) \in Screens
      /\ Advance(s).x = p.x + charWidth /\ Advance(s).y = p.y
      /\ Advance(s).drawn = p.drawn
      /\ Advance(s).index = p.index /\ Advance(s).wrote = p.wrote /\ Advance(s).erased = p.erased
  BY <1>2, <1>4, <1>6 DEF Screens
<1> QED
  BY <1>2, <1>4, <1>7

\* On a screen of whole cells the cursor stays on one.
LEMMA AdvancePlaced ==
    ASSUME NEW s \in Screens, fb \in Framebuffers, limit.y \in Nat, Placed(s.x, s.y)
    PROVE  Placed(Advance(s).x, Advance(s).y)
<1> SUFFICES ASSUME Fits PROVE OnGrid(Advance(s).x, Advance(s).y) /\ BehindLimit(Advance(s).y)
  BY DEF Placed
<1>1. s.x \in Nat /\ s.y \in Nat
  BY Sizes DEF Screens, Pixels
<1>2. Multiple(s.x, charWidth) /\ Multiple(s.y, charHeight) /\ s.x <= fb.width /\ BehindLimit(s.y)
  BY DEF Placed, OnGrid
<1>3. Multiple(fb.width, charWidth) /\ Multiple(fb.height, charHeight)
  BY WholeScreen DEF Fits
<1>4. Multiple(limit.y * charHeight, charHeight) /\ limit.y * charHeight \in Nat
  BY LimitRow, Sizes
<1>5. CASE PastEdge(s.y, fb.height)
  <2>1. Advance(s).x = charWidth /\ Advance(s).y = fb.height - charHeight
    BY <1>5, <1>1, Advanced, Sizes DEF CursorAt
  <2>2. Multiple(charWidth, charWidth)
    <3>1. charWidth = 1 * charWidth
      BY Sizes
    <3> QED
      BY <3>1 DEF Multiple
  <2>3. Multiple(fb.height - charHeight, charHeight)
    BY <1>3, MultipleDown, Sizes
  <2>4. limit.y * charHeight + charHeight <= fb.height
    BY <1>3, <1>4, MultipleGap, Sizes DEF Fits
  <2>5. BehindLimit(fb.height - charHeight)
    <3>1. PICK l \in Nat : l = limit.y * charHeight
      BY <1>4
    <3>2. fb.height - charHeight >= l
      BY <2>4, <3>1, Sizes
    <3> QED
      BY <3>1, <3>2 DEF BehindLimit
  <2> QED
    BY <2>1, <2>2, <2>3, <2>5, Sizes DEF OnGrid
<1>6. CASE ~PastEdge(s.y, fb.height) /\ PastEdge(s.x, fb.width)
  <2>1. Advance(s).x = charWidth /\ Advance(s).y = s.y + charHeight
    BY <1>6, <1>1, Advanced, Sizes DEF CursorAt
  <2>2. Multiple(charWidth, charWidth)
    <3>1. charWidth = 1 * charWidth
      BY Sizes
    <3> QED
      BY <3>1 DEF Multiple
  <2>3. Multiple(s.y + charHeight, charHeight)
    BY <1>2, MultipleUp, Sizes
  <2>4. BehindLimit(s.y + charHeight)
    BY <1>1, <1>2, <1>4, Sizes DEF BehindLimit
  <2> QED
    BY <2>1, <2>2, <2>3, <2>4, Sizes DEF OnGrid
<1>7. CASE ~PastEdge(s.y, fb.height) /\ ~PastEdge(s.x, fb.width)
  <2>1. Advance(s).x = s.x + charWidth /\ Advance(s).y = s.y
    BY <1>7, <1>1, Advanced, Sizes DEF CursorAt
  <2>2. Multiple(s.x + charWidth, charWidth)
    BY <1>2, MultipleUp, Sizes
  <2>3. s.x + charWidth <= fb.width
    <3>1. s.x < Short \div 2
      <4>1. PICK h \in Nat : h = Short \div 2
        BY ShortInWord
      <4>2. fb.width + charWidth <= h /\ charWidth \in Nat \ {0} /\ fb.width \in Nat
        BY <4>1, Sizes
      <4> QED
        BY <1>1, <1>2, <4>1, <4>2
    <3>2. Int16(s.x) = s.x
      BY <1>1, <3>1, ShortStays
    <3>3. s.x < fb.width
      BY <1>1, <1>7, <3>2, Sizes DEF PastEdge
    <3> QED
      BY <1>2, <1>3, <3>3, MultipleGap, Sizes
  <2> QED
    BY <1>2, <2>1, <2>2, <2>3 DEF OnGrid
<1> QED
  BY <1>5, <1>6, <1>7, <1>1, Sizes
\* Return and line feed, above the depth where they would wrap.
NewLine(s) == MoveTo(s, 0, (s.y + charHeight) % Word)

LEMMA NewLinePlaced ==
    ASSUME NEW s \in Screens, s.y <= Deepest, fb \in Framebuffers, limit.y \in Nat,
           NEW t, t = NewLine(s)
    PROVE  /\ t \in Screens /\ t.drawn = s.drawn
           /\ t.index = s.index /\ t.wrote = s.wrote /\ t.erased = s.erased
           /\ Placed(s.x, s.y) => Placed(t.x, t.y)
<1>1. s.y \in Nat /\ s.y + charHeight \in Pixels /\ 0 \in Pixels
  BY ConsoleAssumption DEF Screens, Pixels
<1>2. PICK y \in Pixels : y = s.y + charHeight
  BY <1>1
<1>3. t = MoveTo(s, 0, y)
  BY <1>2, WordStays DEF NewLine
<1>4. /\ t \in Screens /\ t.x = 0 /\ t.y = y /\ t.drawn = s.drawn
      /\ t.index = s.index /\ t.wrote = s.wrote /\ t.erased = s.erased
  BY <1>3, MovedToStart
<1>5. ASSUME Placed(s.x, s.y), Fits PROVE OnGrid(0, y) /\ BehindLimit(y)
  <2>1. Multiple(s.y, charHeight) /\ BehindLimit(s.y)
    BY <1>5 DEF Placed, OnGrid
  <2>2. Multiple(y, charHeight) /\ Multiple(0, charWidth)
    BY <1>2, <2>1, MultipleUp, MultipleZero, Sizes
  <2>3. limit.y * charHeight \in Nat
    BY LimitRow, Sizes
  <2>4. BehindLimit(y)
    BY <1>1, <1>2, <2>1, <2>3, Sizes DEF BehindLimit
  <2> QED
    BY <2>2, <2>4, Sizes DEF OnGrid
<1> QED
  BY <1>4, <1>5 DEF Placed

\* The cell in front of the cursor.
LEMMA CellBack ==
    ASSUME NEW s \in Screens, ~AtLimit(s), fb \in Framebuffers, limit.y \in Nat, limit.x = 0,
           Fits, OnGrid(s.x, s.y), BehindLimit(s.y)
    PROVE  /\ OnGrid(ColumnBack(s), RowBack(s)) /\ BehindLimit(RowBack(s))
           /\ ColumnBack(s) + charWidth <= fb.width
           /\ RowBack(s) = IF s.x = 0 THEN s.y - charHeight ELSE s.y
<1>1. s.x \in Pixels /\ s.y \in Pixels /\ s.x \in Nat /\ s.y \in Nat
  BY Sizes DEF Screens, Pixels
<1>2. PICK l \in Nat : l = limit.y * charHeight
  BY LimitRow, Sizes
<1>3. Multiple(l, charHeight) /\ l < fb.height /\ s.y >= l
  BY <1>2, LimitRow, Sizes DEF BehindLimit, Fits
<1>4. 0 * charWidth = 0 /\ (s.x = 0 => s.y # l)
  BY <1>2, Sizes DEF AtLimit
<1>5. CASE s.x = 0
  <2>1. Multiple(s.y, charHeight) /\ l + charHeight <= s.y
    BY <1>1, <1>3, <1>4, <1>5, MultipleGap, Sizes DEF OnGrid
  <2>2. PICK x \in Pixels : x = fb.width - charWidth
    BY Sizes DEF Pixels
  <2>3. PICK y \in Pixels : y = s.y - charHeight
    BY <1>1, <2>1, Sizes DEF Pixels
  <2>4. ColumnBack(s) = x /\ RowBack(s) = y
    BY <1>5, <2>2, <2>3, WordStays DEF ColumnBack, RowBack
  <2>5. Multiple(x, charWidth) /\ Multiple(y, charHeight)
    BY <1>1, <2>1, <2>2, <2>3, WholeScreen, MultipleDown, Sizes DEF Fits
  <2> QED
    BY <1>1, <1>2, <1>5, <2>1, <2>2, <2>3, <2>4, <2>5, Sizes DEF OnGrid, BehindLimit
<1>6. CASE s.x # 0
  <2>1. Multiple(s.x, charWidth) /\ s.x - charWidth \in Nat /\ s.x <= fb.width
    BY <1>6, MultipleDown, Sizes DEF OnGrid
  <2>2. PICK x \in Pixels : x = s.x - charWidth
    BY <1>1, <2>1, Sizes DEF Pixels
  <2>3. ColumnBack(s) = x /\ RowBack(s) = s.y
    BY <1>6, <2>2, WordStays DEF ColumnBack, RowBack
  <2>4. Multiple(x, charWidth)
    BY <1>6, <2>1, <2>2, MultipleDown, Sizes
  <2> QED
    BY <1>1, <1>6, <2>1, <2>2, <2>3, <2>4, Sizes DEF OnGrid, BehindLimit
<1> QED
  BY <1>5, <1>6

\* Backspace behind the limit, in a buffer that holds something.
LEMMA BackspacePlaced ==
    ASSUME NEW s \in Screens, s.index # 0, fb \in Framebuffers, limit.y \in Nat, limit.x = 0,
           NEW t, t = Backspace(s)
    PROVE  /\ t \in Screens /\ t.drawn = s.drawn
           /\ \/ t.wrote = s.wrote /\ t.erased = s.erased /\ t.index = s.index
              \/ t.wrote = s.wrote \union {s.index} /\ t.erased = s.erased \union {<<t.x, t.y>>}
           /\ Placed(s.x, s.y) => Placed(t.x, t.y)
<1>1. CASE AtLimit(s)
  BY <1>1 DEF Backspace
<1>2. CASE ~AtLimit(s)
  <2>1. s.x \in Pixels /\ s.y \in Pixels
    BY DEF Screens
  <2>2. PICK x \in Pixels : x = ColumnBack(s)
    BY <2>1, Sizes, WordMod DEF ColumnBack, Pixels
  <2>3. PICK y \in Pixels : y = RowBack(s)
    BY <2>1, Sizes, WordMod DEF RowBack, Pixels
  <2>4. t = EraseAt(s, x, y)
    BY <1>2, <2>2, <2>3 DEF Backspace
  <2>5. /\ t \in Screens /\ t.x = x /\ t.y = y /\ t.drawn = s.drawn
        /\ t.index = s.index - 1 /\ t.wrote = s.wrote \union {s.index}
        /\ t.erased = s.erased \union {<<x, y>>}
    BY <2>4, ErasedAt
  <2>6. ASSUME Placed(s.x, s.y), Fits PROVE OnGrid(x, y) /\ BehindLimit(y)
    BY <1>2, <2>1, <2>2, <2>3, <2>6, CellBack DEF Placed
  <2> QED
    BY <2>5, <2>6 DEF Placed
<1> QED
  BY <1>1, <1>2
\* The buffer and the cells a character edits: none, or the blank of a backspace.
Edited(s, t) ==
    \/ t.wrote = s.wrote /\ t.erased = s.erased
    \/ t.wrote = s.wrote \union {s.index} /\ t.erased = s.erased \union {<<t.x, t.y>>}

\* The arms of putchar.
LEMMA PutNewLine == ASSUME NEW s, NEW c \in {CR, LF} PROVE putchar(s, c) = NewLine(s)
<1>1. CASE c = CR
  BY <1>1 DEF putchar, NewLine, CR, LF, BACKSPACE, TAB
<1>2. CASE c = LF
  BY <1>2 DEF putchar, NewLine, CR, LF, BACKSPACE, TAB
<1> QED
  BY <1>1, <1>2

LEMMA PutBackspace == ASSUME NEW s PROVE putchar(s, BACKSPACE) = Backspace(s)
  BY DEF putchar, CR, LF, BACKSPACE, TAB

\* What putchar is called with.
Puttable(s, c) ==
    /\ s \in Screens /\ c \in 0..127 /\ fb \in Framebuffers /\ limit.y \in Nat /\ limit.x = 0
    /\ c \in {CR, LF} => s.y <= Deepest
    /\ c = BACKSPACE => s.index # 0

\* What putchar keeps, for any character of seven bits.
LEMMA PutPlaced ==
    ASSUME NEW s, NEW c, Puttable(s, c), NEW t, t = putchar(s, c)
    PROVE  /\ t \in Screens /\ (Placed(s.x, s.y) => Placed(t.x, t.y))
           /\ Edited(s, t)
           /\ c # BACKSPACE => t.index = s.index /\ t.wrote = s.wrote /\ t.erased = s.erased
<1> USE DEF Puttable
<1>1. CASE c \in {CR, LF}
  <2>1. t = NewLine(s) /\ c # BACKSPACE
    BY <1>1, PutNewLine DEF CR, LF, BACKSPACE
  <2> QED
    BY <1>1, <2>1, NewLinePlaced DEF Edited
<1>2. CASE c = BACKSPACE
  <2>1. t = Backspace(s)
    BY <1>2, PutBackspace
  <2> QED
    BY <1>2, <2>1, BackspacePlaced DEF Edited
<1>3. CASE c = TAB
  <2>1. PICK a \in Screens : a = Advance(s)
    BY Advanced
  <2>2. PICK b \in Screens : b = Advance(a)
    BY Advanced
  <2>3. PICK d \in Screens : d = Advance(b)
    BY Advanced
  <2>4. PICK e \in Screens : e = Advance(d)
    BY Advanced
  <2>5. t = Advance(e) /\ c # BACKSPACE
    BY <1>3, <2>1, <2>2, <2>3, <2>4 DEF putchar, CR, LF, BACKSPACE, TAB
  <2>6. ASSUME NEW u \in Screens, NEW v, v = Advance(u)
        PROVE  /\ v \in Screens /\ (Placed(u.x, u.y) => Placed(v.x, v.y))
               /\ v.index = u.index /\ v.wrote = u.wrote /\ v.erased = u.erased
    BY <2>6, Advanced, AdvancePlaced
  <2>7. /\ Placed(s.x, s.y) => Placed(a.x, a.y)
        /\ a.index = s.index /\ a.wrote = s.wrote /\ a.erased = s.erased
    BY <2>1, <2>6
  <2>8. /\ Placed(a.x, a.y) => Placed(b.x, b.y)
        /\ b.index = a.index /\ b.wrote = a.wrote /\ b.erased = a.erased
    BY <2>2, <2>6
  <2>9. /\ Placed(b.x, b.y) => Placed(d.x, d.y)
        /\ d.index = b.index /\ d.wrote = b.wrote /\ d.erased = b.erased
    BY <2>3, <2>6
  <2>10. /\ Placed(d.x, d.y) => Placed(e.x, e.y)
         /\ e.index = d.index /\ e.wrote = d.wrote /\ e.erased = d.erased
    BY <2>4, <2>6
  <2>11. /\ t \in Screens /\ (Placed(e.x, e.y) => Placed(t.x, t.y))
         /\ t.index = e.index /\ t.wrote = e.wrote /\ t.erased = e.erased
    BY <2>5, <2>6
  <2> QED
    BY <2>5, <2>7, <2>8, <2>9, <2>10, <2>11 DEF Edited
<1>4. CASE c \notin {CR, LF, BACKSPACE, TAB}
  <2>1. t = Advance(s)
    BY <1>4 DEF putchar, CR, LF, BACKSPACE, TAB
  <2> QED
    BY <1>4, <2>1, Advanced, AdvancePlaced DEF Edited
<1> QED
  BY <1>1, <1>2, <1>3, <1>4
-----------------------------------------------------------------------------
(* Console: the invariant *)

\* No modifier is ever taken: a make code never sets one.
NoModifier == /\ ctrl = 0 /\ alt = 0 /\ shift = 0
              /\ capslock = 0 /\ numlock = 0 /\ scrolllock = 0

\* Nobody types and no limit is set while the kernel boots, and the limit is set at
\* the start of a row; nothing is drawn between that and the first key.
PhasesInOrder ==
    /\ limit.x = 0
    /\ phase = "booting" => index = 0 /\ limit.y = 0
    /\ phase = "limited" => drawn = {}

CursorPlaced == Placed(cursor.x, cursor.y)

ConsoleIInv == ConsoleTypeOK /\ BufferWritesInside /\ NoModifier /\ PhasesInOrder /\ CursorPlaced

LEMMA ConsoleInitIInv == ASSUME ConsoleInit PROVE ConsoleIInv
<1>1. 0 \in 0..(Word - 1) /\ 0 \in 0..BUFFERSIZE
  BY ConsoleAssumption
<1>2. ConsoleTypeOK
  BY <1>1 DEF ConsoleInit, ConsoleTypeOK, Cursors
<1>3. BufferWritesInside /\ NoModifier /\ PhasesInOrder
  BY ConsoleAssumption DEF ConsoleInit, BufferWritesInside, NoModifier, PhasesInOrder
<1>4. CursorPlaced
  <2>1. cursor.x = 0 /\ cursor.y = 0 /\ limit.y = 0 /\ fb \in Framebuffers
    BY DEF ConsoleInit
  <2>2. OnGrid(0, 0)
    BY <2>1, MultipleZero, Sizes DEF OnGrid
  <2>3. BehindLimit(0)
    <3>1. 0 * charHeight = 0
      BY <2>1, Sizes
    <3> QED
      BY <2>1, <3>1 DEF BehindLimit
  <2> QED
    BY <2>1, <2>2, <2>3 DEF CursorPlaced, Placed
<1> QED
  BY <1>2, <1>3, <1>4 DEF ConsoleIInv

LEMMA PlacedStays ==
    ASSUME NEW x, NEW y, Placed(x, y), UNCHANGED <<fb, limit>>, cursor'.x = x, cursor'.y = y
    PROVE  CursorPlaced'
BY DEF Placed, CursorPlaced, Fits, WholeCells, OnGrid, BehindLimit

LEMMA ScreenTyped == ASSUME ConsoleTypeOK
                     PROVE  /\ Screen \in Screens /\ Screen.x = cursor.x /\ Screen.y = cursor.y
                            /\ Screen.index = index /\ Screen.wrote = {} /\ Screen.drawn = {}
                            /\ Screen.erased = {}
                            /\ fb \in Framebuffers /\ limit.y \in Nat
BY ConsoleAssumption DEF ConsoleTypeOK, Cursors, Screen, Screens, Pixels

LEMMA kprintIInv == ASSUME ConsoleIInv, NEW c \in PrintedChars, kprint(c) PROVE ConsoleIInv'
<1> USE DEF ConsoleIInv
<1>1. PICK s \in Screens : s = Screen
  BY ScreenTyped
<1>2. /\ s.x = cursor.x /\ s.y = cursor.y /\ s.index = 0 /\ s.wrote = {} /\ s.erased = {}
      /\ fb \in Framebuffers /\ limit.y \in Nat /\ limit.x = 0
  BY <1>1, ScreenTyped DEF kprint, PhasesInOrder
<1>3. c \in 0..127 /\ c # BACKSPACE /\ (c \in {CR, LF} => s.y <= Deepest)
  BY <1>2, ConsoleAssumption DEF kprint, NotTooDeep, BACKSPACE
<1>4. PICK t : t = putchar(s, c)
  OBVIOUS
<1>5. /\ t \in Screens /\ (Placed(s.x, s.y) => Placed(t.x, t.y))
      /\ t.wrote = {} /\ t.erased = {} /\ t.index = 0
  <2> HIDE DEF ConsoleIInv
  <2>1. /\ t \in Screens /\ (Placed(s.x, s.y) => Placed(t.x, t.y))
        /\ c # BACKSPACE => t.index = s.index /\ t.wrote = s.wrote /\ t.erased = s.erased
    <3>1. fb \in Framebuffers /\ limit.y \in Nat /\ limit.x = 0
      BY <1>2
    <3>2. c = BACKSPACE => s.index # 0
      BY <1>3
    <3>3. Puttable(s, c)
      BY <1>3, <3>1, <3>2 DEF Puttable
    <3> QED
      BY <1>4, <3>3, PutPlaced
  <2> QED
    BY <1>2, <1>3, <2>1
<1>6. /\ cursor' = [x |-> t.x, y |-> t.y] /\ index' = 0
      /\ wrote' = {} /\ erased' = {} /\ stored' = NoCharacter
      /\ UNCHANGED <<phase, fb, limit, ctrl, alt, shift, locks>> /\ phase = "booting"
  BY <1>1, <1>4, <1>5 DEF kprint, Show
<1>7. ConsoleTypeOK'
  <2>1. cursor' \in Cursors
    <3>1. t.x \in 0..(Word - 1) /\ t.y \in 0..(Word - 1)
      BY <1>5 DEF Screens, Pixels
    <3> QED
      BY <1>6, <3>1 DEF Cursors
  <2>2. index' \in 0..BUFFERSIZE
    BY <1>6, ConsoleAssumption
  <2>3. {ctrl, alt, shift, capslock, numlock, scrolllock}' \subseteq 0..1
    BY <1>6 DEF ConsoleTypeOK, locks
  <2> QED
    BY <1>6, <2>1, <2>2, <2>3 DEF ConsoleTypeOK
<1>8. CursorPlaced'
  BY <1>2, <1>5, <1>6, PlacedStays DEF CursorPlaced
<1>9. BufferWritesInside' /\ NoModifier' /\ PhasesInOrder'
  BY <1>6, ConsoleAssumption DEF BufferWritesInside, NoModifier, PhasesInOrder, locks
<1> QED
  BY <1>7, <1>8, <1>9
LEMMA setlimitIInv == ASSUME ConsoleIInv, setlimit PROVE ConsoleIInv'
<1> USE DEF ConsoleIInv
<1>1. /\ phase = "booting" /\ phase' = "limited"
      /\ limit' = [x |-> 0, y |-> cursor.y \div charHeight]
      /\ cursor' = [x |-> 0, y |-> limit'.y * charHeight]
      /\ wrote' = {} /\ drawn' = {} /\ erased' = {} /\ stored' = NoCharacter
      /\ UNCHANGED <<fb, ctrl, alt, shift, locks, index>>
  BY DEF setlimit
<1>2. /\ fb \in Framebuffers /\ cursor.y \in Pixels /\ cursor.y \in Nat /\ index = 0
      /\ charHeight \in Nat \ {0} /\ charWidth \in Nat \ {0}
  <2>1. fb \in Framebuffers /\ cursor.y \in Pixels /\ index = 0
    BY <1>1 DEF ConsoleTypeOK, Cursors, Pixels, PhasesInOrder
  <2> QED
    BY <2>1, Sizes DEF Pixels
<1>3. PICK q \in Nat : q = cursor.y \div charHeight /\ q * charHeight <= cursor.y /\ q <= cursor.y
  <2>1. PICK q \in Nat : q = cursor.y \div charHeight
    BY <1>2, Division
  <2>2. PICK r \in Nat : r = cursor.y % charHeight
    <3>1. cursor.y % charHeight \in 0..(charHeight - 1)
      BY <1>2, Division
    <3> QED
      BY <1>2, <3>1
  <2>3. cursor.y = charHeight * q + r
    BY <1>2, <2>1, <2>2, Division
  <2>4. charHeight * q = q * charHeight /\ q * charHeight \in Nat /\ q <= q * charHeight
    BY <1>2, SMTT(30)
  <2> QED
    BY <1>2, <2>1, <2>3, <2>4
<1>4. PICK y \in Pixels : y = q * charHeight
  <2>1. PICK y \in Nat : y = q * charHeight
    BY <1>2
  <2>2. y \in Pixels
    BY <1>2, <1>3, <2>1, ConsoleAssumption DEF Pixels
  <2> QED
    BY <2>1, <2>2
<1>5. /\ limit' = [x |-> 0, y |-> q] /\ cursor' = [x |-> 0, y |-> y]
  BY <1>1, <1>3, <1>4
<1>6. ConsoleTypeOK'
  <2>1. 0 \in 0..(Word - 1) /\ q \in 0..(Word - 1) /\ y \in 0..(Word - 1)
    BY <1>2, <1>3, <1>4, ConsoleAssumption DEF Pixels
  <2>2. cursor' \in Cursors /\ limit' \in Cursors
    BY <1>5, <2>1 DEF Cursors
  <2>3. {ctrl, alt, shift, capslock, numlock, scrolllock}' \subseteq 0..1
    BY <1>1 DEF ConsoleTypeOK, locks
  <2> QED
    BY <1>1, <2>2, <2>3 DEF ConsoleTypeOK
<1>7. CursorPlaced'
  <2>1. Multiple(0, charWidth) /\ Multiple(y, charHeight)
    BY <1>2, <1>4, MultipleZero DEF Multiple
  <2>2. fb.width \in Nat
    BY <1>2, Sizes
  <2>3. OnGrid(0, y)'
    BY <1>1, <2>1, <2>2 DEF OnGrid
  <2>4. BehindLimit(y)'
    BY <1>2, <1>4, <1>5 DEF BehindLimit, Pixels
  <2> QED
    BY <1>5, <2>3, <2>4 DEF CursorPlaced, Placed
<1>8. BufferWritesInside' /\ NoModifier' /\ PhasesInOrder'
  BY <1>1, <1>5, ConsoleAssumption DEF BufferWritesInside, NoModifier, PhasesInOrder, locks
<1> QED
  BY <1>6, <1>7, <1>8

LEMMA activateIInv == ASSUME ConsoleIInv, activate_keyboard_processing PROVE ConsoleIInv'
<1> USE DEF ConsoleIInv
<1>1. /\ phase = "limited" /\ phase' = "active"
      /\ UNCHANGED <<fb, cursor, limit, ctrl, alt, shift, locks, index, last>>
  BY DEF activate_keyboard_processing
<1>2. ConsoleTypeOK'
  BY <1>1 DEF ConsoleTypeOK, locks, last
<1>3. CursorPlaced'
  BY <1>1, PlacedStays DEF CursorPlaced
<1>4. BufferWritesInside' /\ NoModifier' /\ PhasesInOrder'
  BY <1>1 DEF BufferWritesInside, NoModifier, PhasesInOrder, locks, last
<1> QED
  BY <1>2, <1>3, <1>4

\* The handler puts c on the screen r, with the buffer's next place taken: then
\* the cursor and the buffer are those of t.
Puts(c, r, t) ==
    /\ r.x = cursor.x /\ r.y = cursor.y /\ r.index = Store + 1
    /\ r.wrote = {} /\ r.drawn = {} /\ r.erased = {}
    /\ t = putchar(r, c) /\ (c \in {CR, LF} => r.y <= Deepest)
    /\ cursor' = [x |-> t.x, y |-> t.y] /\ index' = t.index
    /\ wrote' = t.wrote \union {Store} /\ drawn' = t.drawn /\ erased' = t.erased
    /\ stored' = c /\ UNCHANGED <<ctrl, alt, shift, locks>>

\* What a make code does: a character of seven bits goes into the buffer and to the
\* screen, and no modifier changes.
LEMMA MakePuts ==
    ASSUME ConsoleIInv, NEW k \in Nat, Make(k)
    PROVE  \E c \in 0..127, r \in Screens, t \in Screens : Puts(c, r, t)
<1> USE DEF ConsoleIInv, Puts
<1>1. PICK byte \in 0..255 : byte = k % 256
  BY CutKeys
<1>2. byte \notin Modifiers
  BY <1>1, CutKeys
<1>3. PICK c \in 0..127 : c = IF byte \in Modifiers \/ byte > 127 THEN 0 ELSE keycode_to_ascii(byte)
  <2>1. CASE byte > 127
    BY <2>1
  <2>2. CASE ~(byte > 127)
    <3>1. keycode_to_ascii(byte) = byte /\ byte \in 0..127
      BY <2>2, Unshifted DEF NoModifier
    <3> QED
      BY <1>2, <2>2, <3>1
  <2> QED
    BY <2>1, <2>2
<1>4. index \in 0..BUFFERSIZE /\ BUFFERSIZE \in Nat \ {0} /\ limit.x = 0
  BY ConsoleAssumption DEF ConsoleTypeOK, PhasesInOrder
<1>5. PICK i \in 1..BUFFERSIZE : i = Store + 1
  BY <1>4 DEF Store
<1>6. PICK r : r = [Screen EXCEPT !.index = i]
  OBVIOUS
<1>7. /\ r \in Screens /\ r.x = cursor.x /\ r.y = cursor.y /\ r.index = i
      /\ r.wrote = {} /\ r.drawn = {} /\ r.erased = {}
      /\ fb \in Framebuffers /\ limit.y \in Nat
  BY <1>4, <1>6, ScreenTyped DEF Screens
<1>8. PICK t : t = putchar(r, c)
  OBVIOUS
<1>9. /\ NotTooDeep(c) /\ stored' = c
      /\ ctrl' = IF byte \in {KEY_LCTRL, KEY_RCTRL} THEN 1 ELSE ctrl
      /\ alt' = IF byte \in {KEY_LALT, KEY_RALT} THEN 1 ELSE alt
      /\ shift' = IF byte \in {KEY_LSHIFT, KEY_RSHIFT} THEN 1 ELSE shift
      /\ capslock' = IF byte = KEY_CAPSLOCK THEN 1 - capslock ELSE capslock
      /\ numlock' = IF byte = KEY_KP_NUMLOCK THEN 1 - numlock ELSE numlock
      /\ scrolllock' = IF byte = KEY_SCROLLLOCK THEN 1 - scrolllock ELSE scrolllock
      /\ Show([t EXCEPT !.wrote = @ \union {Store}])
  BY <1>1, <1>3, <1>5, <1>6, <1>8 DEF Make, Modifiers
<1>10. UNCHANGED <<ctrl, alt, shift, locks>>
  BY <1>2, <1>9 DEF Modifiers, locks
<1>11. c \in {CR, LF} => r.y <= Deepest
  BY <1>7, <1>9 DEF NotTooDeep
<1>12. t \in Screens
  <2>1. r.index # 0
    BY <1>7
  <2> QED
    <3>1. Puttable(r, c)
      BY <1>4, <1>7, <1>11, <2>1 DEF Puttable
    <3> QED
      BY <1>8, <3>1, PutPlaced
<1>13. PICK u : u = [t EXCEPT !.wrote = @ \union {Store}]
  OBVIOUS
<1>14. /\ u.x = t.x /\ u.y = t.y /\ u.index = t.index /\ u.wrote = t.wrote \union {Store}
       /\ u.drawn = t.drawn /\ u.erased = t.erased
  BY <1>12, <1>13 DEF Screens
<1>15. /\ cursor' = [x |-> t.x, y |-> t.y] /\ index' = t.index
       /\ wrote' = t.wrote \union {Store} /\ drawn' = t.drawn /\ erased' = t.erased
  BY <1>9, <1>13, <1>14 DEF Show
<1> QED
  BY <1>5, <1>7, <1>8, <1>9, <1>10, <1>11, <1>12, <1>15
LEMMA MakeIInv ==
    ASSUME ConsoleIInv, NEW k \in Nat, Make(k), UNCHANGED <<phase, fb, limit>>, phase = "active"
    PROVE  ConsoleIInv'
<1> USE DEF ConsoleIInv, Puts
<1>1. PICK c \in 0..127, r \in Screens, t \in Screens : Puts(c, r, t)
  BY MakePuts
<1>2. /\ index \in 0..BUFFERSIZE /\ BUFFERSIZE \in Nat \ {0} /\ limit.x = 0
      /\ fb \in Framebuffers /\ limit.y \in Nat
  BY ConsoleAssumption, ScreenTyped DEF ConsoleTypeOK, PhasesInOrder
<1>3. Store \in 0..(BUFFERSIZE - 1)
  BY <1>2 DEF Store
<1>4. /\ Placed(r.x, r.y) => Placed(t.x, t.y)
      /\ \/ t.wrote = {} /\ t.erased = {}
         \/ t.wrote = {r.index} /\ t.erased = {<<t.x, t.y>>}
  <2>1. r.index # 0
    BY <1>1, <1>3
  <2>2. Puttable(r, c) /\ t = putchar(r, c)
    BY <1>1, <1>2, <2>1 DEF Puttable
  <2>3. (Placed(r.x, r.y) => Placed(t.x, t.y)) /\ Edited(r, t)
    BY <2>2, PutPlaced
  <2> QED
    BY <1>1, <2>3 DEF Edited
<1>5. ConsoleTypeOK'
  <2>1. cursor' \in Cursors /\ index' \in 0..BUFFERSIZE
    BY <1>1 DEF Cursors, Screens, Pixels
  <2>2. {ctrl, alt, shift, capslock, numlock, scrolllock}' \subseteq 0..1
    BY <1>1 DEF ConsoleTypeOK, locks
  <2>3. stored' \in 0..127 \union {NoCharacter}
    BY <1>1
  <2> QED
    BY <2>1, <2>2, <2>3 DEF ConsoleTypeOK
<1>6. CursorPlaced'
  BY <1>1, <1>4, PlacedStays DEF CursorPlaced
<1>7. BufferWritesInside'
  <2>1. wrote' \subseteq {Store, Store + 1}
    BY <1>1, <1>4
  <2>2. CASE t.wrote = {}
    <3>1. wrote' = {Store}
      BY <1>1, <2>2
    <3> QED
      BY <1>2, <1>3, <3>1 DEF BufferWritesInside
  <2>3. CASE t.erased = {<<t.x, t.y>>}
    <3>1. erased' # {}
      BY <1>1, <2>3
    <3> QED
      BY <1>2, <1>3, <2>1, <3>1 DEF BufferWritesInside
  <2> QED
    BY <1>4, <2>2, <2>3
<1>8. NoModifier' /\ PhasesInOrder'
  BY <1>1, <1>2 DEF NoModifier, PhasesInOrder, locks
<1> QED
  BY <1>5, <1>6, <1>7, <1>8

LEMMA BreakIInv == ASSUME ConsoleIInv, NEW k, Break(k), UNCHANGED <<phase, fb, limit>>
                   PROVE  ConsoleIInv'
<1> USE DEF ConsoleIInv
<1>1. /\ UNCHANGED <<phase, fb, limit, cursor, index, locks>> /\ stored' = NoCharacter
      /\ wrote' = {} /\ drawn' = {} /\ erased' = {}
      /\ ctrl' \in {0, ctrl} /\ alt' \in {0, alt} /\ shift' \in {0, shift}
  BY DEF Break
<1>2. ConsoleTypeOK'
  BY <1>1 DEF ConsoleTypeOK, locks
<1>3. CursorPlaced'
  BY <1>1, PlacedStays DEF CursorPlaced
<1>4. BufferWritesInside' /\ NoModifier' /\ PhasesInOrder'
  BY <1>1, ConsoleAssumption DEF BufferWritesInside, NoModifier, PhasesInOrder, locks
<1> QED
  BY <1>2, <1>3, <1>4

\* A byte that comes before the keyboard is active is read and dropped.
LEMMA DroppedIInv ==
    ASSUME ConsoleIInv, stored' = NoCharacter, wrote' = {}, drawn' = {}, erased' = {},
           UNCHANGED <<phase, fb, limit, cursor, ctrl, alt, shift, locks, index>>
    PROVE  ConsoleIInv'
<1> USE DEF ConsoleIInv
<1>1. ConsoleTypeOK'
  BY DEF ConsoleTypeOK, locks
<1>2. CursorPlaced'
  BY PlacedStays DEF CursorPlaced
<1>3. BufferWritesInside' /\ NoModifier' /\ PhasesInOrder'
  BY ConsoleAssumption DEF BufferWritesInside, NoModifier, PhasesInOrder, locks
<1> QED
  BY <1>1, <1>2, <1>3

\* What the handler does with a byte, by cases.
LEMMA Handled ==
    ASSUME NEW byte \in ScanCodes, HandleScanCode(byte)
    PROVE  /\ UNCHANGED <<phase, fb, limit>>
           /\ \/ /\ phase # "active" /\ stored' = NoCharacter
                 /\ wrote' = {} /\ drawn' = {} /\ erased' = {}
                 /\ UNCHANGED <<cursor, ctrl, alt, shift, locks, index>>
              \/ phase = "active" /\ \E k \in Nat : Break(k) \/ Make(k)
<1>1. UNCHANGED <<phase, fb, limit>>
  BY DEF HandleScanCode
<1>2. CASE phase # "active"
  BY <1>1, <1>2 DEF HandleScanCode
<1>3. CASE phase = "active"
  <2>1. byte \in 0..255
    BY ConsoleAssumption
  <2>2. CASE byte >= 128
    <3>1. PICK code \in 0..127 : code = byte - 128
      BY <2>1, <2>2
    <3>2. PICK k \in Lookup(code) : Break(k)
      BY <1>3, <2>1, <2>2, <3>1 DEF HandleScanCode
    <3>3. k \in Nat
      BY <3>1, KeysAreNumbers
    <3> QED
      BY <1>1, <1>3, <3>2, <3>3
  <2>3. CASE byte < 128
    <3>1. PICK k \in Lookup(byte) : Make(k)
      BY <1>3, <2>1, <2>3 DEF HandleScanCode
    <3>2. k \in Nat
      BY <2>1, <2>3, KeysAreNumbers
    <3> QED
      BY <1>1, <1>3, <3>1, <3>2
  <2> QED
    BY <2>1, <2>2, <2>3
<1> QED
  BY <1>2, <1>3

LEMMA ConsoleNextIInv == ASSUME ConsoleIInv, [ConsoleNext]_consoleVars PROVE ConsoleIInv'
<1>1. ASSUME NEW c \in PrintedChars, kprint(c) PROVE ConsoleIInv'
  BY <1>1, kprintIInv
<1>2. CASE setlimit
  BY <1>2, setlimitIInv
<1>3. CASE activate_keyboard_processing
  BY <1>3, activateIInv
<1>4. ASSUME NEW byte \in ScanCodes, HandleScanCode(byte) PROVE ConsoleIInv'
  <2>1. UNCHANGED <<phase, fb, limit>>
    BY <1>4, Handled
  <2>2. CASE /\ stored' = NoCharacter /\ wrote' = {} /\ drawn' = {} /\ erased' = {}
             /\ UNCHANGED <<cursor, ctrl, alt, shift, locks, index>>
    BY <2>1, <2>2, DroppedIInv
  <2>3. ASSUME phase = "active", NEW k \in Nat, Break(k) \/ Make(k) PROVE ConsoleIInv'
    BY <2>1, <2>3, BreakIInv, MakeIInv
  <2> QED
    BY <1>4, <2>2, <2>3, Handled
<1>5. CASE UNCHANGED consoleVars
  <2>1. ConsoleTypeOK'
    BY <1>5 DEF ConsoleIInv, ConsoleTypeOK, consoleVars, locks, last
  <2>2. CursorPlaced'
    BY <1>5, PlacedStays DEF ConsoleIInv, CursorPlaced, consoleVars
  <2>3. BufferWritesInside' /\ NoModifier' /\ PhasesInOrder'
    BY <1>5 DEF ConsoleIInv, BufferWritesInside, NoModifier, PhasesInOrder, consoleVars,
                locks, last
  <2> QED
    BY <2>1, <2>2, <2>3 DEF ConsoleIInv
<1> QED
  BY <1>1, <1>2, <1>3, <1>4, <1>5 DEF ConsoleNext

\* The invariant of keyboard.cpp's handler and of gfxmode::putchar.
THEOREM ConsoleInductive == ConsoleSpec => []ConsoleIInv
<1>1. ConsoleInit => ConsoleIInv
  BY ConsoleInitIInv
<1>2. ConsoleIInv /\ [ConsoleNext]_consoleVars => ConsoleIInv'
  BY ConsoleNextIInv
<1> QED
  BY <1>1, <1>2, PTL DEF ConsoleSpec

\* No key ever sets Shift, Ctrl, Alt or a lock: keyboard_irq_handler compares their
\* codes, of more than eight bits, with a byte.
THEOREM NoModifierTaken == ConsoleSpec => []NoModifier
<1>1. ConsoleIInv => NoModifier
  BY DEF ConsoleIInv
<1> QED
  BY <1>1, ConsoleInductive, PTL

LEMMA ConsoleInvFollows == ASSUME ConsoleIInv PROVE ConsoleInv
<1>1. CursorBehindLimit
  BY DEF ConsoleIInv, CursorPlaced, Placed, OnGrid, BehindLimit, CursorBehindLimit
<1> QED
  BY <1>1 DEF ConsoleIInv, ConsoleInv

\* Whatever is typed, the handler and putchar write inside the line buffer (but for
\* the blank behind a full one), and Backspace never goes in front of the limit.
THEOREM CursorAndBufferKept == ConsoleSpec => []ConsoleInv
<1>1. ConsoleIInv => ConsoleInv
  BY ConsoleInvFollows
<1> QED
  BY <1>1, ConsoleInductive, PTL
-----------------------------------------------------------------------------
(* Console: erasing stays on the screen *)

\* A backspace erases the cell in front of the cursor, which is seen.
LEMMA ErasesOnScreen ==
    ASSUME NEW s \in Screens, s.index # 0, s.erased = {}, fb \in Framebuffers, limit.y \in Nat,
           limit.x = 0, Fits, Placed(s.x, s.y),
           s.y < fb.height \/ (s.y = fb.height /\ s.x = 0),
           NEW t, t = Backspace(s), NEW cell \in t.erased
    PROVE  OnScreen(cell)
<1>1. ~AtLimit(s)
  BY DEF Backspace
<1>2. s.x \in Pixels /\ s.y \in Pixels /\ s.x \in Nat /\ s.y \in Nat
  BY Sizes DEF Screens, Pixels
<1>3. PICK x \in Pixels : x = ColumnBack(s)
  BY <1>2, Sizes, WordMod DEF ColumnBack, Pixels
<1>4. PICK y \in Pixels : y = RowBack(s)
  BY <1>2, Sizes, WordMod DEF RowBack, Pixels
<1>5. t = EraseAt(s, x, y)
  BY <1>1, <1>3, <1>4 DEF Backspace
<1>6. cell = <<x, y>>
  BY <1>5, ErasedAt
<1>7. OnGrid(s.x, s.y) /\ BehindLimit(s.y)
  BY DEF Placed
<1>8. x + charWidth <= fb.width /\ y = IF s.x = 0 THEN s.y - charHeight ELSE s.y
  BY <1>1, <1>3, <1>4, <1>7, CellBack
<1>9. y + charHeight <= fb.height
  <2>1. CASE s.x = 0
    BY <1>2, <1>8, <2>1, Sizes
  <2>2. CASE s.x # 0
    <3>1. Multiple(s.y, charHeight) /\ Multiple(fb.height, charHeight) /\ s.y < fb.height
      BY <1>7, <2>2, WholeScreen DEF OnGrid, Fits
    <3>2. s.y + charHeight <= fb.height
      BY <3>1, MultipleGap, Sizes
    <3> QED
      BY <1>8, <2>2, <3>2
  <2> QED
    BY <2>1, <2>2
<1> QED
  BY <1>6, <1>8, <1>9 DEF OnScreen

\* Only a key erases.
LEMMA StepErasesOnScreen ==
    ASSUME ConsoleIInv, ConsoleNext, phase = "active", Fits,
           cursor.y < fb.height \/ (cursor.y = fb.height /\ cursor.x = 0),
           NEW cell \in erased'
    PROVE  OnScreen(cell)
<1>1. PICK byte \in ScanCodes : HandleScanCode(byte)
  BY DEF ConsoleNext, kprint, setlimit, activate_keyboard_processing
<1>2. PICK k \in Nat : Make(k)
  <2>1. PICK k \in Nat : Break(k) \/ Make(k)
    BY <1>1, Handled
  <2>2. ~Break(k)
    BY DEF Break
  <2> QED
    BY <2>1, <2>2
<1>3. PICK c \in 0..127, r \in Screens, t \in Screens : Puts(c, r, t)
  BY <1>2, MakePuts
<1>4. /\ fb \in Framebuffers /\ limit.y \in Nat /\ limit.x = 0 /\ Placed(r.x, r.y)
      /\ r.index # 0
  <2>1. fb \in Framebuffers /\ limit.y \in Nat /\ limit.x = 0 /\ index \in 0..BUFFERSIZE
    BY ScreenTyped DEF ConsoleIInv, ConsoleTypeOK, PhasesInOrder
  <2>2. r.index # 0
    BY <1>3, <2>1, ConsoleAssumption DEF Store, Puts
  <2> QED
    BY <1>3, <2>1, <2>2 DEF ConsoleIInv, CursorPlaced, Puts
<1>5. c = BACKSPACE
  <2>1. (c \in {CR, LF} => r.y <= Deepest) /\ t = putchar(r, c)
    BY <1>3 DEF Puts
  <2>2. c # BACKSPACE => t.erased = r.erased
    <3>1. Puttable(r, c)
      BY <1>4, <2>1 DEF Puttable
    <3>2. c # BACKSPACE => t.index = r.index /\ t.wrote = r.wrote /\ t.erased = r.erased
      BY <2>1, <3>1, PutPlaced
    <3> QED
      BY <3>2
  <2> QED
    BY <1>3, <2>2 DEF Puts
<1>6. t = Backspace(r)
  BY <1>3, <1>5, PutBackspace DEF Puts
<1> QED
  BY <1>3, <1>4, <1>6, ErasesOnScreen DEF Puts

\* BackspaceDrawOver, which checks nothing, writes inside the framebuffer, for every
\* screen of whole cells and from every cell of it.
THEOREM ErasingStaysOnScreen == ConsoleSpec => EraseOnScreen
<1>1. ConsoleIInv /\ [ConsoleNext]_consoleVars =>
        [/\ phase = "active" /\ Fits
         /\ (cursor.y < fb.height \/ (cursor.y = fb.height /\ cursor.x = 0))
         => \A cell \in erased' : OnScreen(cell)]_consoleVars
  BY StepErasesOnScreen
<1> QED
  BY <1>1, ConsoleInductive, PTL DEF ConsoleSpec, EraseOnScreen
-----------------------------------------------------------------------------
(* Console: what is drawn is seen *)

\* A character put at <<x, y>>, drawn in a cell, with the cursor left at
\* <<nextX, nextY>>: what EchoVisible says of it.
Seen(x, y, nextX, nextY, cell) ==
    /\ OnScreen(cell) \/ (x >= fb.width /\ (y % Short) + charHeight >= fb.height)
    /\ cell = <<nextX - charWidth, nextY>> \/ y >= Short

\* A cell that is drawn is seen, unless it wraps from the last row; and it is the
\* one the cursor passes, unless the row of the cursor is cut.
LEMMA CellSeen ==
    ASSUME NEW s \in Screens, fb \in Framebuffers, limit.y \in Nat, Fits, Placed(s.x, s.y)
    PROVE  Seen(s.x, s.y, Advance(s).x, Advance(s).y, CellOf(s))
<1>1. s.x \in Nat /\ s.y \in Nat /\ Short \in Nat \ {0}
  BY Sizes, ConsoleAssumption DEF Screens, Pixels
<1>2. Multiple(s.x, charWidth) /\ Multiple(s.y, charHeight) /\ s.x <= fb.width
  BY DEF Placed, OnGrid
<1>3. Multiple(fb.width, charWidth) /\ Multiple(fb.height, charHeight)
  BY WholeScreen DEF Fits
<1>4. CASE PastEdge(s.y, fb.height)
  <2>1. CellOf(s) = <<0, fb.height - charHeight>> /\ CursorAt(s) = <<0, fb.height - charHeight>>
    BY <1>4 DEF CellOf, CursorAt
  <2>2. Advance(s).x = 0 + charWidth /\ Advance(s).y = fb.height - charHeight
    BY <2>1, Advanced
  <2>3. OnScreen(CellOf(s))
    BY <2>1, Sizes DEF OnScreen
  <2>4. CellOf(s) = <<Advance(s).x - charWidth, Advance(s).y>>
    BY <2>1, <2>2, Sizes
  <2> QED
    BY <2>3, <2>4 DEF Seen
<1>5. s.x < Short \div 2 /\ Int16(s.x) = s.x
  BY <1>1, <1>2, ShortStays, Sizes
<1>6. ASSUME ~PastEdge(s.y, fb.height)
      PROVE  /\ Int16(s.y) \in 0..(fb.height - 1) /\ Int16(s.y) = s.y % Short
             /\ Multiple(Int16(s.y), charHeight)
             /\ Int16(s.y) = s.y \/ s.y >= Short
  <2>1. /\ Int16(s.y) \in 0..(fb.height - 1) /\ Int16(s.y) = s.y % Short
        /\ \E q \in Nat : s.y = Short * q + Int16(s.y)
    BY <1>6, InFront
  <2>2. PICK q \in Nat : s.y = Short * q + Int16(s.y)
    BY <2>1
  <2>3. PICK c \in Nat : c = Int16(s.y)
    BY <2>1, Sizes
  <2>4. Multiple(c, charHeight)
    BY <1>1, <1>2, <2>2, <2>3, CutMultiple
  <2>5. s.y < Short => s.y % Short = s.y
    BY <1>1
  <2> QED
    BY <1>1, <2>1, <2>3, <2>4, <2>5
<1>7. CASE ~PastEdge(s.y, fb.height) /\ PastEdge(s.x, fb.width)
  <2>1. PICK c \in Nat : c = Int16(s.y) /\ c = s.y % Short /\ Multiple(c, charHeight)
                         /\ c < fb.height /\ (c = s.y \/ s.y >= Short)
    BY <1>6, <1>7, Sizes
  <2>2. s.x >= fb.width
    BY <1>1, <1>5, <1>7, Sizes DEF PastEdge
  <2>3. PICK y \in Nat : y = c + charHeight
    BY Sizes
  <2>4. CellOf(s) = <<0, y>> /\ CursorAt(s) = <<0, s.y + charHeight>>
    BY <1>7, <2>1, <2>3 DEF CellOf, CursorAt
  <2>5. ASSUME y < fb.height PROVE OnScreen(CellOf(s))
    <3>1. Multiple(y, charHeight)
      BY <2>1, <2>3, MultipleUp, Sizes
    <3>2. y + charHeight <= fb.height
      BY <1>3, <2>5, <3>1, MultipleGap, Sizes
    <3>3. CellOf(s)[1] = 0 /\ CellOf(s)[2] = y
      BY <2>4
    <3> QED
      BY <3>2, <3>3, Sizes DEF OnScreen
  <2>6. OnScreen(CellOf(s)) \/ (s.x >= fb.width /\ (s.y % Short) + charHeight >= fb.height)
    <3>1. CASE y < fb.height
      BY <2>5, <3>1
    <3>2. CASE y >= fb.height
      <4>1. (s.y % Short) + charHeight >= fb.height
        BY <2>1, <2>3, <3>2
      <4> QED
        BY <2>2, <4>1
    <3> QED
      BY <2>3, <3>1, <3>2, Sizes
  <2>7. Advance(s).x = 0 + charWidth /\ Advance(s).y = s.y + charHeight
    BY <2>4, Advanced
  <2>8. CellOf(s) = <<Advance(s).x - charWidth, Advance(s).y>> \/ s.y >= Short
    BY <2>1, <2>3, <2>4, <2>7, Sizes
  <2> QED
    BY <2>6, <2>8 DEF Seen
<1>8. CASE ~PastEdge(s.y, fb.height) /\ ~PastEdge(s.x, fb.width)
  <2>1. PICK c \in Nat : c = Int16(s.y) /\ Multiple(c, charHeight) /\ c < fb.height
                         /\ (c = s.y \/ s.y >= Short)
    BY <1>6, <1>8, Sizes
  <2>2. s.x < fb.width
    BY <1>1, <1>5, <1>8, Sizes DEF PastEdge
  <2>3. CellOf(s) = <<s.x, c>> /\ CursorAt(s) = <<s.x, s.y>>
    BY <1>5, <1>8, <2>1 DEF CellOf, CursorAt
  <2>4. s.x + charWidth <= fb.width /\ c + charHeight <= fb.height
    BY <1>1, <1>2, <1>3, <2>1, <2>2, MultipleGap, Sizes
  <2>5. Advance(s).x = s.x + charWidth /\ Advance(s).y = s.y
    BY <2>3, Advanced
  <2>6. CellOf(s) = <<Advance(s).x - charWidth, Advance(s).y>> \/ s.y >= Short
    BY <1>1, <2>1, <2>3, <2>5, Sizes
  <2>7. OnScreen(CellOf(s))
    BY <2>3, <2>4 DEF OnScreen
  <2> QED
    BY <2>6, <2>7 DEF Seen
<1> QED
  BY <1>4, <1>7, <1>8

\* Two blanks in a row never share a cell.
LEMMA NextCellDiffers ==
    ASSUME NEW s \in Screens, fb \in Framebuffers, NEW a \in Screens, a = Advance(s)
    PROVE  CellOf(a) # CellOf(s)
<1>1. PICK x \in Nat, y \in Nat :
          CellOf(s) = <<x, y>> /\ Int16(a.x) = x + charWidth /\ Int16(a.y) = y
  <2>1. CASE PastEdge(s.y, fb.height)
    <3>1. PICK y \in Nat : y = fb.height - charHeight
      BY Sizes
    <3>2. CellOf(s) = <<0, y>> /\ CursorAt(s) = <<0, y>>
      BY <2>1, <3>1 DEF CellOf, CursorAt
    <3>3. a.x = 0 + charWidth /\ a.y = y
      BY <3>2, Advanced
    <3>4. charWidth \in Nat /\ charWidth < Short \div 2 /\ y < Short \div 2
      BY <3>1, Sizes, ShortInWord
    <3>5. Int16(charWidth) = charWidth /\ Int16(y) = y
      BY <3>4, ShortStays
    <3>6. Int16(a.x) = 0 + charWidth /\ Int16(a.y) = y
      BY <3>3, <3>4, <3>5
    <3> QED
      BY <3>2, <3>6
  <2>2. CASE ~PastEdge(s.y, fb.height) /\ PastEdge(s.x, fb.width)
    <3>1. PICK y \in Nat : y = Int16(s.y) + charHeight /\ Int16(s.y + charHeight) = y
      BY <2>2, InFront, Sizes
    <3>2. CellOf(s) = <<0, y>> /\ CursorAt(s) = <<0, s.y + charHeight>>
      BY <2>2, <3>1 DEF CellOf, CursorAt
    <3>3. a.x = 0 + charWidth /\ a.y = s.y + charHeight
      BY <3>2, Advanced
    <3>4. charWidth \in Nat /\ charWidth < Short \div 2
      BY Sizes, ShortInWord
    <3>5. Int16(charWidth) = charWidth
      BY <3>4, ShortStays
    <3>6. Int16(a.x) = 0 + charWidth /\ Int16(a.y) = y
      BY <3>1, <3>3, <3>4, <3>5
    <3> QED
      BY <3>2, <3>6
  <2>3. CASE ~PastEdge(s.y, fb.height) /\ ~PastEdge(s.x, fb.width)
    <3>1. PICK x \in Nat, y \in Nat : /\ x = Int16(s.x) /\ y = Int16(s.y)
                                      /\ Int16(s.x + charWidth) = x + charWidth
      BY <2>3, InFront, Sizes
    <3>2. CellOf(s) = <<x, y>> /\ CursorAt(s) = <<s.x, s.y>>
      BY <2>3, <3>1 DEF CellOf, CursorAt
    <3>3. a.x = s.x + charWidth /\ a.y = s.y
      BY <3>2, Advanced
    <3> QED
      BY <3>1, <3>2, <3>3
  <2> QED
    BY <2>1, <2>2, <2>3
<1>2. /\ PastEdge(a.y, fb.height) <=> y >= fb.height
      /\ PastEdge(a.x, fb.width) <=> x + charWidth >= fb.width
  BY <1>1, Sizes DEF PastEdge
<1>4. CASE y >= fb.height
  <2>1. CellOf(a) = <<0, fb.height - charHeight>>
    BY <1>2, <1>4 DEF CellOf
  <2> QED
    BY <1>1, <1>4, <2>1, Sizes
<1>5. CASE ~(y >= fb.height) /\ x + charWidth >= fb.width
  <2>1. CellOf(a) = <<0, y + charHeight>>
    BY <1>1, <1>2, <1>5 DEF CellOf
  <2> QED
    BY <1>1, <2>1, Sizes
<1>6. CASE ~(y >= fb.height) /\ ~(x + charWidth >= fb.width)
  <2>1. CellOf(a) = <<x + charWidth, y>>
    BY <1>1, <1>2, <1>6 DEF CellOf
  <2> QED
    BY <1>1, <2>1, Sizes
<1> QED
  BY <1>4, <1>5, <1>6
\* A tab draws more than one cell.
LEMMA TabDrawsMany ==
    ASSUME NEW s \in Screens, s.drawn = {}, fb \in Framebuffers, NEW t, t = putchar(s, TAB)
    PROVE  Cardinality(t.drawn) # 1
<1>1. PICK a \in Screens : a = Advance(s)
  BY Advanced
<1>2. PICK b \in Screens : b = Advance(a)
  BY Advanced
<1>3. PICK d \in Screens : d = Advance(b)
  BY Advanced
<1>4. PICK e \in Screens : e = Advance(d)
  BY Advanced
<1>5. t = Advance(e)
  BY <1>1, <1>2, <1>3, <1>4 DEF putchar, CR, LF, BACKSPACE, TAB
<1>6. a.drawn = {CellOf(s)}
  BY <1>1, Advanced
<1>7. b.drawn = a.drawn \union {CellOf(a)} /\ d.drawn = b.drawn \union {CellOf(b)}
      /\ e.drawn = d.drawn \union {CellOf(d)} /\ t.drawn = e.drawn \union {CellOf(e)}
  BY <1>2, <1>3, <1>4, <1>5, Advanced
<1>8. IsFiniteSet(a.drawn)
  BY <1>6, FS_Singleton
<1>9. IsFiniteSet(b.drawn)
  BY <1>7, <1>8, FS_AddElement
<1>10. IsFiniteSet(d.drawn)
  BY <1>7, <1>9, FS_AddElement
<1>11. IsFiniteSet(e.drawn)
  BY <1>7, <1>10, FS_AddElement
<1>12. IsFiniteSet(t.drawn)
  BY <1>7, <1>11, FS_AddElement
<1>13. CellOf(s) \in t.drawn /\ CellOf(a) \in t.drawn /\ CellOf(a) # CellOf(s)
  BY <1>1, <1>6, <1>7, NextCellDiffers
<1> QED
  <2>1. ASSUME NEW z, t.drawn = {z} PROVE FALSE
    BY <1>13, <2>1
  <2> QED
    BY <1>12, <2>1, FS_Singleton

\* So is the cell of every character that draws one alone.
LEMMA PutSeen ==
    ASSUME NEW s \in Screens, s.drawn = {}, NEW c \in 0..127, fb \in Framebuffers, limit.y \in Nat,
           limit.x = 0, Fits, Placed(s.x, s.y),
           c \in {CR, LF} => s.y <= Deepest, c = BACKSPACE => s.index # 0,
           NEW t, t = putchar(s, c), Cardinality(t.drawn) = 1
    PROVE  \A cell \in t.drawn : Seen(s.x, s.y, t.x, t.y, cell)
<1>1. CASE c \in {CR, LF}
  <2>1. t = NewLine(s)
    BY <1>1, PutNewLine
  <2>2. t.drawn = {}
    BY <1>1, <2>1, NewLinePlaced
  <2> QED
    BY <2>2
<1>2. CASE c = BACKSPACE
  <2>1. t = Backspace(s)
    BY <1>2, PutBackspace
  <2>2. t.drawn = {}
    BY <1>2, <2>1, BackspacePlaced
  <2> QED
    BY <2>2
<1>3. CASE c = TAB
  BY <1>3, TabDrawsMany
<1>4. CASE c \notin {CR, LF, BACKSPACE, TAB}
  <2>1. t = Advance(s)
    BY <1>4 DEF putchar, CR, LF, BACKSPACE, TAB
  <2>2. t.drawn = {CellOf(s)}
    BY <2>1, Advanced
  <2>3. Seen(s.x, s.y, t.x, t.y, CellOf(s))
    BY <2>1, CellSeen
  <2> QED
    BY <2>2, <2>3
<1> QED
  BY <1>1, <1>2, <1>3, <1>4

LEMMA StepSeen ==
    ASSUME ConsoleIInv, ConsoleNext, Fits, Cardinality(drawn') = 1
    PROVE  \A cell \in drawn' : Seen(cursor.x, cursor.y, cursor'.x, cursor'.y, cell)
<1> USE DEF Puts
<1>1. /\ fb \in Framebuffers /\ limit.y \in Nat /\ limit.x = 0 /\ Placed(cursor.x, cursor.y)
      /\ index \in 0..BUFFERSIZE /\ BUFFERSIZE \in Nat \ {0}
  BY ScreenTyped, ConsoleAssumption DEF ConsoleIInv, ConsoleTypeOK, PhasesInOrder, CursorPlaced
<1>2. drawn' # {}
  BY FS_EmptySet
<1>3. ASSUME NEW c \in PrintedChars, kprint(c)
      PROVE  \A cell \in drawn' : Seen(cursor.x, cursor.y, cursor'.x, cursor'.y, cell)
  <2>1. PICK s \in Screens : /\ s = Screen /\ s.x = cursor.x /\ s.y = cursor.y /\ s.drawn = {}
    BY ScreenTyped DEF ConsoleIInv
  <2>2. c \in 0..127 /\ c # BACKSPACE /\ (c \in {CR, LF} => s.y <= Deepest)
    BY <1>3, <2>1, ConsoleAssumption DEF kprint, NotTooDeep, BACKSPACE
  <2>3. PICK t : t = putchar(s, c)
    OBVIOUS
  <2>4. drawn' = t.drawn /\ cursor'.x = t.x /\ cursor'.y = t.y
    BY <1>3, <2>1, <2>3 DEF kprint, Show
  <2>5. Cardinality(t.drawn) = 1
    BY <2>4
  <2>6. \A cell \in t.drawn : Seen(s.x, s.y, t.x, t.y, cell)
    BY <1>1, <2>1, <2>2, <2>3, <2>5, PutSeen
  <2> QED
    BY <2>1, <2>4, <2>6
<1>4. CASE setlimit
  BY <1>2, <1>4 DEF setlimit
<1>5. CASE activate_keyboard_processing
  BY <1>2, <1>5 DEF activate_keyboard_processing, last, ConsoleIInv, PhasesInOrder
<1>6. ASSUME NEW byte \in ScanCodes, HandleScanCode(byte)
      PROVE  \A cell \in drawn' : Seen(cursor.x, cursor.y, cursor'.x, cursor'.y, cell)
  <2>1. PICK k \in Nat : Make(k)
    <3>1. PICK k \in Nat : Break(k) \/ Make(k)
      BY <1>2, <1>6, Handled
    <3>2. ~Break(k)
      BY <1>2 DEF Break
    <3> QED
      BY <3>1, <3>2
  <2>2. PICK c \in 0..127, r \in Screens, t \in Screens : Puts(c, r, t)
    BY <2>1, MakePuts
  <2>3. r.index # 0
    BY <1>1, <2>2 DEF Store
  <2>4. Cardinality(t.drawn) = 1 /\ Placed(r.x, r.y)
    BY <1>1, <2>2
  <2>5. \A cell \in t.drawn : Seen(r.x, r.y, t.x, t.y, cell)
    BY <1>1, <2>2, <2>3, <2>4, PutSeen
  <2> QED
    BY <2>2, <2>5
<1> QED
  BY <1>3, <1>4, <1>5, <1>6 DEF ConsoleNext

\* putcharonTerm draws every character on the screen and where the cursor passes,
\* but for the one that wraps from the end of the last row and for rows that an
\* int16_t cuts.
THEOREM EchoIsVisible == ConsoleSpec => EchoVisible
<1>1. ConsoleIInv /\ [ConsoleNext]_consoleVars =>
        [Fits /\ Cardinality(drawn') = 1 =>
          \A cell \in drawn' :
              /\ \/ OnScreen(cell)
                 \/ /\ cursor.x >= fb.width
                    /\ (cursor.y % Short) + charHeight >= fb.height
              /\ \/ cell = <<cursor'.x - charWidth, cursor'.y>>
                 \/ cursor.y >= Short]_consoleVars
  BY StepSeen DEF Seen
<1> QED
  BY <1>1, ConsoleInductive, PTL DEF ConsoleSpec, EchoVisible
=============================================================================
