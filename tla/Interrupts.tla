------------------------------ MODULE Interrupts ------------------------------
(***************************************************************************)
(* Interrupts from interrupts_init to the idle loop: the IDT and the       *)
(* dispatch (cpu/isr/isr.cpp), the interrupt controller (cpu/pic/pic.cpp), *)
(* the timer (drivers/pit.cpp) with the one Sleep_pit that boot may do     *)
(* (time/time.cpp), and what drivers/keyboard.cpp does to the keyboard     *)
(* controller.  What becomes of a scan code is the matter of Console.      *)
(*                                                                         *)
(* The processor runs the boot thread (pc) and, between two of its steps,  *)
(* the handler of a line that is raised, with interrupts off until it      *)
(* returns.  The devices run all the time: the PIT ticks, the keyboard     *)
(* puts a byte into the controller's output buffer as soon as it is empty. *)
(* They, the 8259 and the 8042 are modelled by how the code uses them.     *)
(***************************************************************************)
EXTENDS Integers, FiniteSets

CONSTANTS
    BootMasks,         \* lines the boot loader may leave masked
    GapBytes,          \* bytes may come after the drain loop, before the handler
    MaxKeys,           \* bound: keys struck
    MaxQueued,         \* bound: bytes queued when another is acknowledged
    SubticksPerTick,   \* SUBTICKS_PER_TICK, 100
    SleepTicks,        \* the argument of Sleep_pit, 3
    TickBound          \* bound: timer_ticks counts modulo this

ASSUME InterruptsAssumption ==
    /\ BootMasks \subseteq SUBSET (0..1)
    /\ GapBytes \in BOOLEAN
    /\ MaxKeys \in Nat /\ MaxQueued \in Nat
    /\ SubticksPerTick \in Nat \ {0}
    /\ SleepTicks \in Nat
    /\ TickBound \in Nat /\ TickBound > SleepTicks + 1

TIMER_IRQ == 0
KEYBOARD_IRQ == 1
Irqs == {TIMER_IRQ, KEYBOARD_IRQ}
None == -1

VARIABLES
    pc,          \* where the boot thread is
    enabled,     \* the processor's interrupt flag
    gates,       \* vectors whose IDT gate is set
    handlers,    \* static_handlers, by line
    serving,     \* line whose handler runs, or None
    stage,       \* how far that handler is
    panicked,    \* an exception was raised: the kernel has stopped
    \* the 8259
    base, mask, irr, isr,
    savedMask,   \* mask1 in pic_remap
    \* the 8042 and the keyboard
    full,        \* output buffer holds a byte
    queued,      \* bytes the keyboard still has to deliver
    struck,      \* keys struck
    busy,        \* input buffer full
    scanning,    \* the keyboard sends scan codes
    \* the timer
    timer_ticks, timer_subticks,
    startTime,   \* in Sleep_pit
    cached       \* the build keeps timer_ticks in a register while it loops

pic    == <<base, mask, irr, isr>>
kbd    == <<full, queued, struck, busy, scanning>>
timer  == <<timer_ticks, timer_subticks>>
cpu    == <<enabled, serving, stage, panicked>>
tables == <<gates, handlers>>
sleep  == <<startTime, cached>>
vars   == <<pc, cpu, tables, pic, savedMask, kbd, timer, sleep>>

\* The boot thread, in program order.
Places == {"lidt", "sti", "remap", "unmasked", "oneMasked", "restore", "gates",
           "maskTimer", "maskKeyboard", "unmaskTimer", "timerHandler",
           "unmaskKeyboard", "drain", "send", "keyboardHandler",
           "getTime", "sleeping", "idle"}

\* The processor takes an interrupt between two instructions.
Waiting  == {q \in irr \ mask : \A s \in isr : q < s}
Interrupt == enabled /\ Waiting # {}

\* A step of the boot thread.
Run(from, to) == /\ pc = from /\ pc' = to
                 /\ ~panicked /\ serving = None /\ ~Interrupt
-----------------------------------------------------------------------------
Init == /\ pc = "lidt"
        /\ enabled = FALSE /\ serving = None /\ stage = "none" /\ panicked = FALSE
        /\ gates = {} /\ handlers = [q \in Irqs |-> None]
        /\ base = 8 /\ mask \in BootMasks /\ irr \in SUBSET Irqs /\ isr = {}
        /\ savedMask = mask
        /\ full \in BOOLEAN /\ queued = 0 /\ struck = 0
        /\ busy \in BOOLEAN /\ scanning \in BOOLEAN
        /\ timer_ticks = 0 /\ timer_subticks = 0
        /\ startTime = 0 /\ cached \in BOOLEAN

\* interrupts_init: the exceptions' gates, then "sti", before pic_remap and
\* before the gates of the lines.
LoadIDT == /\ Run("lidt", "sti")
           /\ gates' = 0..31
           /\ UNCHANGED <<cpu, handlers, pic, savedMask, kbd, timer, sleep>>

EnableInterrupts == /\ Run("sti", "remap")
                    /\ enabled' = TRUE
                    /\ UNCHANGED <<serving, stage, panicked, tables, pic,
                                   savedMask, kbd, timer, sleep>>

\* pic_remap.  ICW1 to ICW4 move the vectors, drop what was raised and unmask
\* every line; the two writes that follow set the mask, to 0 and then to 1,
\* before the last restores it.
RemapICW == /\ Run("remap", "unmasked")
            /\ savedMask' = mask
            /\ base' = 32 /\ mask' = {} /\ irr' = {} /\ isr' = {}
            /\ UNCHANGED <<cpu, tables, kbd, timer, sleep>>

WriteMask(m) == mask' = m /\ UNCHANGED <<base, irr, isr>>

\* Mutant of RemapOCW: the last write, which restores the mask, is left out.
RemapOCWNoRestore ==
    \/ /\ Run("unmasked", "oneMasked")
       /\ WriteMask({TIMER_IRQ})
       /\ UNCHANGED <<cpu, tables, savedMask, kbd, timer, sleep>>
    \/ /\ Run("oneMasked", "restore")
       /\ UNCHANGED <<cpu, tables, pic, savedMask, kbd, timer, sleep>>

RemapOCW == \/ /\ Run("unmasked", "oneMasked")
               /\ WriteMask({TIMER_IRQ})
               /\ UNCHANGED <<cpu, tables, savedMask, kbd, timer, sleep>>
            \/ /\ Run("oneMasked", "restore")
               /\ WriteMask(savedMask)
               /\ UNCHANGED <<cpu, tables, savedMask, kbd, timer, sleep>>

SetGates == /\ Run("restore", "gates")
            /\ gates' = gates \union (32..47) \union {255}
            /\ UNCHANGED <<cpu, handlers, pic, savedMask, kbd, timer, sleep>>

pic_set_mask(from, to, q) ==
    /\ Run(from, to)
    /\ WriteMask(mask \union {q})
    /\ UNCHANGED <<cpu, tables, savedMask, kbd, timer, sleep>>

pic_clear_mask(from, to, q) ==
    /\ Run(from, to)
    /\ WriteMask(mask \ {q})
    /\ UNCHANGED <<cpu, tables, savedMask, kbd, timer, sleep>>

register_interrupt_handler(from, to, q) ==
    /\ Run(from, to)
    /\ handlers' = [handlers EXCEPT ![q] = q]
    /\ UNCHANGED <<cpu, gates, pic, savedMask, kbd, timer, sleep>>

\* Mutant of timer_install: the handler is registered for the line above.
timer_installWrongLine ==
    \/ pic_clear_mask("unmaskTimer", "timerHandler", TIMER_IRQ)
    \/ register_interrupt_handler("timerHandler", "unmaskKeyboard", KEYBOARD_IRQ)

timer_install == \/ pic_clear_mask("unmaskTimer", "timerHandler", TIMER_IRQ)
                 \/ register_interrupt_handler("timerHandler", "unmaskKeyboard", TIMER_IRQ)

\* Reading the data port empties the buffer and lowers the line; a request
\* that was latched may or may not survive that.
ReadData(drop) == /\ full' = FALSE
                  /\ irr' = IF drop THEN irr \ {KEYBOARD_IRQ} ELSE irr

Drain == \/ /\ full
            /\ Run("drain", "drain")
            /\ \E drop \in BOOLEAN : ReadData(drop)
            /\ UNCHANGED <<cpu, tables, base, mask, isr, savedMask, queued,
                           struck, busy, scanning, timer, sleep>>
         \/ /\ ~full
            /\ Run("drain", "send")
            /\ UNCHANGED <<cpu, tables, pic, savedMask, kbd, timer, sleep>>

\* keyboard_send_command(0xF4): the byte is written WHILE the controller is
\* busy, when it may or may not be taken, and the loop ends when it is not.
\* A byte taken is acknowledged by one.
keyboard_send_command ==
    \/ /\ busy
       /\ Run("send", "send")
       /\ \/ scanning' = TRUE /\ queued' = queued + 1 /\ queued < MaxQueued
          \/ UNCHANGED <<scanning, queued>>
       /\ UNCHANGED <<cpu, tables, pic, savedMask, full, struck, busy, timer, sleep>>
    \/ /\ ~busy
       /\ Run("send", "keyboardHandler")
       /\ UNCHANGED <<cpu, tables, pic, savedMask, kbd, timer, sleep>>

keyboard_init == \/ pic_clear_mask("unmaskKeyboard", "drain", KEYBOARD_IRQ)
                 \/ Drain
                 \/ keyboard_send_command

EnableKeyboard == \/ keyboard_init
                  \/ register_interrupt_handler("keyboardHandler", "getTime", KEYBOARD_IRQ)

\* GetTime sleeps only if the clock is updating; the loop of Sleep_pit ends
\* when it sees timer_ticks pass startTime + s.
GetTime == \/ /\ Run("getTime", "idle")
              /\ UNCHANGED <<cpu, tables, pic, savedMask, kbd, timer, sleep>>
           \/ /\ Run("getTime", "sleeping")
              /\ startTime' = timer_ticks
              /\ UNCHANGED <<cpu, tables, pic, savedMask, kbd, timer, cached>>

Sleep_pit == /\ Run("sleeping", "idle")
             /\ ~cached
             /\ (timer_ticks - startTime) % TickBound >= SleepTicks
             /\ UNCHANGED <<cpu, tables, pic, savedMask, kbd, timer, sleep>>

Boot == \/ LoadIDT \/ EnableInterrupts \/ RemapICW \/ RemapOCW \/ SetGates
        \/ pic_set_mask("gates", "maskKeyboard", TIMER_IRQ)
        \/ pic_set_mask("maskKeyboard", "unmaskTimer", KEYBOARD_IRQ)
        \/ timer_install \/ EnableKeyboard \/ GetTime \/ Sleep_pit
-----------------------------------------------------------------------------
\* The processor acknowledges the line and enters its gate.  Without a gate,
\* or through one of an exception, the handler panics.
Enter(q) == /\ ~panicked /\ serving = None /\ Interrupt
            /\ q \in Waiting /\ \A r \in Waiting : q <= r
            /\ irr' = irr \ {q} /\ isr' = isr \union {q}
            /\ IF base + q \in gates /\ base + q > 31
               THEN serving' = q /\ stage' = "handler" /\ UNCHANGED panicked
               ELSE panicked' = TRUE /\ UNCHANGED <<serving, stage>>
            /\ enabled' = FALSE
            /\ UNCHANGED <<pc, tables, base, mask, savedMask, kbd, timer, sleep>>

timer_handler ==
    /\ IF timer_subticks + 1 = SubticksPerTick
       THEN /\ timer_ticks' = (timer_ticks + 1) % TickBound
            /\ timer_subticks' = 0
       ELSE timer_subticks' = timer_subticks + 1 /\ UNCHANGED timer_ticks
    /\ UNCHANGED <<irr, full>>

\* Mutant of keyboard_irq_handler: is_keyboard_active, which is set on the way
\* to the idle loop, is tested before the read.
keyboard_irq_handlerActive ==
    /\ IF pc = "idle" THEN \E drop \in BOOLEAN : ReadData(drop)
                      ELSE UNCHANGED <<irr, full>>
    /\ UNCHANGED timer

\* The part of keyboard_irq_handler that meets the controller.
keyboard_irq_handler == /\ \E drop \in BOOLEAN : ReadData(drop)
                        /\ UNCHANGED timer

\* intr_common_handler_c: the registered handler, if there is one, and then
\* the end of interrupt in any case.
Handle == /\ stage = "handler" /\ stage' = "eoi"
          /\ CASE handlers[serving] = TIMER_IRQ -> timer_handler
               [] handlers[serving] = KEYBOARD_IRQ -> keyboard_irq_handler
               [] handlers[serving] = None -> UNCHANGED <<irr, full, timer>>
          /\ UNCHANGED <<pc, enabled, serving, panicked, tables, base, mask, isr,
                         savedMask, queued, struck, busy, scanning, sleep>>

\* Mutant of pic_signal_EOI: sent only for lines that have a handler.
pic_signal_EOIHandled ==
    /\ stage = "eoi" /\ stage' = "iret"
    /\ isr' = IF handlers[serving] = None THEN isr ELSE isr \ {serving}
    /\ UNCHANGED <<pc, enabled, serving, panicked, tables, base, mask, irr,
                   savedMask, kbd, timer, sleep>>

pic_signal_EOI == /\ stage = "eoi" /\ stage' = "iret"
                  /\ isr' = isr \ {serving}
                  /\ UNCHANGED <<pc, enabled, serving, panicked, tables, base, mask,
                                 irr, savedMask, kbd, timer, sleep>>

Return == /\ stage = "iret" /\ stage' = "none"
          /\ serving' = None /\ enabled' = TRUE
          /\ UNCHANGED <<pc, panicked, tables, pic, savedMask, kbd, timer, sleep>>

Handler == Handle \/ pic_signal_EOI \/ Return
-----------------------------------------------------------------------------
Raise(q) == irr' = irr \union {q} /\ UNCHANGED <<base, mask, isr>>

\* The period of the PIT is longer than its handler runs.
PITTick == /\ TIMER_IRQ \notin irr /\ serving # TIMER_IRQ
           /\ Raise(TIMER_IRQ)
           /\ UNCHANGED <<pc, cpu, tables, savedMask, kbd, timer, sleep>>

\* Places where a byte that arrives is read neither by the drain loop, which
\* has ended, nor by the handler, which is not registered.
Gap == {"send", "keyboardHandler"}

Strike == /\ scanning /\ struck < MaxKeys
          /\ struck' = struck + 1 /\ queued' = queued + 1
          /\ UNCHANGED <<pc, cpu, tables, pic, savedMask, full, busy, scanning, timer, sleep>>

Deliver == /\ queued > 0 /\ ~full
           /\ GapBytes \/ pc \notin Gap
           /\ queued' = queued - 1 /\ full' = TRUE
           /\ Raise(KEYBOARD_IRQ)
           /\ UNCHANGED <<pc, cpu, tables, savedMask, struck, busy, scanning, timer, sleep>>

TakeCommand == /\ busy /\ busy' = FALSE
               /\ UNCHANGED <<pc, cpu, tables, pic, savedMask, full, queued, struck,
                              scanning, timer, sleep>>

Next == \/ Boot
        \/ \E q \in Irqs : Enter(q)
        \/ Handler
        \/ PITTick \/ Strike \/ Deliver \/ TakeCommand

\* The processor and the devices do not stop.  The timer's handler runs for a
\* small part of the PIT's period, so that neither the boot thread nor the
\* keyboard's line, which go on between two ticks, is put off for ever.
Fairness == /\ SF_vars(Boot)
            /\ \A q \in Irqs : SF_vars(Enter(q))
            /\ WF_vars(Handler)
            /\ WF_vars(PITTick) /\ WF_vars(Deliver) /\ WF_vars(TakeCommand)

Spec == Init /\ [][Next]_vars /\ Fairness
-----------------------------------------------------------------------------
(* Properties *)

\* Every variable has its type: the subticks stay below the number that makes a
\* tick, and the ticks within their 64 bits.
TypeOK == /\ pc \in Places
          /\ enabled \in BOOLEAN /\ panicked \in BOOLEAN
          /\ serving \in Irqs \union {None}
          /\ stage \in {"none", "handler", "eoi", "iret"}
          /\ gates \subseteq 0..255
          /\ handlers \in [Irqs -> Irqs \union {None}]
          /\ base \in {8, 32} /\ mask \subseteq Irqs /\ irr \subseteq Irqs /\ isr \subseteq Irqs
          /\ full \in BOOLEAN /\ queued \in Nat /\ struck \in 0..MaxKeys
          /\ timer_ticks \in 0..(TickBound - 1)
          /\ timer_subticks \in 0..(SubticksPerTick - 1)
          /\ startTime \in 0..(TickBound - 1)

\* A line is served through a missing gate (and boot ends in a panic) in one
\* place only: between the writes of pic_remap that open the mask and the
\* one that restores it, while the gates of the lines are still to be set.
NoGateOnlyInRemap == panicked => pc \in {"unmasked", "oneMasked"}

\* Whenever the processor accepts interrupts no line is in service: each one
\* that was entered has been ended, whether or not it had a handler, so none
\* blocks itself or the lines behind it.
NothingLeftInService == enabled => isr = {}

\* The variables have their types, and no line is left in service.
InterruptsInv == TypeOK /\ NothingLeftInService

Stopped == panicked \/ (pc = "sleeping" /\ cached)

\* Boot comes to the idle loop, unless it panics in pic_remap or sleeps on a
\* copy of timer_ticks.
BootEnds == <>(pc = "idle" \/ Stopped)

\* The clock never stops: timer_handler runs again and again.
TimerKeepsRunning == <>panicked \/ []<><<timer_ticks' # timer_ticks>>_vars

\* Every byte the keyboard controller holds is read, so that it can send the
\* next (keyboard.cpp, line 133).
KeyboardKeepsSending == full ~> (~full \/ panicked)

=============================================================================
