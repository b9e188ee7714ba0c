-------------------------------- MODULE Clock --------------------------------
(***************************************************************************)
(* GetTime and FormatTime (time/time.cpp) against the real-time clock,     *)
(* which is read register by register while it runs.  Once a second the    *)
(* clock announces an update (UIP), some time later changes its registers, *)
(* which hold anything meanwhile, and takes UIP back.                      *)
(*                                                                         *)
(* Calendar is a stretch of consecutive seconds; a second is the tuple of  *)
(* the fields in the order GetTime reads them.  The clock keeps them in    *)
(* binary or in BCD, and the hour by 24 or by 12, as register B says.      *)
(***************************************************************************)
EXTENDS Integers, Sequences

CONSTANTS
    Calendar,   \* <<second, minute, hour, weekDay, day, month, year>>, one per second
    Glitch,     \* what a register may hold during an update
    SleepTicks  \* the argument of Sleep_pit, 3

Fields == 1..7
HourAt == 3
WeekDayAt == 4
MonthAt == 6
YearAt == 7

ASSUME ClockAssumption ==
    /\ Calendar \in Seq([Fields -> 0..99]) /\ Calendar # <<>>
    /\ \A k \in DOMAIN Calendar : /\ Calendar[k][WeekDayAt] \in 1..7
                                  /\ Calendar[k][MonthAt] \in 1..12
    /\ Glitch \subseteq 0..255 /\ Glitch # {} /\ SleepTicks \in Nat \ {0}

VARIABLES
    \* the clock
    now,       \* index into Calendar
    phase,     \* "steady", "announced" (UIP set), "changing" (UIP set)
    binary,    \* data mode of register B
    hours24,   \* hour format of register B
    \* GetTime
    stage,     \* "idle", "sleeping", "reading", "done", "printed", "astray"
    since,     \* seconds since Sleep_pit was entered
    values,    \* registers read so far
    called,    \* history: the second in which GetTime was called
    slept,     \* history: UIP was set
    dt

rtc  == <<now, phase, binary, hours24>>
call == <<stage, since, values, called, slept, dt>>
clockVars == <<rtc, call>>

UIP == phase # "steady"

BinToBcd(v) == (v \div 10) * 16 + (v % 10)

\* An hour as a 12-hour clock shows it: 12, 1 to 11, with bit 7 for the afternoon.
Hour12(h) == [shown |-> IF h % 12 = 0 THEN 12 ELSE h % 12, pm |-> h >= 12]

\* What the register of field f holds in the second at index k.
Register(k, f) ==
    LET v == Calendar[k][f]
        h == Hour12(v)
        enc(n) == IF binary THEN n ELSE BinToBcd(n)
    IN IF f = HourAt /\ ~hours24 THEN enc(h.shown) + (IF h.pm THEN 128 ELSE 0)
                                 ELSE enc(v)

\* Mutant of BcdToBin: the tens count as sixteens.
BcdToBinHex(val) == (val % 16) + (val \div 16) * 16

BcdToBin(val) == (val % 16) + (val \div 16) * 10
-----------------------------------------------------------------------------
ClockInit == /\ now = 1 /\ phase = "steady" /\ binary \in BOOLEAN /\ hours24 \in BOOLEAN
             /\ stage = "idle" /\ since = 0 /\ values = <<>> /\ called = 1 /\ slept = FALSE
             /\ dt = <<>>

\* GetTime is called while the Calendar, a bound, leaves it time to sleep.
InTime == now + SleepTicks < Len(Calendar)

\* Mutant of CheckUpdate: the test of UIP is left out.
CheckUpdateNot == /\ stage = "idle" /\ InTime /\ called' = now
                  /\ stage' = "reading" /\ since' = 0
                  /\ UNCHANGED <<rtc, values, slept, dt>>

\* The test of UIP, once, before the registers are read.
CheckUpdate == /\ stage = "idle" /\ InTime /\ called' = now
               /\ stage' = IF UIP THEN "sleeping" ELSE "reading"
               /\ slept' = UIP /\ since' = 0
               /\ UNCHANGED <<rtc, values, dt>>

\* Sleep_pit(3) returns when the third tick comes, between two seconds and three
\* after it was entered.
Wake == /\ stage = "sleeping" /\ since >= SleepTicks - 1
        /\ stage' = "reading"
        /\ UNCHANGED <<rtc, since, values, called, slept, dt>>

RtcRead == /\ stage = "reading" /\ Len(values) < 7
           /\ \E v \in IF phase = "changing" THEN Glitch
                       ELSE {Register(now, Len(values) + 1)} : values' = Append(values, v)
           /\ UNCHANGED <<rtc, stage, since, called, slept, dt>>

\* The field that is made of a register's value, by register B.
Converted(f, v) ==
    IF f = WeekDayAt THEN (v - 1) % 256
    ELSE (IF binary THEN v ELSE BcdToBin(v)) + (IF f = YearAt THEN 2000 ELSE 0)

Convert == /\ stage = "reading" /\ Len(values) = 7 /\ stage' = "done"
           /\ dt' = [f \in Fields |-> Converted(f, values[f])]
           /\ UNCHANGED <<rtc, since, values, called, slept>>

\* The indices FormatTime uses into its arrays Months and WeekDays.
Months   == 0..11
WeekDays == 0..6

\* FormatTime, which KernelStart calls next.  An index out of range makes a
\* string of what lies on the stack.
FormatTime == /\ stage = "done"
              /\ stage' = IF dt[MonthAt] - 1 \in Months /\ dt[WeekDayAt] \in WeekDays
                       THEN "printed" ELSE "astray"
              /\ UNCHANGED <<rtc, since, values, called, slept, dt>>

GetTime == CheckUpdate \/ Wake \/ RtcRead \/ Convert
-----------------------------------------------------------------------------
\* GetTime takes some microseconds from the test of UIP to the last register;
\* the clock announces an update 244 microseconds ahead.
Prompt == stage = "reading" /\ ~slept

Announce == /\ phase = "steady" /\ now < Len(Calendar) /\ phase' = "announced"
            /\ UNCHANGED <<now, binary, hours24, call>>

Change == /\ phase = "announced" /\ ~Prompt /\ phase' = "changing"
          /\ UNCHANGED <<now, binary, hours24, call>>

Updated == /\ phase = "changing" /\ phase' = "steady"
           /\ now' = now + 1
           /\ stage = "sleeping" => since < SleepTicks
           /\ since' = IF stage = "sleeping" THEN since + 1 ELSE since
           /\ UNCHANGED <<binary, hours24, stage, values, called, slept, dt>>

Stops == stage \in {"idle", "printed", "astray"} /\ now = Len(Calendar) /\ UNCHANGED clockVars

ClockNext == GetTime \/ FormatTime \/ Announce \/ Change \/ Updated \/ Stops

ClockSpec == ClockInit /\ [][ClockNext]_clockVars
-----------------------------------------------------------------------------
(* Properties *)

\* GetTime has returned.
Over == {"done", "printed", "astray"}

\* Every variable has its type, a DateTime being seven fields of a byte's range
\* and a year of this century.
ClockTypeOK == /\ now \in 1..Len(Calendar) /\ called \in 1..now
               /\ phase \in {"steady", "announced", "changing"}
               /\ stage \in {"idle", "sleeping", "reading"} \union Over
               /\ binary \in BOOLEAN /\ hours24 \in BOOLEAN
               /\ since \in 0..SleepTicks /\ slept \in BOOLEAN
               /\ values \in Seq(0..255) /\ Len(values) <= 7
               /\ stage \in Over => /\ \A f \in Fields \ {YearAt} : dt[f] \in 0..255
                                    /\ dt[YearAt] \in 2000..2255

\* The result of GetTime for the second at index k.
Reading(k) == [f \in Fields |-> CASE f = YearAt -> Calendar[k][f] + 2000
                                  [] f = WeekDayAt -> Calendar[k][f] - 1
                                  [] OTHER -> Calendar[k][f]]

\* What GetTime returns is one second of the calendar, between the call and the
\* return: never the minute of one second with the hour of another.  Two cases are
\* out of it: a clock that counts hours by 12, which the code never asks about,
\* and a call that met UIP and slept, after which UIP is not tested again.
OneInstant == (stage \in Over /\ hours24 /\ ~slept) =>
                  \E k \in called..now : dt = Reading(k)

\* With the sleep, too, every field by itself is right at some moment of the
\* call, unless a register was read while it changed (a glitch can be told from
\* a value here).
FieldsAreReal == (stage \in Over /\ hours24 /\ \A f \in Fields : values[f] \notin Glitch) =>
                     \A f \in Fields : \E k \in called..now : dt[f] = Reading(k)[f]

\* FormatTime finds the month and the day of the week in its arrays, and they are
\* those of some moment of the call, whatever the hour format and with the sleep
\* too, unless one of the two registers was read while it changed.
NamesExist == /\ stage = "astray" => values[MonthAt] \in Glitch \/ values[WeekDayAt] \in Glitch
              /\ stage = "printed" => \A f \in {MonthAt, WeekDayAt} :
                     \/ values[f] \in Glitch
                     \/ \E k \in called..now : dt[f] = Reading(k)[f]

\* The variables have their types, and the fields are fields of real seconds.
ClockInv == ClockTypeOK /\ FieldsAreReal /\ NamesExist
=============================================================================
