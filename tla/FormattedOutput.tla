-------------------------- MODULE FormattedOutput --------------------------
(***************************************************************************)
(* Formatted output: hkStdIo::vkprint (klib/hkStdio.cpp) and the           *)
(* conversions of klib/Utils.cpp.                                          *)
(*                                                                         *)
(* A character is its ASCII code, a string the sequence of its characters. *)
(* A directive reads an argument at its own width, then hands it to a      *)
(* conversion that takes an int: a long long loses its upper half there.   *)
(***************************************************************************)
EXTENDS Integers, Sequences, SequencesExt

CONSTANTS CharBits, ShortBits, IntBits, LongBits   \* 8, 16, 32, 64

ASSUME WidthAssumption ==
    /\ CharBits \in Nat \ {0} /\ ShortBits \in Nat /\ IntBits \in Nat /\ LongBits \in Nat
    /\ CharBits < ShortBits /\ ShortBits < IntBits /\ IntBits < LongBits

\* b to the power of n.  (pow multiplies once more than its exponent says, and is
\* called with one less.)
Power(b, n) == LET p[k \in 0..n] == IF k = 0 THEN 1 ELSE b * p[k - 1] IN p[n]

Unsigned(n, bits) == n % Power(2, bits)
Signed(n, bits)   == ((n + Power(2, bits - 1)) % Power(2, bits)) - Power(2, bits - 1)

\* The characters vkprint and the conversions know.
PERCENT == 37   STAR == 42   MINUS == 45   POINT == 46   ZERO == 48
LetterA == 97   LetterC == 99   LetterD == 100   LetterF == 102   LetterH == 104
LetterL == 108  LetterO == 111  LetterP == 112   LetterS == 115   LetterU == 117
LetterX == 120
-----------------------------------------------------------------------------
(* Utils.cpp *)

DigitChar(d) == IF d >= 10 THEN LetterA + d - 10 ELSE ZERO + d

\* The digits of a natural number, the last one first; none for 0.
Reversed(n, base) ==
    LET digits[m \in 0..n] == IF m = 0 THEN <<>>
                              ELSE <<m % base>> \o digits[m \div base]
    IN digits[n]

Zeros(n) == [i \in 1..n |-> ZERO]

\* The parameter is 32 bits wide; precision is a number of zeros put in front.
unsigned_number_to_string(n, base, precision) ==
    LET digits == Reversed(Unsigned(n, IntBits), base)
    IN IF digits = <<>> THEN <<ZERO>>
       ELSE Reverse([i \in DOMAIN digits |-> DigitChar(digits[i])] \o Zeros(precision))

number_to_string(n, base, precision) ==
    LET number == Signed(n, IntBits)
    IN IF number < 0 THEN <<MINUS>> \o unsigned_number_to_string(-number, base, precision)
                     ELSE unsigned_number_to_string(number, base, precision)

\* Division as in C, towards 0.
Quotient(p, q) == IF p >= 0 THEN p \div q ELSE -((-p) \div q)

\* The number p / q, the fraction cut to precision digits: those of an integer,
\* so without the zeros it begins with.  The whole part has lost its sign when it
\* is subtracted: of a negative number the "fraction" is negative, and so are its digits.
fnumber_to_string(p, q, base, precision) ==
    LET whole     == Quotient(p, q)
        number    == IF whole < 0 THEN -whole ELSE whole
        floatPart == Quotient((p - number * q) * Power(base, precision), q)
        fraction  == CASE floatPart > 0 -> [i \in DOMAIN Reversed(floatPart, base) |->
                                               DigitChar(Reversed(floatPart, base)[i])]
                       [] floatPart < 0 -> [i \in DOMAIN Reversed(-floatPart, base) |->
                                               ZERO - Reversed(-floatPart, base)[i]]
                       [] OTHER -> Zeros(precision)
        digits    == [i \in DOMAIN Reversed(number, base) |-> DigitChar(Reversed(number, base)[i])]
    IN (IF whole < 0 THEN <<MINUS>> ELSE <<>>) \o (IF number = 0 THEN <<ZERO>> ELSE <<>>)
       \o Reverse((IF precision = 0 THEN <<>> ELSE Append(fraction, POINT)) \o digits)
-----------------------------------------------------------------------------
(* vkprint *)

\* Within a directive, and between two
Inside(longs, shorts, precise, precision) ==
    [directive |-> TRUE, longs |-> longs, shorts |-> shorts,
     precise |-> precise, precision |-> precision]

Fresh == [directive |-> FALSE, longs |-> 0, shorts |-> 0,
          precise |-> FALSE, precision |-> 6]

\* How many bits of its argument a directive takes, the longest wish winning.
Width(d) == CASE d.longs = 2  -> LongBits
              [] d.longs = 1  -> IntBits
              [] d.longs = 0 /\ d.shorts = 2 -> CharBits
              [] OTHER -> ShortBits

Precision(d) == IF d.precise THEN d.precision ELSE 0

DecimalText(d, n) == number_to_string(Signed(n, Width(d)), 10, Precision(d))

UnsignedText(d, n) == unsigned_number_to_string(Unsigned(n, Width(d)), 10, Precision(d))
HexText(d, n)      == unsigned_number_to_string(Unsigned(n, Width(d)), 16, Precision(d))
OctalText(d, n)    == unsigned_number_to_string(Unsigned(n, Width(d)), 8, Precision(d))
FloatText(d, f)    == fnumber_to_string(f.p, f.q, 10, d.precision)
PointerText(n)     == <<ZERO, LetterX>> \o unsigned_number_to_string(n, 16, 0)

\* The directives that take an argument, and what they print.
Conversions == {LetterC, LetterS, LetterD, LetterF, LetterU, LetterX, LetterO, LetterP}

ConversionText(d, c, arg) ==
    CASE c = LetterC -> <<arg>>
      [] c = LetterS -> arg
      [] c = LetterD -> DecimalText(d, arg)
      [] c = LetterF -> FloatText(d, arg)
      [] c = LetterU -> UnsignedText(d, arg)
      [] c = LetterX -> HexText(d, arg)
      [] c = LetterO -> OctalText(d, arg)
      [] c = LetterP -> PointerText(arg)

\* l, h, "." and "*": what follows belongs to the same directive.  ("*" takes an
\* argument, and only behind a ".".)
Modifies(d, c) == c \in {LetterL, LetterH, POINT} \/ (c = STAR /\ d.precise)

More(n) == IF n = 0 THEN 1 ELSE 2

Modified(d, c, args) ==
    CASE c = LetterL -> Inside(More(d.longs), d.shorts, d.precise, d.precision)
      [] c = LetterH -> Inside(d.longs, More(d.shorts), d.precise, d.precision)
      [] c = POINT   -> Inside(d.longs, d.shorts, TRUE, d.precision)
      [] c = STAR    -> Inside(d.longs, d.shorts, d.precise, Head(args))

\* Mutant of AfterDirective: the lengths stay for the next directive.
AfterDirectiveKeeps(d) == [d EXCEPT !.directive = FALSE]

\* At its end everything is as between two directives.
AfterDirective(d) == Fresh

\* One character of the format, in a state: the directive, the arguments that are
\* left and the text so far.  It is text, or begins a directive,
State(d, args, text) == [d |-> d, args |-> args, text |-> text]

Copies(s, c) == State(s.d, s.args, Append(s.text, c))
Opens(s)     == State(Inside(s.d.longs, s.d.shorts, s.d.precise, s.d.precision), s.args, s.text)

\* says how the directive prints,
Refines(s, c) == State(Modified(s.d, c, s.args),
                       IF c = STAR THEN Tail(s.args) ELSE s.args, s.text)

\* has an argument printed, or ends what is no directive.
Converts(s, c) == State(AfterDirective(s.d), Tail(s.args),
                        s.text \o ConversionText(s.d, c, Head(s.args)))
Closes(s, c)   == State(AfterDirective(s.d), s.args,
                        IF c = PERCENT THEN Append(s.text, PERCENT) ELSE s.text)

Step(s, c) ==
    CASE ~s.d.directive /\ c = PERCENT         -> Opens(s)
      [] ~s.d.directive /\ c # PERCENT         -> Copies(s, c)
      [] s.d.directive /\ Modifies(s.d, c)     -> Refines(s, c)
      [] s.d.directive /\ c \in Conversions    -> Converts(s, c)
      [] OTHER                                 -> Closes(s, c)

\* The characters vkprint hands to putchar, one after the other.
vkprint(fmt, args) ==
    LET after[n \in 0..Len(fmt)] == IF n = 0 THEN State(Fresh, args, <<>>)
                                    ELSE Step(after[n - 1], fmt[n])
    IN after[Len(fmt)].text
=============================================================================
