------------------------------ MODULE DebugLog ------------------------------
(***************************************************************************)
(* debug of terminal/serial.cpp: a message is formatted by vkprint, and    *)
(* each of its characters goes through serialPutchar to the wire.          *)
(*                                                                         *)
(* A message is a sequence of parts.  Each has what its author means, text *)
(* or a number, and how he asks for it: the piece of the format and the    *)
(* arguments it takes.                                                     *)
(***************************************************************************)
EXTENDS Serial, FormattedOutput

CONSTANTS
    MaxPrinted, \* bound: characters printed
    Messages,   \* bound: messages at any time
    Openings    \* bound: messages the log may begin with

\* The lengths of a directive, each with the number of bits it takes of its argument.
Lengths == {<<<<>>, ShortBits>>, <<<<LetterH>>, ShortBits>>, <<<<LetterH, LetterH>>, CharBits>>,
            <<<<LetterL>>, IntBits>>, <<<<LetterL, LetterL>>, LongBits>>,
            <<<<LetterH, LetterL>>, IntBits>>}

\* The directives for integers: letter, base, and whether there is a sign.
Numerals == {<<LetterD, 10, TRUE>>, <<LetterU, 10, FALSE>>, <<LetterX, 16, FALSE>>,
             <<LetterO, 8, FALSE>>}

\* Text, as it stands or as an argument; or, of what is no directive, nothing.
IsText(part) ==
    /\ part.chars \in Seq(Chars)
    /\ \/ /\ part.directive = part.chars /\ part.args = <<>>
          /\ \A i \in DOMAIN part.chars : part.chars[i] # PERCENT
       \/ part.directive = <<PERCENT, LetterS>> /\ part.args = <<part.chars>>
       \/ part.directive = <<PERCENT, LetterC>> /\ part.args = part.chars /\ Len(part.chars) = 1
       \/ part.directive = <<PERCENT, PERCENT>> /\ part.args = <<>> /\ part.chars = <<PERCENT>>
       \/ /\ \E c \in 48..57 : part.directive = <<PERCENT, POINT, c>>
          /\ part.args = <<>> /\ part.chars = <<>>

\* The zeros in front of a number that the buffers of 32 characters have room for.
Padding == 20

\* An integer: "%d", "%hhu", "%.*llx" and the like,
IsNumber(part) ==
    \E length \in Lengths, numeral \in Numerals :
        /\ part.bits = length[2] /\ part.base = numeral[2] /\ part.signed = numeral[3]
        /\ part.prefix = <<>> /\ part.value \in Int
        /\ part.precision \in Nat /\ part.precision <= Padding
        /\ \/ /\ part.precision = 0 /\ part.args = <<part.value>>
              /\ part.directive = <<PERCENT>> \o length[1] \o <<numeral[1]>>
           \/ /\ part.args = <<part.precision, part.value>>
              /\ part.directive = <<PERCENT, POINT, STAR>> \o length[1] \o <<numeral[1]>>

\* or "%p".
IsPointer(part) ==
    /\ part.bits = LongBits /\ part.base = 16 /\ part.signed = FALSE
    /\ part.prefix = <<ZERO, LetterX>> /\ part.value \in Int /\ part.precision = 0
    /\ part.directive = <<PERCENT, LetterP>> /\ part.args = <<part.value>>

\* The number p / q with "%.*f", both sides of the point an int.  (Of a fraction below
\* one tenth the zeros behind the point are lost: there are none, or nothing else is to
\* be printed.)
IsFraction(part) ==
    /\ part.p \in Nat /\ part.q \in Nat \ {0} /\ part.precision \in Nat \ {0}
    /\ part.directive = <<PERCENT, POINT, STAR, LetterF>>
    /\ part.args = <<part.precision, [p |-> part.p, q |-> part.q]>>
    /\ part.p \div part.q < Power(2, IntBits - 1)
    /\ Power(10, part.precision) <= Power(2, IntBits - 1)
    /\ LET digits == ((part.p % part.q) * Power(10, part.precision)) \div part.q
       IN digits = 0 \/ digits >= Power(10, part.precision - 1)

IsPart(part) == \/ part.kind = "text" /\ IsText(part)
                \/ part.kind = "number" /\ (IsNumber(part) \/ IsPointer(part))
                \/ part.kind = "fraction" /\ IsFraction(part)

ASSUME MessagesAssumption ==
    /\ MaxPrinted \in Nat
    /\ \A m \in Messages \union Openings :
           m \in Seq(ToSet(m)) /\ \A part \in ToSet(m) : IsPart(part)
    /\ {PERCENT, MINUS, POINT, LetterX} \union 48..57 \union 97..102 \subseteq Chars

VARIABLES
    message,   \* what debug has been called with
    todo,      \* the characters it has yet to print
    line       \* history: those it has printed

debugVars == <<vars, message, todo, line>>

\* The format and the arguments of a message.
Format(m)    == FlattenSeq([i \in DOMAIN m |-> m[i].directive])
Arguments(m) == FlattenSeq([i \in DOMAIN m |-> m[i].args])

DebugInit == Init /\ message = <<>> /\ todo = <<>> /\ line = <<>>

debug(m) ==
    /\ todo = <<>> /\ pc = "idle"
    /\ message' = m /\ todo' = vkprint(Format(m), Arguments(m)) /\ line' = <<>>
    /\ Len(printed) + Len(todo') <= MaxPrinted
    /\ UNCHANGED vars

\* vkprint calls putchar, which is serialPutchar.
Putchar == /\ todo # <<>> /\ serialPutchar(Head(todo))
           /\ todo' = Tail(todo) /\ line' = Append(line, Head(todo))
           /\ UNCHANGED message

DebugNext ==
    \/ \E m \in Messages : debug(m)
    \/ printed = <<>> /\ \E m \in Openings : debug(m)
    \/ Putchar
    \/ (Send \/ Flushed \/ NeighbourChanges) /\ UNCHANGED <<message, todo, line>>

\* The UART is ready again and again, and debug goes on.
DebugSpec == /\ DebugInit /\ [][DebugNext]_debugVars
             /\ WF_debugVars(Send /\ UNCHANGED <<message, todo, line>>)
             /\ WF_debugVars(Flushed /\ UNCHANGED <<message, todo, line>>)
             /\ WF_debugVars(Putchar)
-----------------------------------------------------------------------------
(* Properties *)

Digit(c) == IF c \in 48..57 THEN c - 48 ELSE IF c \in 97..102 THEN c - 87 ELSE 99

\* A numeral of a base, and its value.
Numeral(s, base)  == s # <<>> /\ \A i \in DOMAIN s : Digit(s[i]) < base
ValueOf(s, base)  ==
    LET upTo[n \in 0..Len(s)] == IF n = 0 THEN 0 ELSE base * upTo[n - 1] + Digit(s[n])
    IN upTo[Len(s)]

\* A numeral with no zeros in front but those asked for, which 0 does not get.
Canonical(s, precision) ==
    \/ s = <<48>>
    \/ /\ Len(s) > precision /\ s[precision + 1] # 48
       /\ \A i \in 1..precision : s[i] = 48

\* What a reader makes of a numeral with a sign.
SignedNumeral(s, value, base, precision) ==
    LET digits == IF s # <<>> /\ Head(s) = 45 THEN Tail(s) ELSE s IN
    /\ Numeral(digits, base) /\ Canonical(digits, precision)
    /\ ValueOf(digits, base) = (IF digits = s THEN value ELSE -value)
    /\ value # 0 \/ digits = s

\* The value a part says: its argument, at the width of the directive and no wider
\* than the conversions are.
Said(part) == LET bits == IF part.bits > IntBits THEN IntBits ELSE part.bits
              IN CHOOSE v \in IF part.signed
                                THEN -Power(2, bits - 1)..(Power(2, bits - 1) - 1)
                                ELSE 0..(Power(2, bits) - 1) :
                     (v - part.value) % Power(2, bits) = 0

\* The whole part, a point, and the digits of the fraction.
Fraction(s, part) ==
    \E k \in DOMAIN s :
        /\ s[k] = 46 /\ Len(s) - k = part.precision
        /\ Numeral(SubSeq(s, 1, k - 1), 10) /\ Numeral(SubSeq(s, k + 1, Len(s)), 10)
        /\ Canonical(SubSeq(s, 1, k - 1), 0)
        /\ ValueOf(SubSeq(s, 1, k - 1) \o SubSeq(s, k + 1, Len(s)), 10)
               = (part.p * Power(10, part.precision)) \div part.q

\* Text s says what the part means.
Says(s, part) ==
    CASE part.kind = "text"     -> s = part.chars
      [] part.kind = "number"   ->
            IF part.prefix # <<>>
            THEN /\ IsPrefix(part.prefix, s)
                 /\ SignedNumeral(SubSeq(s, Len(part.prefix) + 1, Len(s)), Said(part),
                                  part.base, part.precision)
            ELSE SignedNumeral(s, Said(part), part.base, part.precision)
      [] part.kind = "fraction" -> Fraction(s, part)

\* Text s can be cut into pieces that say the parts of m, one after the other.
Means(s, m) ==
    LET upTo[n \in 0..Len(m)] ==
            IF n = 0 THEN {0}
            ELSE {j \in 0..Len(s) : \E i \in upTo[n - 1] :
                      i <= j /\ Says(SubSeq(s, i + 1, j), m[n])}
    IN Len(s) \in upTo[Len(m)]

\* When debug returns, the characters it has printed say what its message means:
\* text as it stands, and numbers whose digits a reader takes for the argument,
\* modulo the width of the directive or of the conversions, whichever is less.
\* (A fraction below one tenth is printed wrong: the zeros behind its point are lost.)
MessageMeant == (todo = <<>> /\ pc = "idle") => Means(line, message)

\* What vkprint hands to putchar are characters.
Printable == todo \in Seq(Chars)

\* The log on the wire is faithful, and it is what the callers of debug mean.
DebugInv == LogInv /\ Printable /\ MessageMeant
=============================================================================
