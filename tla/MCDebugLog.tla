----------------------------- MODULE MCDebugLog -----------------------------
(***************************************************************************)
(* A buffer of four characters: the messages of one character fill it in   *)
(* every way, with the characters that follow.  The messages the log may   *)
(* begin with are every directive of the kernel's formats, and those       *)
(* nobody uses, with numbers at and around the bounds of each width:       *)
(* 2 bits for a char, 3 for a short, 8 for an int, 10 for a long.          *)
(***************************************************************************)
EXTENDS DebugLog

Meaning(s, directive, args) ==
    [kind |-> "text", chars |-> s, directive |-> directive, args |-> args]
Text(s) == Meaning(s, s, <<>>)

\* "%lld", "%.*hx" and the like
Number(length, conversion, base, value, precision) ==
    [kind |-> "number", base |-> base, signed |-> conversion = LetterD,
     bits |-> length[2], value |-> value, prefix |-> <<>>, precision |-> precision,
     directive |-> <<37>> \o (IF precision = 0 THEN <<>> ELSE <<46, 42>>)
                   \o length[1] \o <<conversion>>,
     args |-> IF precision = 0 THEN <<value>> ELSE <<precision, value>>]

Pointer(value) ==
    [kind |-> "number", base |-> 16, signed |-> FALSE, bits |-> LongBits, value |-> value,
     prefix |-> <<48, 120>>, precision |-> 0,
     directive |-> <<37, 112>>, args |-> <<value>>]

\* "%.*f"
Fractional(p, q, precision) ==
    [kind |-> "fraction", p |-> p, q |-> q, precision |-> precision,
     directive |-> <<37, 46, 42, 102>>, args |-> <<precision, [p |-> p, q |-> q]>>]

MCValues == {-512, -129, -128, -9, -5, -4, -3, -2, -1, 0, 1, 2, 3, 4, 7, 8, 10,
             127, 128, 255, 256, 511}

MCMessages == {<<Text(<<c>>)>> : c \in {10, 65, 66}}

\* LF, %, minus, point, digits, A, B, hexadecimal digits, x
MCChars == {10, 37, 45, 46} \union 48..57 \union {65, 66} \union 97..102 \union {120}

MCOpenings ==
    {<<Number(l, c[1], c[2], v, 0)>> :
        l \in Lengths, c \in {<<LetterD, 10>>, <<LetterU, 10>>, <<LetterX, 16>>, <<LetterO, 8>>},
        v \in MCValues}
    \union {<<Number(l, LetterX, 16, v, 2)>> : l \in Lengths, v \in MCValues}
    \union {<<Meaning(<<66, 65>>, <<37, 115>>, <<<<66, 65>>>>), Text(<<10>>)>>,       \* "%s\n"
            <<Meaning(<<65>>, <<37, 99>>, <<65>>), Meaning(<<37>>, <<37, 37>>, <<>>)>>, \* "%c%%"
            <<Meaning(<<>>, <<37, 46, 50>>, <<>>), Text(<<66>>),
              Number(<<<<>>, ShortBits>>, LetterD, 10, 3, 0)>>}                          \* "%.2B%d"
    \union {<<Pointer(v)>> : v \in MCValues}
    \union {<<Fractional(p, 4, k)>> : p \in {1, 2, 3, 4, 5, 6, 7, 9, 42}, k \in {1, 2}}
    \union {<<Number(l, LetterD, 10, v, 0), Text(<<66>>), Number(<<<<>>, ShortBits>>, LetterD, 10, w, 0)>> :
               l \in Lengths, v \in {-9, 7, 127}, w \in {-9, 7}}
=============================================================================
