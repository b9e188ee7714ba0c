------------------------------ MODULE Strings ------------------------------
(***************************************************************************)
(* The searching functions of klib/string.cpp.  A string is the sequence   *)
(* of its characters, without the terminator; a pointer into one is what   *)
(* lies ahead of it.                                                       *)
(***************************************************************************)
EXTENDS Integers, Sequences

\* How many characters of delim the string begins with.
strspn(s, delim) == CHOOSE n \in 0..Len(s) :
                        /\ \A i \in 1..n : s[i] \in delim
                        /\ n < Len(s) => s[n + 1] \notin delim

\* The position of the first character of delim; 0 if there is none.
strpbrk(s, delim) ==
    LET found == {i \in DOMAIN s : s[i] \in delim}
    IN IF found = {} THEN 0 ELSE CHOOSE i \in found : \A j \in found : i <= j

\* Mutant of strtok_r: the delimiter that ends a token is not passed over, and
\* with it the token after it begins.
strtok_rNoSkip(s, delim) ==
    LET end == strpbrk(s, delim)
    IN IF end = 0 THEN [token |-> s, save |-> <<>>]
       ELSE [token |-> SubSeq(s, 1, end - 1), save |-> SubSeq(s, end + 1, Len(s))]

\* The token at or behind s, and what *saveptr then points to; no token, the null
\* pointer, is the empty one.
strtok_r(s, delim) ==
    LET rest == SubSeq(s, strspn(s, delim) + 1, Len(s))
        end  == strpbrk(rest, delim)
    IN IF end = 0 THEN [token |-> rest, save |-> <<>>]
       ELSE [token |-> SubSeq(rest, 1, end - 1), save |-> SubSeq(rest, end + 1, Len(rest))]

\* The string that begins s, up to a terminator, and what follows it.
UpTo(s, nul)   == LET end == strpbrk(s, {nul}) IN IF end = 0 THEN s ELSE SubSeq(s, 1, end - 1)
Behind(s, nul) == LET end == strpbrk(s, {nul}) IN IF end = 0 THEN <<>> ELSE SubSeq(s, end + 1, Len(s))
=============================================================================
