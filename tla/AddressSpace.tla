----------------------------- MODULE AddressSpace -----------------------------
(***************************************************************************)
(* What mapping a page promises: afterwards the page translates to the     *)
(* frame it was given, and every other page to what it did before.         *)
(***************************************************************************)
CONSTANTS
    Pages,       \* all pages
    Requested,   \* those that callers map
    Frames,      \* frames that callers map them to
    NoFrame      \* the translation of a page that is not mapped

VARIABLE translation

\* Every page has one frame or none.
TypeOK == translation \in [Pages -> Frames \union {NoFrame}]

Init == translation = [v \in Pages |-> NoFrame]

Map(v, p) == translation' = [translation EXCEPT ![v] = p]

Next == \E v \in Requested, p \in Frames : Map(v, p)

Spec == Init /\ [][Next]_translation
=============================================================================
