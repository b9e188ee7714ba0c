------------------------------ MODULE FramePool ------------------------------
(***************************************************************************)
(* What the page frame allocator promises its callers, without bitmaps,    *)
(* counters or search order: a frame is free, on loan to a caller, or      *)
(* withdrawn for good (reserved by the firmware's memory map, holding the  *)
(* allocator's own bitmap, or locked).  Loans come only from free frames,  *)
(* and only a frame on loan can come back.                                 *)
(***************************************************************************)
CONSTANT Frames          \* frames the pool manages

VARIABLES free,          \* frames a request may be answered with
          loaned         \* frames some caller holds

vars == <<free, loaned>>

\* Free and lent frames are frames of the pool.
TypeOK == free \subseteq Frames /\ loaned \subseteq Frames

Init == free \subseteq Frames /\ loaned = {}

Withdraw == /\ free' \subseteq free
            /\ UNCHANGED loaned

Loan == \E S \in SUBSET free : /\ free' = free \ S
                               /\ loaned' = loaned \union S

Return == \E S \in SUBSET loaned : /\ free' = free \union S
                                   /\ loaned' = loaned \ S

Next == Withdraw \/ Loan \/ Return

Spec == Init /\ [][Next]_vars

=============================================================================
