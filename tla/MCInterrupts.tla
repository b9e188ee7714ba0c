----------------------------- MODULE MCInterrupts -----------------------------
(***************************************************************************)
(* Both lines masked, as the boot protocol leaves them.                    *)
(***************************************************************************)
EXTENDS Interrupts

MCBootMasks == {{0, 1}}
=============================================================================
