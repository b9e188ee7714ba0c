------------------------------- MODULE MCClock -------------------------------
(***************************************************************************)
(* The midnight that ends the year 2095, a Saturday: every field changes   *)
(* at once, and the month and the day of the week from their last value to *)
(* their first.  The value of a register that is read while it changes is  *)
(* none of these.                                                          *)
(***************************************************************************)
EXTENDS Clock

Night == << <<57, 59, 23, 7, 31, 12, 95>>, <<58, 59, 23, 7, 31, 12, 95>>,
            <<59, 59, 23, 7, 31, 12, 95>>, <<0, 0, 0, 1, 1, 1, 96>>,
            <<1, 0, 0, 1, 1, 1, 96>>, <<2, 0, 0, 1, 1, 1, 96>>,
            <<3, 0, 0, 1, 1, 1, 96>> >>
=============================================================================
