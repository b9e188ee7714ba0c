-------------------------------- MODULE MCAHCI --------------------------------
(***************************************************************************)
(* Three ports, the registers of the third behind the mapped page;         *)
(* portCount starts with 0, with a value that leaves a gap in front of the *)
(* first drive, or with one that puts the second behind the array.         *)
(***************************************************************************)
EXTENDS AHCI
=============================================================================
