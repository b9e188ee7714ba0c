------------------------------- MODULE MCConsole -------------------------------
(***************************************************************************)
(* Cells of two by two pixels on screens of three columns: two rows, three *)
(* rows, two and a half rows.  The bytes are those of 1, Backspace, Tab,   *)
(* Return, A, Shift, Alt (0x4008, a backspace once cut to eight bits),     *)
(* Caps Lock, the keypad's 0, F12, and of the prefix 0xE0.                 *)
(***************************************************************************)
EXTENDS Console

MCScanCodes == {2, 14, 15, 28, 30, 42, 56, 58, 82, 88, 158, 170, 224}
MCAnyWord == {0, 200, 97, 16386}
MCFramebuffers == {[width |-> 6, height |-> 4], [width |-> 6, height |-> 6],
                   [width |-> 6, height |-> 5]}
=============================================================================
