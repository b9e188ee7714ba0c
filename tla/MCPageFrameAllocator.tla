------------------------ MODULE MCPageFrameAllocator ------------------------
(***************************************************************************)
(* A machine of 22 bytes in frames of 2: a RESERVED entry that starts in   *)
(* the middle of a frame, the kernel in a frame of its own, a RESERVED one *)
(* beside it, a hole, and a bitmap of 2 bytes that covers 16 frames where  *)
(* the map describes 11.                                                   *)
(***************************************************************************)
EXTENDS PageFrameAllocator

Entry(b, l, t) == [base |-> b, length |-> l, type |-> t]

MCMemMap == << Entry(0, 2, "USABLE"), Entry(2, 1, "OTHER"),
               Entry(3, 1, "RESERVED"), Entry(4, 12, "BOOTLOADER_RECLAIMABLE"),
               Entry(16, 2, "KERNEL_AND_MODULES"), Entry(18, 2, "RESERVED"),
               Entry(22, 2, "USABLE") >>

\* A range far above the bitmap (the kernel's own, which kernel.cpp passes
\* by its higher-half address) and one inside it that is longer than IntPages.
MCLockRanges == { [first |-> 100, count |-> 3], [first |-> 6, count |-> 6] }

\* RequestPages's search only ever stops at a run that is free.
ASSUME ScanFindsFreeRun ==
    \A L \in SUBSET (0..7), amount \in 1..3, start \in 0..7 :
        LET x == FirstRun(L, 8, start, amount)
        IN x < 8 => Run(x, amount) \intersect L = {}
=============================================================================
