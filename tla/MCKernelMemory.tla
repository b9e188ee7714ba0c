---------------------------- MODULE MCKernelMemory ----------------------------
(***************************************************************************)
(* Tables of four entries (256 pages) and 48 frames.  The boot maps take   *)
(* frames 2 to 37: the PML4 and the identity tables up to 18, then the     *)
(* tables of the higher half up to 34, then those of the regions.          *)
(***************************************************************************)
EXTENDS KernelMemory

MCPools == {2..47, (2..38) \union {47, 50}}

MCGarbage == {-1, 0}
MCHeapData == {-1, 5}

\* Windows over identity tables, over tables of the higher half (as in a
\* machine of 4 GB), over frames still in the pool (as in one of 2 GB).
MCHeapStarts == {10, 24, 36, 39}

MCRegions == << [base |-> 241, length |-> 1], [base |-> 242, length |-> 2] >>

MCDevicePages == {55, 100}
=============================================================================
