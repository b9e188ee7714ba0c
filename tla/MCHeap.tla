-------------------------------- MODULE MCHeap --------------------------------
(***************************************************************************)
(* A heap of one page of 18 units that may grow to two, with headers of 4  *)
(* and a grain of 2: one block of 14, or up to three of 2.  Sizes round    *)
(* up, leave too little to split, and take exactly the page; a block of 14 *)
(* handed out whole is large enough to hold the header of an absorbed      *)
(* segment, which its owner may or may not overwrite.                      *)
(***************************************************************************)
EXTENDS Heap
=============================================================================
