----------------------------- MODULE MCPageTables -----------------------------
(***************************************************************************)
(* Tables of two entries: sixteen pages, and at most fifteen tables.       *)
(***************************************************************************)
EXTENDS PageTables

\* A pool with holes, as a memory map leaves it.
MCPools == {{2, 3, 5, 7, 8, 9, 11, 12, 13, 14, 15, 16}}

\* Memory reads as absent entries, or as entries that point to frame 0.
MCGarbage == {-1, 0}

\* Pages that share three tables, two, one and none with page 0.
MCMapPages == {0, 1, 4, 8, 15}
=============================================================================
