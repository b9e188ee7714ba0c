------------------------------ MODULE Ext2Nodes ------------------------------
(***************************************************************************)
(* What a VFS node says of an ext2 inode (fs/ext2_initrd.cpp, the "File    *)
(* Flags" part of initrd_node_from_file, initrd_node_root and              *)
(* initrd_node_from_dirent; the constants are those of ext2.h and vfs.h).  *)
(*                                                                         *)
(* A mode or a flag word is the set of its bits.  Two bit sets of types    *)
(* may overlap, on both sides.                                             *)
(***************************************************************************)
Types == {"REG", "DIR", "CHR", "BLK", "FIFO", "LNK", "SOCK"}

\* EXT2_S_IF*
Mode == [REG |-> {15}, DIR |-> {14}, CHR |-> {13}, BLK |-> {13, 14},
         FIFO |-> {12}, LNK |-> {13, 15}, SOCK |-> {14, 15}]

\* The FS_* flag that stands for each type; there is none for sockets.
Flag == [REG |-> {0}, DIR |-> {1}, CHR |-> {0, 1}, BLK |-> {2},
         FIFO |-> {0, 2}, LNK |-> {1, 2}, SOCK |-> {}]

FS_DIRECTORY == 1

\* Every type whose bits are all in the mode contributes its flag.
NodeFlags(type) ==
    UNION {Flag[t] : t \in {u \in Types : Mode[u] \subseteq Mode[type]}}

LooksLikeDirectory(type) == FS_DIRECTORY \in NodeFlags(type)
=============================================================================
