------------------------------- MODULE Initrd -------------------------------
(***************************************************************************)
(* Reading a file of the initial ramdisk: read_initrd and                  *)
(* ext2_get_inode_block of fs/ext2_initrd.cpp.                             *)
(*                                                                         *)
(* The effect of a call is the set of copies it makes, each from an offset *)
(* of a block of the ramdisk to an offset of the caller's buffer.  An      *)
(* inode is [type, size, blocks]; what a call reads from a pointer that    *)
(* leads to no block of the file is WILD.                                  *)
(***************************************************************************)
EXTENDS Integers, Sequences

CONSTANTS
    Direct,      \* 12, the blocks an inode names itself
    Hardwired,   \* 256, the pointers of a block in the double-indirect part
    BlockSize,   \* 1024 << log_block_size, in the model's bytes
    Word         \* 2^32

ASSUME InitrdAssumption ==
    {Direct, Hardwired, BlockSize, Word} \subseteq Nat \ {0}

WILD == -1   \* a block nobody allocated

\* The block the ramdisk stores as the k-th of the file.  (It has no holes.)
Stored(inode, k) == IF k < Len(inode.blocks) THEN inode.blocks[k + 1] ELSE WILD

\* The pointers of the inode; the next ones lead to blocks of P pointers.
Named(inode, i) == IF i < Direct THEN Stored(inode, i) ELSE WILD

\* The pointers of the single indirect block, and of the c-th of the double one.
Single(P, inode, i) == IF i \in 0..(P - 1) THEN Stored(inode, Direct + i) ELSE WILD
Double(P, inode, c, d) == IF c \in 0..(P - 1) /\ d \in 0..(P - 1)
                          THEN Stored(inode, Direct + P + c * P + d) ELSE WILD

\* The block that holds a block of the file; no block past the double indirect
\* part, which counts with 256 pointers whatever the size of a block.
ext2_get_inode_block(P, inode, block) ==
    IF block < Direct THEN Named(inode, block)
    ELSE IF block < Direct + P THEN Single(P, inode, block - Direct)
    ELSE IF block < Direct + Hardwired + Hardwired * Hardwired
    THEN LET b == block - Direct - Hardwired
         IN Double(P, inode, b \div Hardwired, b % Hardwired)
    ELSE WILD

\* Where the read ends: at the end of the file at most.  The sum may wrap.
End(inode, offset, length) ==
    LET sum == (offset + length) % Word IN IF sum > inode.size THEN inode.size ELSE sum

\* size_to_read, which wraps when the read begins past the end
Count(inode, offset, length) == (End(inode, offset, length) - offset) % Word

Copy(P, inode, to, block, at, n) ==
    [to |-> to % Word, block |-> ext2_get_inode_block(P, inode, block), at |-> at, n |-> n]

\* Mutant of Copies: every block is copied to a multiple of the block size.
CopiesUnaligned(P, inode, offset, length) ==
    LET first == offset \div BlockSize
        final == End(inode, offset, length) \div BlockSize
        skip  == offset % BlockSize
    IN IF first = final
       THEN {Copy(P, inode, 0, first, skip, Count(inode, offset, length))}
       ELSE {Copy(P, inode, 0, first, skip, BlockSize - skip)}
            \union {Copy(P, inode, BlockSize * (b - first), b, 0, BlockSize) :
                        b \in (first + 1)..(final - 1)}
            \union {Copy(P, inode, BlockSize * (final - first), final, 0,
                          End(inode, offset, length) % BlockSize)}

\* The copies of a call: one if the read begins and ends in the same block, else
\* the rest of the first block, the blocks between and the beginning of the last.
Copies(P, inode, offset, length) ==
    LET first == offset \div BlockSize
        final == End(inode, offset, length) \div BlockSize
        skip  == offset % BlockSize
        done  == IF final < first THEN 0 ELSE BlockSize * (final - first)
    IN IF first = final
       THEN {Copy(P, inode, 0, first, skip, Count(inode, offset, length))}
       ELSE {Copy(P, inode, 0, b, skip, BlockSize - skip) :
                 b \in {first} \intersect 0..(final - 1)}
            \union {Copy(P, inode, BlockSize * (b - first) - skip, b, 0, BlockSize) :
                        b \in (first + 1)..(final - 1)}
            \union {Copy(P, inode, done - skip, final, 0,
                          End(inode, offset, length) % BlockSize)}
=============================================================================
