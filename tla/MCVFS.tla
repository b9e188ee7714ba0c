-------------------------------- MODULE MCVFS --------------------------------
(***************************************************************************)
(* Three ramdisks: one whose directories lie in consecutive blocks, with a *)
(* directory of two blocks, a file and a device; one with a symbolic link; *)
(* one whose root directory goes on behind a block of its subdirectory.    *)
(* The first comes also with a wrong magic number, with larger blocks, and *)
(* with most of its inodes in a second group.                              *)
(* Files are read on the first and the last: with one direct block and     *)
(* blocks of two bytes with two pointers (what the code counts on) or      *)
(* four, a file of 14 bytes needs the double indirect part.                *)
(***************************************************************************)
EXTENDS VFS

\* Names of one character, but for "." and "..".
Entry(name, ino) == [name |-> IF name \in {DOT, UP} THEN name ELSE <<name>>, ino |-> ino]

Dir(blocks) == [type |-> "DIR", size |-> BlockSize * Len(blocks), blocks |-> blocks]
File(type, size, blocks) == [type |-> type, size |-> size, blocks |-> blocks]

\* Files to be read: of every size of interest, each with a name of its own, on
\* blocks in falling order.
FileNames  == <<"f1", "f2", "f3", "f4", "f5", "f6", "f7", "f8", "f9", "f10", "f11">>
FileSizes == <<0, 1, 2, 3, 6, 7, 8, 9, 10, 13, 14>>
Files   == [ino \in {40 + k : k \in DOMAIN FileSizes} |->
               LET size == FileSizes[ino - 40]
               IN File("REG", size, [k \in 1..((size + BlockSize - 1) \div BlockSize) |-> 10 * ino - k])]
FileEntries == [k \in DOMAIN FileSizes |-> Entry(FileNames[k], 40 + k)]

Plain == [magic |-> TRUE, pointers |-> 2, group |-> 60,
          inode |-> (2 :> Dir(<<20, 21>>)) @@ (11 :> Dir(<<22>>))
                    @@ (12 :> File("REG", 2, <<30>>))
                    @@ (13 :> File("CHR", 0, <<>>))
                    @@ (14 :> Dir(<<23>>)) @@ Files,
          block |-> (20 :> <<Entry(DOT, 2), Entry(UP, 2), Entry("a", 11)>>)
                    @@ (21 :> <<Entry("b", 12), Entry("c", 13)>> \o FileEntries)
                    @@ (22 :> <<Entry(DOT, 11), Entry(UP, 2), Entry("b", 14)>>)
                    @@ (23 :> <<Entry(DOT, 14), Entry(UP, 11), Entry("a", 12)>>)]

WithLink == [magic |-> TRUE, pointers |-> 2, group |-> 60,
             inode |-> (2 :> Dir(<<20>>)) @@ (11 :> Dir(<<22>>))
                       @@ (12 :> File("LNK", 1, <<97>>))
                       @@ (13 :> File("SOCK", 0, <<>>)),
             block |-> (20 :> <<Entry(DOT, 2), Entry(UP, 2), Entry("a", 11),
                                Entry("b", 12), Entry("c", 13)>>)
                       @@ (22 :> <<Entry(DOT, 11), Entry(UP, 2)>>)]

Scattered == [magic |-> TRUE, pointers |-> 4, group |-> 60,
              inode |-> (2 :> Dir(<<20, 22>>)) @@ (11 :> Dir(<<21, 24>>))
                        @@ (12 :> File("REG", 2, <<30>>)) @@ Files,
              block |-> (20 :> <<Entry(DOT, 2), Entry(UP, 2), Entry("a", 11)>> \o FileEntries)
                        @@ (22 :> <<Entry("b", 12)>>)
                        @@ (21 :> <<Entry(DOT, 11), Entry(UP, 2)>>)
                        @@ (24 :> <<Entry("c", 12)>>)]

MCImages == {Plain, WithLink, Scattered, [Plain EXCEPT !.magic = FALSE],
             [Plain EXCEPT !.pointers = 8], [Plain EXCEPT !.group = 12]}

\* All paths of at most Longest characters, and longer ones of whole names.  No
\* file has the name "d", "..." or "a.".
Longest == 5
MCPaths ==
    UNION {[1..n -> {SEP, ".", "a", "b"}] : n \in 0..Longest}
    \union {<<"a", SEP, "b", SEP, "a">>, <<"a", SEP, "b", SEP, ".", ".", SEP, "b">>,
            <<"a", SEP, ".", ".", SEP, ".", ".", SEP, "c">>, <<SEP, "a", SEP, "d">>,
            <<SEP, "a", SEP, SEP, "b", SEP>>, <<"a", SEP, "b", SEP, "a", SEP, "d">>,
            <<"c">>, <<SEP, "c">>, <<"c", SEP, "a">>, <<"c", SEP, ".", ".", SEP, "a">>}
    \union {<<name>> : name \in ToSet(FileNames)}

MCMakePaths ==
    UNION {[1..n -> {SEP, ".", "a"}] : n \in 0..3}
    \union {<<"a", SEP, "b", SEP, "a">>, <<SEP, "a", SEP, "b">>, <<SEP, "a", SEP, "b", SEP>>,
            <<"a", SEP, ".", ".", SEP, "b">>, <<SEP, "c", SEP, "a">>, <<"b", SEP, "a">>,
            <<"a", SEP, SEP, "b">>, <<"a", SEP, SEP, "b", SEP, SEP>>, <<"d", SEP, "a">>,
            <<".", ".", SEP, "a", SEP, "b">>}

MCIndices == 0..3 \union {12, 13, 14, 15}
MCOffsets == {0, 1, 2, 3, 4, 6, 7, 9, 13, 14, 15, 31}
MCLengths == {0, 1, 2, 3, 4, 5, 8, 13, 14, 15, 31}
=============================================================================
