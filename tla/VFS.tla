--------------------------------- MODULE VFS ---------------------------------
(***************************************************************************)
(* Opening a file by name, reading it and listing a directory: kopen,      *)
(* canonicalize_path, create_file_fs, mkdir_fs, read_fs and readdir_fs of  *)
(* fs/vfs.cpp over the initial ramdisk (initrd_mount, finddir_initrd,      *)
(* read_initrd and readdir_initrd of fs/ext2_initrd.cpp).                  *)
(*                                                                         *)
(* A string is the sequence of its characters.  The strings, list nodes,   *)
(* directory entries and VFS nodes a call allocates are numbers in heap.   *)
(* A directory is searched as the code searches it: from its first block   *)
(* on, as if the others followed on the disk.                              *)
(***************************************************************************)
EXTENDS FiniteSets, Ext2Nodes, Initrd, Lists, Strings

CONSTANTS
    Images,   \* ramdisks: magic number right or not, pointers of a block, last inode
              \* of the first group, inodes, entries of each directory block
    Paths,    \* bound: names given to kopen
    MakePaths,   \* bound: names given to create_file_fs and mkdir_fs
    Offsets, Lengths,   \* bound: arguments of read_fs
    Indices,  \* bound: arguments of readdir_fs
    MaxHeld   \* bound: nodes the callers keep

SEP == "/"      DOT == <<".">>      UP == <<".", ".">>      \* PATH_SEPARATOR, PATH_DOT, PATH_UP
NUL == "NUL"
RootInode == 2
NONE == 0        \* the null pointer
NULL == [id |-> NONE, ino |-> NONE, mkdir |-> FALSE]

ASSUME VFSAssumption ==
    /\ MaxHeld \in Nat /\ Indices \subseteq Nat
    /\ Offsets \subseteq 0..(Word - 1) /\ Lengths \subseteq 0..(Word - 1)
    /\ \A image \in Images :
           /\ image.pointers \in Nat /\ image.pointers >= Hardwired
           /\ image.group \in Nat /\ RootInode <= image.group
           /\ DOMAIN image.inode \subseteq Nat \ {NONE} /\ RootInode \in DOMAIN image.inode
           /\ image.inode[RootInode].type = "DIR"
           /\ \A i \in DOMAIN image.inode :
                  LET b == Len(image.inode[i].blocks)
                      s == image.inode[i].size
                  IN /\ image.inode[i].blocks \in Seq(Nat)
                     /\ s \in 0..(Word - 1) /\ b * BlockSize >= s /\ (b - 1) * BlockSize < s
           /\ \A b \in DOMAIN image.block :
                  image.block[b] \in Seq([name : Seq(STRING), ino : DOMAIN image.inode])
    /\ \A path \in Paths \union MakePaths : path \in Seq(STRING) /\ NUL \notin ToSet(path)

VARIABLES
    img,     \* the ramdisk
    root,    \* fs_root
    heap,    \* objects allocated
    held,    \* nodes the callers of kopen have
    pc, op,  \* the call under way and where it is
    asked,   \* its path
    todo,    \* what is ahead in str: of strtok_r's *saveptr, then of path_offset
    out,     \* the list of canonicalize_path
    text,    \* the strings that are its values
    list,    \* the block of its header
    str,     \* the string of the step: the copy of the input, then the result
    dirName, \* the copy of the name that create_file_fs makes
    node,    \* the node kopen has reached
    last     \* the answer the caller has not looked at yet

vars == <<img, root, heap, held, pc, op, asked, todo, out, text, list, str, dirName, node,
          last>>

Calls == {"kopen", "create", "mkdir"}

\* The smallest number nobody has.
Fresh(h) == CHOOSE i \in 1..(Cardinality(h) + 1) :
                i \notin h /\ \A j \in 1..(i - 1) : j \in h

NoAnswer == [op |-> "none"]
NoEntry  == [name |-> <<>>, ino |-> NONE]

Type(ino) == img.inode[ino].type

\* ext2_get_inode: the inodes of the first group are found in its table, whatever
\* the group an inode is in.
InTable(ino) == ino <= img.group
-----------------------------------------------------------------------------
(* The ramdisk *)

\* The blocks finddir_initrd goes through.  A device has none.
Scanned(ino) == LET b == img.inode[ino].blocks
                IN [k \in 1..Len(b) |-> b[1] + k - 1]

Readable(ino) == \A k \in DOMAIN Scanned(ino) : Scanned(ino)[k] \in DOMAIN img.block

\* The entries of a directory, in the order they are searched.
Entries(ino) ==
    LET upTo[n \in 0..Len(Scanned(ino))] ==
            IF n = 0 THEN <<>> ELSE upTo[n - 1] \o img.block[Scanned(ino)[n]]
    IN upTo[Len(Scanned(ino))]

Matches(ino, name) == {i \in DOMAIN Entries(ino) : Entries(ino)[i].name = name}

\* finddir_initrd: the inode of the first entry of that name.
Lookup(ino, name) ==
    IF Matches(ino, name) = {} THEN NONE
    ELSE Entries(ino)[CHOOSE i \in Matches(ino, name) :
                          \A j \in Matches(ino, name) : i <= j].ino

\* ext2_get_direntry: the entry at an index, in the order they are searched.
ext2_get_direntry(ino, index) ==
    IF index < Len(Entries(ino)) THEN Entries(ino)[index + 1] ELSE NoEntry

\* initrd_node_root
initrd_node_root(id, garbage) == [id |-> id, ino |-> RootInode, mkdir |-> garbage]

\* The descriptors of the groups are read at byte 2048, where they are if a block
\* has 1024 bytes or 2048: the number of pointers the code counts on, or twice it.
DescriptorsFound == img.pointers <= 2 * Hardwired

\* Nobody fills in create and mkdir of a node: they are what the memory held
\* before.
initrd_mount ==
    /\ root = NULL /\ img.magic /\ DescriptorsFound /\ pc = "idle" /\ last = NoAnswer
    /\ \E garbage \in BOOLEAN : root' = initrd_node_root(Fresh(heap), garbage)
    /\ heap' = heap \union {Fresh(heap)}
    /\ UNCHANGED <<img, held, pc, op, asked, todo, out, text, list, str, dirName, node, last>>

\* Larger blocks: the inodes are taken from where there are none.
MountAstray ==
    /\ root = NULL /\ img.magic /\ ~DescriptorsFound /\ pc = "idle" /\ last = NoAnswer
    /\ pc' = "astray"
    /\ UNCHANGED <<img, root, heap, held, op, asked, todo, out, text, list, str, dirName,
                   node, last>>

\* The same with something that is no ext2 image: the assertion prints and halts
\* the processor, with interrupts on.
AssertFails ==
    /\ root = NULL /\ ~img.magic /\ pc = "idle" /\ last = NoAnswer
    /\ pc' = "halted"
    /\ UNCHANGED <<img, root, heap, held, op, asked, todo, out, text, list, str, dirName,
                   node, last>>

\* The timer wakes it up, and mounting goes on with what it takes for an image.
Resumed ==
    /\ pc = "halted" /\ pc' = "astray"
    /\ UNCHANGED <<img, root, heap, held, op, asked, todo, out, text, list, str, dirName,
                   node, last>>
-----------------------------------------------------------------------------
(* The calls *)

Init == /\ img \in Images /\ root = NULL /\ heap = {} /\ held = {}
        /\ pc = "idle" /\ op = "kopen" /\ asked = <<>> /\ todo = <<>>
        /\ out = list_create /\ text = <<>> /\ list = NONE /\ str = NONE /\ dirName = NONE /\ node = NULL
        /\ last = NoAnswer

\* A call returns; a caller that has not looked at the answer makes no other call.
Answer(path, call, ret) ==
    /\ last' = [op |-> call, path |-> path, ret |-> ret, mounted |-> root # NULL]
    /\ op' = "kopen" /\ asked' = <<>>

\* It looks at the answer, and frees a directory entry it was given.
Seen == /\ pc = "idle" /\ last # NoAnswer /\ last' = NoAnswer
        /\ heap' = IF last.op = "readdir" THEN heap \ {last.dirent} ELSE heap
        /\ UNCHANGED <<img, root, held, pc, op, asked, todo, out, text, list, str,
                       dirName, node>>

\* kopen up to the loop of canonicalize_path: the list and the copy of the name.
\* The working directory is "/", which has no elements; its copy comes and goes.
BeginKopen(h, path) ==
    /\ list' = Fresh(h) /\ str' = Fresh(h \union {list'})
    /\ heap' = h \union {list', str'}
    /\ todo' = path /\ out' = list_create /\ pc' = "tokens"
    /\ UNCHANGED <<text, last>>

kopen(path) ==
    /\ pc = "idle" /\ last = NoAnswer /\ Cardinality(held) < MaxHeld
    /\ \/ /\ root # NULL /\ BeginKopen(heap, path)
          /\ op' = "kopen" /\ asked' = path
       \/ /\ root = NULL /\ Answer(path, "kopen", NONE)
          /\ UNCHANGED <<heap, pc, todo, out, text, list, str>>
    /\ UNCHANGED <<img, root, held, dirName, node>>

\* The separator at the end of a name is cut off, one of them.
Trimmed(path) == IF path # <<>> /\ path[Len(path)] = SEP
                 THEN SubSeq(path, 1, Len(path) - 1) ELSE path

Separators(path) == {i \in DOMAIN path : path[i] = SEP}

\* The directory the new file is to be in.
Parent(path) ==
    IF Separators(path) = {} THEN DOT
    ELSE SubSeq(path, 1, (CHOOSE i \in Separators(path) :
                              \A j \in Separators(path) : i >= j) - 1)

\* What create_file_fs and mkdir_fs return when there is no such directory.
NoParent(call) == IF call = "create" THEN 2 ELSE 1

\* create_file_fs and mkdir_fs up to their kopen
Make(call, path) ==
    /\ pc = "idle" /\ last = NoAnswer /\ call \in {"create", "mkdir"}
    /\ LET d == Fresh(heap) IN
       \/ /\ Trimmed(path) = <<>> /\ Answer(path, call, 1)
          /\ UNCHANGED <<heap, pc, todo, out, text, list, str, dirName>>
       \/ /\ Trimmed(path) # <<>> /\ root = NULL /\ Answer(path, call, NoParent(call))
          /\ UNCHANGED <<heap, pc, todo, out, text, list, str, dirName>>
       \/ /\ Trimmed(path) # <<>> /\ root # NULL
          /\ dirName' = d /\ op' = call /\ asked' = path
          /\ BeginKopen(heap \union {d}, Parent(Trimmed(path)))
    /\ UNCHANGED <<img, root, held, node>>
-----------------------------------------------------------------------------
(* canonicalize_path *)

Without(f, blocks) == [b \in DOMAIN f \ blocks |-> f[b]]

\* Mutant of Pop: the string of the element is not freed.
PopLeaks ==
    LET n == out.tail IN
    /\ heap' = heap \ {n}
    /\ out' = [list_pop(out) EXCEPT !.node = Without(@, {n})]
    /\ text' = Without(text, {out.node[n].value})

\* The element list_pop answers with is freed, with its string.
Pop ==
    LET n == out.tail IN
    /\ heap' = heap \ {n, out.node[n].value}
    /\ out' = [list_pop(out) EXCEPT !.node = Without(@, {n})]
    /\ text' = Without(text, {out.node[n].value})

Push(name) ==
    LET value == Fresh(heap)
        item == Fresh(heap \union {value})
    IN /\ heap' = heap \union {value, item}
       /\ out' = list_insert(out, item, value)
       /\ text' = Put(text, value, name)

\* pch and save
Tok == strtok_r(todo, {SEP})

\* Mutant of Token: "." is skipped without going on to the next name.
TokenSticks ==
    /\ pc = "tokens" /\ Tok.token # <<>>
    /\ todo' = IF Tok.token = DOT THEN todo ELSE Tok.save
    /\ \/ Tok.token = UP /\ out.tail # NIL /\ Pop
       \/ Tok.token = UP /\ out.tail = NIL /\ UNCHANGED <<heap, out, text>>
       \/ Tok.token = DOT /\ UNCHANGED <<heap, out, text>>
       \/ Tok.token \notin {UP, DOT} /\ Push(Tok.token)
    /\ UNCHANGED <<img, root, held, pc, op, asked, list, str, dirName, node, last>>

\* One name of the path
Token ==
    /\ pc = "tokens" /\ Tok.token # <<>> /\ todo' = Tok.save
    /\ \/ Tok.token = UP /\ out.tail # NIL /\ Pop
       \/ Tok.token = UP /\ out.tail = NIL /\ UNCHANGED <<heap, out, text>>
       \/ Tok.token = DOT /\ UNCHANGED <<heap, out, text>>
       \/ Tok.token \notin {UP, DOT} /\ Push(Tok.token)
    /\ UNCHANGED <<img, root, held, pc, op, asked, list, str, dirName, node, last>>

\* The blocks that go with the list: its header, its nodes and their values.
ListBlocks == {list} \union list_free(out) \union list_destroy(out)

Discard == out' = list_create /\ text' = <<>> /\ list' = NONE

\* The names are joined, a separator in front of each; the copy of the input and
\* the list are freed.
Joined ==
    /\ pc = "tokens" /\ Tok.token = <<>> /\ foreach(out) # <<>>
    /\ str' = Fresh(heap \ {str})
    /\ heap' = ((heap \ {str}) \union {str'}) \ ListBlocks
    /\ todo' = FlattenSeq([i \in DOMAIN foreach(out) |->
                               <<SEP>> \o text[out.node[foreach(out)[i]].value]])
    /\ Discard /\ pc' = "walk"
    /\ UNCHANGED <<img, root, held, op, asked, dirName, node, last>>

\* No name is left: the empty string is given to realloc, which takes its
\* argument for a header and looks for the word "free" behind the block.  If
\* that says used, the result is NULL and the old string is lost.
JoinedEmpty ==
    /\ pc = "tokens" /\ Tok.token = <<>> /\ foreach(out) = <<>>
    /\ LET output == Fresh(heap \ {str})
           got == (heap \ {str}) \union {output}
           other == Fresh(got)
       IN \/ /\ str' = other
             /\ heap' = ((got \union {other}) \ {output}) \ ListBlocks
          \/ str' = NONE /\ heap' = got \ ListBlocks
    /\ todo' = <<SEP>> /\ Discard /\ pc' = "root"
    /\ UNCHANGED <<img, root, held, op, asked, dirName, node, last>>
-----------------------------------------------------------------------------
(* kopen *)

\* kopen returns n, from heap h: to its caller, or to create_file_fs.
Return(h, n) ==
    /\ str' = NONE /\ todo' = <<>>
    /\ \/ /\ op = "kopen" /\ pc' = "idle" /\ node' = NULL
          /\ held' = (IF n = NULL THEN held ELSE held \union {n})
          /\ heap' = h /\ Answer(asked, op, n.ino) /\ UNCHANGED dirName
       \/ /\ op # "kopen" /\ n # NULL /\ pc' = "use" /\ node' = n /\ heap' = h
          /\ UNCHANGED <<held, last, dirName, op, asked>>
       \/ /\ op # "kopen" /\ n = NULL /\ pc' = "idle" /\ node' = NULL
          /\ heap' = h \ {dirName} /\ dirName' = NONE
          /\ Answer(asked, op, NoParent(op)) /\ UNCHANGED held

\* The path is one character long: the root is cloned.
CloneRoot ==
    /\ pc = "root" /\ str # NONE
    /\ LET clone == Fresh(heap) IN
           Return((heap \union {clone}) \ {str}, [root EXCEPT !.id = clone])
    /\ UNCHANGED <<img, root, out, text, list>>

\* The path is at address 0, where the two characters were stored: the clone is
\* made all the same, then free(0) touches a header below it.
FreeNull ==
    /\ pc = "root" /\ str = NONE
    /\ node' = [root EXCEPT !.id = Fresh(heap)] /\ heap' = heap \union {Fresh(heap)}
    /\ pc' = "null"
    /\ UNCHANGED <<img, root, held, op, asked, todo, out, text, list, str, dirName, last>>

\* Each separator becomes a terminator, and the search starts behind the first,
\* from a copy of the mount point, the root.
StartWalk ==
    /\ pc = "walk"
    /\ todo' = Tail([i \in DOMAIN todo |-> IF todo[i] = SEP THEN NUL ELSE todo[i]])
    /\ node' = [root EXCEPT !.id = Fresh(heap)] /\ heap' = heap \union {Fresh(heap)}
    /\ pc' = "find"
    /\ UNCHANGED <<img, root, held, op, asked, out, text, list, str, dirName, last>>

\* Mutant of Replaced: the new node is freed instead of the old one.
ReplacedFreesNew(new) == heap

\* "free(node_ptr); node_ptr = node_next"
Replaced(new) == (heap \union {new}) \ {node.id}

\* finddir_fs finds the next name: the node of the entry replaces the one that
\* was searched, and is returned if it was the last name.
Find ==
    /\ pc = "find" /\ LooksLikeDirectory(Type(node.ino)) /\ Readable(node.ino)
    /\ Lookup(node.ino, UpTo(todo, NUL)) # NONE
    /\ InTable(Lookup(node.ino, UpTo(todo, NUL)))
    /\ \E garbage \in BOOLEAN :
       LET n == [id |-> Fresh(heap), ino |-> Lookup(node.ino, UpTo(todo, NUL)),
                 mkdir |-> garbage]
           h == Replaced(n.id)
       IN \/ NUL \notin ToSet(todo) /\ Return(h \ {str}, n)
          \/ /\ NUL \in ToSet(todo) /\ node' = n /\ heap' = h
             /\ todo' = Behind(todo, NUL)
             /\ UNCHANGED <<held, pc, str, dirName, last, op, asked>>
    /\ UNCHANGED <<img, root, out, text, list>>

\* It does not, or the node searched is no directory by its flags.
FindNothing ==
    /\ pc = "find"
    /\ \/ ~LooksLikeDirectory(Type(node.ino))
       \/ Readable(node.ino) /\ Lookup(node.ino, UpTo(todo, NUL)) = NONE
    /\ Return(heap \ {node.id, str}, NULL)
    /\ UNCHANGED <<img, root, out, text, list>>

\* finddir_initrd reads entries where there are none, in the block of a file, or
\* at the place the text of a symbolic link gives as a block number; or what it
\* finds is an inode of another group, and something else is taken for it.
FindAstray ==
    /\ pc = "find" /\ LooksLikeDirectory(Type(node.ino))
    /\ Readable(node.ino) => ~InTable(Lookup(node.ino, UpTo(todo, NUL)))
    /\ pc' = "astray"
    /\ UNCHANGED <<img, root, heap, held, op, asked, todo, out, text, list, str, dirName,
                   node, last>>
-----------------------------------------------------------------------------
(* The rest of create_file_fs and mkdir_fs, and the callers *)

Used == /\ pc = "use"
        /\ ~(LooksLikeDirectory(Type(node.ino)) /\ node.mkdir)
        /\ heap' = heap \ {node.id, dirName}
        /\ node' = NULL /\ dirName' = NONE /\ pc' = "idle" /\ Answer(asked, op, 0)
        /\ UNCHANGED <<img, root, held, todo, out, text, list, str>>

\* The function pointer is what the memory held before.
CallsGarbage == /\ pc = "use" /\ LooksLikeDirectory(Type(node.ino)) /\ node.mkdir
                /\ pc' = "garbage"
                /\ UNCHANGED <<img, root, heap, held, op, asked, todo, out, text, list,
                               str, dirName, node, last>>

\* The requester frees the node: close_initrd does nothing.
Release(n) == /\ pc = "idle" /\ last = NoAnswer /\ n \in held
              /\ held' = held \ {n} /\ heap' = heap \ {n.id}
              /\ UNCHANGED <<img, root, pc, op, asked, todo, out, text, list, str, dirName,
                             node, last>>

\* read_fs: every node kopen returns has its read function.
read_fs(n, offset, length) ==
    /\ pc = "idle" /\ last = NoAnswer /\ n \in held
    /\ LET inode == img.inode[n.ino] IN
           last' = [op |-> "read", file |-> n.ino, offset |-> offset, length |-> length,
                    ret |-> Count(inode, offset, length),
                    copies |-> Copies(img.pointers, inode, offset, length)]
    /\ UNCHANGED <<img, root, heap, held, pc, op, asked, todo, out, text, list, str, dirName, node>>

\* readdir_fs: the entry is copied into a block that the caller is to free.
readdir_fs(n, index) ==
    /\ pc = "idle" /\ last = NoAnswer /\ n \in held
    /\ \/ /\ LooksLikeDirectory(Type(n.ino)) /\ Readable(n.ino)
          /\ LET entry == ext2_get_direntry(n.ino, index)
                 dirent == IF entry = NoEntry THEN NONE ELSE Fresh(heap)
             IN /\ heap' = (heap \union {dirent}) \ {NONE}
                /\ last' = [op |-> "readdir", dir |-> n.ino, index |-> index,
                            dirent |-> dirent, ret |-> entry]
          /\ UNCHANGED pc
       \/ /\ ~LooksLikeDirectory(Type(n.ino))
          /\ last' = [op |-> "readdir", dir |-> n.ino, index |-> index,
                      dirent |-> NONE, ret |-> NoEntry]
          /\ UNCHANGED <<heap, pc>>
       \/ /\ LooksLikeDirectory(Type(n.ino)) /\ ~Readable(n.ino) /\ pc' = "astray"
          /\ UNCHANGED <<heap, last>>
    /\ UNCHANGED <<img, root, held, op, asked, todo, out, text, list, str, dirName, node>>

\* Where the machine goes from here depends on what lies in memory.
Lost == {"null", "garbage", "astray"}
Stops == pc \in Lost /\ UNCHANGED vars

Work == \/ Token \/ Joined \/ JoinedEmpty
        \/ CloneRoot \/ FreeNull \/ StartWalk \/ Find \/ FindNothing \/ FindAstray
        \/ Used \/ CallsGarbage \/ Resumed

Next == \/ initrd_mount \/ MountAstray \/ AssertFails \/ Work \/ Seen \/ Stops
        \/ \E path \in Paths : kopen(path)
        \/ \E path \in MakePaths, call \in {"create", "mkdir"} : Make(call, path)
        \/ \E n \in held :
              \/ Release(n)
              \/ \E offset \in Offsets, length \in Lengths : read_fs(n, offset, length)
              \/ \E index \in Indices : readdir_fs(n, index)

\* A call that has begun goes on.
Spec == Init /\ [][Next]_vars /\ WF_vars(Work)
-----------------------------------------------------------------------------
(* Properties *)

Nodes == [id : Nat, ino : DOMAIN img.inode \union {NONE}, mkdir : BOOLEAN]

\* Every variable has its type; a call that is over has left nothing behind in
\* the variables of its steps.
TypeOK == /\ img \in Images /\ root \in Nodes /\ held \subseteq Nodes /\ node \in Nodes
          /\ heap \subseteq Nat \ {0} /\ op \in Calls /\ asked \in Paths \union MakePaths \union {<<>>}
          /\ pc \in {"idle", "tokens", "root", "walk", "find", "use", "halted"} \union Lost
          /\ pc = "idle" => /\ <<list, str, dirName>> = <<NONE, NONE, NONE>>
                            /\ out = list_create /\ text = <<>> /\ node = NULL

\* The objects the code still has a pointer to, in a sequence.
Pointers == <<root.id, list, str, dirName, node.id>>
            \o foreach(out) \o Values(out)

\* Whatever a pointer leads to is allocated, and two pointers never lead to the
\* same object: nothing is freed that is in use, and nothing is freed twice.
NothingFreedInUse ==
    /\ \A i, j \in DOMAIN Pointers :
           Pointers[i] # NONE => /\ Pointers[i] \in heap
                                 /\ i # j => Pointers[i] # Pointers[j]
    /\ \A n \in held : /\ n.id \in heap
                       /\ \A i \in DOMAIN Pointers : Pointers[i] # n.id

\* The list kopen takes for a stack can be walked in both directions whatever has
\* been pushed and popped, and holds the strings that have been copied; the
\* operations on lists that nobody calls would do on it what they are named for.
ListKept == /\ ListSound(out) /\ ToSet(Values(out)) = DOMAIN text
            /\ OperationsSound(out, list_insert(list_create, Fresh(heap), NONE))

\* The variables have their types, and what they lead to is allocated.
MemoryInv == TypeOK /\ NothingFreedInUse /\ ListKept

\* Between two calls the heap holds the root and the nodes callers asked for: every
\* string, list element and node a call made for itself has been freed, on the
\* paths that fail too.
NoLeak == pc = "idle" =>
              heap = ({root.id} \union {n.id : n \in held}
                      \union (IF last.op = "readdir" THEN {last.dirent} ELSE {})) \ {NONE}

\* The entries in the blocks of a directory.
Listed(ino) == UNION {{img.block[b][k] : k \in DOMAIN img.block[b]} :
                         b \in {img.inode[ino].blocks[i] : i \in DOMAIN img.inode[ino].blocks}}

\* The files of the ramdisk form a tree: a directory has blocks of entries, each name
\* once; ".." leads from a directory to the one it is in, from the root to itself.
\* What is no file, directory or link has no blocks.
Tree ==
    /\ [name |-> UP, ino |-> RootInode] \in Listed(RootInode)
    /\ \A i \in DOMAIN img.inode :
           /\ Type(i) \in Types
           /\ Type(i) \notin {"REG", "DIR", "LNK"} => img.inode[i].blocks = <<>>
           /\ Type(i) = "DIR" =>
                  /\ \A k \in DOMAIN img.inode[i].blocks : img.inode[i].blocks[k] \in DOMAIN img.block
                  /\ \A e, f \in Listed(i) : e.name = f.name => e.ino = f.ino
                  /\ \A e \in Listed(i) :
                         e.name \notin {DOT, UP} /\ Type(e.ino) = "DIR"
                         => [name |-> UP, ino |-> i] \in Listed(e.ino)

\* Its directories lie in consecutive blocks, and nothing on the way is a symbolic
\* link: what finddir_initrd needs to find its way.
Contiguous == \A i \in DOMAIN img.inode :
                  /\ Type(i) # "LNK"
                  /\ Type(i) = "DIR" => \A k \in DOMAIN img.inode[i].blocks :
                         img.inode[i].blocks[k] = img.inode[i].blocks[1] + k - 1

\* It has one group.
OneGroup == \A i \in DOMAIN img.inode : InTable(i)

Orderly == Tree /\ Contiguous /\ OneGroup

\* The entry of a name in the blocks that belong to a directory.
Children(ino, name) == {e.ino : e \in {f \in Listed(ino) : f.name = name}}

\* Where the names lead from the root, "." and ".." being entries like others and
\* only directories having entries; NONE if nowhere.
Resolve(names) ==
    LET at[n \in 0..Len(names)] ==
            IF n = 0 THEN RootInode
            ELSE IF at[n - 1] = NONE \/ Type(at[n - 1]) # "DIR" THEN NONE
            ELSE IF names[n] = DOT THEN at[n - 1]
            ELSE LET c == Children(at[n - 1], names[n])
                 IN IF c = {} THEN NONE ELSE CHOOSE i \in c : TRUE
    IN at[Len(names)]

\* The names of a path: its longest pieces without a separator, in their order.
\* from[i] are those of what follows from the i-th character on.
Names(path) ==
    LET from[i \in 1..(Len(path) + 1)] ==
            IF i > Len(path) THEN <<>>
            ELSE IF path[i] = SEP THEN from[i + 1]
            ELSE IF i = Len(path) \/ path[i + 1] = SEP THEN <<<<path[i]>>>> \o from[i + 1]
            ELSE [from[i + 1] EXCEPT ![1] = <<path[i]>> \o @]
    IN from[1]

Within(seq, x) == \E i \in DOMAIN seq : seq[i] = x

\* On such a ramdisk kopen opens the file its path leads to in the tree; and a
\* path without ".." and "." that leads nowhere opens nothing.
KopenFollowsTree ==
    (last.op = "kopen" /\ last.mounted /\ Orderly) =>
        LET names == Names(last.path) IN
        /\ Resolve(names) # NONE => last.ret = Resolve(names)
        /\ (~Within(names, UP) /\ ~Within(names, DOT)) => last.ret = Resolve(names)

\* create_file_fs and mkdir_fs use the directory the new file would be in, also for
\* names that end in a separator.  (Of two separators only one is cut off, and the
\* new file would be one with an empty name in the directory just named.)
MakeUsesParent ==
    (pc = "use" /\ Orderly /\ Trimmed(Trimmed(asked)) = Trimmed(asked)) =>
        LET names == Names(asked)
            parent == SubSeq(names, 1, Len(names) - 1)
        IN Resolve(parent) \in {node.ino, NONE}

\* A call ends, with an answer or with the machine stopped.
CallsReturn == pc # "idle" ~> pc \in {"idle"} \union Lost

\* On such a ramdisk, whatever the path and however it mixes directories, files
\* and devices, finddir_initrd and readdir_initrd never read entries outside of a
\* directory, and nothing but inodes for inodes.  (What is no ramdisk, and one of
\* larger blocks, is mounted all the same.)
SearchStaysInside == pc = "astray" => ~Orderly \/ ~img.magic \/ ~DescriptorsFound

\* Counting up from 0, readdir_fs shows each entry of a directory once and then
\* none, in the order of the file's blocks, and none of anything else.
ListingIsComplete ==
    (last.op = "readdir" /\ Orderly) =>
        LET inode == img.inode[last.dir]
            all == IF inode.type # "DIR" THEN <<>>
                   ELSE FlattenSeq([k \in DOMAIN inode.blocks |-> img.block[inode.blocks[k]]])
        IN last.ret = IF last.index < Len(all) THEN all[last.index + 1] ELSE NoEntry

\* Names lead where the tree says, in all calls, and not out of it.
NamesFollowTree == /\ KopenFollowsTree /\ MakeUsesParent
                   /\ SearchStaysInside /\ ListingIsComplete

\* The bytes of the buffer a read filled, each with where it came from.
Written == UNION {{<<c.to + i, c.block, c.at + i>> : i \in 0..(c.n - 1)} : c \in last.copies}

\* The bytes it was to fill: those of the file from its offset on.
Wanted == LET f == img.inode[last.file]
              n == IF last.offset + last.length > f.size THEN f.size - last.offset
                                                          ELSE last.length
          IN {<<i, f.blocks[(last.offset + i) \div BlockSize + 1],
                (last.offset + i) % BlockSize>> : i \in 0..(n - 1)}

\* A read that begins in the file or at its end, and does not wrap.
Proper == last.offset <= img.inode[last.file].size /\ last.offset + last.length < Word

\* A file whose blocks the code finds: with blocks of more than 256 pointers it
\* does not find those of the double indirect part, and it knows no triple one.
Mapped == LET n == Len(img.inode[last.file].blocks)
          IN \/ img.pointers = Hardwired /\ n <= Direct + Hardwired + Hardwired * Hardwired
             \/ n <= Direct + img.pointers

\* In an image that is mounted, of blocks of one or two kilobytes, for what kopen
\* finds, and whatever the offset and the length: in whichever part of the inode's
\* tree the blocks are, a proper read fills the buffer with the bytes of the file
\* from the offset on, each at its place and no other, and returns their number;
\* and what returns fewer bytes than asked for has reached the end of the file.
ReadIsExact ==
    last.op = "read" =>
        /\ Proper /\ Mapped => Written = Wanted /\ last.ret = Cardinality(Wanted)
        /\ last.ret < last.length =>
               (last.offset + last.ret) % Word = img.inode[last.file].size
=============================================================================
