------------------------------- MODULE MCFsck -------------------------------
(* Seven inodes: 1 is the journal's, unused, 2 the root, 3 the resize inode, 4 a *)
(* directory of the root, 6 a directory of 4, 5 a file named in the root and in  *)
(* 4, and 7 the orphan file.  Blocks 0 to 3 are metadata; 11 and 12 are free.    *)
EXTENDS Fsck, TLC

MCIno == 1 .. 7
\* The superblock and its descriptors, the inode bitmap behind the block bitmap, the table.
MCMetaRuns == <<<<0, 1>>, <<2, 3>>, <<1, 2>>, <<3, 4>>>>

File(links, blocks) ==
    [links |-> links, dir |-> FALSE, deleted |-> FALSE, owns |-> blocks, reaches |-> blocks,
     again |-> {}, whole |-> TRUE, blocks |-> Cardinality(blocks), acl |-> 0, ok |-> TRUE]

Directory(links, blocks) == [File(links, blocks) EXCEPT !.dir = TRUE]

Name(n, i, t) == [name |-> n, ino |-> i, type |-> t]
Names(dot, dotdot, names) == [parses |-> TRUE, ok |-> TRUE, dot |-> dot, dotdot |-> dotdot, names |-> names]

NamesIn4 == {Name("f", 5, "file"), Name("d", 6, "dir")}

Super == [ok |-> TRUE, valid |-> TRUE, error |-> FALSE, due |-> FALSE, free_blocks |-> 2, free_inodes |-> 0]
Group == [ok |-> TRUE, free_blocks |-> 2, free_inodes |-> 0, used_dirs |-> 3, itable_unused |-> 0,
          block_uninit |-> FALSE, inode_uninit |-> FALSE]

\* A filesystem with nothing wrong.
Sound ==
    (Sb :> Super) @@ (Gd :> Group) @@ (BlockBitmap :> 0 .. 10) @@ (InodeBitmap :> MCIno) @@
    (Inode(1) :> File(0, {})) @@ (Inode(2) :> Directory(3, {5})) @@ (Inode(3) :> File(1, {2, 4})) @@
    (Inode(4) :> Directory(3, {6})) @@ (Inode(5) :> File(2, {7, 8})) @@ (Inode(6) :> Directory(2, {9})) @@ (Inode(7) :> File(1, {10})) @@
    (Dir(2) :> Names(2, 2, {Name("a", 4, "dir"), Name("b", 5, "file")})) @@
    (Dir(4) :> Names(4, 2, NamesIn4)) @@ (Dir(6) :> Names(6, 4, {}))

Image(d) == [backup_differs |-> FALSE, disk |-> d]

\* Wrong in the ways the checker repairs.
Repairable ==
    {BlockBitmap :> 0 .. 9, BlockBitmap :> 0 .. 11, InodeBitmap :> MCIno \ {6},
     Gd :> [Group EXCEPT !.free_blocks = 3, !.used_dirs = 1], Gd :> [Group EXCEPT !.free_inodes = 1],
     Sb :> [Super EXCEPT !.free_blocks = 9], Sb :> [Super EXCEPT !.free_inodes = 4],
     Sb :> [Super EXCEPT !.valid = FALSE], Sb :> [Super EXCEPT !.error = TRUE], Sb :> [Super EXCEPT !.due = TRUE],
     Inode(5) :> File(1, {7, 8}), Inode(4) :> Directory(4, {6})}

\* Wrong in the ways it only reports.
Reported ==
    {Sb :> [Super EXCEPT !.ok = FALSE], Gd :> [Group EXCEPT !.ok = FALSE],
     Inode(5) :> [File(2, {7, 8}) EXCEPT !.deleted = TRUE], Inode(5) :> [File(2, {7, 8}) EXCEPT !.ok = FALSE],
     Inode(5) :> [File(2, {7, 8}) EXCEPT !.blocks = 3], Inode(5) :> File(2, {7, 8, 99}), Inode(5) :> File(2, {0, 7, 8}),
     Inode(5) :> [File(2, {7, 8}) EXCEPT !.again = {8}, !.blocks = 3],
     Inode(5) :> File(2, {7, 8, 9}), Inode(5) :> File(2, {3, 7, 8}), Inode(6) :> File(0, {9}),
     Inode(6) :> [Directory(2, {9}) EXCEPT !.whole = FALSE], Inode(2) :> File(3, {5}),
     Dir(4) :> [Names(4, 2, NamesIn4) EXCEPT !.parses = FALSE], Dir(4) :> [Names(4, 2, NamesIn4) EXCEPT !.ok = FALSE],
     Dir(4) :> Names(5, 2, NamesIn4), Dir(4) :> Names(0, 2, NamesIn4), Dir(4) :> Names(4, 0, NamesIn4),
     Dir(4) :> Names(4, 2, NamesIn4 \cup {Name("f", 6, "dir")}), Dir(4) :> Names(4, 2, NamesIn4 \cup {Name("g", 9, "file")}),
     Dir(4) :> Names(4, 2, {Name("f", 5, "dir"), Name("d", 6, "dir")}), Dir(6) :> Names(6, 6, {}),
     Dir(2) :> Names(2, 2, {Name("a", 4, "dir")})}

\* Wrong in the ways no pass sees: bitmaps said never to have been written, directory 6 without its
\* name, its links as before or as its entries give them, and a root without links or life.
Overlooked ==
    {Gd :> [Group EXCEPT !.block_uninit = TRUE], Gd :> [Group EXCEPT !.inode_uninit = TRUE],
     Dir(4) :> Names(4, 2, {Name("f", 5, "file")}),
     (Dir(4) :> Names(4, 2, {Name("f", 5, "file")})) @@ (Inode(6) :> Directory(1, {9})),
     Inode(2) :> [Directory(0, {5}) EXCEPT !.deleted = TRUE]}

\* Nothing wrong, and the last inode of the table never used.
Shorter ==
    (Sb :> [Super EXCEPT !.free_blocks = 3, !.free_inodes = 1]) @@
    (Gd :> [Group EXCEPT !.free_blocks = 3, !.free_inodes = 1, !.itable_unused = 1]) @@
    (BlockBitmap :> 0 .. 9) @@ (InodeBitmap :> 1 .. 6) @@ (Inode(7) :> File(0, {})) @@ Sound

\* Each alone, and two repairs at once.  No tail of the table hides an inode in use: a check of
\* such a device frees its blocks, as UsedBlocksAreKept says.
MCImages ==
    {Image(Sound), [Image(Sound) EXCEPT !.backup_differs = TRUE], Image(Shorter)}
    \cup {Image(m @@ Sound) : m \in Repairable \cup Reported \cup Overlooked}
    \cup {Image(m @@ n @@ Sound) : m, n \in Repairable}

\* A file with an attribute block.
Attributed ==
    {Image((Inode(5) :> [File(2, {7, 8}) EXCEPT !.acl = 11, !.blocks = 3]) @@ (BlockBitmap :> 0 .. 11) @@
           (Gd :> [Group EXCEPT !.free_blocks = 1]) @@ (Sb :> [Super EXCEPT !.free_blocks = 1]) @@ Sound)}
===============================================================================
