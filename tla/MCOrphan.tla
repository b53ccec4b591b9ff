------------------------------ MODULE MCOrphan ------------------------------
(* Five inodes: 1 is reserved, 2 and 4 have no links left, 3 is linked and longer *)
(* than its size, 5 is nobody's orphan and shares its attribute block with 2.     *)
EXTENDS Orphan, TLC

MCIno == 1 .. 5
MCBlk == 20 .. 31

Entry(l, p) == [logical |-> l, phys |-> p]
Node(b, f) == [blk |-> b, first |-> f]

File(links, cut, root, nodes, blocks) ==
    [NoInode EXCEPT !.links = links, !.mapped = TRUE, !.cut = cut,
                    !.root = root, !.nodes = nodes, !.blocks = blocks]

Inodes(cut) ==
    (1 :> [NoInode EXCEPT !.links = 1]) @@
    (2 :> [File(0, 1, {Entry(0, 20)}, << >>, 2) EXCEPT !.acl = 30]) @@
    (3 :> File(1, cut, {}, <<Node(23, 0), Node(26, 3)>>, 6)) @@
    (4 :> File(0, 1, {}, <<Node(27, 0)>>, 2)) @@
    (5 :> [File(1, 1, {Entry(0, 29)}, << >>, 2) EXCEPT !.acl = 30])

IndexEntries(b) ==
    CASE b = 23 -> {Entry(0, 21), Entry(1, 22), Entry(2, 24)}
      [] b = 26 -> {Entry(3, 25)}
      [] b = 27 -> {Entry(0, 28)}
      [] OTHER -> {}

Super == [last_orphan |-> 0, present |-> FALSE, valid |-> TRUE, error |-> FALSE, bigalloc |-> FALSE,
          file |-> FALSE, free_blocks |-> 1, free_inodes |-> 0]

\* A device with the orphans of `chain`, in order, and those of the two file blocks.
Device(cut, super, chain, file) ==
    LET NextOf(i) == LET at == {k \in DOMAIN chain : chain[k] = i /\ k < Len(chain)}
                     IN  IF at = {} THEN 0 ELSE chain[(CHOOSE k \in at : \A j \in at : k <= j) + 1]
    IN  [p \in {Inode(i) : i \in MCIno} |-> [Inodes(cut)[p[2]] EXCEPT !.dtime = NextOf(p[2])]] @@
        [p \in {Index(b) : b \in MCBlk} |-> [ok |-> TRUE, entries |-> IndexEntries(p[2])]] @@
        [p \in {Refs(b) : b \in MCBlk} |-> IF p[2] = 30 THEN 2 ELSE 0] @@
        [p \in {Slots(k) : k \in 1 .. 2} |-> [ok |-> TRUE, slots |-> file[p[2]]]] @@
        (Sb :> [super EXCEPT !.last_orphan = IF chain = << >> THEN 0 ELSE chain[1],
                             !.file = file # <<<<0, 0>>, <<0, 0>>>>, !.present = file # <<<<0, 0>>, <<0, 0>>>>]) @@
        (Gd :> [free_blocks |-> 1, free_inodes |-> 0]) @@
        (BlockBitmap :> 20 .. 30) @@ (InodeBitmap :> MCIno)

Image(intact, d) == [intact |-> intact, file |-> "whole", oblocks |-> 2, disk |-> d]

NoFile == <<<<0, 0>>, <<0, 0>>>>

\* Chains and orphan files in order, each of them listing every orphan, one of them twice.
Lists == {<<<<2, 3, 4>>, NoFile>>, <<<<3, 4, 2>>, NoFile>>, <<<<4, 3, 2>>, NoFile>>,
          <<<< >>, <<<<2, 3>>, <<0, 4>>>>>>, <<<<2, 3>>, <<<<4, 0>>, <<0, 0>>>>>>,
          <<<<2, 3, 4>>, <<<<0, 0>>, <<3, 2>>>>>>}

InOrder ==
    {Image(TRUE, Device(cut, [Super EXCEPT !.valid = v], l[1], l[2])) :
        cut \in {2, 3}, v \in BOOLEAN, l \in Lists}

\* No orphans, and a superblock whose counts have drifted from the groups'.
Drifted ==
    Image(TRUE, (Inode(2) :> [Inodes(4)[2] EXCEPT !.links = 1]) @@ (Inode(4) :> [Inodes(4)[4] EXCEPT !.links = 1]) @@
                (Sb :> [Super EXCEPT !.free_blocks = 7]) @@ Device(4, Super, << >>, NoFile))

Slotted == Device(2, Super, << >>, <<<<2, 3>>, <<0, 4>>>>)
Chained == Device(2, Super, <<2, 3, 4>>, NoFile)
\* An orphan file without a block, and nothing in the chain.
Empty ==
    LET d == (Sb :> [Super EXCEPT !.present = TRUE, !.file = TRUE]) @@ Device(2, Super, << >>, NoFile)
    IN  [intact |-> FALSE, file |-> "whole", oblocks |-> 0, disk |-> [q \in Places(0) |-> d[q]]]

Errors == [Super EXCEPT !.error = TRUE]

\* What can be wrong with the lists, the maps and the superblock's flags.
OutOfOrder ==
    {Image(FALSE, d) : d \in
        {Device(2, Super, <<2, 3, 2>>, NoFile), Device(2, Super, <<3, 99>>, NoFile),
         Device(2, Super, <<2, 1>>, NoFile), Device(2, Super, <<99>>, NoFile),
         Device(2, Errors, <<2, 3, 4>>, NoFile), Device(2, Errors, << >>, <<<<2, 3>>, <<0, 0>>>>),
         Device(2, [Super EXCEPT !.bigalloc = TRUE], <<2, 3, 4>>, NoFile),
         (Index(26) :> [ok |-> FALSE, entries |-> {}]) @@ Chained,
         (Index(27) :> [ok |-> FALSE, entries |-> {}]) @@ Chained,
         (Index(27) :> [ok |-> FALSE, entries |-> {}]) @@ Slotted,
         (Slots(2) :> [ok |-> FALSE, slots |-> <<0, 4>>]) @@ Slotted,
         (Slots(2) :> [ok |-> TRUE, slots |-> <<4, 99>>]) @@ Slotted}}
    \cup {[Empty EXCEPT !.file = f] : f \in {"absent", "unwalkable"}}
    \cup {[Image(FALSE, d) EXCEPT !.file = f] :
            d \in {Slotted, Device(2, Errors, << >>, <<<<2, 3>>, <<0, 0>>>>)}, f \in {"absent", "unwalkable"}}

MCImages == InOrder \cup OutOfOrder \cup {Drifted}
===============================================================================
