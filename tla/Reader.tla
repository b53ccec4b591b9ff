------------------------------- MODULE Reader -------------------------------
(***************************************************************************)
(* What a filesystem says when it is read: the walks and lookups of fs.rs, *)
(* and the small reader of read.rs.  An image maps a block to its          *)
(* contents, a record whose field "is" says which structure it was written *)
(* as; a block read as another structure reads as zeroes.  Nothing here    *)
(* uses the layout the formatter computed: a superblock and the blocks are *)
(* all there is to go by.                                                  *)
(***************************************************************************)
EXTENDS Integers, FiniteSets, FiniteSetsExt, Sequences

CONSTANTS
    BlockBits, DescPerBlock, InodesPerBlock, AddrPerBlock,  \* what fits in a block
    NDIR                                                    \* direct pointers of an inode

NoDesc == [block_bitmap |-> 0, inode_bitmap |-> 0, inode_table |-> 0, free_blocks |-> 0, free_inodes |-> 0,
           used_dirs |-> 0, flags |-> {}, itable_unused |-> 0]

NoInode == [mode |-> "none", links |-> 0, size |-> 0, blocks |-> 0, uses_extents |-> FALSE,
            i_block |-> [kind |-> "none"]]

-----------------------------------------------------------------------------
(* The superblock's own arithmetic, and which groups hold what *)

desc_per_block(sb) == IF "64bit" \in sb.features THEN DescPerBlock ELSE 2 * DescPerBlock
group_count(sb) == (sb.blocks_count - sb.first_data_block + sb.blocks_per_group - 1) \div sb.blocks_per_group
gdt_blocks(sb) == (group_count(sb) + desc_per_block(sb) - 1) \div desc_per_block(sb)
GroupsOf(sb) == 0 .. group_count(sb) - 1

group_first_block(sb, i) == sb.first_data_block + i * sb.blocks_per_group

group_block_count(sb, i) ==
    Min({group_first_block(sb, i) + sb.blocks_per_group, sb.blocks_count}) - group_first_block(sb, i)

group_has_super(sb, i) ==
    LET odd(base) == LET n[m \in 0 .. i] == IF m = 0 \/ m % base # 0 THEN m ELSE n[m \div base] IN n[i] = 1
    IN  "sparse_super" \notin sb.features \/ i <= 1 \/ (i % 2 = 1 /\ \E base \in {3, 5, 7} : odd(base))

group_has_desc(sb, i) ==
    LET size == desc_per_block(sb)
    IN  IF "meta_bg" \notin sb.features \/ i \div size < sb.first_meta_bg
        THEN group_has_super(sb, i)
        ELSE i % size \in {0, 1, size - 1}

desc_blocks_in_group(sb, i) ==
    IF ~group_has_desc(sb, i) THEN 0
    ELSE IF "meta_bg" \notin sb.features \/ i \div desc_per_block(sb) < sb.first_meta_bg
         THEN gdt_blocks(sb) + sb.reserved_gdt ELSE 1

super_overhead(sb, i) == (IF group_has_super(sb, i) THEN 1 ELSE 0) + desc_blocks_in_group(sb, i)

-----------------------------------------------------------------------------
(* Descriptors, inodes, bitmaps *)

DescIn(img, block, k) ==
    IF block \in DOMAIN img /\ img[block].is = "descs" /\ k \in DOMAIN img[block].descs
    THEN img[block].descs[k] ELSE NoDesc

\* The table behind the primary superblock, whichever copy was opened; under
\* meta_bg each block of it is with the first of the groups it describes.
read_group_descs(img, sb) ==
    LET size == desc_per_block(sb)
        at(i) == IF "meta_bg" \in sb.features
                 THEN LET leader == (i \div size) * size
                      IN  group_first_block(sb, leader) + (IF group_has_super(sb, leader) THEN 1 ELSE 0)
                 ELSE sb.first_data_block + 1 + i \div size
    IN  [i \in GroupsOf(sb) |-> DescIn(img, at(i), i % size)]

InodeIn(img, block, k) ==
    IF block \in DOMAIN img /\ img[block].is = "inodes" /\ k \in DOMAIN img[block].inodes
    THEN img[block].inodes[k] ELSE NoInode

read_inode(img, sb, descs, inum) ==
    LET within == (inum - 1) % sb.inodes_per_group
    IN  InodeIn(img, descs[(inum - 1) \div sb.inodes_per_group].inode_table + within \div InodesPerBlock,
                within % InodesPerBlock)

has_csum(sb) == {"metadata_csum", "gdt_csum"} \cap sb.features # {}

Bits(img, block) == IF block \in DOMAIN img /\ img[block].is = "bits" THEN img[block].set ELSE {}

read_block_bitmap(img, sb, desc) ==
    IF "BLOCK_UNINIT" \in desc.flags /\ has_csum(sb)
    THEN sb.blocks_per_group .. BlockBits - 1 ELSE Bits(img, desc.block_bitmap)

read_inode_bitmap(img, sb, desc) ==
    IF "INODE_UNINIT" \in desc.flags /\ has_csum(sb)
    THEN sb.inodes_per_group .. BlockBits - 1 ELSE Bits(img, desc.inode_bitmap)

-----------------------------------------------------------------------------
(* Block maps.  A visit names a data block by its logical number, a block of *)
(* the map itself by Metadata.                                               *)

Metadata == -1

Pointer(img, block, i) ==
    IF block \in DOMAIN img /\ img[block].is = "pointers" THEN img[block].ptr[i] ELSE 0

LeafExtents(img, i_block) ==
    IF i_block.leaf = 0 THEN i_block.extents
    ELSE IF img[i_block.leaf].is = "extents" THEN img[i_block.leaf].extents ELSE << >>

walk_extents(img, inode) ==
    LET i_block == inode.i_block
        list == LeafExtents(img, i_block)
    IN  UNION {{[logical |-> list[k].block + d, physical |-> list[k].start + d] : d \in 0 .. list[k].len - 1} :
                  k \in DOMAIN list}
        \cup (IF i_block.leaf = 0 THEN {} ELSE {[logical |-> Metadata, physical |-> i_block.leaf]})

\* The blocks at each height below an indirect block, with the logical number each begins at.
walk_indirect_level(img, root, depth, start) ==
    LET level[h \in 0 .. depth] ==
            IF h = depth THEN {<<root, start>>}
            ELSE {<<Pointer(img, n[1][1], n[2]), n[1][2] + n[2] * AddrPerBlock ^ h>> :
                     n \in {m \in level[h + 1] \X (0 .. AddrPerBlock - 1) : Pointer(img, m[1][1], m[2]) # 0}}
    IN  {[logical |-> n[2], physical |-> n[1]] : n \in level[0]}
        \cup {[logical |-> Metadata, physical |-> n[1]] : n \in UNION {level[h] : h \in 1 .. depth}}

\* The first logical block behind each of the three indirect pointers.
FirstBehind(depth) == NDIR + (CASE depth = 1 -> 0 [] depth = 2 -> AddrPerBlock
                                [] OTHER -> AddrPerBlock + AddrPerBlock ^ 2)

walk_indirect(img, inode) ==
    LET ptr == inode.i_block.pointers
    IN  {[logical |-> i, physical |-> ptr[i]] : i \in {j \in 0 .. NDIR - 1 : ptr[j] # 0}}
        \cup UNION {walk_indirect_level(img, ptr[NDIR + d - 1], d, FirstBehind(d)) :
                       d \in {e \in 1 .. 3 : ptr[NDIR + e - 1] # 0}}

has_block_map(inode) == inode.mode \in {"dir", "file"} /\ inode.i_block.kind # "none"

walk_blocks(img, inode) ==
    IF ~has_block_map(inode) THEN {}
    ELSE IF inode.uses_extents THEN walk_extents(img, inode) ELSE walk_indirect(img, inode)

resolve_extent(img, inode, logical) ==
    LET list == LeafExtents(img, inode.i_block)
        hit == {k \in DOMAIN list : list[k].block <= logical /\ logical < list[k].block + list[k].len}
    IN  IF hit = {} THEN 0 ELSE LET e == list[Min(hit)] IN e.start + (logical - e.block)

\* One index per level, from the top; 0 stands for a hole.
resolve_indirect(img, inode, logical) ==
    LET ptr == inode.i_block.pointers
        behind == {d \in 1 .. 3 : logical < FirstBehind(d) + AddrPerBlock ^ d}
        depth == Min(behind)
        rest == logical - FirstBehind(depth)
        step[h \in 0 .. depth] ==
            IF h = depth THEN ptr[NDIR + depth - 1]
            ELSE Pointer(img, step[h + 1], (rest \div AddrPerBlock ^ h) % AddrPerBlock)
    IN  IF logical < NDIR THEN ptr[logical] ELSE IF behind = {} THEN 0 ELSE step[0]

resolve_block(img, inode, logical) ==
    IF ~has_block_map(inode) THEN 0
    ELSE IF inode.uses_extents THEN resolve_extent(img, inode, logical) ELSE resolve_indirect(img, inode, logical)

-----------------------------------------------------------------------------
(* Directories *)

EntriesIn(img, block) == IF block # 0 /\ img[block].is = "entries" THEN img[block].names ELSE {}

\* A directory's names, as pairs of a name and the inode it stands for.
read_dir(img, inode) == UNION {EntriesIn(img, resolve_block(img, inode, l)) : l \in 0 .. inode.size - 1}

lookup(img, inode, name) ==
    LET found == {e \in read_dir(img, inode) : e[1] = name}
    IN  IF found = {} THEN 0 ELSE (CHOOSE e \in found : TRUE)[2]

-----------------------------------------------------------------------------
(* The reader of read.rs: one table after the superblock, extents only *)

boot_read_group_desc(img, sb, i) ==
    DescIn(img, sb.first_data_block + 1 + i \div desc_per_block(sb), i % desc_per_block(sb))

boot_read_inode(img, sb, inum) ==
    read_inode(img, sb, [i \in GroupsOf(sb) |-> boot_read_group_desc(img, sb, i)], inum)

boot_extents_of(img, inode) ==
    LET list == LeafExtents(img, inode.i_block) IN {list[k] : k \in DOMAIN list}

\* The block each part of a file is read from; 0 where the file reads as zeroes.
boot_read_inode_data(img, inode) ==
    [l \in 0 .. inode.size - 1 |->
        LET hit == {e \in boot_extents_of(img, inode) : e.block <= l /\ l < e.block + e.len}
        IN  IF hit = {} THEN 0 ELSE LET e == CHOOSE e \in hit : TRUE IN e.start + (l - e.block)]

boot_lookup(img, sb, inode, name) ==
    LET data == boot_read_inode_data(img, inode)
        found == {e \in UNION {EntriesIn(img, data[l]) : l \in DOMAIN data} : e[1] = name}
    IN  IF found = {} THEN 0 ELSE (CHOOSE e \in found : TRUE)[2]
=============================================================================
