------------------------------- MODULE Layout -------------------------------
(***************************************************************************)
(* Where a filesystem's metadata goes: layout.rs, with the rules of        *)
(* params.rs on the features.  A geometry g is a record of the numbers     *)
(* Geometry keeps; everything here is computed from it.  Byte sizes appear *)
(* as what fits in a block.                                                *)
(***************************************************************************)
EXTENDS Integers, FiniteSets, FiniteSetsExt, Sequences

CONSTANTS
    BlockBits,       \* bits of one bitmap block, block_size * 8
    DescPerBlock,    \* 64-byte group descriptors in a block (twice as many without 64bit)
    InodesPerBlock,  \* inodes in a block of the inode table
    AddrPerBlock,    \* block pointers in a block
    Slack,           \* blocks a last group must hold besides its metadata, 50 in the code
    GrowBy,          \* how many times its size a filesystem may be grown to, 1024 in the code
    MaxCount,        \* u32::MAX
    MinShrink,       \* the smallest group that is still made smaller, 256 in the code
    ShrinkBy,        \* by how much, 8 in the code
    JournalFloor,    \* the smallest filesystem with a journal by default
    JournalSize      \* its journal's size

ASSUME LayoutAssumption ==
    /\ \A n \in {BlockBits, DescPerBlock, InodesPerBlock, AddrPerBlock, MaxCount, ShrinkBy} : n \in Nat \ {0}
    /\ \A n \in {Slack, GrowBy, MinShrink, JournalFloor, JournalSize} : n \in Nat
    /\ MinShrink > ShrinkBy

div_ceil(a, b) == (a + b - 1) \div b

\* Inode numbers of the format.
ROOT == 2
RESIZE == 7
JOURNAL == 8
FIRST_INO == 11

\* JournalSize::None and ::Default; any other value is a number of blocks.
NoJournal == -1
DefaultJournal == 0

-----------------------------------------------------------------------------
(* Features *)

Forbidden(f) ==
    \/ {"metadata_csum", "gdt_csum"} \subseteq f
    \/ "64bit" \in f /\ "extents" \notin f

normalise(f) ==
    f \ (   (IF "has_journal" \notin f THEN {"orphan_file"} ELSE {})
         \cup (IF "metadata_csum" \notin f THEN {"csum_seed"} ELSE {})
         \cup (IF "meta_bg" \in f THEN {"resize_inode"} ELSE {}))

resolve_features(p) ==
    normalise(IF p.journal = NoJournal THEN p.features \ {"has_journal"} ELSE p.features)

default_journal_blocks(blocks) == IF blocks < JournalFloor THEN 0 ELSE JournalSize

is_power_of(n, base) ==
    LET reduced[m \in 0 .. n] == IF m = 0 \/ m % base # 0 THEN m ELSE reduced[m \div base]
    IN  n # 0 /\ reduced[n] = 1

has_super_for(group, f) ==
    \/ "sparse_super" \notin f
    \/ group <= 1
    \/ group % 2 = 1 /\ \E base \in {3, 5, 7} : is_power_of(group, base)

-----------------------------------------------------------------------------
(* Geometry::compute.  A trial t is one turn of its loop, for a number of *)
(* blocks and a group size.                                               *)

TooManyInodes(p) ==
    /\ p.inodes_count = 0
    /\ p.blocks \div p.blocks_per_inode > MaxCount
    /\ "64bit" \notin resolve_features(p)

requested_inodes(p) ==
    IF p.inodes_count # 0
    THEN Max({p.inodes_count, FIRST_INO + 1})
    ELSE Min({MaxCount, Max({p.blocks \div p.blocks_per_inode, 16})})

desc_per_block(f) == IF "64bit" \in f THEN DescPerBlock ELSE 2 * DescPerBlock

\* Whole inode table blocks, then down to a multiple of eight.
Rounded(ipg) == (Max({div_ceil(ipg, InodesPerBlock) * InodesPerBlock, 8}) \div 8) * 8

\* The largest request up to ipg whose rounding keeps the total within 32 bits; 0 if none does.
ipg_retry(ipg, groups) ==
    Max({0} \cup {n \in 1 .. ipg : Rounded(n) * groups <= MaxCount})

calc_reserved_gdt_blocks(blocks, first, bpg, dpb, desc_blocks) ==
    LET rsv_groups == div_ceil(Min({blocks * GrowBy, MaxCount}) - first, bpg)
    IN  Min({Max({div_ceil(rsv_groups, dpb) - desc_blocks, 0}), AddrPerBlock})

Groups(p, blocks, bpg) == div_ceil(blocks - p.first_data_block, bpg)

Wanted(p, blocks, bpg) == div_ceil(requested_inodes(p), Groups(p, blocks, bpg))

Trial(p, blocks, bpg) ==
    LET f == resolve_features(p)
        groups == Groups(p, blocks, bpg)
        desc_blocks == div_ceil(groups, desc_per_block(f))
        ipg == ipg_retry(Min({Wanted(p, blocks, bpg), 65536 - InodesPerBlock}), groups)
        reserved == IF "resize_inode" \notin f THEN 0
                    ELSE calc_reserved_gdt_blocks(blocks, p.first_data_block, bpg, desc_per_block(f), desc_blocks)
        itable == div_ceil(Rounded(ipg), InodesPerBlock)
    IN  [groups |-> groups, desc_blocks |-> desc_blocks, ipg |-> ipg, reserved |-> reserved, itable |-> itable,
         rem |-> (blocks - p.first_data_block) % bpg,
         overhead_last |-> 2 + itable
                           + (IF has_super_for(groups - 1, f) THEN 1 + desc_blocks + reserved ELSE 0)]

GroupsTooLarge(p, blocks, bpg) ==
    Groups(p, blocks, bpg) # 0 /\ Wanted(p, blocks, bpg) > BlockBits

\* What keeps a trial from being the answer: the group size, the last group, or an error.
Unplaceable(p, blocks, bpg) ==
    \/ Groups(p, blocks, bpg) = 0
    \/ GroupsTooLarge(p, blocks, bpg) /\ bpg < MinShrink
    \/ /\ Groups(p, blocks, bpg) # 0 /\ ~GroupsTooLarge(p, blocks, bpg)
       /\ LET t == Trial(p, blocks, bpg) IN
             \/ t.ipg = 0
             \/ t.groups = 1 /\ t.rem # 0 /\ t.rem < t.overhead_last

LastTooShort(p, blocks, bpg) ==
    LET t == Trial(p, blocks, bpg) IN t.rem # 0 /\ t.rem < t.overhead_last + Slack

\* The geometry, from the trial that fits.
Geometry(p, blocks, bpg) ==
    LET f == resolve_features(p)
        t == Trial(p, blocks, bpg)
        meta_bg == "meta_bg" \in f \/ t.reserved + t.desc_blocks > (bpg * 3) \div 4
        f2 == IF meta_bg THEN (f \cup {"meta_bg"}) \ {"resize_inode"} ELSE f
        f3 == IF p.journal = DefaultJournal /\ default_journal_blocks(blocks) = 0
              THEN normalise(f2 \ {"has_journal"}) ELSE f2
    IN  [blocks_count |-> blocks, first_data_block |-> p.first_data_block, blocks_per_group |-> bpg,
         inodes_per_group |-> Rounded(t.ipg), itable |-> t.itable, group_count |-> t.groups,
         desc_blocks |-> t.desc_blocks, reserved_gdt |-> IF meta_bg THEN 0 ELSE t.reserved,
         flex |-> IF "flex_bg" \in f THEN p.flex_bg_size ELSE 1,
         meta_bg |-> meta_bg, first_meta_bg |-> IF meta_bg THEN p.first_meta_bg ELSE 0,
         desc_per_block |-> desc_per_block(f), features |-> f3]

Refused(g, p) ==
    \/ g.inodes_per_group < FIRST_INO + (IF "orphan_file" \in resolve_features(p) THEN 1 ELSE 0)
    \/ g.meta_bg /\ 2 + g.itable + 2 > g.blocks_per_group
    \/ "flex_bg" \in g.features /\ ~is_power_of(p.flex_bg_size, 2)
    \/ (g.blocks_count * p.reserved_percent) \div 100 >= g.blocks_count
    \/ g.blocks_count > MaxCount /\ "64bit" \notin g.features

-----------------------------------------------------------------------------
(* A group's place, and the front of it *)

GroupsOf(g) == 0 .. g.group_count - 1
has_super(g, i) == has_super_for(i, g.features)
group_first_block(g, i) == g.first_data_block + i * g.blocks_per_group
group_last_block(g, i) == Min({group_first_block(g, i) + g.blocks_per_group - 1, g.blocks_count - 1})
GroupBlocks(g, i) == group_first_block(g, i) .. group_last_block(g, i)
group_of_block(g, b) == (b - g.first_data_block) \div g.blocks_per_group

\* The whole table, as against one block of it in a meta block group.
Classic(g, i) == ~g.meta_bg \/ i \div g.desc_per_block < g.first_meta_bg

group_has_desc(g, i) ==
    IF Classic(g, i) THEN has_super(g, i) ELSE i % g.desc_per_block \in {0, 1, g.desc_per_block - 1}

desc_blocks_in_group(g, i) ==
    IF ~group_has_desc(g, i) THEN 0 ELSE IF Classic(g, i) THEN g.desc_blocks + g.reserved_gdt ELSE 1

desc_block_location(g, i) == group_first_block(g, i) + (IF has_super(g, i) THEN 1 ELSE 0)

super_overhead(g, i) == (IF has_super(g, i) THEN 1 ELSE 0) + desc_blocks_in_group(g, i)

in_super_region(g, b) ==
    \/ b < g.first_data_block \/ b >= g.blocks_count
    \/ LET i == group_of_block(g, b) IN b < group_first_block(g, i) + super_overhead(g, i)

-----------------------------------------------------------------------------
(* Bitmaps and inode tables, packed at the front of each flex group *)

flex_first_group(g, i) == (i \div g.flex) * g.flex
flex_members(g, first) == Min({g.flex, g.group_count - first})

\* What no superblock copy or descriptor table is in.
Clear(g) == {b \in g.first_data_block .. g.blocks_count - 1 : ~in_super_region(g, b)}

\* The numbers of a set of positive ones, in order.
Ascending[S \in SUBSET Nat] ==
    LET last == Max(S \cup {0})
        upto[n \in 0 .. last] == IF n = 0 THEN << >> ELSE IF n \in S THEN Append(upto[n - 1], n) ELSE upto[n - 1]
    IN  upto[last]

\* Mutant: only the run's first block has to be clear.
TakeRun_Start(g, clear, len) ==
    [cursor \in Nat |-> Min({g.blocks_count} \cup {b \in clear : b >= cursor /\ b + len <= g.blocks_count})]

\* The first place at or after a cursor with len clear blocks in a row;
\* blocks_count if there is none.
TakeRun(g, clear, len) ==
    [cursor \in Nat |-> Min({g.blocks_count} \cup {b \in clear : b >= cursor /\ (b .. b + len - 1) \subseteq clear})]

\* Every member's block bitmap, then every inode bitmap, then every inode table.
place_flex(g, clear, first) ==
    LET m == flex_members(g, first)
        singles == Ascending[{b \in clear : b >= group_first_block(g, first)}]
        one(k) == IF k <= Len(singles) THEN singles[k] ELSE g.blocks_count
        cursor[k \in 0 .. m] == IF k = 0 THEN one(2 * m) + 1 ELSE TakeRun(g, clear, g.itable)[cursor[k - 1]] + g.itable
    IN  [i \in first .. first + m - 1 |->
            [block_bitmap |-> one(i - first + 1),
             inode_bitmap |-> one(i - first + 1 + m),
             inode_table |-> cursor[i - first + 1] - g.itable]]

\* Where each group keeps them: what the code computes again for every group it asks about.
group(g, clear) == [i \in GroupsOf(g) |-> place_flex(g, clear, flex_first_group(g, i))[i]]

Placed(g, at, i) == at[i].inode_table < g.blocks_count

MetaBlocks(g, place) ==
    {place.block_bitmap, place.inode_bitmap} \cup (place.inode_table .. place.inode_table + g.itable - 1)

flex_metadata_runs(g, at, i) ==
    LET first == flex_first_group(g, i)
    IN  UNION {MetaBlocks(g, at[j]) : j \in first .. first + flex_members(g, first) - 1}

SuperRegion(g, i) == group_first_block(g, i) .. group_first_block(g, i) + super_overhead(g, i) - 1
=============================================================================
