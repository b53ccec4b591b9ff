------------------------------ MODULE MCFormat ------------------------------
(***************************************************************************)
(* Filesystems to make: the three profiles with a block of 24 bits, groups *)
(* of at most 24 blocks, and what the options change, each where it        *)
(* decides something.  Left out are filesystems the formatter makes wrong: *)
(* groups too small for their own metadata that are not the last, a lazy   *)
(* inode table without checksums, a second meta block group left classic,  *)
(* and more backups than a block of the resize inode lists.                *)
(***************************************************************************)
EXTENDS Format

Ext2Features == {"sparse_super", "resize_inode"}
Ext3Features == Ext2Features \cup {"has_journal"}
Ext4Features == Ext3Features \cup {"extents", "64bit", "flex_bg", "metadata_csum", "csum_seed", "orphan_file"}

Ext4 ==
    [blocks |-> 96, first_data_block |-> 0, blocks_per_group |-> 0, inodes_count |-> 0, blocks_per_inode |-> 2,
     features |-> Ext4Features, journal |-> DefaultJournal, reserved_percent |-> 5, flex_bg_size |-> 4, first_meta_bg |-> 0,
     lazy |-> FALSE, zeroed_medium |-> FALSE, concurrency |-> 2, chunk |-> 1]
Ext3 == [Ext4 EXCEPT !.features = Ext3Features]
Ext2 == [Ext4 EXCEPT !.features = Ext2Features, !.journal = NoJournal]

With(par, fs) == [par EXCEPT !.features = @ \cup fs]
Without(par, fs) == [par EXCEPT !.features = @ \ fs]
Sized(par, n) == [par EXCEPT !.blocks = n]
Inodes(par, n) == [par EXCEPT !.inodes_count = n]
Journal(par, n) == [par EXCEPT !.journal = n]
GroupSize(par, n) == [par EXCEPT !.blocks_per_group = n]

\* Formats that are written, and how many groups at a time.
Made == {
    Ext4, Ext3, Ext2,
    [Ext4 EXCEPT !.concurrency = 3, !.chunk = 2],
    [Ext2 EXCEPT !.concurrency = 4, !.first_data_block = 1],
    \* tables that pack round a backup; a flex group that is not whole
    Inodes(Ext4, 96), [Sized(Ext4, 118) EXCEPT !.flex_bg_size = 2, !.lazy = TRUE],
    \* many small groups: the journal starts past the middle's flex group
    [GroupSize(Sized(Ext4, 112), 16) EXCEPT !.flex_bg_size = 2, !.inodes_count = 96, !.concurrency = 1],
    \* journals in pieces, with a leaf block; maps of one, two and three levels
    Journal(Without(Sized(Ext4, 115), {"flex_bg"}), 20), Journal(Ext3, 5), Journal(Ext3, 14),
    Without(Sized(Ext4, 118), {"extents", "64bit"}),
    \* descriptors spread over meta block groups
    With(Without(Sized(Ext4, 118), {"orphan_file"}), {"meta_bg"}),
    [With(Sized(Ext2, 118), {"meta_bg"}) EXCEPT !.concurrency = 1],
    [With(Sized(Ext4, 97), {"meta_bg", "mmp"}) EXCEPT !.first_meta_bg = 1, !.first_data_block = 1],
    \* a zeroed medium; gdt_csum; every group a backup; MMP; no journal below the floor
    [Ext4 EXCEPT !.zeroed_medium = TRUE, !.lazy = TRUE],
    With(Without(Ext4, {"metadata_csum", "sparse_super"}), {"gdt_csum", "mmp"}),
    Sized(Ext4, 38), Journal(Ext4, NoJournal),
    \* the last group dropped; the groups made smaller
    Sized(Ext2, 101), Inodes(Sized(Ext2, 72), 100), Inodes(Ext4, 150), Sized(Ext4, 12)}

\* Formats that are refused.
Unmade == {
    With(Ext4, {"gdt_csum"}), With(Ext2, {"64bit"}), Sized(Ext2, 0), Sized(Ext2, 6), Sized(Ext2, 8),
    [Sized(Ext3, 210) EXCEPT !.blocks_per_inode = 1], Inodes(Sized(Ext3, 210), 32), Inodes(Ext2, 20),
    GroupSize(Inodes(With(Sized(Ext2, 20), {"meta_bg"}), 64), 5), [Ext4 EXCEPT !.flex_bg_size = 3],
    [Ext4 EXCEPT !.reserved_percent = 100],
    Journal(Ext3, 15), Journal(Ext4, 90)}

MCParams == Made \cup Unmade
=============================================================================
