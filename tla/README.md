# A TLA+ development of mkfs.ext4.rs

mkfs.ext4.rs is a Rust library and two command line tools that create, check and
repair ext4 filesystems on an asynchronous block device. This directory models
the parts of it whose correctness depends on order, interleaving and failure,
checks them with TLC on small instances and proves the central results for every
instance with TLAPS.

## The system

| Part (under `src/src/`) | State it keeps | Operations | Module |
|---|---|---|---|
| Block cache (`cache.rs`) | a bounded map of blocks, each with a valid and a dirty byte range and an age, behind one async mutex | `read_at`, `write_at`, `write_zeroes`, `flush` | `Cache`, over `BlockStore` |
| Block device trait (`device.rs`) | the bytes of the device | the same four | `BlockStore`, as the contract |
| Multiple mount protection (`mmp.rs`) | one block shared by every host; a lease per holder | `acquire`, `heartbeat`, `release` | `Mmp` |
| Journal recovery (`recovery.rs`) | the log, its superblock, the revoke table | `Journal::open`, `recover` (scan, revoke, replay), `reset`, `clear_errno` | `Recovery` |
| Checker, journal stage (`fsck.rs`) | the superblock in memory and on the device | `journal_stage`, `preen_halt` | `Recovery` |
| Checker, before its passes (`fsck.rs`) | the superblock in memory and on the device | `check_opened` up to pass 1, `orphan_stage`, `check_due`, `skip` | `Orphan` |
| Checker, passes (`fsck.rs`) | what the passes found, the report | passes 0 to 5, `BlockRuns`, preening, the repairs, the final mark | `Fsck`, `BlockRuns` |
| Orphan release (`orphan.rs`) | the orphan chain and file, inodes, bitmaps | `release_orphans`, `truncate`, `AllocStats` | `Orphan` |
| Formatter (`format.rs`) | the plan, groups in flight, what was written | `plan`, the allocator, `write_filesystem_chunked` and everything it writes | `Format` |
| Layout and parameters (`layout.rs`, `params.rs`, `features.rs`) | none | `Geometry::compute`, placement, superblock copies, `normalise` | `Layout`; the search in `Format` |
| Filesystem handle (`fs.rs`) | superblock and descriptors in memory | descriptors, inodes, bitmaps, walks, lookups, the flushes | `Reader`; `Fsck` and `Recovery` where they use it |
| Read path (`read.rs`) | none | `Ext4Reader`: descriptors, inodes, extents, data, lookup | `Reader` |
| Journal creation (`journal.rs`) | none | the size and the blocks of a new journal | `Layout`, `Format` |
| Comparison, structures, checksums, tools | none that outlives a call | encoding, printing | not modelled |

How they meet: the tools open a device, usually behind a `CachedDevice`; the
checker takes the MMP block as a checker, opens the filesystem, lets `Recovery`
replay the journal and `orphan` release the orphans, and only then runs its
passes; the formatter writes groups concurrently through the same device trait.
Everything the checker relies on after a crash rests on two things: the device's
`flush` and the order of the writes around it.

What is hard to test here, and is listed line by line under `hazards` in
`PROJECT.json`: partial failure inside the cache's write-back, power cuts between
any two writes of recovery or orphan release, hosts that stamp the MMP block in
orders nobody wrote a test for, sequence numbers that wrap, loops whose end rests on
what an earlier pass has seen, and a formatter, a checker and two readers that each
compute for themselves where the metadata of a filesystem lies.

## BlockStore and Cache

`BlockStore` is the abstract specification: bytes `mem`, the call in progress,
the caller's buffer, and two histories. `may[a]` is the set of bytes address `a`
may show after a power cut (everything it was given since the last successful
flush); `weak` is the set of addresses whose last write or write-back was
reported failed. A read is served from `mem`; a successful flush pins every
settled byte; an unsettled byte may fall back to another of its bytes.

`Cache` is `CachedDevice`. A call holds the mutex from `Begin` to its return, so
there is no interleaving of calls; every await on the inner device is a step
(`ReadMiss`, `ReadFill`, `WriteBlock`'s gap fill, `PutRun`, `Sync`, `ZeroInner`),
where the device may fail (`InnerFails`, `PutRunFails`, `ZeroInnerFails`; a
failing write lands any part of its bytes) or the power go. Dropping the future
of a call in the middle of an await leaves the same state as an error there.
`write_back` is modelled block by block (`Gather`, `DropClean`, `PutRun`,
`BackDone`), its run buffer included. Ranges are kept as device addresses; ticks
as their order; the statistics are left out. `ImplementsStore` is the refinement,
with `mem` mapped to `View`: the zeroes a `write_zeroes` promises, else the run
buffer, else the valid cached bytes, else the device.

Runs: `cache_coalesce` (three blocks of two bytes, the last one short, two cached
and evicted together, so runs join across blocks and eviction hits the blocks of
the call itself), `cache_faults` (two blocks of three bytes, the smallest with a
gap inside a block, one cached, every inner call may fail), `cache_flush_retry`
(a finding, below). Three calls are enough to write, disturb and observe; old,
new and zero bytes are told apart.

## Mmp

Hosts share one MMP block. `timer[h]` is the time to the host's next step;
`Tick` moves all timers and waits for a step later than `Delay`. `acquire` is
`AcquireClean`, `AcquireHeld` or `AcquireRefused`, then `Watched`, `Stamp`,
`Confirm` and, for a checker, `Mark`; the lease's operations are `heartbeat` and
`release`; `Die` is a crash or an I/O error anywhere. `new_seq` draws 32 random
bits and is taken not to collide with a number in use. The wait override of the
tests is left out.

Runs: `mmp_mounters` (three symmetric hosts, a promise longer than the
superblock's interval left by an earlier holder, every step up to one unit late),
`mmp_checker` (a mounter and a checker, with liveness), `mmp_mark` (a finding).

Fairness: time passes (`SF` of `Tick`: a host that keeps starting over does not
stop the clock) and a step that is due is taken (`WF` of `Due(h)`: the sleeping
task is polled, and its read or write returns or fails). Nothing is assumed of
hosts that may come, release or crash. The margin `WaitAssumption` (a heartbeat
is late by less than `wait_for(i) - i`) is what the code's `2i + 1` and `i + 60`
provide for.

## Recovery

One device with a volatile write cache: a home block may hold, after a power cut,
any value it was given since the last flush (`dpend`), and so may the journal
superblock (`jpend`). `recover`'s three passes are taken one log block, one tag,
one home write at a time; `journal_stage` before and after it is modelled with
its route (`Route`), its reload and its superblock writes. Log blocks are records
of what the code reads in them; a checksum either matches or does not. A block
damaged into one without the magic number is, to the code and so to the model,
the end of the log. The log is never its own home.

Run: `recovery_check`: whole logs (up to two transactions of any kind or three
different ones, with revokes before and after a rewrite, escaped blocks, a journalled
superblock, a torn tail, a log that wraps and numbers that wrap), logs damaged at each
block in turn, aborted, empty, absent and misplaced journals, in all three modes,
checked up to three times with two crashes, with liveness. `NothingLost`,
`ReplayedExactly` and `LogIsRetired` are about whole logs (`Intact`);
`DamageIsRemembered` and `AbortIsRemembered` about checks nothing cut short
(`Uninterrupted`), for the reason given under Findings.
`TidMod` 34 and a log of 15 blocks keep both wraps in reach and the log shorter than half
the numbers (`LogFits`), as `s_maxlen` is far below 2^31. Images are any logs in which a
descriptor names no more blocks than the log has (`ImageAssumption`); what an intact log
says of each home is defined over the log as a whole (`Trail` to `IsGoal`), apart from the
passes, and the expected outcome of every image whose revoke blocks can be read is that
(`GoalAssumption`). Two assumptions are about who wrote the log: commit times do not fall
along it (`TimesAssumption`; the scan takes a commit with a wrong checksum and an earlier
time for the end of the log), and a commit block the log does not reach is of the last
transaction or of an earlier lap (`WriterAssumption`). Fairness: `WF` of
the check's own steps; nothing is assumed of crashes or of another check being
started. Two branches of the code can be shown never to be taken once the scan
has passed and are checked as such (`PassesFollowScan`).

## Orphan

The checker between its superblock pass and its first inode pass. `Open` is
`check_opened` up to the orphans; `Begin` to `FlushDevice` are `release_orphans`;
`Unclean` is the end of `orphan_stage`; `Due`, `Skip` and `SkipFlush` decide
whether the filesystem is checked in full or skipped as clean. Every block written
is a step: inodes and index blocks as they are released, attribute blocks when they
lose a reference, orphan file blocks when their slots are empty, and at the very
end the bitmaps, the descriptors and the superblock, which `AllocStats` has kept in
memory (`bb`, `ib`, `gd`, `sb`). `disk` is what the device reads back, `safe` what
it held at the last flush; `PowerCut` keeps any subset of the blocks written in
between, `DeviceFails` is the `?` that ends the check with an error.

Abstracted: one block group stands for all; an inode maps logical to physical
blocks, in itself or through index blocks one level deep, so extent trees and
indirect maps, which are truncated to the same result, are one definition; a
checksum or a magic number is right or wrong (`ok`); directory counts, messages
and the schedule part of `check_due` are left out.

Runs: `orphan_release` (24 images in order: chains in three orders, slots of the
orphan file, both, an orphan listed twice, a size on and off the start of an index
block, clean and unclean superblocks, one image with drifted counts; 18 images out
of order: loops, illegal numbers, unreadable index blocks and orphan blocks,
recorded errors, bigalloc, an orphan file, with blocks or without, that is missing or
cannot be walked; two checks each, reading or writing, one power cut or error), `orphan_part_way` (a
finding). What the images have in common is written down as assumptions: any lists of
orphans, over inodes, index blocks, counts and bitmaps of the right shape
(`ImageAssumption`); blocks that linked inodes need are marked and claimed by nobody else,
and attribute blocks count their holders (`ClaimAssumption`), since a release does not look
for blocks claimed twice. `Consistent` is what a full check would accept, stated
over the device alone. `KeptBlocksStay` holds across power cuts; for attribute
blocks it does not, as a reference dropped twice by a repeated release is not
noticed, and the property says so. The same holds for free counts: descriptors
that outlive their bitmaps count a block twice. Fairness: `WF` of the check's own
steps.

## Fsck

The checker from pass 0 to its end; what comes before, the journal and the orphans,
is in `Recovery` and `Orphan`. Passes 0 to 4 (`pass0_superblock` to
`pass4_link_counts`) write nothing and nobody else writes the device meanwhile, so
each is one step over the whole image; `check_due` decides between `Due` and `skip`.
From `decide` on, every block written is a step: the link counts (`FixLinks`), the
bitmaps (`Pass5Blocks`, `Pass5Inodes`), the superblock with its mark (`Conclude`),
the descriptors (`FlushDescs`), and only then the flush (`FlushDevice`); a halted
preening check writes the superblock alone (`preen_halt`). `scan` is `ScanState`,
`problems` the report. `scan.blocks` is the run map of `BlockRuns`, filled by pass 0
range by range (`MetaRuns`) and by pass 1 block by block, and read back by pass 5 with
`within`. `Pass2Fails` is the `?` on a directory whose map cannot be
walked, which ends the check with an error.

Abstracted: one block group; an inode is its links, what its map reaches (`reaches`),
what of it a second time (`again`: such a block is visited twice and collides with
itself), what it really owns (`owns`, `acl`), and whether the walk comes to its end
(`whole`); a directory is its dot entries and its names; a checksum is right or
wrong, and is made right by whatever rewrites the block; the schedule is one flag
(`due`), the comparison with the backup another. Serious findings that differ only
in their wording (geometry, descriptor pointers, extent block checksums) are left
out. `Consistent` says what a right filesystem is without using anything of the
checker: names reached from the root, links equal to names, blocks owned once and by no
metadata, bitmaps and counts equal to what is owned.

The passes take some things on trust, and what they mark clean is right only where that
trust is deserved. `MarkedCleanIsRight` has it as its hypothesis, stated of the image as
it was found (`Trusted`): the bitmaps were written (no `UNINIT` flag); a root without
links is not deleted; and of every inode in use, the unused tail of the table does not
hide it, it owns what its map reaches, if that can be walked, and no attribute block, and,
if it is a directory, the directory its `..` names has an entry for it. The last is the
one a user meets: a directory that lost its name is, to the doc of the module and of
pass 3, what connectivity is about, and passes the check. `RepairConverges` needs the
first two (`Convergent`). Everything else may be wrong in the image.

Runs: `fsck_repair` (a filesystem with a root, a directory below a directory, a file
with two names, the resize inode and an orphan file; sound, with a tail of the inode
table never used, with each of 12 repairable, 23 reported and 5 overlooked faults alone,
and with every pair of repairable ones; the overlooked ones break `Trusted`, three of them
`Convergent`, and without these hypotheses TLC refutes both properties on them; two checks, each reading, preening or repairing, forced or not; one power cut or
error; the metadata is claimed out of order and the resize inode claims a block of it
again, so runs are joined before, behind, on both sides and from inside) and
`fsck_in_use` (a finding). Two checks are what every property needs: one
that repairs or halts, one that sees what it left. No image has a tail of the table
that hides an inode in use: a check of it frees the inode's blocks, against
`UsedBlocksStay`. `UsedBlocksStay`, `HaltLeavesAsFound` and `RunsAreExact` hold across
power cuts; the other three are about checks that run to their end, for the reason given under Findings. No fairness is assumed: no
liveness is claimed here.

## Layout, Reader and Format

`Layout` is the arithmetic of a filesystem: features that exclude each other, what
`compute` refuses (too few inodes, reserved blocks that are the whole filesystem), one trial
of `Geometry::compute` for a size and a group size, which groups hold superblock copies
and descriptors, and where `place_flex` puts bitmaps and tables. `Reader` is the other
side: what `Filesystem` and `Ext4Reader` make of the blocks of a device, given only a
superblock. It shares no definition with `Layout`: the rules for copies, groups and
descriptors are written down in the source three times (`layout.rs`, `fs.rs`,
`superblock.rs`), and the properties compare them.

`Format` is one call of mkfs. `CheckFeatures`, `TooSmall`, `ShrinkGroups`,
`DropLastGroup` and `Settle` are the loop of `Geometry::compute`, one trial a step;
`PlanRoot` to `PlanLeaves` are `plan`, one allocation a step, `runs` being what the
allocator has given away; `WriteBoot`, `BeginChunk`, `write_group`, `GroupDone`,
`ChunkDone` and `GroupsWritten` write the groups of a chunk, each a sequence of writes,
a bounded number in flight and finishing in any order; then come the directories, the
journal, the resize inode, the orphan file, the MMP block, the reserved inodes, the
primary superblock, the backups and the one flush. `DeviceFails` ends a format at any
of these; groups in flight stay as far as they were. The contents one function writes
are one step: no property judges the device before the primary superblock, which comes
after all of them. A block of `image` is what a reader can take it for: a superblock,
descriptors, a bitmap, inodes, pointers, extents, entries, a journal superblock, zero, or
the bytes the device had (`old`). Byte sizes appear as what fits in a block; checksum
values, times, names of volumes and identifiers are left out. So are the errors of a flex
group other than the last that cannot be placed (the `?` on `g.group` in `build_group`, the
`Err` arm of `metadata_probe`): parameters that meet them are not `Roomy` (below).

Run: `format_build`, 36 calls of mkfs, 23 made and 13 refused: the three profiles; with
and without a flex_bg group that is not whole, with tables that pack round a backup;
meta_bg from the first and from the second group; every checksum scheme; a journal of
one run, in pieces with a leaf block, by indirect maps of one, two and three levels, and
absent; a last group dropped, groups made smaller; one to four groups in flight; an
error at every write. A bitmap of 24 bits, two descriptors and three pointers a block
are the smallest that give several groups, several descriptor blocks and three levels.
What the properties say is judged through `Reader`. Fairness: `WF` of the format's own
steps, as a format is one future that is polled until it returns.

## What is proved

Every theorem holds for every value of the constants that meets the named assumptions of
its module, hence for any number of checks, calls, hosts, crashes and power cuts. TLC
evaluates the assumptions on the instances of the runs.

`CacheProofs` (`CacheAssumption`: sizes positive, `Batch <= MaxBlocks`) proves for every
geometry and byte set, with and without failures: `TypeCorrect`, `EntryShape`,
`RunsAreWritten`, `NoSilentDivergence`, `MapIsBounded` and `CacheImplementsStore`. None of
these is inductive alone. `IInv` adds where each call may be (`PcInv`), that clean valid
bytes are the device's except where unsettled, in the run or being zeroed (`Coherent`), that
the run buffer agrees with the cache (`RunData`), that blocks of a miss still to be inserted
stay absent while eviction runs inside the call (`MissInv`), what lies behind each loop
(`ServedInv`, `StoredInv`, `ZeroedInv`), that a flush knows every dirty block (`FlushInv`)
and that every copy of a byte is one the address was given (`MayInv`). Each action has a
lemma; the refinement lemmas reuse them. Over a device that never fails (`~Faulty`) nothing
is unsettled (`NothingUnsettled`), and from `IInv` follow `CleanBytesAreTheDevices` and
`FlushIsComplete`.

`MmpProofs` (`MmpAssumption`, `WaitAssumption`) proves `NoDoubleMount` and `NoCleanHold`
for any number of mounters and any intervals, no checkers. The argument: `heartbeat` never
moves its number but rewrites it, and an on-time heartbeat comes before the deciding read
of anyone who stamped over it. `LeasesLast` and `ClaimsWait` compare the timers of a lease
or claim and its rivals; `Believed` says a watcher waits at least as long as the number it
watches was promised; `Stages` and `Distinct` are bookkeeping. With checkers the result is
false (`mmp_mark`), because a checker's hold is not heartbeated. `TypeCorrect` and the
action property `SealHolds` hold with checkers too, with `Stamped`: a host past its stamp
has a number, and a watcher watches one a holder may use.

`BlockRunsProofs` (no assumption on constants) proves that `BlockRuns` is a set of blocks:
for every set of separate runs, every claim and every size of the filesystem, `insert`
leaves separate runs that hold what was held and claimed (`InsertIsUnion`), returns what was
held already (`HeldIsIntersection`) and counts what is held (`InsertCounts`); `within`
returns all that is held in a range (`WithinIsCut`), in lengths that add up to its number
(`WithinAddsUp`). The argument: as runs are separate, only the last run before a claim can
reach it, only one joined run can begin before the claim and only one can end behind it.
The sums are folds over finite sets; `Induction` states induction and recursion over numbers
and finite sets with sets and functions in place of the library's operators, which lets the
provers use them.

`FsckProofs` (`FsckAssumption`, `ImageAssumption`: any values in the structures) proves
`TypeCorrect` and `RunsStayExact`: passes 0 and 1 are folds over ranges, inodes and blocks,
and `ExactClaims` says that at each of them the runs are the claims made so far.
`HaltOnlyMarks` needs that memory and device agree about the superblock until something is
written (`HaltInv`); `WrongIsChecked` that whatever is left wrong goes with a superblock not valid or in error,
on the device and in the handle of every later check until it writes its own mark
(`WrongInv`).
`UsedBlocksAreKept` has a hypothesis of its own, `OwnersReach`: linked inodes own only
metadata and what their maps reach. `fsck_in_use` shows that without it the result is false.
`RepairsConverge`: on a `Convergent` image, a check that follows a repair nothing cut short
finds nothing more to report. `GatherInv` says that what each pass has gathered is all there is on the device,
`RepairInv` that a check which leaves nothing wrong has made or found right, part by part,
all that the next one looks at, and `RightInv` that the checks after it find it so and leave
it so. `Convergent` leaves out two images: `UNINIT` flags (see the findings) and a root
directory with a deletion time and no links, whose links pass 4 corrects and whose deletion
time it keeps, so that the next check reports a deleted inode in use.
`MarkedCleanIsSound` (`MarkedCleanIsRight`, for every `Trusted` image) goes on from there:
a check that marks the superblock clean leaves right all that the passes look at
(`RightInv`), and as repairs write neither maps nor names, and give links to no inode that
had none but a reserved one (`EndInv`), the trust still stands (`TrustStays`).
The directories at level n of pass 3, which follows `..`, are then reached by names as
well, by induction on n, so the tree of names holds every directory in use (`TreeIsAll`); with that, names counted by pass 2 are the names of the tree and the
scan's links, owners and counts are those of `Consistent` (`RightIsConsistent`).

`RecoveryProofs` (`RecoveryAssumption`, `LogFits`, `ImageAssumption`, `GoalAssumption`,
`TimesAssumption`, `WriterAssumption`) proves `TypeCorrect`, `AbortIsKept`, `PassesFollow`,
`NothingIsLost`, `ReplayIsExact`, `RetiredForGood` and `DamageIsKept`.
The three passes are compared with the trail of the log, the sequence of places a walk from
`s_start` comes to: the scan is at place `reads` of it and stops where the log ends, the
other two walk the same places up to the end it found. As the log is shorter than half the
sequence numbers, no two places of it are confused and `tid_gt` orders transactions as
their places are ordered. The revoke table then holds, for each home, the last
transaction of the places behind it that revoked it, and replay has left in each home the last
unrevoked write of the tags behind it (`RevokeInv`, `ReplayInv`). Across power cuts
`HomesInv` says that whatever a home may hold is its goal, or the log has a say in it and no
journal superblock that may survive is an empty one: the journal is emptied only after a
flush at which every home is at its goal, so a replay that starts over ends in the same
contents. For `RetiredForGood`, `RetireInv` says that the end the scan found is the end of
the trail and that the number left in the emptied journal is one past it, which no commit
still standing in the log has. For `DamageIsKept`, `TimeInv` says that the scan compares a
commit's time with that of one before it, so it takes no damaged commit for an old one, and
`DamageInv` that while nothing crashes the homes are untouched until replay, and once the
journal is empty they are all at their goal or the check is bound to leave a mark.

`OrphanProofs` (`OrphanAssumption`, `ImageAssumption`, `ClaimAssumption`) proves
`TypeCorrect` and `KeptBlocksAreKept`. Whatever a release or a power cut leaves, an inode is
as it was found or has less of its map, and an index block has fewer entries (`Sound`).
`CountInv` is what bounds the free counts while nothing crashes: in memory and on the device
a count is at most what its bitmap leaves, the bitmap in memory is part of the one on the
device, and the descriptors are written when both bitmaps are. `KeptInv` says that the
bitmap on the device, at the last flush and in memory marks all blocks to be kept, and that
none is among those being lost: an entry past the cut or of an unlinked inode is nobody's to
keep. For attribute blocks `AclInv` bounds the inodes that refer to a block by its count, the
orphan in hand taken as it will be written; the last reference goes only when no linked inode
has one. After a crash this is false, and the property does not claim it.

`FormatProofs` (`LayoutAssumption`, `FormatAssumption`) proves, for every set of parameters,
`OneOwner` (`NothingShared`) and `StaysOnDevice` (`TypeOK`), both under `Roomy`: the tables
of each flex group end in it, and a table kept whole beside meta block groups is smaller than
a group. `compute` checks neither (placement is validated for the last group alone), and
without the first both results are false, as the findings say; all that `format_build` makes
is roomy. The argument follows the three stages. `GeoInv`: every trial of the search leaves a
group of at least one block and a size within the device, and what it settles on covers the
device with groups, holds all inodes and descriptors and, with room, keeps each copy of the
superblock and its descriptors in its own group. From that, `place_flex` puts bitmaps and
tables in rising, separate places outside every copy, and the blocks of `metadata_probe` are
exactly these. `PlanInv`: at each stage the blocks allocated are free of metadata and of each
other and are as many as the plan so far counts, for extents and for indirect maps, whose
nodes and data are taken from one list without a gap. `ChunkInv`: a group before `todo` is in
flight or has left its descriptor, never both, and no refill starts a group past the chunk.
`ImageInv`: each write of the nine writers is inside the device, by the first two.

Only model-checked: liveness (`AcquireReturns`, `HoldIsRestored`, `CheckReturns`,
`ReleaseEnds`, `FormatEnds`), which is outside what the prover does; of `Orphan`,
`ReleaseIsComplete` and `SkipIsDeserved`, which are about the filesystem the release
started from: that every inode without links is on the chain or in the file, and that
bitmaps and counts agreed with the rest, would have to be assumed of every image and
carried along the chain, whose length is data; and of `Format`, `Accounted`, `MapsReadBack`, `BackupsAgree` and `NoStaleBytes`,
which judge the finished image through `Reader`: its walks of an indirect map and its
powers of three, five and seven are recursions over the block number and the group, and
what they compute for every input is an induction over data.  `OneOwner` and
`StaysOnDevice` prove what these four rest on: no block is given to two structures, and no
write goes past the device.

## Findings

- `cache_flush_retry`: a failed write-back has already marked its blocks clean,
  so a second `flush` succeeds without the bytes.
- `mmp_mark`: a host between its second read and its stamp overwrites a checker's
  mark, and both hold the filesystem.
- `orphan_part_way`: inodes are written as they are released, their link to the next
  orphan gone, while bitmaps and superblock wait for the end; after an error or a
  power cut the next check sees a chain of one, and skips the filesystem as clean.
- `fsck_in_use`: pass 1 claims only what the block map reaches and never looks at
  `i_file_acl`; a repair of a filesystem with nothing wrong takes the attribute block
  of a file for free. The same happens to the rest of a map that cannot be walked to
  its end.

Read in the code, without a run of their own:

- `mmp.rs`: `heartbeat` writes its number unchanged, so a second host never sees a
  live holder's number move, as the doc of `acquire` has it, and only its own second
  wait keeps it out (`HoldIsRestored` and `Exclusive` hold all the same).
- `recovery.rs` and `journal_stage`: the journal is emptied on the device before the
  superblock is marked not clean; an error or a power cut in between loses the mark.
  `DamageIsRemembered` and, as `s_errno` is cleared before `ERROR_FS` is written,
  `AbortIsRemembered` are therefore stated of checks without crashes.
- `recovery.rs`, after a torn commit in a damaged log: the log restarts at the number
  after the torn transaction, while a later commit with that number may still stand in
  the log, as in e2fsck.
- `orphan.rs`: an orphan without a block map (inline data, a socket, a fast symlink)
  is freed, but its attribute block keeps its reference and its bit.
- `fsck.rs`, the end of a repair: the superblock is marked valid before the
  descriptors are written and without a flush since the bitmaps, so a power cut may
  keep the mark and lose the repairs.
- `fsck.rs`, pass 3: a directory's children are those whose own `..` names it, so a
  directory no entry names is reachable, and `parent-mismatch` cannot be reported;
  `MarkedCleanIsRight` excludes such a directory by its hypothesis, and is false without.
- `fsck.rs`, passes 1 and 5: `itable_unused` is trusted even where pass 0 found the
  descriptor's checksum wrong; the `UNINIT` flags stay set over a bitmap that was
  repaired; entries of a directory that does not parse are not counted, so a full
  repair lowers the link counts of what they name.
- `layout.rs`: only the last group's placement is validated, so a filesystem whose
  groups are too small for their metadata puts the tables of one group over the next
  (`NothingShared` fails, for instance, with ext2, 96 blocks and 200 inodes at the
  bounds of `format_build`); such parameters are left out of the run.
- `layout.rs` and `format.rs`: `blocks_per_group` above `block_size * 8` is not refused
  and ends in a panic in `build_group`; the number of extents a journal's leaf holds is
  not compared with its capacity; `JournalSize::Blocks(0)` leaves `has_journal` set on a
  filesystem without a journal; the orphan file's extent leaf has no checksum tail.
- `format.rs`: the resize inode lists at most `addr_per_block` backups while `i_blocks`
  counts them all; `lazy_itable_init` without checksums leaves the inodes of an earlier
  filesystem readable.
- `format.rs`, the end of a format: nothing is flushed before the primary superblock, so
  on a device that reorders writes a power cut may keep it over groups that never
  landed, and until then the superblock of an earlier filesystem stays valid over them.
- `fs.rs`: `read_group_descs` ignores `s_first_meta_bg`, so from 2 on it looks for the
  descriptors of classic groups in the wrong place; `flush_group_descs` writes the table in one piece even under meta_bg, and
  `open_with_backup` still reads the primary's descriptors; `read.rs` finds descriptors
  under meta_bg only in the first meta group; the htree lookup stops at the end of an
  interior node.

## Not modelled

Left out, and why: `compare.rs` reads two images and prints; `structs/`, `csum.rs` and
`bytes.rs` are encodings and CRC arithmetic, whose tests against golden images say more
than a model would (where a decoded field decides something it is in the module that
reads it); the tools parse arguments; `device.rs` beyond its contract is the operating
system's I/O; htree lookups and path walking change nothing. A power cut during a format
is left out because the code makes no promise about it that holds (see above).

## Plan

1. `Fsck`, what is left: the crash order of the final mark; what a check does to an image
   whose table hides an inode in use.
2. Pure definitions: htree hashing and lookups against a reference definition.
3. Proofs: `Orphan`'s `SkipIsDeserved` for lists in order; of `Format`, that `Reader`
   finds the descriptors `ChunkDone` wrote, on which its other four properties rest.
