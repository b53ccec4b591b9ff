-------------------------------- MODULE Fsck --------------------------------
(***************************************************************************)
(* The checker (fsck.rs, check_opened after the journal and the orphans,   *)
(* which Recovery and Orphan model): the decision to check or to skip,     *)
(* passes 0 to 5, preening, the repairs and the final mark, over a device  *)
(* with a volatile write cache.                                            *)
(*                                                                         *)
(* Passes 0 to 4 only read the device, which nobody else writes, so each   *)
(* is one step; every block a repair writes is a step.  One block group    *)
(* stands for all.  An inode is its links, the blocks its map reaches and  *)
(* those of them it reaches again; a directory its entries; a checksum is  *)
(* right or wrong.                                                         *)
(***************************************************************************)
EXTENDS BlockRuns, SequencesExt

CONSTANTS
    Ino,        \* inode numbers: 1 .. inodes_count
    FirstIno,   \* s_first_ino
    Root,       \* ino::ROOT
    Resize,     \* ino::RESIZE
    Journal,    \* ino::JOURNAL
    OrphanFile, \* s_orphan_file_inum, or 0
    blocks_count,
    MetaRuns,   \* the ranges pass 0 claims, in its order
    None,       \* no value
    Images,     \* the devices a check may find
    Modes,      \* how a check may run: "check", "preen", "repair"
    Forced,     \* options.force
    MaxChecks,  \* bound: checks run one after another
    MaxCrashes  \* bound: power cuts and device errors

ASSUME FsckAssumption ==
    /\ IsFiniteSet(Ino) /\ Ino = 1 .. Cardinality(Ino)
    /\ FirstIno \in Nat /\ {Root, Resize, Journal} \subseteq {i \in Ino : i < FirstIno}
    /\ OrphanFile \in {0} \cup {i \in Ino : i >= FirstIno}
    /\ blocks_count \in Nat
    /\ MetaRuns \in Seq(Nat \X Nat)
    /\ None \notin {"right", "wrong"}
    /\ Modes \subseteq {"check", "preen", "repair"}
    /\ Forced \subseteq BOOLEAN
    /\ MaxChecks \in Nat /\ MaxCrashes \in Nat

VARIABLES
    image,      \* the device as it was found
    disk,       \* what each place of the device reads back as
    safe,       \* what each place held at the last flush
    checks, crashes,
    pc,         \* where the check is
    mode, force,
    sb, gd,     \* the superblock and descriptor of the Filesystem handle
    scan,       \* ScanState
    problems,   \* report.problems, as [code, at, fixed]
    fixes,      \* the corrections of pass 4: <<inode, links>>
    found,      \* history: the device when the check was opened
    verdict     \* history: how the last writing check that ran to its end left it

device == <<disk, safe>>
handle == <<sb, gd>>
run == <<checks, mode, force, found>>
vars == <<image, device, crashes, pc, run, handle, scan, problems, fixes, verdict>>

Sb == <<"sb", 0>>
Gd == <<"gd", 0>>
BlockBitmap == <<"bb", 0>>
InodeBitmap == <<"ib", 0>>
Inode(i) == <<"inode", i>>
Dir(i) == <<"dir", i>>

\* The fields of the three structures the model keeps.
IsSuperblock(s) ==
    s = [ok |-> s.ok, valid |-> s.valid, error |-> s.error, due |-> s.due,
         free_blocks |-> s.free_blocks, free_inodes |-> s.free_inodes]

IsGroupDesc(g) ==
    g = [ok |-> g.ok, free_blocks |-> g.free_blocks, free_inodes |-> g.free_inodes, used_dirs |-> g.used_dirs,
         itable_unused |-> g.itable_unused, block_uninit |-> g.block_uninit, inode_uninit |-> g.inode_uninit]

IsInode(n) ==
    /\ n = [links |-> n.links, dir |-> n.dir, deleted |-> n.deleted, owns |-> n.owns, reaches |-> n.reaches,
            again |-> n.again, whole |-> n.whole, blocks |-> n.blocks, acl |-> n.acl, ok |-> n.ok]
    /\ n.links \in Nat /\ n.again \subseteq n.reaches

\* Any values may be in them, right or wrong, and any names in a directory.
ASSUME ImageAssumption ==
    \A im \in Images :
        /\ im.disk = [p \in DOMAIN im.disk |-> im.disk[p]]
        /\ {Sb, Gd, BlockBitmap, InodeBitmap} \cup {Inode(i) : i \in Ino} \subseteq DOMAIN im.disk
        /\ IsSuperblock(im.disk[Sb]) /\ IsGroupDesc(im.disk[Gd])
        /\ \A i \in Ino :
              /\ IsInode(im.disk[Inode(i)])
              /\ im.disk[Inode(i)].dir => Dir(i) \in DOMAIN im.disk /\ IsFiniteSet(im.disk[Dir(i)].names)

Write(place, value) ==
    /\ disk' = [disk EXCEPT ![place] = value]
    /\ UNCHANGED safe

Sync ==
    /\ safe' = disk
    /\ UNCHANGED disk

\* The superblock is encoded with its checksum made anew.
flush_superblock(s) == Write(Sb, [s EXCEPT !.ok = TRUE])

writes == mode \in {"preen", "repair"}

-------------------------------------------------------------------------------
(* The report *)

\* The one finding of passes 0 to 5 of severity Info.
Info == {"fs-has-errors"}

PREEN_OK == {"link-count-wrong", "block-bitmap-differs", "inode-bitmap-differs",
             "group-free-blocks-wrong", "group-free-inodes-wrong", "group-dir-count-wrong",
             "superblock-free-blocks-wrong", "superblock-free-inodes-wrong"}

\* Severity above Info.
Wrong(p) == p.code \notin Info

\* One problem of this code for each member of `where`.
Found(code, where) == {[code |-> code, at |-> x, fixed |-> FALSE] : x \in where}
If(code, condition) == Found(code, IF condition THEN {0} ELSE {})
Fixed(ps) == {[p EXCEPT !.fixed = writes] : p \in ps}

needs_a_person(p) == Wrong(p) /\ p.code \notin PREEN_OK

Blk == 0 .. blocks_count - 1
Meta == (UNION {Span(MetaRuns[k]) : k \in DOMAIN MetaRuns}) \cap Blk

NoScan == [blocks |-> new(blocks_count), duplicates |-> {}, inodes |-> {}, dirs |-> {}, names |-> {}, parents |-> {}]

Fresh ==
    /\ sb' = disk'[Sb] /\ gd' = disk'[Gd]
    /\ scan' = NoScan /\ problems' = {} /\ fixes' = {}

Init ==
    /\ image \in Images
    /\ disk = image.disk /\ safe = disk
    /\ checks = 0 /\ crashes = 0
    /\ pc = "idle" /\ mode = "check" /\ force = FALSE
    /\ sb = disk[Sb] /\ gd = disk[Gd]
    /\ scan = NoScan /\ problems = {} /\ fixes = {}
    /\ found = disk
    /\ verdict = None

AtRest == pc \in {"idle", "skipped", "halted", "done"}

Open(m, f) ==
    /\ AtRest /\ checks < MaxChecks
    /\ checks' = checks + 1
    /\ mode' = m /\ force' = f
    /\ found' = disk
    /\ pc' = "pass0"
    /\ UNCHANGED <<image, device, crashes, verdict>>
    /\ Fresh

\* Claim `range`, noting every block someone already had.
claim_range(state, range) ==
    [state EXCEPT !.blocks = insert(@, range[1], range[2]),
                  !.duplicates = @ \cup UNION {Span(h) : h \in Held(state.blocks, range[1], range[2])}]

\* The superblock and the descriptors; the blocks they lay out are claimed.
pass0_superblock ==
    /\ pc = "pass0"
    /\ problems' = If("fs-has-errors", sb.error) \cup If("superblock-csum", ~sb.ok)
                   \cup If("group-desc-csum", ~gd.ok)
    /\ scan' = FoldLeft(claim_range, NoScan, MetaRuns)
    /\ pc' = "due"
    /\ UNCHANGED <<image, device, crashes, run, handle, fixes, verdict>>

-------------------------------------------------------------------------------
(* check_due and skip *)

check_due ==
    \/ sb.error \/ (\E p \in problems : Wrong(p))
    \/ ~sb.valid
    \/ writes /\ image.backup_differs
    \/ sb.due

Due ==
    /\ pc = "due" /\ (force \/ check_due)
    /\ pc' = "pass1"
    /\ UNCHANGED <<image, device, crashes, run, handle, scan, problems, fixes, verdict>>

\* A clean filesystem: the superblock's counts are brought into line with the groups'.
skip ==
    /\ pc = "due" /\ ~force /\ ~check_due
    /\ problems' = {}
    /\ LET aligned == [sb EXCEPT !.free_blocks = gd.free_blocks, !.free_inodes = gd.free_inodes]
       IN  \/ writes /\ aligned # sb /\ sb' = aligned /\ flush_superblock(aligned) /\ pc' = "align"
           \/ ~(writes /\ aligned # sb) /\ UNCHANGED <<device, sb>> /\ pc' = "skipped"
    /\ UNCHANGED <<image, crashes, run, gd, scan, fixes, verdict>>

SkipFlush ==
    /\ pc = "align"
    /\ Sync
    /\ pc' = "skipped"
    /\ UNCHANGED <<image, crashes, run, handle, scan, problems, fixes, verdict>>

-------------------------------------------------------------------------------
(* Pass 1 *)

Node(i) == disk[Inode(i)]

\* Inodes at the end of the table the descriptor says were never used are not read.
Live == {i \in Ino : i <= Cardinality(Ino) - gd.itable_unused}

\* Mutant: inodes with a deletion time are not in use, linked or not.
in_use_Deleted == {i \in Live : i < FirstIno \/ (Node(i).links > 0 /\ ~Node(i).deleted)}

in_use == {i \in Live : i < FirstIno \/ Node(i).links > 0}

\* Most of the reserved inodes are not walked.
Walked == {i \in in_use : i >= FirstIno \/ i \in {Root, Journal, Resize}}

\* The blocks an inode may claim: block 0 is never a file's.
Claimed(i) == Node(i).reaches \cap (Blk \ {0})

\* How many blocks the walk of a map visits: a block reached again is visited twice.
Visits(i) == Cardinality(Node(i).reaches) + Cardinality(Node(i).again)

\* One of an inode's blocks; one reached again is then held by the inode itself.  The resize inode
\* shares its blocks by design: no collision is noted.
ClaimOne(i, state, b) ==
    LET claimed == claim_range(state, <<b, b + 1>>)
    IN  IF i = Resize THEN [claimed EXCEPT !.duplicates = state.duplicates]
        ELSE [claimed EXCEPT !.duplicates = @ \cup ({b} \cap Node(i).again)]

ClaimAll(i, state) == FoldSet(LAMBDA b, st : ClaimOne(i, st, b), state, Claimed(i))

\* Inodes in order.
ClaimWalked(state) ==
    LET after[n \in 0 .. Cardinality(Ino)] ==
            IF n = 0 THEN state
            ELSE IF n \in Walked THEN ClaimAll(n, after[n - 1]) ELSE after[n - 1]
    IN  after[Cardinality(Ino)]

\* A map that cannot be walked to its end still claims what was reached before.
pass1_inodes ==
    /\ pc = "pass1"
    /\ scan' = [ClaimWalked(scan) EXCEPT !.inodes = in_use, !.dirs = {i \in in_use : Node(i).dir}]
    /\ problems' = problems
          \cup Found("inode-csum", {i \in in_use : ~Node(i).ok})
          \cup Found("deleted-but-linked", {i \in in_use : Node(i).links > 0 /\ Node(i).deleted})
          \cup Found("unwalkable-block-map", {i \in Walked : ~Node(i).whole})
          \cup Found("block-out-of-range", {i \in Walked : Node(i).whole /\ Claimed(i) # Node(i).reaches})
          \cup Found("i-blocks-wrong", {i \in Walked \ {Resize} :
                        Node(i).whole /\ Node(i).blocks # Visits(i)})
          \cup Found("duplicate-block", scan'.duplicates)
    /\ pc' = "pass2"
    /\ UNCHANGED <<image, device, crashes, run, handle, fixes, verdict>>

-------------------------------------------------------------------------------
(* Pass 2 *)

\* The directories whose blocks can all be read and parsed: the others' entries are not looked at.
Parsed == {d \in scan.dirs : disk[Dir(d)].parses}

\* Every entry: "." and ".." are entries too, when they are where they belong.
Entries(d) ==
    {e \in {[name |-> ".", ino |-> disk[Dir(d)].dot, type |-> "dir"],
            [name |-> "..", ino |-> disk[Dir(d)].dotdot, type |-> "dir"]} : e.ino # 0}
    \cup disk[Dir(d)].names

\* ".." is looked for second, so it is not found where "." is missing.
HasDotDot(d) == disk[Dir(d)].dot # 0 /\ disk[Dir(d)].dotdot # 0

InRange(d) == {e \in Entries(d) : e.ino \in Ino}

TypeOf(i) == IF Node(i).dir THEN "dir" ELSE "file"

\* Mutant: a name counts even where its inode is free.
Counted_Free(d) == InRange(d)

Counted(d) == {e \in InRange(d) : e.ino \in scan.inodes}

pass2_directories ==
    /\ pc = "pass2" /\ \A d \in scan.dirs : Node(d).whole
    /\ scan' = [scan EXCEPT
                    !.parents = {<<d, disk[Dir(d)].dotdot>> : d \in {c \in Parsed : HasDotDot(c)}},
                    !.names = UNION {{<<d, e>> : e \in Counted(d)} : d \in Parsed}]
    /\ problems' = problems
          \cup Found("dir-block-malformed", scan.dirs \ Parsed)
          \cup Found("dir-block-csum", {d \in scan.dirs : ~disk[Dir(d)].ok})
          \cup Found("dot-wrong", {d \in Parsed : disk[Dir(d)].dot \notin {0, d}})
          \cup Found("dot-missing", {d \in Parsed : disk[Dir(d)].dot = 0})
          \cup Found("dotdot-missing", {d \in Parsed : ~HasDotDot(d)})
          \cup Found("entry-inode-out-of-range", {d \in Parsed : InRange(d) # Entries(d)})
          \cup Found("duplicate-name", {d \in Parsed :
                        \E e, f \in InRange(d) : e # f /\ e.name = f.name})
          \cup Found("entry-points-at-free-inode", {d \in Parsed :
                        \E e \in InRange(d) : e.ino \notin scan.inodes})
          \cup Found("filetype-mismatch", {d \in Parsed : \E e \in Counted(d) : e.type # TypeOf(e.ino)})
    /\ pc' = "pass3"
    /\ UNCHANGED <<image, device, crashes, run, handle, fixes, verdict>>

\* resolve_block fails on a directory whose map cannot be walked, and the check with it.
Pass2Fails ==
    /\ pc = "pass2" /\ \E d \in scan.dirs : ~Node(d).whole
    /\ pc' = "idle"
    /\ UNCHANGED <<image, device, crashes, run, handle, scan, problems, fixes, verdict>>

-------------------------------------------------------------------------------
(* Passes 3 and 4 *)

\* Directories that claim, by their "..", to be below one of `dirs`.
Below(dirs) == {p[1] : p \in {q \in scan.parents : q[2] \in dirs}}

\* The walk from the root, a level at a time.
Levels ==
    LET level[n \in 0 .. Cardinality(Ino)] ==
            IF n = 0 THEN {Root} ELSE level[n - 1] \cup Below(level[n - 1])
    IN  level

reached == Levels[Cardinality(Ino)]

\* The first directory it is recorded a child of, which is the one its ".." recorded.
Mismatched ==
    {p[1] : p \in {q \in scan.parents : q[1] # Root /\ \E r \in scan.parents : r[1] = q[1] /\ r[2] < q[2]}}

pass3_connectivity ==
    /\ pc = "pass3"
    /\ problems' = problems \cup
          IF Root \notin scan.dirs THEN Found("no-root-directory", {Root})
          ELSE Found("disconnected-directory", scan.dirs \ reached) \cup Found("parent-mismatch", Mismatched)
    /\ pc' = "pass4"
    /\ UNCHANGED <<image, device, crashes, run, handle, scan, fixes, verdict>>

observed_links(i) == Cardinality({n \in scan.names : n[2].ino = i})

\* Writes nothing: what it would correct is returned.
pass4_link_counts ==
    /\ pc = "pass4"
    /\ LET compared == {i \in scan.inodes \ {OrphanFile} : i >= FirstIno \/ i = Root}
           wrong == {i \in compared : observed_links(i) \notin {0, Node(i).links}}
       IN  /\ problems' = problems
                 \cup Found("unreferenced-inode", {i \in compared : observed_links(i) = 0})
                 \cup Found("link-count-wrong", wrong)
           /\ fixes' = {<<i, observed_links(i)>> : i \in wrong}
    /\ pc' = "decide"
    /\ UNCHANGED <<image, device, crashes, run, handle, scan, verdict>>

-------------------------------------------------------------------------------
(* What may be written *)

Halts == mode = "preen" /\ \E p \in problems : needs_a_person(p)

\* Mutant: the check stops without a mark.
preen_halt_Unmarked ==
    /\ pc = "decide" /\ Halts
    /\ flush_superblock(sb)
    /\ pc' = "halt"
    /\ UNCHANGED <<image, crashes, run, handle, scan, problems, fixes, verdict>>

\* preen_halt: the superblock is marked, and nothing else is written.
preen_halt ==
    /\ pc = "decide" /\ Halts
    /\ sb' = [sb EXCEPT !.error = TRUE]
    /\ flush_superblock(sb')
    /\ pc' = "halt"
    /\ UNCHANGED <<image, crashes, run, gd, scan, problems, fixes, verdict>>

HaltFlush ==
    /\ pc = "halt"
    /\ Sync
    /\ verdict' = "wrong"
    /\ pc' = "halted"
    /\ UNCHANGED <<image, crashes, run, handle, scan, problems, fixes>>

\* Mutant: the decision comes after the first repair.
FixLinks_First ==
    /\ pc = "decide" /\ writes
    /\ \E f \in fixes : /\ Write(Inode(f[1]), [Node(f[1]) EXCEPT !.links = f[2], !.ok = TRUE])
                        /\ fixes' = fixes \ {f}
    /\ UNCHANGED <<image, crashes, pc, run, handle, scan, problems, verdict>>

\* The corrections of pass 4, an inode at a time; write_inode makes its checksum anew.
FixLinks ==
    /\ pc = "decide" /\ ~Halts /\ writes
    /\ \E f \in fixes :
          /\ \A g \in fixes : f[1] <= g[1]
          /\ Write(Inode(f[1]), [Node(f[1]) EXCEPT !.links = f[2], !.ok = TRUE])
          /\ fixes' = fixes \ {f}
          /\ problems' = {IF p.code = "link-count-wrong" /\ p.at = f[1] THEN [p EXCEPT !.fixed = TRUE]
                                                                        ELSE p : p \in problems}
    /\ UNCHANGED <<image, crashes, pc, run, handle, scan, verdict>>

LinksDone ==
    /\ pc = "decide" /\ ~Halts /\ (~writes \/ fixes = {})
    /\ pc' = "blocks"
    /\ UNCHANGED <<image, device, crashes, run, handle, scan, problems, fixes, verdict>>

-------------------------------------------------------------------------------
(* Pass 5 *)

\* A bitmap whose descriptor says it was never written is empty, whatever its block holds.
read_block_bitmap == IF gd.block_uninit THEN {} ELSE disk[BlockBitmap]
read_inode_bitmap == IF gd.inode_uninit THEN {} ELSE disk[InodeBitmap]

\* What the block bitmap should say, from the one group's part of the runs.
used_runs == within(scan.blocks, 0, blocks_count)
expected_blocks == UNION {Span(range) : range \in used_runs}
free_blocks == blocks_count - Total(used_runs)

free_inodes == Cardinality(Ino \ scan.inodes)

Pass5Blocks ==
    /\ pc = "blocks"
    /\ LET differs == read_block_bitmap # expected_blocks
       IN  /\ problems' = problems \cup Fixed(If("block-bitmap-differs", differs))
           /\ \/ differs /\ writes /\ Write(BlockBitmap, expected_blocks)
              \/ ~(differs /\ writes) /\ UNCHANGED device
    /\ pc' = "inodes"
    /\ UNCHANGED <<image, crashes, run, handle, scan, fixes, verdict>>

Pass5Inodes ==
    /\ pc = "inodes"
    /\ LET differs == read_inode_bitmap # scan.inodes
       IN  /\ problems' = problems \cup Fixed(If("inode-bitmap-differs", differs))
           /\ \/ differs /\ writes /\ Write(InodeBitmap, scan.inodes)
              \/ ~(differs /\ writes) /\ UNCHANGED device
    /\ pc' = "counts"
    /\ UNCHANGED <<image, crashes, run, handle, scan, fixes, verdict>>

\* The descriptor's counts and the superblock's totals, in memory.
Pass5Counts ==
    /\ pc = "counts"
    /\ problems' = problems \cup Fixed(
          If("group-free-blocks-wrong", gd.free_blocks # free_blocks)
          \cup If("group-free-inodes-wrong", gd.free_inodes # free_inodes)
          \cup If("group-dir-count-wrong", gd.used_dirs # Cardinality(scan.dirs))
          \cup If("superblock-free-blocks-wrong", sb.free_blocks # free_blocks)
          \cup If("superblock-free-inodes-wrong", sb.free_inodes # free_inodes))
    /\ \/ /\ writes
          /\ gd' = [gd EXCEPT !.free_blocks = free_blocks, !.free_inodes = free_inodes,
                              !.used_dirs = Cardinality(scan.dirs)]
          /\ sb' = [sb EXCEPT !.free_blocks = free_blocks, !.free_inodes = free_inodes]
       \/ ~writes /\ UNCHANGED handle
    /\ pc' = IF writes THEN "conclude" ELSE "done"
    /\ UNCHANGED <<image, device, crashes, run, scan, fixes, verdict>>

-------------------------------------------------------------------------------
(* The end of a full check that may write *)

\* Mutant: what was found counts as put right.
left_wrong_Never == FALSE

left_wrong == \E p \in problems : Wrong(p) /\ ~p.fixed

\* Valid if nothing is left wrong, and the check recorded; the superblock goes first.
Conclude ==
    /\ pc = "conclude"
    /\ \/ /\ left_wrong
          /\ sb' = [sb EXCEPT !.valid = FALSE, !.due = FALSE]
          /\ UNCHANGED problems
       \/ /\ ~left_wrong
          /\ sb' = [sb EXCEPT !.valid = TRUE, !.error = FALSE, !.due = FALSE]
          /\ problems' = {IF p.code = "fs-has-errors" THEN [p EXCEPT !.fixed = TRUE] ELSE p : p \in problems}
                         \cup Fixed(If("marked-clean", ~sb.valid))
    /\ flush_superblock(sb')
    /\ pc' = "descs"
    /\ UNCHANGED <<image, crashes, run, gd, scan, fixes, verdict>>

\* Mutant: only the inodes repaired count.
repaired_anything_Links == \E p \in problems : p.fixed /\ p.code = "link-count-wrong"

repaired_anything == \E p \in problems : p.fixed

\* flush_group_descs: their checksums are made anew.
FlushDescs ==
    /\ pc = "descs"
    /\ \/ repaired_anything /\ gd' = [gd EXCEPT !.ok = TRUE] /\ Write(Gd, gd')
       \/ ~repaired_anything /\ UNCHANGED <<gd, device>>
    /\ pc' = "flush"
    /\ UNCHANGED <<image, crashes, run, sb, scan, problems, fixes, verdict>>

FlushDevice ==
    /\ pc = "flush"
    /\ Sync
    /\ verdict' = IF left_wrong THEN "wrong" ELSE "right"
    /\ pc' = "done"
    /\ UNCHANGED <<image, crashes, run, handle, scan, problems, fixes>>

-------------------------------------------------------------------------------
(* Trouble *)

\* `?`: the check ends with an error where it stands.
DeviceFails ==
    /\ ~AtRest
    /\ crashes < MaxCrashes
    /\ crashes' = crashes + 1
    /\ pc' = "idle"
    /\ UNCHANGED <<image, device, run, verdict>>
    /\ Fresh

\* Of the places written since the last flush, some kept what was written.
PowerCut ==
    /\ ~AtRest
    /\ crashes < MaxCrashes
    /\ crashes' = crashes + 1
    /\ \E kept \in SUBSET {p \in DOMAIN disk : disk[p] # safe[p]} :
          disk' = [p \in DOMAIN disk |-> IF p \in kept THEN disk[p] ELSE safe[p]]
    /\ safe' = disk'
    /\ pc' = "idle"
    /\ UNCHANGED <<image, run, verdict>>
    /\ Fresh

-------------------------------------------------------------------------------
Step ==
    \/ pass0_superblock \/ Due \/ skip \/ SkipFlush
    \/ pass1_inodes \/ pass2_directories \/ Pass2Fails \/ pass3_connectivity \/ pass4_link_counts
    \/ preen_halt \/ HaltFlush \/ FixLinks \/ LinksDone
    \/ Pass5Blocks \/ Pass5Inodes \/ Pass5Counts
    \/ Conclude \/ FlushDescs \/ FlushDevice

Next == (\E m \in Modes, f \in Forced : Open(m, f)) \/ Step \/ DeviceFails \/ PowerCut

Spec == Init /\ [][Next]_vars

-------------------------------------------------------------------------------
(* Properties *)

\* Every variable has the shape the code's types give it.
TypeOK ==
    /\ DOMAIN disk = DOMAIN safe
    /\ checks \in 0 .. MaxChecks /\ crashes \in 0 .. MaxCrashes
    /\ mode \in Modes \cup {"check"} /\ force \in BOOLEAN
    /\ scan.blocks.len = blocks_count /\ scan.inodes \subseteq Ino /\ scan.dirs \subseteq scan.inodes
    /\ \A n \in scan.names : n[1] \in scan.dirs /\ n[2].ino \in scan.inodes
    /\ \A f \in fixes : f[2] > 0
    /\ verdict \in {None, "right", "wrong"}

\* Claimed by two ranges of metadata, by two inodes, by an inode and by metadata, or by an inode twice.
Collisions ==
    {b \in Blk :
        \/ \E k, l \in DOMAIN MetaRuns : k # l /\ b \in Span(MetaRuns[k]) \cap Span(MetaRuns[l])
        \/ \E i \in Walked \ {Resize} :
              b \in Claimed(i) /\ (\/ b \in Meta \/ b \in Node(i).again
                                    \/ \E j \in Walked : j < i /\ b \in Claimed(j))}

\* "The blocks something owns, held as runs, used to rebuild what should be on disk"
\* (BlockRuns): through every merge the runs stay apart, count what they hold, and hold
\* what pass 0 and pass 1 claimed, no more and no less; what was claimed twice is known,
\* and pass 5 gets all of it back.
RunsAreExact ==
    /\ Separate(scan.blocks) /\ scan.blocks.count = Cardinality(Blocks(scan.blocks))
    /\ pc \in {"pass2", "pass3", "pass4"} =>
          /\ Blocks(scan.blocks) = Meta \cup UNION {Claimed(i) : i \in Walked}
          /\ scan.duplicates = Collisions
    /\ expected_blocks = Blocks(scan.blocks)

Used == {i \in Ino : i < FirstIno \/ Node(i).links > 0}
Owned(i) == Node(i).owns \cup ({Node(i).acl} \ {0})

\* The directories that names lead to from the root.
Tree ==
    LET level[n \in 0 .. Cardinality(Ino)] ==
            IF n = 0 THEN {Root}
            ELSE level[n - 1] \cup {i \in Used : Node(i).dir /\ \E d \in level[n - 1] :
                                        \E e \in disk[Dir(d)].names : e.ino = i}
    IN  level[Cardinality(Ino)]

NamesOf(i) == UNION {{<<d, e>> : e \in {f \in Entries(d) : f.ino = i}} : d \in Tree}

\* What makes a filesystem right, said of the device alone: the tree holds every
\* inode that has links, each as often as it is named, no block has two owners, and
\* bitmaps and counts agree with the owners.
Consistent ==
    LET reserved == {i \in Ino : i < FirstIno}
        owned == UNION {Owned(i) : i \in Used}
    IN  /\ \A i \in Used \ ({OrphanFile} \cup (reserved \ {Root})) : Node(i).links = Cardinality(NamesOf(i))
        /\ \A d \in Tree : \A e \in disk[Dir(d)].names : e.ino \in Used
        /\ \A d \in Tree : disk[Dir(d)].dot = d /\ (d # Root =>
              \E e \in disk[Dir(disk[Dir(d)].dotdot)].names : e.ino = d)
        /\ \A i \in Used \ {Resize} : Owned(i) \cap (Meta \cup Node(i).again) = {}
        /\ \A i, j \in Used \ {Resize} : i # j => Owned(i) \cap Owned(j) = {}
        /\ disk[BlockBitmap] = Meta \cup owned
        /\ disk[InodeBitmap] = Used
        /\ ~disk[Gd].block_uninit /\ ~disk[Gd].inode_uninit
        /\ disk[Gd].free_blocks = Cardinality(Blk \ disk[BlockBitmap])
        /\ disk[Gd].free_inodes = Cardinality(Ino \ disk[InodeBitmap])
        /\ disk[Gd].used_dirs = Cardinality(Tree)
        /\ disk[Sb].free_blocks = disk[Gd].free_blocks
        /\ disk[Sb].free_inodes = disk[Gd].free_inodes

\* A device whose bitmaps were written, and whose root, if it has no links, has no deletion
\* time either.  Pass 5 repairs a bitmap without clearing the flag that says it was never
\* written, and pass 4 gives a root without links links without clearing its deletion time.
Convergent(im) ==
    /\ ~im.disk[Gd].block_uninit /\ ~im.disk[Gd].inode_uninit
    /\ im.disk[Inode(Root)].links > 0 \/ ~im.disk[Inode(Root)].deleted

\* What the passes take on trust of an inode: pass 1 that the table's unused tail hides none,
\* that a map reaches all an inode owns and that most reserved inodes own nothing (it walks no
\* attribute block); pass 3 that a directory is named where its ".." says.
TrustedInode(im, i) ==
    LET n == im.disk[Inode(i)]
        UsedDir(d) == d \in Ino /\ (d < FirstIno \/ im.disk[Inode(d)].links > 0) /\ im.disk[Inode(d)].dir
    IN  /\ i <= Cardinality(Ino) - im.disk[Gd].itable_unused
        /\ n.acl = 0
        /\ IF i >= FirstIno \/ i \in {Root, Journal, Resize} THEN n.whole => n.owns = n.reaches ELSE n.owns = {}
        /\ n.dir /\ i # Root /\ UsedDir(im.disk[Dir(i)].dotdot) =>
              \E e \in im.disk[Dir(im.disk[Dir(i)].dotdot)].names : e.ino = i

Trusted(im) ==
    /\ Convergent(im)
    /\ \A i \in Ino : i < FirstIno \/ im.disk[Inode(i)].links > 0 => TrustedInode(im, i)

\* "valid if nothing is left wrong, not valid otherwise" (check_opened): where what the
\* passes take on trust holds of the device as it was found, what a full check that nothing
\* interrupted leaves marked clean is right, whatever else was wrong.  Without that trust it
\* need not be: a directory no entry names passes, for its ".." still leads to the root.
MarkedCleanIsRight ==
    pc = "done" /\ writes /\ crashes = 0 /\ disk[Sb].valid /\ ~disk[Sb].error /\ Trusted(image) => Consistent

\* What a check put right stays right: on a Convergent device the next full check has
\* nothing to report.
RepairConverges ==
    verdict = "right" /\ crashes = 0 /\ pc \in {"decide", "conclude"} /\ Convergent(image) => problems = {}

\* "so the next boot checks it again rather than skipping it" (preen_halt): a problem a
\* writing check left, halted or not, keeps every later check from skipping.
WrongIsNotSkipped == verdict = "wrong" /\ crashes = 0 => pc \notin {"align", "skipped"}

\* "Nothing was repaired, and the superblock now records errors" (preen_halted): apart
\* from that flag, and the checksum written with it, the filesystem is as it was found.
HaltLeavesAsFound ==
    pc = "halted" => disk = [found EXCEPT ![Sb].error = TRUE, ![Sb].ok = TRUE]

\* "Repair writes only what a pass proved wrong": no repair, cut short or not, takes
\* a block that was in use from the inode that owns it.
UsedBlocksStay ==
    \A i \in Ino :
        LET n == image.disk[Inode(i)]
        IN  n.links > 0 =>
                (n.owns \cup ({n.acl} \ {0})) \cap image.disk[BlockBitmap] \subseteq disk[BlockBitmap]
===============================================================================
