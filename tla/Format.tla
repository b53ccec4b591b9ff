------------------------------- MODULE Format -------------------------------
(***************************************************************************)
(* mkfs: the geometry is searched for, the blocks of the root directory,   *)
(* lost+found, the resize inode, the journal, the orphan file and the MMP  *)
(* block are allocated, and only then is the device written: the groups    *)
(* concurrently, a bounded number in flight, a chunk of the descriptor     *)
(* table at a time, then the contents, the primary superblock, its         *)
(* backups, and one flush.                                                 *)
(***************************************************************************)
EXTENDS Layout, Sequences, Functions

CONSTANTS
    Params,        \* what the caller asks for, and the device it is asked of
    NDIR,          \* direct pointers of an inode, 12
    InlineMax,     \* extents an inode holds itself, 4
    MaxExtent,     \* blocks in one extent, INIT_MAX_LEN - 1
    LostFound,     \* blocks of lost+found
    OrphanFloor,   \* from this many blocks on the orphan file is the larger one
    OrphanBlocks, OrphanMany   \* its two sizes

ASSUME FormatAssumption ==
    /\ \A n \in {MaxExtent, LostFound} : n \in Nat \ {0}
    /\ \A n \in {NDIR, InlineMax, OrphanFloor, OrphanBlocks, OrphanMany} : n \in Nat
    /\ \A q \in Params :
          /\ q.first_data_block \in {0, 1} /\ q.blocks_per_inode \in Nat \ {0}
          /\ q.journal \in Nat \cup {NoJournal}
          /\ \A n \in {q.blocks, q.blocks_per_group, q.inodes_count, q.flex_bg_size, q.first_meta_bg,
                      q.reserved_percent, q.concurrency, q.chunk} : n \in Nat

VARIABLES
    p,        \* the parameters, chosen once
    pc,       \* the stage format is in
    blocks,   \* Geometry::compute: the filesystem's size ...
    bpg,      \* ... and the group size it is trying
    geom,     \* the geometry found
    places,   \* where it puts every group's bitmaps and inode table
    meta,     \* the blocks metadata_probe says are taken
    runs,     \* Allocator::runs, as the set of blocks in them
    plan,     \* Plan: what was allocated for whom
    todo,     \* the next group to start in this chunk
    chunk,    \* the first descriptor block of the chunk
    pending,  \* groups being written, and the write each is at
    table,    \* descriptors of this chunk's finished groups
    free,     \* the free block and inode totals so far
    image,    \* what the device reads back
    safe      \* what it is sure to hold after a power cut

vars == <<p, pc, blocks, bpg, geom, places, meta, runs, plan, todo, chunk, pending, table, free, image, safe>>
searchVars == <<blocks, bpg>>
layoutVars == <<geom, places>>
planVars == <<meta, runs, plan>>
groupVars == <<todo, chunk, pending, table, free>>
devVars == <<image, safe>>

NoGeometry == [group_count |-> 0]
NoMap == [pointers |-> << >>, blocks |-> << >>]
NoPlan == [root |-> 0, lost_found |-> 0, dind |-> 0, mmp |-> 0,
           journal |-> << >>, journal_extents |-> << >>, journal_leaf |-> 0, journal_indirect |-> NoMap,
           orphan |-> << >>, orphan_extents |-> << >>, orphan_leaf |-> 0, orphan_indirect |-> NoMap]

Init ==
    /\ p \in Params
    /\ pc = "features"
    /\ blocks = p.blocks
    /\ bpg = Min({IF p.blocks_per_group = 0 THEN BlockBits ELSE p.blocks_per_group, 65536 - 8})
    /\ geom = NoGeometry /\ places = << >> /\ meta = {} /\ runs = {} /\ plan = NoPlan
    /\ todo = 0 /\ chunk = 0 /\ pending = << >> /\ table = << >> /\ free = [blocks |-> 0, inodes |-> 0]
    /\ image = [b \in 0 .. p.blocks - 1 |-> [is |-> IF p.zeroed_medium THEN "zero" ELSE "old"]]
    /\ safe = image

-----------------------------------------------------------------------------
(* Geometry::compute *)

CheckFeatures ==
    /\ pc = "features"
    /\ pc' = IF Forbidden(p.features) \/ p.blocks <= p.first_data_block \/ TooManyInodes(p)
             THEN "refused" ELSE "compute"
    /\ UNCHANGED <<p, searchVars, layoutVars, planVars, groupVars, devVars>>

TooSmall ==
    /\ pc = "compute" /\ Unplaceable(p, blocks, bpg)
    /\ pc' = "refused"
    /\ UNCHANGED <<p, searchVars, layoutVars, planVars, groupVars, devVars>>

\* Mutant: the group is not made smaller before the next trial.
ShrinkGroups_Whole ==
    /\ pc = "compute" /\ ~Unplaceable(p, blocks, bpg) /\ GroupsTooLarge(p, blocks, bpg)
    /\ bpg' = bpg
    /\ UNCHANGED <<p, pc, blocks, layoutVars, planVars, groupVars, devVars>>

ShrinkGroups ==
    /\ pc = "compute" /\ ~Unplaceable(p, blocks, bpg) /\ GroupsTooLarge(p, blocks, bpg)
    /\ bpg' = bpg - ShrinkBy
    /\ UNCHANGED <<p, pc, blocks, layoutVars, planVars, groupVars, devVars>>

DropLastGroup ==
    /\ pc = "compute" /\ ~Unplaceable(p, blocks, bpg) /\ ~GroupsTooLarge(p, blocks, bpg)
    /\ LastTooShort(p, blocks, bpg)
    /\ blocks' = blocks - Trial(p, blocks, bpg).rem
    /\ UNCHANGED <<p, pc, bpg, layoutVars, planVars, groupVars, devVars>>

\* Placement is validated for the last group alone.  The probe the allocator
\* will use is a function of the geometry and is kept as the set of its blocks.
metadata_probe(g, at) ==
    {b \in 0 .. g.blocks_count - 1 : in_super_region(g, b)}
    \cup UNION {flex_metadata_runs(g, at, i) \cap GroupBlocks(g, i) : i \in GroupsOf(g)}

Settle ==
    /\ pc = "compute" /\ ~Unplaceable(p, blocks, bpg) /\ ~GroupsTooLarge(p, blocks, bpg)
    /\ ~LastTooShort(p, blocks, bpg)
    /\ \E g \in {Geometry(p, blocks, bpg)} :
          IF Refused(g, p) THEN pc' = "refused" /\ UNCHANGED <<layoutVars, meta>>
          ELSE \E clear \in {Clear(g)} : \E at \in {group(g, clear)} :
                  IF Placed(g, at, g.group_count - 1)
                  THEN pc' = "root" /\ geom' = g /\ places' = at /\ meta' = metadata_probe(g, at)
                  ELSE pc' = "refused" /\ UNCHANGED <<layoutVars, meta>>
    /\ UNCHANGED <<p, searchVars, runs, plan, groupVars, devVars>>

-----------------------------------------------------------------------------
(* The allocator.  0, which is never free, stands for DeviceTooSmall. *)

\* The first len free blocks in a row at or after goal, else anywhere.
alloc(g, taken, goal, len) ==
    LET fits == {b \in g.first_data_block .. g.blocks_count - len : \A k \in b .. b + len - 1 : k \notin taken}
        ahead == {b \in fits : b >= goal}
    IN  IF ahead # {} THEN Min(ahead) ELSE IF fits # {} THEN Min(fits) ELSE 0

\* count blocks one after another, from goal to the end and then from the start:
\* what alloc_runs collects in runs and alloc_indirect_file takes one by one.
alloc_runs(g, taken, goal, count) ==
    LET left == (g.first_data_block .. g.blocks_count - 1) \ taken
        ahead == {b \in left : b >= goal}
        none == [k \in 1 .. count |-> 0]
    IN  SubSeq(Ascending[ahead] \o Ascending[left \ ahead] \o none, 1, count)

\* A file's blocks, in order, as extents of at most max blocks.  In the mutant
\* the pieces of a run all begin at the run's own logical block.
ExtentsOf_Logical(file, max) ==
    LET n == Len(file)
        runStart[i \in 1 .. n] == IF i > 1 /\ file[i] = file[i - 1] + 1 THEN runStart[i - 1] ELSE i
        starts == Ascending[{i \in 1 .. n : (i - runStart[i]) % max = 0}]
    IN  [k \in 1 .. Len(starts) |->
            [block |-> runStart[starts[k]] - 1, start |-> file[starts[k]],
             len |-> (IF k = Len(starts) THEN n + 1 ELSE starts[k + 1]) - starts[k]]]

ExtentsOf(file, max) ==
    LET n == Len(file)
        runStart[i \in 1 .. n] == IF i > 1 /\ file[i] = file[i - 1] + 1 THEN runStart[i - 1] ELSE i
        starts == Ascending[{i \in 1 .. n : (i - runStart[i]) % max = 0}]
    IN  [k \in 1 .. Len(starts) |->
            [block |-> starts[k] - 1, start |-> file[starts[k]],
             len |-> (IF k = Len(starts) THEN n + 1 ELSE starts[k + 1]) - starts[k]]]

(* Indirect maps.  Tree k of three begins at logical block Behind(k) and is  *)
(* k levels high; a node of it is its height and the first block it covers.  *)

Behind(k) == NDIR + (CASE k = 1 -> 0 [] k = 2 -> AddrPerBlock [] OTHER -> AddrPerBlock + AddrPerBlock ^ 2)

MapNodes(n) ==
    {x \in [height : 1 .. 3, base : NDIR .. n - 1] :
        LET k == Max({t \in 1 .. 3 : Behind(t) <= x.base})
        IN  x.height <= k /\ (x.base - Behind(k)) % (AddrPerBlock ^ x.height) = 0}

\* How many of the nodes come before x where each comes just before what it covers.
Before(x, n) ==
    Cardinality({y \in MapNodes(n) : y.base < x.base \/ (y.base = x.base /\ y.height > x.height)})

\* data gives the block of each logical block, node that of each node.
IndirectMap(n, data, node) ==
    [pointers |-> [i \in 0 .. NDIR + 2 |->
        IF i < NDIR THEN (IF i < n THEN data[i] ELSE 0)
        ELSE LET k == i - NDIR + 1 IN IF Behind(k) < n THEN node[[height |-> k, base |-> Behind(k)]] ELSE 0],
     blocks |-> [x \in MapNodes(n) |->
        [at |-> node[x],
         ptr |-> [j \in 0 .. AddrPerBlock - 1 |->
            LET to == x.base + j * AddrPerBlock ^ (x.height - 1)
            IN  IF to >= n THEN 0
                ELSE IF x.height = 1 THEN data[to] ELSE node[[height |-> x.height - 1, base |-> to]]]]]]

\* Data and nodes taken in one go, each node just before the first block it covers.
alloc_indirect_file(got, n) ==
    IndirectMap(n,
        [i \in 0 .. n - 1 |-> got[i + 1 + Cardinality({y \in MapNodes(n) : y.base <= i})]],
        [x \in MapNodes(n) |-> got[x.base + Before(x, n) + 1]])

\* The data is there already; the nodes are taken afterwards.
build_indirect(file, got) ==
    IndirectMap(Len(file), [i \in 0 .. Len(file) - 1 |-> file[i + 1]],
        [x \in MapNodes(Len(file)) |-> got[Before(x, Len(file)) + 1]])

NodeBlocks(map) == {map.blocks[x].at : x \in DOMAIN map.blocks}

-----------------------------------------------------------------------------
(* plan *)

taken == meta \cup runs
first_data == geom.first_data_block
Extents == "extents" \in geom.features

\* An allocation that fails ends the format before anything is written.
Grant(got, planned, next) ==
    IF 0 \in got
    THEN pc' = "refused" /\ UNCHANGED <<runs, plan>>
    ELSE pc' = next /\ runs' = runs \cup got /\ plan' = planned

PlanRoot ==
    /\ pc = "root"
    /\ LET b == alloc(geom, taken, first_data, 1) IN Grant({b}, [plan EXCEPT !.root = b], "lost_found")
    /\ UNCHANGED <<p, searchVars, layoutVars, meta, groupVars, devVars>>

PlanLostFound ==
    /\ pc = "lost_found"
    /\ LET b == alloc(geom, taken, first_data, LostFound)
       IN  Grant(IF b = 0 THEN {0} ELSE b .. b + LostFound - 1, [plan EXCEPT !.lost_found = b], "resize")
    /\ UNCHANGED <<p, searchVars, layoutVars, meta, groupVars, devVars>>

PlanResize ==
    /\ pc = "resize"
    /\ IF "resize_inode" \in geom.features /\ geom.reserved_gdt > 0
       THEN LET b == alloc(geom, taken, first_data, 1) IN Grant({b}, [plan EXCEPT !.dind = b], "journal")
       ELSE Grant({}, plan, "journal")
    /\ UNCHANGED <<p, searchVars, layoutVars, meta, groupVars, devVars>>

\* The emptiest of the groups about the middle, or about the first with room
\* from the middle's flex group on.
midpoint_journal_block(g, full) ==
    LET free_in(i) == Cardinality(GroupBlocks(g, i) \ full)
        last == g.group_count - 1
        middle == (g.blocks_count - g.first_data_block) \div 2
        mid == Min({Max({middle - g.first_data_block, 0}) \div g.blocks_per_group, last})
        packed == g.flex > 1 /\ mid > g.flex
        room == {i \in flex_first_group(g, mid) .. last : free_in(i) # 0}
        here == IF ~packed THEN mid ELSE IF room = {} THEN 0 ELSE Min(room)
        about == (IF packed THEN here ELSE Max({here - 1, 0})) .. Min({here + 1, last})
    IN  group_first_block(g, Min({i \in about : \A j \in about : free_in(j) <= free_in(i)}))

journal_blocks ==
    IF "has_journal" \notin geom.features \/ p.journal = NoJournal THEN 0
    ELSE IF p.journal = DefaultJournal THEN default_journal_blocks(geom.blocks_count) ELSE p.journal

PlanJournal ==
    /\ pc = "journal"
    /\ LET n == journal_blocks
           size == IF Extents THEN n ELSE n + Cardinality(MapNodes(n))
           goal == IF Extents THEN midpoint_journal_block(geom, taken) ELSE first_data
       IN  \E got \in {alloc_runs(geom, taken, goal, size)} :
              Grant(IF ~Extents /\ n > Behind(3) THEN {0} ELSE Range(got),
                    IF Extents
                    THEN [plan EXCEPT !.journal = got, !.journal_extents = ExtentsOf(got, MaxExtent)]
                    ELSE [plan EXCEPT !.journal = [i \in 1 .. n |->
                                          got[i + Cardinality({y \in MapNodes(n) : y.base < i})]],
                                      !.journal_indirect = alloc_indirect_file(got, n)],
                    "orphan")
    /\ UNCHANGED <<p, searchVars, layoutVars, meta, groupVars, devVars>>

default_orphan_file_blocks(n) == IF n < OrphanFloor THEN OrphanBlocks ELSE OrphanMany

PlanOrphan ==
    /\ pc = "orphan"
    /\ LET n == IF "orphan_file" \in geom.features THEN default_orphan_file_blocks(geom.blocks_count) ELSE 0
           nodes == IF Extents THEN 0 ELSE Cardinality(MapNodes(n))
       IN  \E file \in {alloc_runs(geom, taken, first_data, n)} :
           \E got \in {alloc_runs(geom, taken \cup Range(file), first_data, nodes)} :
              Grant(IF ~Extents /\ n > Behind(3) + AddrPerBlock ^ 3 THEN {0} ELSE Range(file) \cup Range(got),
                    IF Extents
                    THEN [plan EXCEPT !.orphan = file, !.orphan_extents = ExtentsOf(file, n)]
                    ELSE [plan EXCEPT !.orphan = file, !.orphan_indirect = build_indirect(file, got)],
                    "mmp")
    /\ UNCHANGED <<p, searchVars, layoutVars, meta, groupVars, devVars>>

PlanMmp ==
    /\ pc = "mmp"
    /\ IF "mmp" \in geom.features
       THEN LET b == alloc(geom, taken, geom.blocks_count \div 2, 1) IN Grant({b}, [plan EXCEPT !.mmp = b], "leaves")
       ELSE Grant({}, plan, "leaves")
    /\ UNCHANGED <<p, searchVars, layoutVars, meta, groupVars, devVars>>

\* A leaf block for each file with more extents than its inode holds.
PlanLeaves ==
    /\ pc = "leaves"
    /\ LET needs(list) == Len(list) > InlineMax
           j == IF needs(plan.journal_extents) THEN {alloc(geom, taken, first_data, 1)} ELSE {}
           o == IF needs(plan.orphan_extents) THEN {alloc(geom, taken \cup j, first_data, 1)} ELSE {}
           one(S) == IF S = {} THEN 0 ELSE CHOOSE b \in S : TRUE
       IN  Grant(j \cup o, [plan EXCEPT !.journal_leaf = one(j), !.orphan_leaf = one(o)], "boot")
    /\ UNCHANGED <<p, searchVars, layoutVars, meta, groupVars, devVars>>

-----------------------------------------------------------------------------
(* write_filesystem: the groups *)

Csum == {"metadata_csum", "gdt_csum"} \cap geom.features # {}

\* Contents: a block is written whole, as one structure.
Zero == [is |-> "zero"]
Zeroes(S) == [b \in S |-> Zero]

\* One block's contents, and one set of contents over another: writes later in
\* the code stand further to the left.
At(b, contents) == [x \in {b} |-> contents]
f ++ g == [x \in DOMAIN f \cup DOMAIN g |-> IF x \in DOMAIN f THEN f[x] ELSE g[x]]

Put(writes) == image' = writes ++ image /\ UNCHANGED safe

backup_groups(g) == {i \in GroupsOf(g) \ {0} : has_super(g, i)}

ClassicCopies ==
    {desc_block_location(geom, i) : i \in {j \in GroupsOf(geom) : Classic(geom, j) /\ group_has_desc(geom, j)}}

\* Block 0 where it is a block of its own, and the primary's reserved descriptor blocks.
WriteBoot ==
    /\ pc = "boot"
    /\ Put(Zeroes((IF first_data = 1 THEN {0} ELSE {})
                  \cup (IF p.zeroed_medium \/ ClassicCopies = {} THEN {}
                        ELSE LET at == Min(ClassicCopies) + geom.desc_blocks IN at .. at + geom.reserved_gdt - 1)))
    /\ pc' = "chunk"
    /\ UNCHANGED <<p, searchVars, layoutVars, planVars, groupVars>>

\* One group's bitmaps and descriptor, from the geometry and every run allocated.
build_group(i) ==
    LET at == places[i]
        first == group_first_block(geom, i)
        window == first .. first + geom.blocks_per_group - 1
        marked == window \cap (SuperRegion(geom, i) \cup flex_metadata_runs(geom, places, i) \cup runs
                               \cup (group_last_block(geom, i) + 1 .. first + geom.blocks_per_group - 1))
        inodes == IF i # 0 THEN {} ELSE 0 .. FIRST_INO - 1 + (IF plan.orphan = << >> THEN 0 ELSE 1)
        unused == geom.inodes_per_group - Cardinality(inodes)
    IN  [blocks |-> {b - first : b \in marked} \cup (geom.blocks_per_group .. BlockBits - 1),
         inodes |-> inodes \cup (geom.inodes_per_group .. BlockBits - 1),
         desc |-> [block_bitmap |-> at.block_bitmap, inode_bitmap |-> at.inode_bitmap,
                   inode_table |-> at.inode_table,
                   free_blocks |-> geom.blocks_per_group - Cardinality(marked),
                   free_inodes |-> unused,
                   used_dirs |-> IF i = 0 THEN 2 ELSE 0,
                   itable_unused |-> IF Csum THEN unused ELSE 0,
                   flags |-> (IF p.lazy THEN {} ELSE {"INODE_ZEROED"})
                             \cup (IF Csum /\ inodes = {} THEN {"INODE_UNINIT"} ELSE {})
                             \cup (IF Csum /\ marked = {} /\ i # geom.group_count - 1
                                   THEN {"BLOCK_UNINIT"} ELSE {})]]

ChunkBlocks == Min({Max({p.chunk, 1}), geom.desc_blocks - chunk})
ChunkEnd == Min({(chunk + ChunkBlocks) * geom.desc_per_block, geom.group_count})
concurrency == Max({p.concurrency, 1})

\* The first groups of a chunk are started, as many as may be in flight.
BeginChunk ==
    /\ pc = "chunk" /\ chunk < geom.desc_blocks
    /\ LET first == chunk * geom.desc_per_block
           until == Min({first + concurrency, ChunkEnd})
       IN  /\ pending' = [i \in first .. until - 1 |-> "blocks"]
           /\ todo' = until
    /\ table' = << >>
    /\ pc' = "groups"
    /\ UNCHANGED <<p, searchVars, layoutVars, planVars, chunk, free, devVars>>

\* One write of one group: a bitmap whose flag says UNINIT is not written.
write_group(i) ==
    /\ pc = "groups" /\ i \in DOMAIN pending /\ pending[i] # "ready"
    /\ \E built \in {build_group(i)} :
       LET d == built.desc
       IN  CASE pending[i] = "blocks" ->
                  /\ Put(IF "BLOCK_UNINIT" \in d.flags THEN << >>
                         ELSE At(d.block_bitmap, [is |-> "bits", set |-> built.blocks]))
                  /\ pending' = [pending EXCEPT ![i] = "inodes"]
             [] pending[i] = "inodes" ->
                  /\ Put(IF "INODE_UNINIT" \in d.flags THEN << >>
                         ELSE At(d.inode_bitmap, [is |-> "bits", set |-> built.inodes]))
                  /\ pending' = [pending EXCEPT ![i] = "itable"]
             [] OTHER ->
                  /\ Put(IF p.zeroed_medium \/ (p.lazy /\ i # 0) THEN << >>
                         ELSE Zeroes(d.inode_table .. d.inode_table + geom.itable - 1))
                  /\ pending' = [pending EXCEPT ![i] = "ready"]
    /\ UNCHANGED <<p, pc, searchVars, layoutVars, planVars, todo, chunk, table, free>>

\* Mutant: the refill does not stop at the end of the chunk.
GroupDone_PastChunk(i) ==
    /\ pc = "groups" /\ i \in DOMAIN pending /\ pending[i] = "ready"
    /\ \E d \in {build_group(i).desc} :
       LET rest == [j \in DOMAIN pending \ {i} |-> pending[j]]
       IN  /\ table' = At(i, d) ++ table
           /\ free' = [blocks |-> free.blocks + d.free_blocks, inodes |-> free.inodes + d.free_inodes]
           /\ IF todo < geom.group_count
              THEN pending' = At(todo, "blocks") ++ rest /\ todo' = todo + 1
              ELSE pending' = rest /\ UNCHANGED todo
    /\ UNCHANGED <<p, pc, searchVars, layoutVars, planVars, chunk, devVars>>

\* A finished group leaves its descriptor and makes room for the next.
GroupDone(i) ==
    /\ pc = "groups" /\ i \in DOMAIN pending /\ pending[i] = "ready"
    /\ \E d \in {build_group(i).desc} :
       LET rest == [j \in DOMAIN pending \ {i} |-> pending[j]]
       IN  /\ table' = At(i, d) ++ table
           /\ free' = [blocks |-> free.blocks + d.free_blocks, inodes |-> free.inodes + d.free_inodes]
           /\ IF todo < ChunkEnd
              THEN pending' = At(todo, "blocks") ++ rest /\ todo' = todo + 1
              ELSE pending' = rest /\ UNCHANGED todo
    /\ UNCHANGED <<p, pc, searchVars, layoutVars, planVars, chunk, devVars>>

\* Descriptor block n of the table: what this chunk's groups left in it.
DescBlock(n) ==
    [is |-> "descs",
     descs |-> [k \in {j \in 0 .. geom.desc_per_block - 1 : n * geom.desc_per_block + j \in DOMAIN table} |->
                   table[n * geom.desc_per_block + k]]]

\* Mutant: the last group of a meta block group gets no copy.
Holders_Two(n) ==
    LET base == n * geom.desc_per_block
    IN  {i \in {base, base + 1} : i < geom.group_count /\ group_has_desc(geom, i)}

\* The groups that hold meta block group n's descriptor block.
Holders(n) ==
    LET base == n * geom.desc_per_block
    IN  {i \in {base, base + 1, base + geom.desc_per_block - 1} : i < geom.group_count /\ group_has_desc(geom, i)}

\* The chunk goes to every whole copy of the table, and each block of a meta
\* block group to its holders.
ChunkDone ==
    /\ pc = "groups" /\ DOMAIN pending = {}
    /\ LET these == chunk .. chunk + ChunkBlocks - 1
           copies == [b \in {c + n : c \in ClassicCopies, n \in these} |->
                         DescBlock(CHOOSE n \in these : b - n \in ClassicCopies)]
           held == {n \in these : geom.meta_bg /\ n >= geom.first_meta_bg}
           spread == [b \in UNION {{desc_block_location(geom, i) : i \in Holders(n)} : n \in held} |->
                         DescBlock(CHOOSE n \in held : \E i \in Holders(n) : desc_block_location(geom, i) = b)]
       IN  Put(spread ++ copies)
    /\ chunk' = chunk + ChunkBlocks
    /\ pc' = "chunk"
    /\ UNCHANGED <<p, searchVars, layoutVars, planVars, todo, pending, table, free>>

GroupsWritten ==
    /\ pc = "chunk" /\ chunk >= geom.desc_blocks
    /\ pc' = "dirs"
    /\ UNCHANGED <<p, searchVars, layoutVars, planVars, groupVars, devVars>>

-----------------------------------------------------------------------------
(* The contents *)

LostFoundBlocks == plan.lost_found .. plan.lost_found + LostFound - 1

write_root_and_lost_found ==
    /\ pc = "dirs"
    /\ Put(At(plan.root, [is |-> "entries", names |-> {<<".", ROOT>>, <<"..", ROOT>>, <<"lost+found", FIRST_INO>>}])
           ++ [b \in LostFoundBlocks |->
                  [is |-> "entries",
                   names |-> IF b = plan.lost_found THEN {<<".", FIRST_INO>>, <<"..", ROOT>>} ELSE {}]])
    /\ pc' = "write_journal"
    /\ UNCHANGED <<p, searchVars, layoutVars, planVars, groupVars>>

\* The blocks of an indirect map, as they are written.
MapContents(map) ==
    [b \in NodeBlocks(map) |->
        [is |-> "pointers", ptr |-> map.blocks[CHOOSE x \in DOMAIN map.blocks : map.blocks[x].at = b].ptr]]

LeafContents(leaf, list) == IF leaf = 0 THEN << >> ELSE At(leaf, [is |-> "extents", extents |-> list])

\* Mutant: only the journal's first run is cleared.
write_journal_FirstRun ==
    /\ pc = "write_journal"
    /\ IF plan.journal = << >> THEN Put(<< >>)
       ELSE Put(MapContents(plan.journal_indirect)
                ++ LeafContents(plan.journal_leaf, plan.journal_extents)
                ++ (IF p.zeroed_medium THEN << >> ELSE Zeroes({b \in Range(Tail(plan.journal)) :
                                         (Head(plan.journal) .. b) \subseteq Range(plan.journal)}))
                ++ At(Head(plan.journal), [is |-> "jsb", blocks |-> Len(plan.journal)]))
    /\ pc' = "write_resize"
    /\ UNCHANGED <<p, searchVars, layoutVars, planVars, groupVars>>

write_journal ==
    /\ pc = "write_journal"
    /\ IF plan.journal = << >> THEN Put(<< >>)
       ELSE Put(MapContents(plan.journal_indirect)
                ++ LeafContents(plan.journal_leaf, plan.journal_extents)
                ++ (IF p.zeroed_medium THEN << >> ELSE Zeroes(Range(Tail(plan.journal))))
                ++ At(Head(plan.journal), [is |-> "jsb", blocks |-> Len(plan.journal)]))
    /\ pc' = "write_resize"
    /\ UNCHANGED <<p, searchVars, layoutVars, planVars, groupVars>>

\* Each reserved descriptor block lists its own place in every backup; the
\* double indirect block lists them all.
write_resize_inode_blocks ==
    /\ pc = "write_resize"
    /\ LET reserved == 0 .. geom.reserved_gdt - 1
           gdt_blk(r) == first_data + 1 + geom.desc_blocks + r
           gdt_off(r) == (geom.desc_blocks + r) % AddrPerBlock
           backups == Ascending[backup_groups(geom)]
           lists == [b \in {gdt_blk(r) : r \in reserved} |->
                        [is |-> "pointers",
                         ptr |-> [j \in 0 .. AddrPerBlock - 1 |->
                                     IF j + 1 \in DOMAIN backups
                                     THEN b + backups[j + 1] * geom.blocks_per_group ELSE 0]]]
           dindir == [is |-> "pointers",
                      ptr |-> [j \in 0 .. AddrPerBlock - 1 |->
                                  Max({0} \cup {gdt_blk(r) : r \in {x \in reserved : gdt_off(x) = j}})]]
       IN  Put(IF plan.dind = 0 THEN << >> ELSE At(plan.dind, dindir) ++ lists)
    /\ pc' = "write_orphan"
    /\ UNCHANGED <<p, searchVars, layoutVars, planVars, groupVars>>

write_orphan_file ==
    /\ pc = "write_orphan"
    /\ Put(MapContents(plan.orphan_indirect)
           ++ LeafContents(plan.orphan_leaf, plan.orphan_extents)
           ++ [b \in Range(plan.orphan) |-> [is |-> "orphans", at |-> b]])
    /\ pc' = "write_mmp"
    /\ UNCHANGED <<p, searchVars, layoutVars, planVars, groupVars>>

\* journal_inode_i_block, or the pointers of the indirect map.
FileMap(list, leaf, map) ==
    IF Extents THEN [kind |-> "extents", extents |-> IF leaf = 0 THEN list ELSE << >>, leaf |-> leaf]
    ELSE [kind |-> "pointers", pointers |-> map.pointers]

JournalMap == FileMap(plan.journal_extents, plan.journal_leaf, plan.journal_indirect)

build_superblock(i) ==
    [is |-> "super", block_group_nr |-> i, blocks_count |-> geom.blocks_count,
     inodes_count |-> geom.inodes_per_group * geom.group_count,
     free_blocks |-> free.blocks, free_inodes |-> free.inodes, first_data_block |-> geom.first_data_block,
     blocks_per_group |-> geom.blocks_per_group, inodes_per_group |-> geom.inodes_per_group,
     features |-> geom.features, reserved_gdt |-> geom.reserved_gdt, first_meta_bg |-> geom.first_meta_bg,
     journal_inum |-> IF plan.journal = << >> THEN 0 ELSE JOURNAL,
     jnl_blocks |-> IF plan.journal = << >> THEN [kind |-> "none"] ELSE JournalMap,
     orphan_file_inum |-> IF plan.orphan = << >> THEN 0 ELSE FIRST_INO + 1,
     mmp_block |-> plan.mmp]

\* Mutant: the superblock goes out before the inodes.
write_mmp_SuperFirst ==
    /\ pc = "write_mmp"
    /\ Put(At(first_data, build_superblock(0)) ++ (IF plan.mmp = 0 THEN << >> ELSE At(plan.mmp, [is |-> "mmp"])))
    /\ pc' = "write_inodes"
    /\ UNCHANGED <<p, searchVars, layoutVars, planVars, groupVars>>

write_mmp ==
    /\ pc = "write_mmp"
    /\ Put(IF plan.mmp = 0 THEN << >> ELSE At(plan.mmp, [is |-> "mmp"]))
    /\ pc' = "write_inodes"
    /\ UNCHANGED <<p, searchVars, layoutVars, planVars, groupVars>>

Pointers(file) == [i \in 0 .. NDIR + 2 |-> IF i < Len(file) THEN file[i + 1] ELSE 0]

\* set_single_block and set_run: extents, or direct pointers.
SetRun(start, len) ==
    LET file == [k \in 1 .. len |-> start + k - 1]
    IN  IF Extents THEN [kind |-> "extents", extents |-> ExtentsOf(file, MaxExtent), leaf |-> 0]
        ELSE [kind |-> "pointers", pointers |-> Pointers(file)]

Inode(mode, links, size, used, extents, map) ==
    [mode |-> mode, links |-> links, size |-> size, blocks |-> used, uses_extents |-> extents, i_block |-> map]

resize_inode_blocks(g) == 1 + g.reserved_gdt * (1 + Cardinality(backup_groups(g)))

\* The leaf or the indirect blocks are the inode's own, and count.
map_overhead(leaf, map) == IF Extents THEN (IF leaf = 0 THEN 0 ELSE 1) ELSE Cardinality(DOMAIN map.blocks)

ReservedInode(n) ==
    CASE n = ROOT -> Inode("dir", 3, 1, 1, Extents, SetRun(plan.root, 1))
      [] n = RESIZE /\ plan.dind # 0 ->
            Inode("file", 1, AddrPerBlock ^ 2 + AddrPerBlock + NDIR, resize_inode_blocks(geom), FALSE,
                  [kind |-> "pointers", pointers |-> [Pointers(<< >>) EXCEPT ![NDIR + 1] = plan.dind]])
      [] n = RESIZE /\ plan.dind = 0 -> Inode("file", 1, 0, 0, FALSE, [kind |-> "none"])
      [] n = JOURNAL /\ plan.journal # << >> ->
            Inode("file", 1, Len(plan.journal),
                  Len(plan.journal) + map_overhead(plan.journal_leaf, plan.journal_indirect), Extents, JournalMap)
      [] n = FIRST_INO -> Inode("dir", 2, LostFound, LostFound, Extents, SetRun(plan.lost_found, LostFound))
      [] n = FIRST_INO + 1 ->
            Inode("file", 1, Len(plan.orphan),
                  Len(plan.orphan) + map_overhead(plan.orphan_leaf, plan.orphan_indirect), Extents,
                  FileMap(plan.orphan_extents, plan.orphan_leaf, plan.orphan_indirect))
      [] OTHER -> Inode("none", 0, 0, 0, FALSE, [kind |-> "none"])

ReservedInodes == 1 .. FIRST_INO + (IF plan.orphan = << >> THEN 0 ELSE 1)

\* Each block of group 0's table that holds one of them goes out whole.
write_reserved_inodes ==
    /\ pc = "write_inodes"
    /\ LET start == places[0].inode_table
           held(b) == {n \in ReservedInodes : start + (n - 1) \div InodesPerBlock = b}
       IN  Put([b \in {start + (n - 1) \div InodesPerBlock : n \in ReservedInodes} |->
                   [is |-> "inodes",
                    inodes |-> [k \in {(n - 1) % InodesPerBlock : n \in held(b)} |->
                                   ReservedInode((b - start) * InodesPerBlock + k + 1)]]])
    /\ pc' = "primary"
    /\ UNCHANGED <<p, searchVars, layoutVars, planVars, groupVars>>

WritePrimary ==
    /\ pc = "primary"
    /\ Put(At(first_data, build_superblock(0)))
    /\ pc' = "backups"
    /\ UNCHANGED <<p, searchVars, layoutVars, planVars, groupVars>>

WriteBackups ==
    /\ pc = "backups"
    /\ Put([b \in {group_first_block(geom, i) : i \in backup_groups(geom)} |->
               build_superblock(group_of_block(geom, b))])
    /\ pc' = "flush"
    /\ UNCHANGED <<p, searchVars, layoutVars, planVars, groupVars>>

Flush ==
    /\ pc = "flush"
    /\ safe' = image
    /\ pc' = "done"
    /\ UNCHANGED <<p, searchVars, layoutVars, planVars, groupVars, image>>

\* A write or the flush fails: `?` returns, and the groups in flight are dropped
\* where they are.  A failed write that reached the medium is the write, and the
\* failure of the next.
DeviceFails ==
    /\ pc \in {"boot", "groups", "dirs", "write_journal", "write_resize", "write_orphan", "write_mmp",
               "write_inodes", "primary", "backups", "flush"}
    /\ pc' = "failed"
    /\ pending' = << >>
    /\ UNCHANGED <<p, searchVars, layoutVars, planVars, todo, chunk, table, free, devVars>>

-----------------------------------------------------------------------------
Compute == CheckFeatures \/ TooSmall \/ ShrinkGroups \/ DropLastGroup \/ Settle

Plan ==
    \/ PlanRoot \/ PlanLostFound \/ PlanResize \/ PlanJournal \/ PlanOrphan \/ PlanMmp \/ PlanLeaves

WriteGroups ==
    \/ WriteBoot \/ BeginChunk \/ ChunkDone \/ GroupsWritten
    \/ \E i \in DOMAIN pending : write_group(i) \/ GroupDone(i)

WriteContents ==
    \/ write_root_and_lost_found \/ write_journal \/ write_resize_inode_blocks \/ write_orphan_file
    \/ write_mmp \/ write_reserved_inodes \/ WritePrimary \/ WriteBackups \/ Flush

Step == Compute \/ Plan \/ WriteGroups \/ WriteContents

Next == Step \/ DeviceFails

Spec == Init /\ [][Next]_vars

\* format is one future, polled until it returns.
FairSpec == Spec /\ WF_vars(Step)

-----------------------------------------------------------------------------
(* Properties.  What was written is judged by what the readers of Reader make *)
(* of it: they have the superblock and the blocks, not the geometry or plan.  *)

R == INSTANCE Reader

Stages == {"features", "compute", "root", "lost_found", "resize", "journal", "orphan", "mmp", "leaves",
           "boot", "chunk", "groups", "dirs", "write_journal", "write_resize", "write_orphan", "write_mmp",
           "write_inodes", "primary", "backups", "flush", "done", "failed", "refused"}
Ended == {"done", "failed", "refused"}

\* Nothing is written past the end of the device or before the plan is made,
\* and a group in flight or a descriptor collected is one of this chunk's.
TypeOK ==
    /\ p \in Params /\ pc \in Stages
    /\ DOMAIN image = 0 .. p.blocks - 1 /\ DOMAIN safe = DOMAIN image
    /\ runs \subseteq 0 .. p.blocks - 1
    /\ pc = "groups" =>
          /\ DOMAIN pending \cup DOMAIN table \subseteq chunk * geom.desc_per_block .. ChunkEnd - 1
          /\ DOMAIN pending \cap DOMAIN table = {}
          /\ \A i \in DOMAIN pending : pending[i] \in {"blocks", "inodes", "itable", "ready"}

\* Every block has one owner: a superblock copy with its descriptors, a bitmap,
\* an inode table, or one of the files planned; flex groups pack round the
\* copies in their way, and the allocator sees all of it (format.rs's
\* metadata_probe is a second computation of where place_flex put things).
NothingShared ==
    pc = "boot" =>
        LET fixed == UNION {SuperRegion(geom, i) \cup MetaBlocks(geom, places[i]) : i \in GroupsOf(geom)}
            size == 1 + LostFound + (IF plan.dind = 0 THEN 0 ELSE 1) + (IF plan.mmp = 0 THEN 0 ELSE 1)
                    + Len(plan.journal) + map_overhead(plan.journal_leaf, plan.journal_indirect)
                    + Len(plan.orphan) + map_overhead(plan.orphan_leaf, plan.orphan_indirect)
        IN  /\ Cardinality(fixed)
                   = MapThenSumSet(LAMBDA i : super_overhead(geom, i) + 2 + geom.itable, GroupsOf(geom))
            /\ runs \cap fixed = {} /\ Cardinality(runs) = size
            /\ runs \cup fixed \subseteq first_data .. geom.blocks_count - 1

\* What a reader finds in an image that has a superblock.
SuperOf(img) == img[p.first_data_block]
DescsOf(img) == R!read_group_descs(img, SuperOf(img))

UsedInodes(img) ==
    LET sb == SuperOf(img)
        bits == [i \in R!GroupsOf(sb) |-> R!read_inode_bitmap(img, sb, DescsOf(img)[i])]
    IN  {n \in 1 .. sb.inodes_count : (n - 1) % sb.inodes_per_group \in bits[(n - 1) \div sb.inodes_per_group]}

InodeOf(img, n) == R!read_inode(img, SuperOf(img), DescsOf(img), n)

Claimed(img) ==
    LET sb == SuperOf(img)
        descs == DescsOf(img)
        table_blocks == sb.inodes_per_group \div InodesPerBlock
        front(i) == LET b == R!group_first_block(sb, i) IN b .. b + R!super_overhead(sb, i) - 1
        own(i) == {descs[i].block_bitmap, descs[i].inode_bitmap}
                  \cup (descs[i].inode_table .. descs[i].inode_table + table_blocks - 1)
        walked(n) == {v.physical : v \in R!walk_blocks(img, InodeOf(img, n))}
    IN  UNION {front(i) \cup own(i) : i \in R!GroupsOf(sb)} \cup UNION {walked(n) : n \in UsedInodes(img)}
        \cup ({sb.mmp_block} \ {0})

Balanced(img) ==
    LET sb == SuperOf(img)
        descs == DescsOf(img)
        used == UsedInodes(img)
        claimed == Claimed(img)
        first(i) == R!group_first_block(sb, i)
        count(i) == R!group_block_count(sb, i)
        here(i) == claimed \cap (first(i) .. first(i) + count(i) - 1)
        inodes(i) == {n \in used : (n - 1) \div sb.inodes_per_group = i}
    IN  /\ \A i \in R!GroupsOf(sb) :
              /\ R!read_block_bitmap(img, sb, descs[i])
                    = {b - first(i) : b \in here(i)} \cup (count(i) .. BlockBits - 1)
              /\ descs[i].free_blocks = count(i) - Cardinality(here(i))
              /\ descs[i].free_inodes = sb.inodes_per_group - Cardinality(inodes(i))
              /\ descs[i].used_dirs = Cardinality({n \in inodes(i) : InodeOf(img, n).mode = "dir"})
              /\ \A n \in inodes(i) : (n - 1) % sb.inodes_per_group < sb.inodes_per_group - descs[i].itable_unused
        /\ sb.free_blocks = sb.blocks_count - sb.first_data_block - Cardinality(claimed)
        /\ sb.free_inodes = sb.inodes_count - Cardinality(used)

Formatted(img) == p.first_data_block \in DOMAIN img /\ img[p.first_data_block].is = "super"

\* "The primary superblock last: until it lands, a torn format is not a
\* filesystem at all" (write_filesystem_chunked).  Wherever an error ends a
\* format, the new superblock stands only over bitmaps that mark exactly what
\* the superblock copies, the descriptors and the files' own maps claim, and
\* free counts, per group and in all, that agree: what a full check proves.
Accounted == Formatted(image) => Balanced(image)

Names == {<<".", ROOT>>, <<"..", ROOT>>, <<"lost+found", FIRST_INO>>}

Readable(img) ==
    LET sb == SuperOf(img)
        used == UsedInodes(img)
        inode == [n \in used |-> InodeOf(img, n)]
        file(n) == CASE n = ROOT -> <<plan.root>>
                     [] n = FIRST_INO -> [k \in 1 .. LostFound |-> plan.lost_found + k - 1]
                     [] n = JOURNAL -> plan.journal
                     [] OTHER -> plan.orphan
        linked(n) == {x \in {d \in used : inode[d].mode = "dir"} \X {".", "..", "lost+found"} :
                         R!lookup(img, inode[x[1]], x[2]) = n}
    IN  /\ {ROOT, RESIZE, FIRST_INO} \subseteq used /\ sb.orphan_file_inum \in used \cup {0}
        /\ \A n \in used \ {RESIZE} : inode[n].mode # "none" =>
              /\ inode[n].size = Len(file(n))
              /\ \A l \in 0 .. inode[n].size - 1 : R!resolve_block(img, inode[n], l) = file(n)[l + 1]
              /\ {v \in R!walk_blocks(img, inode[n]) : v.logical # R!Metadata}
                    = {[logical |-> l, physical |-> file(n)[l + 1]] : l \in 0 .. inode[n].size - 1}
              /\ inode[n].uses_extents =>
                    /\ R!boot_read_inode(img, sb, n) = inode[n]
                    /\ R!boot_read_inode_data(img, inode[n]) = [l \in 0 .. Len(file(n)) - 1 |-> file(n)[l + 1]]
        /\ \A n \in used : inode[n].blocks = Cardinality(R!walk_blocks(img, inode[n]))
        /\ R!read_dir(img, inode[ROOT]) = Names
        /\ inode[ROOT].uses_extents => R!boot_lookup(img, sb, inode[ROOT], "lost+found") = FIRST_INO
        /\ \A n \in {ROOT, FIRST_INO} : inode[n].links = Cardinality(linked(n))
        /\ "has_journal" \in sb.features <=> sb.journal_inum # 0
        /\ sb.journal_inum # 0 =>
              sb.jnl_blocks = inode[JOURNAL].i_block /\ img[R!resolve_block(img, inode[JOURNAL], 0)].is = "jsb"

\* Under the new superblock every file reads back block for block, by the walk,
\* by resolving one block at a time and by the small reader, whichever kind of
\* map it has and however its blocks are scattered; i_blocks counts what the walk
\* visits, link counts the names, "a filesystem must not advertise a journal it
\* does not have" (Geometry::compute), and the superblock's copy of the
\* journal's map is the journal's.
MapsReadBack == Formatted(image) => Readable(image)

\* Once success is reported the medium holds it all: every backup is the primary
\* with its group number, and every group that the superblock says holds
\* descriptors holds, where it says, the primary's.
BackupsAgree ==
    pc = "done" => safe = image /\
        LET sb == SuperOf(safe)
            descs == DescsOf(safe)
            size == R!desc_per_block(sb)
            copy(i) == R!group_first_block(sb, i) + (IF R!group_has_super(sb, i) THEN 1 ELSE 0)
            whole(i) == "meta_bg" \notin sb.features \/ i \div size < sb.first_meta_bg
        IN  \A i \in R!GroupsOf(sb) :
              /\ R!group_has_super(sb, i) => safe[R!group_first_block(sb, i)] = [sb EXCEPT !.block_group_nr = i]
              /\ R!group_has_desc(sb, i) =>
                    \A j \in R!GroupsOf(sb) :
                        IF whole(i) THEN R!DescIn(safe, copy(i) + j \div size, j % size) = descs[j]
                        ELSE j \div size = i \div size => R!DescIn(safe, copy(i), j % size) = descs[j]

\* Nothing the device held before is taken for this filesystem's: not a journal
\* block ("a stale block with a plausible magic would be replayed"), an inode
\* the descriptors do not say is unused, a bitmap they do not say is UNINIT,
\* a reserved descriptor block of the primary, or a boot block.
NoStaleBytes ==
    pc = "done" =>
        LET sb == SuperOf(safe)
            descs == DescsOf(safe)
            tables(i) == {descs[i].inode_table + n \div InodesPerBlock :
                            n \in 0 .. sb.inodes_per_group - descs[i].itable_unused - 1}
            bitmaps(i) == (IF "BLOCK_UNINIT" \in descs[i].flags THEN {} ELSE {descs[i].block_bitmap})
                          \cup (IF "INODE_UNINIT" \in descs[i].flags THEN {} ELSE {descs[i].inode_bitmap})
            reserved == 1 .. R!desc_blocks_in_group(sb, 0)
        IN  /\ \A k \in 2 .. Len(plan.journal) : safe[plan.journal[k]].is = "zero"
            /\ \A b \in UNION {tables(i) \cup bitmaps(i) : i \in R!GroupsOf(sb)} : safe[b].is # "old"
            /\ \A b \in 0 .. sb.first_data_block - 1 : safe[b].is # "old"
            /\ \A r \in reserved : safe[sb.first_data_block + r].is # "old"
            /\ \A i \in R!GroupsOf(sb) : "INODE_ZEROED" \in descs[i].flags =>
                  \A b \in descs[i].inode_table .. descs[i].inode_table + geom.itable - 1 : safe[b].is # "old"

\* Every format ends: the search for a geometry, whose two retries undo each
\* other's premises, and the groups, which are refilled as they finish.
FormatEnds == <>(pc \in Ended)
=============================================================================
