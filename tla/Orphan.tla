------------------------------- MODULE Orphan -------------------------------
(***************************************************************************)
(* Orphan release (orphan.rs), between the two decisions of the checker    *)
(* that surround it (check_opened, orphan_stage, check_due and skip of     *)
(* fsck.rs), over a device with a volatile write cache.                    *)
(*                                                                         *)
(* Every block written is a step.  Inodes, index blocks, reference counts, *)
(* orphan file blocks, the bitmaps, the descriptors and the superblock are *)
(* places of the device; one block group stands for all.  An inode maps    *)
(* logical to physical blocks, some of them through index blocks of its    *)
(* own, one level deep: extent trees and indirect maps are truncated to    *)
(* the same result.  Directory counts and checksums' values are left out.  *)
(***************************************************************************)
EXTENDS Integers, Sequences, FiniteSets

CONSTANTS
    Ino,        \* inode numbers: 1 .. inodes_count
    FirstIno,   \* s_first_ino
    Blk,        \* blocks inodes may own
    Now,        \* the deletion time given to freed inodes
    None,       \* no value
    Images,     \* the devices a check may find
    Options,    \* whether a check may write: options.writes()
    MaxChecks,  \* bound: checks run one after another
    MaxCrashes  \* bound: power cuts and device errors

ASSUME OrphanAssumption ==
    /\ Ino \subseteq Nat \ {0} /\ IsFiniteSet(Ino) /\ FirstIno \in Nat
    /\ Blk \subseteq Nat \ {0} /\ IsFiniteSet(Blk)
    /\ Now \in Nat \ {0}
    /\ \A S \in (SUBSET Blk) \cup (SUBSET Ino) : S # None
    /\ Options \subseteq BOOLEAN
    /\ MaxChecks \in Nat /\ MaxCrashes \in Nat

Sb == <<"sb", 0>>
Gd == <<"gd", 0>>
BlockBitmap == <<"bb", 0>>
InodeBitmap == <<"ib", 0>>
Inode(i) == <<"inode", i>>
Index(b) == <<"index", b>>
Refs(b) == <<"refs", b>>
Slots(k) == <<"slots", k>>

NoInode == [links |-> 0, mapped |-> FALSE, cut |-> 0, dtime |-> 0, acl |-> 0,
            root |-> {}, nodes |-> << >>, blocks |-> 0]

Physical(entries) == {e.phys : e \in entries}

\* What an inode maps on the device d, and the index blocks it maps it through.
EntriesOf(d, i) ==
    LET n == d[Inode(i)]
    IN  n.root \cup UNION {d[Index(n.nodes[k].blk)].entries : k \in DOMAIN n.nodes}
NodesOf(d, i) == {d[Inode(i)].nodes[k].blk : k \in DOMAIN d[Inode(i)].nodes}

\* A linked inode's entries below its size, and their blocks: what a release must keep.
KeptEntries(d, i) == {e \in EntriesOf(d, i) : d[Inode(i)].links > 0 /\ e.logical < d[Inode(i)].cut}
Lasting(d) == UNION {Physical(KeptEntries(d, i)) : i \in Ino}

Places(oblocks) ==
    {Sb, Gd, BlockBitmap, InodeBitmap} \cup {Inode(i) : i \in Ino} \cup {Index(b) : b \in Blk}
    \cup {Refs(b) : b \in Blk} \cup {Slots(k) : k \in 1 .. oblocks}

\* What the model keeps of an inode, an index block and a group descriptor.
IsInode(n) ==
    /\ n = [links |-> n.links, mapped |-> n.mapped, cut |-> n.cut, dtime |-> n.dtime, acl |-> n.acl,
            root |-> n.root, nodes |-> n.nodes, blocks |-> n.blocks]
    /\ n.links \in Nat /\ n.cut \in Nat /\ n.nodes \in Seq([blk : Blk, first : Nat])
    /\ \A e \in n.root : e.logical \in Nat
IsIndex(x) == x = [ok |-> x.ok, entries |-> x.entries] /\ \A e \in x.entries : e.logical \in Nat
IsGroupDesc(g) ==
    /\ g = [free_blocks |-> g.free_blocks, free_inodes |-> g.free_inodes]
    /\ g.free_blocks \in Nat /\ g.free_inodes \in Nat

\* The lists of orphans may say anything; the descriptor counts no more than is free.
ASSUME ImageAssumption ==
    \A im \in Images :
        LET d == im.disk
        IN  /\ im.oblocks \in Nat /\ d = [p \in Places(im.oblocks) |-> d[p]]
            /\ \A i \in Ino : IsInode(d[Inode(i)])
            /\ \A b \in Blk : IsIndex(d[Index(b)]) /\ d[Refs(b)] \in Nat
            /\ d[BlockBitmap] \subseteq Blk /\ d[InodeBitmap] \subseteq Ino
            /\ IsGroupDesc(d[Gd])
            /\ d[Gd].free_blocks <= Cardinality(Blk \ d[BlockBitmap])
            /\ d[Gd].free_inodes <= Cardinality(Ino \ d[InodeBitmap])

\* What linked inodes need is marked in use and nobody else's: a release, which does not look for
\* blocks claimed twice, frees what a second owner loses.  An index block's entries begin where it does.
ASSUME ClaimAssumption ==
    \A im \in Images :
        LET d == im.disk
            linked == {i \in Ino : d[Inode(i)].links > 0}
            attributes == {d[Inode(i)].acl : i \in linked} \ {0}
        IN  /\ Lasting(d) \cup attributes \subseteq d[BlockBitmap]
            /\ \A i, j \in Ino : \A e \in KeptEntries(d, i), f \in EntriesOf(d, j) :
                  e.phys = f.phys => i = j /\ e.logical = f.logical
            /\ \A i \in Ino : /\ Lasting(d) \cap (NodesOf(d, i) \cup {d[Inode(i)].acl}) = {}
                              /\ attributes \cap (NodesOf(d, i) \cup Physical(EntriesOf(d, i))) = {}
            /\ \A i \in linked : LET nodes == d[Inode(i)].nodes
                                 IN  \A k \in DOMAIN nodes : \A e \in d[Index(nodes[k].blk)].entries :
                                        nodes[k].first <= e.logical
            /\ \A b \in Blk : Cardinality({i \in Ino : d[Inode(i)].acl = b}) <= d[Refs(b)]

VARIABLES
    image,      \* the device as it was found, and whether its orphans are in order
    disk,       \* what each place of the device reads back as
    safe,       \* what each place held at the last flush
    checks, crashes,
    pc,         \* where the check is
    writes,     \* options.writes()
    sb, gd,     \* the superblock and descriptor of the Filesystem handle
    bb, ib,     \* AllocStats: the bitmaps changed
    inum,       \* the orphan being released
    seen,       \* inodes the chain has visited
    ino,        \* its inode in memory
    next,       \* its i_dtime as read
    node,       \* the index entry truncation is at
    freed,      \* the blocks it loses
    from,       \* "chain" or "file"
    oblock,     \* the orphan file block being emptied
    slots,      \* that block in memory
    errors      \* out.errors is not empty

device == <<disk, safe>>
handle == <<sb, gd>>
stats == <<bb, ib>>
orphan == <<inum, ino, next, node, freed>>
walk == <<seen, from, oblock, slots>>
vars == <<image, device, checks, crashes, pc, writes, handle, stats, orphan, walk, errors>>

\* Mutant: numbers past the inode table are taken.
legal_NoUpper(i) == i >= FirstIno

legal(i) == i >= FirstIno /\ i \in Ino

has_orphans(s) == s.last_orphan # 0 \/ s.present

Write(place, value) ==
    /\ disk' = [disk EXCEPT ![place] = value]
    /\ UNCHANGED safe

Sync ==
    /\ safe' = disk
    /\ UNCHANGED disk

\* A handle that has just been opened, and nothing in progress.
Fresh ==
    /\ sb' = disk'[Sb] /\ gd' = disk'[Gd]
    /\ bb' = None /\ ib' = None
    /\ inum' = 0 /\ seen' = {} /\ ino' = NoInode /\ next' = 0 /\ node' = 1 /\ freed' = {}
    /\ from' = "chain" /\ oblock' = 1 /\ slots' = << >>
    /\ errors' = FALSE

Init ==
    /\ image \in Images
    /\ disk = image.disk /\ safe = disk
    /\ checks = 0 /\ crashes = 0
    /\ pc = "idle" /\ writes = FALSE
    /\ sb = disk[Sb] /\ gd = disk[Gd]
    /\ bb = None /\ ib = None
    /\ inum = 0 /\ seen = {} /\ ino = NoInode /\ next = 0 /\ node = 1 /\ freed = {}
    /\ from = "chain" /\ oblock = 1 /\ slots = << >>
    /\ errors = FALSE

-------------------------------------------------------------------------------
(* check_opened, up to the orphans, on a superblock pass 0 has nothing against *)

Open(w) ==
    /\ pc \in {"idle", "skipped"} /\ checks < MaxChecks
    /\ checks' = checks + 1
    /\ writes' = w
    /\ pc' = IF w /\ has_orphans(disk[Sb]) THEN "begin" ELSE "due"
    /\ UNCHANGED <<image, device, crashes>>
    /\ Fresh

-------------------------------------------------------------------------------
(* release_orphans *)

orphan_file == sb.file /\ sb.present

\* The head is dropped from the superblock in memory, whatever follows.
Begin ==
    /\ pc = "begin"
    /\ sb' = [sb EXCEPT !.last_orphan = 0]
    /\ \/ /\ sb.error
          /\ pc' = IF orphan_file THEN "clear" ELSE "drop"
          /\ UNCHANGED <<inum, errors>>
       \/ /\ ~sb.error /\ sb.bigalloc
          /\ errors' = TRUE /\ pc' = "leave"
          /\ UNCHANGED inum
       \/ /\ ~sb.error /\ ~sb.bigalloc
          /\ sb.last_orphan # 0 /\ ~legal(sb.last_orphan)
          /\ errors' = TRUE /\ pc' = "chain"
          /\ UNCHANGED inum
       \/ /\ ~sb.error /\ ~sb.bigalloc
          /\ sb.last_orphan = 0 \/ legal(sb.last_orphan)
          /\ inum' = sb.last_orphan /\ pc' = "chain"
          /\ UNCHANGED errors
    /\ UNCHANGED <<image, device, checks, crashes, writes, gd, stats, ino, next, node, freed, walk>>

AllEmpty(held) == \A k \in DOMAIN held : held[k] = 0

\* clear_orphan_file, a block at a time.
ClearBlock ==
    /\ pc = "clear" /\ image.file = "whole" /\ oblock <= image.oblocks
    /\ LET held == disk[Slots(oblock)].slots
       IN  \/ AllEmpty(held) /\ UNCHANGED device
           \/ ~AllEmpty(held) /\ Write(Slots(oblock), [ok |-> TRUE, slots |-> [k \in DOMAIN held |-> 0]])
    /\ oblock' = oblock + 1
    /\ UNCHANGED <<image, checks, crashes, pc, writes, handle, stats, orphan, seen, from, slots, errors>>

\* It is through, or there is no such inode, or its blocks cannot be walked: an error.
ClearDone ==
    /\ pc = "clear" /\ (image.file # "whole" \/ oblock > image.oblocks)
    /\ errors' = (image.file = "unwalkable")
    /\ pc' = "drop"
    /\ UNCHANGED <<image, device, checks, crashes, writes, handle, stats, orphan, walk>>

\* The chain is dropped unwalked because the filesystem records errors.
Drop ==
    /\ pc = "drop"
    /\ sb' = [sb EXCEPT !.present = FALSE]
    /\ Write(Sb, sb')
    /\ pc' = IF errors THEN "unclean" ELSE "due"
    /\ UNCHANGED <<image, checks, crashes, writes, gd, stats, orphan, walk, errors>>

\* A bigalloc filesystem's orphans are not released.
LeaveBigalloc ==
    /\ pc = "leave"
    /\ Write(Sb, sb)
    /\ pc' = "unclean"
    /\ UNCHANGED <<image, checks, crashes, writes, handle, stats, orphan, walk, errors>>

\* release_one begins: the inode is read, the chain's next link with it.
Take(i) ==
    /\ inum' = i
    /\ ino' = disk[Inode(i)]
    /\ next' = ino'.dtime
    /\ node' = 1 /\ freed' = {}
    /\ pc' = IF ~ino'.mapped THEN "free" ELSE IF ino'.links > 0 THEN "truncate" ELSE "collect"

\* The loop over the chain.
ChainTakes ==
    /\ pc = "chain" /\ ~errors
    /\ inum # 0 /\ inum \notin seen
    /\ seen' = seen \cup {inum}
    /\ Take(inum)
    /\ UNCHANGED <<image, device, checks, crashes, writes, handle, stats, from, oblock, slots, errors>>

ChainLoops ==
    /\ pc = "chain" /\ ~errors
    /\ inum \in seen
    /\ errors' = TRUE
    /\ UNCHANGED <<image, device, checks, crashes, pc, writes, handle, stats, orphan, walk>>

\* The chain is through, or broken: the orphan file is next, if nothing went wrong.
ChainEnds ==
    /\ pc = "chain" /\ (errors \/ inum = 0)
    /\ \/ /\ ~errors /\ orphan_file
          /\ from' = "file" /\ pc' = "file"
       \/ /\ errors \/ ~orphan_file
          /\ pc' = "settle"
          /\ UNCHANGED from
    /\ UNCHANGED <<image, device, checks, crashes, writes, handle, stats, orphan, seen, oblock, slots, errors>>

-------------------------------------------------------------------------------
(* release_one *)

\* The orphan cannot be released: nothing is freed, and the release stops here.
GiveUp ==
    /\ errors' = TRUE
    /\ pc' = "settle"

\* Mutants: the block at the new end is kept, or the last one kept is lost.
Past_Late(l) == l > ino.cut
Past_Early(l) == l + 1 >= ino.cut

Past(l) == l >= ino.cut

\* An index block, all of whose entries lie below the cut: it is not read.
Untouched(k) == k < Len(ino.nodes) /\ ino.nodes[k + 1].first <= ino.cut /\ ~Past(ino.nodes[k].first)

\* What an index block keeps: nothing, if it begins past the cut.
Kept(k) ==
    {e \in disk[Index(ino.nodes[k].blk)].entries : ~Past(ino.nodes[k].first) /\ ~Past(e.logical)}

\* Mutant: the loop stays at an entry it keeps.
TruncateKeeps_Stays ==
    /\ pc = "truncate" /\ node <= Len(ino.nodes)
    /\ Untouched(node)
    /\ UNCHANGED vars

\* truncate_node, truncate_indirect_block: one index entry of the inode.
TruncateKeeps ==
    /\ pc = "truncate" /\ node <= Len(ino.nodes)
    /\ Untouched(node)
    /\ node' = node + 1
    /\ UNCHANGED <<image, device, checks, crashes, pc, writes, handle, stats, inum, ino, next, freed, walk, errors>>

TruncateFails ==
    /\ pc = "truncate" /\ node <= Len(ino.nodes)
    /\ ~Untouched(node)
    /\ ~disk[Index(ino.nodes[node].blk)].ok
    /\ GiveUp
    /\ UNCHANGED <<image, device, checks, crashes, writes, handle, stats, orphan, walk>>

\* Entries past the cut go; an index block they leave empty goes with them, another is written back.
TruncateNode ==
    /\ pc = "truncate" /\ node <= Len(ino.nodes)
    /\ ~Untouched(node)
    /\ LET b == ino.nodes[node].blk
           held == disk[Index(b)]
       IN  /\ held.ok
           /\ \/ /\ Kept(node) # {}
                 /\ freed' = freed \cup Physical(held.entries \ Kept(node))
                 /\ Write(Index(b), [held EXCEPT !.entries = Kept(node)])
                 /\ node' = node + 1
                 /\ UNCHANGED ino
              \/ /\ Kept(node) = {}
                 /\ freed' = freed \cup Physical(held.entries) \cup {b}
                 /\ ino' = [ino EXCEPT !.nodes = SubSeq(@, 1, node - 1) \o SubSeq(@, node + 1, Len(@))]
                 /\ UNCHANGED <<device, node>>
    /\ UNCHANGED <<image, checks, crashes, pc, writes, handle, stats, inum, next, walk, errors>>

\* The inode's own entries, and i_blocks.
TruncateRoot ==
    /\ pc = "truncate" /\ node > Len(ino.nodes)
    /\ LET gone == {e \in ino.root : Past(e.logical)}
           lost == freed \cup Physical(gone)
       IN  /\ freed' = lost
           /\ ino' = [ino EXCEPT !.root = @ \ gone,
                                 !.blocks = IF @ > Cardinality(lost) THEN @ - Cardinality(lost) ELSE 0]
    /\ pc' = "free"
    /\ UNCHANGED <<image, device, checks, crashes, writes, handle, stats, inum, next, node, walk, errors>>

\* walk_blocks over an inode without links.
CollectFails ==
    /\ pc = "collect"
    /\ \E k \in DOMAIN ino.nodes : ~disk[Index(ino.nodes[k].blk)].ok
    /\ GiveUp
    /\ UNCHANGED <<image, device, checks, crashes, writes, handle, stats, orphan, walk>>

\* release_xattr_block: its reference goes to the device at once, its bit waits in the bitmap.
Collect ==
    /\ pc = "collect"
    /\ \A k \in DOMAIN ino.nodes : disk[Index(ino.nodes[k].blk)].ok
    /\ LET owned == Physical(ino.root) \cup
                    UNION {{ino.nodes[k].blk} \cup Physical(disk[Index(ino.nodes[k].blk)].entries) :
                           k \in DOMAIN ino.nodes}
       IN  \/ /\ ino.acl \notin Blk
              /\ freed' = owned
              /\ UNCHANGED device
           \/ /\ ino.acl \in Blk
              /\ LET refs == IF disk[Refs(ino.acl)] > 0 THEN disk[Refs(ino.acl)] - 1 ELSE 0
                 IN  /\ Write(Refs(ino.acl), refs)
                     /\ freed' = IF refs = 0 THEN owned \cup {ino.acl} ELSE owned
    /\ ino' = [ino EXCEPT !.acl = 0]
    /\ pc' = "free"
    /\ UNCHANGED <<image, checks, crashes, writes, handle, stats, inum, next, node, walk, errors>>

Loaded(bitmap, place) == IF bitmap = None THEN disk[place] ELSE bitmap

\* AllocStats: free_block of every block lost, free_inode of an inode without links.
\* A bit that is clear already is not counted again.
Free ==
    /\ pc = "free"
    /\ LET used == Loaded(bb, BlockBitmap)
           inodes == Loaded(ib, InodeBitmap)
           blocks == Cardinality(freed \cap used)
           unlinked == IF ino.links = 0 THEN {inum} ELSE {}
           count == Cardinality(unlinked \cap inodes)
       IN  /\ bb' = IF freed \cap Blk = {} THEN bb ELSE used \ freed
           /\ ib' = IF unlinked = {} THEN ib ELSE inodes \ unlinked
           /\ gd' = [gd EXCEPT !.free_blocks = @ + blocks, !.free_inodes = @ + count]
           /\ sb' = [sb EXCEPT !.free_blocks = @ + blocks, !.free_inodes = @ + count]
    /\ ino' = [ino EXCEPT !.dtime = IF ino.links > 0 THEN 0 ELSE Now]
    /\ pc' = "inode"
    /\ UNCHANGED <<image, device, checks, crashes, writes, inum, next, node, freed, walk, errors>>

\* The slot the file's loop is at: those before it are empty.
AtSlot(k) == slots[k] # 0 /\ \A j \in 1 .. k - 1 : slots[j] = 0

\* write_inode, and what the caller does with the link it was given.
WriteInode ==
    /\ pc = "inode"
    /\ Write(Inode(inum), ino)
    /\ \/ /\ from = "chain"
          /\ pc' = "chain"
          /\ \/ /\ next = 0 \/ legal(next)
                /\ inum' = next /\ UNCHANGED errors
             \/ /\ next # 0 /\ ~legal(next)
                /\ errors' = TRUE /\ UNCHANGED inum
          /\ UNCHANGED slots
       \/ /\ from = "file"
          /\ pc' = "slots"
          /\ slots' = [k \in DOMAIN slots |-> IF AtSlot(k) THEN 0 ELSE slots[k]]
          /\ UNCHANGED <<inum, errors>>
    /\ UNCHANGED <<image, checks, crashes, writes, handle, stats, ino, next, node, freed, seen, from, oblock>>

-------------------------------------------------------------------------------
(* process_orphan_file *)

\* The next orphan block, if its magic and checksum are right.  A file that is not an inode or
\* cannot be walked gives up before its first block, whether it has any or not.
FileBlock ==
    /\ pc = "file" /\ (image.file # "whole" \/ oblock <= image.oblocks)
    /\ \/ /\ image.file = "whole" /\ disk[Slots(oblock)].ok
          /\ slots' = disk[Slots(oblock)].slots
          /\ pc' = "slots"
          /\ UNCHANGED errors
       \/ /\ ~(image.file = "whole" /\ disk[Slots(oblock)].ok)
          /\ GiveUp
          /\ UNCHANGED slots
    /\ UNCHANGED <<image, device, checks, crashes, writes, handle, stats, orphan, seen, from, oblock>>

FileEnds ==
    /\ pc = "file" /\ image.file = "whole" /\ oblock > image.oblocks
    /\ pc' = "settle"
    /\ UNCHANGED <<image, device, checks, crashes, writes, handle, stats, orphan, walk, errors>>

\* The first slot that is not empty.
SlotTakes ==
    /\ pc = "slots"
    /\ \E k \in DOMAIN slots :
          /\ AtSlot(k)
          /\ \/ legal(slots[k]) /\ Take(slots[k]) /\ UNCHANGED errors
             \/ ~legal(slots[k]) /\ GiveUp /\ UNCHANGED orphan
    /\ UNCHANGED <<image, device, checks, crashes, writes, handle, stats, walk>>

\* Every slot is empty: the block is written back if that is news.
SlotsDone ==
    /\ pc = "slots"
    /\ AllEmpty(slots)
    /\ \/ disk[Slots(oblock)].slots = slots /\ UNCHANGED device
       \/ disk[Slots(oblock)].slots # slots /\ Write(Slots(oblock), [ok |-> TRUE, slots |-> slots])
    /\ oblock' = oblock + 1
    /\ pc' = "file"
    /\ UNCHANGED <<image, checks, crashes, writes, handle, stats, orphan, seen, from, slots, errors>>

-------------------------------------------------------------------------------
(* The end of release_orphans: AllocStats::flush, the superblock, the device *)

Settle ==
    /\ pc = "settle"
    /\ sb' = [sb EXCEPT !.present = @ /\ errors]
    /\ pc' = IF bb = None /\ ib = None THEN "super" ELSE "blocks"
    /\ UNCHANGED <<image, device, checks, crashes, writes, gd, stats, orphan, walk, errors>>

WriteBlockBitmap ==
    /\ pc = "blocks"
    /\ IF bb = None THEN UNCHANGED device ELSE Write(BlockBitmap, bb)
    /\ pc' = "inodes"
    /\ UNCHANGED <<image, checks, crashes, writes, handle, stats, orphan, walk, errors>>

WriteInodeBitmap ==
    /\ pc = "inodes"
    /\ IF ib = None THEN UNCHANGED device ELSE Write(InodeBitmap, ib)
    /\ pc' = "descs"
    /\ UNCHANGED <<image, checks, crashes, writes, handle, stats, orphan, walk, errors>>

WriteDescs ==
    /\ pc = "descs"
    /\ Write(Gd, gd)
    /\ pc' = "super"
    /\ UNCHANGED <<image, checks, crashes, writes, handle, stats, orphan, walk, errors>>

WriteSuper ==
    /\ pc = "super"
    /\ Write(Sb, sb)
    /\ pc' = "flush"
    /\ UNCHANGED <<image, checks, crashes, writes, handle, stats, orphan, walk, errors>>

FlushDevice ==
    /\ pc = "flush"
    /\ Sync
    /\ pc' = IF errors THEN "unclean" ELSE "due"
    /\ UNCHANGED <<image, checks, crashes, writes, handle, stats, orphan, walk, errors>>

\* Mutant: a release that went wrong leaves no mark.
Unclean_Forgets ==
    /\ pc = "unclean"
    /\ pc' = "due"
    /\ UNCHANGED <<image, device, checks, crashes, writes, handle, stats, orphan, walk, errors>>

\* orphan_stage: a release that stopped part way leaves the filesystem not clean.
Unclean ==
    /\ pc = "unclean"
    /\ sb' = [sb EXCEPT !.valid = FALSE]
    /\ Write(Sb, sb')
    /\ pc' = "due"
    /\ UNCHANGED <<image, checks, crashes, writes, gd, stats, orphan, walk, errors>>

-------------------------------------------------------------------------------
(* check_due, as far as it reads what orphan release writes, and skip *)

check_due == sb.error \/ ~sb.valid \/ has_orphans(sb)

Due ==
    /\ pc = "due" /\ check_due
    /\ pc' = "full"
    /\ UNCHANGED <<image, device, checks, crashes, writes, handle, stats, orphan, walk, errors>>

\* A clean filesystem is skipped, its superblock's counts brought into line with the groups'.
Skip ==
    /\ pc = "due" /\ ~check_due
    /\ LET aligned == [sb EXCEPT !.free_blocks = gd.free_blocks, !.free_inodes = gd.free_inodes]
       IN  \/ writes /\ aligned # sb /\ sb' = aligned /\ Write(Sb, sb') /\ pc' = "align"
           \/ ~(writes /\ aligned # sb) /\ UNCHANGED <<device, sb>> /\ pc' = "skipped"
    /\ UNCHANGED <<image, checks, crashes, writes, gd, stats, orphan, walk, errors>>

SkipFlush ==
    /\ pc = "align"
    /\ Sync
    /\ pc' = "skipped"
    /\ UNCHANGED <<image, checks, crashes, writes, handle, stats, orphan, walk, errors>>

-------------------------------------------------------------------------------
(* Trouble *)

Running == pc \notin {"idle", "skipped", "full"}

\* `?`: the check ends with an error where it stands.
DeviceFails ==
    /\ Running
    /\ crashes < MaxCrashes
    /\ crashes' = crashes + 1
    /\ pc' = "idle"
    /\ UNCHANGED <<image, device, checks, writes>>
    /\ Fresh

\* Of the places written since the last flush, some kept what was written.
PowerCut ==
    /\ Running
    /\ crashes < MaxCrashes
    /\ crashes' = crashes + 1
    /\ \E kept \in SUBSET {p \in DOMAIN disk : disk[p] # safe[p]} :
          disk' = [p \in DOMAIN disk |-> IF p \in kept THEN disk[p] ELSE safe[p]]
    /\ safe' = disk'
    /\ pc' = "idle"
    /\ UNCHANGED <<image, checks, writes>>
    /\ Fresh

-------------------------------------------------------------------------------
Step ==
    \/ Begin \/ ClearBlock \/ ClearDone \/ Drop \/ LeaveBigalloc
    \/ ChainTakes \/ ChainLoops \/ ChainEnds
    \/ TruncateKeeps \/ TruncateFails \/ TruncateNode \/ TruncateRoot
    \/ CollectFails \/ Collect \/ Free \/ WriteInode
    \/ FileBlock \/ FileEnds \/ SlotTakes \/ SlotsDone
    \/ Settle \/ WriteBlockBitmap \/ WriteInodeBitmap \/ WriteDescs \/ WriteSuper \/ FlushDevice
    \/ Unclean \/ Due \/ Skip \/ SkipFlush

Next == (\E w \in Options : Open(w)) \/ Step \/ DeviceFails \/ PowerCut

Spec == Init /\ [][Next]_vars

\* The task that checks the filesystem is polled until it returns.
FairSpec == Spec /\ WF_vars(Step)

-------------------------------------------------------------------------------
(* Properties *)

\* Every variable has the shape the code's types give it; unless descriptors outlived
\* the bitmaps they count, no free count exceeds what there is.
TypeOK ==
    /\ DOMAIN disk = DOMAIN safe
    /\ checks \in 0 .. MaxChecks /\ crashes \in 0 .. MaxCrashes
    /\ inum \in Ino \cup {0} /\ seen \subseteq Ino
    /\ {gd.free_blocks, gd.free_inodes} \subseteq Nat
    /\ crashes = 0 => gd.free_blocks <= Cardinality(Blk) /\ gd.free_inodes <= Cardinality(Ino)
    /\ bb = None \/ bb \subseteq Blk
    /\ ib = None \/ ib \subseteq Ino
    /\ node \in 1 .. Len(ino.nodes) + 1
    /\ from \in {"chain", "file"} /\ errors \in BOOLEAN /\ writes \in BOOLEAN

Entries(i) == EntriesOf(disk, i)
Mapped(i) == Physical(Entries(i)) \cup NodesOf(disk, i)

\* What a full check would have nothing to say about: every block has its owner and
\* every owner its blocks, the groups' counts count them, and no orphan is left.
Consistent ==
    LET used == disk[BlockBitmap]
        inodes == disk[InodeBitmap]
        Holders(b) == {i \in inodes : disk[Inode(i)].acl = b}
    IN  /\ used = {b \in Blk : \E i \in inodes : b \in Mapped(i) \/ b = disk[Inode(i)].acl}
        /\ disk[Gd].free_blocks = Cardinality(Blk \ used)
        /\ disk[Gd].free_inodes = Cardinality(Ino \ inodes)
        /\ \A b \in Blk : disk[Refs(b)] = Cardinality(Holders(b))
        /\ \A i \in inodes :
              /\ disk[Inode(i)].links > 0 /\ disk[Inode(i)].dtime = 0
              /\ disk[Inode(i)].blocks = Cardinality(Mapped(i) \cup ({disk[Inode(i)].acl} \ {0}))
              /\ \A e \in Entries(i) : e.logical < disk[Inode(i)].cut

\* The superblock's free counts are the groups'.
Aligned ==
    /\ disk[Sb].free_blocks = disk[Gd].free_blocks
    /\ disk[Sb].free_inodes = disk[Gd].free_inodes

\* "Bitmaps, group descriptors and the superblock's free counts are updated ... so the
\* check that follows finds them already right" (orphan.rs): a release that nothing
\* interrupts finishes every orphan of a chain and a file that are in order.
ReleaseIsComplete ==
    image.intact /\ crashes = 0 /\ writes /\ pc \in {"skipped", "full"} =>
        /\ Consistent /\ Aligned
        /\ ~has_orphans(disk[Sb])
        /\ \A k \in 1 .. image.oblocks : AllEmpty(disk[Slots(k)].slots)

\* Whatever is wrong with the chain, the file or an orphan's map, a filesystem that
\* is not consistent afterwards is never skipped as clean; a check that may write
\* leaves the superblock's counts right too.
SkipIsDeserved == pc = "skipped" /\ crashes = 0 => Consistent /\ (writes => Aligned)

\* "A release that stops part way leaves the filesystem not clean, so the full check
\* runs" (orphan_stage): the same, when errors and power cuts stop it.
PartWayIsMarked == pc = "skipped" => Consistent

\* A linked inode keeps the blocks below its size, whatever the power leaves and
\* however often the release is repeated; uninterrupted, its attribute block too.
KeptBlocksStay ==
    \A i \in Ino :
        LET n == image.disk[Inode(i)]
        IN  n.links > 0 =>
                /\ Physical(KeptEntries(image.disk, i)) \subseteq disk[BlockBitmap]
                /\ crashes = 0 /\ n.acl # 0 => n.acl \in disk[BlockBitmap]

\* Every check ends, loops in the chain and unreadable maps included.
ReleaseEnds == Running ~> ~Running
===============================================================================
