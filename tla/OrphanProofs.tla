----------------------------- MODULE OrphanProofs -----------------------------
(***************************************************************************)
(* Proofs about the release of orphans, for every list of orphans, any     *)
(* number of checks, power cuts and device errors.                         *)
(***************************************************************************)
EXTENDS Orphan, FiniteSetTheorems, SequenceTheorems, TLAPS

-------------------------------------------------------------------------------
(* The device *)

\* An inode as it was found, or with less of its map.
Shrunk(im, i, n) ==
    LET o == im.disk[Inode(i)]
    IN  /\ IsInode(n) /\ n.links = o.links /\ n.cut = o.cut /\ n.root \subseteq o.root
        /\ \A k \in DOMAIN n.nodes : \E l \in DOMAIN o.nodes : n.nodes[k] = o.nodes[l]
        /\ n.acl = o.acl \/ (n.acl = 0 /\ o.links = 0)

Narrowed(im, b, x) == IsIndex(x) /\ x.entries \subseteq im.disk[Index(b)].entries

\* What a place of the device may come to hold.
Fits(im, p, v) ==
    /\ \A i \in Ino : p = Inode(i) => Shrunk(im, i, v)
    /\ \A b \in Blk : (p = Index(b) => Narrowed(im, b, v)) /\ (p = Refs(b) => v \in Nat)
    /\ p = BlockBitmap => v \subseteq Blk
    /\ p = InodeBitmap => v \subseteq Ino
    /\ p = Gd => IsGroupDesc(v)

Sound(im, d) ==
    /\ d = [p \in Places(im.oblocks) |-> d[p]]
    /\ \A p \in Places(im.oblocks) : Fits(im, p, d[p])

\* No place is another.
LEMMA PlacesDiffer ==
    /\ Sb # Gd /\ Sb # BlockBitmap /\ Sb # InodeBitmap /\ Gd # BlockBitmap /\ Gd # InodeBitmap /\ BlockBitmap # InodeBitmap
    /\ \A x, y : /\ Inode(x) \notin {Sb, Gd, BlockBitmap, InodeBitmap, Index(y), Refs(y), Slots(y)}
                 /\ Index(x) \notin {Sb, Gd, BlockBitmap, InodeBitmap, Refs(y), Slots(y)}
                 /\ Refs(x) \notin {Sb, Gd, BlockBitmap, InodeBitmap, Slots(y)}
                 /\ Slots(x) \notin {Sb, Gd, BlockBitmap, InodeBitmap}
                 /\ (Inode(x) = Inode(y) => x = y) /\ (Index(x) = Index(y) => x = y) /\ (Refs(x) = Refs(y) => x = y)
  BY DEF Sb, Gd, BlockBitmap, InodeBitmap, Inode, Index, Refs, Slots

\* And all of them are on the device.
LEMMA PlacesThere ==
    ASSUME NEW n
    PROVE  /\ {Sb, Gd, BlockBitmap, InodeBitmap} \subseteq Places(n)
           /\ \A i \in Ino : Inode(i) \in Places(n)
           /\ \A b \in Blk : Index(b) \in Places(n) /\ Refs(b) \in Places(n)
           /\ \A k \in 1 .. n : Slots(k) \in Places(n)
  BY DEF Places

\* What a sound device holds.
LEMMA SoundHolds ==
    ASSUME NEW im, NEW d, Sound(im, d)
    PROVE  /\ DOMAIN d = Places(im.oblocks)
           /\ \A i \in Ino : Shrunk(im, i, d[Inode(i)])
           /\ \A b \in Blk : Narrowed(im, b, d[Index(b)]) /\ d[Refs(b)] \in Nat
           /\ d[BlockBitmap] \subseteq Blk /\ d[InodeBitmap] \subseteq Ino /\ IsGroupDesc(d[Gd])
<1>1. DOMAIN d = Places(im.oblocks) /\ \A p \in Places(im.oblocks) : Fits(im, p, d[p])
  BY DEF Sound
<1>2. ASSUME NEW i \in Ino PROVE Shrunk(im, i, d[Inode(i)])
  <2>1. Fits(im, Inode(i), d[Inode(i)])
    BY <1>1, PlacesThere
  <2>2. QED
    BY <2>1 DEF Fits
<1>3. ASSUME NEW b \in Blk PROVE Narrowed(im, b, d[Index(b)]) /\ d[Refs(b)] \in Nat
  <2>1. Fits(im, Index(b), d[Index(b)]) /\ Fits(im, Refs(b), d[Refs(b)])
    BY <1>1, PlacesThere
  <2>2. QED
    BY <2>1 DEF Fits
<1>4. d[BlockBitmap] \subseteq Blk /\ d[InodeBitmap] \subseteq Ino /\ IsGroupDesc(d[Gd])
  <2>1. Fits(im, BlockBitmap, d[BlockBitmap]) /\ Fits(im, InodeBitmap, d[InodeBitmap]) /\ Fits(im, Gd, d[Gd])
    BY <1>1, PlacesThere
  <2>2. QED
    BY <2>1 DEF Fits
<1>5. QED
  BY <1>1, <1>2, <1>3, <1>4

\* A write of what fits its place.
LEMMA WriteSound ==
    ASSUME NEW im, Sound(im, disk), NEW p, NEW v, Fits(im, p, v), Write(p, v)
    PROVE  /\ Sound(im, disk') /\ safe' = safe
           /\ \A q \in Places(im.oblocks) : disk'[q] = IF q = p THEN v ELSE disk[q]
<1>1. DOMAIN disk = Places(im.oblocks) /\ \A q \in Places(im.oblocks) : Fits(im, q, disk[q])
  BY DEF Sound
<1>2. disk' = [disk EXCEPT ![p] = v] /\ safe' = safe
  BY DEF Write
<1>3. disk' = [q \in Places(im.oblocks) |-> disk'[q]]
  BY <1>1, <1>2
<1>4. \A q \in Places(im.oblocks) : disk'[q] = IF q = p THEN v ELSE disk[q]
  BY <1>1, <1>2
<1>5. \A q \in Places(im.oblocks) : Fits(im, q, disk'[q])
  <2> SUFFICES ASSUME NEW q \in Places(im.oblocks) PROVE Fits(im, q, disk'[q])
    OBVIOUS
  <2>1. CASE q = p
    <3>1. disk'[q] = v
      BY <1>4, <2>1
    <3>2. QED
      BY <2>1, <3>1
  <2>2. CASE q # p
    <3>1. disk'[q] = disk[q]
      BY <1>4, <2>2
    <3>2. QED
      BY <1>1, <3>1
  <2>3. QED
    BY <2>1, <2>2
<1>6. QED
  BY <1>2, <1>3, <1>4, <1>5 DEF Sound

\* What the superblock and the orphan file hold is not looked at here.
LEMMA FitsAnything ==
    ASSUME NEW im, NEW v
    PROVE  Fits(im, Sb, v) /\ \A k : Fits(im, Slots(k), v)
  BY PlacesDiffer DEF Fits

\* The devices a check finds are sound.
LEMMA ImageSound ==
    ASSUME NEW im \in Images
    PROVE  Sound(im, im.disk)
<1> DEFINE d == im.disk
<1>1. /\ d = [p \in Places(im.oblocks) |-> d[p]]
      /\ \A i \in Ino : IsInode(d[Inode(i)])
      /\ \A b \in Blk : IsIndex(d[Index(b)]) /\ d[Refs(b)] \in Nat
      /\ d[BlockBitmap] \subseteq Blk /\ d[InodeBitmap] \subseteq Ino /\ IsGroupDesc(d[Gd])
  BY ImageAssumption
<1>2. \A i \in Ino : Shrunk(im, i, d[Inode(i)])
  BY <1>1 DEF Shrunk
<1>3. \A b \in Blk : Narrowed(im, b, d[Index(b)])
  BY <1>1 DEF Narrowed
<1>4. \A p \in Places(im.oblocks) : Fits(im, p, d[p])
  BY <1>1, <1>2, <1>3 DEF Fits
<1>5. QED
  BY <1>1, <1>4 DEF Sound

-------------------------------------------------------------------------------
(* Types *)

Working == {"truncate", "collect", "free", "inode"}

\* The device, and what is in memory of it.
DeviceInv ==
    /\ image \in Images /\ Sound(image, disk) /\ Sound(image, safe)
    /\ IsGroupDesc(gd) /\ (bb = None \/ bb \subseteq Blk) /\ (ib = None \/ ib \subseteq Ino)

\* The orphan in hand is an inode as it was found, or with less of its map.
WorkInv ==
    /\ inum \in Ino \cup {0} /\ seen \subseteq Ino
    /\ IsInode(ino) /\ node \in 1 .. Len(ino.nodes) + 1
    /\ pc \in Working => inum \in Ino /\ Shrunk(image, inum, ino)
    /\ pc = "truncate" => ino.links > 0
    /\ pc = "collect" => ino.links = 0

\* The bounds and the flags.
FlagInv ==
    /\ checks \in 0 .. MaxChecks /\ crashes \in 0 .. MaxCrashes
    /\ from \in {"chain", "file"} /\ errors \in BOOLEAN /\ writes \in BOOLEAN

\* Each step leaves the flags what they are.
LEMMA FlagStep ==
    ASSUME FlagInv, Next
    PROVE  FlagInv'
<1> USE DEF walk
<1>0. MaxChecks \in Nat /\ MaxCrashes \in Nat /\ Options \subseteq BOOLEAN
  BY OrphanAssumption
<1>1. ASSUME NEW w \in Options, Open(w) PROVE FlagInv'
  <2>1. checks' = checks + 1 /\ checks < MaxChecks /\ crashes' = crashes /\ from' = "chain"
    BY <1>1 DEF Open, Fresh
  <2>2. checks' \in 0 .. MaxChecks
    BY <1>0, <2>1 DEF FlagInv
  <2>3. errors' \in BOOLEAN /\ writes' \in BOOLEAN
    BY <1>0, <1>1, Zenon DEF Open, Fresh
  <2>4. QED
    BY <2>1, <2>2, <2>3 DEF FlagInv
<1>2. CASE DeviceFails \/ PowerCut
  <2>1. crashes' = crashes + 1 /\ crashes < MaxCrashes /\ UNCHANGED <<checks, writes>> /\ from' = "chain"
    BY <1>2 DEF DeviceFails, PowerCut, Fresh
  <2>2. crashes' \in 0 .. MaxCrashes
    BY <1>0, <2>1 DEF FlagInv
  <2>3. errors' \in BOOLEAN
    BY <1>2, Zenon DEF DeviceFails, PowerCut, Fresh
  <2>4. QED
    BY <2>1, <2>2, <2>3 DEF FlagInv
<1>3. CASE Step
  <2>1. UNCHANGED <<checks, crashes, writes>>
    BY <1>3 DEF Step, Begin, ClearBlock, ClearDone, Drop, LeaveBigalloc, ChainTakes, ChainLoops, ChainEnds, TruncateKeeps,
                TruncateFails, TruncateNode, TruncateRoot, CollectFails, Collect, Free, WriteInode, FileBlock, FileEnds,
                SlotTakes, SlotsDone, Settle, WriteBlockBitmap, WriteInodeBitmap, WriteDescs, WriteSuper, FlushDevice,
                Unclean, Due, Skip, SkipFlush
  <2>2. from' = from \/ from' = "file"
    BY <1>3 DEF Step, Begin, ClearBlock, ClearDone, Drop, LeaveBigalloc, ChainTakes, ChainLoops, ChainEnds, TruncateKeeps,
                TruncateFails, TruncateNode, TruncateRoot, CollectFails, Collect, Free, WriteInode, FileBlock, FileEnds,
                SlotTakes, SlotsDone, Settle, WriteBlockBitmap, WriteInodeBitmap, WriteDescs, WriteSuper, FlushDevice,
                Unclean, Due, Skip, SkipFlush
  <2>3. CASE ClearDone
    <3>1. errors' = (image.file = "unwalkable")
      BY <2>3 DEF ClearDone
    <3>2. errors' \in BOOLEAN
      BY <3>1, Zenon
    <3>3. QED
      BY <2>1, <2>2, <3>2 DEF FlagInv
  <2>4. CASE ~ClearDone
    <3>1. errors' = errors \/ errors' = TRUE
      BY <1>3, <2>4 DEF Step, Begin, ClearBlock, Drop, LeaveBigalloc, ChainTakes, ChainLoops, ChainEnds, TruncateKeeps,
                TruncateFails, TruncateNode, TruncateRoot, CollectFails, Collect, Free, WriteInode, FileBlock, FileEnds,
                SlotTakes, SlotsDone, Settle, WriteBlockBitmap, WriteInodeBitmap, WriteDescs, WriteSuper, FlushDevice,
                Unclean, Due, Skip, SkipFlush, GiveUp
    <3>2. errors' \in BOOLEAN
      BY <3>1 DEF FlagInv
    <3>3. QED
      BY <2>1, <2>2, <3>2 DEF FlagInv
  <2>5. QED
    BY <2>3, <2>4
<1>4. QED
  BY <1>1, <1>2, <1>3 DEF Next

\* The index entry that is taken out of an inode.
LEMMA WithoutNode ==
    ASSUME NEW S, NEW s \in Seq(S), NEW n \in 1 .. Len(s)
    PROVE  LET t == SubSeq(s, 1, n - 1) \o SubSeq(s, n + 1, Len(s))
           IN  /\ t \in Seq(S) /\ Len(t) = Len(s) - 1
               /\ \A k \in DOMAIN t : \E l \in DOMAIN s : t[k] = s[l]
<1> DEFINE a == SubSeq(s, 1, n - 1)
           b == SubSeq(s, n + 1, Len(s))
           t == a \o b
<1>1. Len(s) \in Nat /\ DOMAIN s = 1 .. Len(s) /\ \A k \in 1 .. Len(s) : s[k] \in S
  OBVIOUS
<1>0. PICK m \in Nat : m = Len(s)
  BY <1>1
<1>n. n \in Nat /\ 1 <= n /\ n <= m
  BY <1>0
<1>2. a \in Seq(S) /\ Len(a) = n - 1 /\ \A k \in 1 .. n - 1 : a[k] = s[k]
  <2>1. \A k \in 1 .. n - 1 : s[k] \in S /\ 1 + k - 1 = k
    BY <1>0, <1>1, <1>n
  <2>2. /\ a \in Seq(S) /\ Len(a) = (IF 1 <= n - 1 THEN (n - 1) - 1 + 1 ELSE 0)
        /\ \A k \in 1 .. (n - 1) - 1 + 1 : a[k] = s[1 + k - 1]
    BY <1>n, <2>1, SubSeqProperties
  <2> HIDE DEF a
  <2>3. QED
    BY <1>n, <2>1, <2>2
<1>3. b \in Seq(S) /\ Len(b) = m - n /\ \A k \in 1 .. m - n : b[k] = s[n + k]
  <2>1. \A k \in n + 1 .. m : s[k] \in S
    BY <1>0, <1>1, <1>n
  <2>2. /\ b \in Seq(S) /\ Len(b) = (IF n + 1 <= m THEN m - (n + 1) + 1 ELSE 0)
        /\ \A k \in 1 .. m - (n + 1) + 1 : b[k] = s[(n + 1) + k - 1]
    BY <1>0, <1>n, <2>1, SubSeqProperties
  <2>3. \A k \in 1 .. m - n : (n + 1) + k - 1 = n + k
    BY <1>n
  <2>4. m - (n + 1) + 1 = m - n
    BY <1>n
  <2> HIDE DEF b
  <2>5. QED
    BY <1>n, <2>2, <2>3, <2>4
<1> HIDE DEF a, b
<1>4. /\ t \in Seq(S) /\ Len(t) = m - 1
      /\ \A k \in 1 .. m - 1 : t[k] = IF k <= n - 1 THEN a[k] ELSE b[k - (n - 1)]
  <2>1. /\ t \in Seq(S) /\ Len(t) = Len(a) + Len(b)
        /\ \A k \in 1 .. Len(a) + Len(b) : t[k] = IF k <= Len(a) THEN a[k] ELSE b[k - Len(a)]
    BY <1>2, <1>3, ConcatProperties
  <2>2. Len(a) + Len(b) = m - 1
    BY <1>2, <1>3, <1>n
  <2> HIDE DEF t
  <2>3. QED
    BY <1>2, <2>1, <2>2
<1> HIDE DEF t
<1>5. ASSUME NEW k \in DOMAIN t PROVE \E l \in DOMAIN s : t[k] = s[l]
  <2>0. k \in 1 .. m - 1 /\ DOMAIN s = 1 .. m
    BY <1>0, <1>1, <1>4
  <2>1. CASE k <= n - 1
    <3>1. k \in 1 .. n - 1 /\ k \in DOMAIN s
      BY <1>n, <2>0, <2>1
    <3>2. QED
      BY <1>2, <1>4, <2>0, <2>1, <3>1
  <2>2. CASE ~(k <= n - 1)
    <3>1. k - (n - 1) \in 1 .. m - n /\ k + 1 \in DOMAIN s /\ n + (k - (n - 1)) = k + 1
      BY <1>n, <2>0, <2>2
    <3>2. t[k] = b[k - (n - 1)]
      BY <1>4, <2>0, <2>2
    <3>3. t[k] = s[k + 1]
      BY <1>3, <3>1, <3>2
    <3>4. QED
      BY <3>1, <3>3
  <2>3. QED
    BY <2>1, <2>2
<1>6. Len(t) = Len(s) - 1
  BY <1>0, <1>4
<1>7. QED
  BY <1>4, <1>5, <1>6 DEF a, b, t

\* A check that begins, or is cut short: what it has in memory is read from the device.
LEMMA FreshStep ==
    ASSUME DeviceInv, WorkInv, (\E w \in Options : Open(w)) \/ DeviceFails \/ PowerCut
    PROVE  DeviceInv' /\ WorkInv'
<1>1. /\ image' = image /\ Fresh /\ pc' \notin Working
      /\ (\E w \in Options : Open(w)) \/ DeviceFails => UNCHANGED <<disk, safe>>
  BY DEF Open, DeviceFails, PowerCut, device, Working
<1>2. Sound(image, disk') /\ Sound(image, safe')
  <2>1. CASE (\E w \in Options : Open(w)) \/ DeviceFails
    BY <1>1, <2>1 DEF DeviceInv
  <2>2. CASE PowerCut
    <3>1. DOMAIN disk = Places(image.oblocks)
      BY SoundHolds DEF DeviceInv
    <3>2. PICK kept : disk' = [p \in DOMAIN disk |-> IF p \in kept THEN disk[p] ELSE safe[p]]
      BY <2>2 DEF PowerCut
    <3>3. safe' = disk'
      BY <2>2 DEF PowerCut
    <3>4. disk' = [p \in Places(image.oblocks) |-> disk'[p]]
      BY <3>1, <3>2
    <3>5. \A p \in Places(image.oblocks) : disk'[p] = disk[p] \/ disk'[p] = safe[p]
      BY <3>1, <3>2
    <3>6. \A p \in Places(image.oblocks) : Fits(image, p, disk'[p])
      BY <3>5 DEF DeviceInv, Sound
    <3>7. QED
      BY <3>3, <3>4, <3>6 DEF Sound
  <2>3. QED
    BY <2>1, <2>2
<1>3. IsGroupDesc(disk'[Gd])
  BY <1>2, SoundHolds
<1>4. gd' = disk'[Gd] /\ bb' = None /\ ib' = None /\ inum' = 0 /\ seen' = {} /\ ino' = NoInode /\ node' = 1
  BY <1>1 DEF Fresh
<1>5. DeviceInv'
  BY <1>1, <1>2, <1>3, <1>4 DEF DeviceInv
<1>6. IsInode(NoInode) /\ Len(NoInode.nodes) = 0
  BY DEF IsInode, NoInode
<1>7. 1 \in 1 .. Len(ino'.nodes) + 1
  BY <1>4, <1>6
<1>8. WorkInv'
  BY <1>1, <1>4, <1>6, <1>7 DEF WorkInv, Working
<1>9. QED
  BY <1>5, <1>8

\* The steps that neither write to the device nor touch an orphan.
Quiet ==
    \/ Begin \/ ClearDone \/ ChainLoops \/ ChainEnds \/ TruncateFails \/ CollectFails \/ FileBlock \/ FileEnds
    \/ Settle \/ Due
    \/ SlotTakes /\ pc' = "settle"

\* The steps that write the superblock, or a block of the orphan file.
Marking == Drop \/ LeaveBigalloc \/ WriteSuper \/ Unclean \/ Skip \/ ClearBlock \/ SlotsDone

\* What the first leave alone.
LEMMA QuietLeaves ==
    ASSUME WorkInv, Quiet
    PROVE  UNCHANGED <<image, disk, safe, gd, bb, ib, seen, ino, node, freed, crashes>> /\ pc' \notin Working
           /\ inum' \in Ino \cup {0}
<1> USE DEF device, handle, stats, orphan, walk
<1>1. CASE SlotTakes /\ pc' = "settle"
  <2>1. PICK k \in DOMAIN slots : \/ legal(slots[k]) /\ Take(slots[k]) /\ UNCHANGED errors
                                  \/ ~legal(slots[k]) /\ GiveUp /\ UNCHANGED orphan
    BY <1>1 DEF SlotTakes
  <2>2. ~Take(slots[k])
    BY <1>1 DEF Take
  <2>3. UNCHANGED orphan
    BY <2>1, <2>2
  <2>4. QED
    BY <1>1, <2>3 DEF SlotTakes, WorkInv, Working
<1>2. CASE ~(SlotTakes /\ pc' = "settle")
  <2>1. UNCHANGED <<image, disk, safe, gd, bb, ib, seen, ino, node, freed, crashes>>
    BY <1>2 DEF Quiet, Begin, ClearDone, ChainLoops, ChainEnds, TruncateFails, CollectFails, FileBlock, FileEnds, Settle, Due
  <2>2. pc' \notin Working
    BY <1>2 DEF Quiet, Begin, ClearDone, ChainLoops, ChainEnds, TruncateFails, CollectFails, FileBlock, FileEnds, Settle, Due,
                GiveUp, Working
  <2>3. inum' = inum \/ inum' = 0 \/ legal(inum')
    BY <1>2 DEF Quiet, Begin, ClearDone, ChainLoops, ChainEnds, TruncateFails, CollectFails, FileBlock, FileEnds, Settle, Due
  <2>4. QED
    BY <2>1, <2>2, <2>3 DEF WorkInv, legal
<1>3. QED
  BY <1>1, <1>2

\* What the others write, and leave alone.
LEMMA MarkingWrites ==
    ASSUME DeviceInv, Marking
    PROVE  /\ UNCHANGED <<image, safe, gd, bb, ib, seen, ino, node, freed, crashes, inum>> /\ pc' \notin Working
           /\ Sound(image, disk') /\ \A q \in Places(image.oblocks) : q = Sb \/ (\E k : q = Slots(k)) \/ disk'[q] = disk[q]
<1> USE DEF device, handle, stats, orphan, walk
<1>1. UNCHANGED <<image, gd, bb, ib, seen, ino, node, freed, crashes, inum>> /\ pc' \notin Working
  BY DEF Marking, Drop, LeaveBigalloc, WriteSuper, Unclean, Skip, ClearBlock, SlotsDone, Working
<1>2. UNCHANGED <<disk, safe>> \/ (\E v : Write(Sb, v)) \/ (\E v : Write(Slots(oblock), v))
  BY DEF Marking, Drop, LeaveBigalloc, WriteSuper, Unclean, Skip, ClearBlock, SlotsDone
<1>3. Sound(image, disk)
  BY DEF DeviceInv
<1>4. CASE UNCHANGED <<disk, safe>>
  BY <1>1, <1>3, <1>4
<1>5. CASE \E v : Write(Sb, v)
  <2>1. PICK v : Write(Sb, v)
    BY <1>5
  <2>2. Sound(image, disk') /\ safe' = safe /\ \A q \in Places(image.oblocks) : disk'[q] = IF q = Sb THEN v ELSE disk[q]
    BY <1>3, <2>1, FitsAnything, WriteSound
  <2>3. QED
    BY <1>1, <2>2
<1>6. CASE \E v : Write(Slots(oblock), v)
  <2>1. PICK v : Write(Slots(oblock), v)
    BY <1>6
  <2>2. PICK k : k = oblock
    OBVIOUS
  <2>3. Write(Slots(k), v) /\ Fits(image, Slots(k), v)
    BY <2>1, <2>2, FitsAnything
  <2>4. /\ Sound(image, disk') /\ safe' = safe
        /\ \A q \in Places(image.oblocks) : disk'[q] = IF q = Slots(k) THEN v ELSE disk[q]
    BY <1>3, <2>3, WriteSound
  <2>5. QED
    BY <1>1, <2>4
<1>7. QED
  BY <1>2, <1>4, <1>5, <1>6

\* Both leave the types what they are.
LEMMA QuietStep ==
    ASSUME DeviceInv, WorkInv, Quiet \/ Marking
    PROVE  DeviceInv' /\ WorkInv'
<1>1. UNCHANGED <<image, safe, gd, bb, ib, seen, ino, node>> /\ pc' \notin Working /\ inum' \in Ino \cup {0}
  BY QuietLeaves, MarkingWrites DEF WorkInv
<1>2. Sound(image, disk')
  BY QuietLeaves, MarkingWrites DEF DeviceInv
<1>3. DeviceInv'
  BY <1>1, <1>2 DEF DeviceInv
<1>4. WorkInv'
  BY <1>1 DEF WorkInv, Working
<1>5. QED
  BY <1>3, <1>4

\* The end of a release: the bitmaps, the descriptors, the flushes.
LEMMA SettleStep ==
    ASSUME DeviceInv, WorkInv, WriteBlockBitmap \/ WriteInodeBitmap \/ WriteDescs \/ FlushDevice \/ SkipFlush
    PROVE  DeviceInv' /\ WorkInv'
<1> USE DEF device, handle, stats, orphan, walk
<1>1. UNCHANGED <<image, gd, bb, ib, seen, ino, node, inum>> /\ pc' \notin Working
  BY DEF WriteBlockBitmap, WriteInodeBitmap, WriteDescs, FlushDevice, SkipFlush, Working
<1>2. WorkInv'
  BY <1>1 DEF WorkInv, Working
<1>3. Sound(image, disk') /\ Sound(image, safe')
  <2>1. CASE FlushDevice \/ SkipFlush
    BY <2>1 DEF FlushDevice, SkipFlush, Sync, DeviceInv
  <2>2. CASE UNCHANGED <<disk, safe>>
    BY <2>2 DEF DeviceInv
  <2>3. CASE bb # None /\ Write(BlockBitmap, bb)
    <3>1. PICK v : v = bb
      OBVIOUS
    <3>2. Write(BlockBitmap, v) /\ Fits(image, BlockBitmap, v)
      BY <2>3, <3>1, PlacesDiffer DEF DeviceInv, Fits
    <3>3. QED
      BY <3>2, WriteSound DEF DeviceInv
  <2>4. CASE ib # None /\ Write(InodeBitmap, ib)
    <3>1. PICK v : v = ib
      OBVIOUS
    <3>2. Write(InodeBitmap, v) /\ Fits(image, InodeBitmap, v)
      BY <2>4, <3>1, PlacesDiffer DEF DeviceInv, Fits
    <3>3. QED
      BY <3>2, WriteSound DEF DeviceInv
  <2>5. CASE Write(Gd, gd)
    <3>1. PICK v : v = gd
      OBVIOUS
    <3>2. Write(Gd, v) /\ Fits(image, Gd, v)
      BY <2>5, <3>1, PlacesDiffer DEF DeviceInv, Fits
    <3>3. QED
      BY <3>2, WriteSound DEF DeviceInv
  <2>6. QED
    BY <2>1, <2>2, <2>3, <2>4, <2>5 DEF WriteBlockBitmap, WriteInodeBitmap, WriteDescs
<1>4. DeviceInv'
  BY <1>1, <1>3 DEF DeviceInv
<1>5. QED
  BY <1>2, <1>4

\* release_one begins.
LEMMA TakeStep ==
    ASSUME DeviceInv, WorkInv, ChainTakes \/ (SlotTakes /\ pc' # "settle")
    PROVE  /\ DeviceInv' /\ WorkInv' /\ pc' \in Working /\ ino' = disk[Inode(inum')] /\ inum' \in Ino /\ freed' = {}
           /\ UNCHANGED <<image, disk, safe, gd, bb, ib, crashes>>
<1> USE DEF device, handle, stats, orphan, walk
<1>1. PICK i \in Ino : Take(i)
  <2>1. CASE ChainTakes
    BY <2>1 DEF ChainTakes, WorkInv
  <2>2. CASE SlotTakes /\ pc' # "settle"
    <3>1. PICK k \in DOMAIN slots : \/ legal(slots[k]) /\ Take(slots[k]) /\ UNCHANGED errors
                                    \/ ~legal(slots[k]) /\ GiveUp /\ UNCHANGED orphan
      BY <2>2 DEF SlotTakes
    <3>2. ~GiveUp
      BY <2>2 DEF GiveUp
    <3>3. QED
      BY <3>1, <3>2 DEF legal
  <2>3. QED
    BY <2>1, <2>2
<1>2. UNCHANGED <<image, disk, safe, gd, bb, ib, crashes>> /\ (seen' = seen \/ seen' = seen \cup {i})
  <2>1. CASE ChainTakes
    <3>1. inum' = inum /\ inum' = i
      BY <1>1, <2>1 DEF ChainTakes, Take
    <3>2. QED
      BY <2>1, <3>1 DEF ChainTakes
  <2>2. CASE SlotTakes
    BY <2>2 DEF SlotTakes
  <2>3. QED
    BY <2>1, <2>2
<1>3. /\ inum' = i /\ ino' = disk[Inode(i)] /\ node' = 1 /\ freed' = {}
      /\ pc' = IF ~ino'.mapped THEN "free" ELSE IF ino'.links > 0 THEN "truncate" ELSE "collect"
  BY <1>1 DEF Take
<1>4. Shrunk(image, i, disk[Inode(i)])
  BY SoundHolds DEF DeviceInv
<1>5. IsInode(ino') /\ ino'.links \in Nat /\ Len(ino'.nodes) \in Nat
  BY <1>3, <1>4 DEF Shrunk, IsInode
<1>6. /\ pc' \in Working
      /\ pc' = "truncate" => ino'.links > 0
      /\ pc' = "collect" => ino'.links = 0
  BY <1>3, <1>5 DEF Working
<1>7. node' \in 1 .. Len(ino'.nodes) + 1
  BY <1>3, <1>5
<1>8. inum' \in Ino /\ Shrunk(image, inum', ino')
  BY <1>3, <1>4
<1>9. seen' \subseteq Ino
  BY <1>2 DEF WorkInv
<1>10. WorkInv'
  BY <1>2, <1>5, <1>6, <1>7, <1>8, <1>9 DEF WorkInv
<1>11. DeviceInv'
  BY <1>2 DEF DeviceInv
<1>12. QED
  BY <1>2, <1>3, <1>6, <1>8, <1>10, <1>11

\* The fields of an inode that an assignment leaves alone.
LEMMA InodeAcl ==
    ASSUME NEW n, IsInode(n), NEW x, NEW m, m = [n EXCEPT !.acl = x]
    PROVE  IsInode(m) /\ m.acl = x /\ m.links = n.links /\ m.cut = n.cut /\ m.root = n.root /\ m.nodes = n.nodes
  BY DEF IsInode

\* Its deletion time.
LEMMA InodeDtime ==
    ASSUME NEW n, IsInode(n), NEW x, NEW m, m = [n EXCEPT !.dtime = x]
    PROVE  IsInode(m) /\ m.acl = n.acl /\ m.links = n.links /\ m.cut = n.cut /\ m.root = n.root /\ m.nodes = n.nodes
  BY DEF IsInode

\* Its block count.
LEMMA InodeBlocks ==
    ASSUME NEW n, IsInode(n), NEW x, NEW m, m = [n EXCEPT !.blocks = x]
    PROVE  IsInode(m) /\ m.acl = n.acl /\ m.links = n.links /\ m.cut = n.cut /\ m.root = n.root /\ m.nodes = n.nodes
  BY DEF IsInode

\* Its own entries.
LEMMA InodeRoot ==
    ASSUME NEW n, IsInode(n), NEW x, x \subseteq n.root, NEW m, m = [n EXCEPT !.root = x]
    PROVE  IsInode(m) /\ m.acl = n.acl /\ m.links = n.links /\ m.cut = n.cut /\ m.root = x /\ m.nodes = n.nodes
  BY DEF IsInode

NodeLists == Seq([blk : Blk, first : Nat])

\* Its index entries.
LEMMA InodeNodes ==
    ASSUME NEW n, IsInode(n), NEW x, x \in NodeLists, NEW m, m = [n EXCEPT !.nodes = x]
    PROVE  IsInode(m) /\ m.acl = n.acl /\ m.links = n.links /\ m.cut = n.cut /\ m.root = n.root /\ m.nodes = x
  BY DEF IsInode, NodeLists

\* The entry of the inode that truncation is at, and its index block.
LEMMA AtNode ==
    ASSUME DeviceInv, WorkInv, pc = "truncate", node <= Len(ino.nodes)
    PROVE  /\ node \in 1 .. Len(ino.nodes) /\ ino.nodes \in Seq([blk : Blk, first : Nat])
           /\ ino.nodes[node].blk \in Blk /\ ino.nodes[node].first \in Nat
           /\ Narrowed(image, ino.nodes[node].blk, disk[Index(ino.nodes[node].blk)])
           /\ \E l \in DOMAIN image.disk[Inode(inum)].nodes : ino.nodes[node] = image.disk[Inode(inum)].nodes[l]
<1>1. ino.nodes \in Seq([blk : Blk, first : Nat]) /\ Shrunk(image, inum, ino) /\ node \in 1 .. Len(ino.nodes) + 1
  BY DEF WorkInv, IsInode, Working
<1>2. node \in 1 .. Len(ino.nodes) /\ DOMAIN ino.nodes = 1 .. Len(ino.nodes)
  BY <1>1
<1>3. ino.nodes[node] \in [blk : Blk, first : Nat]
  BY <1>1, <1>2, ElementOfSeq
<1>4. ino.nodes[node].blk \in Blk /\ ino.nodes[node].first \in Nat
  BY <1>3
<1>5. Narrowed(image, ino.nodes[node].blk, disk[Index(ino.nodes[node].blk)])
  BY <1>4, SoundHolds DEF DeviceInv
<1>6. QED
  BY <1>1, <1>2, <1>4, <1>5 DEF Shrunk

\* truncate_node, truncate_indirect_block.
LEMMA TruncateStep ==
    ASSUME DeviceInv, WorkInv, TruncateKeeps \/ TruncateNode
    PROVE  /\ DeviceInv' /\ WorkInv' /\ pc = "truncate" /\ node <= Len(ino.nodes) /\ ino'.acl = ino.acl
           /\ UNCHANGED <<image, safe, gd, bb, ib, crashes, inum, pc>>
           /\ \A q \in Places(image.oblocks) : (\E b \in Blk : q = Index(b)) \/ disk'[q] = disk[q]
<1> USE DEF device, handle, stats, orphan, walk
<1>1. /\ pc = "truncate" /\ pc' = pc /\ node <= Len(ino.nodes)
      /\ UNCHANGED <<image, gd, bb, ib, crashes, inum, seen>>
  BY DEF TruncateKeeps, TruncateNode
<1>2. /\ inum \in Ino /\ Shrunk(image, inum, ino) /\ ino.links > 0 /\ IsInode(ino) /\ Len(ino.nodes) \in Nat
      /\ Sound(image, disk) /\ Sound(image, safe) /\ node \in 1 .. Len(ino.nodes)
  BY <1>1, AtNode DEF WorkInv, DeviceInv, Working, IsInode
<1>3. CASE node' = node + 1 /\ ino' = ino
  <2>1. WorkInv'
    BY <1>1, <1>2, <1>3 DEF WorkInv
  <2>2. /\ Sound(image, disk') /\ safe' = safe
        /\ \A q \in Places(image.oblocks) : (\E b \in Blk : q = Index(b)) \/ disk'[q] = disk[q]
    <3>1. CASE UNCHANGED <<disk, safe>>
      BY <1>2, <3>1
    <3>2. CASE ~UNCHANGED <<disk, safe>>
      <4>1. PICK b : b = ino.nodes[node].blk
        OBVIOUS
      <4>2. PICK v : v = [disk[Index(b)] EXCEPT !.entries = Kept(node)]
        OBVIOUS
      <4>3. Write(Index(b), v)
        BY <1>3, <3>2, <4>1, <4>2 DEF TruncateNode, TruncateKeeps
      <4>4. b \in Blk /\ Narrowed(image, b, disk[Index(b)]) /\ Kept(node) \subseteq disk[Index(b)].entries
        BY <1>1, <4>1, AtNode DEF Kept
      <4>5. Narrowed(image, b, v)
        BY <4>2, <4>4 DEF Narrowed, IsIndex
      <4>6. Fits(image, Index(b), v)
        BY <4>5, PlacesDiffer DEF Fits
      <4>7. /\ Sound(image, disk') /\ safe' = safe
            /\ \A q \in Places(image.oblocks) : disk'[q] = IF q = Index(b) THEN v ELSE disk[q]
        BY <1>2, <4>3, <4>6, WriteSound
      <4>8. QED
        BY <4>4, <4>7
    <3>3. QED
      BY <3>1, <3>2
  <2>3. DeviceInv'
    BY <1>1, <1>2, <2>2 DEF DeviceInv
  <2>4. QED
    BY <1>1, <1>3, <2>1, <2>2, <2>3
<1>4. CASE UNCHANGED <<disk, safe, node>> /\ ino' = [ino EXCEPT !.nodes = SubSeq(@, 1, node - 1) \o SubSeq(@, node + 1, Len(@))]
  <2> DEFINE s == ino.nodes
             t == SubSeq(s, 1, node - 1) \o SubSeq(s, node + 1, Len(s))
  <2>1. s \in Seq([blk : Blk, first : Nat]) /\ node \in 1 .. Len(s)
    BY <1>1, AtNode
  <2>2. /\ t \in Seq([blk : Blk, first : Nat]) /\ Len(t) = Len(s) - 1
        /\ \A k \in DOMAIN t : \E l \in DOMAIN s : t[k] = s[l]
    BY <2>1, WithoutNode
  <2>3. ino' = [ino EXCEPT !.nodes = t]
    BY <1>4
  <2> HIDE DEF t
  <2>4. /\ IsInode(ino') /\ ino'.acl = ino.acl /\ ino'.links = ino.links /\ ino'.cut = ino.cut /\ ino'.root = ino.root
        /\ ino'.nodes = t
    <3>1. PICK n : n = ino
      OBVIOUS
    <3>2. IsInode(n) /\ ino' = [n EXCEPT !.nodes = t] /\ t \in NodeLists
      BY <1>2, <2>2, <2>3, <3>1 DEF NodeLists
    <3>3. /\ IsInode(ino') /\ ino'.acl = n.acl /\ ino'.links = n.links /\ ino'.cut = n.cut /\ ino'.root = n.root
          /\ ino'.nodes = t
      BY <3>2, InodeNodes
    <3>4. QED
      BY <3>1, <3>3
  <2>5. Shrunk(image, inum, ino')
    BY <1>2, <2>2, <2>4 DEF Shrunk
  <2>6. node' \in 1 .. Len(ino'.nodes) + 1
    <3>1. PICK m \in Nat : m = Len(s)
      BY <1>2
    <3>2. node \in 1 .. m /\ Len(t) = m - 1
      BY <2>1, <2>2, <3>1
    <3>3. node \in 1 .. Len(t) + 1
      BY <3>2
    <3>4. QED
      BY <1>4, <2>4, <3>3
  <2>7. WorkInv'
    BY <1>1, <1>2, <2>4, <2>5, <2>6 DEF WorkInv
  <2>8. DeviceInv'
    BY <1>1, <1>4 DEF DeviceInv
  <2>9. QED
    BY <1>1, <1>4, <2>4, <2>7, <2>8
<1>5. QED
  BY <1>3, <1>4 DEF TruncateKeeps, TruncateNode

\* The inode's own entries.
LEMMA RootStep ==
    ASSUME DeviceInv, WorkInv, TruncateRoot
    PROVE  /\ DeviceInv' /\ WorkInv' /\ pc = "truncate" /\ pc' = "free" /\ ino'.acl = ino.acl
           /\ UNCHANGED <<image, disk, safe, gd, bb, ib, crashes, inum>>
<1> USE DEF device, handle, stats, orphan, walk
<1>1. pc = "truncate" /\ pc' = "free" /\ UNCHANGED <<image, disk, safe, gd, bb, ib, crashes, inum, node, seen>>
  BY DEF TruncateRoot
<1>2. inum \in Ino /\ Shrunk(image, inum, ino) /\ IsInode(ino) /\ node \in 1 .. Len(ino.nodes) + 1
  BY <1>1 DEF WorkInv, Working
<1>3. PICK root, blocks : root \subseteq ino.root /\ ino' = [ino EXCEPT !.root = root, !.blocks = blocks]
  BY DEF TruncateRoot
<1>4. PICK m : m = [ino EXCEPT !.root = root]
  OBVIOUS
<1>5. IsInode(m) /\ m.acl = ino.acl /\ m.links = ino.links /\ m.cut = ino.cut /\ m.root = root /\ m.nodes = ino.nodes
  <2>1. PICK n : n = ino
    OBVIOUS
  <2>2. IsInode(n) /\ m = [n EXCEPT !.root = root] /\ root \subseteq n.root
    BY <1>2, <1>3, <1>4, <2>1
  <2>3. IsInode(m) /\ m.acl = n.acl /\ m.links = n.links /\ m.cut = n.cut /\ m.root = root /\ m.nodes = n.nodes
    BY <2>2, InodeRoot
  <2>4. QED
    BY <2>1, <2>3
<1>6. ino' = [m EXCEPT !.blocks = blocks]
  BY <1>3, <1>4
<1>7. /\ IsInode(ino') /\ ino'.acl = ino.acl /\ ino'.links = ino.links /\ ino'.cut = ino.cut /\ ino'.root = root
      /\ ino'.nodes = ino.nodes
  BY <1>5, <1>6, InodeBlocks
<1>8. Shrunk(image, inum, ino')
  BY <1>2, <1>3, <1>7 DEF Shrunk
<1>9. WorkInv'
  BY <1>1, <1>2, <1>7, <1>8 DEF WorkInv, Working
<1>10. DeviceInv'
  BY <1>1 DEF DeviceInv
<1>11. QED
  BY <1>1, <1>7, <1>9, <1>10

\* The blocks of an inode without links, and its attribute block's reference.
LEMMA CollectStep ==
    ASSUME DeviceInv, WorkInv, Collect
    PROVE  /\ DeviceInv' /\ WorkInv' /\ pc = "collect" /\ pc' = "free" /\ ino'.acl = 0
           /\ UNCHANGED <<image, safe, gd, bb, ib, crashes, inum>>
           /\ \A q \in Places(image.oblocks) : (ino.acl \in Blk /\ q = Refs(ino.acl)) \/ disk'[q] = disk[q]
           /\ ino.acl \in Blk => disk'[Refs(ino.acl)] = IF disk[Refs(ino.acl)] > 0 THEN disk[Refs(ino.acl)] - 1 ELSE 0
<1> USE DEF device, handle, stats, orphan, walk
<1>1. /\ pc = "collect" /\ pc' = "free" /\ UNCHANGED <<image, gd, bb, ib, crashes, inum, node, seen>>
      /\ ino' = [ino EXCEPT !.acl = 0]
  BY DEF Collect
<1>2. /\ inum \in Ino /\ Shrunk(image, inum, ino) /\ IsInode(ino) /\ node \in 1 .. Len(ino.nodes) + 1 /\ ino.links = 0
      /\ Sound(image, disk)
  BY <1>1 DEF WorkInv, Working, DeviceInv
<1>3. IsInode(ino') /\ ino'.acl = 0 /\ ino'.links = ino.links /\ ino'.cut = ino.cut /\ ino'.root = ino.root
      /\ ino'.nodes = ino.nodes
  <2>1. PICK n : n = ino
    OBVIOUS
  <2>2. PICK z : z = 0
    OBVIOUS
  <2>3. IsInode(n) /\ ino' = [n EXCEPT !.acl = z]
    BY <1>1, <1>2, <2>1, <2>2
  <2>4. IsInode(ino') /\ ino'.acl = z /\ ino'.links = n.links /\ ino'.cut = n.cut /\ ino'.root = n.root
        /\ ino'.nodes = n.nodes
    BY <2>3, InodeAcl
  <2>5. QED
    BY <2>1, <2>2, <2>4
<1>4. Shrunk(image, inum, ino')
  BY <1>2, <1>3 DEF Shrunk
<1>5. WorkInv'
  BY <1>1, <1>2, <1>3, <1>4 DEF WorkInv, Working
<1>6. CASE ino.acl \notin Blk
  <2>1. UNCHANGED <<disk, safe>>
    BY <1>6 DEF Collect
  <2>2. QED
    BY <1>1, <1>3, <1>5, <1>6, <2>1 DEF DeviceInv
<1>7. CASE ino.acl \in Blk
  <2>1. PICK b \in Blk : b = ino.acl
    BY <1>7
  <2>2. PICK v : v = IF disk[Refs(b)] > 0 THEN disk[Refs(b)] - 1 ELSE 0
    OBVIOUS
  <2>3. Write(Refs(b), v)
    BY <1>7, <2>1, <2>2 DEF Collect
  <2>4. disk[Refs(b)] \in Nat
    BY <1>2, SoundHolds
  <2>5. v \in Nat
    BY <2>2, <2>4
  <2>6. Fits(image, Refs(b), v)
    BY <2>5, PlacesDiffer DEF Fits
  <2>7. /\ Sound(image, disk') /\ safe' = safe
        /\ \A q \in Places(image.oblocks) : disk'[q] = IF q = Refs(b) THEN v ELSE disk[q]
    BY <1>2, <2>3, <2>6, WriteSound
  <2>8. disk'[Refs(b)] = v
    BY <2>7, PlacesThere
  <2>9. DeviceInv'
    BY <1>1, <2>7 DEF DeviceInv
  <2>10. QED
    BY <1>1, <1>3, <1>5, <2>1, <2>2, <2>7, <2>8, <2>9
<1>8. QED
  BY <1>6, <1>7

Used == Loaded(bb, BlockBitmap)
Inodes == Loaded(ib, InodeBitmap)
Unlinked == IF ino.links = 0 THEN {inum} ELSE {}

\* The bitmaps in memory, or on the device as long as none is.
LEMMA LoadedBitmaps ==
    ASSUME DeviceInv
    PROVE  /\ Used \subseteq Blk /\ Inodes \subseteq Ino
           /\ \A X : Cardinality(X \cap Used) \in Nat /\ Cardinality(X \cap Inodes) \in Nat
<1>1. Used \subseteq Blk /\ Inodes \subseteq Ino
  BY SoundHolds DEF DeviceInv, Used, Inodes, Loaded
<1>2. IsFiniteSet(Blk) /\ IsFiniteSet(Ino)
  BY OrphanAssumption
<1>3. ASSUME NEW X PROVE Cardinality(X \cap Used) \in Nat /\ Cardinality(X \cap Inodes) \in Nat
  <2>1. IsFiniteSet(X \cap Used) /\ IsFiniteSet(X \cap Inodes)
    BY <1>1, <1>2, FS_Subset
  <2>2. QED
    BY <2>1, FS_CardinalityType
<1>4. QED
  BY <1>1, <1>3

\* A descriptor with another count of blocks.
LEMMA DescBlocks ==
    ASSUME NEW g, IsGroupDesc(g), NEW x \in Nat, NEW h, h = [g EXCEPT !.free_blocks = x]
    PROVE  IsGroupDesc(h) /\ h.free_blocks = x /\ h.free_inodes = g.free_inodes
  BY DEF IsGroupDesc

\* And of inodes.
LEMMA DescInodes ==
    ASSUME NEW g, IsGroupDesc(g), NEW x \in Nat, NEW h, h = [g EXCEPT !.free_inodes = x]
    PROVE  IsGroupDesc(h) /\ h.free_blocks = g.free_blocks /\ h.free_inodes = x
  BY DEF IsGroupDesc

\* AllocStats: what an orphan loses.
LEMMA FreeStep ==
    ASSUME DeviceInv, WorkInv, Free
    PROVE  /\ DeviceInv' /\ WorkInv' /\ pc = "free" /\ pc' = "inode" /\ ino'.acl = ino.acl
           /\ UNCHANGED <<image, disk, safe, freed, crashes, inum>>
           /\ bb' = IF freed \cap Blk = {} THEN bb ELSE Used \ freed
           /\ ib' = IF Unlinked = {} THEN ib ELSE Inodes \ Unlinked
           /\ gd'.free_blocks = gd.free_blocks + Cardinality(freed \cap Used)
           /\ gd'.free_inodes = gd.free_inodes + Cardinality(Unlinked \cap Inodes)
<1> USE DEF device, handle, stats, orphan, walk
<1>1. /\ pc = "free" /\ pc' = "inode" /\ UNCHANGED <<image, disk, safe, freed, crashes, inum, node, seen>>
      /\ ino' = [ino EXCEPT !.dtime = IF ino.links > 0 THEN 0 ELSE Now]
      /\ bb' = IF freed \cap Blk = {} THEN bb ELSE Used \ freed
      /\ ib' = IF Unlinked = {} THEN ib ELSE Inodes \ Unlinked
  BY DEF Free, Used, Inodes, Unlinked
<1>2. gd' = [gd EXCEPT !.free_blocks = gd.free_blocks + Cardinality(freed \cap Used),
                       !.free_inodes = gd.free_inodes + Cardinality(Unlinked \cap Inodes)]
  BY DEF Free, Used, Inodes, Unlinked
<1>3. inum \in Ino /\ Shrunk(image, inum, ino) /\ IsInode(ino) /\ node \in 1 .. Len(ino.nodes) + 1
  BY <1>1 DEF WorkInv, Working
<1>4. PICK t : ino' = [ino EXCEPT !.dtime = t]
  BY <1>1
<1>5. IsInode(ino') /\ ino'.acl = ino.acl /\ ino'.links = ino.links /\ ino'.cut = ino.cut /\ ino'.root = ino.root
      /\ ino'.nodes = ino.nodes
  <2>1. PICK n : n = ino
    OBVIOUS
  <2>2. IsInode(n) /\ ino' = [n EXCEPT !.dtime = t]
    BY <1>3, <1>4, <2>1
  <2>3. IsInode(ino') /\ ino'.acl = n.acl /\ ino'.links = n.links /\ ino'.cut = n.cut /\ ino'.root = n.root
        /\ ino'.nodes = n.nodes
    BY <2>2, InodeDtime
  <2>4. QED
    BY <2>1, <2>3
<1>6. Shrunk(image, inum, ino')
  BY <1>3, <1>5 DEF Shrunk
<1>7. WorkInv'
  BY <1>1, <1>3, <1>5, <1>6 DEF WorkInv, Working
<1>8. /\ IsGroupDesc(gd') /\ gd'.free_blocks = gd.free_blocks + Cardinality(freed \cap Used)
      /\ gd'.free_inodes = gd.free_inodes + Cardinality(Unlinked \cap Inodes)
  <2>1. PICK m \in Nat : m = Cardinality(freed \cap Used)
    BY LoadedBitmaps
  <2>2. PICK n \in Nat : n = Cardinality(Unlinked \cap Inodes)
    BY LoadedBitmaps
  <2>3. PICK g : g = gd
    OBVIOUS
  <2>4. IsGroupDesc(g)
    BY <2>3 DEF DeviceInv
  <2>5. PICK x \in Nat : x = g.free_blocks + m
    BY <2>4 DEF IsGroupDesc
  <2>6. PICK y \in Nat : y = g.free_inodes + n
    BY <2>4 DEF IsGroupDesc
  <2>7. PICK f : f = [g EXCEPT !.free_blocks = x]
    OBVIOUS
  <2>8. IsGroupDesc(f) /\ f.free_blocks = x
    BY <2>4, <2>5, <2>7, DescBlocks
  <2>9. gd' = [f EXCEPT !.free_inodes = y]
    BY <1>2, <2>1, <2>2, <2>3, <2>5, <2>6, <2>7
  <2>10. IsGroupDesc(gd') /\ gd'.free_blocks = f.free_blocks /\ gd'.free_inodes = y
    BY <2>6, <2>8, <2>9, DescInodes
  <2>11. QED
    BY <2>1, <2>2, <2>3, <2>5, <2>6, <2>8, <2>10
<1>9. (bb' = None \/ bb' \subseteq Blk) /\ (ib' = None \/ ib' \subseteq Ino)
  BY <1>1, LoadedBitmaps DEF DeviceInv
<1>10. DeviceInv'
  BY <1>1, <1>8, <1>9 DEF DeviceInv
<1>11. QED
  BY <1>1, <1>5, <1>7, <1>8, <1>10

\* write_inode.
LEMMA InodeStep ==
    ASSUME DeviceInv, WorkInv, WriteInode
    PROVE  /\ DeviceInv' /\ WorkInv' /\ pc = "inode" /\ inum \in Ino /\ pc' \notin Working
           /\ UNCHANGED <<image, safe, gd, bb, ib, freed, crashes>>
           /\ \A q \in Places(image.oblocks) : disk'[q] = IF q = Inode(inum) THEN ino ELSE disk[q]
<1> USE DEF device, handle, stats, orphan, walk
<1>1. pc = "inode" /\ pc' \notin Working /\ UNCHANGED <<image, gd, bb, ib, freed, crashes, node, seen, ino>>
  BY DEF WriteInode, Working
<1>2. inum \in Ino /\ Shrunk(image, inum, ino) /\ Sound(image, disk)
  BY <1>1 DEF WorkInv, Working, DeviceInv
<1>3. PICK i \in Ino : i = inum
  BY <1>2
<1>4. PICK n : n = ino
  OBVIOUS
<1>5. Write(Inode(i), n)
  BY <1>3, <1>4 DEF WriteInode
<1>6. Fits(image, Inode(i), n)
  BY <1>2, <1>3, <1>4, PlacesDiffer DEF Fits
<1>7. /\ Sound(image, disk') /\ safe' = safe
      /\ \A q \in Places(image.oblocks) : disk'[q] = IF q = Inode(i) THEN n ELSE disk[q]
  BY <1>2, <1>5, <1>6, WriteSound
<1>8. inum' \in Ino \cup {0}
  BY DEF WriteInode, legal, WorkInv
<1>9. WorkInv'
  BY <1>1, <1>8 DEF WorkInv, Working
<1>10. DeviceInv'
  BY <1>1, <1>7 DEF DeviceInv
<1>11. QED
  BY <1>1, <1>2, <1>3, <1>4, <1>7, <1>9, <1>10

\* Each step keeps the types.
LEMMA TypeStep ==
    ASSUME DeviceInv, WorkInv, Next
    PROVE  DeviceInv' /\ WorkInv'
<1>1. CASE Quiet \/ Marking
  BY <1>1, QuietStep
<1>2. CASE WriteBlockBitmap \/ WriteInodeBitmap \/ WriteDescs \/ FlushDevice \/ SkipFlush
  BY <1>2, SettleStep
<1>3. CASE ChainTakes \/ (SlotTakes /\ pc' # "settle")
  BY <1>3, TakeStep
<1>4. CASE (\E w \in Options : Open(w)) \/ DeviceFails \/ PowerCut
  BY <1>4, FreshStep
<1>5. CASE TruncateKeeps \/ TruncateNode \/ TruncateRoot \/ Collect \/ Free \/ WriteInode
  BY <1>5, TruncateStep, RootStep, CollectStep, FreeStep, InodeStep
<1>6. QED
  BY <1>1, <1>2, <1>3, <1>4, <1>5 DEF Next, Step, Quiet, Marking

-------------------------------------------------------------------------------
(* The counts *)

\* Of a finite set, what is outside a part, and outside what is left of that part.
LEMMA OutsideCounts ==
    ASSUME NEW S, IsFiniteSet(S), NEW U \in SUBSET S, NEW F
    PROVE  /\ Cardinality(S \ U) \in Nat /\ Cardinality(S) \in Nat /\ Cardinality(F \cap U) \in Nat
           /\ Cardinality(S \ (U \ F)) = Cardinality(S \ U) + Cardinality(F \cap U)
           /\ Cardinality(S \ U) <= Cardinality(S)
<1>1. IsFiniteSet(S \ U) /\ IsFiniteSet(F \cap U) /\ Cardinality(S \ U) <= Cardinality(S)
  BY FS_Subset
<1>2. Cardinality(S \ U) \in Nat /\ Cardinality(S) \in Nat /\ Cardinality(F \cap U) \in Nat
  BY <1>1, FS_CardinalityType
<1>3. S \ (U \ F) = (S \ U) \cup (F \cap U) /\ (S \ U) \cap (F \cap U) = {}
  OBVIOUS
<1>4. Cardinality((S \ U) \cup (F \cap U)) = Cardinality(S \ U) + Cardinality(F \cap U) - Cardinality((S \ U) \cap (F \cap U))
  BY <1>1, FS_Union
<1>5. Cardinality((S \ U) \cap (F \cap U)) = 0
  BY <1>3, FS_EmptySet
<1>6. PICK a \in Nat : a = Cardinality(S \ U)
  BY <1>2
<1>7. PICK b \in Nat : b = Cardinality(F \cap U)
  BY <1>2
<1>8. Cardinality(S \ (U \ F)) = a + b - 0
  BY <1>3, <1>4, <1>5, <1>6, <1>7
<1>9. a + b - 0 = a + b
  OBVIOUS
<1>10. QED
  BY <1>1, <1>2, <1>6, <1>7, <1>8, <1>9

\* Outside a part there is no less than outside the whole of it.
LEMMA OutsideGrows ==
    ASSUME NEW S, IsFiniteSet(S), NEW U \in SUBSET S, NEW V \in SUBSET U
    PROVE  Cardinality(S \ U) <= Cardinality(S \ V)
  BY FS_Subset

\* Unless something crashed, no free count exceeds what its bitmap leaves, in memory or on the device.
CountInv ==
    crashes = 0 =>
        /\ gd.free_blocks <= Cardinality(Blk \ Used) /\ gd.free_inodes <= Cardinality(Ino \ Inodes)
        /\ disk[Gd].free_blocks <= Cardinality(Blk \ disk[BlockBitmap])
        /\ disk[Gd].free_inodes <= Cardinality(Ino \ disk[InodeBitmap])
        /\ Used \subseteq disk[BlockBitmap] /\ Inodes \subseteq disk[InodeBitmap]
        /\ pc \in {"inodes", "descs"} => Used = disk[BlockBitmap]
        /\ pc = "descs" => Inodes = disk[InodeBitmap]

\* A step that leaves the group alone.
GroupSame ==
    /\ UNCHANGED <<gd, bb, ib, crashes>> /\ pc' \notin {"inodes", "descs"}
    /\ disk'[Gd] = disk[Gd] /\ disk'[BlockBitmap] = disk[BlockBitmap] /\ disk'[InodeBitmap] = disk[InodeBitmap]

\* It leaves the counts alone.
LEMMA SameCounts ==
    ASSUME CountInv, GroupSame
    PROVE  CountInv'
<1>1. Used' = Used /\ Inodes' = Inodes
  BY DEF Used, Inodes, Loaded, GroupSame
<1>2. QED
  BY <1>1 DEF CountInv, GroupSame

\* The steps that leave the group alone.
LEMMA GroupLeft ==
    ASSUME DeviceInv, WorkInv,
           \/ Quiet \/ Marking \/ FlushDevice \/ SkipFlush \/ ChainTakes \/ (SlotTakes /\ pc' # "settle")
           \/ TruncateKeeps \/ TruncateNode \/ TruncateRoot \/ Collect \/ WriteInode
    PROVE  GroupSame
<1> USE DEF device, handle, stats, orphan, walk
<1>0. {Gd, BlockBitmap, InodeBitmap} \subseteq Places(image.oblocks)
  BY PlacesThere
<1>1. CASE Quiet
  <2>1. pc' \notin {"inodes", "descs"}
    BY <1>1 DEF Quiet, Begin, ClearDone, ChainLoops, ChainEnds, TruncateFails, CollectFails, FileBlock, FileEnds, Settle, Due, GiveUp
  <2>2. QED
    BY <1>1, <2>1, QuietLeaves DEF GroupSame
<1>2. CASE Marking
  <2>1. pc' \notin {"inodes", "descs"}
    BY <1>2 DEF Marking, Drop, LeaveBigalloc, WriteSuper, Unclean, Skip, ClearBlock, SlotsDone
  <2>2. /\ UNCHANGED <<gd, bb, ib, crashes>>
        /\ \A q \in Places(image.oblocks) : q = Sb \/ (\E k : q = Slots(k)) \/ disk'[q] = disk[q]
    BY <1>2, MarkingWrites
  <2>3. QED
    BY <1>0, <2>1, <2>2, PlacesDiffer DEF GroupSame
<1>3. CASE FlushDevice \/ SkipFlush
  BY <1>3 DEF FlushDevice, SkipFlush, Sync, GroupSame
<1>4. CASE ChainTakes \/ (SlotTakes /\ pc' # "settle")
  BY <1>4, TakeStep DEF GroupSame, Working
<1>5. CASE TruncateKeeps \/ TruncateNode
  <2>1. /\ UNCHANGED <<gd, bb, ib, crashes, pc>> /\ pc = "truncate"
        /\ \A q \in Places(image.oblocks) : (\E b \in Blk : q = Index(b)) \/ disk'[q] = disk[q]
    BY <1>5, TruncateStep
  <2>2. QED
    BY <1>0, <2>1, PlacesDiffer DEF GroupSame
<1>6. CASE TruncateRoot
  BY <1>6, RootStep DEF GroupSame
<1>7. CASE Collect
  <2>1. /\ UNCHANGED <<gd, bb, ib, crashes>> /\ pc' = "free"
        /\ \A q \in Places(image.oblocks) : (ino.acl \in Blk /\ q = Refs(ino.acl)) \/ disk'[q] = disk[q]
    BY <1>7, CollectStep
  <2>2. QED
    BY <1>0, <2>1, PlacesDiffer DEF GroupSame
<1>8. CASE WriteInode
  <2>1. /\ UNCHANGED <<gd, bb, ib, crashes>>
        /\ \A q \in Places(image.oblocks) : disk'[q] = IF q = Inode(inum) THEN ino ELSE disk[q]
    BY <1>8, InodeStep
  <2>2. pc' \notin {"inodes", "descs"}
    BY <1>8 DEF WriteInode
  <2>3. QED
    BY <1>0, <2>1, <2>2, PlacesDiffer DEF GroupSame
<1>9. QED
  BY <1>1, <1>2, <1>3, <1>4, <1>5, <1>6, <1>7, <1>8

\* AllocStats: a bit that is cleared is counted, once.
LEMMA FreeCounts ==
    ASSUME DeviceInv, WorkInv, CountInv, Free
    PROVE  CountInv' /\ Used' = Used \ freed
<1>1. /\ pc' = "inode" /\ UNCHANGED <<image, disk, crashes>>
      /\ bb' = IF freed \cap Blk = {} THEN bb ELSE Used \ freed
      /\ ib' = IF Unlinked = {} THEN ib ELSE Inodes \ Unlinked
      /\ gd'.free_blocks = gd.free_blocks + Cardinality(freed \cap Used)
      /\ gd'.free_inodes = gd.free_inodes + Cardinality(Unlinked \cap Inodes)
  BY FreeStep
<1>2. Used \subseteq Blk /\ Inodes \subseteq Ino
  BY LoadedBitmaps
<1>3. \A S \in (SUBSET Blk) \cup (SUBSET Ino) : S # None
  BY OrphanAssumption
<1>4. Used' = Used \ freed
  <2>1. CASE freed \cap Blk = {}
    <3>1. Used' = Used
      BY <1>1, <2>1 DEF Used, Loaded
    <3>2. Used = Used \ freed
      BY <1>2, <2>1
    <3>3. QED
      BY <3>1, <3>2
  <2>2. CASE freed \cap Blk # {}
    <3>1. PICK U : U = Used
      OBVIOUS
    <3>2. U \ freed # None /\ bb' = U \ freed
      BY <1>1, <1>2, <1>3, <2>2, <3>1
    <3>3. QED
      BY <3>1, <3>2 DEF Used, Loaded
  <2>3. QED
    BY <2>1, <2>2
<1>5. Inodes' = Inodes \ Unlinked
  <2>1. CASE Unlinked = {}
    <3>1. Inodes' = Inodes
      BY <1>1, <2>1 DEF Inodes, Loaded
    <3>2. QED
      BY <2>1, <3>1
  <2>2. CASE Unlinked # {}
    <3>1. PICK U : U = Inodes
      OBVIOUS
    <3>2. ib' = U \ Unlinked
      BY <1>1, <2>2, <3>1
    <3>3. U \ Unlinked \in SUBSET Ino
      BY <1>2, <3>1
    <3>4. U \ Unlinked # None
      BY <1>3, <3>3
    <3>5. QED
      BY <3>1, <3>2, <3>4 DEF Inodes, Loaded
  <2>3. QED
    BY <2>1, <2>2
<1>6. ASSUME crashes = 0
      PROVE  gd'.free_blocks <= Cardinality(Blk \ Used') /\ gd'.free_inodes <= Cardinality(Ino \ Inodes')
  <2>1. gd.free_blocks <= Cardinality(Blk \ Used) /\ gd.free_inodes <= Cardinality(Ino \ Inodes)
    BY <1>6 DEF CountInv
  <2>2. gd.free_blocks \in Nat /\ gd.free_inodes \in Nat
    BY DEF DeviceInv, IsGroupDesc
  <2>3. /\ Cardinality(Blk \ Used) \in Nat /\ Cardinality(freed \cap Used) \in Nat
        /\ Cardinality(Blk \ (Used \ freed)) = Cardinality(Blk \ Used) + Cardinality(freed \cap Used)
    BY <1>2, OutsideCounts, OrphanAssumption
  <2>4. /\ Cardinality(Ino \ Inodes) \in Nat /\ Cardinality(Unlinked \cap Inodes) \in Nat
        /\ Cardinality(Ino \ (Inodes \ Unlinked)) = Cardinality(Ino \ Inodes) + Cardinality(Unlinked \cap Inodes)
    BY <1>2, OutsideCounts, OrphanAssumption
  <2>5. gd'.free_blocks <= Cardinality(Blk \ (Used \ freed))
    BY <1>1, <2>1, <2>2, <2>3
  <2>6. gd'.free_inodes <= Cardinality(Ino \ (Inodes \ Unlinked))
    BY <1>1, <2>1, <2>2, <2>4
  <2>7. QED
    BY <1>4, <1>5, <2>5, <2>6
<1>7. QED
  BY <1>1, <1>4, <1>5, <1>6 DEF CountInv

\* AllocStats::flush: the descriptors follow the bitmaps they count.
LEMMA FlushCounts ==
    ASSUME DeviceInv, WorkInv, CountInv, WriteBlockBitmap \/ WriteInodeBitmap \/ WriteDescs
    PROVE  CountInv'
<1> USE DEF device, handle, stats, orphan, walk
<1>0. /\ {Gd, BlockBitmap, InodeBitmap} \subseteq Places(image.oblocks) /\ DOMAIN disk = Places(image.oblocks)
      /\ disk[BlockBitmap] \subseteq Blk /\ disk[InodeBitmap] \subseteq Ino /\ IsFiniteSet(Blk) /\ IsFiniteSet(Ino)
      /\ Gd # BlockBitmap /\ Gd # InodeBitmap /\ BlockBitmap # InodeBitmap
  BY PlacesThere, PlacesDiffer, SoundHolds, OrphanAssumption DEF DeviceInv
<1>1. UNCHANGED <<gd, bb, ib, crashes>>
  BY DEF WriteBlockBitmap, WriteInodeBitmap, WriteDescs
<1>n. /\ disk[Gd].free_blocks \in Nat /\ disk[Gd].free_inodes \in Nat
      /\ \A U \in SUBSET Blk : Cardinality(Blk \ U) \in Nat
      /\ \A U \in SUBSET Ino : Cardinality(Ino \ U) \in Nat
  <2>1. IsGroupDesc(disk[Gd])
    BY SoundHolds DEF DeviceInv
  <2>2. QED
    BY <1>0, <2>1, OutsideCounts DEF IsGroupDesc
<1> SUFFICES ASSUME crashes = 0 PROVE CountInv'
  BY <1>1 DEF CountInv
<1>c. /\ gd.free_blocks <= Cardinality(Blk \ Used) /\ gd.free_inodes <= Cardinality(Ino \ Inodes)
      /\ disk[Gd].free_blocks <= Cardinality(Blk \ disk[BlockBitmap])
      /\ disk[Gd].free_inodes <= Cardinality(Ino \ disk[InodeBitmap])
      /\ Used \subseteq disk[BlockBitmap] /\ Inodes \subseteq disk[InodeBitmap]
      /\ pc \in {"inodes", "descs"} => Used = disk[BlockBitmap]
      /\ pc = "descs" => Inodes = disk[InodeBitmap]
  BY DEF CountInv
<1>2. CASE WriteBlockBitmap
  <2>1. pc' = "inodes" /\ disk'[BlockBitmap] = Used /\ disk'[Gd] = disk[Gd] /\ disk'[InodeBitmap] = disk[InodeBitmap]
    BY <1>0, <1>2 DEF WriteBlockBitmap, Write, Used, Loaded
  <2>2. Used' = Used /\ Inodes' = Inodes
    BY <1>1, <2>1 DEF Used, Inodes, Loaded
  <2>3. Cardinality(Blk \ disk[BlockBitmap]) <= Cardinality(Blk \ Used) /\ Used \subseteq Blk
    BY <1>0, <1>c, OutsideGrows
  <2>4. disk[Gd].free_blocks <= Cardinality(Blk \ Used)
    BY <1>0, <1>n, <1>c, <2>3
  <2>5. QED
    BY <1>1, <1>c, <2>1, <2>2, <2>4 DEF CountInv
<1>3. CASE WriteInodeBitmap
  <2>1. /\ pc = "inodes" /\ pc' = "descs" /\ disk'[BlockBitmap] = disk[BlockBitmap] /\ disk'[Gd] = disk[Gd]
        /\ disk'[InodeBitmap] = Inodes
    BY <1>0, <1>3 DEF WriteInodeBitmap, Write, Inodes, Loaded
  <2>2. Used' = Used /\ Inodes' = Inodes
    BY <1>1, <2>1 DEF Used, Inodes, Loaded
  <2>3. Cardinality(Ino \ disk[InodeBitmap]) <= Cardinality(Ino \ Inodes) /\ Inodes \subseteq Ino
    BY <1>0, <1>c, OutsideGrows
  <2>4. disk[Gd].free_inodes <= Cardinality(Ino \ Inodes)
    BY <1>0, <1>n, <1>c, <2>3
  <2>5. QED
    BY <1>1, <1>c, <2>1, <2>2, <2>4 DEF CountInv
<1>4. CASE WriteDescs
  <2>1. /\ pc = "descs" /\ pc' = "super" /\ disk'[BlockBitmap] = disk[BlockBitmap] /\ disk'[Gd] = gd
        /\ disk'[InodeBitmap] = disk[InodeBitmap]
    BY <1>0, <1>4 DEF WriteDescs, Write
  <2>2. Used' = Used /\ Inodes' = Inodes
    BY <1>1, <2>1 DEF Used, Inodes, Loaded
  <2>3. QED
    BY <1>1, <1>c, <2>1, <2>2 DEF CountInv
<1>5. QED
  BY <1>2, <1>3, <1>4

\* Each step keeps the counts.
LEMMA CountStep ==
    ASSUME DeviceInv, WorkInv, CountInv, FlagInv, Next
    PROVE  CountInv'
<1>1. CASE \/ Quiet \/ Marking \/ FlushDevice \/ SkipFlush \/ ChainTakes \/ (SlotTakes /\ pc' # "settle")
           \/ TruncateKeeps \/ TruncateNode \/ TruncateRoot \/ Collect \/ WriteInode
  BY <1>1, GroupLeft, SameCounts
<1>2. CASE WriteBlockBitmap \/ WriteInodeBitmap \/ WriteDescs
  BY <1>2, FlushCounts
<1>3. CASE Free
  BY <1>3, FreeCounts
<1>4. CASE DeviceFails \/ PowerCut
  <2>1. crashes' = crashes + 1 /\ crashes \in Nat
    BY <1>4, OrphanAssumption DEF DeviceFails, PowerCut, FlagInv
  <2>2. crashes' # 0
    BY <2>1
  <2>3. QED
    BY <2>2 DEF CountInv
<1>5. ASSUME NEW w \in Options, Open(w) PROVE CountInv'
  <2>1. UNCHANGED <<disk, crashes>> /\ gd' = disk[Gd] /\ bb' = None /\ ib' = None /\ pc' \notin {"inodes", "descs"}
    BY <1>5 DEF Open, Fresh, device
  <2>2. Used' = disk[BlockBitmap] /\ Inodes' = disk[InodeBitmap]
    BY <2>1 DEF Used, Inodes, Loaded
  <2>3. QED
    BY <2>1, <2>2 DEF CountInv
<1>6. QED
  BY <1>1, <1>2, <1>3, <1>4, <1>5 DEF Next, Step, Quiet, Marking

\* The types and counts of the devices a check finds.
LEMMA InitTypes ==
    ASSUME Init
    PROVE  DeviceInv /\ WorkInv /\ FlagInv /\ CountInv
<1>1. /\ image \in Images /\ disk = image.disk /\ safe = disk /\ checks = 0 /\ crashes = 0 /\ pc = "idle"
      /\ gd = disk[Gd] /\ bb = None /\ ib = None /\ inum = 0 /\ seen = {} /\ ino = NoInode /\ node = 1 /\ from = "chain"
  BY DEF Init
<1>2. Sound(image, disk) /\ Sound(image, safe)
  BY <1>1, ImageSound
<1>3. DeviceInv
  BY <1>1, <1>2, SoundHolds DEF DeviceInv
<1>4. IsInode(NoInode) /\ Len(NoInode.nodes) = 0
  BY DEF IsInode, NoInode
<1>5. 1 \in 1 .. Len(ino.nodes) + 1
  BY <1>1, <1>4
<1>6. WorkInv
  BY <1>1, <1>4, <1>5 DEF WorkInv, Working
<1>7. checks \in 0 .. MaxChecks /\ crashes \in 0 .. MaxCrashes
  BY <1>1, OrphanAssumption
<1>8. errors \in BOOLEAN /\ writes \in BOOLEAN
  BY Zenon DEF Init
<1>9. FlagInv
  BY <1>1, <1>7, <1>8 DEF FlagInv
<1>10. Used = disk[BlockBitmap] /\ Inodes = disk[InodeBitmap]
  BY <1>1 DEF Used, Inodes, Loaded
<1>11. CountInv
  BY <1>1, <1>10, ImageAssumption DEF CountInv
<1>12. QED
  BY <1>3, <1>6, <1>9, <1>11

\* What does not change keeps its type.
LEMMA SameTypes ==
    ASSUME DeviceInv, WorkInv, FlagInv, CountInv, UNCHANGED vars
    PROVE  DeviceInv' /\ WorkInv' /\ FlagInv' /\ CountInv'
  BY DEF vars, device, handle, stats, orphan, walk, DeviceInv, WorkInv, FlagInv, CountInv, Used, Inodes, Loaded

\* The types hold of every state, and unless something crashed no free count exceeds what there is.
THEOREM TypeCorrect == Spec => []TypeOK
<1> DEFINE Inv == DeviceInv /\ WorkInv /\ FlagInv /\ CountInv
<1>1. Init => Inv
  BY InitTypes
<1>2. Inv /\ [Next]_vars => Inv'
  <2>1. ASSUME Inv, Next PROVE Inv'
    BY <2>1, TypeStep, FlagStep, CountStep
  <2>2. ASSUME Inv, UNCHANGED vars PROVE Inv'
    BY <2>2, SameTypes
  <2>3. QED
    BY <2>1, <2>2
<1>3. Inv => TypeOK
  <2> SUFFICES ASSUME Inv PROVE TypeOK
    OBVIOUS
  <2>1. DOMAIN disk = DOMAIN safe
    BY SoundHolds DEF DeviceInv
  <2>2. /\ Used \subseteq Blk /\ Inodes \subseteq Ino
    BY LoadedBitmaps
  <2>3. /\ Cardinality(Blk \ Used) <= Cardinality(Blk) /\ Cardinality(Ino \ Inodes) <= Cardinality(Ino)
        /\ Cardinality(Blk \ Used) \in Nat /\ Cardinality(Blk) \in Nat
        /\ Cardinality(Ino \ Inodes) \in Nat /\ Cardinality(Ino) \in Nat
    <3>1. IsFiniteSet(Blk) /\ IsFiniteSet(Ino)
      BY OrphanAssumption
    <3>2. QED
      BY <2>2, <3>1, OutsideCounts
  <2>4. gd.free_blocks \in Nat /\ gd.free_inodes \in Nat
    BY DEF DeviceInv, IsGroupDesc
  <2>5. crashes = 0 => gd.free_blocks <= Cardinality(Blk) /\ gd.free_inodes <= Cardinality(Ino)
    BY <2>3, <2>4 DEF CountInv
  <2>6. QED
    BY <2>1, <2>4, <2>5 DEF TypeOK, DeviceInv, WorkInv, FlagInv
<1>4. QED
  BY <1>1, <1>2, <1>3, PTL DEF Spec

-------------------------------------------------------------------------------
(* Blocks that linked inodes keep *)

AttributesOf(im) == {im.disk[Inode(i)].acl : i \in {j \in Ino : im.disk[Inode(j)].links > 0}} \ {0}

\* What an inode without links maps, and what lies past the end of one with links, is nobody's to keep.
LEMMA LostBlocks ==
    ASSUME NEW im \in Images, NEW i \in Ino, NEW e \in EntriesOf(im.disk, i),
           im.disk[Inode(i)].links = 0 \/ e.logical >= im.disk[Inode(i)].cut
    PROVE  e.phys \notin Lasting(im.disk) \cup AttributesOf(im)
<1> DEFINE d == im.disk
<1>0. IsInode(d[Inode(i)])
  BY ImageAssumption
<1>1. ASSUME e.phys \in Lasting(d) PROVE FALSE
  <2>1. PICK j \in Ino : e.phys \in Physical(KeptEntries(d, j))
    BY <1>1 DEF Lasting
  <2>2. PICK f \in KeptEntries(d, j) : f.phys = e.phys
    BY <2>1 DEF Physical
  <2>3. j = i /\ f.logical = e.logical
    BY <2>2, ClaimAssumption
  <2>4. d[Inode(i)].links > 0 /\ e.logical < d[Inode(i)].cut /\ f \in EntriesOf(d, i)
    BY <2>2, <2>3 DEF KeptEntries
  <2>5. e.logical >= d[Inode(i)].cut
    BY <2>4
  <2>6. e.logical \in Nat
    <3>1. CASE e \in d[Inode(i)].root
      BY <1>0, <3>1 DEF IsInode
    <3>2. CASE e \notin d[Inode(i)].root
      <4>1. PICK k \in DOMAIN d[Inode(i)].nodes : e \in d[Index(d[Inode(i)].nodes[k].blk)].entries
        BY <3>2 DEF EntriesOf
      <4>2. d[Inode(i)].nodes[k].blk \in Blk
        <5>1. PICK s \in Seq([blk : Blk, first : Nat]) : s = d[Inode(i)].nodes
          BY <1>0 DEF IsInode
        <5>2. k \in 1 .. Len(s)
          BY <4>1, <5>1
        <5>3. s[k] \in [blk : Blk, first : Nat]
          BY <5>1, <5>2, ElementOfSeq
        <5>4. QED
          BY <5>1, <5>3
      <4>3. IsIndex(d[Index(d[Inode(i)].nodes[k].blk)])
        BY <4>2, ImageAssumption
      <4>4. QED
        BY <4>1, <4>3 DEF IsIndex
    <3>3. QED
      BY <3>1, <3>2
  <2>7. d[Inode(i)].cut \in Nat
    BY <1>0 DEF IsInode
  <2>8. QED
    BY <2>4, <2>5, <2>6, <2>7
<1>2. ASSUME e.phys \in AttributesOf(im) PROVE FALSE
  <2>1. e.phys \in Physical(EntriesOf(d, i))
    BY DEF Physical
  <2>2. AttributesOf(im) \cap (NodesOf(d, i) \cup Physical(EntriesOf(d, i))) = {}
    BY ClaimAssumption DEF AttributesOf
  <2>3. QED
    BY <1>2, <2>1, <2>2
<1>3. QED
  BY <1>1, <1>2

\* What kept index entries begin with, and what index blocks and attribute blocks there are besides.
LEMMA Claims ==
    ASSUME NEW im \in Images
    PROVE  /\ Lasting(im.disk) \cup AttributesOf(im) \subseteq im.disk[BlockBitmap]
           /\ \A i \in Ino : /\ (Lasting(im.disk) \cup AttributesOf(im)) \cap NodesOf(im.disk, i) = {}
                             /\ im.disk[Inode(i)].acl \notin Lasting(im.disk)
           /\ \A i \in Ino : im.disk[Inode(i)].links > 0 =>
                 LET nodes == im.disk[Inode(i)].nodes
                 IN  \A k \in DOMAIN nodes : \A e \in im.disk[Index(nodes[k].blk)].entries : nodes[k].first <= e.logical
           /\ \A b \in Blk : Cardinality({i \in Ino : im.disk[Inode(i)].acl = b}) <= im.disk[Refs(b)]
<1> DEFINE d == im.disk
           linked == {i \in Ino : d[Inode(i)].links > 0}
<1>1. AttributesOf(im) = {d[Inode(i)].acl : i \in linked} \ {0}
  BY DEF AttributesOf
<1>2. /\ Lasting(d) \cup AttributesOf(im) \subseteq d[BlockBitmap]
      /\ \A i \in Ino : /\ Lasting(d) \cap (NodesOf(d, i) \cup {d[Inode(i)].acl}) = {}
                        /\ AttributesOf(im) \cap (NodesOf(d, i) \cup Physical(EntriesOf(d, i))) = {}
      /\ \A i \in linked : LET nodes == d[Inode(i)].nodes
                           IN  \A k \in DOMAIN nodes : \A e \in d[Index(nodes[k].blk)].entries :
                                  nodes[k].first <= e.logical
      /\ \A b \in Blk : Cardinality({i \in Ino : d[Inode(i)].acl = b}) <= d[Refs(b)]
  BY <1>1, ClaimAssumption
<1>3. \A i \in Ino : /\ (Lasting(d) \cup AttributesOf(im)) \cap NodesOf(d, i) = {}
                     /\ d[Inode(i)].acl \notin Lasting(d)
  BY <1>2
<1>4. QED
  BY <1>2, <1>3

\* The orphan in hand maps no more than its inode did when it was found.
LEMMA InHand ==
    ASSUME DeviceInv, WorkInv, pc \in Working
    PROVE  /\ inum \in Ino /\ ino.links = image.disk[Inode(inum)].links /\ ino.cut = image.disk[Inode(inum)].cut
           /\ ino.cut \in Nat
           /\ \A e \in ino.root : e \in EntriesOf(image.disk, inum) /\ e.logical \in Nat
           /\ \A k \in DOMAIN ino.nodes :
                 /\ ino.nodes[k].blk \in NodesOf(image.disk, inum) /\ ino.nodes[k].first \in Nat
                 /\ \A e \in disk[Index(ino.nodes[k].blk)].entries :
                       /\ e \in EntriesOf(image.disk, inum) /\ e.logical \in Nat
                       /\ ino.links > 0 => ino.nodes[k].first <= e.logical
<1>1. /\ inum \in Ino /\ Shrunk(image, inum, ino) /\ IsInode(ino) /\ image \in Images
  BY DEF WorkInv, DeviceInv
<1>2. /\ ino.links = image.disk[Inode(inum)].links /\ ino.cut = image.disk[Inode(inum)].cut /\ ino.cut \in Nat
      /\ ino.root \subseteq image.disk[Inode(inum)].root
  BY <1>1 DEF Shrunk, IsInode
<1>3. \A e \in ino.root : e \in EntriesOf(image.disk, inum) /\ e.logical \in Nat
  BY <1>1, <1>2 DEF EntriesOf, IsInode
<1>4. ASSUME NEW k \in DOMAIN ino.nodes
      PROVE  /\ ino.nodes[k].blk \in NodesOf(image.disk, inum) /\ ino.nodes[k].first \in Nat
             /\ \A e \in disk[Index(ino.nodes[k].blk)].entries :
                   /\ e \in EntriesOf(image.disk, inum) /\ e.logical \in Nat
                   /\ ino.links > 0 => ino.nodes[k].first <= e.logical
  <2>1. PICK l \in DOMAIN image.disk[Inode(inum)].nodes : ino.nodes[k] = image.disk[Inode(inum)].nodes[l]
    BY <1>1 DEF Shrunk
  <2>2. PICK s \in Seq([blk : Blk, first : Nat]) : s = ino.nodes
    BY <1>1 DEF IsInode
  <2>3. k \in 1 .. Len(s)
    BY <2>2
  <2>4. s[k] \in [blk : Blk, first : Nat]
    BY <2>2, <2>3, ElementOfSeq
  <2>5. PICK b \in Blk : b = ino.nodes[k].blk
    BY <2>2, <2>4
  <2>6. ino.nodes[k].first \in Nat
    BY <2>2, <2>4
  <2>7. Narrowed(image, b, disk[Index(b)])
    BY SoundHolds DEF DeviceInv
  <2>8. b = image.disk[Inode(inum)].nodes[l].blk /\ ino.nodes[k].first = image.disk[Inode(inum)].nodes[l].first
    BY <2>1, <2>5
  <2>9. b \in NodesOf(image.disk, inum)
    BY <2>8 DEF NodesOf
  <2>10. ASSUME NEW e \in disk[Index(b)].entries
         PROVE  /\ e \in EntriesOf(image.disk, inum) /\ e.logical \in Nat
                /\ ino.links > 0 => ino.nodes[k].first <= e.logical
    <3>1. e \in image.disk[Index(b)].entries /\ e.logical \in Nat
      BY <2>7 DEF Narrowed, IsIndex
    <3>2. e \in EntriesOf(image.disk, inum)
      BY <2>8, <3>1 DEF EntriesOf
    <3>3. ino.links > 0 => image.disk[Inode(inum)].nodes[l].first <= e.logical
      BY <1>1, <1>2, <2>8, <3>1, Claims
    <3>4. QED
      BY <2>8, <3>1, <3>2, <3>3
  <2>11. QED
    BY <2>5, <2>6, <2>9, <2>10
<1>5. QED
  BY <1>1, <1>2, <1>3, <1>4

Precious == Lasting(image.disk) \cup AttributesOf(image)

\* Truncation takes nothing that is kept, index blocks included.
LEMMA TruncateSpares ==
    ASSUME DeviceInv, WorkInv, TruncateKeeps \/ TruncateNode \/ TruncateRoot
    PROVE  (freed' \ freed) \cap Precious = {}
<1>0. pc = "truncate" /\ image \in Images /\ ino.links > 0
  BY DEF TruncateKeeps, TruncateNode, TruncateRoot, DeviceInv, WorkInv
<1>1. /\ inum \in Ino /\ ino.cut = image.disk[Inode(inum)].cut /\ ino.cut \in Nat
      /\ \A e \in ino.root : e \in EntriesOf(image.disk, inum) /\ e.logical \in Nat
      /\ \A k \in DOMAIN ino.nodes :
            /\ ino.nodes[k].blk \in NodesOf(image.disk, inum) /\ ino.nodes[k].first \in Nat
            /\ \A e \in disk[Index(ino.nodes[k].blk)].entries :
                  e \in EntriesOf(image.disk, inum) /\ e.logical \in Nat /\ ino.nodes[k].first <= e.logical
  BY <1>0, InHand DEF Working
<1>2. ASSUME NEW e \in EntriesOf(image.disk, inum), Past(e.logical) PROVE e.phys \notin Precious
  <2>1. PICK i \in Ino : i = inum
    BY <1>1
  <2>2. PICK im \in Images : im = image
    BY <1>0
  <2>3. e \in EntriesOf(im.disk, i) /\ e.logical >= im.disk[Inode(i)].cut
    BY <1>1, <1>2, <2>1, <2>2 DEF Past
  <2>4. e.phys \notin Lasting(im.disk) \cup AttributesOf(im)
    BY <2>3, LostBlocks
  <2>5. QED
    BY <2>2, <2>4 DEF Precious
<1>3. CASE TruncateKeeps
  BY <1>3 DEF TruncateKeeps
<1>4. CASE TruncateRoot
  <2>1. freed' = freed \cup Physical({e \in ino.root : Past(e.logical)})
    BY <1>4 DEF TruncateRoot
  <2>2. \A p \in Physical({e \in ino.root : Past(e.logical)}) : p \notin Precious
    BY <1>1, <1>2 DEF Physical
  <2>3. QED
    BY <2>1, <2>2
<1>5. CASE TruncateNode
  <2>1. node \in DOMAIN ino.nodes
    <3>1. node <= Len(ino.nodes)
      BY <1>5 DEF TruncateNode
    <3>2. QED
      BY <1>0, <3>1, AtNode
  <2>2. PICK b : b = ino.nodes[node].blk
    OBVIOUS
  <2>3. b \notin Precious
    BY <1>0, <1>1, <2>1, <2>2, Claims DEF Precious
  <2>4. ASSUME NEW e \in disk[Index(b)].entries, e \notin Kept(node) PROVE e.phys \notin Precious
    <3>1. Past(ino.nodes[node].first) \/ Past(e.logical)
      BY <2>2, <2>4 DEF Kept
    <3>2. e \in EntriesOf(image.disk, inum) /\ e.logical \in Nat /\ ino.nodes[node].first <= e.logical
          /\ ino.nodes[node].first \in Nat /\ ino.cut \in Nat
      BY <1>1, <2>1, <2>2
    <3>3. Past(e.logical)
      BY <3>1, <3>2 DEF Past
    <3>4. QED
      BY <1>2, <3>2, <3>3
  <2>5. freed' \subseteq freed \cup Physical(disk[Index(b)].entries \ Kept(node)) \cup {b}
    BY <1>5, <2>2 DEF TruncateNode
  <2>6. \A p \in Physical(disk[Index(b)].entries \ Kept(node)) : p \notin Precious
    BY <2>4 DEF Physical
  <2>7. QED
    BY <2>3, <2>5, <2>6
<1>6. QED
  BY <1>3, <1>4, <1>5

\* The blocks of an inode without links are nobody's to keep, but for an attribute block others share.
LEMMA CollectSpares ==
    ASSUME DeviceInv, WorkInv, Collect
    PROVE  /\ freed' \cap Lasting(image.disk) = {}
           /\ \A p \in freed' \cap AttributesOf(image) : p = ino.acl /\ p \in Blk /\ disk'[Refs(p)] = 0
<1>0. pc = "collect" /\ image \in Images /\ ino.links = 0 /\ Shrunk(image, inum, ino)
  BY DEF Collect, DeviceInv, WorkInv, Working
<1>1. /\ inum \in Ino /\ image.disk[Inode(inum)].links = 0
      /\ \A e \in ino.root : e \in EntriesOf(image.disk, inum)
      /\ \A k \in DOMAIN ino.nodes :
            /\ ino.nodes[k].blk \in NodesOf(image.disk, inum)
            /\ \A e \in disk[Index(ino.nodes[k].blk)].entries : e \in EntriesOf(image.disk, inum)
  BY <1>0, InHand DEF Working
<1>2. ASSUME NEW e \in EntriesOf(image.disk, inum) PROVE e.phys \notin Precious
  <2>1. PICK i \in Ino : i = inum
    BY <1>1
  <2>2. PICK im \in Images : im = image
    BY <1>0
  <2>3. e \in EntriesOf(im.disk, i) /\ im.disk[Inode(i)].links = 0
    BY <1>1, <2>1, <2>2
  <2>4. e.phys \notin Lasting(im.disk) \cup AttributesOf(im)
    BY <2>3, LostBlocks
  <2>5. QED
    BY <2>2, <2>4 DEF Precious
<1> DEFINE owned == Physical(ino.root) \cup
                    UNION {{ino.nodes[k].blk} \cup Physical(disk[Index(ino.nodes[k].blk)].entries) : k \in DOMAIN ino.nodes}
<1>3. owned \cap Precious = {}
  <2>1. \A p \in Physical(ino.root) : p \notin Precious
    BY <1>1, <1>2 DEF Physical
  <2>2. ASSUME NEW k \in DOMAIN ino.nodes
        PROVE  /\ ino.nodes[k].blk \notin Precious
               /\ \A p \in Physical(disk[Index(ino.nodes[k].blk)].entries) : p \notin Precious
    <3>1. ino.nodes[k].blk \notin Precious
      BY <1>0, <1>1, Claims DEF Precious
    <3>2. \A p \in Physical(disk[Index(ino.nodes[k].blk)].entries) : p \notin Precious
      BY <1>1, <1>2 DEF Physical
    <3>3. QED
      BY <3>1, <3>2
  <2>3. QED
    BY <2>1, <2>2
<1>4. \/ freed' = owned
      \/ ino.acl \in Blk /\ freed' = owned \cup {ino.acl} /\ (IF disk[Refs(ino.acl)] > 0 THEN disk[Refs(ino.acl)] - 1 ELSE 0) = 0
  BY DEF Collect
<1> HIDE DEF owned
<1>5. ino.acl \in Blk => disk'[Refs(ino.acl)] = IF disk[Refs(ino.acl)] > 0 THEN disk[Refs(ino.acl)] - 1 ELSE 0
  BY CollectStep
<1>6. ino.acl \in Blk => ino.acl \notin Lasting(image.disk)
  <2>1. ino.acl = image.disk[Inode(inum)].acl \/ ino.acl = 0
    BY <1>0 DEF Shrunk
  <2>2. QED
    BY <1>0, <1>1, <2>1, Claims, OrphanAssumption
<1>7. QED
  BY <1>3, <1>4, <1>5, <1>6 DEF Precious

Losing == {"truncate", "free"}

\* The bitmap marks the blocks kept, on the device, in its cache and in memory, and none of them is being lost.
KeptInv ==
    /\ Lasting(image.disk) \subseteq disk[BlockBitmap] /\ Lasting(image.disk) \subseteq safe[BlockBitmap]
    /\ Lasting(image.disk) \subseteq Used
    /\ pc \in Losing => freed \cap Lasting(image.disk) = {}

\* Each step keeps them so, those that crash included.
LEMMA KeptStep ==
    ASSUME DeviceInv, WorkInv, FlagInv, CountInv, KeptInv, Next
    PROVE  KeptInv'
<1> USE DEF device, handle, stats, orphan, walk
<1>0. BlockBitmap \in Places(image.oblocks) /\ DOMAIN disk = Places(image.oblocks)
  BY PlacesThere, SoundHolds DEF DeviceInv
<1>1. CASE \/ Quiet \/ Marking \/ ChainTakes \/ (SlotTakes /\ pc' # "settle")
           \/ TruncateKeeps \/ TruncateNode \/ TruncateRoot \/ Collect \/ WriteInode
  <2>1. bb' = bb /\ disk'[BlockBitmap] = disk[BlockBitmap]
    BY <1>1, GroupLeft DEF GroupSame
  <2>2. Used' = Used
    BY <2>1 DEF Used, Loaded
  <2>3. image' = image /\ safe' = safe
    BY <1>1, QuietLeaves, MarkingWrites, TakeStep, TruncateStep, RootStep, CollectStep, InodeStep
  <2>4. pc' \in Losing => freed' \cap Lasting(image.disk) = {}
    <3>1. CASE Quiet \/ Marking \/ WriteInode
      BY <3>1, QuietLeaves, MarkingWrites, InodeStep DEF Losing, Working
    <3>2. CASE ChainTakes \/ (SlotTakes /\ pc' # "settle")
      BY <3>2, TakeStep
    <3>3. CASE TruncateKeeps \/ TruncateNode \/ TruncateRoot
      <4>1. pc = "truncate"
        BY <3>3 DEF TruncateKeeps, TruncateNode, TruncateRoot
      <4>2. freed \cap Lasting(image.disk) = {}
        BY <4>1 DEF KeptInv, Losing
      <4>3. QED
        BY <3>3, <4>2, TruncateSpares DEF Precious
    <3>4. CASE Collect
      BY <3>4, CollectSpares
    <3>5. QED
      BY <1>1, <3>1, <3>2, <3>3, <3>4
  <2>5. QED
    BY <2>1, <2>2, <2>3, <2>4 DEF KeptInv
<1>2. CASE FlushDevice \/ SkipFlush
  <2>1. UNCHANGED <<image, bb, disk>> /\ safe' = disk /\ pc' \notin Losing
    BY <1>2 DEF FlushDevice, SkipFlush, Sync, Losing
  <2>2. Used' = Used
    BY <2>1 DEF Used, Loaded
  <2>3. QED
    BY <2>1, <2>2 DEF KeptInv
<1>3. CASE WriteBlockBitmap \/ WriteInodeBitmap \/ WriteDescs
  <2>1. UNCHANGED <<image, bb, safe>> /\ pc' \notin Losing
    BY <1>3 DEF WriteBlockBitmap, WriteInodeBitmap, WriteDescs, Write, Losing
  <2>2. disk'[BlockBitmap] = disk[BlockBitmap] \/ disk'[BlockBitmap] = Used
    BY <1>0, <1>3, PlacesDiffer DEF WriteBlockBitmap, WriteInodeBitmap, WriteDescs, Write, Used, Loaded
  <2>3. Used' = Used \/ Used' = disk'[BlockBitmap]
    BY <2>1 DEF Used, Loaded
  <2>4. QED
    BY <2>1, <2>2, <2>3 DEF KeptInv
<1>4. CASE Free
  <2>1. pc = "free" /\ pc' = "inode" /\ UNCHANGED <<image, disk, safe>>
    BY <1>4, FreeStep
  <2>2. Used' = Used \ freed
    BY <1>4, FreeCounts
  <2>3. QED
    BY <2>1, <2>2 DEF KeptInv, Losing
<1>5. CASE (\E w \in Options : Open(w)) \/ DeviceFails \/ PowerCut
  <2>1. image' = image /\ pc' \notin Losing /\ bb' = None
    BY <1>5 DEF Open, DeviceFails, PowerCut, Fresh, Losing
  <2>2. Used' = disk'[BlockBitmap]
    BY <2>1 DEF Used, Loaded
  <2>3. /\ disk'[BlockBitmap] \in {disk[BlockBitmap], safe[BlockBitmap]}
        /\ safe'[BlockBitmap] \in {disk[BlockBitmap], safe[BlockBitmap]}
    <3>1. CASE (\E w \in Options : Open(w)) \/ DeviceFails
      BY <3>1 DEF Open, DeviceFails
    <3>2. CASE PowerCut
      <4>1. PICK kept : disk' = [p \in DOMAIN disk |-> IF p \in kept THEN disk[p] ELSE safe[p]]
        BY <3>2 DEF PowerCut
      <4>2. safe' = disk'
        BY <3>2 DEF PowerCut
      <4>3. QED
        BY <1>0, <4>1, <4>2
    <3>3. QED
      BY <1>5, <3>1, <3>2
  <2>4. QED
    BY <2>1, <2>2, <2>3 DEF KeptInv
<1>6. QED
  BY <1>1, <1>2, <1>3, <1>4, <1>5 DEF Next, Step, Quiet, Marking

-------------------------------------------------------------------------------
(* Attribute blocks *)

\* The attribute block an inode refers to, the orphan in hand as it will be written.
HeldBy(i) == IF pc \in Working /\ i = inum THEN ino.acl ELSE disk[Inode(i)].acl
Holders(b) == {i \in Ino : HeldBy(i) = b}

\* Unless something crashed, no attribute block has more inodes refer to it than it counts, and
\* those that linked inodes refer to stay in use.
AclInv ==
    crashes = 0 =>
        /\ AttributesOf(image) \subseteq Used
        /\ pc \in Losing => freed \cap AttributesOf(image) = {}
        /\ \A b \in Blk : Cardinality(Holders(b)) <= disk[Refs(b)]
        /\ pc \in {"truncate", "collect"} => ino.acl = disk[Inode(inum)].acl

\* A step after which every inode refers to the block it did, and every block counts what it did.
RefsSame ==
    /\ \A i \in Ino : HeldBy(i)' = HeldBy(i)
    /\ \A b \in Blk : disk'[Refs(b)] = disk[Refs(b)]
    /\ pc' \in {"truncate", "collect"} => ino'.acl = disk'[Inode(inum')].acl

\* Only the collection of an inode's blocks drops a reference.
LEMMA RefsLeft ==
    ASSUME DeviceInv, WorkInv, AclInv, crashes = 0, Next, ~Collect, ~DeviceFails, ~PowerCut
    PROVE  RefsSame
<1> USE DEF device, handle, stats, orphan, walk
<1>0. /\ DOMAIN disk = Places(image.oblocks) /\ \A i \in Ino : Inode(i) \in Places(image.oblocks)
      /\ \A b \in Blk : Refs(b) \in Places(image.oblocks)
  BY PlacesThere, SoundHolds DEF DeviceInv
<1>1. CASE Quiet
  <2>1. disk' = disk /\ ino' = ino /\ pc' \notin Working
    BY <1>1, QuietLeaves
  <2>2. pc \notin Working \/ pc \in {"truncate", "collect"}
    BY <1>1 DEF Quiet, Begin, ClearDone, ChainLoops, ChainEnds, TruncateFails, CollectFails, FileBlock, FileEnds, Settle, Due,
                SlotTakes, Working
  <2>3. pc \in {"truncate", "collect"} => ino.acl = disk[Inode(inum)].acl
    BY DEF AclInv
  <2>4. QED
    BY <2>1, <2>2, <2>3 DEF RefsSame, HeldBy, Working
<1>2. CASE Marking
  <2>1. /\ pc' \notin Working
        /\ \A q \in Places(image.oblocks) : q = Sb \/ (\E k : q = Slots(k)) \/ disk'[q] = disk[q]
    BY <1>2, MarkingWrites
  <2>2. pc \notin Working
    BY <1>2 DEF Marking, Drop, LeaveBigalloc, WriteSuper, Unclean, Skip, ClearBlock, SlotsDone, Working
  <2>3. (\A i \in Ino : disk'[Inode(i)] = disk[Inode(i)]) /\ \A b \in Blk : disk'[Refs(b)] = disk[Refs(b)]
    BY <1>0, <2>1, PlacesDiffer
  <2>4. QED
    BY <2>1, <2>2, <2>3 DEF RefsSame, HeldBy, Working
<1>3. CASE WriteBlockBitmap \/ WriteInodeBitmap \/ WriteDescs \/ FlushDevice \/ SkipFlush
  <2>1. pc \notin Working /\ pc' \notin Working
    BY <1>3 DEF WriteBlockBitmap, WriteInodeBitmap, WriteDescs, FlushDevice, SkipFlush, Working
  <2>2. disk' = disk \/ \E p \in {Gd, BlockBitmap, InodeBitmap} : \E v : disk' = [disk EXCEPT ![p] = v]
    BY <1>3 DEF WriteBlockBitmap, WriteInodeBitmap, WriteDescs, FlushDevice, SkipFlush, Write, Sync
  <2>3. (\A i \in Ino : disk'[Inode(i)] = disk[Inode(i)]) /\ \A b \in Blk : disk'[Refs(b)] = disk[Refs(b)]
    BY <1>0, <2>2, PlacesDiffer
  <2>4. QED
    BY <2>1, <2>3 DEF RefsSame, HeldBy, Working
<1>4. CASE ChainTakes \/ (SlotTakes /\ pc' # "settle")
  <2>1. pc' \in Working /\ ino' = disk[Inode(inum')] /\ disk' = disk
    BY <1>4, TakeStep
  <2>2. pc \notin Working
    BY <1>4 DEF ChainTakes, SlotTakes, Working
  <2>3. QED
    BY <2>1, <2>2 DEF RefsSame, HeldBy
<1>5. CASE TruncateKeeps \/ TruncateNode
  <2>1. /\ pc = "truncate" /\ pc' = pc /\ inum' = inum /\ ino'.acl = ino.acl /\ inum \in Ino
        /\ \A q \in Places(image.oblocks) : (\E b \in Blk : q = Index(b)) \/ disk'[q] = disk[q]
    <3>1. pc = "truncate"
      BY <1>5, TruncateStep
    <3>2. QED
      BY <1>5, <3>1, TruncateStep DEF WorkInv, Working
  <2>2. (\A i \in Ino : disk'[Inode(i)] = disk[Inode(i)]) /\ \A b \in Blk : disk'[Refs(b)] = disk[Refs(b)]
    BY <1>0, <2>1, PlacesDiffer
  <2>3. ino.acl = disk[Inode(inum)].acl
    BY <2>1 DEF AclInv
  <2>4. QED
    BY <2>1, <2>2, <2>3 DEF RefsSame, HeldBy, Working
<1>6. CASE TruncateRoot \/ Free
  <2>1. pc \in Working /\ pc' \in {"free", "inode"} /\ inum' = inum /\ ino'.acl = ino.acl /\ disk' = disk
    BY <1>6, RootStep, FreeStep DEF Working
  <2>2. QED
    BY <2>1 DEF RefsSame, HeldBy, Working
<1>7. CASE WriteInode
  <2>1. /\ pc = "inode" /\ inum \in Ino /\ pc' \notin Working
        /\ \A q \in Places(image.oblocks) : disk'[q] = IF q = Inode(inum) THEN ino ELSE disk[q]
    BY <1>7, InodeStep
  <2>2. PICK j \in Ino : j = inum
    BY <2>1
  <2>3. /\ \A i \in Ino : disk'[Inode(i)] = IF i = j THEN ino ELSE disk[Inode(i)]
        /\ \A b \in Blk : disk'[Refs(b)] = disk[Refs(b)]
    BY <1>0, <2>1, <2>2, PlacesDiffer
  <2>4. QED
    BY <2>1, <2>2, <2>3 DEF RefsSame, HeldBy, Working
<1>8. ASSUME NEW w \in Options, Open(w) PROVE RefsSame
  <2>1. pc \notin Working /\ pc' \notin Working /\ disk' = disk
    BY <1>8 DEF Open, Working
  <2>2. QED
    BY <2>1 DEF RefsSame, HeldBy, Working
<1>9. QED
  BY <1>1, <1>2, <1>3, <1>4, <1>5, <1>6, <1>7, <1>8 DEF Next, Step, Quiet, Marking

\* release_xattr_block: a reference is dropped with the inode that held it.
LEMMA CollectRefs ==
    ASSUME DeviceInv, WorkInv, AclInv, crashes = 0, Collect
    PROVE  /\ \A b \in Blk : Cardinality(Holders(b)') <= disk'[Refs(b)]
           /\ freed' \cap AttributesOf(image) = {}
<1>0. /\ DOMAIN disk = Places(image.oblocks) /\ \A i \in Ino : Inode(i) \in Places(image.oblocks)
      /\ \A b \in Blk : Refs(b) \in Places(image.oblocks) /\ disk[Refs(b)] \in Nat
      /\ \A i \in Ino : Shrunk(image, i, disk[Inode(i)])
  BY PlacesThere, SoundHolds DEF DeviceInv
<1>1. /\ pc = "collect" /\ pc' = "free" /\ ino'.acl = 0 /\ inum' = inum /\ inum \in Ino /\ ino.links = 0
      /\ \A q \in Places(image.oblocks) : (ino.acl \in Blk /\ q = Refs(ino.acl)) \/ disk'[q] = disk[q]
      /\ ino.acl \in Blk => disk'[Refs(ino.acl)] = IF disk[Refs(ino.acl)] > 0 THEN disk[Refs(ino.acl)] - 1 ELSE 0
  <2>1. pc = "collect"
    BY CollectStep
  <2>2. QED
    BY <2>1, CollectStep DEF WorkInv, Working
<1>2. PICK i0 \in Ino : i0 = inum
  BY <1>1
<1>3. PICK a : a = ino.acl
  OBVIOUS
<1>4. /\ \A i \in Ino : disk'[Inode(i)] = disk[Inode(i)]
      /\ \A b \in Blk : b # a => disk'[Refs(b)] = disk[Refs(b)]
      /\ a \in Blk => disk'[Refs(a)] = IF disk[Refs(a)] > 0 THEN disk[Refs(a)] - 1 ELSE 0
  BY <1>0, <1>1, <1>3, PlacesDiffer
<1>5. HeldBy(i0) = a /\ HeldBy(i0)' = 0 /\ \A i \in Ino : i # i0 => HeldBy(i) = disk[Inode(i)].acl /\ HeldBy(i)' = disk[Inode(i)].acl
  BY <1>1, <1>2, <1>3, <1>4 DEF HeldBy, Working
<1>6. 0 \notin Blk /\ IsFiniteSet(Ino)
  BY OrphanAssumption
<1>7. \A b \in Blk : Holders(b)' = Holders(b) \ {i0}
  BY <1>5, <1>6 DEF Holders
<1>8. \A b \in Blk : IsFiniteSet(Holders(b)) /\ Cardinality(Holders(b)) \in Nat /\ Cardinality(Holders(b)) <= disk[Refs(b)]
  <2>1. ASSUME NEW b \in Blk PROVE IsFiniteSet(Holders(b))
    BY <1>6, FS_Subset DEF Holders
  <2>2. QED
    BY <2>1, FS_CardinalityType DEF AclInv
<1>9. ASSUME NEW b \in Blk PROVE Cardinality(Holders(b)') <= disk'[Refs(b)]
  <2>1. CASE b # a
    <3>1. i0 \notin Holders(b)
      BY <1>5, <2>1 DEF Holders
    <3>2. Holders(b)' = Holders(b)
      BY <1>7, <3>1
    <3>3. QED
      BY <1>4, <1>8, <2>1, <3>2
  <2>2. CASE b = a
    <3>1. i0 \in Holders(b)
      BY <1>5, <2>2 DEF Holders
    <3>2. Cardinality(Holders(b) \ {i0}) = Cardinality(Holders(b)) - 1
      BY <1>8, <3>1, FS_RemoveElement
    <3>3. Cardinality(Holders(b) \ {i0}) \in Nat
      <4>1. IsFiniteSet(Holders(b) \ {i0})
        BY <1>8, FS_Subset
      <4>2. QED
        BY <4>1, FS_CardinalityType
    <3>4. PICK n \in Nat : n = Cardinality(Holders(b))
      BY <1>8
    <3>5. PICK r \in Nat : r = disk[Refs(b)]
      BY <1>0
    <3>6. n - 1 \in Nat /\ n <= r /\ disk'[Refs(b)] = IF r > 0 THEN r - 1 ELSE 0
      BY <1>4, <1>8, <2>2, <3>2, <3>3, <3>4, <3>5
    <3>7. n - 1 <= disk'[Refs(b)]
      BY <3>6
    <3>8. QED
      BY <1>7, <3>2, <3>4, <3>7
  <2>3. QED
    BY <2>1, <2>2
<1>10. ASSUME NEW p \in freed' \cap AttributesOf(image) PROVE FALSE
  <2>1. p \in Blk /\ disk'[Refs(p)] = 0
    BY CollectSpares
  <2>2. PICK j \in Ino : image.disk[Inode(j)].links > 0 /\ image.disk[Inode(j)].acl = p
    BY DEF AttributesOf
  <2>3. image.disk[Inode(j)].links # 0
    <3>1. IsInode(image.disk[Inode(j)])
      BY ImageAssumption DEF DeviceInv
    <3>2. QED
      BY <2>2, <3>1 DEF IsInode
  <2>4. disk[Inode(j)].acl = p
    BY <1>0, <2>2, <2>3 DEF Shrunk
  <2>5. j # i0
    <3>1. image.disk[Inode(inum)].links = 0
      BY <1>1, InHand DEF Working
    <3>2. QED
      BY <1>2, <2>3, <3>1
  <2>6. j \in Holders(p)'
    BY <1>5, <2>4, <2>5 DEF Holders
  <2>7. Holders(p)' # {} /\ IsFiniteSet(Holders(p)')
    <3>1. Holders(p)' \subseteq Ino
      BY DEF Holders
    <3>2. QED
      BY <1>6, <2>6, <3>1, FS_Subset
  <2>8. Cardinality(Holders(p)') # 0 /\ Cardinality(Holders(p)') \in Nat
    BY <2>7, FS_EmptySet, FS_CardinalityType
  <2>9. QED
    BY <1>9, <2>1, <2>8
<1>11. QED
  BY <1>9, <1>10

\* Each step keeps the references and the attribute blocks of linked inodes.
LEMMA AclStep ==
    ASSUME DeviceInv, WorkInv, FlagInv, CountInv, AclInv, Next
    PROVE  AclInv'
<1> USE DEF device, handle, stats, orphan, walk
<1>1. CASE DeviceFails \/ PowerCut
  <2>1. crashes' = crashes + 1 /\ crashes \in Nat
    BY <1>1, OrphanAssumption DEF DeviceFails, PowerCut, FlagInv
  <2>2. crashes' # 0
    BY <2>1
  <2>3. QED
    BY <2>2 DEF AclInv
<1>2. CASE ~DeviceFails /\ ~PowerCut /\ crashes # 0
  <2>1. crashes' = crashes
    BY <1>2, QuietLeaves, MarkingWrites, TakeStep, TruncateStep, RootStep, CollectStep, FreeStep, InodeStep
       DEF Next, Step, Quiet, Marking, Open, WriteBlockBitmap, WriteInodeBitmap, WriteDescs, FlushDevice, SkipFlush
  <2>2. QED
    BY <1>2, <2>1 DEF AclInv
<1>3. CASE ~DeviceFails /\ ~PowerCut /\ crashes = 0
  <2>0. BlockBitmap \in Places(image.oblocks) /\ DOMAIN disk = Places(image.oblocks)
    BY PlacesThere, SoundHolds DEF DeviceInv
  <2>a. AttributesOf(image) \subseteq Used /\ Used \subseteq disk[BlockBitmap]
    BY <1>3 DEF AclInv, CountInv
  <2>1. /\ \A b \in Blk : Cardinality(Holders(b)') <= disk'[Refs(b)]
        /\ pc' \in {"truncate", "collect"} => ino'.acl = disk'[Inode(inum')].acl
    <3>1. CASE Collect
      BY <1>3, <3>1, CollectRefs, CollectStep
    <3>2. CASE ~Collect
      <4>1. RefsSame
        BY <1>3, <3>2, RefsLeft
      <4>2. \A b \in Blk : Holders(b)' = Holders(b)
        BY <4>1 DEF RefsSame, Holders
      <4>3. QED
        BY <1>3, <4>1, <4>2 DEF RefsSame, AclInv
    <3>3. QED
      BY <3>1, <3>2
  <2>2. image' = image /\ AttributesOf(image) \subseteq Used' /\ (pc' \in Losing => freed' \cap AttributesOf(image) = {})
    <3>1. CASE Quiet \/ Marking \/ WriteInode \/ ChainTakes \/ (SlotTakes /\ pc' # "settle")
      <4>1. image' = image /\ (pc' \in Losing => freed' = {})
        BY <3>1, QuietLeaves, MarkingWrites, InodeStep, TakeStep DEF Losing, Working
      <4>2. bb' = bb /\ disk'[BlockBitmap] = disk[BlockBitmap]
        BY <3>1, GroupLeft DEF GroupSame
      <4>3. Used' = Used
        BY <4>2 DEF Used, Loaded
      <4>4. QED
        BY <2>a, <4>1, <4>3
    <3>2. CASE TruncateKeeps \/ TruncateNode \/ TruncateRoot \/ Collect
      <4>1. image' = image
        BY <3>2, TruncateStep, RootStep, CollectStep
      <4>2. bb' = bb /\ disk'[BlockBitmap] = disk[BlockBitmap]
        BY <3>2, GroupLeft DEF GroupSame
      <4>3. Used' = Used
        BY <4>2 DEF Used, Loaded
      <4>4. freed' \cap AttributesOf(image) = {}
        <5>1. CASE Collect
          BY <1>3, <5>1, CollectRefs
        <5>2. CASE TruncateKeeps \/ TruncateNode \/ TruncateRoot
          <6>1. pc = "truncate"
            BY <5>2 DEF TruncateKeeps, TruncateNode, TruncateRoot
          <6>2. freed \cap AttributesOf(image) = {}
            BY <1>3, <6>1 DEF AclInv, Losing
          <6>3. QED
            BY <5>2, <6>2, TruncateSpares DEF Precious
        <5>3. QED
          BY <3>2, <5>1, <5>2
      <4>5. QED
        BY <2>a, <4>1, <4>3, <4>4
    <3>3. CASE Free
      <4>1. pc = "free" /\ pc' = "inode" /\ image' = image
        BY <3>3, FreeStep
      <4>2. Used' = Used \ freed
        BY <3>3, FreeCounts
      <4>3. freed \cap AttributesOf(image) = {}
        BY <1>3, <4>1 DEF AclInv, Losing
      <4>4. QED
        BY <2>a, <4>1, <4>2, <4>3 DEF Losing
    <3>4. CASE WriteBlockBitmap \/ WriteInodeBitmap \/ WriteDescs \/ FlushDevice \/ SkipFlush
      <4>1. UNCHANGED <<image, bb>> /\ pc' \notin Losing
        BY <3>4 DEF WriteBlockBitmap, WriteInodeBitmap, WriteDescs, FlushDevice, SkipFlush, Losing
      <4>2. disk'[BlockBitmap] = disk[BlockBitmap] \/ disk'[BlockBitmap] = Used
        BY <2>0, <3>4, PlacesDiffer DEF WriteBlockBitmap, WriteInodeBitmap, WriteDescs, FlushDevice, SkipFlush, Write, Sync, Used, Loaded
      <4>3. Used' = Used \/ Used' = disk'[BlockBitmap]
        BY <4>1 DEF Used, Loaded
      <4>4. QED
        BY <2>a, <4>1, <4>2, <4>3
    <3>5. ASSUME NEW w \in Options, Open(w)
          PROVE  image' = image /\ AttributesOf(image) \subseteq Used' /\ (pc' \in Losing => freed' \cap AttributesOf(image) = {})
      <4>1. image' = image /\ pc' \notin Losing /\ bb' = None /\ disk' = disk
        BY <3>5 DEF Open, Fresh, Losing
      <4>2. Used' = disk[BlockBitmap]
        BY <4>1 DEF Used, Loaded
      <4>3. QED
        BY <2>a, <4>1, <4>2
    <3>6. QED
      BY <1>3, <3>1, <3>2, <3>3, <3>4, <3>5 DEF Next, Step, Quiet, Marking
  <2>3. QED
    BY <2>1, <2>2 DEF AclInv
<1>4. QED
  BY <1>1, <1>2, <1>3

\* Whatever the lists of orphans say, however often a release is repeated and wherever the power fails
\* or the device gives up, the bitmap on the device marks every block below the size of a linked inode;
\* if nothing interrupts it, the attribute blocks of linked inodes too.
THEOREM KeptBlocksAreKept == Spec => []KeptBlocksStay
<1> DEFINE Inv == DeviceInv /\ WorkInv /\ FlagInv /\ CountInv /\ KeptInv /\ AclInv
<1>1. Init => Inv
  <2> SUFFICES ASSUME Init PROVE Inv
    OBVIOUS
  <2>1. DeviceInv /\ WorkInv /\ FlagInv /\ CountInv
    BY InitTypes
  <2>2. /\ image \in Images /\ disk = image.disk /\ safe = disk /\ pc = "idle" /\ bb = None
    BY DEF Init
  <2>3. Used = disk[BlockBitmap]
    BY <2>2 DEF Used, Loaded
  <2>4. KeptInv
    BY <2>2, <2>3, Claims DEF KeptInv, Losing
  <2>5. \A b \in Blk : Holders(b) = {i \in Ino : disk[Inode(i)].acl = b}
    BY <2>2 DEF Holders, HeldBy, Working
  <2>6. AclInv
    BY <2>2, <2>3, <2>5, Claims DEF AclInv, Losing
  <2>7. QED
    BY <2>1, <2>4, <2>6
<1>2. Inv /\ [Next]_vars => Inv'
  <2>1. ASSUME Inv, Next PROVE Inv'
    BY <2>1, TypeStep, FlagStep, CountStep, KeptStep, AclStep
  <2>2. ASSUME Inv, UNCHANGED vars PROVE Inv'
    <3>1. DeviceInv' /\ WorkInv' /\ FlagInv' /\ CountInv'
      BY <2>2, SameTypes
    <3>2. UNCHANGED <<image, disk, safe, bb, crashes, pc, inum, ino, freed>>
      BY <2>2 DEF vars, device, handle, stats, orphan, walk
    <3>3. Used' = Used /\ \A b \in Blk : Holders(b)' = Holders(b)
      BY <3>2 DEF Used, Loaded, Holders, HeldBy
    <3>4. QED
      BY <2>2, <3>1, <3>2, <3>3 DEF KeptInv, AclInv
  <2>3. QED
    BY <2>1, <2>2
<1>3. Inv => KeptBlocksStay
  <2> SUFFICES ASSUME Inv, NEW i \in Ino, image.disk[Inode(i)].links > 0
               PROVE  /\ Physical(KeptEntries(image.disk, i)) \subseteq disk[BlockBitmap]
                      /\ crashes = 0 /\ image.disk[Inode(i)].acl # 0 => image.disk[Inode(i)].acl \in disk[BlockBitmap]
    BY DEF KeptBlocksStay
  <2>1. Physical(KeptEntries(image.disk, i)) \subseteq Lasting(image.disk)
    BY DEF Lasting
  <2>2. ASSUME crashes = 0, image.disk[Inode(i)].acl # 0 PROVE image.disk[Inode(i)].acl \in disk[BlockBitmap]
    <3>1. image.disk[Inode(i)].acl \in AttributesOf(image)
      BY <2>2 DEF AttributesOf
    <3>2. AttributesOf(image) \subseteq Used /\ Used \subseteq disk[BlockBitmap]
      BY <2>2 DEF AclInv, CountInv
    <3>3. QED
      BY <3>1, <3>2
  <2>3. QED
    BY <2>1, <2>2 DEF KeptInv
<1>4. QED
  BY <1>1, <1>2, <1>3, PTL DEF Spec
===============================================================================
