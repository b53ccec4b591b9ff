---------------------------- MODULE RecoveryProofs ----------------------------
(***************************************************************************)
(* Proofs about journal recovery, for every log, any number of checks in   *)
(* any mode, power cuts and device errors.                                 *)
(***************************************************************************)
EXTENDS Recovery, Induction, TLAPS

-------------------------------------------------------------------------------
(* Sequence numbers and the log's end *)

LogBlocks == First .. Last - 1
Tids == 0 .. TidMod - 1

\* wrap and wrapping_add stay inside the log and the 32 bits.
LEMMA Wraps ==
    /\ \A b \in LogBlocks, n \in 0 .. Last - First : wrap(b + n) \in LogBlocks
    /\ \A b \in LogBlocks : wrap(b) = b /\ wrap(b + 1) \in LogBlocks
    /\ \A x \in Tids : tid_next(x) \in Tids
<1>1. First \in Nat /\ Last \in Nat /\ First < Last /\ TidMod \in Nat /\ TidMod > 0
  BY RecoveryAssumption
<1>2. \A b \in LogBlocks, n \in 0 .. Last - First : wrap(b + n) \in LogBlocks
  BY <1>1 DEF wrap, LogBlocks
<1>3. \A b \in LogBlocks : wrap(b) = b /\ wrap(b + 1) \in LogBlocks
  BY <1>1 DEF wrap, LogBlocks
<1>4. \A x \in Tids : tid_next(x) \in Tids
  BY <1>1 DEF tid_next, Tids
<1>5. QED
  BY <1>2, <1>3, <1>4

\* Stepping over the blocks of a descriptor at once, as scan does, or one by one, as the replay does.
LEMMA WrapSteps ==
    ASSUME NEW b \in LogBlocks, NEW n \in Nat, n > 0, n <= Last - First
    PROVE  wrap(wrap(b + 1) + (n - 1)) = wrap(b + n)
<1>1. First \in Nat /\ Last \in Nat /\ First < Last
  BY RecoveryAssumption
<1>2. QED
  BY <1>1 DEF wrap, LogBlocks

-------------------------------------------------------------------------------
(* Types *)

Tag == [home : Homes \cup {Outside}, escape : BOOLEAN]

\* The device and the copies of it in memory.
DeviceInv ==
    /\ image \in Images
    /\ disk = [b \in Homes |-> disk[b]] /\ dpend = [b \in Homes |-> dpend[b]]
    /\ \A b \in Homes : disk[b] \in dpend[b] /\ \A v \in dpend[b] : IsBlock(v)
    /\ jsb \in jpend /\ \A j \in jpend : IsHeader(j)
    /\ IsBlock(sb) /\ IsHeader(header)

\* The passes over the log stay inside it.
WalkInv ==
    /\ pc \in {"idle", "done", "unflag", "halt", "clear", "carry", "recover", "scan", "revoke",
               "replay", "flush", "reset", "settle", "reload", "super", "sync"}
    /\ pc \in {"recover", "scan", "revoke", "replay", "flush", "reset"} => header.ok
    /\ pc \in {"scan", "revoke", "replay"} => header.start \in LogBlocks /\ next_block \in LogBlocks
    /\ mode \in Modes \cup {"check"}
    /\ next_commit \in Tids /\ end \in Tids
    /\ next_block \in {0} \cup LogBlocks
    /\ reads \in 0 .. Last
    /\ tags \in Seq(Tag) /\ Len(tags) <= Last - First
    /\ errors \in BOOLEAN /\ failed \in BOOLEAN
    /\ crashes \in Nat

\* Every home, and what the power may leave there, is a block.
LEMMA HomesAreBlocks ==
    ASSUME DeviceInv
    PROVE  \A b \in Homes : IsBlock(disk[b])
  BY DEF DeviceInv

\* A home written.
LEMMA WriteHomeKeeps ==
    ASSUME DeviceInv, NEW b \in Homes, NEW v, IsBlock(v), WriteHome(b, v),
           UNCHANGED <<image, jsb, jpend, header>>, IsBlock(sb')
    PROVE  DeviceInv'
<1>1. DOMAIN disk = Homes /\ DOMAIN dpend = Homes
  BY DEF DeviceInv
<1>2. disk' = [disk EXCEPT ![b] = v] /\ dpend' = [dpend EXCEPT ![b] = dpend[b] \cup {v}]
  BY DEF WriteHome
<1>3. disk' = [c \in Homes |-> disk'[c]] /\ dpend' = [c \in Homes |-> dpend'[c]]
  BY <1>1, <1>2
<1>4. \A c \in Homes : disk'[c] = (IF c = b THEN v ELSE disk[c])
                       /\ dpend'[c] = (IF c = b THEN dpend[b] \cup {v} ELSE dpend[c])
  BY <1>1, <1>2
<1>5. \A c \in Homes : disk'[c] \in dpend'[c] /\ \A w \in dpend'[c] : IsBlock(w)
  BY <1>4 DEF DeviceInv
<1>6. QED
  BY <1>3, <1>5 DEF DeviceInv

\* The journal superblock written.
LEMMA WriteJsbKeeps ==
    ASSUME DeviceInv, WriteJsb(header'), IsHeader(header'), UNCHANGED <<image, disk, dpend>>, IsBlock(sb')
    PROVE  DeviceInv'
  BY DEF DeviceInv, WriteJsb

\* The device flushed.
LEMMA FlushKeeps ==
    ASSUME DeviceInv, DeviceFlush, UNCHANGED <<image, sb, header>>
    PROVE  DeviceInv'
<1>1. dpend' = [b \in Homes |-> {disk[b]}] /\ jpend' = {jsb} /\ UNCHANGED <<disk, jsb>>
  BY DEF DeviceFlush
<1>2. \A b \in Homes : dpend'[b] = {disk[b]}
  BY <1>1
<1>3. dpend' = [b \in Homes |-> dpend'[b]]
  BY <1>1
<1>4. QED
  BY <1>1, <1>2, <1>3 DEF DeviceInv

\* The fields the checker assigns leave a block and a header what they are.
LEMMA BlockFields ==
    ASSUME NEW v, IsBlock(v), NEW valid \in BOOLEAN, NEW error \in BOOLEAN
    PROVE  /\ IsBlock([v EXCEPT !.recover = FALSE]) /\ [v EXCEPT !.recover = FALSE].error = v.error
           /\ IsBlock([v EXCEPT !.error = TRUE]) /\ [v EXCEPT !.error = TRUE].error = TRUE
           /\ LET w == [v EXCEPT !.recover = FALSE, !.valid = valid, !.error = error]
              IN  IsBlock(w) /\ w.error = error
<1>1. ASSUME NEW x PROVE IsBlock([v EXCEPT !.recover = x]) /\ [v EXCEPT !.recover = x].error = v.error
  BY DEF IsBlock
<1>2. ASSUME NEW x \in BOOLEAN PROVE IsBlock([v EXCEPT !.error = x]) /\ [v EXCEPT !.error = x].error = x
  BY DEF IsBlock
<1> DEFINE a == [v EXCEPT !.recover = FALSE]
           b == [a EXCEPT !.valid = valid]
           c == [b EXCEPT !.error = error]
<1>3. IsBlock(a)
  BY <1>1
<1> HIDE DEF a
<1>4. IsBlock(b)
  BY <1>3 DEF IsBlock
<1> HIDE DEF b
<1>5. IsBlock(c) /\ c.error = error
  BY <1>4 DEF IsBlock
<1>6. QED
  BY <1>1, <1>2, <1>5 DEF a, b

\* A header's fields, likewise.
LEMMA HeaderFields ==
    ASSUME NEW j, IsHeader(j), NEW sequence \in Tids
    PROVE  /\ IsHeader([j EXCEPT !.errno = 0]) /\ [j EXCEPT !.errno = 0].start = j.start
           /\ LET k == [j EXCEPT !.sequence = sequence, !.start = 0, !.errno = 0]
              IN  IsHeader(k) /\ k.start = 0
<1>1. IsHeader([j EXCEPT !.errno = 0]) /\ [j EXCEPT !.errno = 0].start = j.start
  BY DEF IsHeader
<1> DEFINE a == [j EXCEPT !.sequence = sequence]
           b == [a EXCEPT !.start = 0]
           c == [b EXCEPT !.errno = 0]
<1>2. IsHeader(a)
  BY DEF IsHeader, Tids
<1> HIDE DEF a
<1>3. IsHeader(b) /\ b.start = 0
  BY <1>2 DEF IsHeader
<1> HIDE DEF b
<1>4. IsHeader(c) /\ c.start = 0
  BY <1>3 DEF IsHeader
<1>5. QED
  BY <1>1, <1>4 DEF a, b

\* Each step leaves blocks in the homes and headers where the journal superblock is.
LEMMA DeviceStep ==
    ASSUME DeviceInv, WalkInv, Next
    PROVE  DeviceInv'
<1> USE DEF device
<1>0. Super \in Homes /\ IsBlock(disk[Super]) /\ IsHeader(jsb)
  BY RecoveryAssumption DEF DeviceInv
<1>1. ASSUME NEW m \in Modes, Open(m) PROVE DeviceInv'
  BY <1>0, <1>1 DEF Open, DeviceInv
<1>2. CASE ClearFlag
  <2>1. IsBlock(sb') /\ WriteHome(Super, sb') /\ UNCHANGED <<image, jsb, jpend, header>>
    BY <1>2, BlockFields DEF ClearFlag, DeviceInv
  <2>2. QED
    BY <1>0, <2>1, WriteHomeKeeps
<1>3. CASE PreenHalt
  <2>1. IsBlock(sb') /\ WriteHome(Super, sb') /\ UNCHANGED <<image, jsb, jpend, header>>
    BY <1>3, BlockFields DEF PreenHalt, DeviceInv
  <2>2. QED
    BY <1>0, <2>1, WriteHomeKeeps
<1>4. CASE ClearErrno
  <2>1. IsBlock(sb') /\ WriteJsb(header') /\ UNCHANGED <<image, disk, dpend>>
    BY <1>4, BlockFields DEF ClearErrno, DeviceInv
  <2>2. 0 \in Tids
    BY RecoveryAssumption DEF Tids
  <2>3. IsHeader(header')
    BY <1>4, <2>2, HeaderFields DEF ClearErrno, DeviceInv
  <2>4. QED
    BY <2>1, <2>3, WriteJsbKeeps
<1>5. CASE CarryErrno \/ FlushSuperblock
  <2>1. IsBlock(sb) /\ WriteHome(Super, sb) /\ UNCHANGED <<image, jsb, jpend, header, sb>>
    BY <1>5 DEF CarryErrno, FlushSuperblock, DeviceInv
  <2>2. QED
    BY <1>0, <2>1, WriteHomeKeeps
<1>6. CASE RecoverEmpty \/ ResetLog
  <2>1. PICK sequence : reset(sequence) /\ sequence \in Tids
    <3>1. tid_next(header.sequence) \in Tids /\ Restart \in Tids
      <4>1. header.sequence \in Tids /\ end \in Tids
        BY DEF DeviceInv, IsHeader, WalkInv, Tids
      <4>2. QED
        BY <4>1, Wraps DEF Restart
    <3>2. QED
      BY <1>6, <3>1 DEF RecoverEmpty, ResetLog
  <2>2. header' = [header EXCEPT !.sequence = sequence, !.start = 0, !.errno = 0] /\ WriteJsb(header')
        /\ UNCHANGED <<disk, dpend>>
    BY <2>1 DEF reset
  <2>3. IsHeader(header')
    BY <2>1, <2>2, HeaderFields DEF DeviceInv
  <2>4. UNCHANGED <<image, sb>>
    BY <1>6 DEF RecoverEmpty, ResetLog
  <2>5. QED
    BY <2>2, <2>3, <2>4, WriteJsbKeeps DEF DeviceInv
<1>7. CASE RecoverLog \/ ScanStops \/ ScanBlock \/ ScanCommit \/ ScanTornCommit \/ ScanFails
           \/ PassStops \/ PassCommit \/ PassSkips \/ RevokeRecords \/ PassFails \/ ReplayDescriptor
  <2>1. UNCHANGED <<image, device, sb, header>>
    BY <1>7 DEF RecoverLog, ScanStops, ScanBlock, ScanCommit, ScanTornCommit, ScanFails, PassStops, PassCommit,
                PassSkips, RevokeRecords, PassFails, ReplayDescriptor
  <2>2. QED
    BY <2>1 DEF DeviceInv
<1>8. CASE ReplayTag
  <2>1. UNCHANGED <<image, sb, header>> /\ pc = "replay" /\ tags # << >>
    BY <1>8 DEF ReplayTag
  <2>2. CASE UNCHANGED device
    BY <2>1, <2>2 DEF DeviceInv
  <2>3. CASE ~UNCHANGED device
    <3> DEFINE home == Head(tags).home
               v == IF Head(tags).escape THEN Magic ELSE log[next_block].val
    <3>1. WriteHome(home, v) /\ home # Outside /\ UNCHANGED <<jsb, jpend>>
      BY <1>8, <2>3 DEF ReplayTag
    <3>2. home \in Homes
      <4>1. Head(tags) \in Tag
        BY <2>1 DEF WalkInv
      <4>2. QED
        BY <3>1, <4>1 DEF Tag
    <3>3. next_block \in LogBlocks /\ image \in Images
      BY <2>1 DEF WalkInv, DeviceInv
    <3>4. IsBlock(Magic) /\ IsBlock(image.log[next_block].val)
      BY <3>3, ImageAssumption DEF LogBlocks
    <3>5. IsBlock(v)
      BY <3>4 DEF log
    <3> HIDE DEF home, v
    <3>6. QED
      BY <2>1, <3>1, <3>2, <3>5, WriteHomeKeeps DEF DeviceInv
  <2>4. QED
    BY <2>2, <2>3
<1>9. CASE FlushHomes \/ FlushReset \/ Sync
  <2>1. DeviceFlush /\ UNCHANGED <<image, sb, header>>
    BY <1>9 DEF FlushHomes, FlushReset, Sync
  <2>2. QED
    BY <2>1, FlushKeeps
<1>10. CASE Reload
  <2> DEFINE v == disk[Super]
             valid == v.valid /\ ~errors
             error == v.error \/ errno # 0
  <2>1. valid \in BOOLEAN /\ error \in BOOLEAN
    OBVIOUS
  <2>2. sb' = [v EXCEPT !.recover = FALSE, !.valid = valid, !.error = error] /\ UNCHANGED <<image, device, header>>
    BY <1>10 DEF Reload
  <2>3. IsBlock(v)
    BY <1>0
  <2> HIDE DEF v, valid, error
  <2>4. IsBlock(sb')
    BY <2>1, <2>2, <2>3, BlockFields
  <2>5. QED
    BY <2>2, <2>4 DEF DeviceInv
<1>11. CASE DeviceFails
  BY <1>11 DEF DeviceFails, DeviceInv
<1>12. CASE PowerCut
  <2>1. /\ \A b \in Homes : disk'[b] \in dpend[b]
        /\ disk' \in [Homes -> UNION {dpend[b] : b \in Homes}]
        /\ dpend' = [b \in Homes |-> {disk'[b]}] /\ jsb' \in jpend /\ jpend' = {jsb'}
        /\ UNCHANGED <<image, sb, header>>
    BY <1>12 DEF PowerCut
  <2>2. disk' = [b \in Homes |-> disk'[b]]
    BY <2>1
  <2>3. dpend' = [b \in Homes |-> dpend'[b]] /\ \A b \in Homes : dpend'[b] = {disk'[b]}
    BY <2>1
  <2>4. QED
    BY <2>1, <2>2, <2>3 DEF DeviceInv
<1>13. QED
  BY <1>1, <1>2, <1>3, <1>4, <1>5, <1>6, <1>7, <1>8, <1>9, <1>10, <1>11, <1>12 DEF Next, Step

\* Nothing is being walked.
LEMMA RestWalk ==
    ASSUME Rest, WalkInv, crashes' \in Nat, mode' \in Modes \cup {"check"},
           pc' \in {"idle", "done", "unflag", "halt", "clear", "recover"}, pc' = "recover" => header'.ok
    PROVE  WalkInv'
<1>1. 0 \in Tids /\ 0 \in 0 .. Last /\ 0 <= Last - First
  BY RecoveryAssumption DEF Tids
<1>2. << >> \in Seq(Tag) /\ Len(<< >>) = 0
  OBVIOUS
<1>3. QED
  BY <1>1, <1>2 DEF Rest, WalkInv

\* Each step keeps the passes inside the log.
LEMMA WalkStep ==
    ASSUME DeviceInv, WalkInv, Next
    PROVE  WalkInv'
<1> USE DEF device, walk, result
<1>1. ASSUME NEW m \in Modes, Open(m) PROVE WalkInv'
  <2>1. Rest /\ header' = jsb /\ mode' = m /\ crashes' = crashes /\ pc' = Route(m)
    BY <1>1 DEF Open
  <2>2. Route(m) \in {"idle", "done", "unflag", "halt", "clear", "recover"} /\ (Route(m) = "recover" => jsb.ok)
    BY DEF Route
  <2>3. QED
    BY <2>1, <2>2, RestWalk DEF WalkInv
<1>2. CASE DeviceFails \/ PowerCut
  <2>1. Rest /\ mode' = mode /\ crashes' = crashes + 1 /\ pc' = "idle"
    BY <1>2 DEF DeviceFails, PowerCut
  <2>2. QED
    BY <2>1, RestWalk DEF WalkInv
<1>3. CASE ClearFlag \/ PreenHalt \/ ClearErrno \/ CarryErrno \/ RecoverEmpty \/ FlushHomes \/ ResetLog \/ FlushReset
           \/ Reload \/ FlushSuperblock \/ Sync
  <2>1. /\ pc' \in {"done", "sync", "carry", "reload", "reset", "settle", "super"}
        /\ pc' = "reset" => pc = "flush" /\ header' = header
        /\ UNCHANGED <<crashes, mode, walk, end, tags, errors, failed>>
    BY <1>3 DEF ClearFlag, PreenHalt, ClearErrno, CarryErrno, RecoverEmpty, FlushHomes, ResetLog, FlushReset,
                Reload, FlushSuperblock, Sync
  <2>2. QED
    BY <2>1 DEF WalkInv
<1>4. CASE RecoverLog
  <2>1. /\ pc = "recover" /\ pc' = "scan" /\ header.start # 0
        /\ next_commit' = header.sequence /\ next_block' = header.start
        /\ UNCHANGED <<crashes, mode, header, reads, end, tags, errors, failed>>
    BY <1>4 DEF RecoverLog, Rewind
  <2>2. header.start \in LogBlocks /\ header.sequence \in Tids
    BY <2>1 DEF DeviceInv, IsHeader, WalkInv, LogBlocks, Tids
  <2>3. QED
    BY <2>1, <2>2 DEF WalkInv
<1>5. CASE ScanStops \/ ScanTornCommit
  <2>1. /\ pc = "scan" /\ pc' = "revoke"
        /\ next_commit' = header.sequence /\ next_block' = header.start /\ end' = next_commit /\ reads' = 0
        /\ UNCHANGED <<crashes, mode, header, tags, failed>> /\ errors' \in {TRUE, errors}
    BY <1>5 DEF ScanStops, ScanTornCommit, Scanning, ScanEnds, Rewind
  <2>2. header.start \in LogBlocks /\ header.sequence \in Tids
    BY <2>1 DEF DeviceInv, IsHeader, WalkInv, Tids
  <2>3. 0 \in 0 .. Last
    BY RecoveryAssumption
  <2>4. QED
    BY <2>1, <2>2, <2>3 DEF WalkInv
<1>6. CASE ScanFails \/ PassFails
  <2>1. /\ pc \in {"scan", "revoke", "replay"} /\ pc' = "flush" /\ errors' = TRUE /\ failed' = TRUE
        /\ UNCHANGED <<crashes, mode, header, walk, end, tags>>
    BY <1>6 DEF ScanFails, PassFails, Scanning, Passing, Fail
  <2>2. QED
    BY <2>1 DEF WalkInv
<1>7. ASSUME next_block \in LogBlocks
      PROVE  LET ts == log[next_block].tags
             IN  ts \in Seq(Tag) /\ Len(ts) \in 0 .. Last - First
                 /\ wrap(wrap(next_block + 1) + Len(ts)) \in LogBlocks /\ wrap(next_block + 1) \in LogBlocks
  <2> DEFINE ts == image.log[next_block].tags
             n == Len(ts)
             b == wrap(next_block + 1)
  <2>1. ts \in Seq(Tag) /\ n <= Last - First
    BY <1>7, ImageAssumption DEF DeviceInv, LogBlocks, Tag
  <2>2. n \in Nat
    BY <2>1
  <2>3. n \in 0 .. Last - First
    BY <2>1, <2>2, RecoveryAssumption
  <2>4. b \in LogBlocks
    BY <1>7, Wraps
  <2> HIDE DEF n, b
  <2>5. wrap(b + n) \in LogBlocks
    BY <2>3, <2>4, Wraps
  <2>6. QED
    BY <2>1, <2>3, <2>4, <2>5 DEF log, n, b
<1>8. CASE ScanBlock
  <2>1. /\ pc = "scan" /\ reads < Last /\ next_block' = wrap(wrap(next_block + 1) + Len(log[next_block].tags))
        /\ reads' = reads + 1
        /\ UNCHANGED <<pc, crashes, mode, header, next_commit, end, tags, errors, failed>>
    BY <1>8 DEF ScanBlock, Scanning
  <2>2. next_block' \in LogBlocks
    BY <1>7, <2>1 DEF WalkInv
  <2>3. reads' \in 0 .. Last
    BY <2>1, RecoveryAssumption DEF WalkInv
  <2>4. QED
    BY <2>1, <2>2, <2>3 DEF WalkInv
<1>9. CASE ScanCommit
  <2>1. /\ pc = "scan" /\ reads < Last /\ next_block' = wrap(next_block + 1) /\ next_commit' = tid_next(next_commit)
        /\ reads' = reads + 1
        /\ UNCHANGED <<pc, crashes, mode, header, end, tags, errors, failed>>
    BY <1>9 DEF ScanCommit, Scanning
  <2>2. next_block' \in LogBlocks /\ next_commit' \in Tids
    BY <2>1, Wraps DEF WalkInv
  <2>3. reads' \in 0 .. Last
    BY <2>1, RecoveryAssumption DEF WalkInv
  <2>4. QED
    BY <2>1, <2>2, <2>3 DEF WalkInv
<1>10. CASE PassStops
  <2>1. /\ pc \in {"revoke", "replay"} /\ pc' \in {"flush", "replay"} /\ errors' \in {TRUE, errors} /\ failed' \in {TRUE, failed}
        /\ \/ UNCHANGED <<next_commit, next_block>>
           \/ next_commit' = header.sequence /\ next_block' = header.start
        /\ UNCHANGED <<crashes, mode, header, reads, end, tags>>
    BY <1>10 DEF PassStops, Fail, Rewind
  <2>2. header.start \in LogBlocks /\ header.sequence \in Tids
    BY <2>1 DEF DeviceInv, IsHeader, WalkInv, Tids
  <2>3. QED
    BY <2>1, <2>2 DEF WalkInv
<1>11. CASE PassCommit
  <2>1. /\ pc \in {"revoke", "replay"} /\ next_block' = wrap(next_block + 1) /\ next_commit' = tid_next(next_commit)
        /\ UNCHANGED <<pc, crashes, mode, header, reads, end, tags, errors, failed>>
    BY <1>11 DEF PassCommit, Passing
  <2>2. next_block' \in LogBlocks /\ next_commit' \in Tids
    BY <2>1, Wraps DEF WalkInv
  <2>3. QED
    BY <2>1, <2>2 DEF WalkInv
<1>12. CASE PassSkips
  <2>1. /\ pc \in {"revoke", "replay"} /\ next_block' = wrap(wrap(next_block + 1) + Len(log[next_block].tags))
        /\ UNCHANGED <<pc, crashes, mode, header, next_commit, reads, end, tags, errors, failed>>
    BY <1>12 DEF PassSkips, Passing
  <2>2. next_block' \in LogBlocks
    BY <1>7, <2>1 DEF WalkInv
  <2>3. QED
    BY <2>1, <2>2 DEF WalkInv
<1>13. CASE RevokeRecords
  <2>1. /\ pc = "revoke" /\ next_block' = wrap(next_block + 1)
        /\ UNCHANGED <<pc, crashes, mode, header, next_commit, reads, end, tags, errors, failed>>
    BY <1>13 DEF RevokeRecords, Passing
  <2>2. next_block' \in LogBlocks
    BY <2>1, Wraps DEF WalkInv
  <2>3. QED
    BY <2>1, <2>2 DEF WalkInv
<1>14. CASE ReplayDescriptor
  <2>1. /\ pc = "replay" /\ next_block' = wrap(next_block + 1) /\ tags' = log[next_block].tags
        /\ UNCHANGED <<pc, crashes, mode, header, next_commit, reads, end, errors, failed>>
    BY <1>14 DEF ReplayDescriptor, Passing
  <2>2. next_block' \in LogBlocks /\ tags' \in Seq(Tag) /\ Len(tags') <= Last - First
    BY <1>7, <2>1 DEF WalkInv
  <2>3. QED
    BY <2>1, <2>2 DEF WalkInv
<1>15. CASE ReplayTag
  <2>1. /\ pc = "replay" /\ next_block' = wrap(next_block + 1) /\ tags # << >> /\ tags' = Tail(tags)
        /\ errors' \in {TRUE, errors} /\ failed' \in {TRUE, failed}
        /\ UNCHANGED <<pc, crashes, mode, header, next_commit, reads, end>>
    BY <1>15 DEF ReplayTag
  <2>2. next_block' \in LogBlocks
    BY <2>1, Wraps DEF WalkInv
  <2>3. tags' \in Seq(Tag) /\ Len(tags') <= Last - First
    <3>1. tags \in Seq(Tag) /\ Len(tags) <= Last - First
      BY DEF WalkInv
    <3>2. Tail(tags) \in Seq(Tag) /\ Len(Tail(tags)) = Len(tags) - 1 /\ Len(tags) \in Nat
      BY <2>1, <3>1
    <3>3. QED
      BY <2>1, <3>1, <3>2, RecoveryAssumption
  <2>4. QED
    BY <2>1, <2>2, <2>3 DEF WalkInv
<1>16. QED
  BY <1>1, <1>2, <1>3, <1>4, <1>5, <1>6, <1>8, <1>9, <1>10, <1>11, <1>12, <1>13, <1>14, <1>15 DEF Next, Step

\* Device and passes are what they should be in every state.
LEMMA InvariantsHold == Spec => [](DeviceInv /\ WalkInv)
<1>1. Init => DeviceInv /\ WalkInv
  <2> SUFFICES ASSUME Init PROVE DeviceInv /\ WalkInv
    OBVIOUS
  <2>1. image \in Images /\ disk = image.disk /\ jsb = image.jsb
    BY DEF Init
  <2>2. disk = [b \in Homes |-> disk[b]] /\ (\A b \in Homes : IsBlock(disk[b])) /\ IsHeader(jsb)
    BY <2>1, ImageAssumption
  <2>3. dpend = [b \in Homes |-> {disk[b]}]
    BY DEF Init
  <2>4. dpend = [b \in Homes |-> dpend[b]] /\ \A b \in Homes : dpend[b] = {disk[b]}
    BY <2>3
  <2>5. Super \in Homes /\ sb = disk[Super] /\ header = jsb /\ jpend = {jsb}
    BY RecoveryAssumption DEF Init
  <2>6. DeviceInv
    BY <2>1, <2>2, <2>4, <2>5 DEF DeviceInv
  <2>7. 0 \in Tids /\ 0 \in 0 .. Last /\ 0 <= Last - First
    BY RecoveryAssumption DEF Tids
  <2>8. << >> \in Seq(Tag) /\ Len(<< >>) = 0
    OBVIOUS
  <2>9. WalkInv
    BY <2>7, <2>8 DEF Init, WalkInv
  <2>10. QED
    BY <2>6, <2>9
<1>2. DeviceInv /\ WalkInv /\ [Next]_vars => (DeviceInv /\ WalkInv)'
  <2> SUFFICES ASSUME DeviceInv, WalkInv, [Next]_vars PROVE (DeviceInv /\ WalkInv)'
    OBVIOUS
  <2>1. CASE Next
    BY <2>1, DeviceStep, WalkStep
  <2>2. CASE UNCHANGED vars
    BY <2>2 DEF vars, device, walk, result, DeviceInv, WalkInv
  <2>3. QED
    BY <2>1, <2>2
<1>3. QED
  BY <1>1, <1>2, PTL DEF Spec

\* Every variable of recovery has its type: among it that no pass, however the log wraps and whatever its
\* blocks say, reads a block that is not the log's (map[block] of Journal::read).
THEOREM TypeCorrect == Spec => []TypeOK
<1>1. DeviceInv /\ WalkInv => TypeOK
  <2> SUFFICES ASSUME DeviceInv, WalkInv PROVE TypeOK
    OBVIOUS
  <2>1. DOMAIN disk = Homes
    BY DEF DeviceInv
  <2>2. QED
    BY <2>1 DEF DeviceInv, WalkInv, TypeOK, LogBlocks, Tids
<1>2. QED
  BY <1>1, InvariantsHold, PTL

-------------------------------------------------------------------------------
(* The kernel's abort *)

\* Once cleared, the abort is in the superblock, or on its way there; it is cleared only in a journal that
\* is, or by the same write becomes, empty, so no replay can take it from the superblock again.
AbortInv ==
    crashes = 0 /\ image.jsb.errno # 0 =>
        /\ jsb.errno = 0 => jsb.start = 0
        /\ pc \in {"idle", "done", "unflag", "halt", "clear", "recover", "scan", "revoke", "replay", "flush", "reset",
                  "sync"} => jsb.errno # 0 \/ disk[Super].error
        /\ pc \in {"unflag", "halt", "clear", "recover", "scan", "revoke", "replay", "flush", "reset"} => header = jsb
        /\ pc \in {"scan", "revoke", "replay", "flush", "reset"} => header.start # 0 /\ errno # 0
        /\ pc = "clear" => jsb.start = 0
        /\ pc = "unflag" => sb = disk[Super]
        /\ pc \in {"settle", "reload"} => errno # 0 \/ disk[Super].error
        /\ pc \in {"carry", "super"} => sb.error

\* Super reads back as what was written there.
LEMMA SuperWritten ==
    ASSUME DeviceInv, NEW v, WriteHome(Super, v)
    PROVE  disk'[Super] = v
<1>1. DOMAIN disk = Homes /\ Super \in Homes
  BY RecoveryAssumption DEF DeviceInv
<1>2. QED
  BY <1>1 DEF WriteHome

\* What clearing errno and emptying the journal leave in its superblock.
LEMMA HeaderCleared ==
    ASSUME NEW j, IsHeader(j), NEW sequence
    PROVE  /\ [j EXCEPT !.errno = 0].start = j.start
           /\ [j EXCEPT !.sequence = sequence, !.start = 0, !.errno = 0].start = 0
<1>1. [j EXCEPT !.errno = 0].start = j.start
  BY DEF IsHeader
<1>2. [j EXCEPT !.sequence = sequence, !.start = 0, !.errno = 0].start = 0
  BY DEF IsHeader
<1>3. QED
  BY <1>1, <1>2

\* What Reload assigns to the error flag is there.
LEMMA ReloadMarks ==
    ASSUME NEW v, IsBlock(v), NEW valid \in BOOLEAN, NEW error \in BOOLEAN, error,
           NEW w, w = [v EXCEPT !.recover = FALSE, !.valid = valid, !.error = error]
    PROVE  w.error
<1>1. w.error = error
  BY DEF IsBlock
<1>2. QED
  BY <1>1

\* Each step that nothing interrupts keeps the abort.
LEMMA AbortStep ==
    ASSUME AbortInv, DeviceInv, WalkInv, Next
    PROVE  AbortInv'
<1> USE DEF device
<1> SUFFICES ASSUME crashes' = 0, image'.jsb.errno # 0 PROVE AbortInv'
  BY DEF AbortInv
<1>0. Super \in Homes /\ IsBlock(disk[Super]) /\ IsBlock(sb) /\ IsHeader(header)
  BY RecoveryAssumption DEF DeviceInv
<1>1. ~DeviceFails /\ ~PowerCut
  <2>1. crashes \in Nat
    BY DEF WalkInv
  <2>2. QED
    BY <2>1 DEF DeviceFails, PowerCut
<1>2. ASSUME UNCHANGED <<crashes, image>> PROVE crashes = 0 /\ image.jsb.errno # 0
  BY <1>2
<1>3. ASSUME NEW m \in Modes, Open(m) PROVE AbortInv'
  <2>1. UNCHANGED <<crashes, image, jsb, disk>> /\ header' = jsb /\ sb' = disk[Super] /\ pc \in {"idle", "done"} /\ pc' = Route(m)
    BY <1>3 DEF Open
  <2>2. Route(m) \in {"done", "unflag", "halt", "clear", "recover"} /\ (Route(m) = "clear" => jsb.start = 0)
    BY DEF Route
  <2>3. QED
    BY <1>2, <2>1, <2>2 DEF AbortInv
<1>4. CASE ClearFlag
  <2>1. UNCHANGED <<crashes, image, jsb>> /\ pc = "unflag" /\ pc' = "done" /\ sb' = [sb EXCEPT !.recover = FALSE] /\ WriteHome(Super, sb')
    BY <1>4 DEF ClearFlag
  <2>2. disk'[Super].error = sb.error
    BY <1>0, <2>1, SuperWritten, BlockFields
  <2>3. QED
    BY <1>2, <2>1, <2>2 DEF AbortInv
<1>5. CASE PreenHalt
  <2>1. UNCHANGED <<crashes, image, jsb>> /\ pc = "halt" /\ pc' = "sync" /\ sb' = [sb EXCEPT !.error = TRUE] /\ WriteHome(Super, sb')
    BY <1>5 DEF PreenHalt
  <2>2. disk'[Super].error
    <3>1. disk'[Super] = sb'
      BY <2>1, SuperWritten
    <3>2. TRUE \in BOOLEAN
      OBVIOUS
    <3>3. [sb EXCEPT !.error = TRUE].error = TRUE
      BY <1>0, <3>2, BlockFields
    <3>4. QED
      BY <2>1, <3>1, <3>3
  <2>3. QED
    BY <1>2, <2>1, <2>2 DEF AbortInv
<1>6. CASE ClearErrno
  <2>1. /\ UNCHANGED <<crashes, image>> /\ pc = "clear" /\ pc' = "carry" /\ sb' = [sb EXCEPT !.error = TRUE]
        /\ jsb' = [header EXCEPT !.errno = 0]
    BY <1>6 DEF ClearErrno, WriteJsb
  <2>2. sb'.error
    BY <1>0, <2>1, BlockFields
  <2>3. jsb'.start = header.start
    BY <1>0, <2>1, HeaderCleared
  <2>4. header = jsb /\ header.start = 0
    BY <1>2, <2>1 DEF AbortInv
  <2>5. QED
    BY <2>1, <2>2, <2>3, <2>4 DEF AbortInv
<1>7. CASE CarryErrno \/ FlushSuperblock
  <2>1. UNCHANGED <<crashes, image, jsb>> /\ pc \in {"carry", "super"} /\ pc' \in {"done", "sync"} /\ WriteHome(Super, sb)
    BY <1>7 DEF CarryErrno, FlushSuperblock
  <2>2. disk'[Super] = sb
    BY <2>1, SuperWritten
  <2>3. QED
    BY <1>2, <2>1, <2>2 DEF AbortInv
<1>8. CASE RecoverEmpty
  <2>1. /\ UNCHANGED <<crashes, image, disk>> /\ pc = "recover" /\ pc' = "reload" /\ errno' = header.errno
        /\ jsb' = [header EXCEPT !.sequence = tid_next(header.sequence), !.start = 0, !.errno = 0]
    BY <1>8 DEF RecoverEmpty, reset, WriteJsb
  <2>2. jsb'.start = 0
    BY <1>0, <2>1, HeaderCleared
  <2>3. QED
    BY <1>2, <2>1, <2>2 DEF AbortInv
<1>9. CASE RecoverLog
  <2>1. UNCHANGED <<crashes, image, disk, jsb, header>> /\ pc = "recover" /\ pc' = "scan" /\ errno' = header.errno /\ header.start # 0
    BY <1>9 DEF RecoverLog
  <2>2. QED
    BY <1>2, <2>1 DEF AbortInv
<1>10. CASE ScanStops \/ ScanBlock \/ ScanCommit \/ ScanTornCommit \/ ScanFails
            \/ PassStops \/ PassCommit \/ PassSkips \/ RevokeRecords \/ PassFails \/ ReplayDescriptor
  <2>1. /\ UNCHANGED <<crashes, image, disk, jsb, header>> /\ errno' \in {errno, -22}
        /\ pc \in {"scan", "revoke", "replay"} /\ pc' \in {"scan", "revoke", "replay", "flush"}
    BY <1>10 DEF ScanStops, ScanBlock, ScanCommit, ScanTornCommit, ScanFails, Scanning, PassStops, PassCommit,
                 PassSkips, RevokeRecords, PassFails, ReplayDescriptor, Passing, ScanEnds, Fail, result
  <2>2. -22 # 0
    OBVIOUS
  <2>3. QED
    BY <1>2, <2>1, <2>2 DEF AbortInv
<1>11. CASE ReplayTag
  <2>1. UNCHANGED <<crashes, image, jsb, header, errno>> /\ pc = "replay" /\ pc' = "replay"
    BY <1>11 DEF ReplayTag
  <2>2. jsb.errno # 0
    BY <1>2, <2>1 DEF AbortInv
  <2>3. QED
    BY <1>2, <2>1, <2>2 DEF AbortInv
<1>12. CASE FlushHomes
  <2>1. UNCHANGED <<crashes, image, disk, jsb, header, errno>> /\ pc = "flush" /\ pc' = "reset"
    BY <1>12 DEF FlushHomes, DeviceFlush, result
  <2>2. QED
    BY <1>2, <2>1 DEF AbortInv
<1>13. CASE ResetLog
  <2>1. /\ UNCHANGED <<crashes, image, disk, errno>> /\ pc = "reset" /\ pc' = "settle"
        /\ jsb' = [header EXCEPT !.sequence = Restart, !.start = 0, !.errno = 0]
    BY <1>13 DEF ResetLog, reset, WriteJsb, result
  <2>2. jsb'.start = 0
    BY <1>0, <2>1, HeaderCleared
  <2>3. QED
    BY <1>2, <2>1, <2>2 DEF AbortInv
<1>14. CASE FlushReset
  <2>1. UNCHANGED <<crashes, image, disk, jsb, errno>> /\ pc = "settle" /\ pc' = "reload"
    BY <1>14 DEF FlushReset, DeviceFlush, result
  <2>2. QED
    BY <1>2, <2>1 DEF AbortInv
<1>15. CASE Reload
  <2> DEFINE v == disk[Super]
             valid == v.valid /\ ~errors
             error == v.error \/ errno # 0
  <2>1. /\ UNCHANGED <<crashes, image, jsb>> /\ pc = "reload" /\ pc' = "super"
        /\ sb' = [v EXCEPT !.recover = FALSE, !.valid = valid, !.error = error]
    BY <1>15 DEF Reload
  <2>2. valid \in BOOLEAN /\ error \in BOOLEAN /\ IsBlock(v)
    BY <1>0
  <2>3. error
    BY <1>2, <2>1 DEF AbortInv
  <2> HIDE DEF v, valid, error
  <2>4. sb'.error
    BY <2>1, <2>2, <2>3, ReloadMarks
  <2>5. QED
    BY <1>2, <2>1, <2>3, <2>4 DEF AbortInv
<1>16. CASE Sync
  <2>1. UNCHANGED <<crashes, image, disk, jsb>> /\ pc = "sync" /\ pc' = "done"
    BY <1>16 DEF Sync, DeviceFlush
  <2>2. QED
    BY <1>2, <2>1 DEF AbortInv
<1>17. QED
  BY <1>1, <1>3, <1>4, <1>5, <1>6, <1>7, <1>8, <1>9, <1>10, <1>11, <1>12, <1>13, <1>14, <1>15, <1>16 DEF Next, Step

\* "Clear s_errno, once the caller has carried it into the filesystem's ERROR_FS" (clear_errno): of every
\* journal, replayed or not, the superblock logged in it or not, an abort the kernel recorded is in the
\* journal superblock or in the superblock whenever no check runs, unless a check was cut short.
THEOREM AbortIsKept == Spec => []AbortIsRemembered
<1>1. Init => AbortInv
  BY DEF Init, AbortInv
<1>2. AbortInv /\ DeviceInv /\ WalkInv /\ [Next]_vars => AbortInv'
  <2> SUFFICES ASSUME AbortInv, DeviceInv, WalkInv, [Next]_vars PROVE AbortInv'
    OBVIOUS
  <2>1. CASE Next
    BY <2>1, AbortStep
  <2>2. CASE UNCHANGED vars
    BY <2>2 DEF vars, device, result, AbortInv
  <2>3. QED
    BY <2>1, <2>2
<1>3. AbortInv => AbortIsRemembered
  BY DEF AbortInv, AbortIsRemembered, Uninterrupted, AtRest
<1>4. QED
  BY <1>1, <1>2, <1>3, InvariantsHold, PTL DEF Spec

-------------------------------------------------------------------------------
(* The three passes take the same way through the log *)

\* A number less than the modulus added: at most one turn is lost.
LEMMA ModAdds ==
    ASSUME NEW T \in Nat, T > 0, NEW x \in Int, NEW d \in Nat, d < T
    PROVE  (x + d) % T = (x % T) + d \/ (x + d) % T = (x % T) + d - T
<1> DEFINE q == x \div T
           a == x % T
<1>1. q \in Int /\ a \in 0 .. T - 1 /\ x = T * q + a
  OBVIOUS
<1>2. \A r \in 0 .. T - 1 : \A p \in Int : (T * p + r) % T = r
  OBVIOUS
<1>3. CASE a + d < T
  <2>1. a + d \in 0 .. T - 1 /\ x + d = T * q + (a + d)
    BY <1>1, <1>3
  <2>2. QED
    BY <1>1, <1>2, <2>1
<1>4. CASE a + d >= T
  <2>1. a + d - T \in 0 .. T - 1 /\ x + d = T * (q + 1) + (a + d - T) /\ q + 1 \in Int
    BY <1>1, <1>4
  <2>2. QED
    BY <1>1, <1>2, <2>1
<1>5. QED
  BY <1>1, <1>3, <1>4

\* Sequence numbers follow on, and of two that are less than half their range apart the earlier is not taken
\* for the later one.
LEMMA TidOrder ==
    ASSUME NEW sequence \in Tids
    PROVE  /\ Tid(sequence, 0) = sequence
           /\ \A n \in Nat : tid_next(Tid(sequence, n)) = Tid(sequence, n + 1) /\ Tid(sequence, n) \in Tids
           /\ \A x \in Tids : tid_geq(x, x)
           /\ \A m, n \in Nat : m <= n /\ n - m <= TidMod \div 2 /\ Tid(sequence, m) # Tid(sequence, n)
                                => ~tid_geq(Tid(sequence, m), Tid(sequence, n))
<1> DEFINE T == TidMod
           H == TidMod \div 2
<1>1. T \in Nat /\ T > 0 /\ H \in Nat /\ T = 2 * H /\ H > 0
  BY RecoveryAssumption
<1>2. \A x \in Int : x % T \in 0 .. T - 1
  BY <1>1
<1>3. \A x \in 0 .. T - 1 : x % T = x
  BY <1>1
<1>4. Tid(sequence, 0) = sequence
  BY <1>1, <1>3 DEF Tid, Tids
<1>5. ASSUME NEW n \in Nat PROVE tid_next(Tid(sequence, n)) = Tid(sequence, n + 1) /\ Tid(sequence, n) \in Tids
  <2> DEFINE x == sequence + n
             r == x % T
  <2>1. x \in Int /\ r \in 0 .. T - 1
    BY <1>1, <1>2 DEF Tids
  <2>2. (r + 1) % T = (x + 1) % T
    BY <1>1, <2>1
  <2>3. QED
    BY <2>1, <2>2 DEF Tid, tid_next, Tids
<1>6. \A x \in Tids : tid_geq(x, x)
  <2>1. 0 % T = 0 /\ 0 \in 0 .. H - 1 /\ \A x \in Tids : x - x = 0
    BY <1>1 DEF Tids
  <2>2. QED
    BY <2>1 DEF tid_geq
<1>7. ASSUME NEW m \in Nat, NEW n \in Nat, m <= n, n - m <= H, Tid(sequence, m) # Tid(sequence, n)
      PROVE  ~tid_geq(Tid(sequence, m), Tid(sequence, n))
  <2> DEFINE d == n - m
             x == sequence + m
             y == sequence + n
             a == x % T
             b == y % T
  <2>1. d \in Nat /\ d <= H /\ y = x + d /\ x \in Int /\ y \in Int /\ a \in 0 .. T - 1 /\ b \in 0 .. T - 1
    BY <1>1, <1>2, <1>7 DEF Tids
  <2>2. b = a + d \/ b = a + d - T
    <3>1. d < T
      BY <1>1, <2>1
    <3>2. b = (x + d) % T
      BY <2>1
    <3> HIDE DEF d, x, y, b
    <3>3. (x + d) % T = (x % T) + d \/ (x + d) % T = (x % T) + d - T
      BY <1>1, <2>1, <3>1, ModAdds
    <3>4. QED
      BY <3>2, <3>3
  <2>3. a # b
    BY <1>7 DEF Tid
  <2> HIDE DEF d, x, y, a, b
  <2>4. d > 0
    BY <1>1, <2>1, <2>2, <2>3
  <2>5. (a - b) % T = T - d
    BY <1>1, <2>1, <2>2, <2>4
  <2>6. (a - b) % T \notin 0 .. H - 1
    BY <1>1, <2>1, <2>5
  <2>7. QED
    BY <2>6 DEF Tid, tid_geq, a, b, x, y
<1>8. QED
  BY <1>4, <1>5, <1>6, <1>7

\* A place of a pass: how many commit blocks are behind it, and the log block it is at.
Places == Nat \X LogBlocks

\* The places of a pass from `start` on.
IsTrail(w, im, start) ==
    /\ w \in [0 .. Last -> Places]
    /\ w[0] = <<0, start>>
    /\ \A k \in 0 .. Last - 1 : w[k + 1] = After(im, w[k])

\* Every step leads to a place in the log, past one commit block at most.
LEMMA AfterIsPlace ==
    ASSUME NEW im \in Images, NEW s \in Places
    PROVE  After(im, s) \in Places /\ (After(im, s)[1] = s[1] \/ After(im, s)[1] = s[1] + 1)
<1>1. s[1] \in Nat /\ s[2] \in LogBlocks
  BY DEF Places
<1>2. First \in Nat /\ Last \in Nat /\ First < Last
  BY RecoveryAssumption
<1>3. wrap(s[2] + 1) \in LogBlocks
  BY <1>1, Wraps
<1>4. im.log[s[2]].tags \in Seq(Tag) /\ Len(im.log[s[2]].tags) <= Last - First
  BY <1>1, ImageAssumption DEF LogBlocks, Tag
<1>5. Len(im.log[s[2]].tags) \in 0 .. Last - First
  BY <1>2, <1>4
<1>6. wrap(wrap(s[2] + 1) + Len(im.log[s[2]].tags)) \in LogBlocks
  BY <1>3, <1>5, Wraps
<1>7. QED
  BY <1>1, <1>3, <1>6 DEF After, Places

\* There is a way through every log, from every start.
LEMMA TrailExists ==
    ASSUME NEW im \in Images, NEW start \in LogBlocks
    PROVE  \E w : IsTrail(w, im, start)
<1> DEFINE F == [x \in (1 .. Last) \X Places |-> After(im, x[2])]
           base == <<0, start>>
<1>1. base \in Places /\ Last \in Nat
  BY RecoveryAssumption DEF Places
<1>2. IsStep(F, 1 .. Last, Places)
  <2>1. \A x \in (1 .. Last) \X Places : After(im, x[2]) \in Places
    BY AfterIsPlace
  <2>2. QED
    BY <2>1 DEF IsStep
<1>3. \A n \in 1 .. Last : \A s \in Places : F[<<n, s>>] = After(im, s)
  OBVIOUS
<1> HIDE DEF F, base
<1>4. PICK w : IsLoop(w, Last, Places, base, F)
  BY <1>1, <1>2, NumberRecursion
<1>5. w \in [0 .. Last -> Places] /\ w[0] = base /\ \A n \in 1 .. Last : w[n] = F[<<n, w[n - 1]>>]
  BY <1>4 DEF IsLoop
<1>6. ASSUME NEW k \in 0 .. Last - 1 PROVE w[k + 1] = After(im, w[k])
  <2>1. k + 1 \in 1 .. Last /\ (k + 1) - 1 = k /\ k \in 0 .. Last
    BY <1>1
  <2>2. w[k] \in Places
    BY <1>5, <2>1
  <2>3. w[k + 1] = F[<<k + 1, w[k]>>]
    BY <1>5, <2>1
  <2>4. QED
    BY <1>3, <2>1, <2>2, <2>3
<1>7. IsTrail(w, im, start)
  BY <1>5, <1>6 DEF IsTrail, base
<1>8. QED
  BY <1>7

\* The commit blocks behind a place only grow in number, by no more than the blocks read.
LEMMA TrailCounts ==
    ASSUME NEW im \in Images, NEW start, NEW w, IsTrail(w, im, start), NEW j \in 0 .. Last
    PROVE  \A k \in j .. Last : w[j][1] <= w[k][1] /\ w[k][1] - w[j][1] <= k - j
<1> DEFINE S == {d \in Nat : j + d <= Last => w[j][1] <= w[j + d][1] /\ w[j + d][1] - w[j][1] <= d}
<1>0. Last \in Nat /\ j \in Nat
  BY RecoveryAssumption
<1>1. \A k \in 0 .. Last : w[k] \in Places /\ w[k][1] \in Nat
  BY DEF IsTrail, Places
<1>2. 0 \in S
  BY <1>0, <1>1
<1>3. ASSUME NEW d \in Nat, d \in S PROVE d + 1 \in S
  <2> SUFFICES ASSUME j + (d + 1) <= Last
               PROVE  w[j][1] <= w[j + (d + 1)][1] /\ w[j + (d + 1)][1] - w[j][1] <= d + 1
    OBVIOUS
  <2> DEFINE k == j + d
  <2>1. k \in 0 .. Last - 1 /\ k \in 0 .. Last /\ k + 1 = j + (d + 1) /\ j + (d + 1) \in 0 .. Last
    BY <1>0
  <2>2. w[j][1] <= w[k][1] /\ w[k][1] - w[j][1] <= d
    BY <1>3, <1>0
  <2>3. w[k + 1] = After(im, w[k])
    BY <2>1 DEF IsTrail
  <2>4. w[k + 1][1] = w[k][1] \/ w[k + 1][1] = w[k][1] + 1
    BY <1>1, <2>1, <2>3, AfterIsPlace
  <2> HIDE DEF k
  <2>5. QED
    BY <1>1, <2>1, <2>2, <2>4
<1> HIDE DEF S
<1>4. Nat \subseteq S
  BY <1>2, <1>3, NumberInduction, Zenon
<1>5. ASSUME NEW k \in j .. Last PROVE w[j][1] <= w[k][1] /\ w[k][1] - w[j][1] <= k - j
  <2>1. k - j \in Nat /\ j + (k - j) = k /\ k <= Last
    BY <1>0
  <2>2. k - j \in S
    BY <1>4, <2>1
  <2>3. QED
    BY <2>1, <2>2 DEF S
<1>6. QED
  BY <1>5

\* The trail of a log is the way the passes go.
LEMMA TrailIsTrail ==
    ASSUME NEW im \in Images, im.jsb.start \in LogBlocks
    PROVE  IsTrail(Trail(im), im, im.jsb.start)
<1> DEFINE start == im.jsb.start
           Is(w) == w = [k \in 0 .. Last |-> IF k = 0 THEN <<0, start>> ELSE After(im, w[k - 1])]
<1>0. Last \in Nat
  BY RecoveryAssumption
<1>1. PICK u : IsTrail(u, im, start)
  BY TrailExists
<1>2. Is(u)
  <2>1. u \in [0 .. Last -> Places] /\ u[0] = <<0, start>>
    BY <1>1 DEF IsTrail
  <2>2. ASSUME NEW k \in 0 .. Last PROVE u[k] = IF k = 0 THEN <<0, start>> ELSE After(im, u[k - 1])
    <3>1. CASE k = 0
      BY <2>1, <3>1
    <3>2. CASE k # 0
      <4>1. k - 1 \in 0 .. Last - 1 /\ (k - 1) + 1 = k
        BY <1>0, <3>2
      <4>2. u[(k - 1) + 1] = After(im, u[k - 1])
        BY <1>1, <4>1 DEF IsTrail
      <4>3. QED
        BY <3>2, <4>1, <4>2
    <3>3. QED
      BY <3>1, <3>2
  <2>3. QED
    BY <2>1, <2>2
<1>3. Trail(im) = CHOOSE w : Is(w)
  BY DEF Trail
<1> DEFINE w == Trail(im)
<1>4. Is(w)
  <2> HIDE DEF Is
  <2>1. QED
    BY <1>2, <1>3
<1> HIDE DEF w
<1>5. DOMAIN w = 0 .. Last /\ w = [k \in 0 .. Last |-> w[k]]
  BY <1>4
<1>6. w[0] = <<0, start>>
  <2>1. 0 \in 0 .. Last
    BY <1>0
  <2>2. QED
    BY <1>4, <2>1
<1>7. ASSUME NEW k \in 0 .. Last - 1 PROVE w[k + 1] = After(im, w[k])
  <2>1. k + 1 \in 0 .. Last /\ k + 1 # 0 /\ (k + 1) - 1 = k
    BY <1>0
  <2>2. w[k + 1] = IF k + 1 = 0 THEN <<0, start>> ELSE After(im, w[(k + 1) - 1])
    BY <1>4, <2>1
  <2>3. QED
    BY <2>1, <2>2
<1> DEFINE S == {n \in Nat : n <= Last => w[n] \in Places}
<1>8. 0 \in S
  BY <1>6 DEF Places
<1>9. ASSUME NEW n \in Nat, n \in S PROVE n + 1 \in S
  <2>1. CASE n + 1 <= Last
    <3>1. n \in 0 .. Last - 1 /\ n <= Last
      BY <1>0, <2>1
    <3>2. w[n + 1] = After(im, w[n]) /\ w[n] \in Places
      BY <1>7, <1>9, <3>1
    <3>3. QED
      BY <3>2, AfterIsPlace
  <2>2. CASE ~(n + 1 <= Last)
    BY <2>2
  <2>3. QED
    BY <2>1, <2>2
<1>10. \A n \in 0 .. Last : w[n] \in Places
  <2> HIDE DEF S
  <2>1. Nat \subseteq S
    BY <1>8, <1>9, NumberInduction, Zenon
  <2>2. QED
    BY <1>0, <2>1 DEF S
<1>11. w \in [0 .. Last -> Places]
  BY <1>5, <1>10
<1>12. QED
  BY <1>6, <1>7, <1>11 DEF IsTrail, w

\* There is no other.
LEMMA OneTrail ==
    ASSUME NEW im, NEW start, NEW u, NEW w, IsTrail(u, im, start), IsTrail(w, im, start)
    PROVE  u = w
<1>0. Last \in Nat
  BY RecoveryAssumption
<1> DEFINE S == {n \in Nat : n <= Last => u[n] = w[n]}
<1>1. 0 \in S
  BY DEF IsTrail
<1>2. ASSUME NEW n \in Nat, n \in S PROVE n + 1 \in S
  <2>1. CASE n + 1 <= Last
    <3>1. n \in 0 .. Last - 1 /\ n <= Last
      BY <1>0, <2>1
    <3>2. u[n + 1] = After(im, u[n]) /\ w[n + 1] = After(im, w[n])
      BY <3>1 DEF IsTrail
    <3>3. QED
      BY <1>2, <3>1, <3>2
  <2>2. CASE ~(n + 1 <= Last)
    BY <2>2
  <2>3. QED
    BY <2>1, <2>2
<1>3. \A n \in 0 .. Last : u[n] = w[n]
  <2> HIDE DEF S
  <2>1. Nat \subseteq S
    BY <1>1, <1>2, NumberInduction, Zenon
  <2>2. QED
    BY <1>0, <2>1 DEF S
<1>4. u = [n \in 0 .. Last |-> u[n]] /\ w = [n \in 0 .. Last |-> w[n]]
  BY DEF IsTrail
<1>5. [n \in 0 .. Last |-> u[n]] = [n \in 0 .. Last |-> w[n]]
  BY <1>3
<1>6. QED
  BY <1>4, <1>5

\* Scan took the block at place k for the next one of the log.
Took(w, k) ==
    LET b == w[k][2]
    IN  log[b].kind \in {"descriptor", "commit", "revoke"} /\ log[b].seq = Tid(header.sequence, w[k][1])

\* It did so with the first K of them, and those of the transactions it found complete have their checksums.
Scanned(w, K) ==
    \A j \in 0 .. K - 1 : Took(w, j) /\ (w[j][1] # w[K][1] => checksum_ok(w[j][2]))

AllSound(w, K) == \A j \in 0 .. K - 1 : checksum_ok(w[j][2])

\* The pass is at place k, or will be once the tags it holds are done with.
At(w, k) == next_commit = Tid(header.sequence, w[k][1]) /\ wrap(next_block + Len(tags)) = w[k][2]

\* Scan is as many places down the trail as it has read blocks.
Scans(w) ==
    /\ IsTrail(w, image, header.start)
    /\ next_commit = Tid(header.sequence, w[reads][1]) /\ next_block = w[reads][2]
    /\ Scanned(w, reads)
    /\ ~doubt => AllSound(w, reads)

\* The two passes after it are no further than where it ended.
Passes(w) ==
    /\ IsTrail(w, image, header.start)
    /\ \E K \in 0 .. Last :
          /\ Scanned(w, K) /\ end = Tid(header.sequence, w[K][1])
          /\ \E k \in 0 .. K : At(w, k)

\* What the three passes have in common.
FollowInv ==
    /\ pc \in {"recover", "scan", "revoke"} => tags = << >>
    /\ pc = "recover" => reads = 0
    /\ pc = "scan" => \E w : Scans(w)
    /\ pc \in {"revoke", "replay"} => \E w : Passes(w)

\* A pass that is not at `end` is at a block scan took.
LEMMA NotAtEnd ==
    ASSUME DeviceInv, NEW w, NEW K \in 0 .. Last, NEW k \in 0 .. K, IsTrail(w, image, header.start), Scanned(w, K),
           end = Tid(header.sequence, w[K][1]), next_commit = Tid(header.sequence, w[k][1]), next_commit # end
    PROVE  /\ ~tid_geq(next_commit, end)
           /\ k < K /\ Took(w, k) /\ checksum_ok(w[k][2])
<1>0. Last \in Nat /\ Last <= TidMod \div 2 /\ TidMod \div 2 \in Nat
  BY RecoveryAssumption, LogFits
<1>1. header.sequence \in Tids /\ image \in Images
  BY DEF DeviceInv, IsHeader, Tids
<1>2. k \in 0 .. Last /\ K \in k .. Last /\ k \in Nat /\ K \in Nat
  BY <1>0
<1>3. w[k][1] <= w[K][1] /\ w[K][1] - w[k][1] <= K - k
  BY <1>1, <1>2, TrailCounts
<1>4. w[k][1] \in Nat /\ w[K][1] \in Nat
  BY <1>2 DEF IsTrail, Places
<1>5. w[K][1] - w[k][1] <= TidMod \div 2
  BY <1>0, <1>2, <1>3, <1>4
<1>6. ~tid_geq(next_commit, end)
  BY <1>1, <1>3, <1>4, <1>5, TidOrder
<1>7. w[k][1] # w[K][1] /\ k # K
  OBVIOUS
<1>8. k \in 0 .. K - 1
  BY <1>2, <1>7
<1>9. QED
  BY <1>6, <1>7, <1>8 DEF Scanned

\* Scan, one block on.
LEMMA ScanFollows ==
    ASSUME DeviceInv, WalkInv, FollowInv, ScanBlock \/ ScanCommit
    PROVE  FollowInv'
<1> USE DEF device, result
<1>1. /\ pc = "scan" /\ pc' = "scan" /\ reads' = reads + 1 /\ reads < Last /\ tags' = tags
      /\ UNCHANGED <<image, header>>
      /\ log[next_block].seq = next_commit
  BY DEF ScanBlock, ScanCommit, Scanning, Expected
<1>2. PICK w : Scans(w)
  BY <1>1 DEF FollowInv
<1> DEFINE n == reads
           b == next_block
<1>3. n \in 0 .. Last - 1 /\ n \in Nat /\ n + 1 \in 0 .. Last /\ n \in 0 .. Last /\ Last \in Nat
  BY <1>1, RecoveryAssumption DEF WalkInv
<1>4. IsTrail(w, image, header.start) /\ w[n + 1] = After(image, w[n]) /\ w[n] \in Places /\ w[n][1] \in Nat /\ w[n][2] = b
      /\ next_commit = Tid(header.sequence, w[n][1]) /\ Scanned(w, n) /\ (~doubt => AllSound(w, n))
  BY <1>2, <1>3 DEF Scans, IsTrail, Places
<1>5. image \in Images /\ header.sequence \in Tids
  BY DEF DeviceInv, IsHeader, Tids
<1>6. /\ next_commit' = Tid(header.sequence, w[n + 1][1]) /\ next_block' = w[n + 1][2]
      /\ log[b].kind \in {"descriptor", "commit", "revoke"}
      /\ ~doubt' => ~doubt /\ checksum_ok(b)
      /\ w[n + 1][1] # w[n][1] => ~doubt /\ checksum_ok(b)
  <2>1. CASE ScanBlock
    <3>1. /\ log[b].kind \in {"descriptor", "revoke"} /\ doubt' = (doubt \/ ~checksum_ok(b)) /\ next_commit' = next_commit
          /\ next_block' = wrap(wrap(b + 1) + Len(log[b].tags))
      BY <2>1 DEF ScanBlock
    <3>2. w[n + 1] = <<w[n][1], wrap(wrap(b + 1) + Len(log[b].tags))>>
      BY <1>4, <3>1 DEF After, log
    <3>3. ~doubt' => ~doubt /\ checksum_ok(b)
      <4>1. doubt' = (doubt \/ ~checksum_ok(b))
        BY <3>1
      <4>2. QED
        BY <4>1, Zenon
    <3>4. w[n + 1][1] = w[n][1] /\ w[n + 1][2] = next_block'
      BY <3>1, <3>2
    <3>5. QED
      BY <1>4, <3>1, <3>3, <3>4
  <2>2. CASE ScanCommit
    <3>1. /\ log[b].kind = "commit" /\ checksum_ok(b) /\ ~doubt /\ next_commit' = tid_next(next_commit)
          /\ next_block' = wrap(b + 1)
      BY <2>2 DEF ScanCommit
    <3>2. w[n + 1] = <<w[n][1] + 1, wrap(b + 1)>>
      BY <1>4, <3>1 DEF After, log
    <3>3. tid_next(Tid(header.sequence, w[n][1])) = Tid(header.sequence, w[n][1] + 1)
      BY <1>4, <1>5, TidOrder
    <3>4. QED
      BY <1>4, <3>1, <3>2, <3>3
  <2>3. QED
    BY <2>1, <2>2
<1>7. Scanned(w, n + 1) /\ (~doubt' => AllSound(w, n + 1))
  <2>1. \A j \in 0 .. (n + 1) - 1 : j = n \/ j \in 0 .. n - 1
    BY <1>3
  <2>2. Took(w, n)
    BY <1>1, <1>4, <1>6 DEF Took
  <2>3. ~doubt' => AllSound(w, n + 1)
    BY <1>4, <1>6, <2>1 DEF AllSound
  <2>4. ASSUME NEW j \in 0 .. (n + 1) - 1 PROVE Took(w, j) /\ (w[j][1] # w[n + 1][1] => checksum_ok(w[j][2]))
    <3>1. CASE j = n
      BY <1>4, <1>6, <2>2, <3>1
    <3>2. CASE j \in 0 .. n - 1
      <4>1. Took(w, j) /\ (w[j][1] # w[n][1] => checksum_ok(w[j][2]))
        BY <1>4, <3>2 DEF Scanned
      <4>2. CASE w[n + 1][1] = w[n][1]
        BY <4>1, <4>2
      <4>3. CASE w[n + 1][1] # w[n][1]
        BY <1>4, <1>6, <3>2, <4>1, <4>3 DEF AllSound
      <4>4. QED
        BY <4>2, <4>3
    <3>3. QED
      BY <2>1, <3>1, <3>2
  <2>5. QED
    BY <2>3, <2>4 DEF Scanned
<1>8. Scans(w)'
  BY <1>1, <1>4, <1>6, <1>7 DEF Scans, IsTrail, Scanned, Took, AllSound, checksum_ok, log
<1>9. QED
  BY <1>1, <1>8 DEF FollowInv

\* A pass starts over: it is at the trail's first place.
LEMMA RewindFollows ==
    ASSUME DeviceInv, WalkInv, Rewind, UNCHANGED <<image, header, tags>>, tags = << >>, header.start \in LogBlocks,
           NEW w, NEW K \in 0 .. Last, IsTrail(w, image, header.start), Scanned(w, K),
           end' = Tid(header.sequence, w[K][1])
    PROVE  Passes(w)'
<1>1. header.sequence \in Tids /\ Last \in Nat
  BY RecoveryAssumption DEF DeviceInv, IsHeader, Tids
<1>2. w[0] = <<0, header.start>> /\ Tid(header.sequence, 0) = header.sequence
  BY <1>1, TidOrder DEF IsTrail
<1>3. next_commit' = header.sequence /\ next_block' = header.start
  BY DEF Rewind
<1>4. Len(tags') = 0 /\ next_block' + 0 = next_block' /\ wrap(next_block') = next_block'
  BY <1>3, Wraps DEF LogBlocks
<1>5. At(w, 0)'
  BY <1>2, <1>3, <1>4 DEF At
<1>6. Scanned(w, K)' /\ IsTrail(w, image, header.start)' /\ 0 \in 0 .. K /\ (end = Tid(header.sequence, w[K][1]))'
  BY DEF Scanned, Took, checksum_ok, log, IsTrail
<1>7. QED
  BY <1>5, <1>6 DEF Passes

\* Scan's end: where the other passes have to get to.
LEMMA ScanEndFollows ==
    ASSUME DeviceInv, WalkInv, FollowInv, ScanStops \/ ScanTornCommit
    PROVE  FollowInv'
<1> USE DEF device
<1>1. pc = "scan" /\ pc' = "revoke" /\ Rewind /\ end' = next_commit /\ UNCHANGED <<image, header, tags>>
  BY DEF ScanStops, ScanTornCommit, Scanning, ScanEnds
<1>2. PICK w : Scans(w)
  BY <1>1 DEF FollowInv
<1>3. tags = << >> /\ header.start \in LogBlocks /\ reads \in 0 .. Last
  BY <1>1 DEF FollowInv, WalkInv
<1>4. IsTrail(w, image, header.start) /\ Scanned(w, reads) /\ end' = Tid(header.sequence, w[reads][1])
  BY <1>1, <1>2 DEF Scans
<1>5. Passes(w)'
  BY <1>1, <1>3, <1>4, RewindFollows
<1>6. QED
  BY <1>1, <1>3, <1>5 DEF FollowInv

\* One block on, in a pass that has no tags to go.
LEMMA PassFollows ==
    ASSUME DeviceInv, WalkInv, FollowInv, PassCommit \/ PassSkips \/ RevokeRecords \/ ReplayDescriptor
    PROVE  FollowInv'
<1> USE DEF device, result
<1> DEFINE b == next_block
<1>1. /\ pc \in {"revoke", "replay"} /\ pc' = pc /\ tags = << >> /\ ~tid_geq(next_commit, end)
      /\ UNCHANGED <<image, header, end>> /\ (pc' = "revoke" => tags' = tags)
  BY DEF PassCommit, PassSkips, RevokeRecords, ReplayDescriptor, Passing
<1>2. PICK w : Passes(w)
  BY <1>1 DEF FollowInv
<1>3. PICK K \in 0 .. Last : Scanned(w, K) /\ end = Tid(header.sequence, w[K][1]) /\ \E k \in 0 .. K : At(w, k)
  BY <1>2 DEF Passes
<1>4. PICK k \in 0 .. K : At(w, k)
  BY <1>3
<1>5. IsTrail(w, image, header.start) /\ image \in Images /\ header.sequence \in Tids /\ Last \in Nat /\ b \in LogBlocks
  BY <1>1, <1>2, RecoveryAssumption DEF Passes, DeviceInv, IsHeader, Tids, WalkInv
<1>6. next_commit # end
  <2>1. end \in Tids
    BY DEF WalkInv
  <2>2. QED
    BY <1>1, <1>5, <2>1, TidOrder
<1>7. k < K /\ k \in Nat /\ k \in 0 .. Last - 1 /\ k \in 0 .. Last /\ k + 1 \in 0 .. K /\ k + 1 \in 0 .. Last
  <2>1. next_commit = Tid(header.sequence, w[k][1])
    BY <1>4 DEF At
  <2>2. k < K
    BY <1>3, <1>5, <1>6, <2>1, NotAtEnd
  <2>3. QED
    BY <1>5, <2>2
<1>8. w[k] \in Places /\ w[k][1] \in Nat /\ w[k + 1] = After(image, w[k]) /\ next_commit = Tid(header.sequence, w[k][1])
      /\ w[k][2] = b
  <2>1. Len(tags) = 0 /\ b + 0 = b /\ wrap(b) = b
    BY <1>1, <1>5, Wraps DEF LogBlocks
  <2>2. QED
    BY <1>4, <1>5, <1>7, <2>1 DEF At, IsTrail, Places
<1>9. wrap(b + 1) \in LogBlocks /\ \A x \in LogBlocks : x + 0 = x /\ wrap(x) = x
  BY <1>5, Wraps DEF LogBlocks
<1>10. Len(log[b].tags) \in 0 .. Last - First /\ (log[b].kind = "revoke" => log[b].tags = << >>)
  <2>1. log[b].tags \in Seq(Tag) /\ Len(log[b].tags) <= Last - First /\ (log[b].kind = "revoke" => log[b].tags = << >>)
    BY <1>5, ImageAssumption DEF LogBlocks, log, Tag
  <2>2. Last \in Nat /\ First \in Nat /\ First < Last
    BY RecoveryAssumption
  <2>3. QED
    BY <2>1, <2>2
<1>11. wrap(wrap(b + 1) + Len(log[b].tags)) \in LogBlocks
  BY <1>9, <1>10, Wraps
<1>12. At(w, k + 1)'
  <2>1. CASE PassCommit
    <3>1. log[b].kind = "commit" /\ next_commit' = tid_next(next_commit) /\ next_block' = wrap(b + 1) /\ tags' = << >>
      BY <1>1, <2>1 DEF PassCommit
    <3>2. w[k + 1] = <<w[k][1] + 1, wrap(b + 1)>>
      BY <1>8, <3>1 DEF After, log
    <3>3. next_commit' = Tid(header.sequence, w[k][1] + 1)
      <4>1. tid_next(Tid(header.sequence, w[k][1])) = Tid(header.sequence, w[k][1] + 1)
        BY <1>5, <1>8, TidOrder
      <4>2. QED
        BY <1>8, <3>1, <4>1
    <3>4. Len(tags') = 0 /\ wrap(next_block' + 0) = wrap(b + 1)
      BY <1>9, <3>1
    <3>5. QED
      BY <1>1, <3>2, <3>3, <3>4 DEF At
  <2>2. CASE PassSkips
    <3>1. /\ log[b].kind \in {"descriptor", "revoke"} /\ next_commit' = next_commit /\ tags' = << >>
          /\ next_block' = wrap(wrap(b + 1) + Len(log[b].tags))
      BY <1>1, <2>2 DEF PassSkips
    <3>2. w[k + 1] = <<w[k][1], wrap(wrap(b + 1) + Len(log[b].tags))>>
      BY <1>8, <3>1 DEF After, log
    <3>3. Len(tags') = 0 /\ wrap(next_block' + 0) = next_block'
      BY <1>9, <1>11, <3>1
    <3>4. QED
      BY <1>1, <1>8, <3>1, <3>2, <3>3 DEF At
  <2>3. CASE RevokeRecords
    <3>1. log[b].kind = "revoke" /\ next_commit' = next_commit /\ tags' = << >> /\ next_block' = wrap(b + 1)
      BY <1>1, <2>3 DEF RevokeRecords
    <3>2. w[k + 1] = <<w[k][1], wrap(wrap(b + 1) + Len(log[b].tags))>>
      BY <1>8, <3>1 DEF After, log
    <3>3. Len(tags') = 0 /\ Len(log[b].tags) = 0 /\ wrap(next_block' + 0) = wrap(b + 1) /\ wrap(wrap(b + 1) + 0) = wrap(b + 1)
      BY <1>9, <1>10, <3>1
    <3>4. QED
      BY <1>1, <1>8, <3>1, <3>2, <3>3 DEF At
  <2>4. CASE ReplayDescriptor
    <3>1. log[b].kind = "descriptor" /\ next_commit' = next_commit /\ tags' = log[b].tags /\ next_block' = wrap(b + 1)
      BY <2>4 DEF ReplayDescriptor
    <3>2. w[k + 1] = <<w[k][1], wrap(wrap(b + 1) + Len(log[b].tags))>>
      BY <1>8, <3>1 DEF After, log
    <3>3. QED
      BY <1>1, <1>8, <3>1, <3>2 DEF At
  <2>5. QED
    BY <2>1, <2>2, <2>3, <2>4
<1>13. Scanned(w, K)' /\ IsTrail(w, image, header.start)' /\ (end = Tid(header.sequence, w[K][1]))'
  BY <1>1, <1>3, <1>5 DEF Scanned, Took, checksum_ok, log, IsTrail
<1>14. Passes(w)'
  BY <1>7, <1>12, <1>13 DEF Passes
<1>15. QED
  BY <1>1, <1>14 DEF FollowInv

\* One tag on: the data block is stepped over, whatever becomes of it.
LEMMA TagFollows ==
    ASSUME DeviceInv, WalkInv, FollowInv, ReplayTag
    PROVE  FollowInv'
<1>1. /\ pc = "replay" /\ pc' = "replay" /\ tags # << >> /\ tags' = Tail(tags) /\ next_block' = wrap(next_block + 1)
      /\ UNCHANGED <<image, header, end, next_commit>>
  BY DEF ReplayTag
<1>2. PICK w : Passes(w)
  BY <1>1 DEF FollowInv
<1>3. PICK K \in 0 .. Last : Scanned(w, K) /\ end = Tid(header.sequence, w[K][1]) /\ \E k \in 0 .. K : At(w, k)
  BY <1>2 DEF Passes
<1>4. PICK k \in 0 .. K : At(w, k)
  BY <1>3
<1>5. tags \in Seq(Tag) /\ Len(tags) <= Last - First /\ next_block \in LogBlocks
  BY <1>1 DEF WalkInv
<1>6. Len(tags) \in Nat /\ Len(tags) > 0 /\ Len(tags') = Len(tags) - 1
  BY <1>1, <1>5
<1>7. wrap(next_block' + Len(tags')) = wrap(next_block + Len(tags))
  BY <1>1, <1>5, <1>6, WrapSteps
<1>8. At(w, k)'
  BY <1>1, <1>4, <1>7 DEF At
<1>9. Scanned(w, K)' /\ IsTrail(w, image, header.start)' /\ (end = Tid(header.sequence, w[K][1]))'
  BY <1>1, <1>2, <1>3 DEF Passes, Scanned, Took, checksum_ok, log, IsTrail
<1>10. Passes(w)'
  BY <1>8, <1>9 DEF Passes
<1>11. QED
  BY <1>1, <1>10 DEF FollowInv

\* Each step keeps the passes on scan's trail.
LEMMA FollowStep ==
    ASSUME DeviceInv, WalkInv, FollowInv, Next
    PROVE  FollowInv'
<1> USE DEF device, walk, result
<1>1. CASE (\E m \in Modes : Open(m)) \/ DeviceFails \/ PowerCut
  <2>1. Rest /\ pc' \in {"idle", "done", "unflag", "halt", "clear", "recover"}
    BY <1>1 DEF Open, DeviceFails, PowerCut, Route
  <2>2. tags' = << >> /\ reads' = 0
    BY <2>1 DEF Rest
  <2>3. QED
    BY <2>1, <2>2 DEF FollowInv
<1>2. CASE ClearFlag \/ PreenHalt \/ ClearErrno \/ CarryErrno \/ RecoverEmpty \/ FlushHomes \/ ResetLog \/ FlushReset
           \/ Reload \/ FlushSuperblock \/ Sync \/ ScanFails \/ PassFails
  <2>1. pc' \in {"done", "sync", "carry", "reload", "reset", "settle", "super", "flush"}
    BY <1>2 DEF ClearFlag, PreenHalt, ClearErrno, CarryErrno, RecoverEmpty, FlushHomes, ResetLog, FlushReset,
                Reload, FlushSuperblock, Sync, ScanFails, PassFails, Fail
  <2>2. QED
    BY <2>1 DEF FollowInv
<1>3. CASE RecoverLog
  <2>1. /\ pc = "recover" /\ pc' = "scan" /\ header.start # 0 /\ tags' = tags /\ reads' = reads
        /\ next_commit' = header.sequence /\ next_block' = header.start /\ UNCHANGED <<image, header>>
    BY <1>3 DEF RecoverLog, Rewind
  <2>2. header.start \in LogBlocks /\ header.sequence \in Tids /\ image \in Images
    BY <2>1 DEF DeviceInv, IsHeader, WalkInv, LogBlocks, Tids
  <2>3. tags = << >> /\ reads = 0
    BY <2>1 DEF FollowInv
  <2>4. PICK w : IsTrail(w, image, header.start)
    BY <2>2, TrailExists
  <2>5. w[0] = <<0, header.start>> /\ Tid(header.sequence, 0) = header.sequence
    BY <2>2, <2>4, TidOrder DEF IsTrail
  <2>6. \A j : ~(j \in 0 .. 0 - 1)
    OBVIOUS
  <2>7. Scanned(w, reads)' /\ AllSound(w, reads)'
    BY <2>1, <2>3, <2>6 DEF Scanned, AllSound
  <2>8. IsTrail(w, image, header.start)'
    BY <2>1, <2>4 DEF IsTrail
  <2>9. Scans(w)'
    BY <2>1, <2>3, <2>5, <2>7, <2>8 DEF Scans
  <2>10. QED
    BY <2>1, <2>3, <2>9 DEF FollowInv
<1>4. CASE PassStops
  <2>1. /\ pc \in {"revoke", "replay"} /\ tags = << >> /\ UNCHANGED <<image, header, tags, end>>
        /\ pc' = "flush" \/ (pc = "revoke" /\ pc' = "replay" /\ Rewind)
    BY <1>4 DEF PassStops, Fail
  <2>2. CASE pc' = "flush"
    BY <2>2 DEF FollowInv
  <2>3. CASE pc' = "replay" /\ Rewind
    <3>1. PICK w : Passes(w)
      BY <2>1 DEF FollowInv
    <3>2. PICK K \in 0 .. Last : Scanned(w, K) /\ end = Tid(header.sequence, w[K][1])
      BY <3>1 DEF Passes
    <3>3. IsTrail(w, image, header.start) /\ header.start \in LogBlocks /\ end' = Tid(header.sequence, w[K][1])
      BY <2>1, <3>1, <3>2 DEF Passes, WalkInv
    <3>4. Passes(w)'
      BY <2>1, <2>3, <3>2, <3>3, RewindFollows
    <3>5. QED
      BY <2>3, <3>4 DEF FollowInv
  <2>4. QED
    BY <2>1, <2>2, <2>3
<1>5. QED
  BY <1>1, <1>2, <1>3, <1>4, ScanFollows, ScanEndFollows, PassFollows, TagFollows DEF Next, Step

\* The passes are on the trail of the log throughout.
LEMMA FollowHolds == Spec => []FollowInv
<1>1. Init => FollowInv
  BY DEF Init, FollowInv
<1>2. DeviceInv /\ WalkInv /\ FollowInv /\ [Next]_vars => FollowInv'
  <2>1. CASE Next
    BY <2>1, FollowStep
  <2>2. CASE UNCHANGED vars
    BY <2>2 DEF vars, device, walk, result, FollowInv, Scans, Passes, Scanned, AllSound, Took, At, IsTrail,
                checksum_ok, log
  <2>3. QED
    BY <2>1, <2>2
<1>3. QED
  BY <1>1, <1>2, InvariantsHold, PTL DEF Spec

\* The revoke and the replay pass read the log scan read: neither stops short of `end`, whose sequence number
\* may have run round, and no descriptor they reach fails its checksum, so neither can fail where scan did not
\* (scan, revoke_or_replay).
THEOREM PassesFollow == Spec => []PassesFollowScan
<1>1. DeviceInv /\ WalkInv /\ FollowInv => PassesFollowScan
  <2> SUFFICES ASSUME DeviceInv, WalkInv, FollowInv, pc \in {"revoke", "replay"}, tags = << >>, next_commit # end
               PROVE  /\ ~tid_geq(next_commit, end) /\ Expected(next_block) /\ log[next_block].kind # "other"
                      /\ log[next_block].kind = "descriptor" => checksum_ok(next_block)
    BY DEF PassesFollowScan
  <2>1. PICK w : Passes(w)
    BY DEF FollowInv
  <2>2. PICK K \in 0 .. Last : Scanned(w, K) /\ end = Tid(header.sequence, w[K][1]) /\ \E k \in 0 .. K : At(w, k)
    BY <2>1 DEF Passes
  <2>3. PICK k \in 0 .. K : At(w, k)
    BY <2>2
  <2>4. next_block \in LogBlocks
    BY DEF WalkInv
  <2>5. Len(tags) = 0 /\ next_block + 0 = next_block /\ wrap(next_block) = next_block
    BY <2>4, Wraps DEF LogBlocks
  <2>6. next_commit = Tid(header.sequence, w[k][1]) /\ next_block = w[k][2]
    BY <2>3, <2>5 DEF At
  <2>7. IsTrail(w, image, header.start)
    BY <2>1 DEF Passes
  <2>8. ~tid_geq(next_commit, end) /\ Took(w, k) /\ checksum_ok(w[k][2])
    BY <2>2, <2>6, <2>7, NotAtEnd
  <2>9. QED
    BY <2>6, <2>8 DEF Took, Expected
<1>2. QED
  BY <1>1, InvariantsHold, FollowHolds, PTL

-------------------------------------------------------------------------------
(* A journal is emptied over homes that have what it held *)

\* The log was where it is now, or is empty; once it may be empty it is, and recovery works on what it read.
JournalInv ==
    /\ \A j \in jpend : /\ j.ok = image.jsb.ok
                        /\ j.start # 0 => j.start = image.jsb.start /\ j.sequence = image.jsb.sequence
    /\ (\E j \in jpend : j.start = 0) => jsb.start = 0
    /\ pc \in {"clear", "recover", "scan", "revoke", "replay", "flush", "reset"} => header = jsb
    /\ pc \in {"scan", "revoke", "replay", "flush", "reset"} => jsb.start # 0
    /\ pc \in {"clear", "carry", "settle", "reload", "super"} => jsb.start = 0

Way == Trail(image)

\* Scan ended with the first K blocks of the trail, and the pass is past blocks of complete transactions only.
Ends(K, k) ==
    /\ LogEnds(image, Way, K) /\ Scanned(Way, K) /\ end = Tid(header.sequence, Way[K][1])
    /\ \A j \in 0 .. k - 1 : Complete(Way, K, j)

AtPlace(k) == next_commit = Tid(header.sequence, Way[k][1]) /\ next_block = Way[k][2] /\ tags = << >>

\* The revoke blocks before place k could be read.
LegibleTo(k) ==
    \A j \in 0 .. k - 1 : log[Way[j][2]].kind = "revoke" => log[Way[j][2]].recs # BadCount

\* The revoke table has the latest of the transactions of the places R for a home.
Marks(home, R) ==
    IF R = {} THEN revoked[home] = None
    ELSE \E j \in R : revoked[home] = Tid(header.sequence, Way[j][1]) /\ \A i \in R : Way[i][1] <= Way[j][1]

\* Tag i of the descriptor at place k is next.
InDescriptor(K, k, i) ==
    LET b == Way[k][2]
    IN  /\ k < K /\ Complete(Way, K, k) /\ log[b].kind = "descriptor"
        /\ next_commit = Tid(header.sequence, Way[k][1]) /\ next_block = wrap(wrap(b + 1) + (i - 1))
        /\ i \in 1 .. Len(log[b].tags) /\ Len(tags) = Len(log[b].tags) - i + 1
        /\ \A j \in 1 .. Len(tags) : tags[j] = log[b].tags[(i - 1) + j]

\* Every home has the last of what the log says of it before tag i of place k.
Written(K, k, i) ==
    \A b \in Homes : \A x \in Writes(image, Way, K, b) :
        /\ Before(x, <<k, i>>)
        /\ \A y \in Writes(image, Way, K, b) : Before(y, <<k, i>>) => y = x \/ Before(y, x)
        => disk[b] = Value(image, Way, x)

\* The revoke pass, the replay pass, and what is there once they are through.
RevokeInv ==
    pc = "revoke" => \E K \in 0 .. Last : \E k \in 0 .. K :
        /\ Ends(K, k) /\ AtPlace(k) /\ LegibleTo(k)
        /\ \A b \in Homes : Marks(b, Revokers(image, Way, K, b) \cap 0 .. k - 1)

\* Replay stands where the trail of the log says it does.
ReplayInv ==
    pc = "replay" => \E K \in 0 .. Last : \E k \in 0 .. K : \E i \in 1 .. Last :
        /\ Ends(K, k) /\ ((i = 1 /\ AtPlace(k)) \/ InDescriptor(K, k, i))
        /\ \A b \in Homes : Marks(b, Revokers(image, Way, K, b))
        /\ Written(K, k, i)

\* Whatever the power leaves in a home is what it must be, or the log is still there.
HomesInv ==
    /\ \A b \in Homes : \A v \in dpend[b] :
          Same(b, v, image.goal[b]) \/ (b \in image.logged /\ \A j \in jpend : j.start # 0)
    /\ pc \in {"flush", "reset"} => \A b \in Homes : Same(b, disk[b], image.goal[b])
    /\ pc = "reset" => \A b \in Homes : dpend[b] = {disk[b]}

\* The superblock stays that of a filesystem with a journal, and the copy in memory has the body of the one written.
SuperInv ==
    /\ image.jsb.start # 0 => \A v \in dpend[Super] : v.journal
    /\ pc \in {"unflag", "halt", "clear", "carry", "super"} =>
          sb.body = disk[Super].body /\ (image.jsb.start # 0 => sb.journal)

\* The revoke table has a place for every block, and is empty until the revoke pass.
TableInv ==
    /\ DOMAIN revoked = Homes \cup {Outside}
    /\ pc \in {"recover", "scan"} => \A b \in Homes : revoked[b] = None

\* Nothing fails that could, and the journal's flag goes with its contents.
ExactInv ==
    /\ TableInv
    /\ pc \in {"recover", "scan"} => doubt = FALSE
    /\ pc = "halt" => mode = "preen"
    /\ mode = "repair" /\ image.jsb.ok =>
          /\ pc = "unflag" => jsb.start = 0
          /\ pc \in {"clear", "carry", "super"} => ~sb.recover
          /\ pc \in {"sync", "done"} => jsb.start = 0 /\ ~disk[Super].recover

\* Each step leaves the log where it was, or empty.
LEMMA JournalStep ==
    ASSUME DeviceInv, WalkInv, JournalInv, Next
    PROVE  JournalInv'
<1> USE DEF device
<1>0. jsb \in jpend
  BY DEF DeviceInv
<1>1. ASSUME NEW m \in Modes, Open(m) PROVE JournalInv'
  <2>1. header' = jsb /\ UNCHANGED <<image, jsb, jpend>> /\ pc' = Route(m)
    BY <1>1 DEF Open
  <2>2. Route(m) \in {"done", "unflag", "halt", "clear", "recover"} /\ (Route(m) = "clear" => jsb.start = 0)
    BY DEF Route
  <2>3. QED
    BY <2>1, <2>2 DEF JournalInv
<1>2. CASE DeviceFails
  <2>1. pc' = "idle" /\ UNCHANGED <<image, jsb, jpend>>
    BY <1>2 DEF DeviceFails
  <2>2. QED
    BY <2>1 DEF JournalInv
<1>3. CASE PowerCut
  <2>1. pc' = "idle" /\ image' = image /\ jsb' \in jpend /\ jpend' = {jsb'}
    BY <1>3 DEF PowerCut
  <2>2. QED
    BY <2>1 DEF JournalInv
<1>4. CASE ClearFlag \/ PreenHalt \/ CarryErrno \/ FlushSuperblock \/ Reload \/ RecoverLog \/ ScanStops \/ ScanBlock
           \/ ScanCommit \/ ScanTornCommit \/ ScanFails \/ PassStops \/ PassCommit \/ PassSkips \/ RevokeRecords
           \/ PassFails \/ ReplayDescriptor \/ ReplayTag
  <2>1. /\ UNCHANGED <<image, jsb, jpend, header>>
        /\ \/ pc' \in {"done", "sync"}
           \/ pc = "reload" /\ pc' = "super"
           \/ pc = "recover" /\ pc' = "scan" /\ header.start # 0
           \/ pc \in {"scan", "revoke", "replay"} /\ pc' \in {"scan", "revoke", "replay", "flush"}
    BY <1>4 DEF ClearFlag, PreenHalt, CarryErrno, FlushSuperblock, Reload, RecoverLog, ScanStops, ScanBlock, ScanCommit,
                ScanTornCommit, ScanFails, PassStops, PassCommit, PassSkips, RevokeRecords, PassFails, ReplayDescriptor,
                ReplayTag, Passing, Scanning, Fail, ScanEnds
  <2>2. QED
    BY <2>1 DEF JournalInv
<1>5. CASE FlushHomes \/ FlushReset \/ Sync
  <2>1. /\ jpend' = {jsb} /\ UNCHANGED <<image, jsb, header>>
        /\ \/ pc = "flush" /\ pc' = "reset"
           \/ pc = "settle" /\ pc' = "reload"
           \/ pc' = "done"
    BY <1>5 DEF FlushHomes, FlushReset, Sync, DeviceFlush
  <2>2. QED
    BY <1>0, <2>1 DEF JournalInv
<1>6. CASE ClearErrno
  <2>1. /\ pc = "clear" /\ pc' = "carry" /\ header' = [header EXCEPT !.errno = 0] /\ UNCHANGED image
        /\ jsb' = header' /\ jpend' = jpend \cup {header'}
    BY <1>6 DEF ClearErrno, WriteJsb
  <2>2. header = jsb /\ jsb.start = 0 /\ IsHeader(header)
    BY <2>1 DEF JournalInv, DeviceInv
  <2>3. header'.ok = header.ok /\ header'.start = 0
    BY <2>1, <2>2 DEF IsHeader
  <2>4. QED
    BY <1>0, <2>1, <2>2, <2>3 DEF JournalInv
<1>7. CASE RecoverEmpty \/ ResetLog
  <2>1. PICK sequence : reset(sequence)
    BY <1>7 DEF RecoverEmpty, ResetLog
  <2>2. header' = [header EXCEPT !.sequence = sequence, !.start = 0, !.errno = 0]
        /\ jsb' = header' /\ jpend' = jpend \cup {header'}
    BY <2>1 DEF reset, WriteJsb
  <2>3. image' = image /\ pc \in {"recover", "reset"} /\ pc' \in {"reload", "settle"}
    BY <1>7 DEF RecoverEmpty, ResetLog
  <2>4. header = jsb /\ IsHeader(header)
    BY <2>3 DEF JournalInv, DeviceInv
  <2>5. header'.ok = header.ok /\ header'.start = 0
    BY <2>2, <2>4 DEF IsHeader
  <2>6. QED
    BY <1>0, <2>2, <2>3, <2>4, <2>5 DEF JournalInv
<1>8. QED
  BY <1>1, <1>2, <1>3, <1>4, <1>5, <1>6, <1>7 DEF Next, Step

\* The inductive invariant of the exact replay.
FineInv == RevokeInv /\ ReplayInv /\ HomesInv /\ SuperInv /\ ExactInv

\* Which of two transactions of a log is the later one (tid_gt), and that none is taken for another.
LEMMA TidLater ==
    ASSUME NEW sequence \in Tids, NEW m \in Nat, NEW n \in Nat, m < Last, n < Last
    PROVE  tid_gt(Tid(sequence, n), Tid(sequence, m)) <=> m < n
<1> DEFINE T == TidMod
           H == TidMod \div 2
<1>1. T \in Nat /\ T > 0 /\ H \in Nat /\ T = 2 * H /\ H > 0 /\ Last \in Nat /\ Last <= H
  BY RecoveryAssumption, LogFits
<1>2. \A x \in Int : x % T \in 0 .. T - 1
  BY <1>1
<1> DEFINE x == sequence + m
           y == sequence + n
           a == x % T
           b == y % T
<1>3. x \in Int /\ y \in Int /\ a \in 0 .. T - 1 /\ b \in 0 .. T - 1
  BY <1>1, <1>2 DEF Tids
<1>4. CASE m <= n
  <2> DEFINE d == n - m
  <2>1. d \in Nat /\ d < H /\ y = x + d /\ d < T
    BY <1>1, <1>4 DEF Tids
  <2> HIDE DEF x, y, d
  <2>2. (x + d) % T = (x % T) + d \/ (x + d) % T = (x % T) + d - T
    BY <1>1, <1>3, <2>1, ModAdds
  <2>3. b = a + d \/ b = a + d - T
    BY <2>1, <2>2
  <2> HIDE DEF a, b
  <2>4. (b - a) % T = d
    BY <1>1, <1>3, <2>1, <2>3
  <2>5. (b - a) % T \in 1 .. H - 1 <=> m < n
    BY <1>1, <2>1, <2>4 DEF d
  <2>6. QED
    BY <2>5 DEF tid_gt, Tid, a, b, x, y
<1>5. CASE m > n
  <2> DEFINE d == m - n
  <2>1. d \in Nat /\ d < H /\ x = y + d /\ d < T /\ d > 0
    BY <1>1, <1>5 DEF Tids
  <2> HIDE DEF x, y, d
  <2>2. (y + d) % T = (y % T) + d \/ (y + d) % T = (y % T) + d - T
    BY <1>1, <1>3, <2>1, ModAdds
  <2>3. a = b + d \/ a = b + d - T
    BY <2>1, <2>2
  <2> HIDE DEF a, b
  <2>4. (b - a) % T = T - d
    BY <1>1, <1>3, <2>1, <2>3
  <2>5. (b - a) % T \notin 1 .. H - 1
    BY <1>1, <2>1, <2>4
  <2>6. QED
    BY <1>5, <2>5 DEF tid_gt, Tid, a, b, x, y
<1>6. QED
  BY <1>4, <1>5

\* Two transactions of a log have the same sequence number only if they are the same.
LEMMA TidOne ==
    ASSUME NEW sequence \in Tids, NEW m \in Nat, NEW n \in Nat, m <= n, n <= Last, Tid(sequence, m) = Tid(sequence, n)
    PROVE  m = n
<1> DEFINE T == TidMod
           H == TidMod \div 2
<1>1. T \in Nat /\ T > 0 /\ H \in Nat /\ T = 2 * H /\ H > 0 /\ Last \in Nat /\ Last <= H
  BY RecoveryAssumption, LogFits
<1> DEFINE x == sequence + m
           d == n - m
<1>2. x \in Int /\ x + d = sequence + n /\ d \in Nat /\ d < T
  BY <1>1 DEF Tids
<1>3. (x + d) % T = x % T
  BY <1>2 DEF Tid
<1> HIDE DEF x, d
<1>4. (x + d) % T = (x % T) + d \/ (x + d) % T = (x % T) + d - T
  BY <1>1, <1>2, ModAdds
<1>5. x % T \in Int
  BY <1>1, <1>2
<1>6. d = 0
  BY <1>1, <1>2, <1>3, <1>4, <1>5
<1>7. QED
  BY <1>6 DEF d

\* What holds of the trail while a pass is on it.
LEMMA OnTheWay ==
    ASSUME DeviceInv, WalkInv, JournalInv, pc \in {"scan", "revoke", "replay"}
    PROVE  /\ IsTrail(Way, image, header.start) /\ header.start = image.jsb.start /\ header.sequence = image.jsb.sequence
           /\ image \in Images /\ header.sequence \in Tids /\ image.jsb.start # 0
           /\ Way[0] = <<0, header.start>> /\ Tid(header.sequence, 0) = header.sequence
           /\ \A k \in 0 .. Last : Way[k] \in Places /\ Way[k][1] \in Nat /\ Way[k][2] \in LogBlocks
           /\ \A k \in 0 .. Last - 1 : Way[k + 1] = After(image, Way[k])
           /\ \A k \in 0 .. Last : \A j \in 0 .. k : Way[j][1] <= Way[k][1] /\ Way[k][1] - Way[j][1] <= k - j
<1>1. header = jsb /\ jsb \in jpend /\ jsb.start # 0
  BY DEF JournalInv, DeviceInv
<1>2. header.start = image.jsb.start /\ header.sequence = image.jsb.sequence
  BY <1>1 DEF JournalInv
<1>3. header.start \in LogBlocks /\ image \in Images /\ header.sequence \in Tids
  BY DEF WalkInv, DeviceInv, IsHeader, Tids
<1>4. IsTrail(Way, image, header.start)
  BY <1>2, <1>3, TrailIsTrail DEF Way
<1>5. Tid(header.sequence, 0) = header.sequence
  BY <1>3, TidOrder
<1>6. \A k \in 0 .. Last : Way[k] \in Places /\ Way[k][1] \in Nat /\ Way[k][2] \in LogBlocks
  BY <1>4 DEF IsTrail, Places
<1>7. ASSUME NEW k \in 0 .. Last, NEW j \in 0 .. k
      PROVE  Way[j][1] <= Way[k][1] /\ Way[k][1] - Way[j][1] <= k - j
  <2>1. j \in 0 .. Last /\ k \in j .. Last
    BY RecoveryAssumption
  <2>2. QED
    BY <1>3, <1>4, <2>1, TrailCounts
<1>8. QED
  BY <1>1, <1>2, <1>3, <1>4, <1>5, <1>6, <1>7 DEF IsTrail

\* What scan takes for a block of the log is one.
LEMMA TakenIsTook ==
    ASSUME DeviceInv, WalkInv, JournalInv, pc \in {"scan", "revoke", "replay"}
    PROVE  \A k \in 0 .. Last : Taken(image, Way, k) <=> Took(Way, k)
  BY OnTheWay DEF Taken, Took, log

\* The blocks of an intact log have their checksums.
LEMMA IntactSound ==
    ASSUME Intact
    PROVE  \A b \in LogBlocks : /\ checksum_ok(b) /\ log[b].recs # BadCount
                                /\ \A i \in DOMAIN log[b].tags : log[b].tags[i].home # Outside
  BY DEF Intact, IsIntact, checksum_ok, log, LogBlocks

\* A pass that is not at `end` is at a block of a complete transaction.
LEMMA PassProgress ==
    ASSUME DeviceInv, WalkInv, JournalInv, pc \in {"revoke", "replay"},
           NEW K \in 0 .. Last, NEW k \in 0 .. K, Ends(K, k), AtPlace(k), next_commit # end
    PROVE  /\ ~tid_geq(next_commit, end) /\ k < K /\ k \in 0 .. Last - 1 /\ k + 1 \in 0 .. K /\ k + 1 \in 0 .. Last
           /\ Complete(Way, K, k) /\ Ends(K, k + 1)
           /\ Expected(next_block) /\ log[next_block].kind # "other" /\ checksum_ok(next_block)
<1>0. Last \in Nat /\ k \in 0 .. Last /\ k \in Nat /\ K \in Nat /\ K <= Last
  BY RecoveryAssumption
<1>1. Scanned(Way, K) /\ end = Tid(header.sequence, Way[K][1]) /\ next_commit = Tid(header.sequence, Way[k][1])
      /\ next_block = Way[k][2]
  BY DEF Ends, AtPlace
<1>2. IsTrail(Way, image, header.start)
  BY OnTheWay
<1>3. ~tid_geq(next_commit, end) /\ k < K /\ Took(Way, k) /\ checksum_ok(Way[k][2])
  BY <1>1, <1>2, NotAtEnd
<1>4. Way[k][1] <= Way[K][1] /\ Way[k][1] # Way[K][1] /\ Way[k][1] \in Nat /\ Way[K][1] \in Nat
  BY <1>0, <1>1, OnTheWay
<1>5. Complete(Way, K, k)
  BY <1>4 DEF Complete
<1>6. \A j \in 0 .. (k + 1) - 1 : j = k \/ j \in 0 .. k - 1
  BY <1>0
<1>7. Ends(K, k + 1)
  BY <1>5, <1>6 DEF Ends
<1>8. Expected(next_block) /\ log[next_block].kind # "other" /\ checksum_ok(next_block)
  BY <1>1, <1>3 DEF Took, Expected
<1>9. QED
  BY <1>0, <1>3, <1>5, <1>7, <1>8

\* A pass at `end` has every complete transaction behind it.
LEMMA PassIsThrough ==
    ASSUME DeviceInv, WalkInv, JournalInv, pc \in {"revoke", "replay"},
           NEW K \in 0 .. Last, NEW k \in 0 .. K, Ends(K, k), AtPlace(k), next_commit = end
    PROVE  \A j \in 0 .. K - 1 : Complete(Way, K, j) => j < k
<1>0. Last \in Nat /\ k \in 0 .. Last /\ k \in Nat /\ K \in Nat /\ K <= Last
  BY RecoveryAssumption
<1>1. header.sequence \in Tids
  BY OnTheWay
<1>2. Way[k][1] \in Nat /\ Way[K][1] \in Nat /\ Way[k][1] <= Way[K][1]
  BY <1>0, OnTheWay
<1>3. Way[K][1] <= Last
  <2>1. Way[K][1] - Way[0][1] <= K - 0 /\ Way[0][1] = 0
    BY <1>0, OnTheWay
  <2>2. QED
    BY <1>0, <1>2, <2>1
<1>4. Tid(header.sequence, Way[k][1]) = Tid(header.sequence, Way[K][1])
  BY DEF Ends, AtPlace
<1>5. Way[k][1] = Way[K][1]
  BY <1>1, <1>2, <1>3, <1>4, TidOne
<1>6. ASSUME NEW j \in 0 .. K - 1, Complete(Way, K, j), j >= k PROVE FALSE
  <2>1. j \in 0 .. Last /\ k \in 0 .. j
    BY <1>0, <1>6
  <2>2. Way[k][1] <= Way[j][1] /\ Way[j][1] \in Nat
    BY <2>1, OnTheWay
  <2>3. QED
    BY <1>2, <1>5, <1>6, <2>2 DEF Complete
<1>7. QED
  BY <1>0, <1>6

\* The predicates are about the image, the header and what a step may leave alone.
LEMMA Frames ==
    /\ \A K, k : UNCHANGED <<image, header, end>> /\ Ends(K, k) => Ends(K, k)'
    /\ \A b, R : UNCHANGED <<image, header, revoked>> /\ Marks(b, R) => Marks(b, R)'
    /\ UNCHANGED image => Way' = Way /\ log' = log /\ Intact' = Intact
    /\ \A K, k, i : UNCHANGED <<image, disk>> /\ Written(K, k, i) => Written(K, k, i)'
<1>1. ASSUME NEW K, NEW k, UNCHANGED <<image, header, end>>, Ends(K, k) PROVE Ends(K, k)'
  BY <1>1 DEF Ends, Way, Scanned, Took, checksum_ok, log
<1>2. ASSUME NEW b, NEW R, UNCHANGED <<image, header, revoked>>, Marks(b, R) PROVE Marks(b, R)'
  BY <1>2 DEF Marks, Way
<1>3. UNCHANGED image => Way' = Way /\ log' = log /\ Intact' = Intact
  BY DEF Way, log, Intact
<1>4. ASSUME NEW K, NEW k, NEW i, UNCHANGED <<image, disk>>, Written(K, k, i) PROVE Written(K, k, i)'
  BY <1>4 DEF Written, Way
<1>5. QED
  BY <1>1, <1>2, <1>3, <1>4

\* The end of scan is the end of the log, and the revoke pass starts with nothing revoked.
LEMMA ScanEndFine ==
    ASSUME DeviceInv, WalkInv, JournalInv, FollowInv, TableInv, ScanStops \/ ScanTornCommit,
           reads = Last \/ ~Expected(next_block) \/ log[next_block].kind = "other"
    PROVE  RevokeInv' /\ pc' = "revoke"
<1> USE DEF device
<1>1. pc = "scan" /\ pc' = "revoke" /\ Rewind /\ end' = next_commit /\ UNCHANGED <<image, header, tags, revoked>>
  BY DEF ScanStops, ScanTornCommit, Scanning, ScanEnds
<1>2. PICK w : Scans(w)
  BY <1>1 DEF FollowInv
<1>3. w = Way
  <2>1. IsTrail(w, image, header.start) /\ IsTrail(Way, image, header.start)
    BY <1>1, <1>2, OnTheWay DEF Scans
  <2>2. QED
    BY <2>1, OneTrail
<1>k. PICK K : K = reads
  OBVIOUS
<1>4. K \in 0 .. Last /\ K \in Nat /\ Last \in Nat /\ next_block \in LogBlocks /\ tags = << >> /\ header.start \in LogBlocks
  BY <1>1, <1>k, RecoveryAssumption DEF WalkInv, FollowInv
<1>5. next_commit = Tid(header.sequence, Way[K][1]) /\ next_block = Way[K][2] /\ Scanned(Way, K)
  BY <1>2, <1>3, <1>k DEF Scans
<1>6. \A b \in Homes : revoked[b] = None
  BY <1>1 DEF TableInv
<1>8. LogEnds(image, Way, K)
  <2>1. \A j \in 0 .. K - 1 : j \in 0 .. Last /\ Took(Way, j)
    BY <1>4, <1>5 DEF Scanned
  <2>2. \A j \in 0 .. K - 1 : Taken(image, Way, j)
    BY <1>1, <2>1, TakenIsTook
  <2>3. ASSUME K < Last PROVE ~Taken(image, Way, K)
    <3>1. ~Took(Way, K)
      BY <1>4, <1>5, <1>k, <2>3 DEF Took, Expected
    <3>2. QED
      BY <1>1, <1>4, <3>1, TakenIsTook
  <2>4. QED
    BY <2>2, <2>3 DEF LogEnds
<1>9. next_commit' = header.sequence /\ next_block' = header.start /\ tags' = << >>
  BY <1>1, <1>4 DEF Rewind
<1>10. AtPlace(0)'
  BY <1>1, <1>9, OnTheWay, Frames DEF AtPlace
<1>11. Ends(K, 0)'
  <2>1. \A j : ~(j \in 0 .. 0 - 1)
    OBVIOUS
  <2>2. QED
    <3>1. Scanned(Way, K)'
      BY <1>1, <1>5, Frames DEF Scanned, Took, checksum_ok
    <3>2. QED
      BY <1>1, <1>5, <1>8, <2>1, <3>1, Frames DEF Ends
<1>12. \A b \in Homes : Marks(b, Revokers(image, Way, K, b) \cap 0 .. 0 - 1)'
  <2> SUFFICES ASSUME NEW b \in Homes PROVE Marks(b, Revokers(image, Way, K, b) \cap 0 .. 0 - 1)'
    OBVIOUS
  <2>1. Revokers(image, Way, K, b)' \cap 0 .. 0 - 1 = {}
    OBVIOUS
  <2>2. revoked'[b] = None
    BY <1>1, <1>6
  <2>3. QED
    BY <2>1, <2>2 DEF Marks
<1>13. K \in 0 .. Last /\ 0 \in 0 .. K
  BY <1>4
<1>14. RevokeInv'
  <2>1. \E L \in 0 .. Last : \E k \in 0 .. L :
           /\ Ends(L, k)' /\ AtPlace(k)' /\ LegibleTo(k)'
           /\ \A b \in Homes : Marks(b, Revokers(image, Way, L, b) \cap 0 .. k - 1)'
    <3>1. LegibleTo(0)'
      BY DEF LegibleTo
    <3>2. QED
      BY <1>10, <1>11, <1>12, <1>13, <3>1
  <2>2. QED
    BY <2>1 DEF RevokeInv
<1>15. QED
  BY <1>1, <1>14

\* Where a pass gets with one block, whichever it is; a descriptor whose tags are to be replayed apart.
LEMMA PassMoves ==
    ASSUME DeviceInv, WalkInv, JournalInv, PassCommit \/ PassSkips \/ RevokeRecords,
           NEW K \in 0 .. Last, NEW k \in 0 .. K, Ends(K, k), AtPlace(k)
    PROVE  /\ k + 1 \in 0 .. K /\ Complete(Way, K, k) /\ Ends(K, k + 1)' /\ AtPlace(k + 1)'
           /\ UNCHANGED <<image, header, end, pc, disk>>
<1> USE DEF device, result
<1> DEFINE b == next_block
<1>1. /\ pc \in {"revoke", "replay"} /\ ~tid_geq(next_commit, end) /\ tags = << >>
      /\ UNCHANGED <<image, header, end, pc, disk, tags>>
  BY DEF PassCommit, PassSkips, RevokeRecords, Passing
<1>2. header.sequence \in Tids /\ image \in Images /\ b \in LogBlocks /\ end \in Tids
  BY <1>1, OnTheWay DEF WalkInv
<1>3. next_commit # end
  BY <1>1, <1>2, TidOrder
<1>4. k + 1 \in 0 .. K /\ k \in 0 .. Last - 1 /\ k \in 0 .. Last /\ Complete(Way, K, k) /\ Ends(K, k + 1)
  <2>1. k \in 0 .. Last
    BY RecoveryAssumption
  <2>2. QED
    BY <1>1, <1>3, <2>1, PassProgress
<1>5. Ends(K, k + 1)'
  BY <1>1, <1>4, Frames
<1>6. /\ Way[k + 1] = After(image, Way[k]) /\ Way[k][1] \in Nat /\ Way[k][2] = b
      /\ next_commit = Tid(header.sequence, Way[k][1]) /\ Way' = Way
  BY <1>1, <1>4, OnTheWay, Frames DEF AtPlace
<1>7. tid_next(Tid(header.sequence, Way[k][1])) = Tid(header.sequence, Way[k][1] + 1)
  BY <1>2, <1>6, TidOrder
<1>8. wrap(b + 1) \in LogBlocks /\ \A x \in LogBlocks : x + 0 = x /\ wrap(x) = x
  BY <1>2, Wraps DEF LogBlocks
<1>9. log[b].kind = "revoke" => log[b].tags = << >>
  BY <1>2, ImageAssumption DEF LogBlocks, log
<1>10. next_commit' = Tid(header.sequence, Way[k + 1][1]) /\ next_block' = Way[k + 1][2]
  <2>1. CASE PassCommit
    <3>1. log[b].kind = "commit" /\ next_commit' = tid_next(next_commit) /\ next_block' = wrap(b + 1)
      BY <2>1 DEF PassCommit
    <3>2. Way[k + 1] = <<Way[k][1] + 1, wrap(b + 1)>>
      BY <1>6, <3>1 DEF After, log
    <3>3. QED
      BY <1>6, <1>7, <3>1, <3>2
  <2>2. CASE PassSkips
    <3>1. /\ log[b].kind \in {"descriptor", "revoke"} /\ next_commit' = next_commit
          /\ next_block' = wrap(wrap(b + 1) + Len(log[b].tags))
      BY <2>2 DEF PassSkips
    <3>2. Way[k + 1] = <<Way[k][1], wrap(wrap(b + 1) + Len(log[b].tags))>>
      BY <1>6, <3>1 DEF After, log
    <3>3. QED
      BY <1>6, <3>1, <3>2
  <2>3. CASE RevokeRecords
    <3>1. log[b].kind = "revoke" /\ next_commit' = next_commit /\ next_block' = wrap(b + 1)
      BY <2>3 DEF RevokeRecords
    <3>2. Way[k + 1] = <<Way[k][1], wrap(wrap(b + 1) + Len(log[b].tags))>>
      BY <1>6, <3>1 DEF After, log
    <3>3. Len(log[b].tags) = 0 /\ wrap(wrap(b + 1) + 0) = wrap(b + 1)
      BY <1>8, <1>9, <3>1
    <3>4. QED
      BY <1>6, <3>1, <3>2, <3>3
  <2>4. QED
    BY <2>1, <2>2, <2>3
<1>11. AtPlace(k + 1)'
  BY <1>1, <1>6, <1>10 DEF AtPlace
<1>12. QED
  BY <1>1, <1>4, <1>5, <1>11

\* One more place in the revoke table: its transaction is the latest so far (revoke_records).
LEMMA MarksOneMore ==
    ASSUME DeviceInv, WalkInv, JournalInv, pc = "revoke", NEW K \in 0 .. Last, NEW k \in 0 .. K - 1,
           Complete(Way, K, k), next_commit = Tid(header.sequence, Way[k][1]), NEW b \in Homes,
           UNCHANGED <<image, header>>,
           revoked'[b] = IF k \in Revokers(image, Way, K, b) /\ (revoked[b] = None \/ tid_gt(next_commit, revoked[b]))
                         THEN next_commit ELSE revoked[b],
           Marks(b, Revokers(image, Way, K, b) \cap 0 .. k - 1)
    PROVE  Marks(b, Revokers(image, Way, K, b) \cap 0 .. (k + 1) - 1)'
<1> DEFINE R == Revokers(image, Way, K, b)
           S == R \cap 0 .. k - 1
           U == R \cap 0 .. (k + 1) - 1
<1>0. Last \in Nat /\ K \in Nat /\ K <= Last /\ k \in Nat /\ k \in 0 .. Last /\ K \in 0 .. Last /\ header.sequence \in Tids
  BY RecoveryAssumption, OnTheWay
<1>1. Way' = Way /\ R' = R /\ U' = U
  BY Frames
<1>2. U = IF k \in R THEN S \cup {k} ELSE S
  <2>1. \A j : j \in U <=> j \in R /\ (j = k \/ j \in S)
    BY <1>0
  <2>2. QED
    BY <2>1
<1>3. \A j \in S : j \in 0 .. k /\ j \in 0 .. Last /\ Way[j][1] <= Way[k][1] /\ Way[j][1] \in Nat /\ Way[k][1] \in Nat
  BY <1>0, OnTheWay
<1>4. Way[k][1] \in Nat /\ Way[k][1] < Last
  <2>1. Way[k][1] \in Nat /\ Way[K][1] \in Nat /\ Way[K][1] - Way[0][1] <= K - 0 /\ Way[0][1] = 0
    BY <1>0, OnTheWay
  <2>2. Way[k][1] < Way[K][1]
    BY DEF Complete
  <2>3. QED
    BY <1>0, <2>1, <2>2
<1> HIDE DEF R, S, U
<1>5. Marks(b, S)
  BY DEF S, R
<1>6. CASE k \notin R
  <2>1. revoked'[b] = revoked[b] /\ U = S
    BY <1>2, <1>6 DEF R
  <2>2. QED
    BY <1>1, <1>5, <2>1 DEF Marks, U, R
<1>7. CASE k \in R
  <2>1. U = S \cup {k} /\ U # {} /\ k \in U
    BY <1>2, <1>7
  <2>2. CASE S = {}
    <3>1. revoked[b] = None
      BY <1>5, <2>2 DEF Marks
    <3>2. revoked'[b] = next_commit
      BY <1>7, <3>1 DEF R
    <3>3. \A i \in U : Way[i][1] <= Way[k][1]
      BY <1>4, <2>1, <2>2
    <3>4. QED
      BY <1>1, <2>1, <3>2, <3>3 DEF Marks, U, R
  <2>3. CASE S # {}
    <3>1. PICK j \in S : revoked[b] = Tid(header.sequence, Way[j][1]) /\ \A i \in S : Way[i][1] <= Way[j][1]
      BY <1>5, <2>3 DEF Marks
    <3>2. Way[j][1] \in Nat /\ Way[j][1] <= Way[k][1] /\ Way[j][1] < Last
      BY <1>0, <1>3, <1>4
    <3>3. revoked[b] # None
      <4>1. Tid(header.sequence, Way[j][1]) \in Tids
        BY <1>0, <3>2, TidOrder
      <4>2. QED
        BY <3>1, <4>1, RecoveryAssumption DEF Tids
    <3>4. tid_gt(next_commit, revoked[b]) <=> Way[j][1] < Way[k][1]
      BY <1>0, <1>4, <3>1, <3>2, TidLater
    <3>5. CASE Way[j][1] < Way[k][1]
      <4>1. revoked'[b] = next_commit
        BY <1>7, <3>4, <3>5 DEF R
      <4>2. \A i \in U : Way[i][1] <= Way[k][1]
        BY <1>3, <1>4, <2>1
      <4>3. QED
        BY <1>1, <2>1, <4>1, <4>2 DEF Marks, U, R
    <3>6. CASE ~(Way[j][1] < Way[k][1])
      <4>1. revoked'[b] = revoked[b]
        BY <3>3, <3>4, <3>6
      <4>2. Way[k][1] = Way[j][1]
        BY <1>4, <3>2, <3>6
      <4>3. \A i \in U : Way[i][1] <= Way[j][1]
        BY <1>4, <2>1, <3>1, <4>2
      <4>4. j \in U
        BY <2>1
      <4>5. QED
        BY <1>1, <2>1, <3>1, <4>1, <4>3, <4>4 DEF Marks, U, R
    <3>7. QED
      BY <3>5, <3>6
  <2>4. QED
    BY <2>2, <2>3
<1>8. QED
  BY <1>6, <1>7

\* The revoke pass, one block on.
LEMMA RevokeFine ==
    ASSUME DeviceInv, WalkInv, JournalInv, RevokeInv, TableInv, pc = "revoke",
           PassCommit \/ PassSkips \/ RevokeRecords
    PROVE  RevokeInv' /\ UNCHANGED <<image, header, pc, disk>>
<1> USE DEF device, result
<1>1. PICK K \in 0 .. Last : \E k \in 0 .. K :
         /\ Ends(K, k) /\ AtPlace(k) /\ LegibleTo(k)
         /\ \A b \in Homes : Marks(b, Revokers(image, Way, K, b) \cap 0 .. k - 1)
  BY DEF RevokeInv
<1>2. PICK k \in 0 .. K :
         /\ Ends(K, k) /\ AtPlace(k) /\ LegibleTo(k)
         /\ \A b \in Homes : Marks(b, Revokers(image, Way, K, b) \cap 0 .. k - 1)
  BY <1>1
<1>3. /\ k + 1 \in 0 .. K /\ Complete(Way, K, k) /\ Ends(K, k + 1)' /\ AtPlace(k + 1)'
      /\ UNCHANGED <<image, header, end, pc, disk>>
  BY <1>2, PassMoves
<1>4. k \in 0 .. K - 1 /\ next_commit = Tid(header.sequence, Way[k][1]) /\ next_block = Way[k][2]
  BY <1>2, <1>3, RecoveryAssumption DEF AtPlace
<1>5. ASSUME NEW b \in Homes PROVE Marks(b, Revokers(image, Way, K, b) \cap 0 .. (k + 1) - 1)'
  <2> DEFINE R == Revokers(image, Way, K, b)
  <2>1. k \in R <=> log[next_block].kind = "revoke" /\ b \in log[next_block].recs
    BY <1>3, <1>4 DEF Revokers, log
  <2>2. revoked'[b] = IF k \in R /\ (revoked[b] = None \/ tid_gt(next_commit, revoked[b]))
                      THEN next_commit ELSE revoked[b]
    <3>1. CASE PassCommit \/ PassSkips
      <4>1. log[next_block].kind # "revoke" /\ revoked' = revoked
        BY <3>1 DEF PassCommit, PassSkips, Passing
      <4>2. QED
        BY <2>1, <4>1
    <3>2. CASE RevokeRecords
      <4> HIDE DEF R
      <4>1. log[next_block].kind = "revoke" /\ b \in DOMAIN revoked
            /\ revoked' = [c \in DOMAIN revoked |->
                              IF c \in log[next_block].recs
                                 /\ (revoked[c] = None \/ tid_gt(next_commit, revoked[c]))
                              THEN next_commit ELSE revoked[c]]
        BY <3>2 DEF RevokeRecords, TableInv
      <4>2. revoked'[b] = IF b \in log[next_block].recs /\ (revoked[b] = None \/ tid_gt(next_commit, revoked[b]))
                          THEN next_commit ELSE revoked[b]
        BY <4>1
      <4>3. QED
        BY <2>1, <4>1, <4>2
    <3>3. QED
      BY <3>1, <3>2
  <2>3. QED
    BY <1>2, <1>3, <1>4, <2>2, MarksOneMore
<1>6. RevokeInv'
  <2>1. \E L \in 0 .. Last : \E l \in 0 .. L :
           /\ Ends(L, l)' /\ AtPlace(l)' /\ LegibleTo(l)'
           /\ \A b \in Homes : Marks(b, Revokers(image, Way, L, b) \cap 0 .. l - 1)'
    <3>1. log[next_block].kind = "revoke" => log[next_block].recs # BadCount
      BY DEF PassCommit, PassSkips, RevokeRecords, Passing
    <3>2. \A j \in 0 .. (k + 1) - 1 : j = k \/ j \in 0 .. k - 1
      BY <1>4
    <3>3. LegibleTo(k + 1)
      BY <1>2, <1>4, <3>1, <3>2 DEF LegibleTo
    <3>4. LegibleTo(k + 1)'
      BY <1>3, <3>3, Frames DEF LegibleTo
    <3>5. QED
      BY <1>3, <1>5, <3>4
  <2>2. QED
    BY <2>1 DEF RevokeInv
<1>7. QED
  BY <1>3, <1>6

\* A log has one end.
LEMMA OneEnd ==
    ASSUME NEW im, NEW w, NEW K \in 0 .. Last, NEW L \in 0 .. Last, LogEnds(im, w, K), LogEnds(im, w, L)
    PROVE  L = K
<1>0. Last \in Nat /\ K \in Nat /\ L \in Nat /\ K <= Last /\ L <= Last
  BY RecoveryAssumption
<1>1. ~(K < L)
  <2> SUFFICES ASSUME K < L PROVE FALSE
    OBVIOUS
  <2>1. K \in 0 .. L - 1 /\ K < Last
    BY <1>0
  <2>2. QED
    BY <2>1 DEF LogEnds
<1>2. ~(L < K)
  <2> SUFFICES ASSUME L < K PROVE FALSE
    OBVIOUS
  <2>1. L \in 0 .. K - 1 /\ L < Last
    BY <1>0
  <2>2. QED
    BY <2>1 DEF LogEnds
<1>3. QED
  BY <1>0, <1>1, <1>2

\* The revoke pass ends at `end`, with the whole table; the replay starts with nothing written.
LEMMA RevokeEndFine ==
    ASSUME DeviceInv, WalkInv, JournalInv, RevokeInv, pc = "revoke", PassStops
    PROVE  ReplayInv' /\ IsLegible(image) /\ pc' = "replay" /\ UNCHANGED <<image, header, disk>>
<1> USE DEF device
<1>1. PICK K \in 0 .. Last : \E k \in 0 .. K :
         /\ Ends(K, k) /\ AtPlace(k) /\ LegibleTo(k)
         /\ \A b \in Homes : Marks(b, Revokers(image, Way, K, b) \cap 0 .. k - 1)
  BY DEF RevokeInv
<1>2. PICK k \in 0 .. K :
         /\ Ends(K, k) /\ AtPlace(k) /\ LegibleTo(k)
         /\ \A b \in Homes : Marks(b, Revokers(image, Way, K, b) \cap 0 .. k - 1)
  BY <1>1
<1>3. UNCHANGED <<image, header, end, tags, revoked, disk>> /\ tags = << >>
  BY DEF PassStops
<1>4. next_commit = end
  <2>1. SUFFICES ASSUME next_commit # end PROVE FALSE
    OBVIOUS
  <2>2. ~tid_geq(next_commit, end) /\ Expected(next_block) /\ log[next_block].kind # "other"
    BY <1>2, <2>1, PassProgress
  <2>3. QED
    BY <2>2 DEF PassStops
<1>5. pc' = "replay" /\ next_commit' = header.sequence /\ next_block' = header.start
  BY <1>4 DEF PassStops, Rewind
<1>6. Way' = Way /\ Way[0] = <<0, header.start>> /\ Tid(header.sequence, 0) = header.sequence
  BY <1>3, Frames, OnTheWay
<1>7. AtPlace(0)'
  BY <1>3, <1>5, <1>6 DEF AtPlace
<1>8. Ends(K, 0)'
  <2>1. \A j : ~(j \in 0 .. 0 - 1)
    OBVIOUS
  <2>2. Ends(K, 0)
    BY <1>2, <2>1 DEF Ends
  <2>3. QED
    BY <1>3, <2>2, Frames
<1>9. ASSUME NEW b \in Homes PROVE Marks(b, Revokers(image, Way, K, b))'
  <2>1. \A j \in 0 .. K - 1 : Complete(Way, K, j) => j < k
    BY <1>2, <1>4, PassIsThrough
  <2>2. \A j \in Revokers(image, Way, K, b) : j \in 0 .. k - 1
    BY <2>1 DEF Revokers
  <2>3. Revokers(image, Way, K, b) \cap 0 .. k - 1 = Revokers(image, Way, K, b)
    BY <2>2
  <2>4. Marks(b, Revokers(image, Way, K, b))
    BY <1>2, <2>3
  <2>5. QED
    BY <1>3, <1>6, <2>4 DEF Marks
<1>10. Written(K, 0, 1)'
  <2> SUFFICES ASSUME NEW b \in Homes, NEW x \in Writes(image', Way', K, b) PROVE ~Before(x, <<0, 1>>)
    BY DEF Written
  <2>1. x[1] \in 0 .. K - 1 /\ x[2] \in 1 .. Last - First
    BY DEF Writes
  <2>2. QED
    BY <2>1, RecoveryAssumption DEF Before
<1>11. ReplayInv'
  <2>1. 0 \in 0 .. K /\ 1 \in 1 .. Last
    BY RecoveryAssumption
  <2>2. \E L \in 0 .. Last : \E l \in 0 .. L : \E i \in 1 .. Last :
           /\ Ends(L, l)' /\ ((i = 1 /\ AtPlace(l)') \/ InDescriptor(L, l, i)')
           /\ \A b \in Homes : Marks(b, Revokers(image, Way, L, b))'
           /\ Written(L, l, i)'
    BY <1>7, <1>8, <1>9, <1>10, <2>1
  <2>3. QED
    BY <2>2 DEF ReplayInv
<1>12. IsLegible(image)
  <2> SUFFICES ASSUME NEW L \in 0 .. Last, LogEnds(image, Way, L), NEW j \in 0 .. L - 1, NEW b \in First .. Last - 1,
                      b = Way[j][2], Complete(Way, L, j), image.log[b].kind = "revoke"
               PROVE  image.log[b].recs # BadCount
    BY DEF IsLegible, Way
  <2>1. L = K
    BY <1>2, OneEnd DEF Ends
  <2>2. j \in 0 .. K - 1 /\ j < k
    BY <1>2, <1>4, <2>1, PassIsThrough
  <2>3. j \in 0 .. k - 1
    BY <2>2
  <2>4. QED
    BY <1>2, <2>3 DEF LegibleTo, log
<1>13. QED
  BY <1>3, <1>5, <1>11, <1>12

\* One tag more is done with: its home has what it says, if it is not revoked, and the others what they had.
LEMMA WrittenGrows ==
    ASSUME NEW K \in Nat, NEW k \in Nat, NEW i \in Nat, NEW l \in Nat, NEW j \in Nat, image' = image, Written(K, k, i),
           \A b \in Homes : \A x \in Writes(image, Way, K, b) :
               Before(x, <<l, j>>) => Before(x, <<k, i>>) \/ x = <<k, i>>,
           \A b \in Homes : \A x \in Writes(image, Way, K, b) : Before(x, <<k, i>>) => Before(x, <<l, j>>),
           Before(<<k, i>>, <<l, j>>),
           \A b \in Homes : disk'[b] = IF <<k, i>> \in Writes(image, Way, K, b)
                                       THEN Value(image, Way, <<k, i>>) ELSE disk[b]
    PROVE  Written(K, l, j)'
<1>1. Way' = Way
  BY Frames
<1> SUFFICES ASSUME NEW b \in Homes, NEW x \in Writes(image, Way, K, b), Before(x, <<l, j>>),
                    \A y \in Writes(image, Way, K, b) : Before(y, <<l, j>>) => y = x \/ Before(y, x)
             PROVE  disk'[b] = Value(image, Way, x)
  BY <1>1 DEF Written
<1> DEFINE X == Writes(image, Way, K, b)
           p == <<k, i>>
<1>2. CASE p \in X
  <2>1. disk'[b] = Value(image, Way, p)
    BY <1>2
  <2>2. p = x \/ Before(p, x)
    BY <1>2
  <2>3. CASE Before(p, x)
    <3>1. ~Before(x, p) /\ x # p
      <4>1. x \in (0 .. K - 1) \X (1 .. Last - First)
        BY DEF Writes
      <4>2. x = <<x[1], x[2]>> /\ x[1] \in Int /\ x[2] \in Int
        BY <4>1, RecoveryAssumption
      <4>3. p[1] = k /\ p[2] = i
        OBVIOUS
      <4>4. QED
        BY <2>3, <4>2, <4>3 DEF Before
    <3>2. QED
      BY <3>1
  <2>4. QED
    BY <2>1, <2>2, <2>3
<1>3. CASE p \notin X
  <2>1. disk'[b] = disk[b]
    BY <1>3
  <2>2. Before(x, p)
    BY <1>3
  <2>3. \A y \in X : Before(y, p) => y = x \/ Before(y, x)
    OBVIOUS
  <2>4. disk[b] = Value(image, Way, x)
    BY <2>2, <2>3 DEF Written
  <2>5. QED
    BY <2>1, <2>4
<1>4. QED
  BY <1>2, <1>3

\* Where the replay is.
ReplayAt(K, k, i) ==
    /\ Ends(K, k) /\ ((i = 1 /\ AtPlace(k)) \/ InDescriptor(K, k, i))
    /\ \A b \in Homes : Marks(b, Revokers(image, Way, K, b))
    /\ Written(K, k, i)

\* It is somewhere, and at a place of its own when there are no tags to go.
LEMMA ReplayIsAt ==
    ASSUME DeviceInv, WalkInv, JournalInv, ReplayInv, pc = "replay"
    PROVE  \E K \in 0 .. Last : \E k \in 0 .. K : \E i \in 1 .. Last :
              ReplayAt(K, k, i) /\ (tags = << >> => i = 1 /\ AtPlace(k)) /\ (tags # << >> => InDescriptor(K, k, i))
<1>1. PICK K \in 0 .. Last : \E k \in 0 .. K : \E i \in 1 .. Last : ReplayAt(K, k, i)
  BY DEF ReplayInv, ReplayAt
<1>2. PICK k \in 0 .. K : \E i \in 1 .. Last : ReplayAt(K, k, i)
  BY <1>1
<1>3. PICK i \in 1 .. Last : ReplayAt(K, k, i)
  BY <1>2
<1>4. AtPlace(k) => tags = << >>
  BY DEF AtPlace
<1>5. InDescriptor(K, k, i) => tags # << >>
  <2> SUFFICES ASSUME InDescriptor(K, k, i), tags = << >> PROVE FALSE
    OBVIOUS
  <2> DEFINE n == Len(log[Way[k][2]].tags)
  <2>1. i \in 1 .. n /\ 0 = n - i + 1
    BY DEF InDescriptor
  <2>2. n \in Nat
    <3>1. k \in 0 .. Last
      BY RecoveryAssumption
    <3>2. Way[k][2] \in LogBlocks /\ image \in Images
      BY <3>1, OnTheWay
    <3>3. log[Way[k][2]].tags \in Seq(Tag)
      BY <3>2, ImageAssumption DEF LogBlocks, Tag, log
    <3>4. QED
      BY <3>3
  <2> HIDE DEF n
  <2>3. QED
    BY <2>1, <2>2
<1>6. QED
  BY <1>3, <1>4, <1>5 DEF ReplayAt

\* And what its invariant takes.
LEMMA ReplayAtThen ==
    ASSUME NEW K \in 0 .. Last, NEW k \in 0 .. K, NEW i \in 1 .. Last, ReplayAt(K, k, i)'
    PROVE  ReplayInv'
  BY DEF ReplayInv, ReplayAt

\* The tags of a log that survive are numbered by place and tag.
LEMMA WritesAreNumbered ==
    ASSUME NEW im, NEW w, NEW K \in Nat, NEW home, NEW x \in Writes(im, w, K, home)
    PROVE  x = <<x[1], x[2]>> /\ x[1] \in Nat /\ x[2] \in Nat /\ x[1] < K /\ x[2] > 0
<1>1. x \in (0 .. K - 1) \X (1 .. Last - First)
  BY DEF Writes
<1>2. QED
  BY <1>1, RecoveryAssumption

\* The replay past a commit or a revoke block, or a descriptor without tags: nothing is written at such a place.
LEMMA NothingWritten ==
    ASSUME NEW K \in Nat, NEW k \in Nat, Written(K, k, 1), UNCHANGED <<image, disk>>,
           \A b \in Homes : \A x \in Writes(image, Way, K, b) : x[1] # k
    PROVE  Written(K, k + 1, 1)'
<1>1. \A b \in Homes : <<k, 1>> \notin Writes(image, Way, K, b)
  OBVIOUS
<1>2. ASSUME NEW b \in Homes, NEW x \in Writes(image, Way, K, b)
      PROVE  /\ Before(x, <<k + 1, 1>>) => Before(x, <<k, 1>>) \/ x = <<k, 1>>
             /\ Before(x, <<k, 1>>) => Before(x, <<k + 1, 1>>)
  <2>1. x[1] \in Nat /\ x[2] \in Nat /\ x[2] > 0 /\ x[1] # k
    BY WritesAreNumbered
  <2>2. QED
    BY <2>1 DEF Before
<1>3. Before(<<k, 1>>, <<k + 1, 1>>)
  BY DEF Before
<1>4. \A b \in Homes : disk'[b] = IF <<k, 1>> \in Writes(image, Way, K, b)
                                  THEN Value(image, Way, <<k, 1>>) ELSE disk[b]
  BY <1>1
<1>5. k + 1 \in Nat /\ 1 \in Nat
  OBVIOUS
<1>6. QED
  BY <1>2, <1>3, <1>4, <1>5, WrittenGrows

\* The replay pass, past a block it writes nothing for.
LEMMA ReplayBlockFine ==
    ASSUME DeviceInv, WalkInv, JournalInv, ReplayInv, pc = "replay", PassCommit \/ PassSkips
    PROVE  ReplayInv' /\ UNCHANGED <<image, header, pc, disk>>
<1>1. tags = << >> /\ revoked' = revoked /\ log[next_block].kind # "descriptor"
  BY DEF PassCommit, PassSkips, Passing, result
<1>2. PICK K \in 0 .. Last : \E k \in 0 .. K : \E i \in 1 .. Last :
              ReplayAt(K, k, i) /\ (tags = << >> => i = 1 /\ AtPlace(k))
  BY ReplayIsAt
<1>3. PICK k \in 0 .. K : ReplayAt(K, k, 1) /\ AtPlace(k)
  BY <1>1, <1>2
<1>4. /\ k + 1 \in 0 .. K /\ Ends(K, k + 1)' /\ AtPlace(k + 1)'
      /\ UNCHANGED <<image, header, end, pc, disk>>
  BY <1>3, PassMoves DEF ReplayAt
<1>5. \A b \in Homes : Marks(b, Revokers(image, Way, K, b))'
  <2>1. Way' = Way
    BY <1>4, Frames
  <2>2. QED
    BY <1>1, <1>3, <1>4, <2>1, Frames DEF ReplayAt, Marks
<1>6. Written(K, k + 1, 1)'
  <2>1. \A b \in Homes : \A x \in Writes(image, Way, K, b) : x[1] # k
    BY <1>1, <1>3 DEF Writes, AtPlace, log
  <2>2. K \in Nat /\ k \in Nat
    OBVIOUS
  <2>3. QED
    BY <1>3, <1>4, <2>1, <2>2, NothingWritten DEF ReplayAt
<1>7. ReplayAt(K, k + 1, 1)'
  BY <1>4, <1>5, <1>6 DEF ReplayAt
<1>8. 1 \in 1 .. Last
  BY RecoveryAssumption
<1>9. QED
  BY <1>4, <1>7, <1>8, ReplayAtThen

\* A descriptor of the log: its tags are numbered, and each names a home or a block past the last.
LEMMA DescriptorTags ==
    ASSUME DeviceInv, WalkInv, JournalInv, pc = "replay", NEW k \in 0 .. Last
    PROVE  LET T == log[Way[k][2]].tags
           IN  /\ T \in Seq(Tag) /\ Len(T) \in 0 .. Last - First /\ DOMAIN T = 1 .. Len(T)
               /\ \A i \in 1 .. Len(T) : T[i] \in Tag /\ T[i].home \in Homes \cup {Outside}
<1> DEFINE b == Way[k][2]
           T == log[b].tags
<1>1. b \in LogBlocks /\ image \in Images
  BY OnTheWay
<1>2. T \in Seq(Tag) /\ Len(T) <= Last - First
  BY <1>1, ImageAssumption DEF LogBlocks, Tag, log
<1>3. Len(T) \in 0 .. Last - First /\ DOMAIN T = 1 .. Len(T) /\ \A i \in 1 .. Len(T) : T[i] \in Tag
  BY <1>2, RecoveryAssumption
<1> HIDE DEF T
<1>5. ASSUME NEW i \in 1 .. Len(T) PROVE T[i] \in Tag /\ T[i].home \in Homes \cup {Outside}
  BY <1>3 DEF Tag
<1>6. QED
  BY <1>2, <1>3, <1>5 DEF T

\* The replay at a descriptor: its first tag is next.
LEMMA DescriptorFine ==
    ASSUME DeviceInv, WalkInv, JournalInv, ReplayInv, ReplayDescriptor
    PROVE  ReplayInv' /\ pc = "replay" /\ UNCHANGED <<image, header, pc, disk>>
<1> USE DEF device
<1> DEFINE b == next_block
           T == log[b].tags
<1>1. /\ pc = "replay" /\ tags = << >> /\ ~tid_geq(next_commit, end)
      /\ log[b].kind = "descriptor" /\ tags' = T /\ next_block' = wrap(b + 1)
      /\ UNCHANGED <<image, header, pc, disk, revoked, end, next_commit>>
  BY DEF ReplayDescriptor, Passing
<1>2. PICK K \in 0 .. Last : \E k \in 0 .. K : \E i \in 1 .. Last :
              ReplayAt(K, k, i) /\ (tags = << >> => i = 1 /\ AtPlace(k))
  BY <1>1, ReplayIsAt
<1>3. PICK k \in 0 .. K : ReplayAt(K, k, 1) /\ AtPlace(k)
  BY <1>1, <1>2
<1>4. header.sequence \in Tids /\ image \in Images /\ b \in LogBlocks /\ end \in Tids
  BY <1>1, OnTheWay DEF WalkInv
<1>5. next_commit # end
  BY <1>1, <1>4, TidOrder
<1>6. k + 1 \in 0 .. K /\ k < K /\ k \in 0 .. Last - 1 /\ Complete(Way, K, k) /\ Ends(K, k + 1) /\ Ends(K, k)
  BY <1>1, <1>3, <1>5, PassProgress DEF ReplayAt
<1>7. k \in 0 .. Last /\ K \in Nat /\ k \in Nat
  BY <1>6, RecoveryAssumption
<1>8. /\ Way[k + 1] = After(image, Way[k]) /\ Way[k][2] = b /\ next_commit = Tid(header.sequence, Way[k][1])
      /\ Way' = Way /\ log' = log
  BY <1>1, <1>3, <1>6, OnTheWay, Frames DEF AtPlace
<1>9. T \in Seq(Tag) /\ Len(T) \in 0 .. Last - First /\ Len(T) \in Nat /\ DOMAIN T = 1 .. Len(T)
  BY <1>1, <1>7, <1>8, DescriptorTags, RecoveryAssumption
<1>10. wrap(b + 1) \in LogBlocks /\ wrap(wrap(b + 1) + 0) = wrap(b + 1)
  BY <1>4, Wraps DEF LogBlocks
<1>11. Ends(K, k)' /\ Ends(K, k + 1)' /\ \A c \in Homes : Marks(c, Revokers(image, Way, K, c))'
  BY <1>1, <1>3, <1>6, <1>8, Frames DEF ReplayAt, Marks
<1>12. 1 \in 1 .. Last
  BY RecoveryAssumption
<1> HIDE DEF T
<1>13. CASE Len(T) = 0
  <2>1. Way[k + 1] = <<Way[k][1], wrap(wrap(b + 1) + Len(T))>>
    BY <1>1, <1>8 DEF After, log, T
  <2>2. tags' = << >>
    BY <1>1, <1>9, <1>13
  <2>3. AtPlace(k + 1)'
    BY <1>1, <1>8, <1>10, <1>13, <2>1, <2>2 DEF AtPlace
  <2>4. Written(K, k + 1, 1)'
    <3>1. \A c \in Homes : \A x \in Writes(image, Way, K, c) : x[1] # k
      <4> SUFFICES ASSUME NEW c \in Homes, NEW x \in Writes(image, Way, K, c), x[1] = k PROVE FALSE
        OBVIOUS
      <4>1. x[2] \in DOMAIN T
        BY <1>8 DEF Writes, T, log
      <4>2. QED
        BY <1>9, <1>13, <4>1
    <3>2. QED
      BY <1>1, <1>3, <1>7, <3>1, NothingWritten DEF ReplayAt
  <2>5. ReplayAt(K, k + 1, 1)'
    BY <1>11, <2>3, <2>4 DEF ReplayAt
  <2>6. QED
    BY <1>1, <1>6, <1>12, <2>5, ReplayAtThen
<1>14. CASE Len(T) # 0
  <2>1. 1 \in 1 .. Len(T) /\ Len(tags') = Len(T) - 1 + 1 /\ \A j \in 1 .. Len(tags') : tags'[j] = T[(1 - 1) + j]
    BY <1>1, <1>9, <1>14
  <2>2. next_block' = wrap(wrap(b + 1) + (1 - 1))
    BY <1>1, <1>10
  <2>3. InDescriptor(K, k, 1)'
    BY <1>1, <1>6, <1>8, <2>1, <2>2 DEF InDescriptor, T
  <2>4. Written(K, k, 1)'
    BY <1>1, <1>3, Frames DEF ReplayAt
  <2>5. ReplayAt(K, k, 1)'
    BY <1>11, <2>3, <2>4 DEF ReplayAt
  <2>6. QED
    BY <1>1, <1>12, <2>5, ReplayAtThen
<1>15. QED
  BY <1>13, <1>14

\* The revoke table answers whether a tag survives.
LEMMA RevokedIsNotWritten ==
    ASSUME DeviceInv, WalkInv, JournalInv, pc = "replay", NEW K \in 0 .. Last, NEW k \in 0 .. K, NEW i \in Nat,
           InDescriptor(K, k, i), NEW home \in Homes, log[Way[k][2]].tags[i].home = home,
           Marks(home, Revokers(image, Way, K, home))
    PROVE  Revoked(home) <=> <<k, i>> \notin Writes(image, Way, K, home)
<1> DEFINE R == Revokers(image, Way, K, home)
           T == log[Way[k][2]].tags
<1>0. Last \in Nat /\ K \in Nat /\ K <= Last /\ k \in Nat /\ k \in 0 .. Last /\ header.sequence \in Tids
  BY RecoveryAssumption, OnTheWay
<1>1. /\ k \in 0 .. K - 1 /\ Complete(Way, K, k) /\ log[Way[k][2]].kind = "descriptor" /\ i \in 1 .. Len(T)
      /\ next_commit = Tid(header.sequence, Way[k][1])
  BY <1>0 DEF InDescriptor
<1>2. DOMAIN T = 1 .. Len(T) /\ Len(T) \in 0 .. Last - First
  BY <1>0, DescriptorTags
<1>3. i \in 1 .. Last - First
  BY <1>1, <1>2, RecoveryAssumption
<1>4. <<k, i>> \in Writes(image, Way, K, home) <=> \A j \in R : Way[j][1] < Way[k][1]
  BY <1>1, <1>2, <1>3 DEF Writes, log
<1>5. Way[K][1] \in Nat /\ Way[K][1] <= Last
  <2>1. Way[K][1] \in Nat /\ Way[K][1] - Way[0][1] <= K - 0 /\ Way[0][1] = 0
    BY <1>0, OnTheWay
  <2>2. QED
    BY <1>0, <2>1
<1>6. \A j \in 0 .. K - 1 : Complete(Way, K, j) => Way[j][1] \in Nat /\ Way[j][1] < Last
  <2> SUFFICES ASSUME NEW j \in 0 .. K - 1, Complete(Way, K, j) PROVE Way[j][1] \in Nat /\ Way[j][1] < Last
    OBVIOUS
  <2>1. j \in 0 .. Last
    BY <1>0
  <2>2. Way[j][1] \in Nat
    BY <2>1, OnTheWay
  <2>3. QED
    BY <1>0, <1>5, <2>2 DEF Complete
<1>7. \A j \in R : j \in 0 .. K - 1 /\ Complete(Way, K, j)
  BY DEF Revokers
<1> HIDE DEF R
<1>8. Marks(home, R)
  BY DEF R
<1>9. CASE R = {}
  BY <1>4, <1>8, <1>9 DEF Marks, Revoked
<1>10. CASE R # {}
  <2>1. PICK j \in R : revoked[home] = Tid(header.sequence, Way[j][1]) /\ \A l \in R : Way[l][1] <= Way[j][1]
    BY <1>8, <1>10 DEF Marks
  <2>2. Way[j][1] \in Nat /\ Way[j][1] < Last /\ Way[k][1] \in Nat /\ Way[k][1] < Last
    BY <1>1, <1>6, <1>7
  <2>3. revoked[home] # None
    <3>1. Tid(header.sequence, Way[j][1]) \in Tids
      BY <1>0, <2>2, TidOrder
    <3>2. QED
      BY <2>1, <3>1, RecoveryAssumption DEF Tids
  <2>4. tid_gt(next_commit, revoked[home]) <=> Way[j][1] < Way[k][1]
    BY <1>0, <1>1, <2>1, <2>2, TidLater
  <2>5. (\A l \in R : Way[l][1] < Way[k][1]) <=> Way[j][1] < Way[k][1]
    <3>1. \A l \in R : Way[l][1] \in Nat /\ Way[l][1] <= Way[j][1]
      BY <1>6, <1>7, <2>1
    <3>2. QED
      BY <2>2, <3>1
  <2>6. QED
    BY <1>4, <2>3, <2>4, <2>5 DEF Revoked
<1>11. QED
  BY <1>9, <1>10

\* A tag that no error is reported for is written to its home, or it is revoked and nothing is.
LEMMA TagWrites ==
    ASSUME DeviceInv, WalkInv, JournalInv, Intact \/ ~errors', ReplayTag, NEW K \in 0 .. Last, NEW k \in 0 .. K, NEW i \in Nat,
           InDescriptor(K, k, i), \A b \in Homes : Marks(b, Revokers(image, Way, K, b))
    PROVE  \E home \in Homes :
              /\ \A b \in Homes : <<k, i>> \in Writes(image, Way, K, b) => b = home
              /\ \/ <<k, i>> \in Writes(image, Way, K, home) /\ WriteHome(home, Value(image, Way, <<k, i>>))
                 \/ <<k, i>> \notin Writes(image, Way, K, home) /\ UNCHANGED <<disk, dpend>>
<1> DEFINE c == Way[k][2]
           T == log[c].tags
           home == Head(tags).home
<1>0. pc = "replay" /\ tags # << >> /\ k \in 0 .. Last
  BY RecoveryAssumption DEF ReplayTag
<1>1. /\ T \in Seq(Tag) /\ Len(T) \in 0 .. Last - First /\ DOMAIN T = 1 .. Len(T)
      /\ \A j \in 1 .. Len(T) : T[j] \in Tag /\ T[j].home \in Homes \cup {Outside}
  BY <1>0, DescriptorTags
<1>2. /\ i \in 1 .. Len(T) /\ Len(tags) = Len(T) - i + 1 /\ next_block = wrap(wrap(c + 1) + (i - 1))
      /\ \A j \in 1 .. Len(tags) : tags[j] = T[(i - 1) + j]
  BY DEF InDescriptor
<1>3. Head(tags) = T[i]
  <2>1. tags \in Seq(Tag)
    BY DEF WalkInv
  <2>2. Head(tags) = tags[1] /\ 1 \in 1 .. Len(tags)
    BY <1>0, <2>1
  <2>3. (i - 1) + 1 = i
    OBVIOUS
  <2>4. QED
    BY <1>2, <2>2, <2>3
<1>4. home = T[i].home /\ home \in Homes \cup {Outside}
  BY <1>1, <1>2, <1>3
<1>5. Value(image, Way, <<k, i>>) = IF Head(tags).escape THEN Magic ELSE log[next_block].val
  BY <1>2, <1>3 DEF Value, log
<1>6. \A b \in Homes : <<k, i>> \in Writes(image, Way, K, b) => b = home
  BY <1>4 DEF Writes, log
<1>7. \/ Revoked(home) /\ UNCHANGED <<disk, dpend>>
      \/ ~Revoked(home) /\ (~checksum_ok(next_block) \/ home = Outside) /\ errors' = TRUE /\ UNCHANGED <<disk, dpend>>
      \/ /\ ~Revoked(home) /\ home # Outside
         /\ WriteHome(home, IF Head(tags).escape THEN Magic ELSE log[next_block].val)
  BY DEF ReplayTag, device
<1>8. ASSUME Intact PROVE checksum_ok(next_block) /\ home # Outside
  <2>1. next_block \in LogBlocks /\ c \in LogBlocks
    BY <1>0, OnTheWay DEF WalkInv
  <2>2. checksum_ok(next_block) /\ \A j \in DOMAIN T : T[j].home # Outside
    BY <1>8, <2>1, IntactSound
  <2>3. QED
    BY <1>1, <1>2, <1>4, <2>2
<1>9. \/ Revoked(home) /\ UNCHANGED <<disk, dpend>>
      \/ /\ ~Revoked(home) /\ home # Outside
         /\ WriteHome(home, IF Head(tags).escape THEN Magic ELSE log[next_block].val)
  <2> HIDE DEF home
  <2>1. QED
    BY <1>7, <1>8
<1>10. CASE home = Outside
  <2>1. UNCHANGED <<disk, dpend>>
    BY <1>9, <1>10
  <2>2. \A b \in Homes : <<k, i>> \notin Writes(image, Way, K, b)
    BY <1>6, <1>10, RecoveryAssumption
  <2>3. Super \in Homes
    BY RecoveryAssumption
  <2>4. QED
    BY <2>1, <2>2, <2>3
<1>11. CASE home # Outside
  <2>1. home \in Homes
    BY <1>4, <1>11
  <2>2. Revoked(home) <=> <<k, i>> \notin Writes(image, Way, K, home)
    BY <1>0, <1>4, <2>1, RevokedIsNotWritten
  <2> HIDE DEF home
  <2>3. \/ <<k, i>> \in Writes(image, Way, K, home) /\ WriteHome(home, Value(image, Way, <<k, i>>))
        \/ <<k, i>> \notin Writes(image, Way, K, home) /\ UNCHANGED <<disk, dpend>>
    BY <1>5, <1>9, <2>2
  <2>4. QED
    BY <1>6, <2>1, <2>3
<1>12. QED
  BY <1>10, <1>11

\* The replay, one tag on.
LEMMA TagFine ==
    ASSUME DeviceInv, WalkInv, JournalInv, FollowInv, Intact \/ ~errors', ReplayInv, ReplayTag
    PROVE  /\ ReplayInv' /\ pc = "replay" /\ UNCHANGED <<image, header, pc>>
           /\ \/ UNCHANGED <<disk, dpend>>
              \/ \E K \in 0 .. Last : \E home \in Homes : \E x \in Writes(image, Way, K, home) :
                    LogEnds(image, Way, K) /\ WriteHome(home, Value(image, Way, x))
<1>1. /\ pc = "replay" /\ tags # << >> /\ tags' = Tail(tags) /\ next_block' = wrap(next_block + 1)
      /\ UNCHANGED <<image, header, pc, end, revoked, next_commit>>
  BY DEF ReplayTag
<1>2. PICK K \in 0 .. Last : \E k \in 0 .. K : \E i \in 1 .. Last :
              ReplayAt(K, k, i) /\ (tags # << >> => InDescriptor(K, k, i))
  BY <1>1, ReplayIsAt
<1>3. PICK k \in 0 .. K : \E i \in 1 .. Last : ReplayAt(K, k, i) /\ InDescriptor(K, k, i)
  BY <1>1, <1>2
<1>4. PICK i \in 1 .. Last : ReplayAt(K, k, i) /\ InDescriptor(K, k, i)
  BY <1>3
<1> DEFINE c == Way[k][2]
           T == log[c].tags
           p == <<k, i>>
           X(b) == Writes(image, Way, K, b)
<1>5. Last \in Nat /\ First \in Nat /\ First < Last /\ K \in Nat /\ k \in Nat /\ k \in 0 .. Last /\ i \in Nat
  BY RecoveryAssumption
<1>6. Ends(K, k) /\ (\A b \in Homes : Marks(b, Revokers(image, Way, K, b))) /\ Written(K, k, i)
  BY <1>4 DEF ReplayAt
<1>7. PICK home \in Homes :
         /\ \A b \in Homes : p \in X(b) => b = home
         /\ \/ p \in X(home) /\ WriteHome(home, Value(image, Way, p))
            \/ p \notin X(home) /\ UNCHANGED <<disk, dpend>>
  BY <1>4, <1>5, <1>6, TagWrites
<1>8. /\ T \in Seq(Tag) /\ Len(T) \in Nat /\ Len(T) <= Last - First /\ DOMAIN T = 1 .. Len(T) /\ c \in LogBlocks
  <2>1. T \in Seq(Tag) /\ Len(T) \in 0 .. Last - First /\ DOMAIN T = 1 .. Len(T)
    BY <1>1, <1>5, DescriptorTags
  <2>2. c \in LogBlocks
    BY <1>1, <1>5, OnTheWay
  <2> HIDE DEF T, c
  <2>3. QED
    BY <1>5, <2>1, <2>2
<1>9. /\ i \in 1 .. Len(T) /\ Len(tags) = Len(T) - i + 1 /\ next_block = wrap(wrap(c + 1) + (i - 1))
      /\ \A j \in 1 .. Len(tags) : tags[j] = T[(i - 1) + j]
      /\ k < K /\ Complete(Way, K, k) /\ log[c].kind = "descriptor" /\ next_commit = Tid(header.sequence, Way[k][1])
  BY <1>4 DEF InDescriptor
<1>10. Way' = Way /\ log' = log /\ Ends(K, k)' /\ \A b \in Homes : Marks(b, Revokers(image, Way, K, b))'
  <2>1. Way' = Way /\ log' = log
    BY <1>1, Frames
  <2>2. QED
    BY <1>1, <1>6, <2>1, Frames DEF Marks
<1>11. \A b \in Homes : disk'[b] = IF p \in X(b) THEN Value(image, Way, p) ELSE disk[b]
  <2> DEFINE v == Value(image, Way, p)
  <2> HIDE DEF v, p, X
  <2>1. DOMAIN disk = Homes
    BY DEF DeviceInv
  <2>2. CASE p \in X(home) /\ WriteHome(home, v)
    <3>1. disk' = [disk EXCEPT ![home] = v]
      BY <2>2 DEF WriteHome
    <3>2. \A b \in Homes : disk'[b] = IF b = home THEN v ELSE disk[b]
      BY <2>1, <3>1
    <3>3. QED
      BY <1>7, <2>2, <3>2 DEF v
  <2>3. CASE p \notin X(home) /\ UNCHANGED <<disk, dpend>>
    BY <1>7, <2>3
  <2>4. QED
    BY <1>7, <2>2, <2>3 DEF v
<1>12. Len(tags') = Len(T) - i /\ \A j \in 1 .. Len(tags') : tags'[j] = T[i + j]
  <2>1. tags \in Seq(Tag)
    BY DEF WalkInv
  <2>2. Len(tags') = Len(tags) - 1 /\ \A j \in 1 .. Len(tags') : tags'[j] = tags[j + 1]
    BY <1>1, <2>1
  <2> HIDE DEF T
  <2>3. ASSUME NEW j \in 1 .. Len(tags') PROVE tags'[j] = T[i + j]
    <3>1. j + 1 \in 1 .. Len(tags) /\ (i - 1) + (j + 1) = i + j
      BY <1>5, <1>8, <1>9, <2>2
    <3>2. QED
      BY <1>9, <2>2, <3>1
  <2>4. QED
    BY <1>5, <1>8, <1>9, <2>2, <2>3
<1>13. next_block' = wrap(wrap(c + 1) + i)
  <2>1. wrap(c + 1) \in LogBlocks
    BY <1>8, Wraps
  <2>2. \A x \in LogBlocks : \A n \in Nat : n < Last - First => wrap(wrap(x + n) + 1) = wrap(x + (n + 1))
    BY <1>5 DEF wrap, LogBlocks
  <2> HIDE DEF T
  <2>3. i - 1 \in Nat /\ i - 1 < Last - First /\ (i - 1) + 1 = i
    BY <1>5, <1>8, <1>9
  <2>4. QED
    BY <1>1, <1>9, <2>1, <2>2, <2>3
<1>14. ASSUME NEW b \in Homes, NEW x \in X(b)
       PROVE  x = <<x[1], x[2]>> /\ x[1] \in Nat /\ x[2] \in Nat /\ x[2] > 0 /\ (x[1] = k => x[2] <= Len(T))
  <2>1. x = <<x[1], x[2]>> /\ x[1] \in Nat /\ x[2] \in Nat /\ x[2] > 0
    BY <1>5, WritesAreNumbered
  <2>2. x[1] = k => x[2] \in DOMAIN T
    BY DEF Writes, log
  <2>3. QED
    BY <1>8, <2>1, <2>2
<1> HIDE DEF X, T
<1>15. CASE i < Len(T)
  <2>1. i + 1 \in 1 .. Last /\ i + 1 \in 1 .. Len(T) /\ i + 1 \in Nat
    BY <1>5, <1>8, <1>15
  <2>2. InDescriptor(K, k, i + 1)'
    <3>1. (i + 1) - 1 = i /\ Len(tags') = Len(T) - (i + 1) + 1
      BY <1>5, <1>8, <1>12
    <3>2. QED
      BY <1>1, <1>9, <1>10, <1>12, <1>13, <2>1, <3>1 DEF InDescriptor, T
  <2>3. Written(K, k, i + 1)'
    <3>1. ASSUME NEW b \in Homes, NEW x \in X(b)
          PROVE  /\ Before(x, <<k, i + 1>>) => Before(x, <<k, i>>) \/ x = <<k, i>>
                 /\ Before(x, <<k, i>>) => Before(x, <<k, i + 1>>)
      BY <1>5, <1>14 DEF Before
    <3>2. Before(<<k, i>>, <<k, i + 1>>)
      BY <1>5 DEF Before
    <3> DEFINE n == i + 1
    <3>3. n \in Nat
      BY <1>5
    <3>4. /\ \A b \in Homes : \A x \in Writes(image, Way, K, b) : Before(x, <<k, n>>) => Before(x, <<k, i>>) \/ x = <<k, i>>
          /\ \A b \in Homes : \A x \in Writes(image, Way, K, b) : Before(x, <<k, i>>) => Before(x, <<k, n>>)
          /\ \A b \in Homes : disk'[b] = IF <<k, i>> \in Writes(image, Way, K, b)
                                         THEN Value(image, Way, <<k, i>>) ELSE disk[b]
      BY <1>11, <3>1 DEF X
    <3>5. Before(<<k, i>>, <<k, n>>)
      BY <3>2
    <3> HIDE DEF n
    <3>6. Written(K, k, n)'
      BY <1>1, <1>5, <1>6, <3>3, <3>4, <3>5, WrittenGrows, Zenon
    <3>7. QED
      BY <3>6 DEF n
  <2>4. ReplayAt(K, k, i + 1)'
    BY <1>10, <2>2, <2>3 DEF ReplayAt
  <2>5. ReplayInv'
    BY <2>1, <2>4, ReplayAtThen
  <2>6. QED
    BY <1>1, <1>6, <1>7, <2>5 DEF Ends, X
<1>16. CASE ~(i < Len(T))
  <2>1. i = Len(T) /\ Len(tags') = 0 /\ k + 1 \in 0 .. K /\ k \in 0 .. Last - 1 /\ 1 \in 1 .. Last
    <3>0. PICK n \in Nat : n = Len(T)
      BY <1>8
    <3>a. i \in 1 .. n /\ ~(i < n)
      BY <1>9, <1>16, <3>0
    <3>b. i = n
      BY <3>a
    <3>1. i = Len(T)
      BY <3>0, <3>b
    <3>2. Len(tags') = 0
      BY <1>8, <1>12, <3>1
    <3>3. k < K /\ K <= Last
      BY <1>9
    <3>4. QED
      BY <1>5, <3>1, <3>2, <3>3
  <2>2. tags' = << >>
    <3>1. tags' \in Seq(Tag)
      BY <1>1 DEF WalkInv
    <3>2. QED
      BY <2>1, <3>1
  <2>3. Way[k + 1] = <<Way[k][1], wrap(wrap(c + 1) + Len(T))>>
    <3>1. Way[k + 1] = After(image, Way[k])
      BY <1>1, <2>1, OnTheWay
    <3>2. QED
      BY <1>9, <3>1 DEF After, log, T
  <2>4. AtPlace(k + 1)'
    BY <1>1, <1>9, <1>10, <1>13, <2>1, <2>2, <2>3 DEF AtPlace
  <2>5. Ends(K, k + 1)'
    <3>1. \A j \in 0 .. (k + 1) - 1 : j = k \/ j \in 0 .. k - 1
      BY <1>5
    <3>2. Ends(K, k + 1)
      BY <1>6, <1>9, <3>1 DEF Ends
    <3>3. QED
      BY <1>1, <3>2, Frames
  <2>6. Written(K, k + 1, 1)'
    <3>1. ASSUME NEW b \in Homes, NEW x \in X(b)
          PROVE  /\ Before(x, <<k + 1, 1>>) => Before(x, <<k, i>>) \/ x = <<k, i>>
                 /\ Before(x, <<k, i>>) => Before(x, <<k + 1, 1>>)
      BY <1>5, <1>14, <2>1 DEF Before
    <3>2. Before(<<k, i>>, <<k + 1, 1>>)
      BY <1>5 DEF Before
    <3>3. k + 1 \in Nat /\ 1 \in Nat
      BY <1>5
    <3>4. QED
      BY <1>1, <1>5, <1>6, <1>11, <3>1, <3>2, <3>3, WrittenGrows DEF X
  <2>7. ReplayAt(K, k + 1, 1)'
    BY <1>10, <2>4, <2>5, <2>6 DEF ReplayAt
  <2>8. ReplayInv'
    BY <2>1, <2>7, ReplayAtThen
  <2>9. QED
    BY <1>1, <1>6, <1>7, <2>8 DEF Ends, X
<1>17. QED
  BY <1>15, <1>16

\* Every log has an end.
LEMMA LogHasEnd ==
    ASSUME NEW im, NEW w
    PROVE  \E K \in 0 .. Last : LogEnds(im, w, K)
<1> DEFINE S == {K \in 0 .. Last : K = Last \/ ~Taken(im, w, K)}
<1>0. Last \in Nat
  BY RecoveryAssumption
<1>1. S \subseteq Nat /\ S # {}
  <2>1. Last \in S
    BY <1>0
  <2>2. QED
    BY <2>1
<1>2. \E x \in S : \A y \in S : x <= y
  <2> HIDE DEF S
  <2>1. QED
    BY <1>1, LeastNumber, Zenon
<1>3. PICK K \in S : \A y \in S : K <= y
  BY <1>2
<1>4. ASSUME NEW j \in 0 .. K - 1 PROVE Taken(im, w, j)
  <2>1. j \in 0 .. Last /\ j < K /\ j # Last
    BY <1>0
  <2>2. j \notin S
    BY <1>0, <1>3, <2>1
  <2>3. QED
    BY <2>1, <2>2
<1>5. K < Last => ~Taken(im, w, K)
  BY <1>0
<1>6. K \in 0 .. Last
  OBVIOUS
<1>7. QED
  BY <1>4, <1>5, <1>6 DEF LogEnds

\* An intact log's revoke blocks can be read.
LEMMA IntactIsLegible ==
    ASSUME NEW im, IsIntact(im)
    PROVE  IsLegible(im)
  BY DEF IsIntact, IsLegible

\* What the goal of a legible image is, at the end K of its log.
LEMMA GoalOf ==
    ASSUME NEW im \in Images, IsLegible(im), im.jsb.start # 0, NEW K \in 0 .. Last, LogEnds(im, Trail(im), K), NEW b \in Homes
    PROVE  /\ \A x \in Writes(im, Trail(im), K, Super) : Value(im, Trail(im), x).journal
           /\ Writes(im, Trail(im), K, b) = {} => b \notin im.logged /\ Same(b, im.goal[b], im.disk[b])
           /\ Writes(im, Trail(im), K, b) # {} =>
                 /\ b \in im.logged
                 /\ \E x \in Writes(im, Trail(im), K, b) :
                       /\ \A y \in Writes(im, Trail(im), K, b) : y = x \/ Before(y, x)
                       /\ Same(b, im.goal[b], Value(im, Trail(im), x))
<1>1. IsGoal(im)
  BY GoalAssumption
<1> DEFINE w == Trail(im)
<1> HIDE DEF w
<1>2. /\ \A x \in Writes(im, w, K, Super) : Value(im, w, x).journal
      /\ \A c \in Homes : LET X == Writes(im, w, K, c)
                          IN  IF X = {} THEN c \notin im.logged /\ Same(c, im.goal[c], im.disk[c])
                              ELSE /\ c \in im.logged
                                   /\ \E x \in X : /\ \A y \in X : y = x \/ Before(y, x)
                                                   /\ Same(c, im.goal[c], Value(im, w, x))
  BY <1>1 DEF IsGoal, w
<1>3. QED
  BY <1>2 DEF w

\* The goal of an image's home that the log does not write is what it holds.
LEMMA GoalWhereSilent ==
    ASSUME NEW im \in Images, IsLegible(im), NEW b \in Homes
    PROVE  Same(b, im.disk[b], im.goal[b]) \/ (b \in im.logged /\ im.jsb.start # 0)
<1>1. Same(b, im.goal[b], im.disk[b]) => Same(b, im.disk[b], im.goal[b])
  BY DEF Same
<1>2. CASE im.jsb.start = 0
  BY <1>1, <1>2, GoalAssumption DEF IsGoal
<1>3. CASE im.jsb.start # 0
  <2>1. PICK K \in 0 .. Last : LogEnds(im, Trail(im), K)
    BY LogHasEnd
  <2>2. QED
    BY <1>1, <1>3, <2>1, GoalOf
<1>4. QED
  BY <1>2, <1>3

\* The replay is through: every home the log writes has the last that it says of it.
LEMMA ReplayEnd ==
    ASSUME DeviceInv, WalkInv, JournalInv, ReplayInv, pc = "replay", PassStops
    PROVE  /\ pc' = "flush" /\ UNCHANGED <<errors, failed>>
           /\ \E K \in 0 .. Last :
                 /\ LogEnds(image, Way, K)
                 /\ \A b \in Homes : \A x \in Writes(image, Way, K, b) :
                       (\A y \in Writes(image, Way, K, b) : y = x \/ Before(y, x)) => disk[b] = Value(image, Way, x)
<1>1. tags = << >>
  BY DEF PassStops
<1>2. PICK K \in 0 .. Last : \E k \in 0 .. K : \E i \in 1 .. Last :
              ReplayAt(K, k, i) /\ (tags = << >> => i = 1 /\ AtPlace(k))
  BY ReplayIsAt
<1>3. PICK k \in 0 .. K : ReplayAt(K, k, 1) /\ AtPlace(k)
  BY <1>1, <1>2
<1>4. Ends(K, k) /\ Written(K, k, 1)
  BY <1>3 DEF ReplayAt
<1>5. next_commit = end
  <2>1. SUFFICES ASSUME next_commit # end PROVE FALSE
    OBVIOUS
  <2>2. ~tid_geq(next_commit, end) /\ Expected(next_block) /\ log[next_block].kind # "other"
    BY <1>3, <1>4, <2>1, PassProgress
  <2>3. QED
    BY <2>2 DEF PassStops
<1>6. pc' = "flush" /\ UNCHANGED <<errors, failed>>
  BY <1>5 DEF PassStops
<1>7. \A j \in 0 .. K - 1 : Complete(Way, K, j) => j < k
  BY <1>3, <1>4, <1>5, PassIsThrough
<1>8. ASSUME NEW b \in Homes, NEW x \in Writes(image, Way, K, b),
             \A y \in Writes(image, Way, K, b) : y = x \/ Before(y, x)
      PROVE  disk[b] = Value(image, Way, x)
  <2>1. ASSUME NEW y \in Writes(image, Way, K, b) PROVE Before(y, <<k, 1>>)
    <3>1. y[1] \in 0 .. K - 1 /\ Complete(Way, K, y[1])
      BY DEF Writes
    <3>2. QED
      BY <1>7, <3>1 DEF Before
  <2>2. QED
    BY <1>4, <1>8, <2>1 DEF Written
<1>9. QED
  BY <1>4, <1>6, <1>8 DEF Ends

\* What a home has that the log writes last is its goal.
LEMMA GoalReached ==
    ASSUME NEW im \in Images, IsLegible(im), im.jsb.start # 0, NEW K \in 0 .. Last, LogEnds(im, Trail(im), K), NEW b \in Homes,
           NEW v, Writes(im, Trail(im), K, b) # {},
           \A x \in Writes(im, Trail(im), K, b) :
               (\A y \in Writes(im, Trail(im), K, b) : y = x \/ Before(y, x)) => v = Value(im, Trail(im), x)
    PROVE  Same(b, v, im.goal[b])
<1>1. PICK x \in Writes(im, Trail(im), K, b) :
         /\ \A y \in Writes(im, Trail(im), K, b) : y = x \/ Before(y, x)
         /\ Same(b, im.goal[b], Value(im, Trail(im), x))
  BY GoalOf
<1>2. v = Value(im, Trail(im), x)
  BY <1>1
<1>3. QED
  BY <1>1, <1>2 DEF Same

\* The replay of an intact log is through: every home has what the log says.
LEMMA ReplayEndFine ==
    ASSUME DeviceInv, WalkInv, JournalInv, Intact, ReplayInv, HomesInv, pc = "replay", PassStops
    PROVE  pc' = "flush" /\ \A b \in Homes : Same(b, disk[b], image.goal[b])
<1>1. PICK K \in 0 .. Last :
         /\ LogEnds(image, Way, K)
         /\ \A b \in Homes : \A x \in Writes(image, Way, K, b) :
               (\A y \in Writes(image, Way, K, b) : y = x \/ Before(y, x)) => disk[b] = Value(image, Way, x)
  BY ReplayEnd
<1>2. image \in Images /\ IsLegible(image) /\ image.jsb.start # 0 /\ Way = Trail(image)
  BY OnTheWay, IntactIsLegible DEF Way, Intact
<1>3. ASSUME NEW b \in Homes PROVE Same(b, disk[b], image.goal[b])
  <2>1. CASE Writes(image, Way, K, b) = {}
    <3>1. b \notin image.logged
      BY <1>1, <1>2, <2>1, GoalOf
    <3>2. disk[b] \in dpend[b]
      BY DEF DeviceInv
    <3>3. QED
      BY <3>1, <3>2 DEF HomesInv
  <2>2. CASE Writes(image, Way, K, b) # {}
    BY <1>1, <1>2, <2>2, GoalReached
  <2>3. QED
    BY <2>1, <2>2
<1>4. QED
  BY <1>3, ReplayEnd

\* A home written with what it must be, or while the log is there.
LEMMA HomeWritten ==
    ASSUME DeviceInv, HomesInv, NEW b \in Homes, NEW v, WriteHome(b, v), image' = image, jpend' = jpend,
           pc' # "flush", pc' # "reset",
           Same(b, v, image.goal[b]) \/ (b \in image.logged /\ \A j \in jpend : j.start # 0)
    PROVE  HomesInv'
<1>1. \A c \in Homes : \A u \in dpend'[c] : u \in dpend[c] \/ (c = b /\ u = v)
  BY DEF WriteHome, DeviceInv
<1>2. QED
  BY <1>1 DEF HomesInv

\* The superblock written with the body it has.
LEMMA SuperFine ==
    ASSUME DeviceInv, HomesInv, SuperInv, NEW v, WriteHome(Super, v), image' = image, jpend' = jpend,
           pc' = "done" \/ pc' = "sync", v.body = disk[Super].body, image.jsb.start = 0 \/ v.journal
    PROVE  disk'[Super] = v /\ HomesInv' /\ SuperInv'
<1>1. Super \in Homes /\ disk[Super] \in dpend[Super] /\ DOMAIN disk = Homes /\ DOMAIN dpend = Homes
  BY RecoveryAssumption DEF DeviceInv
<1>2. Same(Super, v, image.goal[Super]) \/ (Super \in image.logged /\ \A j \in jpend : j.start # 0)
  BY <1>1 DEF HomesInv, Same
<1>3. pc' # "flush" /\ pc' # "reset"
  OBVIOUS
<1>4. HomesInv'
  BY <1>1, <1>2, <1>3, HomeWritten
<1>5. disk'[Super] = v /\ dpend'[Super] = dpend[Super] \cup {v}
  BY <1>1 DEF WriteHome
<1>6. SuperInv'
  BY <1>5 DEF SuperInv
<1>7. disk'[Super] = v
  BY <1>5
<1>8. QED
  BY <1>4, <1>6, <1>7

\* The fields of a superblock that an assignment leaves alone.
LEMMA BlockKeeps ==
    ASSUME NEW v, IsBlock(v), NEW valid \in BOOLEAN, NEW error \in BOOLEAN
    PROVE  /\ LET a == [v EXCEPT !.recover = FALSE] IN a.body = v.body /\ a.journal = v.journal /\ ~a.recover
           /\ LET e == [v EXCEPT !.error = TRUE] IN e.body = v.body /\ e.journal = v.journal /\ e.recover = v.recover
           /\ LET w == [v EXCEPT !.recover = FALSE, !.valid = valid, !.error = error]
              IN  w.body = v.body /\ w.journal = v.journal /\ ~w.recover
<1> DEFINE a == [v EXCEPT !.recover = FALSE]
           e == [v EXCEPT !.error = TRUE]
           b == [a EXCEPT !.valid = valid]
           c == [b EXCEPT !.error = error]
<1>0. ASSUME NEW x
      PROVE  LET f == [v EXCEPT !.recover = x] IN IsBlock(f) /\ f.body = v.body /\ f.journal = v.journal /\ f.recover = x
  BY DEF IsBlock
<1>1. IsBlock(a) /\ a.body = v.body /\ a.journal = v.journal /\ a.recover = FALSE
  BY <1>0
<1>2. ASSUME NEW x
      PROVE  LET f == [v EXCEPT !.error = x] IN f.body = v.body /\ f.journal = v.journal /\ f.recover = v.recover
  BY DEF IsBlock
<1>e. e.body = v.body /\ e.journal = v.journal /\ e.recover = v.recover
  BY <1>2
<1> HIDE DEF a, e
<1>3. IsBlock(b) /\ b.body = v.body /\ b.journal = v.journal /\ b.recover = FALSE
  BY <1>1 DEF IsBlock
<1> HIDE DEF b
<1>4. c.body = v.body /\ c.journal = v.journal /\ c.recover = FALSE
  BY <1>3 DEF IsBlock
<1>5. c = [v EXCEPT !.recover = FALSE, !.valid = valid, !.error = error]
  BY DEF a, b
<1> HIDE DEF c
<1>6. ~a.recover /\ ~c.recover
  BY <1>1, <1>4, Zenon
<1>7. QED
  BY <1>1, <1>e, <1>4, <1>5, <1>6 DEF a, e

\* A check opens the filesystem, or its end.
LEMMA OpenFine ==
    ASSUME DeviceInv, JournalInv, FineInv, NEW m \in Modes, Open(m)
    PROVE  FineInv'
<1>1. /\ Rest /\ mode' = m /\ sb' = disk[Super] /\ header' = jsb /\ pc' = Route(m)
      /\ UNCHANGED <<image, disk, dpend, jsb, jpend>>
  BY DEF Open, device
<1>2. Route(m) \in {"done", "unflag", "halt", "clear", "recover"}
  BY DEF Route
<1>3. RevokeInv' /\ ReplayInv'
  BY <1>1, <1>2 DEF RevokeInv, ReplayInv
<1>4. HomesInv'
  BY <1>1, <1>2 DEF FineInv, HomesInv
<1>5. disk[Super] \in dpend[Super] /\ jsb \in jpend
  BY RecoveryAssumption DEF DeviceInv
<1>6. SuperInv'
  BY <1>1, <1>2, <1>5 DEF FineInv, SuperInv
<1>7. DOMAIN revoked' = Homes \cup {Outside} /\ doubt' = FALSE /\ \A b \in Homes : revoked'[b] = None
  BY <1>1 DEF Rest
<1>8. pc' = "halt" => mode' = "preen"
  BY <1>1 DEF Route
<1>9. jsb.ok = image.jsb.ok /\ (jsb.start # 0 => image.jsb.start # 0) /\ (image.jsb.start # 0 => disk[Super].journal)
  BY <1>5 DEF JournalInv, FineInv, SuperInv
<1>10. ASSUME m = "repair", image.jsb.ok
       PROVE  /\ pc' = "unflag" => jsb.start = 0
              /\ pc' = "clear" => ~disk[Super].recover
              /\ pc' = "done" => jsb.start = 0 /\ ~disk[Super].recover
  BY <1>1, <1>9, <1>10 DEF Route
<1>11. ExactInv'
  BY <1>1, <1>2, <1>7, <1>8, <1>10 DEF ExactInv, TableInv
<1>12. QED
  BY <1>3, <1>4, <1>6, <1>11 DEF FineInv

\* A check that is cut short.
LEMMA CutShortFine ==
    ASSUME DeviceInv, JournalInv, FineInv, DeviceFails \/ PowerCut
    PROVE  FineInv'
<1>1. /\ Rest /\ pc' = "idle" /\ image' = image
      /\ \A b \in Homes : dpend'[b] \subseteq dpend[b]
      /\ jpend' \subseteq jpend
  <2>1. CASE DeviceFails
    BY <2>1 DEF DeviceFails, device
  <2>2. CASE PowerCut
    BY <2>2 DEF PowerCut
  <2>3. QED
    BY <2>1, <2>2
<1>2. RevokeInv' /\ ReplayInv'
  BY <1>1 DEF RevokeInv, ReplayInv
<1>3. HomesInv'
  BY <1>1 DEF FineInv, HomesInv
<1>4. SuperInv'
  BY <1>1, RecoveryAssumption DEF FineInv, SuperInv
<1>5. ExactInv'
  BY <1>1 DEF Rest, ExactInv, TableInv
<1>6. QED
  BY <1>2, <1>3, <1>4, <1>5 DEF FineInv

\* A step that leaves the device alone and ends no pass.
LEMMA QuietFine ==
    ASSUME HomesInv, SuperInv, UNCHANGED <<image, disk, dpend, jsb, jpend>>, pc' \in {"scan", "revoke", "replay"}
    PROVE  HomesInv' /\ SuperInv'
  BY DEF HomesInv, SuperInv

\* While the log is read its flag is not looked at.
LEMMA ReadingExact ==
    ASSUME ExactInv, DOMAIN revoked' = DOMAIN revoked, pc' \in {"revoke", "replay", "flush", "reset", "settle", "reload"}
    PROVE  ExactInv'
  BY DEF ExactInv, TableInv

\* Once the log is empty every home has what it must, whatever the power leaves.
LEMMA EmptyIsSafe ==
    ASSUME DeviceInv, HomesInv, jsb.start = 0
    PROVE  \A b \in Homes : \A v \in dpend[b] : Same(b, v, image.goal[b])
  BY DEF DeviceInv, HomesInv

\* The superblock's writes before and after recovery.
LEMMA SuperblockFine ==
    ASSUME DeviceInv, WalkInv, JournalInv, FineInv, ClearFlag \/ PreenHalt \/ CarryErrno \/ FlushSuperblock
    PROVE  FineInv'
<1>0. IsBlock(sb) /\ jsb \in jpend
  BY DEF DeviceInv
<1>1. /\ WriteHome(Super, sb') /\ image' = image /\ jpend' = jpend /\ (pc' = "done" \/ pc' = "sync")
      /\ UNCHANGED <<jsb, mode, revoked>> /\ pc \in {"unflag", "halt", "carry", "super"}
  BY DEF ClearFlag, PreenHalt, CarryErrno, FlushSuperblock, result
<1>2. sb'.body = sb.body /\ sb'.journal = sb.journal
  <2>1. CASE ClearFlag
    <3>1. sb' = [sb EXCEPT !.recover = FALSE]
      BY <2>1 DEF ClearFlag
    <3>2. QED
      BY <1>0, <3>1, BlockKeeps
  <2>2. CASE PreenHalt
    <3>1. sb' = [sb EXCEPT !.error = TRUE]
      BY <2>2 DEF PreenHalt
    <3>2. QED
      BY <1>0, <3>1, BlockKeeps
  <2>3. CASE CarryErrno \/ FlushSuperblock
    BY <2>3 DEF CarryErrno, FlushSuperblock
  <2>4. QED
    BY <2>1, <2>2, <2>3
<1>3. sb.body = disk[Super].body /\ (image.jsb.start = 0 \/ sb.journal)
  BY <1>1 DEF FineInv, SuperInv
<1>4. sb'.body = disk[Super].body /\ (image.jsb.start = 0 \/ sb'.journal)
  BY <1>2, <1>3
<1>5. PICK u : u = sb'
  OBVIOUS
<1>6. WriteHome(Super, u) /\ u.body = disk[Super].body /\ (image.jsb.start = 0 \/ u.journal)
  BY <1>1, <1>4, <1>5 DEF WriteHome
<1>h. HomesInv /\ SuperInv
  BY DEF FineInv
<1>7. disk'[Super] = u /\ HomesInv' /\ SuperInv'
  BY <1>1, <1>6, <1>h, SuperFine
<1>8. RevokeInv' /\ ReplayInv'
  BY <1>1 DEF RevokeInv, ReplayInv
<1>9. mode = "repair" /\ image.jsb.ok => jsb.start = 0 /\ ~sb'.recover
  <2>1. CASE ClearFlag
    <3>1. sb' = [sb EXCEPT !.recover = FALSE] /\ pc = "unflag"
      BY <2>1 DEF ClearFlag
    <3>2. ~sb'.recover
      BY <1>0, <3>1, BlockKeeps
    <3>3. QED
      BY <3>1, <3>2 DEF FineInv, ExactInv
  <2>2. CASE PreenHalt
    BY <2>2 DEF PreenHalt, FineInv, ExactInv
  <2>3. CASE CarryErrno \/ FlushSuperblock
    <3>1. sb' = sb /\ pc \in {"carry", "super"}
      BY <2>3 DEF CarryErrno, FlushSuperblock
    <3>2. jsb.start = 0
      BY <3>1 DEF JournalInv
    <3>3. QED
      BY <3>1, <3>2 DEF FineInv, ExactInv
  <2>4. QED
    BY <2>1, <2>2, <2>3
<1>10. ExactInv'
  <2>1. ~disk'[Super].recover <=> ~sb'.recover
    BY <1>5, <1>7
  <2>2. QED
    BY <1>1, <1>9, <2>1 DEF FineInv, ExactInv, TableInv
<1>11. QED
  BY <1>7, <1>8, <1>10 DEF FineInv

\* The journal superblock's writes: what they empty is empty already, or has been replayed and flushed.
LEMMA ResetFine ==
    ASSUME DeviceInv, WalkInv, JournalInv, FineInv, ClearErrno \/ RecoverEmpty \/ ResetLog
    PROVE  FineInv'
<1>0. IsBlock(sb) /\ jsb \in jpend
  BY DEF DeviceInv
<1>1. /\ UNCHANGED <<image, disk, dpend, mode, revoked>> /\ pc' \in {"carry", "reload", "settle"}
      /\ (pc = "clear" /\ pc' = "carry") \/ (pc = "recover" /\ header.start = 0 /\ pc' = "reload")
         \/ (pc = "reset" /\ pc' = "settle")
  BY DEF ClearErrno, RecoverEmpty, ResetLog, reset, result
<1>2. \A b \in Homes : \A v \in dpend[b] : Same(b, v, image.goal[b])
  <2>1. CASE pc = "reset"
    BY <2>1 DEF FineInv, HomesInv
  <2>2. CASE pc # "reset"
    <3>1. jsb.start = 0
      BY <1>1, <2>2 DEF JournalInv
    <3>2. QED
      BY <3>1, EmptyIsSafe DEF FineInv
  <2>3. QED
    BY <2>1, <2>2
<1>3. HomesInv'
  BY <1>1, <1>2 DEF HomesInv
<1>4. RevokeInv' /\ ReplayInv'
  BY <1>1 DEF RevokeInv, ReplayInv
<1>5. CASE pc' = "carry"
  <2>1. ClearErrno
    BY <1>5 DEF RecoverEmpty, ResetLog
  <2>2. sb' = [sb EXCEPT !.error = TRUE] /\ pc = "clear"
    BY <2>1 DEF ClearErrno
  <2>3. sb'.body = sb.body /\ sb'.journal = sb.journal /\ sb'.recover = sb.recover
    BY <1>0, <2>2, BlockKeeps
  <2>4. SuperInv'
    BY <1>1, <1>5, <2>2, <2>3 DEF FineInv, SuperInv
  <2>5. ExactInv'
    BY <1>1, <1>5, <2>2, <2>3 DEF FineInv, ExactInv, TableInv
  <2>6. QED
    BY <1>3, <1>4, <2>4, <2>5 DEF FineInv
<1>6. CASE pc' # "carry"
  <2>1. SuperInv'
    BY <1>1, <1>6 DEF FineInv, SuperInv
  <2>2. ExactInv'
    BY <1>1, <1>6 DEF FineInv, ExactInv, TableInv
  <2>3. QED
    BY <1>3, <1>4, <2>1, <2>2 DEF FineInv
<1>7. QED
  BY <1>5, <1>6

\* The flushes.
LEMMA FlushFine ==
    ASSUME DeviceInv, WalkInv, JournalInv, FineInv, FlushHomes \/ FlushReset \/ Sync
    PROVE  FineInv'
<1>0. jsb \in jpend /\ Super \in Homes /\ \A b \in Homes : disk[b] \in dpend[b]
  BY RecoveryAssumption DEF DeviceInv
<1>1. /\ DeviceFlush /\ UNCHANGED <<image, mode, revoked>>
      /\ (pc = "flush" /\ pc' = "reset") \/ (pc = "settle" /\ pc' = "reload") \/ (pc = "sync" /\ pc' = "done")
  BY DEF FlushHomes, FlushReset, Sync, result
<1>2. jpend' = {jsb} /\ UNCHANGED <<disk, jsb>> /\ \A b \in Homes : dpend'[b] = {disk[b]}
  BY <1>1 DEF DeviceFlush
<1>3. RevokeInv' /\ ReplayInv'
  BY <1>1 DEF RevokeInv, ReplayInv
<1>4. HomesInv'
  BY <1>0, <1>1, <1>2 DEF FineInv, HomesInv
<1>5. SuperInv'
  BY <1>0, <1>1, <1>2 DEF FineInv, SuperInv
<1>6. ExactInv'
  BY <1>1, <1>2 DEF FineInv, ExactInv, TableInv
<1>7. QED
  BY <1>3, <1>4, <1>5, <1>6 DEF FineInv

\* The superblock read again.
LEMMA ReloadFine ==
    ASSUME DeviceInv, WalkInv, JournalInv, FineInv, Reload
    PROVE  FineInv'
<1>0. Super \in Homes /\ disk[Super] \in dpend[Super] /\ IsBlock(disk[Super])
  BY RecoveryAssumption DEF DeviceInv
<1>1. /\ pc = "reload" /\ pc' = "super" /\ UNCHANGED <<image, disk, dpend, jsb, jpend, mode, revoked>>
      /\ sb' = [disk[Super] EXCEPT !.recover = FALSE, !.valid = @ /\ ~errors, !.error = @ \/ errno # 0]
  BY DEF Reload, device, result
<1>2. sb'.body = disk[Super].body /\ sb'.journal = disk[Super].journal /\ ~sb'.recover
  <2>1. PICK w : w = disk[Super]
    OBVIOUS
  <2>2. IsBlock(w) /\ w.valid \in BOOLEAN /\ w.error \in BOOLEAN
    BY <1>0, <2>1 DEF IsBlock
  <2>3. PICK valid \in BOOLEAN : valid = (w.valid /\ ~errors)
    BY Zenon
  <2>4. PICK error \in BOOLEAN : error = (w.error \/ errno # 0)
    BY Zenon
  <2>5. sb' = [w EXCEPT !.recover = FALSE, !.valid = valid, !.error = error]
    BY <1>1, <2>1, <2>3, <2>4, Zenon
  <2>6. sb'.body = w.body /\ sb'.journal = w.journal /\ ~sb'.recover
    BY <2>2, <2>5, BlockKeeps
  <2>7. QED
    BY <2>1, <2>6
<1>3. RevokeInv' /\ ReplayInv'
  BY <1>1 DEF RevokeInv, ReplayInv
<1>4. HomesInv'
  BY <1>1 DEF FineInv, HomesInv
<1>5. SuperInv'
  BY <1>0, <1>1, <1>2 DEF FineInv, SuperInv
<1>6. ExactInv'
  BY <1>1, <1>2 DEF FineInv, ExactInv, TableInv
<1>7. QED
  BY <1>3, <1>4, <1>5, <1>6 DEF FineInv

\* The first pass, to its end.
LEMMA ScanFine ==
    ASSUME DeviceInv, WalkInv, JournalInv, FollowInv, Intact, FineInv,
           RecoverLog \/ ScanStops \/ ScanBlock \/ ScanCommit \/ ScanTornCommit \/ ScanFails
    PROVE  FineInv'
<1> USE DEF device, result
<1>1. UNCHANGED <<image, disk, dpend, jsb, jpend, revoked, mode>> /\ pc \in {"recover", "scan"}
  BY DEF RecoverLog, ScanStops, ScanBlock, ScanCommit, ScanTornCommit, ScanFails, Scanning
<1>2. HomesInv /\ SuperInv /\ ExactInv
  BY DEF FineInv
<1>3. CASE ScanStops \/ ScanTornCommit
  <2>0. pc = "scan" /\ checksum_ok(next_block) /\ doubt = FALSE /\ TableInv
    <3>1. pc = "scan"
      BY <1>3 DEF ScanStops, ScanTornCommit, Scanning
    <3>2. next_block \in LogBlocks
      BY <3>1 DEF WalkInv
    <3>3. QED
      BY <1>2, <3>1, <3>2, IntactSound DEF ExactInv
  <2>a. reads = Last \/ ~Expected(next_block) \/ log[next_block].kind = "other"
    BY <1>3, <2>0 DEF ScanStops, ScanTornCommit
  <2>1. RevokeInv' /\ pc' = "revoke"
    BY <1>3, <2>0, <2>a, ScanEndFine
  <2>2. ReplayInv'
    BY <2>1 DEF ReplayInv
  <2>3. HomesInv' /\ SuperInv' /\ ExactInv'
    BY <1>1, <1>2, <2>1, QuietFine, ReadingExact
  <2>4. QED
    BY <2>1, <2>2, <2>3 DEF FineInv
<1>4. CASE RecoverLog \/ ScanBlock \/ ScanCommit
  <2>1. pc' = "scan"
    BY <1>4 DEF RecoverLog, ScanBlock, ScanCommit, Scanning
  <2>2. doubt = FALSE /\ \A b \in Homes : revoked[b] = None
    BY <1>1, <1>2 DEF ExactInv, TableInv
  <2>3. doubt' = FALSE
    <3>1. CASE RecoverLog \/ ScanCommit
      BY <2>2, <3>1 DEF RecoverLog, ScanCommit
    <3>2. CASE ScanBlock
      <4>1. pc = "scan" /\ doubt' = (doubt \/ ~checksum_ok(next_block))
        BY <3>2 DEF ScanBlock, Scanning
      <4>2. next_block \in LogBlocks
        BY <4>1 DEF WalkInv
      <4>3. checksum_ok(next_block)
        BY <4>1, <4>2, IntactSound
      <4>4. QED
        BY <2>2, <4>1, <4>3, Zenon
    <3>3. QED
      BY <1>4, <3>1, <3>2
  <2>4. RevokeInv' /\ ReplayInv'
    BY <2>1 DEF RevokeInv, ReplayInv
  <2>5. HomesInv' /\ SuperInv'
    BY <1>1, <1>2, <2>1, QuietFine
  <2>6. ExactInv'
    BY <1>1, <1>2, <2>1, <2>2, <2>3 DEF ExactInv, TableInv
  <2>7. QED
    BY <2>4, <2>5, <2>6 DEF FineInv
<1>5. CASE ScanFails
  <2>1. pc = "scan" /\ doubt
    BY <1>5 DEF ScanFails, Scanning
  <2>2. doubt = FALSE
    BY <1>2, <2>1 DEF ExactInv
  <2>3. QED
    BY <2>1, <2>2, Zenon
<1>6. QED
  BY <1>3, <1>4, <1>5

\* The second and third pass.
LEMMA PassFine ==
    ASSUME DeviceInv, WalkInv, JournalInv, FollowInv, Intact, FineInv,
           PassStops \/ PassCommit \/ PassSkips \/ RevokeRecords \/ PassFails \/ ReplayDescriptor
    PROVE  FineInv'
<1> USE DEF device, result
<1>1. /\ UNCHANGED <<image, disk, dpend, jsb, jpend, mode>> /\ pc \in {"revoke", "replay"}
      /\ DOMAIN revoked' = DOMAIN revoked
  BY DEF PassStops, PassCommit, PassSkips, RevokeRecords, PassFails, ReplayDescriptor, Passing
<1>2. RevokeInv /\ ReplayInv /\ HomesInv /\ SuperInv /\ ExactInv
  BY DEF FineInv
<1>3. CASE PassFails
  <2>1. next_block \in LogBlocks
    BY <1>1 DEF WalkInv
  <2>2. checksum_ok(next_block) /\ log[next_block].recs # BadCount
    BY <1>1, <2>1, IntactSound
  <2>3. QED
    BY <1>3, <2>2 DEF PassFails
<1>4. CASE PassStops /\ pc = "replay"
  <2>1. pc' = "flush" /\ \A b \in Homes : Same(b, disk[b], image.goal[b])
    BY <1>2, <1>4, ReplayEndFine
  <2>2. HomesInv'
    BY <1>1, <1>2, <2>1 DEF HomesInv
  <2>3. SuperInv'
    BY <1>1, <1>2, <2>1 DEF SuperInv
  <2>4. ExactInv'
    BY <1>1, <1>2, <2>1, ReadingExact
  <2>5. RevokeInv' /\ ReplayInv'
    BY <2>1 DEF RevokeInv, ReplayInv
  <2>6. QED
    BY <2>2, <2>3, <2>4, <2>5 DEF FineInv
<1>5. CASE ~PassFails /\ ~(PassStops /\ pc = "replay")
  <2>1. (pc' = "revoke" /\ RevokeInv') \/ (pc' = "replay" /\ ReplayInv')
    <3>1. CASE PassStops
      <4>1. pc = "revoke"
        BY <1>1, <1>5, <3>1
      <4>2. QED
        BY <1>2, <3>1, <4>1, RevokeEndFine
    <3>2. CASE ReplayDescriptor
      BY <1>2, <3>2, DescriptorFine
    <3>3. CASE (PassCommit \/ PassSkips \/ RevokeRecords) /\ pc = "revoke"
      BY <1>2, <3>3, RevokeFine DEF ExactInv
    <3>4. CASE (PassCommit \/ PassSkips) /\ pc = "replay"
      BY <1>2, <3>4, ReplayBlockFine
    <3>5. CASE RevokeRecords
      <4>1. pc = "revoke"
        BY <3>5 DEF RevokeRecords, Passing
      <4>2. QED
        BY <3>3, <3>5, <4>1
    <3>6. QED
      BY <1>1, <1>5, <3>1, <3>2, <3>3, <3>4, <3>5
  <2>2. RevokeInv' /\ ReplayInv'
    BY <2>1 DEF RevokeInv, ReplayInv
  <2>3. HomesInv' /\ SuperInv'
    BY <1>1, <1>2, <2>1, QuietFine
  <2>4. ExactInv'
    BY <1>1, <1>2, <2>1, ReadingExact
  <2>5. QED
    BY <2>2, <2>3, <2>4 DEF FineInv
<1>6. QED
  BY <1>3, <1>4, <1>5

\* A block of the log written to its home, while the log is there.
LEMMA ReplayFine ==
    ASSUME DeviceInv, WalkInv, JournalInv, FollowInv, Intact, FineInv, ReplayTag
    PROVE  FineInv'
<1> USE DEF device, result
<1>1. RevokeInv /\ ReplayInv /\ HomesInv /\ SuperInv /\ ExactInv
  BY DEF FineInv
<1>2. /\ ReplayInv' /\ pc = "replay" /\ UNCHANGED <<image, header, pc>>
      /\ \/ UNCHANGED <<disk, dpend>>
         \/ \E K \in 0 .. Last : \E home \in Homes : \E x \in Writes(image, Way, K, home) :
               LogEnds(image, Way, K) /\ WriteHome(home, Value(image, Way, x))
  BY <1>1, TagFine
<1>3. UNCHANGED <<jsb, jpend, revoked, mode>>
  BY DEF ReplayTag
<1>4. RevokeInv' /\ ExactInv'
  BY <1>1, <1>2, <1>3, ReadingExact DEF RevokeInv
<1>5. HomesInv' /\ SuperInv'
  <2>1. CASE UNCHANGED <<disk, dpend>>
    BY <1>1, <1>2, <1>3, <2>1, QuietFine
  <2>2. CASE \E K \in 0 .. Last : \E home \in Homes : \E x \in Writes(image, Way, K, home) :
                LogEnds(image, Way, K) /\ WriteHome(home, Value(image, Way, x))
    <3>1. PICK K \in 0 .. Last : \E home \in Homes : \E x \in Writes(image, Way, K, home) :
                  LogEnds(image, Way, K) /\ WriteHome(home, Value(image, Way, x))
      BY <2>2
    <3>2. PICK home \in Homes : \E x \in Writes(image, Way, K, home) :
                  LogEnds(image, Way, K) /\ WriteHome(home, Value(image, Way, x))
      BY <3>1
    <3>3. PICK x \in Writes(image, Way, K, home) : LogEnds(image, Way, K) /\ WriteHome(home, Value(image, Way, x))
      BY <3>2
    <3>4. PICK v : v = Value(image, Way, x)
      OBVIOUS
    <3>5. image \in Images /\ IsLegible(image) /\ image.jsb.start # 0 /\ Way = Trail(image)
      BY <1>2, OnTheWay, IntactIsLegible DEF Way, Intact
    <3>6. home \in image.logged /\ \A y \in Writes(image, Way, K, Super) : Value(image, Way, y).journal
      <4>1. LogEnds(image, Trail(image), K) /\ Writes(image, Trail(image), K, home) # {}
        BY <3>3, <3>5
      <4>2. QED
        BY <3>5, <4>1, GoalOf
    <3>7. \A j \in jpend : j.start # 0
      BY <1>2 DEF JournalInv
    <3>8. WriteHome(home, v)
      BY <3>3, <3>4
    <3>9. HomesInv'
      <4>1. image' = image /\ jpend' = jpend /\ pc' # "flush" /\ pc' # "reset"
        BY <1>2, <1>3
      <4>2. QED
        BY <1>1, <3>6, <3>7, <3>8, <4>1, HomeWritten
    <3>10. Super \in Homes /\ DOMAIN dpend = Homes
      BY RecoveryAssumption DEF DeviceInv
    <3>11. \A u \in dpend'[Super] : u \in dpend[Super] \/ (home = Super /\ u = v)
      BY <3>8, <3>10 DEF WriteHome
    <3>12. home = Super => v.journal
      BY <3>3, <3>4, <3>6
    <3>13. SuperInv'
      BY <1>1, <1>2, <3>11, <3>12 DEF SuperInv
    <3>14. QED
      BY <3>9, <3>13
  <2>3. QED
    BY <1>2, <2>1, <2>2
<1>6. QED
  BY <1>2, <1>4, <1>5 DEF FineInv

\* Each step of a check of an intact journal.
LEMMA FineStep ==
    ASSUME DeviceInv, WalkInv, JournalInv, FollowInv, Intact, FineInv, Next
    PROVE  FineInv'
<1>1. CASE \E m \in Modes : Open(m)
  BY <1>1, OpenFine
<1>2. CASE DeviceFails \/ PowerCut
  BY <1>2, CutShortFine
<1>3. CASE Step
  <2>1. CASE ClearFlag \/ PreenHalt \/ CarryErrno \/ FlushSuperblock
    BY <2>1, SuperblockFine
  <2>2. CASE ClearErrno \/ RecoverEmpty \/ ResetLog
    BY <2>2, ResetFine
  <2>3. CASE FlushHomes \/ FlushReset \/ Sync
    BY <2>3, FlushFine
  <2>4. CASE RecoverLog \/ ScanStops \/ ScanBlock \/ ScanCommit \/ ScanTornCommit \/ ScanFails
    BY <2>4, ScanFine
  <2>5. CASE PassStops \/ PassCommit \/ PassSkips \/ RevokeRecords \/ PassFails \/ ReplayDescriptor
    BY <2>5, PassFine
  <2>6. QED
    BY <1>3, <2>1, <2>2, <2>3, <2>4, <2>5, ReplayFine, ReloadFine DEF Step
<1>4. QED
  BY <1>1, <1>2, <1>3 DEF Next

\* No step changes what the device was found as.
LEMMA ImageStays ==
    ASSUME Next
    PROVE  image' = image
<1>1. CASE (\E m \in Modes : Open(m)) \/ DeviceFails \/ PowerCut
  BY <1>1 DEF Open, DeviceFails, PowerCut
<1>2. CASE Step
  BY <1>2 DEF Step, ClearFlag, PreenHalt, ClearErrno, CarryErrno, RecoverEmpty, RecoverLog, ScanStops, ScanBlock,
              ScanCommit, ScanTornCommit, ScanFails, PassStops, PassCommit, PassSkips, RevokeRecords, PassFails,
              ReplayDescriptor, ReplayTag, FlushHomes, ResetLog, FlushReset, Reload, FlushSuperblock, Sync
<1>3. QED
  BY <1>1, <1>2 DEF Next

\* The invariant of an intact journal, at the start.
LEMMA FineInit ==
    ASSUME Init
    PROVE  JournalInv /\ (Intact => FineInv)
<1>1. /\ image \in Images /\ disk = image.disk /\ dpend = [b \in Homes |-> {disk[b]}] /\ jsb = image.jsb /\ jpend = {jsb}
      /\ pc = "idle" /\ mode = "check" /\ revoked = [b \in Homes \cup {Outside} |-> None]
  BY DEF Init
<1>2. JournalInv
  BY <1>1 DEF JournalInv
<1>3. ASSUME Intact PROVE FineInv
  <2>1. RevokeInv /\ ReplayInv
    BY <1>1 DEF RevokeInv, ReplayInv
  <2>2. \A b \in Homes : dpend[b] = {image.disk[b]}
    BY <1>1
  <2>3. \A b \in Homes : Same(b, image.disk[b], image.goal[b]) \/ (b \in image.logged /\ image.jsb.start # 0)
    BY <1>1, <1>3, GoalWhereSilent, IntactIsLegible DEF Intact
  <2>4. HomesInv
    BY <1>1, <2>2, <2>3 DEF HomesInv
  <2>5. image.jsb.start # 0 => image.disk[Super].journal
    BY <1>1, <1>3, GoalAssumption, IntactIsLegible DEF Intact, IsGoal
  <2>6. SuperInv
    BY <1>1, <2>2, <2>5, RecoveryAssumption DEF SuperInv
  <2>7. ExactInv
    BY <1>1 DEF ExactInv, TableInv
  <2>8. QED
    BY <2>1, <2>4, <2>6, <2>7 DEF FineInv
<1>4. QED
  BY <1>2, <1>3

\* A step that changes none of their state leaves the passes where they are.
LEMMA PassesRest ==
    ASSUME RevokeInv, ReplayInv,
           UNCHANGED <<image, disk, pc, header, next_commit, next_block, end, revoked, tags>>
    PROVE  RevokeInv' /\ ReplayInv'
<1>0. Way' = Way /\ log' = log
  BY Frames
<1>1. ASSUME NEW k PROVE AtPlace(k) => AtPlace(k)'
  BY <1>0 DEF AtPlace
<1>2. ASSUME NEW K, NEW k, NEW i PROVE InDescriptor(K, k, i) => InDescriptor(K, k, i)'
  BY <1>0 DEF InDescriptor
<1>3. RevokeInv'
  <2> SUFFICES ASSUME pc = "revoke" PROVE RevokeInv'
    BY DEF RevokeInv
  <2>1. PICK K \in 0 .. Last : \E k \in 0 .. K :
           /\ Ends(K, k) /\ AtPlace(k) /\ LegibleTo(k)
           /\ \A b \in Homes : Marks(b, Revokers(image, Way, K, b) \cap 0 .. k - 1)
    BY DEF RevokeInv
  <2>2. PICK k \in 0 .. K :
           /\ Ends(K, k) /\ AtPlace(k) /\ LegibleTo(k)
           /\ \A b \in Homes : Marks(b, Revokers(image, Way, K, b) \cap 0 .. k - 1)
    BY <2>1
  <2>3. Ends(K, k)' /\ AtPlace(k)' /\ LegibleTo(k)'
    BY <1>0, <1>1, <2>2, Frames DEF LegibleTo
  <2>4. ASSUME NEW b \in Homes PROVE Marks(b, Revokers(image, Way, K, b) \cap 0 .. k - 1)'
    BY <1>0, <2>2 DEF Marks
  <2>5. QED
    BY <2>3, <2>4 DEF RevokeInv
<1>4. ReplayInv'
  <2> SUFFICES ASSUME pc = "replay" PROVE ReplayInv'
    BY DEF ReplayInv
  <2>1. PICK K \in 0 .. Last : \E k \in 0 .. K : \E i \in 1 .. Last :
           /\ Ends(K, k) /\ ((i = 1 /\ AtPlace(k)) \/ InDescriptor(K, k, i))
           /\ \A b \in Homes : Marks(b, Revokers(image, Way, K, b))
           /\ Written(K, k, i)
    BY DEF ReplayInv
  <2>2. PICK k \in 0 .. K : \E i \in 1 .. Last :
           /\ Ends(K, k) /\ ((i = 1 /\ AtPlace(k)) \/ InDescriptor(K, k, i))
           /\ \A b \in Homes : Marks(b, Revokers(image, Way, K, b))
           /\ Written(K, k, i)
    BY <2>1
  <2>3. PICK i \in 1 .. Last :
           /\ Ends(K, k) /\ ((i = 1 /\ AtPlace(k)) \/ InDescriptor(K, k, i))
           /\ \A b \in Homes : Marks(b, Revokers(image, Way, K, b))
           /\ Written(K, k, i)
    BY <2>2
  <2>4. Ends(K, k)' /\ ((i = 1 /\ AtPlace(k)') \/ InDescriptor(K, k, i)') /\ Written(K, k, i)'
    BY <1>1, <1>2, <2>3, Frames
  <2>5. ASSUME NEW b \in Homes PROVE Marks(b, Revokers(image, Way, K, b))'
    BY <1>0, <2>3 DEF Marks
  <2>6. QED
    BY <2>4, <2>5 DEF ReplayInv
<1>5. QED
  BY <1>3, <1>4

\* The invariants of a check of the journal.
LEMMA FineHolds == Spec => []JournalInv /\ [](Intact => FineInv)
<1>1. Init => JournalInv /\ (Intact => FineInv)
  BY FineInit
<1>2. DeviceInv /\ WalkInv /\ JournalInv /\ [Next]_vars => JournalInv'
  <2>1. CASE Next
    BY <2>1, JournalStep
  <2>2. CASE UNCHANGED vars
    BY <2>2 DEF vars, device, walk, result, JournalInv
  <2>3. QED
    BY <2>1, <2>2
<1>3. DeviceInv /\ WalkInv /\ FollowInv /\ JournalInv /\ (Intact => FineInv) /\ [Next]_vars => (Intact => FineInv)'
  <2> SUFFICES ASSUME DeviceInv, WalkInv, FollowInv, JournalInv, Intact => FineInv, [Next]_vars, Intact'
               PROVE  FineInv'
    OBVIOUS
  <2>1. CASE Next
    <3>1. Intact
      BY <2>1, ImageStays, Frames
    <3>2. QED
      BY <2>1, <3>1, FineStep
  <2>2. CASE UNCHANGED vars
    <3>1. FineInv /\ UNCHANGED <<image, disk, dpend, jsb, jpend, pc, mode, sb, header, next_commit, next_block, doubt, end,
                                 revoked, tags>>
      BY <2>2 DEF vars, device, walk, result, Intact
    <3>2. RevokeInv' /\ ReplayInv'
      BY <3>1, PassesRest DEF FineInv
    <3>3. HomesInv' /\ SuperInv' /\ ExactInv'
      BY <3>1 DEF FineInv, HomesInv, SuperInv, ExactInv, TableInv
    <3>4. QED
      BY <3>2, <3>3 DEF FineInv
  <2>3. QED
    BY <2>1, <2>2
<1>4. QED
  BY <1>1, <1>2, <1>3, InvariantsHold, FollowHolds, PTL DEF Spec

\* For every intact log, and however often the power goes, the journal is emptied only over homes that have what
\* it held: whatever a power cut leaves, a home shows its final contents, or a log still to be replayed has a say in
\* it (recover: the homes are flushed before the journal superblock is reset).
THEOREM NothingIsLost == Spec => []NothingLost
<1>1. DeviceInv /\ (Intact => FineInv) => NothingLost
  <2> SUFFICES ASSUME DeviceInv, FineInv, NEW j \in jpend, NEW b \in Plain, NEW v \in dpend[b]
               PROVE  v = image.goal[b] \/ (j.start # 0 /\ b \in image.logged)
    BY DEF NothingLost
  <2>1. b \in Homes /\ b # Super
    BY DEF Plain
  <2>2. Same(b, v, image.goal[b]) \/ (b \in image.logged /\ j.start # 0)
    BY <2>1 DEF FineInv, HomesInv
  <2>3. QED
    BY <2>1, <2>2 DEF Same
<1>2. QED
  BY <1>1, InvariantsHold, FineHolds, PTL

\* For every intact log, a check that repairs ends with every home as the log's committed and unrevoked writes make
\* it, in the order they were committed, however many checks were cut short before it, and with needs_recovery clear
\* (recover, journal_stage): replaying is idempotent.
THEOREM ReplayIsExact == Spec => []ReplayedExactly
<1>1. DeviceInv /\ JournalInv /\ (Intact => FineInv) => ReplayedExactly
  <2> SUFFICES ASSUME DeviceInv, JournalInv, FineInv, pc = "done", mode = "repair", jsb.ok
               PROVE  /\ \A b \in Plain : disk[b] = image.goal[b]
                      /\ disk[Super].body = image.goal[Super].body
                      /\ ~disk[Super].recover
    BY DEF ReplayedExactly
  <2>1. jsb \in jpend /\ Super \in Homes /\ \A b \in Homes : disk[b] \in dpend[b]
    BY RecoveryAssumption DEF DeviceInv
  <2>2. image.jsb.ok
    BY <2>1 DEF JournalInv
  <2>3. jsb.start = 0 /\ ~disk[Super].recover
    BY <2>2 DEF FineInv, ExactInv
  <2>4. \A b \in Homes : Same(b, disk[b], image.goal[b])
    BY <2>1, <2>3, EmptyIsSafe DEF FineInv
  <2>5. QED
    BY <2>1, <2>3, <2>4 DEF Same, Plain
<1>2. QED
  BY <1>1, InvariantsHold, FineHolds, PTL

-------------------------------------------------------------------------------
(* The log restarts past every transaction it held *)

\* What recovery of an intact log knows of its end.
RetireInv ==
    /\ pc \in {"recover", "scan", "revoke", "replay", "flush", "reset"} => failed = FALSE
    /\ pc \in {"flush", "reset"} =>
          \E K \in 0 .. Last : LogEnds(image, Way, K) /\ end = Tid(image.jsb.sequence, Way[K][1])
    /\ pc = "settle" => /\ image.jsb.start # 0 /\ image.jsb.ok
                        /\ \E K \in 0 .. Last : /\ LogEnds(image, Way, K)
                                                /\ jsb.sequence = Tid(image.jsb.sequence, Way[K][1] + 1)

\* Of two sequence numbers no more than half their range apart the earlier is not taken for the later one,
\* whichever lap it is of.
LEMMA TidBehind ==
    ASSUME NEW sequence \in Tids, NEW n \in Int, NEW m \in Int, n < m, m - n <= TidMod \div 2
    PROVE  ~tid_geq(Tid(sequence, n), Tid(sequence, m))
<1> DEFINE T == TidMod
           H == TidMod \div 2
           d == m - n
           x == sequence + n
           y == sequence + m
           a == x % T
           b == y % T
<1>1. T \in Nat /\ T > 0 /\ H \in Nat /\ T = 2 * H /\ H > 0
  BY RecoveryAssumption
<1>2. \A z \in Int : z % T \in 0 .. T - 1
  BY <1>1
<1>3. /\ d \in Nat /\ d > 0 /\ d <= H /\ d < T /\ y = x + d /\ x \in Int /\ y \in Int
      /\ a \in 0 .. T - 1 /\ b \in 0 .. T - 1
  BY <1>1, <1>2 DEF Tids
<1>4. b = a + d \/ b = a + d - T
  <2>1. b = (x + d) % T
    BY <1>3
  <2> HIDE DEF d, x, y, b
  <2>2. (x + d) % T = (x % T) + d \/ (x + d) % T = (x % T) + d - T
    BY <1>1, <1>3, ModAdds
  <2>3. QED
    BY <2>1, <2>2
<1> HIDE DEF d, x, y, a, b
<1>5. (a - b) % T = T - d
  BY <1>1, <1>3, <1>4
<1>6. (a - b) % T \notin 0 .. H - 1
  BY <1>1, <1>3, <1>5
<1>7. QED
  BY <1>6 DEF Tid, tid_geq, a, b, x, y

\* A commit block of an intact log that was replayed is behind the sequence the log restarts at: it is one of the
\* transactions of the log, or of an earlier lap.
LEMMA CommitsAreBehind ==
    ASSUME NEW im \in Images, IsIntact(im), im.jsb.start # 0, im.jsb.ok, NEW K \in 0 .. Last, LogEnds(im, Trail(im), K),
           NEW b \in LogBlocks, im.log[b].kind = "commit"
    PROVE  ~tid_geq(im.log[b].seq, Tid(im.jsb.sequence, Trail(im)[K][1] + 1))
<1> DEFINE w == Trail(im)
<1>0. Last \in Nat /\ K \in Nat /\ K <= Last /\ Last < TidMod \div 2 /\ TidMod \div 2 \in Nat
  BY RecoveryAssumption, LogFits
<1>1. im.jsb.sequence \in Tids /\ im.jsb.start \in LogBlocks
  BY ImageAssumption DEF IsHeader, Tids, LogBlocks
<1>2. IsTrail(w, im, im.jsb.start)
  BY <1>1, TrailIsTrail
<1>3. \A k \in 0 .. Last : w[k][1] \in Nat
  BY <1>2 DEF IsTrail, Places
<1>4. w[K][1] \in Nat /\ w[K][1] <= Last
  <2>1. w[0][1] <= w[K][1] /\ w[K][1] - w[0][1] <= K - 0
    BY <1>0, <1>1, <1>2, TrailCounts
  <2>2. w[0] = <<0, im.jsb.start>>
    BY <1>2 DEF IsTrail
  <2>3. QED
    BY <1>0, <1>3, <2>1, <2>2
<1>5. CASE \E j \in 0 .. K - 1 : w[j][2] = b
  <2>1. PICK j \in 0 .. K - 1 : w[j][2] = b
    BY <1>5
  <2>2. Taken(im, w, j) /\ j \in 0 .. Last /\ j + 1 \in 0 .. Last /\ K \in (j + 1) .. Last /\ j \in 0 .. Last - 1
    BY <1>0 DEF LogEnds
  <2>3. im.log[b].seq = Tid(im.jsb.sequence, w[j][1])
    BY <2>1, <2>2 DEF Taken
  <2>4. w[j + 1] = After(im, w[j])
    BY <1>2, <2>2 DEF IsTrail
  <2>5. w[j + 1][1] = w[j][1] + 1
    BY <2>1, <2>4 DEF After
  <2>6. w[j + 1][1] <= w[K][1]
    BY <1>1, <1>2, <2>2, TrailCounts
  <2>7. w[j][1] \in Nat /\ w[j + 1][1] \in Nat
    BY <1>3, <2>2
  <2> HIDE DEF w
  <2>8. w[j][1] < w[K][1] + 1 /\ (w[K][1] + 1) - w[j][1] <= TidMod \div 2
    BY <1>0, <1>4, <2>5, <2>6, <2>7
  <2>9. QED
    BY <1>1, <1>4, <2>3, <2>7, <2>8, TidBehind DEF w
<1>6. CASE \A j \in 0 .. K - 1 : w[j][2] # b
  <2>1. IsWriters(im)
    BY WriterAssumption
  <2>2. PICK n \in w[K][1] + 1 - (TidMod \div 2) .. w[K][1] : im.log[b].seq = Tid(im.jsb.sequence, n)
    BY <1>6, <2>1 DEF IsWriters, LogBlocks
  <2> HIDE DEF w
  <2>3. n \in Int /\ n < w[K][1] + 1 /\ (w[K][1] + 1) - n <= TidMod \div 2 /\ w[K][1] + 1 \in Int
    BY <1>0, <1>4
  <2>4. QED
    BY <1>1, <2>2, <2>3, TidBehind DEF w
<1>7. QED
  BY <1>5, <1>6

\* Each step of a check of an intact journal keeps what recovery knows of the log's end.
LEMMA RetireStep ==
    ASSUME DeviceInv, WalkInv, JournalInv, FollowInv, Intact, FineInv, RetireInv, Next
    PROVE  RetireInv'
<1> USE DEF device, result
<1>0. image' = image /\ Way' = Way /\ jsb \in jpend
  BY ImageStays, Frames DEF DeviceInv
<1>1. ASSUME NEW m \in Modes, Open(m) PROVE RetireInv'
  <2>1. Rest /\ pc' = Route(m)
    BY <1>1 DEF Open
  <2>2. Route(m) \in {"done", "unflag", "halt", "clear", "recover"}
    BY DEF Route
  <2>3. QED
    BY <2>1, <2>2 DEF Rest, RetireInv
<1>2. CASE DeviceFails \/ PowerCut
  BY <1>2 DEF DeviceFails, PowerCut, RetireInv
<1>3. CASE ClearFlag \/ PreenHalt \/ CarryErrno \/ FlushSuperblock \/ ClearErrno \/ RecoverEmpty \/ FlushReset \/ Sync \/ Reload
  <2>1. pc' \in {"done", "sync", "carry", "reload", "super"}
    BY <1>3 DEF ClearFlag, PreenHalt, CarryErrno, FlushSuperblock, ClearErrno, RecoverEmpty, FlushReset, Sync, Reload
  <2>2. QED
    BY <2>1 DEF RetireInv
<1>4. CASE RecoverLog \/ ScanStops \/ ScanBlock \/ ScanCommit \/ ScanTornCommit \/ ScanFails
  <2>1. ~ScanFails
    <3> SUFFICES ASSUME ScanFails PROVE FALSE
      OBVIOUS
    <3>1. pc = "scan" /\ doubt
      BY DEF ScanFails, Scanning
    <3>2. doubt = FALSE
      BY <3>1 DEF FineInv, ExactInv
    <3>3. QED
      BY <3>1, <3>2, Zenon
  <2>2. pc \in {"recover", "scan"} /\ pc' \in {"scan", "revoke"} /\ failed' = failed
    BY <1>4, <2>1 DEF RecoverLog, ScanStops, ScanBlock, ScanCommit, ScanTornCommit, Scanning, ScanEnds
  <2>3. QED
    BY <2>2 DEF RetireInv
<1>5. CASE PassStops \/ PassCommit \/ PassSkips \/ RevokeRecords \/ PassFails \/ ReplayDescriptor
  <2>1. pc \in {"revoke", "replay"}
    BY <1>5 DEF PassStops, PassCommit, PassSkips, RevokeRecords, PassFails, ReplayDescriptor, Passing
  <2>2. ~PassFails
    <3>1. next_block \in LogBlocks
      BY <2>1 DEF WalkInv
    <3>2. checksum_ok(next_block) /\ log[next_block].recs # BadCount
      BY <2>1, <3>1, IntactSound
    <3>3. QED
      BY <3>2 DEF PassFails
  <2>3. CASE PassStops /\ pc = "replay"
    <3>1. pc' = "flush" /\ failed' = failed
      BY <2>3, ReplayEnd DEF FineInv
    <3>2. \E K \in 0 .. Last : LogEnds(image, Way, K) /\ end = Tid(header.sequence, Way[K][1])
      BY <2>3 DEF FineInv, ReplayInv, Ends
    <3>3. header.sequence = image.jsb.sequence
      BY <2>1, OnTheWay
    <3>4. end' = end
      BY <2>3 DEF PassStops
    <3>5. QED
      BY <1>0, <2>1, <3>1, <3>2, <3>3, <3>4 DEF RetireInv
  <2>4. CASE PassStops /\ pc = "revoke"
    <3>1. pc' = "replay"
      BY <2>4, RevokeEndFine DEF FineInv
    <3>2. failed' = failed
      BY <2>4, <3>1 DEF PassStops, Fail
    <3>3. QED
      BY <2>1, <3>1, <3>2 DEF RetireInv
  <2>5. CASE PassCommit \/ PassSkips \/ RevokeRecords \/ ReplayDescriptor
    <3>1. pc' = pc /\ failed' = failed
      BY <2>5 DEF PassCommit, PassSkips, RevokeRecords, ReplayDescriptor
    <3>2. QED
      BY <2>1, <3>1 DEF RetireInv
  <2>6. QED
    BY <1>5, <2>1, <2>2, <2>3, <2>4, <2>5
<1>6. CASE ReplayTag
  <2>1. pc = "replay" /\ pc' = pc /\ tags # << >> /\ next_block \in LogBlocks
    BY <1>6 DEF ReplayTag, WalkInv
  <2>2. failed' = failed
    <3> DEFINE home == Head(tags).home
    <3>1. checksum_ok(next_block)
      BY <2>1, IntactSound
    <3>2. home # Outside
      <4>1. PICK K \in 0 .. Last : \E k \in 0 .. K : \E i \in 1 .. Last :
                    ReplayAt(K, k, i) /\ (tags # << >> => InDescriptor(K, k, i))
        BY <2>1, ReplayIsAt DEF FineInv
      <4>2. PICK k \in 0 .. K : \E i \in 1 .. Last : InDescriptor(K, k, i)
        BY <2>1, <4>1
      <4>3. PICK i \in 1 .. Last : InDescriptor(K, k, i)
        BY <4>2
      <4> DEFINE T == log[Way[k][2]].tags
      <4>4. k \in 0 .. Last
        BY RecoveryAssumption
      <4>5. Way[k][2] \in LogBlocks /\ T \in Seq(Tag) /\ DOMAIN T = 1 .. Len(T)
        BY <2>1, <4>4, OnTheWay, DescriptorTags
      <4>6. tags[1] = T[(i - 1) + 1] /\ i \in 1 .. Len(T)
        <5>1. tags \in Seq(Tag)
          BY DEF WalkInv
        <5>2. 1 \in 1 .. Len(tags)
          BY <2>1, <5>1
        <5>3. QED
          BY <4>3, <5>2 DEF InDescriptor
      <4>7. Head(tags) = T[i]
        <5>1. tags \in Seq(Tag)
          BY DEF WalkInv
        <5>2. Head(tags) = tags[1] /\ (i - 1) + 1 = i
          BY <2>1, <5>1
        <5>3. QED
          BY <4>6, <5>2
      <4>8. \A j \in DOMAIN T : T[j].home # Outside
        BY <4>5, IntactSound
      <4>9. QED
        BY <4>5, <4>6, <4>7, <4>8
    <3> HIDE DEF home
    <3>3. QED
      BY <1>6, <3>1, <3>2 DEF ReplayTag, home
  <2>3. QED
    BY <2>1, <2>2 DEF RetireInv
<1>7. CASE FlushHomes
  <2>1. pc = "flush" /\ pc' = "reset" /\ failed' = failed /\ end' = end
    BY <1>7 DEF FlushHomes
  <2>2. QED
    BY <1>0, <2>1 DEF RetireInv
<1>8. CASE ResetLog
  <2>1. pc = "reset" /\ pc' = "settle" /\ jsb' = header' /\ header' = [header EXCEPT !.sequence = Restart, !.start = 0, !.errno = 0]
    BY <1>8 DEF ResetLog, reset, WriteJsb
  <2>2. failed = FALSE /\ Restart = tid_next(end)
    BY <2>1 DEF RetireInv, Restart
  <2>3. jsb'.sequence = tid_next(end)
    <3>1. IsHeader(header)
      BY DEF DeviceInv
    <3>2. header = [ok |-> header.ok, sequence |-> header.sequence, start |-> header.start, errno |-> header.errno]
      BY <3>1 DEF IsHeader
    <3>3. QED
      BY <2>1, <2>2, <3>2
  <2>4. PICK K \in 0 .. Last : LogEnds(image, Way, K) /\ end = Tid(image.jsb.sequence, Way[K][1])
    BY <2>1 DEF RetireInv
  <2>5. jsb.start # 0 /\ image.jsb.start # 0 /\ image \in Images /\ header.ok /\ header = jsb
    BY <1>0, <2>1 DEF JournalInv, DeviceInv, WalkInv
  <2>6. image.jsb.ok
    BY <1>0, <2>5 DEF JournalInv
  <2>7. image.jsb.sequence \in Tids /\ image.jsb.start \in LogBlocks
    BY <2>5, <2>6, ImageAssumption DEF IsHeader, Tids, LogBlocks
  <2>8. Way[K][1] \in Nat
    BY <2>5, <2>7, TrailIsTrail DEF IsTrail, Places, Way
  <2>9. tid_next(end) = Tid(image.jsb.sequence, Way[K][1] + 1)
    BY <2>4, <2>7, <2>8, TidOrder
  <2>10. QED
    BY <1>0, <2>1, <2>3, <2>4, <2>5, <2>6, <2>9 DEF RetireInv
<1>9. QED
  BY <1>1, <1>2, <1>3, <1>4, <1>5, <1>6, <1>7, <1>8 DEF Next, Step

\* For every intact log, wherever its sequence numbers run round: once the journal is reset none of its commit blocks
\* has the sequence the log restarts at, or a later one, so none can be taken for a commit again (recover:
\* "The log restarts past every transaction it held").  What earlier laps left behind is WriterAssumption.
THEOREM RetiredForGood == Spec => []LogIsRetired
<1>1. Init => RetireInv
  BY DEF Init, RetireInv
<1>2. DeviceInv /\ WalkInv /\ FollowInv /\ JournalInv /\ (Intact => FineInv) /\ (Intact => RetireInv) /\ [Next]_vars
      => (Intact => RetireInv)'
  <2> SUFFICES ASSUME DeviceInv, WalkInv, FollowInv, JournalInv, Intact => FineInv, Intact => RetireInv, [Next]_vars, Intact'
               PROVE  RetireInv'
    OBVIOUS
  <2>1. CASE Next
    BY <2>1, ImageStays, Frames, RetireStep
  <2>2. CASE UNCHANGED vars
    <3>1. UNCHANGED <<image, pc, failed, end, jsb>> /\ Intact
      BY <2>2 DEF vars, device, result, Intact
    <3>2. Way' = Way
      BY <3>1, Frames
    <3>3. QED
      BY <3>1, <3>2 DEF RetireInv
  <2>3. QED
    BY <2>1, <2>2
<1>3. DeviceInv /\ WalkInv /\ JournalInv /\ (Intact => RetireInv) => LogIsRetired
  <2> SUFFICES ASSUME DeviceInv, WalkInv, JournalInv, RetireInv, pc = "settle", Intact, NEW b \in First .. Last - 1,
                      log[b].kind = "commit"
               PROVE  ~tid_geq(log[b].seq, jsb.sequence)
    BY DEF LogIsRetired
  <2>1. PICK K \in 0 .. Last : LogEnds(image, Way, K) /\ jsb.sequence = Tid(image.jsb.sequence, Way[K][1] + 1)
    BY DEF RetireInv
  <2>2. image \in Images /\ IsIntact(image) /\ image.jsb.start # 0 /\ image.jsb.ok /\ b \in LogBlocks
    BY DEF DeviceInv, Intact, RetireInv, LogBlocks
  <2>3. QED
    BY <2>1, <2>2, CommitsAreBehind DEF Way, log
<1>4. QED
  BY <1>1, <1>2, <1>3, InvariantsHold, FollowHolds, FineHolds, PTL DEF Spec

-------------------------------------------------------------------------------
(* Damage a replay could not undo is marked *)

\* Until scan ends, last_commit_time is that of a commit block behind it.
TimeInv ==
    /\ pc = "recover" => last_time = 0
    /\ pc = "scan" => \/ last_time = 0
                      \/ \E j \in 0 .. reads - 1 : log[Way[j][2]].kind = "commit" /\ last_time = log[Way[j][2]].time

IsMarked(v) == ~v.valid \/ v.error

Untouched == \A b \in Plain : disk[b] = image.disk[b]

HomesRight == \A b \in Plain : disk[b] = image.goal[b]

\* A home the log does not write has what it had.
Silent ==
    \A b \in Plain, K \in 0 .. Last :
        LogEnds(image, Way, K) /\ Writes(image, Way, K, b) = {} => disk[b] = image.disk[b]

\* The superblock has the mark, or will have it by the end of the check.
Marked ==
    /\ pc \in {"settle", "reload"} => errors \/ IsMarked(disk[Super])
    /\ pc \in {"super", "unflag", "halt", "clear", "carry"} => IsMarked(sb)
    /\ pc \in {"idle", "done", "recover", "sync", "unflag", "halt", "clear", "carry"} => IsMarked(disk[Super])

\* As long as no check was cut short: a replay that has reported nothing does what the log says, and once the log is
\* empty the homes are right or the superblock is, or will be, marked.
DamageInv ==
    crashes = 0 =>
        /\ ~errors => RevokeInv /\ ReplayInv
        /\ pc = "replay" /\ ~errors => IsLegible(image) /\ Silent
        /\ pc \in {"flush", "reset"} /\ ~errors => HomesRight
        /\ jsb.start # 0 /\ pc \notin {"replay", "flush", "reset"} => Untouched
        /\ jsb.start = 0 => HomesRight \/ Marked

\* Each step keeps the revoke table in shape, and empty until the revoke pass.
LEMMA TableStep ==
    ASSUME TableInv, Next
    PROVE  TableInv'
<1> USE DEF device, result
<1>1. CASE (\E m \in Modes : Open(m)) \/ DeviceFails \/ PowerCut
  <2>1. Rest
    BY <1>1 DEF Open, DeviceFails, PowerCut
  <2>2. QED
    BY <2>1 DEF Rest, TableInv
<1>2. CASE RecoverLog \/ ScanStops \/ ScanBlock \/ ScanCommit \/ ScanTornCommit \/ ScanFails
  <2>1. UNCHANGED revoked /\ pc \in {"recover", "scan"}
    BY <1>2 DEF RecoverLog, ScanStops, ScanBlock, ScanCommit, ScanTornCommit, ScanFails, Scanning
  <2>2. QED
    BY <2>1 DEF TableInv
<1>3. CASE RevokeRecords
  <2>1. DOMAIN revoked' = DOMAIN revoked /\ pc' = "revoke"
    BY <1>3 DEF RevokeRecords, Passing
  <2>2. QED
    BY <2>1 DEF TableInv
<1>4. CASE PassStops \/ PassCommit \/ PassSkips \/ PassFails \/ ReplayDescriptor \/ ReplayTag
  <2>1. UNCHANGED revoked /\ pc' \in {"revoke", "replay", "flush"}
    BY <1>4 DEF PassStops, PassCommit, PassSkips, PassFails, ReplayDescriptor, ReplayTag, Passing, Fail
  <2>2. QED
    BY <2>1 DEF TableInv
<1>5. CASE ClearFlag \/ PreenHalt \/ ClearErrno \/ CarryErrno \/ RecoverEmpty \/ FlushHomes \/ ResetLog \/ FlushReset
           \/ Reload \/ FlushSuperblock \/ Sync
  <2>1. UNCHANGED revoked /\ pc' \notin {"recover", "scan"}
    BY <1>5 DEF ClearFlag, PreenHalt, ClearErrno, CarryErrno, RecoverEmpty, FlushHomes, ResetLog, FlushReset, Reload,
                FlushSuperblock, Sync
  <2>2. QED
    BY <2>1 DEF TableInv
<1>6. QED
  BY <1>1, <1>2, <1>3, <1>4, <1>5 DEF Next, Step

\* Scan is as many places down the log's own trail as it has read blocks.
LEMMA ScanIsAt ==
    ASSUME DeviceInv, WalkInv, JournalInv, FollowInv, pc = "scan"
    PROVE  /\ next_commit = Tid(header.sequence, Way[reads][1]) /\ next_block = Way[reads][2]
           /\ Scanned(Way, reads)
<1>1. PICK w : Scans(w)
  BY DEF FollowInv
<1>2. w = Way
  <2>1. IsTrail(w, image, header.start) /\ IsTrail(Way, image, header.start)
    BY <1>1, OnTheWay DEF Scans
  <2>2. QED
    BY <2>1, OneTrail
<1>3. QED
  BY <1>1, <1>2 DEF Scans

\* Each step keeps last_commit_time.
LEMMA TimeStep ==
    ASSUME DeviceInv, WalkInv, JournalInv, FollowInv, TimeInv, Next
    PROVE  TimeInv'
<1> USE DEF device, result
<1>0. image' = image /\ Way' = Way /\ log' = log
  BY ImageStays, Frames
<1>1. CASE (\E m \in Modes : Open(m)) \/ DeviceFails \/ PowerCut
  <2>1. Rest
    BY <1>1 DEF Open, DeviceFails, PowerCut
  <2>2. QED
    BY <2>1 DEF Rest, TimeInv
<1>2. CASE RecoverLog
  <2>1. pc = "recover" /\ pc' = "scan" /\ last_time' = last_time
    BY <1>2 DEF RecoverLog
  <2>2. QED
    BY <2>1 DEF TimeInv
<1>3. CASE ScanBlock \/ ScanCommit
  <2>1. pc = "scan" /\ pc' = "scan" /\ reads' = reads + 1 /\ reads \in Nat
    BY <1>3 DEF ScanBlock, ScanCommit, Scanning, WalkInv
  <2>2. next_block = Way[reads][2]
    BY <2>1, ScanIsAt
  <2>3. reads \in 0 .. (reads + 1) - 1 /\ \A j \in 0 .. reads - 1 : j \in 0 .. (reads + 1) - 1
    BY <2>1
  <2>4. CASE ScanBlock
    <3>1. last_time' = last_time
      BY <2>4 DEF ScanBlock
    <3>2. QED
      BY <1>0, <2>1, <2>3, <3>1 DEF TimeInv
  <2>5. CASE ScanCommit
    <3>1. last_time' = log[next_block].time /\ log[next_block].kind = "commit"
      BY <2>5 DEF ScanCommit
    <3>2. QED
      BY <1>0, <2>1, <2>2, <2>3, <3>1 DEF TimeInv
  <2>6. QED
    BY <1>3, <2>4, <2>5
<1>4. CASE /\ Step
           /\ ~RecoverLog /\ ~ScanBlock /\ ~ScanCommit
  <2>1. pc' \notin {"recover", "scan"}
    BY <1>4 DEF Step, ClearFlag, PreenHalt, ClearErrno, CarryErrno, RecoverEmpty, ScanStops, ScanTornCommit, ScanFails, ScanEnds,
                PassStops, PassCommit, PassSkips, RevokeRecords, PassFails, Passing, Fail,
                ReplayDescriptor, ReplayTag, FlushHomes, ResetLog, FlushReset, Reload, FlushSuperblock, Sync
  <2>2. QED
    BY <2>1 DEF TimeInv
<1>5. QED
  BY <1>1, <1>2, <1>3, <1>4 DEF Next

\* A log's commits are in the order of their times: scan does not stop at one for being an older journal's.
LEMMA NoneIsOlder ==
    ASSUME DeviceInv, WalkInv, JournalInv, FollowInv, TimeInv, ScanStops
    PROVE  reads = Last \/ ~Expected(next_block) \/ log[next_block].kind = "other"
<1> SUFFICES ASSUME reads # Last, Expected(next_block), log[next_block].kind = "commit", log[next_block].time < last_time
             PROVE  FALSE
  BY DEF ScanStops
<1>k. PICK k : k = reads
  OBVIOUS
<1>1. pc = "scan" /\ k \in 0 .. Last - 1 /\ k \in Nat /\ Last \in Nat /\ k \in 0 .. Last
  BY <1>k, RecoveryAssumption DEF ScanStops, WalkInv
<1>2. next_commit = Tid(header.sequence, Way[k][1]) /\ next_block = Way[k][2] /\ Scanned(Way, k)
  BY <1>1, <1>k, ScanIsAt
<1>3. Took(Way, k)
  BY <1>2 DEF Took, Expected
<1>4. \A j \in 0 .. k : j \in 0 .. Last /\ Took(Way, j)
  <2>1. \A j \in 0 .. k : j \in 0 .. Last /\ (j = k \/ j \in 0 .. k - 1)
    BY <1>1
  <2>2. QED
    BY <1>2, <1>3, <2>1 DEF Scanned
<1>5. \A j \in 0 .. k : Taken(image, Way, j)
  BY <1>1, <1>4, TakenIsTook
<1>6. image \in Images /\ image.jsb.start # 0 /\ next_block \in LogBlocks
  BY <1>1, OnTheWay DEF WalkInv
<1>7. log[next_block].time \in Nat
  BY <1>6, TimesAssumption DEF LogBlocks, log
<1>8. CASE last_time = 0
  BY <1>7, <1>8
<1>9. CASE last_time # 0
  <2>1. PICK j \in 0 .. k - 1 : log[Way[j][2]].kind = "commit" /\ last_time = log[Way[j][2]].time
    BY <1>1, <1>9, <1>k DEF TimeInv
  <2>2. CommitTimesRise(image)
    BY <1>6, TimesAssumption
  <2>3. image.log[Way[j][2]].time <= image.log[Way[k][2]].time
    BY <1>1, <1>2, <1>5, <1>6, <2>1, <2>2 DEF CommitTimesRise, Way, log
  <2>4. j \in 0 .. Last
    BY <1>1
  <2>5. Way[j][2] \in LogBlocks
    BY <1>1, <2>4, OnTheWay
  <2>6. log[Way[j][2]].time \in Nat
    BY <1>6, <2>5, TimesAssumption DEF LogBlocks, log
  <2>7. QED
    BY <1>2, <1>7, <2>1, <2>3, <2>6 DEF log
<1>10. QED
  BY <1>8, <1>9

\* A mark stays through what journal_stage does to the superblock.
LEMMA MarksStay ==
    ASSUME NEW v, IsBlock(v), IsMarked(v)
    PROVE  IsMarked([v EXCEPT !.recover = FALSE])
<1> DEFINE a == [v EXCEPT !.recover = FALSE]
<1>1. a.valid = v.valid /\ a.error = v.error
  BY DEF IsBlock
<1>2. QED
  BY <1>1 DEF IsMarked

\* The error flag is a mark.
LEMMA ErrorMarks ==
    ASSUME NEW v, IsBlock(v)
    PROVE  IsMarked([v EXCEPT !.error = TRUE])
<1>1. [v EXCEPT !.error = TRUE].error = TRUE
  BY DEF IsBlock
<1>2. QED
  BY <1>1 DEF IsMarked

\* So is what errors take from the superblock that is read again, and a mark it has stays.
LEMMA ReloadKeepsMark ==
    ASSUME NEW v, IsBlock(v), NEW valid \in BOOLEAN, NEW error \in BOOLEAN, ~valid \/ error,
           NEW w, w = [v EXCEPT !.recover = FALSE, !.valid = valid, !.error = error]
    PROVE  IsMarked(w)
<1>1. w.error = error
  BY DEF IsBlock
<1>2. w.valid = valid
  BY DEF IsBlock
<1>3. QED
  BY <1>1, <1>2 DEF IsMarked

\* Writing the superblock leaves the other homes as they are.
LEMMA PlainStay ==
    ASSUME DeviceInv, NEW v, WriteHome(Super, v)
    PROVE  \A b \in Plain : disk'[b] = disk[b]
<1>1. DOMAIN disk = Homes /\ Super \in Homes
  BY RecoveryAssumption DEF DeviceInv
<1>2. QED
  BY <1>1 DEF WriteHome, Plain

\* The superblock's writes, and the steps that lead up to them.
LEMMA SuperblockDamage ==
    ASSUME DeviceInv, WalkInv, JournalInv, DamageInv, crashes = 0,
           ClearFlag \/ PreenHalt \/ CarryErrno \/ FlushSuperblock
    PROVE  DamageInv'
<1>0. Super \in Homes /\ IsBlock(sb)
  BY RecoveryAssumption DEF DeviceInv
<1>1. /\ WriteHome(Super, sb') /\ image' = image /\ jsb' = jsb /\ pc' \in {"done", "sync"}
      /\ pc \in {"unflag", "halt", "carry", "super"}
  BY DEF ClearFlag, PreenHalt, CarryErrno, FlushSuperblock
<1>2. PICK u : u = sb'
  OBVIOUS
<1>3. disk'[Super] = u /\ \A b \in Plain : disk'[b] = disk[b]
  <2>1. WriteHome(Super, u)
    BY <1>1, <1>2 DEF WriteHome
  <2>2. QED
    BY <2>1, PlainStay, SuperWritten
<1>4. IsMarked(sb) => IsMarked(sb')
  <2>1. CASE ClearFlag
    <3>1. sb' = [sb EXCEPT !.recover = FALSE]
      BY <2>1 DEF ClearFlag
    <3>2. QED
      BY <1>0, <3>1, MarksStay
  <2>2. CASE PreenHalt
    <3>1. sb' = [sb EXCEPT !.error = TRUE]
      BY <2>2 DEF PreenHalt
    <3>2. QED
      BY <1>0, <3>1, ErrorMarks
  <2>3. CASE CarryErrno \/ FlushSuperblock
    BY <2>3 DEF CarryErrno, FlushSuperblock
  <2>4. QED
    BY <2>1, <2>2, <2>3
<1>5. jsb.start # 0 => Untouched'
  BY <1>1, <1>3 DEF DamageInv, Untouched
<1>6. jsb.start = 0 => HomesRight' \/ Marked'
  <2> SUFFICES ASSUME jsb.start = 0 PROVE HomesRight' \/ Marked'
    OBVIOUS
  <2>1. HomesRight => HomesRight'
    BY <1>1, <1>3 DEF HomesRight
  <2>2. Marked => IsMarked(sb)
    BY <1>1 DEF Marked
  <2>3. IsMarked(sb) => IsMarked(disk'[Super])
    BY <1>2, <1>3, <1>4
  <2>4. IsMarked(disk'[Super]) => Marked'
    BY <1>1 DEF Marked, IsMarked
  <2>5. QED
    BY <2>1, <2>2, <2>3, <2>4 DEF DamageInv
<1>7. QED
  BY <1>1, <1>5, <1>6 DEF DamageInv, RevokeInv, ReplayInv

\* The journal superblock's writes.
LEMMA ResetDamage ==
    ASSUME DeviceInv, WalkInv, JournalInv, DamageInv, crashes = 0, ClearErrno \/ RecoverEmpty \/ ResetLog
    PROVE  DamageInv'
<1>0. Super \in Homes /\ IsBlock(sb) /\ IsHeader(header) /\ jsb \in jpend
  BY RecoveryAssumption DEF DeviceInv
<1>1. UNCHANGED <<image, disk, errors>> /\ pc' \in {"carry", "reload", "settle"}
  BY DEF ClearErrno, RecoverEmpty, ResetLog, reset, result
<1>2. jsb'.start = 0
  <2>1. CASE ClearErrno
    <3>1. jsb' = [header EXCEPT !.errno = 0] /\ header = jsb /\ jsb.start = 0
      BY <2>1 DEF ClearErrno, WriteJsb, JournalInv
    <3>2. QED
      BY <1>0, <3>1, HeaderCleared
  <2>2. CASE RecoverEmpty \/ ResetLog
    <3>1. \E sequence : jsb' = [header EXCEPT !.sequence = sequence, !.start = 0, !.errno = 0]
      BY <2>2 DEF RecoverEmpty, ResetLog, reset, WriteJsb
    <3>2. QED
      BY <1>0, <3>1, HeaderCleared
  <2>3. QED
    BY <2>1, <2>2
<1>3. HomesRight => HomesRight'
  BY <1>1 DEF HomesRight
<1>4. HomesRight' \/ Marked'
  <2>1. CASE ClearErrno
    <3>1. sb' = [sb EXCEPT !.error = TRUE] /\ pc = "clear" /\ pc' = "carry"
      BY <2>1 DEF ClearErrno
    <3>2. jsb.start = 0 /\ IsMarked(sb')
      BY <1>0, <3>1, ErrorMarks DEF JournalInv
    <3>3. Marked => Marked'
      BY <1>1, <3>1, <3>2 DEF Marked, IsMarked
    <3>4. QED
      BY <1>3, <3>2, <3>3 DEF DamageInv
  <2>2. CASE RecoverEmpty
    <3>1. pc = "recover" /\ pc' = "reload" /\ header.start = 0
      BY <2>2 DEF RecoverEmpty
    <3>2. jsb.start = 0
      BY <3>1 DEF JournalInv
    <3>3. Marked => Marked'
      BY <1>1, <3>1 DEF Marked, IsMarked
    <3>4. QED
      BY <1>3, <3>2, <3>3 DEF DamageInv
  <2>3. CASE ResetLog
    <3>1. pc = "reset" /\ pc' = "settle"
      BY <2>3 DEF ResetLog
    <3>2. CASE errors
      BY <1>1, <3>1, <3>2 DEF Marked
    <3>3. CASE ~errors
      BY <1>3, <3>1, <3>3 DEF DamageInv
    <3>4. QED
      BY <3>2, <3>3
  <2>4. QED
    BY <2>1, <2>2, <2>3
<1>5. QED
  BY <1>1, <1>2, <1>4 DEF DamageInv, RevokeInv, ReplayInv

\* The flushes, and the superblock read again.
LEMMA FlushDamage ==
    ASSUME DeviceInv, WalkInv, JournalInv, DamageInv, crashes = 0, FlushHomes \/ FlushReset \/ Sync \/ Reload
    PROVE  DamageInv'
<1>1. /\ UNCHANGED <<image, disk, jsb, errors>>
      /\ \/ pc = "flush" /\ pc' = "reset"
         \/ pc = "settle" /\ pc' = "reload"
         \/ pc = "sync" /\ pc' = "done"
         \/ pc = "reload" /\ pc' = "super"
  BY DEF FlushHomes, FlushReset, Sync, Reload, DeviceFlush, device, result
<1>2. (HomesRight => HomesRight') /\ (Untouched => Untouched')
  BY <1>1 DEF HomesRight, Untouched
<1>3. pc = "flush" \/ pc = "sync" \/ jsb.start = 0
  BY <1>1 DEF JournalInv
<1>4. pc = "flush" => jsb.start # 0
  BY DEF JournalInv
<1>5. jsb.start = 0 => (Marked => Marked')
  <2> SUFFICES ASSUME jsb.start = 0, Marked PROVE Marked'
    OBVIOUS
  <2>1. CASE pc # "reload"
    BY <1>1, <1>4, <2>1 DEF Marked, IsMarked
  <2>2. CASE pc = "reload"
    <3> DEFINE v == disk[Super]
               valid == v.valid /\ ~errors
               error == v.error \/ errno # 0
    <3>1. pc' = "super" /\ sb' = [v EXCEPT !.recover = FALSE, !.valid = valid, !.error = error]
      BY <2>2 DEF Reload, FlushHomes, FlushReset, Sync
    <3>2. valid \in BOOLEAN /\ error \in BOOLEAN /\ IsBlock(v)
      BY RecoveryAssumption DEF DeviceInv
    <3>3. errors \/ IsMarked(v)
      BY <2>2 DEF Marked
    <3>4. ~valid \/ error
      BY <3>3 DEF IsMarked
    <3> HIDE DEF v, valid, error
    <3>5. IsMarked(sb')
      BY <3>1, <3>2, <3>4, ReloadKeepsMark
    <3>6. QED
      BY <3>1, <3>5 DEF Marked, IsMarked
  <2>3. QED
    BY <2>1, <2>2
<1>6. QED
  BY <1>1, <1>2, <1>3, <1>4, <1>5 DEF DamageInv, RevokeInv, ReplayInv

\* A check opens the filesystem.
LEMMA OpenDamage ==
    ASSUME DeviceInv, WalkInv, JournalInv, DamageInv, crashes = 0, NEW m \in Modes, Open(m)
    PROVE  DamageInv'
<1>1. /\ pc \in {"idle", "done"} /\ sb' = disk[Super] /\ pc' = Route(m)
      /\ UNCHANGED <<image, disk, jsb>>
  BY DEF Open, device
<1>2. Route(m) \in {"done", "unflag", "halt", "clear", "recover"}
  BY DEF Route
<1>3. (HomesRight => HomesRight') /\ (Untouched => Untouched')
  BY <1>1 DEF HomesRight, Untouched
<1>4. Marked => Marked'
  BY <1>1, <1>2 DEF Marked, IsMarked
<1>5. QED
  BY <1>1, <1>2, <1>3, <1>4 DEF DamageInv, RevokeInv, ReplayInv

\* The first pass, to its end.
LEMMA ScanDamage ==
    ASSUME DeviceInv, WalkInv, JournalInv, FollowInv, TableInv, TimeInv, DamageInv, crashes = 0,
           RecoverLog \/ ScanStops \/ ScanBlock \/ ScanCommit \/ ScanTornCommit \/ ScanFails
    PROVE  DamageInv'
<1> USE DEF device, result
<1>1. UNCHANGED <<image, disk, jsb>> /\ pc \in {"recover", "scan"} /\ pc' \in {"scan", "revoke", "flush"}
      /\ (pc' = "flush" => errors')
  BY DEF RecoverLog, ScanStops, ScanBlock, ScanCommit, ScanTornCommit, ScanFails, Scanning, ScanEnds, Fail
<1>2. jsb.start # 0
  <2>1. CASE RecoverLog
    BY <2>1 DEF RecoverLog, JournalInv
  <2>2. CASE pc = "scan"
    BY <2>2 DEF JournalInv
  <2>3. QED
    BY <2>1, <2>2 DEF ScanStops, ScanBlock, ScanCommit, ScanTornCommit, ScanFails, Scanning
<1>3. Untouched'
  BY <1>1, <1>2 DEF DamageInv, Untouched
<1>4. ~errors' => RevokeInv' /\ ReplayInv'
  <2> SUFFICES ASSUME ~errors' PROVE RevokeInv' /\ ReplayInv'
    OBVIOUS
  <2>1. CASE ScanStops
    <3>1. reads = Last \/ ~Expected(next_block) \/ log[next_block].kind = "other"
      BY <2>1, NoneIsOlder
    <3>2. RevokeInv' /\ pc' = "revoke"
      BY <2>1, <3>1, ScanEndFine
    <3>3. QED
      BY <3>2 DEF ReplayInv
  <2>2. CASE RecoverLog \/ ScanBlock \/ ScanCommit
    <3>1. pc' = "scan"
      BY <2>2 DEF RecoverLog, ScanBlock, ScanCommit, Scanning
    <3>2. QED
      BY <3>1 DEF RevokeInv, ReplayInv
  <2>3. ~ScanTornCommit /\ ~ScanFails
    BY DEF ScanTornCommit, ScanFails, Fail
  <2>4. QED
    BY <2>1, <2>2, <2>3
<1>5. QED
  BY <1>1, <1>2, <1>3, <1>4 DEF DamageInv

\* Where the log of a legible image says nothing of a home, and where it does, the end of the replay is its goal.
LEMMA ReplayEndDamage ==
    ASSUME DeviceInv, WalkInv, JournalInv, ReplayInv, IsLegible(image), Silent, pc = "replay", PassStops
    PROVE  HomesRight
<1>1. PICK K \in 0 .. Last :
         /\ LogEnds(image, Way, K)
         /\ \A b \in Homes : \A x \in Writes(image, Way, K, b) :
               (\A y \in Writes(image, Way, K, b) : y = x \/ Before(y, x)) => disk[b] = Value(image, Way, x)
  BY ReplayEnd
<1>2. image \in Images /\ image.jsb.start # 0 /\ Way = Trail(image)
  BY OnTheWay DEF Way
<1>3. ASSUME NEW b \in Plain PROVE disk[b] = image.goal[b]
  <2>0. b \in Homes /\ b # Super
    BY DEF Plain
  <2>1. CASE Writes(image, Way, K, b) = {}
    <3>1. Same(b, image.goal[b], image.disk[b])
      BY <1>1, <1>2, <2>0, <2>1, GoalOf
    <3>2. disk[b] = image.disk[b]
      BY <1>1, <2>1 DEF Silent
    <3>3. QED
      BY <2>0, <3>1, <3>2 DEF Same
  <2>2. CASE Writes(image, Way, K, b) # {}
    <3>1. Same(b, disk[b], image.goal[b])
      BY <1>1, <1>2, <2>0, <2>2, GoalReached
    <3>2. QED
      BY <2>0, <3>1 DEF Same
  <2>3. QED
    BY <2>1, <2>2
<1>4. QED
  BY <1>3 DEF HomesRight

\* The second and third pass.
LEMMA PassDamage ==
    ASSUME DeviceInv, WalkInv, JournalInv, FollowInv, TableInv, DamageInv, crashes = 0,
           PassStops \/ PassCommit \/ PassSkips \/ RevokeRecords \/ PassFails \/ ReplayDescriptor
    PROVE  DamageInv'
<1> USE DEF device, result
<1>1. /\ UNCHANGED <<image, disk, jsb>> /\ pc \in {"revoke", "replay"} /\ pc' \in {"revoke", "replay", "flush"}
      /\ (errors' = errors \/ (errors' = TRUE /\ pc' = "flush")) /\ (pc = "replay" => pc' # "revoke")
  BY DEF PassStops, PassCommit, PassSkips, RevokeRecords, PassFails, ReplayDescriptor, Passing, Fail
<1>2. jsb.start # 0
  BY <1>1 DEF JournalInv
<1>3. pc' = "revoke" => Untouched'
  BY <1>1, <1>2 DEF DamageInv, Untouched
<1>4. CASE errors'
  BY <1>1, <1>2, <1>3, <1>4 DEF DamageInv
<1>5. CASE ~errors'
  <2>1. ~errors /\ errors' = errors /\ RevokeInv /\ ReplayInv
    BY <1>1, <1>5 DEF DamageInv
  <2>2. ~PassFails
    BY <1>5 DEF PassFails, Fail
  <2>3. CASE PassStops /\ pc = "replay"
    <3>1. HomesRight /\ pc' = "flush"
      BY <2>1, <2>3, ReplayEndDamage, ReplayEnd DEF DamageInv
    <3>2. HomesRight'
      BY <1>1, <3>1 DEF HomesRight
    <3>3. QED
      BY <1>1, <1>2, <3>1, <3>2 DEF DamageInv, RevokeInv, ReplayInv
  <2>4. CASE PassStops /\ pc = "revoke"
    <3>1. ReplayInv' /\ IsLegible(image) /\ pc' = "replay"
      BY <2>1, <2>4, RevokeEndFine
    <3>2. Untouched
      BY <1>2, <2>4 DEF DamageInv
    <3>3. Silent'
      BY <1>1, <3>2 DEF Silent, Untouched
    <3>4. QED
      BY <1>1, <1>2, <3>1, <3>3 DEF DamageInv, RevokeInv
  <2>5. CASE (PassCommit \/ PassSkips \/ RevokeRecords) /\ pc = "revoke"
    <3>1. RevokeInv' /\ pc' = pc
      BY <2>1, <2>5, RevokeFine
    <3>2. QED
      BY <1>1, <1>2, <1>3, <2>5, <3>1 DEF DamageInv, ReplayInv
  <2>6. CASE ((PassCommit \/ PassSkips) /\ pc = "replay") \/ ReplayDescriptor
    <3>1. ReplayInv' /\ pc = "replay" /\ pc' = pc
      BY <2>1, <2>6, ReplayBlockFine, DescriptorFine
    <3>2. Silent' /\ IsLegible(image')
      <4>1. Silent /\ IsLegible(image)
        BY <2>1, <3>1 DEF DamageInv
      <4>2. Way' = Way
        BY <1>1, Frames
      <4>3. QED
        BY <1>1, <4>1, <4>2 DEF Silent
    <3>3. QED
      BY <1>1, <1>2, <3>1, <3>2 DEF DamageInv, RevokeInv
  <2>7. RevokeRecords => pc = "revoke"
    BY DEF RevokeRecords, Passing
  <2>8. QED
    BY <1>1, <2>2, <2>3, <2>4, <2>5, <2>6, <2>7
<1>6. QED
  BY <1>4, <1>5

\* One tag: an error is reported, or its home has what the log says.
LEMMA TagDamage ==
    ASSUME DeviceInv, WalkInv, JournalInv, FollowInv, DamageInv, crashes = 0, ReplayTag
    PROVE  DamageInv'
<1>1. /\ pc = "replay" /\ UNCHANGED <<image, jsb, pc>> /\ (errors' = errors \/ errors' = TRUE)
  BY DEF ReplayTag, device
<1>2. jsb.start # 0
  BY <1>1 DEF JournalInv
<1>3. CASE errors'
  BY <1>1, <1>2, <1>3 DEF DamageInv
<1>4. CASE ~errors'
  <2>1. ~errors /\ ReplayInv /\ IsLegible(image) /\ Silent
    BY <1>1, <1>4 DEF DamageInv
  <2>2. /\ ReplayInv'
        /\ \/ UNCHANGED <<disk, dpend>>
           \/ \E K \in 0 .. Last : \E home \in Homes : \E x \in Writes(image, Way, K, home) :
                 LogEnds(image, Way, K) /\ WriteHome(home, Value(image, Way, x))
    BY <1>4, <2>1, TagFine
  <2>3. Way' = Way
    BY <1>1, Frames
  <2>4. Silent'
    <3>1. CASE UNCHANGED <<disk, dpend>>
      BY <1>1, <2>1, <2>3, <3>1 DEF Silent
    <3>2. CASE ~(UNCHANGED <<disk, dpend>>)
      <4>1. PICK K \in 0 .. Last : \E home \in Homes : \E x \in Writes(image, Way, K, home) :
                    LogEnds(image, Way, K) /\ WriteHome(home, Value(image, Way, x))
        BY <2>2, <3>2
      <4>2. PICK home \in Homes : \E x \in Writes(image, Way, K, home) :
                    LogEnds(image, Way, K) /\ WriteHome(home, Value(image, Way, x))
        BY <4>1
      <4>3. Writes(image, Way, K, home) # {} /\ LogEnds(image, Way, K) /\ \E v : WriteHome(home, v)
        BY <4>2
      <4>4. DOMAIN disk = Homes
        BY DEF DeviceInv
      <4>5. \A b \in Homes : b # home => disk'[b] = disk[b]
        BY <4>3, <4>4 DEF WriteHome
      <4>6. ASSUME NEW b \in Plain, NEW L \in 0 .. Last, LogEnds(image, Way, L), Writes(image, Way, L, b) = {}
            PROVE  disk'[b] = image.disk[b]
        <5>1. L = K
          BY <4>3, <4>6, OneEnd
        <5>2. b # home /\ b \in Homes
          BY <4>3, <4>6, <5>1 DEF Plain
        <5>3. disk[b] = image.disk[b]
          BY <2>1, <4>6 DEF Silent
        <5>4. QED
          BY <4>5, <5>2, <5>3
      <4>7. QED
        BY <1>1, <2>3, <4>6 DEF Silent
    <3>3. QED
      BY <3>1, <3>2
  <2>5. QED
    BY <1>1, <1>2, <2>1, <2>2, <2>4 DEF DamageInv, RevokeInv
<1>5. QED
  BY <1>3, <1>4

\* Each step that nothing interrupts.
LEMMA DamageStep ==
    ASSUME DeviceInv, WalkInv, JournalInv, FollowInv, TableInv, TimeInv, DamageInv, Next
    PROVE  DamageInv'
<1> SUFFICES ASSUME crashes' = 0 PROVE DamageInv'
  BY DEF DamageInv
<1>1. ~DeviceFails /\ ~PowerCut
  <2>1. crashes \in Nat
    BY DEF WalkInv
  <2>2. QED
    BY <2>1 DEF DeviceFails, PowerCut
<1>2. CASE \E m \in Modes : Open(m)
  <2>1. crashes = 0
    BY <1>2 DEF Open
  <2>2. QED
    BY <1>2, <2>1, OpenDamage
<1>3. CASE Step
  <2>1. crashes = 0
    BY <1>3 DEF Step, ClearFlag, PreenHalt, ClearErrno, CarryErrno, RecoverEmpty, RecoverLog, ScanStops, ScanBlock,
                ScanCommit, ScanTornCommit, ScanFails, PassStops, PassCommit, PassSkips, RevokeRecords, PassFails,
                ReplayDescriptor, ReplayTag, FlushHomes, ResetLog, FlushReset, Reload, FlushSuperblock, Sync
  <2>2. CASE ClearFlag \/ PreenHalt \/ CarryErrno \/ FlushSuperblock
    BY <2>1, <2>2, SuperblockDamage
  <2>3. CASE ClearErrno \/ RecoverEmpty \/ ResetLog
    BY <2>1, <2>3, ResetDamage
  <2>4. CASE FlushHomes \/ FlushReset \/ Sync \/ Reload
    BY <2>1, <2>4, FlushDamage
  <2>5. CASE RecoverLog \/ ScanStops \/ ScanBlock \/ ScanCommit \/ ScanTornCommit \/ ScanFails
    BY <2>1, <2>5, ScanDamage
  <2>6. CASE PassStops \/ PassCommit \/ PassSkips \/ RevokeRecords \/ PassFails \/ ReplayDescriptor
    BY <2>1, <2>6, PassDamage
  <2>7. CASE ReplayTag
    BY <2>1, <2>7, TagDamage
  <2>8. QED
    BY <1>3, <2>2, <2>3, <2>4, <2>5, <2>6, <2>7 DEF Step
<1>4. QED
  BY <1>1, <1>2, <1>3 DEF Next

\* "Either going wrong part way marks the filesystem not clean, so the full check runs" (fsck): whatever is wrong with
\* a journal -- checksums that fail, in descriptors, in commits or in the blocks logged, revoke blocks that cannot be
\* read, tags that name no block -- once it is empty every home has what the log was to write there or the superblock
\* is not valid or has an error, unless a check was cut short.
THEOREM DamageIsKept == Spec => []DamageIsRemembered
<1>1. Init => TableInv /\ TimeInv /\ DamageInv
  <2> SUFFICES ASSUME Init PROVE TableInv /\ TimeInv /\ DamageInv
    OBVIOUS
  <2>1. image \in Images /\ disk = image.disk /\ jsb = image.jsb /\ pc = "idle" /\ DOMAIN revoked = Homes \cup {Outside}
    BY DEF Init
  <2>2. TableInv /\ TimeInv /\ RevokeInv /\ ReplayInv /\ Untouched
    BY <2>1 DEF TableInv, TimeInv, RevokeInv, ReplayInv, Untouched
  <2>3. ASSUME jsb.start = 0 PROVE HomesRight
    <3>1. IsLegible(image)
      BY <2>1, <2>3 DEF IsLegible
    <3>2. \A b \in Homes : Same(b, image.disk[b], image.goal[b])
      BY <2>1, <2>3, <3>1, GoalWhereSilent
    <3>3. QED
      BY <2>1, <3>2 DEF HomesRight, Same, Plain
  <2>4. QED
    BY <2>1, <2>2, <2>3 DEF DamageInv
<1>2. /\ DeviceInv /\ WalkInv /\ JournalInv /\ FollowInv /\ TableInv /\ TimeInv /\ DamageInv /\ [Next]_vars
      => (TableInv /\ TimeInv /\ DamageInv)'
  <2> SUFFICES ASSUME DeviceInv, WalkInv, JournalInv, FollowInv, TableInv, TimeInv, DamageInv, [Next]_vars
               PROVE  (TableInv /\ TimeInv /\ DamageInv)'
    OBVIOUS
  <2>1. CASE Next
    BY <2>1, TableStep, TimeStep, DamageStep
  <2>2. CASE UNCHANGED vars
    <3>1. UNCHANGED <<image, disk, dpend, jsb, jpend, crashes, pc, mode, sb, header, next_commit, next_block, reads, last_time,
                      doubt, end, revoked, tags, errors>>
      BY <2>2 DEF vars, device, walk, result
    <3>2. Way' = Way /\ log' = log
      BY <3>1, Frames
    <3>3. TableInv' /\ TimeInv'
      BY <3>1, <3>2 DEF TableInv, TimeInv
    <3>4. (RevokeInv /\ ReplayInv) => (RevokeInv' /\ ReplayInv')
      BY <3>1, PassesRest
    <3>5. (HomesRight => HomesRight') /\ (Untouched => Untouched') /\ (Silent => Silent') /\ (Marked => Marked')
      BY <3>1, <3>2 DEF HomesRight, Untouched, Silent, Marked, IsMarked
    <3>6. QED
      BY <3>1, <3>3, <3>4, <3>5 DEF DamageInv
  <2>3. QED
    BY <2>1, <2>2
<1>3. DamageInv => DamageIsRemembered
  BY DEF DamageInv, DamageIsRemembered, Uninterrupted, AtRest, HomesRight, Marked, IsMarked
<1>4. QED
  BY <1>1, <1>2, <1>3, InvariantsHold, FollowHolds, FineHolds, PTL DEF Spec
===============================================================================
