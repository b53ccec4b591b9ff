------------------------------- MODULE Recovery -------------------------------
(***************************************************************************)
(* Journal recovery: recover and Journal (recovery.rs), driven by          *)
(* journal_stage (fsck.rs), over a device with a volatile write cache.     *)
(*                                                                         *)
(* Every block of the log a pass reads, every home it writes, every flush  *)
(* and every superblock write is a step, and the power may go or the       *)
(* device fail between any two.  A log block is a record of what the code  *)
(* reads in it; ok says whether its checksum matches.  Home blocks hold    *)
(* opaque values, except Super, which holds the superblock's fields: it is *)
(* journalled like any other block.  The log is not among its own homes.   *)
(* Reports and their counters are left out.                                *)
(***************************************************************************)
EXTENDS Integers, Sequences

CONSTANTS
    Homes,      \* the blocks of the filesystem that are not the journal's
    Outside,    \* a block number past blocks_count
    Super,      \* the home that holds the superblock
    Magic,      \* contents that begin with JBD2_MAGIC, logged escaped
    First,      \* s_first
    Last,       \* s_maxlen, one past the log's last block
    TidMod,     \* sequence numbers are taken modulo this: 2^32
    Checksums,  \* csum_v2_or_v3
    AsyncCommit,\* JBD2_FEATURE_INCOMPAT_ASYNC_COMMIT
    BadCount,   \* what revoke_records refuses: a count longer than the block
    None,       \* no value
    Images,     \* the devices a check may find
    Modes,      \* "check", "preen", "repair": the options a check may run with
    MaxChecks,  \* bound: checks run one after another
    MaxCrashes  \* bound: power cuts and device errors

ASSUME RecoveryAssumption ==
    /\ Super \in Homes /\ Outside \notin Homes
    /\ First \in Nat \ {0} /\ Last \in Nat /\ First < Last
    /\ TidMod \in Nat /\ TidMod % 2 = 0 /\ TidMod > 0 /\ None \notin 0 .. TidMod - 1
    /\ Checksums \in BOOLEAN /\ AsyncCommit \in BOOLEAN
    /\ Modes \subseteq {"check", "preen", "repair"}
    /\ MaxChecks \in Nat /\ MaxCrashes \in Nat

\* Sequence numbers do not run round within one log: s_maxlen is below 2^31.
ASSUME LogFits == Last < TidMod \div 2

\* What the model keeps of a block, which is the superblock's fields for Super.
IsBlock(v) ==
    /\ v = [body |-> v.body, journal |-> v.journal, recover |-> v.recover, valid |-> v.valid, error |-> v.error]
    /\ v.valid \in BOOLEAN /\ v.error \in BOOLEAN

\* A journal superblock that Journal::open does not refuse starts inside its log.
IsHeader(j) ==
    /\ j = [ok |-> j.ok, sequence |-> j.sequence, start |-> j.start, errno |-> j.errno]
    /\ j.sequence \in 0 .. TidMod - 1
    /\ j.ok => j.start \in {0} \cup First .. Last - 1

\* Any log will do in which a descriptor names no more blocks than the log has.
ASSUME ImageAssumption ==
    /\ IsBlock(Magic)
    /\ \A im \in Images :
          /\ im.disk = [b \in Homes |-> im.disk[b]] /\ \A b \in Homes : IsBlock(im.disk[b])
          /\ IsHeader(im.jsb)
          /\ \A b \in First .. Last - 1 :
                /\ IsBlock(im.log[b].val)
                /\ im.log[b].tags \in Seq([home : Homes \cup {Outside}, escape : BOOLEAN])
                /\ Len(im.log[b].tags) <= Last - First
                /\ im.log[b].kind = "revoke" => im.log[b].tags = << >>

\* tid_gt, tid_geq: the difference, as a signed number, is > 0, or >= 0.
tid_gt(x, y) == (x - y) % TidMod \in 1 .. (TidMod \div 2) - 1
tid_geq(x, y) == (x - y) % TidMod \in 0 .. (TidMod \div 2) - 1

tid_next(x) == (x + 1) % TidMod

wrap(b) == IF b >= Last THEN b - (Last - First) ELSE b

-------------------------------------------------------------------------------
(* What a log says, read as a whole *)

Tid(sequence, n) == (sequence + n) % TidMod

\* A place is how many commit blocks are behind it and the log block it is at.  The place one block on:
After(im, s) ==
    LET b == im.log[s[2]]
    IN  IF b.kind = "commit" THEN <<s[1] + 1, wrap(s[2] + 1)>>
        ELSE IF b.kind \in {"descriptor", "revoke"} THEN <<s[1], wrap(wrap(s[2] + 1) + Len(b.tags))>>
        ELSE s

\* The places from s_start on.
Trail(im) ==
    LET w[k \in 0 .. Last] == IF k = 0 THEN <<0, im.jsb.start>> ELSE After(im, w[k - 1])
    IN  w

Taken(im, w, k) ==
    LET b == im.log[w[k][2]]
    IN  b.kind \in {"descriptor", "commit", "revoke"} /\ b.seq = Tid(im.jsb.sequence, w[k][1])

\* The log ends with the first K blocks of the trail, and the transaction of place k has its commit block among them.
LogEnds(im, w, K) == (\A j \in 0 .. K - 1 : Taken(im, w, j)) /\ (K < Last => ~Taken(im, w, K))
Complete(w, K, k) == w[k][1] < w[K][1]

\* The places that revoke a home, and the tags that name it and are not revoked by their own or a later transaction.
Revokers(im, w, K, home) ==
    {j \in 0 .. K - 1 : Complete(w, K, j) /\ im.log[w[j][2]].kind = "revoke" /\ home \in im.log[w[j][2]].recs}

Writes(im, w, K, home) ==
    {x \in (0 .. K - 1) \X (1 .. Last - First) :
        /\ Complete(w, K, x[1]) /\ im.log[w[x[1]][2]].kind = "descriptor"
        /\ x[2] \in DOMAIN im.log[w[x[1]][2]].tags /\ im.log[w[x[1]][2]].tags[x[2]].home = home
        /\ \A j \in Revokers(im, w, K, home) : w[j][1] < w[x[1]][1]}

\* What a tag writes, and which of two is written first.
Value(im, w, x) ==
    LET b == w[x[1]][2]
    IN  IF im.log[b].tags[x[2]].escape THEN Magic ELSE im.log[wrap(wrap(b + 1) + (x[2] - 1))].val

Before(x, y) == x[1] < y[1] \/ (x[1] = y[1] /\ x[2] < y[2])

\* Equal, as far as recovery itself does not change the superblock.
Same(home, u, v) == IF home = Super THEN u.body = v.body ELSE u = v

\* im.logged are the homes the log has a say in and im.goal the last that it says of them: what they hold,
\* where it says nothing.  A log, and every superblock in it, belongs to a filesystem with a journal.
IsGoal(im) ==
    IF im.jsb.start = 0 THEN im.logged = {} /\ \A b \in Homes : Same(b, im.goal[b], im.disk[b])
    ELSE /\ im.disk[Super].journal
         /\ LET w == Trail(im)
            IN  \A K \in 0 .. Last : LogEnds(im, w, K) =>
                   /\ \A x \in Writes(im, w, K, Super) : Value(im, w, x).journal
                   /\ \A b \in Homes : LET X == Writes(im, w, K, b)
                                      IN  IF X = {} THEN b \notin im.logged /\ Same(b, im.goal[b], im.disk[b])
                                          ELSE /\ b \in im.logged
                                               /\ \E x \in X : /\ \A y \in X : y = x \/ Before(y, x)
                                                              /\ Same(b, im.goal[b], Value(im, w, x))

\* A log with nothing in it that recovery has to report.
IsIntact(im) ==
    \A b \in First .. Last - 1 :
        /\ im.log[b].ok /\ im.log[b].recs # BadCount
        /\ \A i \in DOMAIN im.log[b].tags : im.log[b].tags[i].home # Outside

\* No revoke block of a complete transaction has a count longer than the block: what it revokes is known.
IsLegible(im) ==
    im.jsb.start # 0 =>
        LET w == Trail(im)
        IN  \A K \in 0 .. Last : LogEnds(im, w, K) =>
               \A j \in 0 .. K - 1, b \in First .. Last - 1 :
                   b = w[j][2] /\ Complete(w, K, j) /\ im.log[b].kind = "revoke" => im.log[b].recs # BadCount

\* Checksums, and blocks misplaced, have no part in what a log was to write.
ASSUME GoalAssumption == \A im \in Images : IsLegible(im) => IsGoal(im)

\* The clock does not go back between two commits of a log: scan takes a commit block that fails its
\* checksum for an older journal's if its time is the earlier one.
CommitTimesRise(im) ==
    im.jsb.start # 0 =>
        LET w == Trail(im)
        IN  \A k \in 0 .. Last - 1 : (\A j \in 0 .. k : Taken(im, w, j)) /\ im.log[w[k][2]].kind = "commit" =>
               \A j \in 0 .. k - 1 : im.log[w[j][2]].kind = "commit" => im.log[w[j][2]].time <= im.log[w[k][2]].time

ASSUME TimesAssumption ==
    \A im \in Images : /\ \A b \in First .. Last - 1 : im.log[b].time \in Nat
                       /\ CommitTimesRise(im)

\* A commit block that the log does not reach is an earlier lap's, less than half the numbers back, or that of the
\* transaction being written when the journal was left, whose other blocks did not get there.
IsWriters(im) ==
    im.jsb.start # 0 =>
        LET w == Trail(im)
        IN  \A K \in 0 .. Last : LogEnds(im, w, K) =>
               \A b \in First .. Last - 1 :
                   im.log[b].kind = "commit" /\ (\A j \in 0 .. K - 1 : w[j][2] # b) =>
                       \E n \in w[K][1] + 1 - (TidMod \div 2) .. w[K][1] : im.log[b].seq = Tid(im.jsb.sequence, n)

ASSUME WriterAssumption == \A im \in Images : IsIntact(im) => IsWriters(im)

-------------------------------------------------------------------------------
VARIABLES
    image,      \* the device as it was found; its log is never written
    disk,       \* what each home reads back as
    dpend,      \* what each home may hold after a power cut
    jsb,        \* the journal superblock: ok, sequence, start, errno
    jpend,      \* what it may be after a power cut
    checks, crashes,
    pc,         \* where the check is
    mode,       \* its options
    sb,         \* fs.superblock()
    header,     \* journal.header
    next_commit, next_block,
    reads,      \* scan's loop counter
    last_time,  \* last_commit_time
    doubt,      \* need_check_commit_time
    end,        \* one past the last complete transaction
    revoked,    \* the revoke table: the latest transaction that revoked each home
    tags,       \* tags of the descriptor being replayed, still to go
    errors,     \* recovery.errors is not empty
    failed,     \* the outcome is an Err, or a block was skipped with an error
    errno       \* recovery.errno

device == <<disk, dpend, jsb, jpend>>
walk == <<next_commit, next_block, reads, last_time, doubt>>
result == <<end, revoked, tags, errors, failed, errno>>
vars == <<image, device, checks, crashes, pc, mode, sb, header, walk, result>>

log == image.log

\* block_tail_ok, commit_ok, data_ok
checksum_ok(b) == Checksums => log[b].ok

\* read, and the test every pass makes of the block: JBD2_MAGIC and the sequence expected.
Expected(b) == log[b].kind \in {"descriptor", "commit", "revoke", "other"} /\ log[b].seq = next_commit

-------------------------------------------------------------------------------
(* The device *)

WriteHome(b, v) ==
    /\ disk' = [disk EXCEPT ![b] = v]
    /\ dpend' = [dpend EXCEPT ![b] = @ \cup {v}]

WriteJsb(j) == jsb' = j /\ jpend' = jpend \cup {j}

DeviceFlush ==
    /\ dpend' = [b \in Homes |-> {disk[b]}]
    /\ jpend' = {jsb}
    /\ UNCHANGED <<disk, jsb>>

Rest ==
    /\ next_commit' = 0 /\ next_block' = 0 /\ reads' = 0 /\ last_time' = 0 /\ doubt' = FALSE
    /\ end' = 0 /\ revoked' = [b \in Homes \cup {Outside} |-> None] /\ tags' = << >>
    /\ errors' = FALSE /\ failed' = FALSE /\ errno' = 0

Init ==
    /\ image \in Images
    /\ disk = image.disk
    /\ dpend = [b \in Homes |-> {disk[b]}]
    /\ jsb = image.jsb
    /\ jpend = {jsb}
    /\ checks = 0 /\ crashes = 0
    /\ pc = "idle" /\ mode = "check" /\ sb = disk[Super] /\ header = jsb
    /\ next_commit = 0 /\ next_block = 0 /\ reads = 0 /\ last_time = 0 /\ doubt = FALSE
    /\ end = 0 /\ revoked = [b \in Homes \cup {Outside} |-> None] /\ tags = << >>
    /\ errors = FALSE /\ failed = FALSE /\ errno = 0

-------------------------------------------------------------------------------
(* journal_stage, up to recover *)

\* Where journal_stage goes from what Filesystem::open and Journal::open read.
Route(m) ==
    LET has_data == jsb.start # 0
        recover == disk[Super].recover
        writes == m # "check"
    IN  IF ~disk[Super].journal THEN IF recover /\ writes THEN "unflag" ELSE "done"
        ELSE IF ~jsb.ok THEN IF recover /\ m = "preen" THEN "halt" ELSE "done"
        ELSE IF ~recover /\ has_data /\ m = "preen" THEN "halt"
        ELSE IF ~recover /\ ~has_data /\ jsb.errno # 0 /\ writes THEN "clear"
        ELSE IF writes /\ (recover \/ has_data) THEN "recover"
        ELSE "done"

Open(m) ==
    /\ pc \in {"idle", "done"} /\ checks < MaxChecks
    /\ checks' = checks + 1
    /\ mode' = m
    /\ sb' = disk[Super]
    /\ header' = jsb
    /\ pc' = Route(m)
    /\ Rest
    /\ UNCHANGED <<image, device, crashes>>

\* needs_recovery without a journal.
ClearFlag ==
    /\ pc = "unflag"
    /\ sb' = [sb EXCEPT !.recover = FALSE]
    /\ WriteHome(Super, sb')
    /\ pc' = "done"
    /\ UNCHANGED <<image, jsb, jpend, checks, crashes, mode, header, walk, result>>

\* preen_halt's superblock write; "sync" is its flush.
PreenHalt ==
    /\ pc = "halt"
    /\ sb' = [sb EXCEPT !.error = TRUE]
    /\ WriteHome(Super, sb')
    /\ pc' = "sync"
    /\ UNCHANGED <<image, jsb, jpend, checks, crashes, mode, header, walk, result>>

\* clear_errno
ClearErrno ==
    /\ pc = "clear"
    /\ sb' = [sb EXCEPT !.error = TRUE]
    /\ header' = [header EXCEPT !.errno = 0]
    /\ WriteJsb(header')
    /\ pc' = "carry"
    /\ UNCHANGED <<image, disk, dpend, checks, crashes, mode, walk, result>>

\* The flush_superblock after it; no flush of the device follows.
CarryErrno ==
    /\ pc = "carry"
    /\ WriteHome(Super, sb)
    /\ pc' = "done"
    /\ UNCHANGED <<image, jsb, jpend, checks, crashes, mode, sb, header, walk, result>>

-------------------------------------------------------------------------------
(* recover *)

reset(sequence) ==
    /\ header' = [header EXCEPT !.sequence = sequence, !.start = 0, !.errno = 0]
    /\ WriteJsb(header')
    /\ UNCHANGED <<disk, dpend>>

\* Nothing to replay: the journal is restarted at once.
RecoverEmpty ==
    /\ pc = "recover" /\ header.start = 0
    /\ errno' = header.errno
    /\ reset(tid_next(header.sequence))
    /\ pc' = "reload"
    /\ UNCHANGED <<image, checks, crashes, mode, sb, walk, end, revoked, tags, errors, failed>>

\* A pass starts over from s_start.
Rewind == next_commit' = header.sequence /\ next_block' = header.start

RecoverLog ==
    /\ pc = "recover" /\ header.start # 0
    /\ errno' = header.errno
    /\ Rewind
    /\ pc' = "scan"
    /\ UNCHANGED <<image, device, checks, crashes, mode, sb, header,
                   reads, last_time, doubt, end, revoked, tags, errors, failed>>

\* Pass one ends with the transactions before `last` complete.
ScanEnds ==
    /\ end' = next_commit
    /\ Rewind
    /\ reads' = 0 /\ last_time' = 0 /\ doubt' = FALSE
    /\ pc' = "revoke"

\* The error ends recovery: e2fsck still empties the journal.
Fail ==
    /\ errors' = TRUE /\ failed' = TRUE
    /\ pc' = "flush"

\* The log block scan reads is not the next one, or was read a round ago.
ScanStops ==
    /\ pc = "scan"
    /\ \/ reads = Last
       \/ ~Expected(next_block)
       \/ log[next_block].kind = "other"
       \/ /\ log[next_block].kind = "commit"
          /\ log[next_block].time < last_time
          /\ ~checksum_ok(next_block) \/ doubt
    /\ ScanEnds
    /\ UNCHANGED <<image, device, checks, crashes, mode, sb, header,
                   revoked, tags, errors, failed, errno>>

Scanning == pc = "scan" /\ reads < Last /\ Expected(next_block)

\* Mutant: a bad checksum raises no doubt.
ScanBlock_Trusting ==
    /\ Scanning
    /\ log[next_block].kind \in {"descriptor", "revoke"}
    /\ next_block' = wrap(wrap(next_block + 1) + Len(log[next_block].tags))
    /\ reads' = reads + 1
    /\ UNCHANGED <<image, device, checks, crashes, pc, mode, sb, header,
                   next_commit, last_time, doubt, result>>

\* A descriptor or revoke block; the blocks a descriptor's tags name are stepped over.
ScanBlock ==
    /\ Scanning
    /\ log[next_block].kind \in {"descriptor", "revoke"}
    /\ doubt' = (doubt \/ ~checksum_ok(next_block))
    /\ next_block' = wrap(wrap(next_block + 1) + Len(log[next_block].tags))
    /\ reads' = reads + 1
    /\ UNCHANGED <<image, device, checks, crashes, pc, mode, sb, header,
                   next_commit, last_time, result>>

\* Mutant: the log does not go on at its beginning.
ScanCommit_NoWrap ==
    /\ Scanning
    /\ log[next_block].kind = "commit" /\ checksum_ok(next_block) /\ ~doubt
    /\ last_time' = log[next_block].time
    /\ next_commit' = tid_next(next_commit)
    /\ next_block' = next_block + 1
    /\ reads' = reads + 1
    /\ UNCHANGED <<image, device, checks, crashes, pc, mode, sb, header, doubt, result>>

ScanCommit ==
    /\ Scanning
    /\ log[next_block].kind = "commit" /\ checksum_ok(next_block) /\ ~doubt
    /\ last_time' = log[next_block].time
    /\ next_commit' = tid_next(next_commit)
    /\ next_block' = wrap(next_block + 1)
    /\ reads' = reads + 1
    /\ UNCHANGED <<image, device, checks, crashes, pc, mode, sb, header, doubt, result>>

\* A commit block that fails its checksum and is not an older journal's: the
\* transactions before it are replayed.
ScanTornCommit ==
    /\ Scanning
    /\ log[next_block].kind = "commit" /\ ~checksum_ok(next_block)
    /\ log[next_block].time >= last_time
    /\ errors' = TRUE
    /\ errno' = IF AsyncCommit THEN errno ELSE -22
    /\ ScanEnds
    /\ UNCHANGED <<image, device, checks, crashes, mode, sb, header, revoked, tags, failed>>

\* A good commit over a descriptor or revoke block that failed its checksum.
ScanFails ==
    /\ Scanning
    /\ log[next_block].kind = "commit" /\ checksum_ok(next_block)
    /\ doubt /\ log[next_block].time >= last_time
    /\ Fail
    /\ UNCHANGED <<image, device, checks, crashes, mode, sb, header, walk, end, revoked, tags, errno>>

-------------------------------------------------------------------------------
(* revoke_or_replay *)

\* Both passes leave their loop: at `end`, or at a block that is not the next one.
PassStops ==
    /\ pc \in {"revoke", "replay"} /\ tags = << >>
    /\ \/ tid_geq(next_commit, end)
       \/ ~Expected(next_block)
       \/ log[next_block].kind = "other"
    /\ IF next_commit # end THEN Fail /\ UNCHANGED <<next_commit, next_block>>
       ELSE IF pc = "revoke" THEN Rewind /\ pc' = "replay" /\ UNCHANGED <<errors, failed>>
       ELSE pc' = "flush" /\ UNCHANGED <<next_commit, next_block, errors, failed>>
    /\ UNCHANGED <<image, device, checks, crashes, mode, sb, header,
                   reads, last_time, doubt, end, revoked, tags, errno>>

Passing(p) == pc = p /\ tags = << >> /\ ~tid_geq(next_commit, end) /\ Expected(next_block)

PassCommit ==
    /\ Passing("revoke") \/ Passing("replay")
    /\ log[next_block].kind = "commit"
    /\ next_commit' = tid_next(next_commit)
    /\ next_block' = wrap(next_block + 1)
    /\ UNCHANGED <<image, device, checks, crashes, pc, mode, sb, header,
                   reads, last_time, doubt, result>>

\* Mutant: the block is not stepped over.
PassSkips_Stays ==
    /\ \/ Passing("revoke") /\ log[next_block].kind = "descriptor"
       \/ Passing("replay") /\ log[next_block].kind = "revoke"
    /\ UNCHANGED vars

\* The pass that does not look inside a block steps over it.
PassSkips ==
    /\ \/ Passing("revoke") /\ log[next_block].kind = "descriptor"
       \/ Passing("replay") /\ log[next_block].kind = "revoke"
    /\ next_block' = wrap(wrap(next_block + 1) + Len(log[next_block].tags))
    /\ UNCHANGED <<image, device, checks, crashes, pc, mode, sb, header,
                   next_commit, reads, last_time, doubt, result>>

\* A revoke block's records: the latest transaction to revoke each block is kept.
RevokeRecords ==
    /\ Passing("revoke") /\ log[next_block].kind = "revoke"
    /\ log[next_block].recs # BadCount
    /\ revoked' = [b \in DOMAIN revoked |->
                      IF b \in log[next_block].recs
                         /\ (revoked[b] = None \/ tid_gt(next_commit, revoked[b]))
                      THEN next_commit ELSE revoked[b]]
    /\ next_block' = wrap(next_block + 1)
    /\ UNCHANGED <<image, device, checks, crashes, pc, mode, sb, header,
                   next_commit, reads, last_time, doubt, end, tags, errors, failed, errno>>

\* Its count does not fit, or a descriptor fails its checksum on the way to its data.
PassFails ==
    /\ \/ Passing("revoke") /\ log[next_block].kind = "revoke" /\ log[next_block].recs = BadCount
       \/ Passing("replay") /\ log[next_block].kind = "descriptor" /\ ~checksum_ok(next_block)
    /\ Fail
    /\ UNCHANGED <<image, device, checks, crashes, mode, sb, header, walk, end, revoked, tags, errno>>

ReplayDescriptor ==
    /\ Passing("replay") /\ log[next_block].kind = "descriptor" /\ checksum_ok(next_block)
    /\ tags' = log[next_block].tags
    /\ next_block' = wrap(next_block + 1)
    /\ UNCHANGED <<image, device, checks, crashes, pc, mode, sb, header,
                   next_commit, reads, last_time, doubt, end, revoked, errors, failed, errno>>

Revoked(home) == revoked[home] # None /\ ~tid_gt(next_commit, revoked[home])

\* One tag: its block is revoked, unreadable, misplaced, or written to its home.
ReplayTag ==
    /\ pc = "replay" /\ tags # << >>
    /\ LET home == Head(tags).home
       IN  \/ /\ Revoked(home)
              /\ UNCHANGED <<device, errors, failed>>
           \/ /\ ~Revoked(home)
              /\ ~checksum_ok(next_block) \/ home = Outside
              /\ errors' = TRUE /\ failed' = TRUE
              /\ UNCHANGED device
           \/ /\ ~Revoked(home)
              /\ checksum_ok(next_block) /\ home # Outside
              /\ WriteHome(home, IF Head(tags).escape THEN Magic ELSE log[next_block].val)
              /\ UNCHANGED <<jsb, jpend, errors, failed>>
    /\ tags' = Tail(tags)
    /\ next_block' = wrap(next_block + 1)
    /\ UNCHANGED <<image, checks, crashes, pc, mode, sb, header,
                   next_commit, reads, last_time, doubt, end, revoked, errno>>

-------------------------------------------------------------------------------
(* The end of recover *)

\* Mutant: the journal is reset without a flush before it.
FlushHomes_Skipped ==
    /\ pc = "flush"
    /\ pc' = "reset"
    /\ UNCHANGED <<image, device, checks, crashes, mode, sb, header, walk, result>>

FlushHomes ==
    /\ pc = "flush"
    /\ DeviceFlush
    /\ pc' = "reset"
    /\ UNCHANGED <<image, checks, crashes, mode, sb, header, walk, result>>

\* Mutant: the log always restarts where it was.
Restart_Back == header.sequence

\* The sequence the log restarts at.
Restart == IF failed THEN header.sequence ELSE tid_next(end)

ResetLog ==
    /\ pc = "reset"
    /\ reset(Restart)
    /\ pc' = "settle"
    /\ UNCHANGED <<image, checks, crashes, mode, sb, walk, result>>

FlushReset ==
    /\ pc = "settle"
    /\ DeviceFlush
    /\ pc' = "reload"
    /\ UNCHANGED <<image, checks, crashes, mode, sb, header, walk, result>>

-------------------------------------------------------------------------------
(* The rest of journal_stage *)

\* Mutants: the superblock is not read again; errors, or the kernel's abort,
\* leave no mark.
Reload_Kept ==
    /\ pc = "reload"
    /\ sb' = [sb EXCEPT !.recover = FALSE, !.valid = @ /\ ~errors, !.error = @ \/ errno # 0]
    /\ pc' = "super"
    /\ UNCHANGED <<image, device, checks, crashes, mode, header, walk, result>>
Reload_NoErrors ==
    /\ pc = "reload"
    /\ sb' = [disk[Super] EXCEPT !.recover = FALSE, !.error = @ \/ errno # 0]
    /\ pc' = "super"
    /\ UNCHANGED <<image, device, checks, crashes, mode, header, walk, result>>
Reload_NoErrno ==
    /\ pc = "reload"
    /\ sb' = [disk[Super] EXCEPT !.recover = FALSE, !.valid = @ /\ ~errors]
    /\ pc' = "super"
    /\ UNCHANGED <<image, device, checks, crashes, mode, header, walk, result>>

Reload ==
    /\ pc = "reload"
    /\ sb' = [disk[Super] EXCEPT !.recover = FALSE,
                                 !.valid = @ /\ ~errors,
                                 !.error = @ \/ errno # 0]
    /\ pc' = "super"
    /\ UNCHANGED <<image, device, checks, crashes, mode, header, walk, result>>

FlushSuperblock ==
    /\ pc = "super"
    /\ WriteHome(Super, sb)
    /\ pc' = "sync"
    /\ UNCHANGED <<image, jsb, jpend, checks, crashes, mode, sb, header, walk, result>>

Sync ==
    /\ pc = "sync"
    /\ DeviceFlush
    /\ pc' = "done"
    /\ UNCHANGED <<image, checks, crashes, mode, sb, header, walk, result>>

-------------------------------------------------------------------------------
(* Trouble *)

\* `?`: the check ends with an error where it stands.
DeviceFails ==
    /\ pc \notin {"idle", "done"}
    /\ crashes < MaxCrashes
    /\ crashes' = crashes + 1
    /\ pc' = "idle"
    /\ Rest
    /\ UNCHANGED <<image, device, checks, mode, sb, header>>

PowerCut ==
    /\ crashes < MaxCrashes
    /\ crashes' = crashes + 1
    /\ disk' \in [Homes -> UNION {dpend[b] : b \in Homes}]
    /\ \A b \in Homes : disk'[b] \in dpend[b]
    /\ dpend' = [b \in Homes |-> {disk'[b]}]
    /\ jsb' \in jpend
    /\ jpend' = {jsb'}
    /\ pc' = "idle"
    /\ Rest
    /\ UNCHANGED <<image, checks, mode, sb, header>>

-------------------------------------------------------------------------------
Step ==
    \/ ClearFlag \/ PreenHalt \/ ClearErrno \/ CarryErrno
    \/ RecoverEmpty \/ RecoverLog
    \/ ScanStops \/ ScanBlock \/ ScanCommit \/ ScanTornCommit \/ ScanFails
    \/ PassStops \/ PassCommit \/ PassSkips \/ RevokeRecords \/ PassFails
    \/ ReplayDescriptor \/ ReplayTag
    \/ FlushHomes \/ ResetLog \/ FlushReset
    \/ Reload \/ FlushSuperblock \/ Sync

Next == (\E m \in Modes : Open(m)) \/ Step \/ DeviceFails \/ PowerCut

Spec == Init /\ [][Next]_vars

\* The task that checks the filesystem is polled until it returns.
FairSpec == Spec /\ WF_vars(Step)

-------------------------------------------------------------------------------
(* Properties.  image.goal is what the homes must hold once the journal is    *)
(* replayed, image.logged the homes the log has a say in.                     *)

\* Every variable has the shape the code's types give it.
TypeOK ==
    /\ DOMAIN disk = Homes /\ \A b \in Homes : disk[b] \in dpend[b]
    /\ jsb \in jpend
    /\ pc \in {"idle", "done", "unflag", "halt", "clear", "carry", "recover", "scan", "revoke",
               "replay", "flush", "reset", "settle", "reload", "super", "sync"}
    /\ mode \in Modes \cup {"check"}
    /\ next_commit \in 0 .. TidMod - 1 /\ end \in 0 .. TidMod - 1
    /\ next_block \in {0} \cup First .. Last - 1
    /\ reads \in 0 .. Last
    /\ errors \in BOOLEAN /\ failed \in BOOLEAN

Plain == Homes \ {Super}

Intact == IsIntact(image)

\* An intact journal is emptied only over homes that have what it held: whatever the
\* power leaves, a home shows its final contents, or a log that is still to be
\* replayed has a say in it ("journal recovery ... so that the passes read the
\* metadata the filesystem really has").
NothingLost ==
    Intact => \A j \in jpend, b \in Plain : \A v \in dpend[b] :
        v = image.goal[b] \/ (j.start # 0 /\ b \in image.logged)

\* A check that replayed an intact journal leaves every home, the superblock's own
\* fields included, as the log's committed and unrevoked writes make it, however
\* often it was cut short before: replay is idempotent.
ReplayedExactly ==
    pc = "done" /\ mode = "repair" /\ jsb.ok /\ Intact =>
        /\ \A b \in Plain : disk[b] = image.goal[b]
        /\ disk[Super].body = image.goal[Super].body
        /\ ~disk[Super].recover

\* "The log restarts past every transaction it held, so nothing in it can be
\* taken for a commit again" (recover): no commit block of an intact log has the
\* sequence the log restarts at, or a later one.
LogIsRetired ==
    pc = "settle" /\ Intact =>
        \A b \in First .. Last - 1 :
            log[b].kind = "commit" => ~tid_geq(log[b].seq, jsb.sequence)

\* The second and third pass find the log the scan found: neither ever stops
\* short of `end`, and no descriptor they reach fails its checksum.
PassesFollowScan ==
    pc \in {"revoke", "replay"} /\ tags = << >> /\ next_commit # end =>
        /\ ~tid_geq(next_commit, end)
        /\ Expected(next_block) /\ log[next_block].kind # "other"
        /\ log[next_block].kind = "descriptor" => checksum_ok(next_block)

AtRest == pc \in {"idle", "done"}

\* No check was cut short: the log is emptied before what was wrong with it is
\* written to the superblock, and between the two only memory knows.
Uninterrupted == crashes = 0

\* "Either going wrong part way marks the filesystem not clean, so the full check
\* runs" (fsck): unless a check is cut short, homes the emptied journal could not be
\* replayed into are marked.
DamageIsRemembered ==
    Uninterrupted /\ AtRest /\ jsb.start = 0 /\ (\E b \in Plain : disk[b] # image.goal[b]) =>
        ~disk[Super].valid \/ disk[Super].error

\* "Clear s_errno, once the caller has carried it into the filesystem's ERROR_FS"
\* (clear_errno): unless a check is cut short, an abort the kernel recorded is not forgotten.
AbortIsRemembered ==
    Uninterrupted /\ AtRest /\ image.jsb.errno # 0 => jsb.errno # 0 \/ disk[Super].error

\* Every check of the journal ends.
CheckReturns == ~AtRest ~> AtRest
===============================================================================
