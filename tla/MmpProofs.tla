------------------------------ MODULE MmpProofs ------------------------------
(***************************************************************************)
(* Why MMP keeps mounters apart, for any number of hosts, any intervals    *)
(* and any lateness below the margin WaitAssumption names.                 *)
(*                                                                         *)
(* A lease is safe because its next heartbeat always comes before any      *)
(* other host's deciding read: the two timers are compared, and Tick moves *)
(* them together.                                                          *)
(***************************************************************************)
EXTENDS Mmp, TLAPS

\* The state each stage of acquire leaves behind.
Stages ==
    \A h \in Hosts :
        /\ pc[h] \in {"idle", "watch", "stamp"} => seq[h] = None
        /\ pc[h] \in {"idle", "stamp"} => seen[h] = None /\ timer[h] <= 0
        /\ pc[h] = "watch" => seen[h] \in Seq
        /\ pc[h] \in {"confirm", "held"} => seq[h] \in Seq
        /\ pc[h] = "held" => timer[h] <= promise[h]
        /\ pc[h] # "mark"
        /\ pc[h] # "idle" => promise[h] >= CheckInterval

\* No two hosts stamped the same number.
Distinct == \A g, h \in Hosts : g # h /\ seq[h] # None => seq[g] # seq[h]

\* A number in the block stands beside the interval of the host that stamped it,
\* and whoever watches that number waits at least for that interval.
Believed ==
    \A g, h \in Hosts :
        /\ seq[h] # None /\ block.seq = seq[h] => block.check_interval = promise[h]
        /\ pc[g] = "watch" /\ seq[h] # None /\ seen[g] = seq[h] => promise[g] >= promise[h]

\* A claim still in the block is confirmed only after every host that may yet
\* stamp has done so, or has promised at least as much.
ClaimsWait ==
    \A g, h \in Hosts :
        g # h /\ pc[h] = "confirm" /\ block.seq = seq[h] /\ pc[g] = "stamp" =>
            promise[g] >= promise[h] \/ timer[g] + Delay < timer[h]

\* Against a lease: claims and watches of other numbers end after its next heartbeat.
LeasesLast ==
    \A g, h \in Hosts :
        g # h /\ pc[h] = "held" =>
            /\ pc[g] = "confirm" /\ block.seq = seq[g] => timer[g] > timer[h] + Delay
            /\ pc[g] = "watch" /\ seen[g] = block.seq /\ block.seq # seq[h] =>
                  timer[g] > timer[h] + Delay
            /\ pc[g] = "stamp" => promise[g] >= promise[h]

LeaseInBlock ==
    \A h \in Hosts : pc[h] = "held" =>
        block.check_interval >= promise[h] /\ block.seq \in Seq

IInv ==
    /\ TypeOK /\ Stages /\ Distinct /\ Believed
    /\ ClaimsWait /\ LeasesLast /\ LeaseInBlock /\ Exclusive

\* wait_for leaves room for a heartbeat that is as late as may be.
LEMMA WaitIsLong ==
    ASSUME NEW i \in Nat, i >= CheckInterval
    PROVE  wait_for(i) \in Int /\ wait_for(i) > i + Delay
  BY MmpAssumption, WaitAssumption DEF wait_for, Least, CheckInterval, Greatest

\* The interval acquire starts from is a natural number.
LEMMA IntervalType == CheckInterval \in Nat
  BY MmpAssumption DEF CheckInterval, Greatest

\* Every initial block and idle hosts satisfy the invariant.
LEMMA Initially == Init => IInv
  <1> SUFFICES ASSUME Init PROVE IInv
    OBVIOUS
  <1>1. TypeOK
    <2>1. block \in [seq : Seq \cup {SEQ_CLEAN, SEQ_FSCK, UnknownSeq}, check_interval : Nat]
      <3>1. Promises \subseteq Nat
        BY MmpAssumption
      <3> QED BY <3>1 DEF Init
    <2>2. \A h \in Hosts : timer[h] >= -Delay
      <3>1. Delay \in Nat
        BY MmpAssumption
      <3>2. 0 >= -Delay
        BY <3>1
      <3> QED BY <3>2 DEF Init
    <2> QED BY <2>1, <2>2 DEF Init, TypeOK
  <1>2. Stages /\ Distinct /\ Believed
    BY DEF Init, Stages, Distinct, Believed
  <1>3. ClaimsWait /\ LeasesLast /\ LeaseInBlock /\ Exclusive
    BY DEF Init, ClaimsWait, LeasesLast, LeaseInBlock, Exclusive, Holds
  <1> QED BY <1>1, <1>2, <1>3 DEF IInv

\* AcquireClean keeps the invariant.
LEMMA KeepsAcquireClean ==
    ASSUME IInv, Checkers = {}, NEW k \in Hosts, AcquireClean(k)
    PROVE  IInv'
  <1> USE MmpAssumption, IntervalType DEF AcquireClean
  <1>1. TypeOK'
    BY WaitIsLong DEF IInv, TypeOK, Stages, Greatest
  <1>2. Stages'
    BY WaitIsLong DEF IInv, TypeOK, Stages, Greatest
  <1>3. Distinct'
    BY WaitIsLong DEF IInv, TypeOK, Stages, Distinct
  <1>4. Believed'
    BY WaitIsLong DEF IInv, TypeOK, Stages, Distinct, Believed, Greatest
  <1>5. ClaimsWait'
    BY WaitIsLong DEF IInv, TypeOK, Stages, Distinct, Believed, ClaimsWait
  <1>6. LeasesLast'
    BY WaitIsLong DEF IInv, TypeOK, Stages, Distinct, Believed, ClaimsWait, LeasesLast, LeaseInBlock, Greatest, Exclusive, Holds
  <1>7. LeaseInBlock'
    BY WaitIsLong DEF IInv, TypeOK, Stages, Distinct, Believed, LeasesLast, LeaseInBlock, Exclusive, Holds
  <1>8. Exclusive'
    BY WaitIsLong DEF IInv, TypeOK, Stages, LeasesLast, Exclusive, Holds
  <1> QED BY <1>1, <1>2, <1>3, <1>4, <1>5, <1>6, <1>7, <1>8 DEF IInv

\* AcquireHeld keeps the invariant.
LEMMA KeepsAcquireHeld ==
    ASSUME IInv, Checkers = {}, NEW k \in Hosts, AcquireHeld(k)
    PROVE  IInv'
  <1> USE MmpAssumption, IntervalType DEF AcquireHeld
  <1>1. TypeOK'
    BY WaitIsLong DEF IInv, TypeOK, Stages, Greatest
  <1>2. Stages'
    BY WaitIsLong DEF IInv, TypeOK, Stages, Greatest
  <1>3. Distinct'
    BY WaitIsLong DEF IInv, TypeOK, Stages, Distinct
  <1>4. Believed'
    BY WaitIsLong DEF IInv, TypeOK, Stages, Distinct, Believed, Greatest
  <1>5. ClaimsWait'
    BY WaitIsLong DEF IInv, TypeOK, Stages, Distinct, Believed, ClaimsWait
  <1>6. LeasesLast'
    BY WaitIsLong DEF IInv, TypeOK, Stages, Distinct, Believed, ClaimsWait, LeasesLast, LeaseInBlock, Greatest, Exclusive, Holds
  <1>7. LeaseInBlock'
    BY WaitIsLong DEF IInv, TypeOK, Stages, Distinct, Believed, LeasesLast, LeaseInBlock, Exclusive, Holds
  <1>8. Exclusive'
    BY WaitIsLong DEF IInv, TypeOK, Stages, LeasesLast, Exclusive, Holds
  <1> QED BY <1>1, <1>2, <1>3, <1>4, <1>5, <1>6, <1>7, <1>8 DEF IInv

\* Watched keeps the invariant.
LEMMA KeepsWatched ==
    ASSUME IInv, Checkers = {}, NEW k \in Hosts, Watched(k)
    PROVE  IInv'
  <1> USE MmpAssumption, IntervalType DEF Watched, Idle
  <1>1. TypeOK'
    BY WaitIsLong DEF IInv, TypeOK, Stages, Greatest
  <1>2. Stages'
    BY WaitIsLong DEF IInv, TypeOK, Stages, Greatest
  <1>3. Distinct'
    BY WaitIsLong DEF IInv, TypeOK, Stages, Distinct
  <1>4. Believed'
    BY WaitIsLong DEF IInv, TypeOK, Stages, Distinct, Believed, Greatest
  <1>5. ClaimsWait'
    BY WaitIsLong DEF IInv, TypeOK, Stages, Distinct, Believed, ClaimsWait
  <1>6. LeasesLast'
    BY WaitIsLong DEF IInv, TypeOK, Stages, Distinct, Believed, ClaimsWait, LeasesLast, LeaseInBlock, Greatest, Exclusive, Holds
  <1>7. LeaseInBlock'
    BY WaitIsLong DEF IInv, TypeOK, Stages, Distinct, Believed, LeasesLast, LeaseInBlock, Exclusive, Holds
  <1>8. Exclusive'
    BY WaitIsLong DEF IInv, TypeOK, Stages, LeasesLast, Exclusive, Holds
  <1> QED BY <1>1, <1>2, <1>3, <1>4, <1>5, <1>6, <1>7, <1>8 DEF IInv

\* Stamp keeps the invariant.
LEMMA KeepsStamp ==
    ASSUME IInv, Checkers = {}, NEW k \in Hosts, Stamp(k)
    PROVE  IInv'
  <1> USE MmpAssumption, IntervalType DEF Stamp, InUse
  <1>1. TypeOK'
    BY WaitIsLong DEF IInv, TypeOK, Stages, Greatest
  <1>2. Stages'
    BY WaitIsLong DEF IInv, TypeOK, Stages, Greatest
  <1>3. Distinct'
    BY WaitIsLong DEF IInv, TypeOK, Stages, Distinct
  <1>4. Believed'
    BY WaitIsLong DEF IInv, TypeOK, Stages, Distinct, Believed, Greatest
  <1>5. ClaimsWait'
    BY WaitIsLong DEF IInv, TypeOK, Stages, Distinct, Believed, ClaimsWait
  <1>6. LeasesLast'
    BY WaitIsLong DEF IInv, TypeOK, Stages, Distinct, Believed, ClaimsWait, LeasesLast, LeaseInBlock, Greatest, Exclusive, Holds
  <1>7. LeaseInBlock'
    BY WaitIsLong DEF IInv, TypeOK, Stages, Distinct, Believed, LeasesLast, LeaseInBlock, Exclusive, Holds
  <1>8. Exclusive'
    BY WaitIsLong DEF IInv, TypeOK, Stages, LeasesLast, Exclusive, Holds
  <1> QED BY <1>1, <1>2, <1>3, <1>4, <1>5, <1>6, <1>7, <1>8 DEF IInv

\* Confirm keeps the invariant.
LEMMA KeepsConfirm ==
    ASSUME IInv, Checkers = {}, NEW k \in Hosts, Confirm(k)
    PROVE  IInv'
  <1> USE MmpAssumption, IntervalType DEF Confirm, Idle
  <1>1. TypeOK'
    BY WaitIsLong DEF IInv, TypeOK, Stages, Greatest
  <1>2. Stages'
    BY WaitIsLong DEF IInv, TypeOK, Stages, Greatest
  <1>3. Distinct'
    BY WaitIsLong DEF IInv, TypeOK, Stages, Distinct
  <1>4. Believed'
    BY WaitIsLong DEF IInv, TypeOK, Stages, Distinct, Believed, Greatest
  <1>5. ClaimsWait'
    BY WaitIsLong DEF IInv, TypeOK, Stages, Distinct, Believed, ClaimsWait
  <1>6. LeasesLast'
    BY WaitIsLong DEF IInv, TypeOK, Stages, Distinct, Believed, ClaimsWait, LeasesLast, LeaseInBlock, Greatest, Exclusive, Holds
  <1>7. LeaseInBlock'
    BY WaitIsLong DEF IInv, TypeOK, Stages, Distinct, Believed, LeasesLast, LeaseInBlock, Exclusive, Holds
  <1>8. Exclusive'
    BY WaitIsLong DEF IInv, TypeOK, Stages, LeasesLast, Exclusive, Holds
  <1> QED BY <1>1, <1>2, <1>3, <1>4, <1>5, <1>6, <1>7, <1>8 DEF IInv

\* heartbeat keeps the invariant.
LEMMA KeepsHeartbeat ==
    ASSUME IInv, Checkers = {}, NEW k \in Hosts, heartbeat(k)
    PROVE  IInv'
  <1> USE MmpAssumption, IntervalType DEF heartbeat
  <1>1. TypeOK'
    BY WaitIsLong DEF IInv, TypeOK, Stages, Greatest
  <1>2. Stages'
    BY WaitIsLong DEF IInv, TypeOK, Stages, Greatest
  <1>3. Distinct'
    BY WaitIsLong DEF IInv, TypeOK, Stages, Distinct
  <1>4. Believed'
    BY WaitIsLong DEF IInv, TypeOK, Stages, Distinct, Believed, Greatest
  <1>5. ClaimsWait'
    BY WaitIsLong DEF IInv, TypeOK, Stages, Distinct, Believed, ClaimsWait
  <1>6. LeasesLast'
    BY WaitIsLong DEF IInv, TypeOK, Stages, Distinct, Believed, ClaimsWait, LeasesLast, LeaseInBlock, Greatest, Exclusive, Holds
  <1>7. LeaseInBlock'
    BY WaitIsLong DEF IInv, TypeOK, Stages, Distinct, Believed, LeasesLast, LeaseInBlock, Exclusive, Holds
  <1>8. Exclusive'
    BY WaitIsLong DEF IInv, TypeOK, Stages, LeasesLast, Exclusive, Holds
  <1> QED BY <1>1, <1>2, <1>3, <1>4, <1>5, <1>6, <1>7, <1>8 DEF IInv

\* release keeps the invariant.
LEMMA KeepsRelease ==
    ASSUME IInv, Checkers = {}, NEW k \in Hosts, release(k)
    PROVE  IInv'
  <1> USE MmpAssumption, IntervalType DEF release, Idle
  <1>1. TypeOK'
    BY WaitIsLong DEF IInv, TypeOK, Stages, Greatest
  <1>2. Stages'
    BY WaitIsLong DEF IInv, TypeOK, Stages, Greatest
  <1>3. Distinct'
    BY WaitIsLong DEF IInv, TypeOK, Stages, Distinct
  <1>4. Believed'
    BY WaitIsLong DEF IInv, TypeOK, Stages, Distinct, Believed, Greatest
  <1>5. ClaimsWait'
    BY WaitIsLong DEF IInv, TypeOK, Stages, Distinct, Believed, ClaimsWait
  <1>6. LeasesLast'
    BY WaitIsLong DEF IInv, TypeOK, Stages, Distinct, Believed, ClaimsWait, LeasesLast, LeaseInBlock, Greatest, Exclusive, Holds
  <1>7. LeaseInBlock'
    BY WaitIsLong DEF IInv, TypeOK, Stages, Distinct, Believed, LeasesLast, LeaseInBlock, Exclusive, Holds
  <1>8. Exclusive'
    BY WaitIsLong DEF IInv, TypeOK, Stages, LeasesLast, Exclusive, Holds
  <1> QED BY <1>1, <1>2, <1>3, <1>4, <1>5, <1>6, <1>7, <1>8 DEF IInv

\* Die keeps the invariant.
LEMMA KeepsDie ==
    ASSUME IInv, Checkers = {}, NEW k \in Hosts, Die(k)
    PROVE  IInv'
  <1> USE MmpAssumption, IntervalType DEF Die, Idle
  <1>1. TypeOK'
    BY WaitIsLong DEF IInv, TypeOK, Stages, Greatest
  <1>2. Stages'
    BY WaitIsLong DEF IInv, TypeOK, Stages, Greatest
  <1>3. Distinct'
    BY WaitIsLong DEF IInv, TypeOK, Stages, Distinct
  <1>4. Believed'
    BY WaitIsLong DEF IInv, TypeOK, Stages, Distinct, Believed, Greatest
  <1>5. ClaimsWait'
    BY WaitIsLong DEF IInv, TypeOK, Stages, Distinct, Believed, ClaimsWait
  <1>6. LeasesLast'
    BY WaitIsLong DEF IInv, TypeOK, Stages, Distinct, Believed, ClaimsWait, LeasesLast, LeaseInBlock, Greatest, Exclusive, Holds
  <1>7. LeaseInBlock'
    BY WaitIsLong DEF IInv, TypeOK, Stages, Distinct, Believed, LeasesLast, LeaseInBlock, Exclusive, Holds
  <1>8. Exclusive'
    BY WaitIsLong DEF IInv, TypeOK, Stages, LeasesLast, Exclusive, Holds
  <1> QED BY <1>1, <1>2, <1>3, <1>4, <1>5, <1>6, <1>7, <1>8 DEF IInv

\* Time moves every timer that counts by the same amount, and never past a step's latest moment.
LEMMA KeepsTick ==
    ASSUME IInv, Checkers = {}, Tick
    PROVE  IInv'
  <1> USE MmpAssumption, IntervalType DEF Tick, Timed
  <1>1. TypeOK'
    BY DEF IInv, TypeOK
  <1>2. Stages'
    BY DEF IInv, TypeOK, Stages, Stages
  <1>3. Distinct'
    BY DEF IInv, TypeOK, Stages, Distinct
  <1>4. Believed'
    BY DEF IInv, TypeOK, Stages, Believed
  <1>5. ClaimsWait'
    BY DEF IInv, TypeOK, Stages, ClaimsWait
  <1>6. LeasesLast'
    BY DEF IInv, TypeOK, Stages, LeasesLast
  <1>7. LeaseInBlock'
    BY DEF IInv, TypeOK, Stages, LeaseInBlock
  <1>8. Exclusive'
    BY DEF IInv, TypeOK, Stages, Exclusive, Holds
  <1> QED BY <1>1, <1>2, <1>3, <1>4, <1>5, <1>6, <1>7, <1>8 DEF IInv

\* A step that changes nothing keeps the invariant.
LEMMA KeepsStutter ==
    ASSUME IInv, UNCHANGED vars
    PROVE  IInv'
  BY DEF IInv, vars, TypeOK, Stages, Distinct, Believed, ClaimsWait, LeasesLast, LeaseInBlock,
         Exclusive, Holds

\* Every step of every host keeps the invariant.
LEMMA Inductive ==
    ASSUME IInv, Checkers = {}, [Next]_vars
    PROVE  IInv'
  <1>1. CASE UNCHANGED vars
    BY <1>1, KeepsStutter
  <1>2. CASE Tick
    BY <1>2, KeepsTick
  <1>3. CASE \E h \in Hosts : HostStep(h)
    <2> PICK k \in Hosts : HostStep(k)
      BY <1>3
    <2>1. ~Mark(k)
      BY DEF Mark, IInv, Stages
    <2>2. AcquireRefused(k) => IInv'
      BY KeepsStutter DEF AcquireRefused
    <2> QED
      BY <2>1, <2>2, KeepsAcquireClean, KeepsAcquireHeld, KeepsWatched, KeepsStamp, KeepsConfirm,
         KeepsHeartbeat, KeepsRelease, KeepsDie DEF HostStep
  <1> QED BY <1>1, <1>2, <1>3 DEF Next

-------------------------------------------------------------------------------
\* The timing invariant holds throughout, when every host acquires as a mounter.
THEOREM Invariance ==
    ASSUME Checkers = {}
    PROVE  Spec => []IInv
  BY Initially, Inductive, PTL DEF Spec

\* At most one mounter ever has a lease, whatever the number of hosts, the
\* intervals in the superblock and the block, crashes, errors and retries.
THEOREM NoDoubleMount ==
    ASSUME Checkers = {}
    PROVE  Spec => []Exclusive
  <1>1. IInv => Exclusive
    BY DEF IInv
  <1> QED BY <1>1, Invariance, PTL

\* No mounter holds a filesystem whose MMP block says it is clean.
THEOREM NoCleanHold ==
    ASSUME Checkers = {}
    PROVE  Spec => []HeldIsMarked
  <1>1. IInv => HeldIsMarked
    BY MmpAssumption DEF IInv, LeaseInBlock, HeldIsMarked, Holds
  <1> QED BY <1>1, Invariance, PTL

-------------------------------------------------------------------------------
(* Mounters and checkers together *)

\* A host past its stamp has a number, and a host that watches watches one a holder may use.
Stamped ==
    \A h \in Hosts :
        /\ pc[h] \in {"confirm", "mark", "held"} => seq[h] # None
        /\ pc[h] = "watch" => seen[h] \in Seq

\* A host that gives up or gives back leaves types and stages as they are elsewhere.
LEMMA KeepsIdle ==
    ASSUME TypeOK, Stamped, NEW h \in Hosts, Idle(h),
           block' \in [seq : Seq \cup {SEQ_CLEAN, SEQ_FSCK, UnknownSeq}, check_interval : Nat]
    PROVE  TypeOK' /\ Stamped'
  <1>1. -Delay <= 0 /\ -Delay \in Int
    BY MmpAssumption
  <1>2. TypeOK'
    BY <1>1 DEF TypeOK, Idle
  <1>3. Stamped'
    BY DEF TypeOK, Stamped, Idle
  <1> QED BY <1>2, <1>3

\* What wait_for returns is a time to wait.
LEMMA WaitType ==
    ASSUME NEW i \in Nat
    PROVE  wait_for(i) \in Nat
  BY MmpAssumption DEF wait_for, Least

\* Every step of a mounter or a checker keeps types and stages.
LEMMA TypeStep ==
    ASSUME TypeOK, Stamped, [Next]_vars
    PROVE  TypeOK' /\ Stamped'
  <1>0. Delay \in Nat /\ -Delay \in Int /\ -Delay <= 0 /\ CheckInterval \in Nat
    BY MmpAssumption, IntervalType
  <1>1. ASSUME NEW h \in Hosts, HostStep(h)
        PROVE  TypeOK' /\ Stamped'
    <2>1. CASE AcquireClean(h)
      BY <1>0, <2>1 DEF AcquireClean, TypeOK, Stamped
    <2>2. CASE AcquireRefused(h)
      BY <2>2 DEF AcquireRefused, TypeOK, Stamped, vars
    <2>3. CASE AcquireHeld(h)
      <3> DEFINE i == Greatest(CheckInterval, block.check_interval)
      <3>1. i \in Nat
        BY <1>0 DEF TypeOK, Greatest
      <3>2. wait_for(i) \in Nat
        BY <3>1, WaitType
      <3>3. promise' = [promise EXCEPT ![h] = i] /\ timer' = [timer EXCEPT ![h] = wait_for(i)]
        BY <2>3 DEF AcquireHeld
      <3> HIDE DEF i
      <3>4. TypeOK'
        BY <1>0, <2>3, <3>1, <3>2, <3>3 DEF AcquireHeld, TypeOK
      <3>5. Stamped'
        BY <2>3 DEF AcquireHeld, TypeOK, Stamped
      <3> QED BY <3>4, <3>5
    <2>4. CASE Watched(h)
      <3>1. CASE Idle(h)
        BY <2>4, <3>1, KeepsIdle DEF Watched, TypeOK
      <3>2. CASE ~Idle(h)
        BY <1>0, <2>4, <3>2 DEF Watched, TypeOK, Stamped
      <3> QED BY <3>1, <3>2
    <2>5. CASE Stamp(h)
      <3>1. wait_for(promise[h]) \in Nat /\ promise[h] \in Nat
        BY WaitType DEF TypeOK
      <3>2. PICK s \in Seq : /\ seq' = [seq EXCEPT ![h] = s]
                             /\ block' = [seq |-> s, check_interval |-> promise[h]]
        BY <2>5 DEF Stamp
      <3>3. s # None
        BY MmpAssumption
      <3>4. TypeOK'
        BY <1>0, <2>5, <3>1, <3>2 DEF Stamp, TypeOK
      <3>5. Stamped'
        BY <2>5, <3>2, <3>3 DEF Stamp, TypeOK, Stamped
      <3> QED BY <3>4, <3>5
    <2>6. CASE Confirm(h)
      <3>1. CASE Idle(h)
        BY <2>6, <3>1, KeepsIdle DEF Confirm, TypeOK
      <3>2. CASE ~Idle(h)
        BY <1>0, <2>6, <3>2 DEF Confirm, TypeOK, Stamped
      <3> QED BY <3>1, <3>2
    <2>7. CASE Mark(h)
      <3>1. SEQ_FSCK # None
        BY MmpAssumption
      <3> QED BY <1>0, <2>7, <3>1 DEF Mark, TypeOK, Stamped
    <2>8. CASE heartbeat(h)
      <3>1. promise[h] \in Nat /\ seq[h] \in Seq \cup {SEQ_FSCK}
        BY <2>8 DEF heartbeat, TypeOK, Stamped
      <3> QED BY <1>0, <2>8, <3>1 DEF heartbeat, TypeOK, Stamped
    <2>9. CASE release(h)
      BY <2>9, KeepsIdle DEF release, TypeOK
    <2>10. CASE Die(h)
      BY <2>10, KeepsIdle DEF Die, TypeOK
    <2> QED BY <1>1, <2>1, <2>2, <2>3, <2>4, <2>5, <2>6, <2>7, <2>8, <2>9, <2>10 DEF HostStep
  <1>2. CASE Tick
    BY <1>0, <1>2 DEF Tick, TypeOK, Stamped, Timed
  <1>3. CASE UNCHANGED vars
    BY <1>3 DEF vars, TypeOK, Stamped
  <1> QED BY <1>1, <1>2, <1>3 DEF Next

\* Types and stages hold throughout.
LEMMA TypesAndStages == Spec => [](TypeOK /\ Stamped)
  <1>1. Init => TypeOK
    BY Initially DEF IInv
  <1>2. Init => Stamped
    BY DEF Init, Stamped
  <1>3. (TypeOK /\ Stamped) /\ [Next]_vars => (TypeOK /\ Stamped)'
    BY TypeStep
  <1> QED BY <1>1, <1>2, <1>3, PTL DEF Spec

\* MMP's state keeps its types with any mix of mounters and checkers, and any lateness: a lease always
\* carries a number, so heartbeat never writes anything but a sequence number.
THEOREM TypeCorrect == Spec => []TypeOK
  BY TypesAndStages, PTL

\* A checker's mark that stands while no other host is past its reads is overrun by nobody: acquire
\* refuses at SEQ_FSCK, and a watcher finds that its number moved.
THEOREM SealHolds == Spec => SealLasts
  <1>1. (TypeOK /\ Stamped) /\ [Next]_vars =>
           [\A c \in Checkers : Sealed(c) => Sealed(c)' \/ ~Holds(c)']_vars
    <2> SUFFICES ASSUME TypeOK, Stamped, Next, NEW c \in Checkers, Sealed(c), Holds(c)'
                 PROVE  Sealed(c)'
      OBVIOUS
    <2>1. c \in Hosts /\ SEQ_FSCK \notin Seq /\ SEQ_FSCK # SEQ_CLEAN
      BY MmpAssumption
    <2>2. CASE Tick
      BY <2>2 DEF Tick, Sealed, Holds
    <2>3. ASSUME NEW h \in Hosts, HostStep(h), h = c
          PROVE  Sealed(c)'
      BY <2>1, <2>3 DEF HostStep, AcquireClean, AcquireRefused, AcquireHeld, Watched, Stamp, Confirm, Mark,
         heartbeat, release, Die, Idle, Sealed, Holds, TypeOK, vars
    <2>4. ASSUME NEW h \in Hosts, HostStep(h), h # c
          PROVE  Sealed(c)'
      <3>1. pc[h] \in {"idle", "watch"} /\ block.seq = SEQ_FSCK
        BY <2>1, <2>4 DEF Sealed
      <3>2. AcquireRefused(h) \/ Watched(h) \/ Die(h)
        BY <2>1, <2>4, <3>1 DEF HostStep, AcquireClean, AcquireHeld, Stamp, Confirm, Mark, heartbeat, release
      <3>3. UNCHANGED vars \/ (Idle(h) /\ block' = block)
        BY <2>1, <3>1, <3>2 DEF AcquireRefused, Watched, Die, Stamped
      <3> QED BY <2>1, <2>4, <3>3 DEF Idle, Sealed, Holds, TypeOK, vars
    <2> QED BY <2>2, <2>3, <2>4 DEF Next
  <1> QED BY <1>1, TypesAndStages, PTL DEF Spec, SealLasts
===============================================================================
