--------------------------------- MODULE Mmp ---------------------------------
(***************************************************************************)
(* Multiple mount protection (mmp.rs): hosts that share one block device   *)
(* take, keep and give back the filesystem through one MMP block.          *)
(*                                                                         *)
(* Time is discrete.  timer[h] is the time left until h's next step is     *)
(* due; sleeps and I/O may make a step late, by at most Delay, and Tick    *)
(* waits for a step that is later than that.  Reads and writes of the MMP  *)
(* block are single steps.  Sequence numbers a holder may use are a set of *)
(* values; new_seq draws 32 random bits and is taken to draw a number      *)
(* nobody is using.  Host and device names are left out.                   *)
(***************************************************************************)
EXTENDS Integers

CONSTANTS
    Hosts,          \* the hosts that can reach the device
    Checkers,       \* those that acquire with MmpOptions::as_fsck
    Seq,            \* 1 .. SEQ_MAX
    SEQ_CLEAN,
    SEQ_FSCK,
    UnknownSeq,     \* a number above SEQ_FSCK that is not SEQ_CLEAN
    None,           \* no sequence number
    UpdateInterval, \* s_mmp_update_interval
    MinCheck,       \* MIN_CHECK_INTERVAL
    WaitCap,        \* the 60 of wait_for
    Promises,       \* check intervals an earlier holder may have left in the block
    Delay           \* bound: how late a step may be

Least(x, y) == IF x < y THEN x ELSE y
Greatest(x, y) == IF x > y THEN x ELSE y

\* The interval acquire starts from.
CheckInterval == Greatest(UpdateInterval, MinCheck)

\* Mutant: one interval only.
wait_for_Once(i) == i

wait_for(i) == Least(2 * i + 1, i + WaitCap)

ASSUME MmpAssumption ==
    /\ Checkers \subseteq Hosts
    /\ Seq \cap {SEQ_CLEAN, SEQ_FSCK, UnknownSeq, None} = {}
    /\ SEQ_CLEAN \notin {SEQ_FSCK, UnknownSeq, None}
    /\ SEQ_FSCK \notin {UnknownSeq, None}
    /\ UnknownSeq # None
    /\ UpdateInterval \in Nat /\ MinCheck \in Nat /\ WaitCap \in Nat
    /\ Promises \subseteq Nat
    /\ Delay \in Nat

\* A heartbeat on time comes before the end of any wait: i + Delay < wait_for(i).
ASSUME WaitAssumption == Delay < WaitCap /\ Delay <= CheckInterval

VARIABLES
    block,      \* the MMP block: its seq and check_interval
    pc,         \* where each host's acquire is, or "held" once it returned a lease
    seq,        \* the number each host stamped: MmpLease.seq
    seen,       \* existing.seq, while waiting to see whether it moves
    promise,    \* check_interval: acquire's variable, then MmpLease's
    timer       \* time until the host's next step is due

vars == <<block, pc, seq, seen, promise, timer>>

Idle(h) ==
    /\ pc' = [pc EXCEPT ![h] = "idle"]
    /\ seq' = [seq EXCEPT ![h] = None]
    /\ seen' = [seen EXCEPT ![h] = None]
    /\ promise' = [promise EXCEPT ![h] = 0]
    /\ timer' = [timer EXCEPT ![h] = 0]

Init ==
    /\ block \in [seq : Seq \cup {SEQ_CLEAN, SEQ_FSCK, UnknownSeq}, check_interval : Promises]
    /\ pc = [h \in Hosts |-> "idle"]
    /\ seq = [h \in Hosts |-> None]
    /\ seen = [h \in Hosts |-> None]
    /\ promise = [h \in Hosts |-> 0]
    /\ timer = [h \in Hosts |-> 0]

-------------------------------------------------------------------------------
(* acquire *)

\* The block is clean: the host goes on to stamp its claim.
AcquireClean(h) ==
    /\ pc[h] = "idle"
    /\ block.seq = SEQ_CLEAN
    /\ pc' = [pc EXCEPT ![h] = "stamp"]
    /\ promise' = [promise EXCEPT ![h] = CheckInterval]
    /\ UNCHANGED <<block, seq, seen, timer>>

\* FsckRunning and UnknownSequence: refused at once, with nothing written.
AcquireRefused(h) ==
    /\ pc[h] = "idle"
    /\ block.seq \in {SEQ_FSCK, UnknownSeq}
    /\ UNCHANGED vars

\* Mutant: reserved numbers are watched like any other.
AcquireHeld_Any(h) ==
    /\ pc[h] = "idle"
    /\ block.seq # SEQ_CLEAN
    /\ pc' = [pc EXCEPT ![h] = "watch"]
    /\ seen' = [seen EXCEPT ![h] = block.seq]
    /\ promise' = [promise EXCEPT ![h] = CheckInterval]
    /\ timer' = [timer EXCEPT ![h] = wait_for(CheckInterval)]
    /\ UNCHANGED <<block, seq>>

\* The block is held: the host waits to see whether its number moves.
AcquireHeld(h) ==
    /\ pc[h] = "idle"
    /\ block.seq \in Seq
    /\ pc' = [pc EXCEPT ![h] = "watch"]
    /\ seen' = [seen EXCEPT ![h] = block.seq]
    /\ LET i == Greatest(CheckInterval, block.check_interval)
       IN  /\ promise' = [promise EXCEPT ![h] = i]
           /\ timer' = [timer EXCEPT ![h] = wait_for(i)]
    /\ UNCHANGED <<block, seq>>

\* Mutants: the second read is not compared, or a number that moved is watched anew.
Watched_Blind(h) ==
    /\ pc[h] = "watch" /\ timer[h] <= 0
    /\ pc' = [pc EXCEPT ![h] = "stamp"]
    /\ seen' = [seen EXCEPT ![h] = None]
    /\ timer' = [timer EXCEPT ![h] = 0]
    /\ UNCHANGED <<block, seq, promise>>
Watched_Again(h) ==
    /\ pc[h] = "watch" /\ timer[h] <= 0
    /\ seen' = [seen EXCEPT ![h] = IF block.seq \in Seq THEN block.seq ELSE @]
    /\ timer' = [timer EXCEPT ![h] = wait_for(promise[h])]
    /\ UNCHANGED <<block, pc, seq, promise>>

\* The second read: the number moved, and the host is refused, or it did not, and the host takes over.
Watched(h) ==
    /\ pc[h] = "watch" /\ timer[h] <= 0
    /\ \/ /\ block.seq # seen[h]
          /\ Idle(h)
       \/ /\ block.seq = seen[h]
          /\ pc' = [pc EXCEPT ![h] = "stamp"]
          /\ seen' = [seen EXCEPT ![h] = None]
          /\ timer' = [timer EXCEPT ![h] = 0]
          /\ UNCHANGED <<seq, promise>>
    /\ UNCHANGED block

\* new_seq
InUse == {block.seq} \cup {seq[g] : g \in Hosts} \cup {seen[g] : g \in Hosts}

Stamp(h) ==
    /\ pc[h] = "stamp"
    /\ \E s \in Seq \ InUse :
          /\ seq' = [seq EXCEPT ![h] = s]
          /\ block' = [seq |-> s, check_interval |-> promise[h]]
    /\ pc' = [pc EXCEPT ![h] = "confirm"]
    /\ timer' = [timer EXCEPT ![h] = wait_for(promise[h])]
    /\ UNCHANGED <<seen, promise>>

\* Mutant: the last read is not compared.
Confirm_Blind(h) ==
    /\ pc[h] = "confirm" /\ timer[h] <= 0
    /\ pc' = [pc EXCEPT ![h] = "held"]
    /\ timer' = [timer EXCEPT ![h] = promise[h]]
    /\ UNCHANGED <<block, seq, seen, promise>>

\* The last read: the filesystem is the host's if its number is still there.
Confirm(h) ==
    /\ pc[h] = "confirm" /\ timer[h] <= 0
    /\ \/ /\ block.seq # seq[h]
          /\ Idle(h)
       \/ /\ block.seq = seq[h]
          /\ pc' = [pc EXCEPT ![h] = IF h \in Checkers THEN "mark" ELSE "held"]
          /\ timer' = [timer EXCEPT ![h] = IF h \in Checkers THEN 0 ELSE promise[h]]
          /\ UNCHANGED <<seq, seen, promise>>
    /\ UNCHANGED block

\* A checker makes its hold visible as such.
Mark(h) ==
    /\ pc[h] = "mark"
    /\ block' = [seq |-> SEQ_FSCK, check_interval |-> promise[h]]
    /\ seq' = [seq EXCEPT ![h] = SEQ_FSCK]
    /\ pc' = [pc EXCEPT ![h] = "held"]
    /\ UNCHANGED <<seen, promise, timer>>

-------------------------------------------------------------------------------
(* MmpLease *)

\* Mutant: the number in the block is left as it is.
heartbeat_TimeOnly(h) ==
    /\ pc[h] = "held" /\ h \notin Checkers
    /\ timer' = [timer EXCEPT ![h] = promise[h]]
    /\ UNCHANGED <<block, pc, seq, seen, promise>>

\* The lease's number is written again as it is.
heartbeat(h) ==
    /\ pc[h] = "held" /\ h \notin Checkers
    /\ block' = [seq |-> seq[h], check_interval |-> promise[h]]
    /\ timer' = [timer EXCEPT ![h] = promise[h]]
    /\ UNCHANGED <<pc, seq, seen, promise>>

release(h) ==
    /\ pc[h] = "held"
    /\ block' = [seq |-> SEQ_CLEAN, check_interval |-> promise[h]]
    /\ Idle(h)

\* The host crashes, or an I/O error ends acquire: nothing it wrote is taken back.
Die(h) ==
    /\ pc[h] # "idle"
    /\ Idle(h)
    /\ UNCHANGED block

-------------------------------------------------------------------------------
\* Hosts with a step to come: a checker that holds is not heartbeated.
Timed(h) == pc[h] # "idle" /\ ~(pc[h] = "held" /\ h \in Checkers)

Tick ==
    /\ \A h \in Hosts : Timed(h) => timer[h] > -Delay
    /\ \E h \in Hosts : Timed(h)
    /\ timer' = [h \in Hosts |-> IF Timed(h) THEN timer[h] - 1 ELSE timer[h]]
    /\ UNCHANGED <<block, pc, seq, seen, promise>>

\* The steps a host takes because they are due.
Due(h) ==
    \/ Watched(h) \/ Stamp(h) \/ Confirm(h) \/ Mark(h)
    \/ timer[h] <= 0 /\ heartbeat(h)

HostStep(h) ==
    \/ AcquireClean(h) \/ AcquireRefused(h) \/ AcquireHeld(h)
    \/ Watched(h) \/ Stamp(h) \/ Confirm(h) \/ Mark(h)
    \/ heartbeat(h) \/ release(h) \/ Die(h)

Next == Tick \/ \E h \in Hosts : HostStep(h)

Spec == Init /\ [][Next]_vars

\* Time passes, and a task whose sleep or I/O is over is polled.
FairSpec == Spec /\ SF_vars(Tick) /\ \A h \in Hosts : WF_vars(Due(h))

-------------------------------------------------------------------------------
(* Properties *)

Holds(h) == pc[h] = "held"

\* Every variable has the shape the code's types give it; a lease carries the
\* number its host stamped.
TypeOK ==
    /\ block \in [seq : Seq \cup {SEQ_CLEAN, SEQ_FSCK, UnknownSeq}, check_interval : Nat]
    /\ pc \in [Hosts -> {"idle", "watch", "stamp", "confirm", "mark", "held"}]
    /\ seq \in [Hosts -> Seq \cup {SEQ_FSCK, None}]
    /\ seen \in [Hosts -> Seq \cup {None}]
    /\ promise \in [Hosts -> Nat]
    /\ timer \in [Hosts -> Int]
    /\ \A h \in Hosts : timer[h] >= -Delay

\* "a silent, destructive double mount" becomes a refusal (module doc): no two
\* hosts ever hold leases at once, though heartbeat never moves the number a
\* second host watches and release never looks at the block it overwrites.
Exclusive == \A g, h \in Hosts : Holds(g) /\ Holds(h) => g = h

\* A host never believes it holds a filesystem the block calls clean, which the next host to come
\* would take without waiting to see whether anything moves.
HeldIsMarked == \A h \in Hosts : Holds(h) => block.seq # SEQ_CLEAN

\* "If our number is still there, nobody raced us and the filesystem is ours"
\* (acquire, step 3), for a checker's hold: no other host holds with it.
CheckerHoldsAlone ==
    \A g, h \in Hosts : Holds(g) /\ Holds(h) /\ h \in Checkers => g = h

Sealed(c) ==
    /\ Holds(c) /\ block.seq = SEQ_FSCK
    /\ \A h \in Hosts \ {c} : pc[h] \in {"idle", "watch"}

\* The race at the mark is the only one a checker can lose: from when its mark stands and
\* no other host is past its reads, nobody else gets anywhere until the checker is gone.
SealLasts == [][\A c \in Checkers : Sealed(c) => Sealed(c)' \/ ~Holds(c)']_vars

\* acquire returns: a lease, a refusal or an error.
AcquireReturns == \A h \in Hosts : pc[h] \notin {"idle", "held"} ~> pc[h] \in {"idle", "held"}

\* A claim stamped over a live lease does not last: the block comes to show the lease again.
HoldIsRestored ==
    \A h \in Hosts \ Checkers :
        Holds(h) /\ block.seq # seq[h] ~> (Holds(h) => block.seq = seq[h])
===============================================================================
