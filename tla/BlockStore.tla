------------------------------ MODULE BlockStore ------------------------------
(***************************************************************************)
(* What a caller of the BlockDevice trait (device.rs) may rely on: a disk  *)
(* with a volatile write cache, one call at a time.                        *)
(*                                                                         *)
(*   mem[a]   the byte a read of address a returns                         *)
(*   may[a]   the bytes address a may hold after a power cut               *)
(*   weak     addresses an error has left unsettled: until they are        *)
(*            written again, mem[a] may move within may[a]                 *)
(*   call     the call in progress, buf the bytes it has read so far       *)
(*                                                                         *)
(* A successful flush pins may[a] to mem[a] wherever a is not weak.        *)
(***************************************************************************)
EXTENDS Integers

CONSTANTS
    DevSize,    \* bytes on the device
    Byte,       \* the values a byte takes
    Zero,       \* what write_zeroes stores
    NoByte,     \* "not read yet"
    Faulty      \* whether the device below may return errors

VARIABLES call, mem, may, weak, buf

vars == <<call, mem, may, weak, buf>>

Addr == 0 .. DevSize - 1

NoCall == [kind |-> "none", lo |-> 0, hi |-> 0, val |-> Zero]

\* check_bounds and the early return for an empty buffer leave 0 <= lo < hi <= DevSize.
Calls ==
    {c \in [kind : {"read", "write", "zero", "flush"}, lo : 0 .. DevSize,
            hi : 0 .. DevSize, val : Byte] :
        /\ c.kind = "flush" => c.lo = 0 /\ c.hi = 0
        /\ c.kind # "flush" => c.lo < c.hi
        /\ c.kind # "write" => c.val = Zero}

InCall(a) == call.lo <= a /\ a < call.hi

NoBytes == [a \in Addr |-> NoByte]

Init ==
    /\ call = NoCall
    /\ mem \in [Addr -> Byte]
    /\ may = [a \in Addr |-> {mem[a]}]
    /\ weak = {}
    /\ buf = NoBytes

\* The zeroes of write_zeroes take effect when it is called: no other call can look before it returns.
Begin ==
    /\ call = NoCall
    /\ call' \in Calls
    /\ LET Zeroed(a) == call'.kind = "zero" /\ call'.lo <= a /\ a < call'.hi
       IN  /\ mem' = [a \in Addr |-> IF Zeroed(a) THEN Zero ELSE mem[a]]
           /\ may' = [a \in Addr |-> IF Zeroed(a) THEN may[a] \cup {Zero} ELSE may[a]]
           /\ weak' = {a \in weak : ~Zeroed(a)}
    /\ UNCHANGED buf

\* A read gathers current bytes of its range, some at a time.
Serve ==
    /\ call.kind = "read"
    /\ buf' \in [Addr -> Byte \cup {NoByte}]
    /\ \A a \in Addr : buf'[a] = buf[a] \/ (InCall(a) /\ buf'[a] = mem[a])
    /\ UNCHANGED <<call, mem, may, weak>>

\* A write stores bytes of its range, some at a time.
Store ==
    /\ call.kind = "write"
    /\ mem' \in [Addr -> Byte]
    /\ may' \in [Addr -> SUBSET Byte]
    /\ weak' \subseteq Addr
    /\ \A a \in Addr :
          \/ mem'[a] = mem[a] /\ may'[a] = may[a] /\ (a \in weak' <=> a \in weak)
          \/ InCall(a) /\ mem'[a] = call.val /\ may'[a] = may[a] \cup {call.val} /\ a \notin weak'
    /\ UNCHANGED <<call, buf>>

\* The bytes of unsettled addresses, and no others, may move.
Moves(unsettled) ==
    /\ mem' \in [Addr -> Byte]
    /\ \A a \in Addr : mem'[a] = mem[a] \/ (a \in unsettled /\ mem'[a] \in may[a])

Settle ==
    /\ Moves(weak)
    /\ UNCHANGED <<call, may, weak, buf>>

\* Success: a read has every byte, a write has stored every byte, a flush
\* has made every settled byte survive a power cut.
ReturnOk ==
    /\ call # NoCall
    /\ call.kind = "read" => \A a \in Addr : InCall(a) => buf[a] # NoByte
    /\ call.kind = "write" => \A a \in Addr : InCall(a) => mem[a] = call.val /\ a \notin weak
    /\ may' = [a \in Addr |->
                 IF call.kind = "flush" /\ a \notin weak THEN {mem[a]} ELSE may[a]]
    /\ call' = NoCall
    /\ buf' = NoBytes
    /\ UNCHANGED <<mem, weak>>

\* Failure: bytes may become unsettled, none becomes one it never was since the last flush.
ReturnErr ==
    /\ Faulty
    /\ call # NoCall
    /\ weak \subseteq weak' /\ weak' \subseteq Addr
    /\ Moves(weak')
    /\ call' = NoCall
    /\ buf' = NoBytes
    /\ UNCHANGED may

PowerCut ==
    /\ mem' \in [Addr -> Byte]
    /\ \A a \in Addr : mem'[a] \in may[a]
    /\ may' = [a \in Addr |-> {mem'[a]}]
    /\ weak' = {}
    /\ call' = NoCall
    /\ buf' = NoBytes

Next == Begin \/ Serve \/ Store \/ Settle \/ ReturnOk \/ ReturnErr \/ PowerCut

Spec == Init /\ [][Next]_vars
===============================================================================
