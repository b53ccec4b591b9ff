-------------------------------- MODULE Cache --------------------------------
(***************************************************************************)
(* CachedDevice (cache.rs): a bounded write-back block cache over an inner *)
(* BlockDevice, behind one async mutex.  A call holds the mutex from Begin *)
(* to its return, so calls are serial; inside a call every await on the    *)
(* inner device is a step of its own, where the device may fail or the     *)
(* power may go.                                                           *)
(*                                                                         *)
(* Ranges (Entry.valid, Entry.dirty) are half-open and kept as device      *)
(* addresses, block start plus the code's offset.  Entry.tick is kept as   *)
(* the order of the ticks, the relation older.  The statistics counters    *)
(* are left out.                                                           *)
(***************************************************************************)
EXTENDS Integers, FiniteSets

CONSTANTS
    DevSize,    \* inner.size()
    BlockSize,  \* block_size
    MaxBlocks,  \* max_blocks; the code never goes below 8
    Batch,      \* entries evicted together; max(max_blocks / 8, 1) in the code
    Byte,       \* the values a byte takes
    Zero,       \* the byte 0
    Payload,    \* the bytes callers write
    Images,     \* what the device may hold at the start
    NoByte,     \* a byte of the caller's buffer not filled yet
    Faulty,     \* whether calls on the inner device may fail
    MaxCalls    \* bound: calls a behaviour makes

ASSUME CacheAssumption ==
    /\ DevSize \in Nat \ {0}
    /\ BlockSize \in Nat \ {0}
    /\ Batch \in Nat \ {0}
    /\ MaxBlocks \in Nat
    /\ Batch <= MaxBlocks
    /\ Zero \in Byte
    /\ NoByte \notin Byte
    /\ Payload \subseteq Byte
    /\ Images \subseteq [0 .. DevSize - 1 -> Byte]
    /\ Faulty \in BOOLEAN
    /\ MaxCalls \in Nat

VARIABLES
    present,    \* blocks in Cache.map
    data,       \* Entry.data, by device address
    valid,      \* Entry.valid
    dirty,      \* Entry.dirty
    older,      \* <<b, c>>: b's Entry.tick is smaller than c's
    calls,      \* calls begun, at most MaxCalls
    call,       \* the call that holds the mutex: kind, [lo, hi) and the byte it writes
    pc,         \* where that call is
    blk,        \* its loop variable
    ins,        \* next block of a missed run to insert
    miss,       \* the bytes the missed run was read as
    buf,        \* the caller's buffer, by device address
    todo,       \* write_back: blocks not visited yet
    remove,     \* write_back: its parameter
    ret,        \* where write_back returns to
    run,        \* write_back: the run buffer, by the device address each byte will land on
    runLo,      \* write_back: run_start
    runHi,      \* write_back: run_start + run.len()
    dev,        \* the bytes the inner device reads back
    pend,       \* the bytes each address of the inner device may hold after a power cut
    may, weak   \* history: BlockStore's variables of that name

entries == <<present, data, valid, dirty, older>>
loop == <<blk, ins, miss>>
back == <<todo, remove, ret, run, runLo, runHi>>
inner == <<dev, pend>>
history == <<may, weak>>
vars == <<entries, calls, call, pc, loop, buf, back, inner, history>>

Addr == 0 .. DevSize - 1
Blocks == {b \in 0 .. DevSize - 1 : b * BlockSize < DevSize}

\* block_len's short final block ends at the device's end.
Start(b) == b * BlockSize
\* Mutant: no clamp at the device's end.
End_Unclamped(b) == (b + 1) * BlockSize
End(b) == IF (b + 1) * BlockSize < DevSize THEN (b + 1) * BlockSize ELSE DevSize
InBlock(a, b) == Start(b) <= a /\ a < End(b)

Within(a, range) == range.lo <= a /\ a < range.hi
Empty == [lo |-> 0, hi |-> 0]
IsDirty(b) == dirty[b].lo < dirty[b].hi

Least(x, y) == IF x < y THEN x ELSE y
Greatest(x, y) == IF x > y THEN x ELSE y

NoCall == [kind |-> "none", lo |-> 0, hi |-> 0, val |-> Zero]

\* check_bounds, and the early return for an empty buffer.
Calls ==
    {c \in [kind : {"read", "write", "zero", "flush"}, lo : 0 .. DevSize,
            hi : 0 .. DevSize, val : Byte] :
        /\ c.kind = "write" => c.val \in Payload
        /\ c.kind = "flush" => c.lo = 0 /\ c.hi = 0
        /\ c.kind # "flush" => c.lo < c.hi
        /\ c.kind # "write" => c.val = Zero}

InCall(a) == call.lo <= a /\ a < call.hi
CallBytes == {a \in Addr : InCall(a)}

\* The part of block b the call covers: s .. e of the code's loops.
CallLo(b) == Greatest(call.lo, Start(b))
CallHi(b) == Least(call.hi, End(b))
InPart(a, b) == CallLo(b) <= a /\ a < CallHi(b)

\* The bytes the run buffer holds for the device.
InRun(a) == runLo <= a /\ a < runHi
RunBytes == {a \in Addr : InRun(a)}

\* What a read of each address would return: the zeroes a write_zeroes in
\* progress promises, the bytes on their way to the device, the valid bytes of
\* the cached blocks, and the device for the rest.
View ==
    [a \in Addr |->
        IF call.kind = "zero" /\ InCall(a) THEN Zero
        ELSE IF InRun(a) THEN run[a]
        ELSE IF \E b \in present : Within(a, valid[b]) THEN data[a]
        ELSE dev[a]]

NoBytes == [a \in Addr |-> NoByte]
Zeroes == [a \in Addr |-> Zero]

\* Entries that are not in the map, and a run that is not being gathered, have one value.
NoEntries ==
    /\ present = {}
    /\ data = Zeroes
    /\ valid = [b \in Blocks |-> Empty]
    /\ dirty = [b \in Blocks |-> Empty]
    /\ older = {}

Init ==
    /\ NoEntries
    /\ calls = 0 /\ call = NoCall /\ pc = "idle"
    /\ blk = 0 /\ ins = 0 /\ miss = Zeroes
    /\ buf = NoBytes
    /\ todo = {} /\ remove = FALSE /\ ret = "idle"
    /\ run = Zeroes /\ runLo = 0 /\ runHi = 0
    /\ dev \in Images
    /\ pend = [a \in Addr |-> {dev[a]}]
    /\ may = [a \in Addr |-> {dev[a]}]
    /\ weak = {}

Forget(b) == {p \in older : p[1] # b /\ p[2] # b}

\* entry.tick = cache.touch(): b is younger than every other entry.
Touch(b) == older' = Forget(b) \cup {<<c, b>> : c \in present \ {b}}

\* cache.map.remove(&b)
Remove(b) ==
    /\ present' = present \ {b}
    /\ data' = [a \in Addr |-> IF InBlock(a, b) THEN Zero ELSE data[a]]
    /\ valid' = [valid EXCEPT ![b] = Empty]
    /\ dirty' = [dirty EXCEPT ![b] = Empty]
    /\ older' = Forget(b)

\* inner.write_at of the bytes src[a] to the addresses in where.
InnerWrite(where, src) ==
    /\ dev' = [a \in Addr |-> IF a \in where THEN src[a] ELSE dev[a]]
    /\ pend' = [a \in Addr |-> IF a \in where THEN pend[a] \cup {src[a]} ELSE pend[a]]

\* The same call failing part way: any of the bytes may have landed.
InnerWriteFails(where, src) == \E landed \in SUBSET where : InnerWrite(landed, src)

\* The call gives up the mutex.
Leave ==
    /\ call' = NoCall /\ pc' = "idle"
    /\ blk' = 0 /\ ins' = 0 /\ miss' = Zeroes
    /\ buf' = NoBytes
    /\ todo' = {} /\ remove' = FALSE /\ ret' = "idle"
    /\ run' = Zeroes /\ runLo' = 0 /\ runHi' = 0

-------------------------------------------------------------------------------
(* A caller enters read_at, write_at, write_zeroes or flush and gets the mutex. *)

Enter(c) ==
    /\ pc = "idle"
    /\ calls < MaxCalls
    /\ calls' = calls + 1
    /\ call' = c
    /\ blk' = c.lo \div BlockSize
    /\ UNCHANGED <<entries, ins, miss, buf, run, runLo, runHi, inner>>

BeginRead(c) ==
    /\ c.kind = "read" /\ Enter(c)
    /\ pc' = "read"
    /\ UNCHANGED <<todo, remove, ret, history>>

BeginWrite(c) ==
    /\ c.kind = "write" /\ Enter(c)
    /\ pc' = "write"
    /\ UNCHANGED <<todo, remove, ret, history>>

BeginZero(c) ==
    /\ c.kind = "zero" /\ Enter(c)
    /\ pc' = "zero"
    /\ may' = [a \in Addr |-> IF Within(a, c) THEN may[a] \cup {Zero} ELSE may[a]]
    /\ weak' = {a \in weak : ~Within(a, c)}
    /\ UNCHANGED <<todo, remove, ret>>

\* flush collects every dirty block and calls write_back(.., remove = false).
BeginFlush(c) ==
    /\ c.kind = "flush" /\ Enter(c)
    /\ pc' = "back"
    /\ todo' = {b \in present : IsDirty(b)}
    /\ remove' = FALSE
    /\ ret' = "sync"
    /\ UNCHANGED history

Begin == \E c \in Calls : BeginRead(c) \/ BeginWrite(c) \/ BeginZero(c) \/ BeginFlush(c)

-------------------------------------------------------------------------------
(* read_at *)

More == Start(blk) < call.hi

Covered == valid[blk].lo <= CallLo(blk) /\ CallHi(blk) <= valid[blk].hi

\* Mutant: fill_entry reads over the bytes that are already valid.
Filled_Over(b) == [a \in Addr |-> IF InBlock(a, b) THEN dev[a] ELSE data[a]]

\* fill_entry: the bytes outside `valid` come from the device.
Filled(b) ==
    [a \in Addr |-> IF InBlock(a, b) /\ ~Within(a, valid[b]) THEN dev[a] ELSE data[a]]

ReadHit ==
    /\ pc = "read" /\ More
    /\ blk \in present /\ Covered
    /\ buf' = [a \in Addr |-> IF InPart(a, blk) THEN data[a] ELSE buf[a]]
    /\ Touch(blk)
    /\ blk' = blk + 1
    /\ UNCHANGED <<present, data, valid, dirty, calls, call, pc, ins, miss, back, inner, history>>

ReadFill ==
    /\ pc = "read" /\ More
    /\ blk \in present /\ ~Covered
    /\ data' = Filled(blk)
    /\ valid' = [valid EXCEPT ![blk] = [lo |-> Start(blk), hi |-> End(blk)]]
    /\ buf' = [a \in Addr |-> IF InPart(a, blk) THEN Filled(blk)[a] ELSE buf[a]]
    /\ Touch(blk)
    /\ blk' = blk + 1
    /\ UNCHANGED <<present, dirty, calls, call, pc, ins, miss, back, inner, history>>

\* The blocks of a miss: consecutive absent blocks the call still has to visit.
InMiss(b) == blk <= b /\ \A x \in blk .. b : Start(x) < call.hi /\ x \notin present

\* One inner read for the whole run; the caller is served from it before anything is inserted.
ReadMiss ==
    /\ pc = "read" /\ More
    /\ blk \notin present
    /\ \E next \in blk + 1 .. DevSize :
          /\ InMiss(next - 1) /\ ~InMiss(next)
          /\ LET Missed(a) == Start(blk) <= a /\ a < End(next - 1)
             IN  /\ miss' = [a \in Addr |-> IF Missed(a) THEN dev[a] ELSE Zero]
                 /\ buf' = [a \in Addr |-> IF Missed(a) /\ InCall(a) THEN dev[a] ELSE buf[a]]
          /\ blk' = next
    /\ ins' = blk
    /\ pc' = "insert"
    /\ UNCHANGED <<entries, calls, call, back, inner, history>>

Full == Cardinality(present) >= MaxBlocks

\* The run's blocks enter the map whole and clean.
Insert ==
    /\ pc = "insert" /\ ins < blk
    /\ ~Full
    /\ present' = present \cup {ins}
    /\ data' = [a \in Addr |-> IF InBlock(a, ins) THEN miss[a] ELSE data[a]]
    /\ valid' = [valid EXCEPT ![ins] = [lo |-> Start(ins), hi |-> End(ins)]]
    /\ dirty' = [dirty EXCEPT ![ins] = Empty]
    /\ Touch(ins)
    /\ ins' = ins + 1
    /\ UNCHANGED <<calls, call, pc, blk, miss, buf, back, inner, history>>

InsertDone ==
    /\ pc = "insert" /\ ins = blk
    /\ pc' = "read"
    /\ ins' = 0 /\ miss' = Zeroes
    /\ UNCHANGED <<entries, calls, call, blk, buf, back, inner, history>>

ReadDone ==
    /\ pc = "read" /\ ~More
    /\ Leave
    /\ UNCHANGED <<calls, entries, inner, history>>

-------------------------------------------------------------------------------
(* make_room, called by both loops before a block enters a full map *)

\* The Batch entries with the smallest ticks.
Oldest(V) ==
    /\ Cardinality(V) = Batch
    /\ \A b \in V, c \in present \ V : <<b, c>> \in older

Evict ==
    /\ \/ pc = "insert" /\ ins < blk
       \/ pc = "write" /\ More /\ blk \notin present
    /\ Full
    /\ todo' \in {V \in SUBSET present : Oldest(V)}
    /\ remove' = TRUE
    /\ ret' = pc
    /\ pc' = "back"
    /\ UNCHANGED <<entries, calls, call, loop, buf, run, runLo, runHi, inner, history>>

-------------------------------------------------------------------------------
(* write_at *)

\* An absent block enters the map with nothing valid: the written range alone will be.
WriteInsert ==
    /\ pc = "write" /\ More
    /\ blk \notin present /\ ~Full
    /\ present' = present \cup {blk}
    /\ data' = [a \in Addr |-> IF InBlock(a, blk) THEN Zero ELSE data[a]]
    /\ valid' = [valid EXCEPT ![blk] = [lo |-> CallLo(blk), hi |-> CallLo(blk)]]
    /\ dirty' = [dirty EXCEPT ![blk] = [lo |-> CallLo(blk), hi |-> CallLo(blk)]]
    /\ Touch(blk)
    /\ UNCHANGED <<calls, call, pc, loop, buf, back, inner, history>>

\* The write would leave unknown bytes between itself and what is valid.
Gap == valid[blk].hi < CallLo(blk) \/ CallHi(blk) < valid[blk].lo

\* Mutant: the range grows downwards only.
Hull_LowOnly(range) == [lo |-> Least(range.lo, CallLo(blk)), hi |-> range.hi]

Hull(range) == [lo |-> Least(range.lo, CallLo(blk)), hi |-> Greatest(range.hi, CallHi(blk))]

Stored(base) == [a \in Addr |-> IF InPart(a, blk) THEN call.val ELSE base[a]]

WriteBlock ==
    /\ pc = "write" /\ More
    /\ blk \in present
    /\ IF Gap
       THEN /\ data' = Stored(Filled(blk))
            /\ valid' = [valid EXCEPT ![blk] = [lo |-> Start(blk), hi |-> End(blk)]]
       ELSE /\ data' = Stored(data)
            /\ valid' = [valid EXCEPT ![blk] = Hull(valid[blk])]
    /\ dirty' = [dirty EXCEPT ![blk] =
                    IF IsDirty(blk) THEN Hull(dirty[blk])
                    ELSE [lo |-> CallLo(blk), hi |-> CallHi(blk)]]
    /\ Touch(blk)
    /\ blk' = blk + 1
    /\ may' = [a \in Addr |-> IF InPart(a, blk) THEN may[a] \cup {call.val} ELSE may[a]]
    /\ weak' = {a \in weak : ~InPart(a, blk)}
    /\ UNCHANGED <<present, calls, call, pc, ins, miss, buf, back, inner>>

WriteDone ==
    /\ pc = "write" /\ ~More
    /\ Leave
    /\ UNCHANGED <<calls, entries, inner, history>>

-------------------------------------------------------------------------------
(* write_back: the loop over the sorted blocks *)

Lowest(b) == b \in todo /\ \A c \in todo : b <= c

\* Mutants: a run goes on past a gap at the block's end, or into a clean block.
NextJoins_PastGap(b) ==
    /\ b + 1 \in todo /\ b + 1 \in present
    /\ IsDirty(b + 1) /\ dirty[b + 1].lo = Start(b + 1)
NextJoins_Clean(b) == dirty[b].hi = End(b) /\ b + 1 \in todo /\ b + 1 \in present

\* b's dirty bytes reach its end and the next block's start where it starts.
NextJoins(b) ==
    /\ dirty[b].hi = End(b)
    /\ b + 1 \in todo /\ b + 1 \in present
    /\ IsDirty(b + 1) /\ dirty[b + 1].lo = Start(b + 1)

\* Where the next byte of the run buffer will land.
RunAt(b) == IF runLo = runHi THEN dirty[b].lo ELSE runHi

\* The block's dirty bytes join the run, and the entry is removed or marked clean, before the inner write.
Gather(b) ==
    /\ pc = "back" /\ Lowest(b) /\ b \in present
    /\ IsDirty(b)
    /\ LET at == RunAt(b)
           len == dirty[b].hi - dirty[b].lo
       IN  /\ run' = [a \in Addr |-> IF at <= a /\ a < at + len
                                     THEN data[dirty[b].lo + (a - at)] ELSE run[a]]
           /\ runLo' = IF runLo = runHi THEN at ELSE runLo
           /\ runHi' = at + len
    /\ todo' = todo \ {b}
    /\ pc' = IF NextJoins(b) THEN "back" ELSE "put"
    /\ IF remove
       THEN Remove(b)
       ELSE /\ dirty' = [dirty EXCEPT ![b] = Empty]
            /\ UNCHANGED <<present, data, valid, older>>
    /\ UNCHANGED <<calls, call, loop, buf, remove, ret, inner, history>>

PutRun ==
    /\ pc = "put"
    /\ InnerWrite(RunBytes, run)
    /\ run' = Zeroes /\ runLo' = 0 /\ runHi' = 0
    /\ pc' = "back"
    /\ UNCHANGED <<entries, calls, call, loop, buf, todo, remove, ret, history>>

DropClean(b) ==
    /\ pc = "back" /\ Lowest(b) /\ b \in present
    /\ ~IsDirty(b)
    /\ IF remove THEN Remove(b) ELSE UNCHANGED entries
    /\ todo' = todo \ {b}
    /\ UNCHANGED <<calls, call, pc, loop, buf, remove, ret, run, runLo, runHi, inner, history>>

BackDone ==
    /\ pc = "back" /\ todo = {}
    /\ pc' = ret
    /\ ret' = "idle" /\ remove' = FALSE
    /\ UNCHANGED <<entries, calls, call, loop, buf, todo, run, runLo, runHi, inner, history>>

\* flush ends with inner.flush().
Sync ==
    /\ pc = "sync"
    /\ pend' = [a \in Addr |-> {dev[a]}]
    /\ may' = [a \in Addr |-> IF a \in weak THEN may[a] ELSE {View[a]}]
    /\ Leave
    /\ UNCHANGED <<calls, entries, dev, weak>>

-------------------------------------------------------------------------------
(* write_zeroes *)

\* Mutant: a block zeroed in part keeps its cached bytes.
ZeroBlock_Whole ==
    /\ pc = "zero" /\ More
    /\ IF blk \in present /\ CallLo(blk) = Start(blk) /\ CallHi(blk) = End(blk)
       THEN Remove(blk) ELSE UNCHANGED entries
    /\ blk' = blk + 1
    /\ UNCHANGED <<calls, call, pc, ins, miss, buf, back, inner, history>>

ZeroBlock ==
    /\ pc = "zero" /\ More
    /\ \/ /\ blk \notin present
          /\ UNCHANGED entries
       \/ /\ blk \in present
          /\ CallLo(blk) = Start(blk) /\ CallHi(blk) = End(blk)
          /\ Remove(blk)
       \/ /\ blk \in present
          /\ ~(CallLo(blk) = Start(blk) /\ CallHi(blk) = End(blk))
          /\ data' = [a \in Addr |-> IF InPart(a, blk) /\ Within(a, valid[blk])
                                     THEN Zero ELSE data[a]]
          /\ UNCHANGED <<present, valid, dirty, older>>
    /\ blk' = blk + 1
    /\ UNCHANGED <<calls, call, pc, ins, miss, buf, back, inner, history>>

ZeroInner ==
    /\ pc = "zero" /\ ~More
    /\ InnerWrite(CallBytes, Zeroes)
    /\ Leave
    /\ UNCHANGED <<calls, entries, history>>

-------------------------------------------------------------------------------
(* The inner device fails: `?` leaves the call at once, keeping every change made so far. *)

\* read_run_from_inner, from fill_entry or a miss; inner.flush.
InnerFails ==
    /\ Faulty
    /\ \/ pc = "read" /\ More /\ (blk \in present => ~Covered)
       \/ pc = "write" /\ More /\ blk \in present /\ Gap
       \/ pc = "sync"
    /\ Leave
    /\ UNCHANGED <<calls, entries, inner, history>>

\* inner.write_at of a run: its blocks have already been removed or marked clean.
PutRunFails ==
    /\ Faulty
    /\ pc = "put"
    /\ InnerWriteFails(RunBytes, run)
    /\ weak' = weak \cup RunBytes
    /\ Leave
    /\ UNCHANGED <<calls, entries, may>>

\* inner.write_zeroes: the cached copies have already been dropped or zeroed.
ZeroInnerFails ==
    /\ Faulty
    /\ pc = "zero" /\ ~More
    /\ InnerWriteFails(CallBytes, Zeroes)
    /\ weak' = weak \cup CallBytes
    /\ Leave
    /\ UNCHANGED <<calls, entries, may>>

\* The wrapper is gone with its dirty bytes; the inner device keeps some of what it had not flushed.
PowerCut ==
    /\ dev' \in [Addr -> Byte]
    /\ \A a \in Addr : dev'[a] \in pend[a]
    /\ pend' = [a \in Addr |-> {dev'[a]}]
    /\ may' = [a \in Addr |-> {dev'[a]}]
    /\ weak' = {}
    /\ present' = {} /\ data' = Zeroes /\ older' = {}
    /\ valid' = [b \in Blocks |-> Empty]
    /\ dirty' = [b \in Blocks |-> Empty]
    /\ Leave
    /\ UNCHANGED calls

-------------------------------------------------------------------------------
Step ==
    \/ ReadHit \/ ReadFill \/ ReadMiss \/ Insert \/ InsertDone \/ ReadDone
    \/ Evict
    \/ WriteInsert \/ WriteBlock \/ WriteDone
    \/ \E b \in Blocks : Gather(b) \/ DropClean(b)
    \/ PutRun \/ BackDone \/ Sync
    \/ ZeroBlock \/ ZeroInner
    \/ InnerFails \/ PutRunFails \/ ZeroInnerFails

Next == Begin \/ Step \/ PowerCut

Spec == Init /\ [][Next]_vars

-------------------------------------------------------------------------------
(* Properties *)

Span == [lo : 0 .. DevSize, hi : 0 .. DevSize]

\* Every variable has the shape the code's types give it, and ranges lie in their blocks.
TypeOK ==
    /\ present \subseteq Blocks
    /\ data \in [Addr -> Byte]
    /\ valid \in [Blocks -> Span]
    /\ dirty \in [Blocks -> Span]
    /\ calls \in 0 .. MaxCalls
    /\ call \in Calls \cup {NoCall}
    /\ pc \in {"idle", "read", "insert", "write", "back", "put", "sync", "zero"}
    /\ blk \in 0 .. DevSize
    /\ ins \in 0 .. DevSize
    /\ miss \in [Addr -> Byte]
    /\ buf \in [Addr -> Byte \cup {NoByte}]
    /\ todo \subseteq present
    /\ remove \in BOOLEAN
    /\ ret \in {"idle", "insert", "write", "sync"}
    /\ run \in [Addr -> Byte]
    /\ runLo \in 0 .. DevSize
    /\ runHi \in 0 .. DevSize
    /\ dev \in [Addr -> Byte]
    /\ pend \in [Addr -> SUBSET Byte]
    /\ may \in [Addr -> SUBSET Byte]
    /\ weak \subseteq Addr

\* Entry's documented shape: valid is one range inside the block, and a
\* nonempty dirty range lies within it.
DirtyWithinValid ==
    \A b \in present :
        /\ Start(b) <= valid[b].lo /\ valid[b].lo <= valid[b].hi /\ valid[b].hi <= End(b)
        /\ IsDirty(b) => valid[b].lo <= dirty[b].lo /\ dirty[b].hi <= valid[b].hi

\* "dirty is the subrange the device does not have yet" (struct Entry): between
\* calls, a valid byte outside dirty is the byte the device has.
DeviceHasCleanBytes ==
    pc = "idle" =>
        \A b \in present : \A a \in Addr :
            Within(a, valid[b]) /\ ~Within(a, dirty[b]) => data[a] = dev[a]

\* flush is to be called "at every point the bytes must be on the device": when
\* it reaches inner.flush(), the device has every byte a reader would be served.
FlushDelivers == pc = "sync" => dev = View

\* The same as DeviceHasCleanBytes when the device may fail: only addresses an error was reported for
\* may differ from the device without being dirty.
DivergenceIsReported ==
    pc = "idle" =>
        \A b \in present : \A a \in Addr :
            Within(a, valid[b]) /\ ~Within(a, dirty[b]) /\ a \notin weak => data[a] = dev[a]

\* write_back's debug_assert!(run.is_empty()): no gathered byte is left behind,
\* and the run being gathered is exactly continued by the next block.
RunIsWritten ==
    pc = "back" /\ runLo # runHi =>
        \E b \in present : Lowest(b) /\ IsDirty(b) /\ dirty[b].lo = runHi

Store == INSTANCE BlockStore WITH mem <- View

\* CachedDevice is a BlockDevice: reads return the last bytes written, a
\* successful flush pins every settled byte, and neither eviction, filling nor
\* coalescing ever changes a byte.
ImplementsStore == Store!Spec
===============================================================================
