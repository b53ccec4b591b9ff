----------------------------- MODULE CacheProofs -----------------------------
(***************************************************************************)
(* Proofs about Cache for every geometry, byte set and number of calls,    *)
(* with and without device failures: its invariants and that it implements *)
(* BlockStore.                                                             *)
(***************************************************************************)
EXTENDS Cache, FiniteSetTheorems, TLAPS

-------------------------------------------------------------------------------
(* The inductive invariant *)

Looping == pc \in {"read", "insert", "write", "zero"}
InBack == pc \in {"back", "put"}

\* Which call is at which place, and that write_back leaves nothing behind it.
PcInv ==
    /\ pc = "idle" => call = NoCall
    /\ pc \in {"read", "insert"} => call.kind = "read"
    /\ pc = "write" => call.kind = "write"
    /\ (pc = "zero" <=> call.kind = "zero")
    /\ pc = "sync" => call.kind = "flush"
    /\ InBack => \/ ret = "insert" /\ call.kind = "read"
                 \/ ret = "write" /\ call.kind = "write"
                 \/ ret = "sync" /\ call.kind = "flush" /\ ~remove
    /\ ~InBack => todo = {} /\ runLo = runHi
    /\ runLo <= runHi

\* Valid bytes that are neither dirty, unsettled, in the run nor being zeroed are the device's.
Coherent ==
    \A b \in present : \A a \in Addr :
        /\ Within(a, valid[b]) /\ ~Within(a, dirty[b])
        /\ a \notin weak /\ ~InRun(a) /\ ~(call.kind = "zero" /\ InCall(a))
        => data[a] = dev[a]

\* A byte on its way to the device is the one the cache still holds, if it holds one.
RunData ==
    \A b \in present : \A a \in Addr : Within(a, valid[b]) /\ InRun(a) => data[a] = run[a]

\* Blocks of a missed run still to insert: absent, read as the device has them, out of the run.
MissInv ==
    (pc = "insert" \/ (InBack /\ ret = "insert")) =>
        /\ ins <= blk
        /\ \A c \in ins .. blk - 1 :
              /\ c \in Blocks
              /\ c \notin present
              /\ \A a \in Addr : InBlock(a, c) => ~InRun(a) /\ miss[a] = dev[a]

\* A loop starts in the block of the call's first byte.
LoopInv == call.kind \in {"read", "write", "zero"} => call.lo < Start(blk + 1)

\* Every byte behind a read's loop has been served.
ServedInv ==
    call.kind = "read" => \A a \in Addr : InCall(a) /\ a < Start(blk) => buf[a] # NoByte

\* Every byte behind a write's loop is stored and settled.
StoredInv ==
    call.kind = "write" =>
        \A a \in Addr : InCall(a) /\ a < Start(blk) => View[a] = call.val /\ a \notin weak

\* No cached byte behind a write_zeroes' loop is anything but zero.
ZeroedInv ==
    pc = "zero" =>
        \A b \in present : \A a \in Addr :
            Within(a, valid[b]) /\ InCall(a) /\ a < Start(blk) => data[a] = Zero

\* A flush has no dirty block it does not know of.
FlushInv ==
    /\ InBack /\ ret = "sync" => \A b \in present : IsDirty(b) => b \in todo
    /\ pc = "sync" => \A b \in present : ~IsDirty(b)

\* No copy of a byte is one the address was not given since the last flush.
MayInv ==
    \A a \in Addr :
        /\ dev[a] \in may[a]
        /\ pend[a] \subseteq may[a]
        /\ InRun(a) => run[a] \in may[a]
        /\ call.kind = "zero" /\ InCall(a) => Zero \in may[a]
        /\ \A b \in present : Within(a, valid[b]) => data[a] \in may[a]

IInv ==
    /\ TypeOK /\ PcInv /\ DirtyWithinValid /\ RunIsWritten /\ RunData /\ Coherent
    /\ LoopInv /\ MissInv /\ ServedInv /\ StoredInv /\ ZeroedInv /\ FlushInv /\ MayInv

-------------------------------------------------------------------------------
(* Geometry: blocks are nonempty, ordered and disjoint, and the loops walk them in order. *)

\* Integer division, for the provers: address a lies between the start and the end of block a \div n.
LEMMA Division ==
    ASSUME NEW a \in Nat, NEW n \in Nat \ {0}
    PROVE  /\ a \div n \in Nat
           /\ (a \div n) * n <= a
           /\ a < (a \div n + 1) * n
           /\ a \div n <= a
  BY Z3

\* Products with the block size, for the provers: they grow block by block.
LEMMA Multiples ==
    ASSUME NEW b \in Nat, NEW c \in Nat, NEW n \in Nat \ {0}
    PROVE  /\ b * n \in Nat
           /\ b <= b * n
           /\ (b + 1) * n = b * n + n
           /\ b < c => (b + 1) * n <= c * n
  BY Z3

\* Block b starts before it ends, and inside the device (the clamp of the last block).
LEMMA BlockBounds ==
    ASSUME NEW b \in Blocks
    PROVE  /\ b \in Nat /\ b < DevSize
           /\ Start(b) \in Nat /\ End(b) \in Nat
           /\ Start(b) < End(b) /\ End(b) <= DevSize
           /\ \A a \in Addr : a < Start(b + 1) <=> a < End(b)
<1>1. b \in Nat /\ b < DevSize /\ b * BlockSize < DevSize
  BY CacheAssumption DEF Blocks
<1>2. b * BlockSize \in Nat /\ (b + 1) * BlockSize = b * BlockSize + BlockSize
  BY <1>1, Multiples, CacheAssumption
<1>3. QED
  BY <1>1, <1>2, CacheAssumption DEF Start, End, Addr

\* An earlier block ends before a later one starts.
LEMMA BlockOrder ==
    ASSUME NEW b \in Blocks, NEW c \in Blocks, b < c
    PROVE  End(b) <= Start(c)
<1>1. b \in Nat /\ c \in Nat /\ c * BlockSize < DevSize
  BY CacheAssumption DEF Blocks
<1>2. (b + 1) * BlockSize <= c * BlockSize /\ c * BlockSize \in Nat
  BY <1>1, Multiples, CacheAssumption
<1>3. (b + 1) * BlockSize \in Nat
  BY <1>1, Multiples, CacheAssumption
<1>4. QED
  BY <1>1, <1>2, <1>3, CacheAssumption DEF Start, End

\* The start of a block lies in that block.
LEMMA StartInside ==
    ASSUME NEW b \in Nat
    PROVE  /\ Start(b) \in Nat
           /\ Start(b) < DevSize => b \in Blocks
<1>1. b * BlockSize \in Nat /\ b <= b * BlockSize
  BY Multiples, CacheAssumption
<1>2. QED
  BY <1>1, CacheAssumption DEF Start, Blocks

\* No address is in two blocks.
LEMMA Disjoint ==
    ASSUME NEW b \in Blocks, NEW c \in Blocks, NEW a \in Addr,
           InBlock(a, b), InBlock(a, c)
    PROVE  b = c
<1>1. b \in Nat /\ c \in Nat /\ a \in Nat
  BY BlockBounds DEF Addr
<1>2. /\ Start(b) \in Nat /\ End(b) \in Nat /\ Start(c) \in Nat /\ End(c) \in Nat
  BY BlockBounds
<1>3. ~(b < c) /\ ~(c < b)
  BY <1>1, <1>2, BlockOrder DEF InBlock
<1>4. QED
  BY <1>1, <1>3

\* What the leaves below need of the three lemmas above.
LEMMA Geo ==
    /\ DevSize \in Nat /\ DevSize > 0
    /\ \A a \in Addr : a \in Nat /\ a < DevSize
    /\ \A b \in Blocks : /\ b \in Nat /\ b < DevSize
                         /\ Start(b) \in Nat /\ End(b) \in Nat
                         /\ Start(b) < End(b) /\ End(b) <= DevSize
                         /\ \A a \in Addr : a < Start(b + 1) <=> a < End(b)
    /\ \A b, c \in Blocks : b < c => End(b) <= Start(c)
    /\ \A b \in Nat : Start(b) \in Nat /\ (Start(b) < DevSize => b \in Blocks)
  BY CacheAssumption, BlockBounds, BlockOrder, StartInside DEF Addr

\* The block a loop is at, and the part of it the call covers.
LEMMA Part ==
    ASSUME TypeOK, LoopInv, More, call.kind \in {"read", "write", "zero"}
    PROVE  /\ blk \in Blocks
           /\ CallLo(blk) \in Nat /\ CallHi(blk) \in Nat
           /\ Start(blk) <= CallLo(blk) /\ CallLo(blk) < CallHi(blk) /\ CallHi(blk) <= End(blk)
           /\ \A a \in Addr : InPart(a, blk) => InCall(a) /\ InBlock(a, blk)
           /\ \A a \in Addr : InCall(a) /\ InBlock(a, blk) => InPart(a, blk)
           /\ \A a \in Addr : InCall(a) /\ a < Start(blk + 1) => a < Start(blk) \/ InPart(a, blk)
           /\ blk + 1 \in 0 .. DevSize
           /\ call.lo < Start(blk + 1 + 1)
<1>1. /\ call.lo \in Nat /\ call.hi \in Nat /\ call.hi <= DevSize /\ call.lo < call.hi
      /\ blk \in Nat
  BY Geo DEF TypeOK, Calls, NoCall
<1>2. blk \in Blocks
  BY <1>1, Geo DEF More
<1>3. call.lo \in Addr
  BY <1>1, Geo DEF Addr
<1>4. call.lo < End(blk)
  BY <1>2, <1>3, Geo DEF LoopInv
<1>5. /\ CallLo(blk) \in Nat /\ CallHi(blk) \in Nat
      /\ Start(blk) <= CallLo(blk) /\ CallLo(blk) < CallHi(blk) /\ CallHi(blk) <= End(blk)
  BY <1>1, <1>2, <1>4, Geo DEF CallLo, CallHi, Greatest, Least, More
<1>6. \A a \in Addr : InPart(a, blk) => InCall(a) /\ InBlock(a, blk)
  BY <1>1, <1>2, Geo DEF InPart, InCall, InBlock, CallLo, CallHi, Greatest, Least
<1>7. \A a \in Addr : InCall(a) /\ InBlock(a, blk) => InPart(a, blk)
  BY <1>1, <1>2, Geo DEF InPart, InCall, InBlock, CallLo, CallHi, Greatest, Least
<1>8. \A a \in Addr : InCall(a) /\ a < Start(blk + 1) => a < Start(blk) \/ InPart(a, blk)
  BY <1>1, <1>2, <1>7, Geo DEF InBlock
<1>9. blk + 1 \in 0 .. DevSize
  BY <1>2, Geo
<1>10. call.lo < Start(blk + 1 + 1)
  <2>1. (blk + 1) * BlockSize \in Nat /\ (blk + 1 + 1) * BlockSize = (blk + 1) * BlockSize + BlockSize
    BY <1>1, Multiples, CacheAssumption
  <2>2. QED
    BY <2>1, <1>1, CacheAssumption DEF LoopInv, Start
<1>11. QED
  BY <1>2, <1>5, <1>6, <1>7, <1>8, <1>9, <1>10

\* Outside write_back there is no run.
LEMMA NoRun ==
    ASSUME IInv, ~InBack
    PROVE  /\ runLo = runHi /\ todo = {}
           /\ \A a \in Addr : ~InRun(a)
  BY Geo DEF IInv, PcInv, TypeOK, InRun

\* Setting the valid or dirty range of one block keeps its type and every other block's range.
LEMMA SetRange ==
    ASSUME NEW f \in [Blocks -> Span], NEW b \in Blocks,
           NEW l \in 0 .. DevSize, NEW h \in 0 .. DevSize
    PROVE  LET g == [f EXCEPT ![b] = [lo |-> l, hi |-> h]]
           IN  /\ g \in [Blocks -> Span]
               /\ g[b].lo = l /\ g[b].hi = h
               /\ \A c \in Blocks : c # b => g[c] = f[c]
  BY DEF Span

\* A valid byte is in its own block and in no other.
LEMMA ValidInBlock ==
    ASSUME TypeOK, DirtyWithinValid, NEW b \in present, NEW a \in Addr, Within(a, valid[b])
    PROVE  b \in Blocks /\ InBlock(a, b) /\ \A c \in Blocks : InBlock(a, c) => c = b
<1>1. b \in Blocks /\ valid[b].lo \in Nat /\ valid[b].hi \in Nat
  BY Geo DEF TypeOK, Span
<1>2. InBlock(a, b)
  BY <1>1, Geo DEF DirtyWithinValid, Within, InBlock
<1>3. QED
  BY <1>1, <1>2, Disjoint

\* read_at serves a block from the cache: what it returns is what a reader is owed.
LEMMA StepReadHit ==
    ASSUME IInv, ReadHit
    PROVE  IInv'
<1> USE DEF IInv
<1>1. call.kind = "read" /\ runLo = runHi /\ todo = {}
  BY DEF ReadHit, PcInv, InBack
<1>2. blk \in Blocks /\ \A a \in Addr : InPart(a, blk) => InCall(a) /\ InBlock(a, blk)
  BY <1>1, Part DEF ReadHit
<1>3. TypeOK'
  BY <1>1, Part DEF TypeOK, ReadHit, back, inner, history
<1>4. PcInv' /\ DirtyWithinValid' /\ RunIsWritten' /\ RunData' /\ Coherent'
  BY DEF ReadHit, back, inner, history, PcInv, InBack, DirtyWithinValid, RunIsWritten, RunData,
         Coherent, IsDirty, InRun, InCall
<1>5. LoopInv'
  BY <1>1, Part DEF ReadHit, LoopInv
<1>6. MissInv' /\ ZeroedInv' /\ StoredInv'
  BY <1>1 DEF ReadHit, MissInv, InBack, ZeroedInv, StoredInv
<1>7. ServedInv'
  BY <1>1, Part, CacheAssumption DEF ReadHit, ServedInv, TypeOK, InCall
<1>8. FlushInv' /\ MayInv'
  BY DEF ReadHit, back, inner, history, FlushInv, MayInv, InBack, IsDirty, InRun, InCall
<1>9. QED
  BY <1>3, <1>4, <1>5, <1>6, <1>7, <1>8

\* A miss is filled from the device under the bytes already written to the block.
LEMMA StepReadFill ==
    ASSUME IInv, ReadFill
    PROVE  IInv'
<1> USE DEF IInv
<1>1. call.kind = "read" /\ pc = "read" /\ runLo = runHi /\ todo = {} /\ \A a \in Addr : ~InRun(a)
  BY NoRun DEF ReadFill, PcInv, InBack
<1>2. blk \in Blocks /\ blk \in present
  BY <1>1, Part DEF ReadFill
<1>a. Start(blk) \in 0 .. DevSize /\ End(blk) \in 0 .. DevSize
  BY <1>2, Geo
<1>b. /\ valid' \in [Blocks -> Span]
      /\ valid'[blk].lo = Start(blk) /\ valid'[blk].hi = End(blk)
      /\ \A c \in Blocks : c # blk => valid'[c] = valid[c]
  BY <1>2, <1>a, SetRange DEF ReadFill, TypeOK
<1>c. data' \in [Addr -> Byte] /\ buf' \in [Addr -> Byte \cup {NoByte}]
  BY DEF ReadFill, Filled, TypeOK
<1>d. \A a \in Addr :
        /\ InBlock(a, blk) /\ ~Within(a, valid[blk]) => data'[a] = dev[a]
        /\ ~(InBlock(a, blk) /\ ~Within(a, valid[blk])) => data'[a] = data[a]
  BY DEF ReadFill, Filled
<1>3. TypeOK'
  BY <1>b, <1>c, <1>1, Part DEF TypeOK, ReadFill, back, inner, history
<1>4. PcInv' /\ RunIsWritten'
  BY <1>1 DEF ReadFill, back, PcInv, InBack, RunIsWritten
<1>5. DirtyWithinValid'
  <2> SUFFICES ASSUME NEW b \in present
               PROVE  /\ Start(b) <= valid'[b].lo /\ valid'[b].lo <= valid'[b].hi /\ valid'[b].hi <= End(b)
                      /\ IsDirty(b) => valid'[b].lo <= dirty[b].lo /\ dirty[b].hi <= valid'[b].hi
    BY DEF ReadFill, DirtyWithinValid, IsDirty
  <2>1. b \in Blocks
    BY DEF TypeOK
  <2>2. CASE b # blk
    BY <1>b, <2>1, <2>2 DEF DirtyWithinValid
  <2>3. CASE b = blk
    <3>1. /\ valid[b].lo \in Nat /\ valid[b].hi \in Nat /\ dirty[b].lo \in Nat /\ dirty[b].hi \in Nat
      BY <2>1, Geo DEF TypeOK, Span
    <3>2. QED
      BY <1>b, <2>1, <2>3, <3>1, Geo DEF DirtyWithinValid
  <2>4. QED
    BY <2>2, <2>3
<1>6. RunData'
  BY <1>1 DEF ReadFill, back, RunData, InRun
<1>e. ASSUME NEW b \in present, NEW a \in Addr, Within(a, valid'[b]), data'[a] # dev[a]
      PROVE  Within(a, valid[b]) /\ data'[a] = data[a]
  <2>1. b \in Blocks
    BY DEF TypeOK
  <2>2. CASE b = blk
    BY <1>b, <1>d, <1>e, <2>2 DEF Within, InBlock
  <2>3. CASE b # blk
    BY <1>b, <1>d, <1>e, <2>1, <2>3
  <2>4. QED
    BY <2>2, <2>3
<1>7. Coherent'
  BY <1>1, <1>e DEF ReadFill, back, inner, history, Coherent, InCall, InRun
<1>8. LoopInv'
  BY <1>1, Part DEF ReadFill, LoopInv
<1>9. MissInv' /\ ZeroedInv' /\ StoredInv'
  BY <1>1 DEF ReadFill, MissInv, InBack, ZeroedInv, StoredInv
<1>10. ServedInv'
  BY <1>1, Part, CacheAssumption DEF ReadFill, ServedInv, TypeOK, InCall, Filled
<1>11. FlushInv'
  BY <1>1 DEF ReadFill, FlushInv, InBack
<1>12. MayInv'
  BY <1>1, <1>e DEF ReadFill, back, inner, history, MayInv, InRun, InCall
<1>13. QED
  BY <1>3, <1>4, <1>5, <1>6, <1>7, <1>8, <1>9, <1>10, <1>11, <1>12

\* A miss that reads the device.
LEMMA StepReadMiss ==
    ASSUME IInv, ReadMiss
    PROVE  IInv'
<1> USE DEF IInv
<1>1. call.kind = "read" /\ pc = "read" /\ runLo = runHi /\ todo = {} /\ \A a \in Addr : ~InRun(a)
  BY NoRun DEF ReadMiss, PcInv, InBack
<1>a. /\ ins' = blk /\ pc' = "insert"
      /\ UNCHANGED <<present, data, valid, dirty, calls, call, todo, remove, ret, run, runLo, runHi,
                     dev, pend, may, weak>>
  BY DEF ReadMiss, entries, back, inner, history
<1>2. blk \in Blocks
  BY <1>1, Part DEF ReadMiss
<1>3. call.lo \in Nat /\ call.hi \in Nat /\ call.hi <= DevSize
  BY <1>1, Geo DEF TypeOK, Calls, NoCall
<1>4. PICK next \in blk + 1 .. DevSize :
        /\ InMiss(next - 1) /\ ~InMiss(next)
        /\ miss' = [a \in Addr |-> IF Start(blk) <= a /\ a < End(next - 1) THEN dev[a] ELSE Zero]
        /\ buf' = [a \in Addr |-> IF (Start(blk) <= a /\ a < End(next - 1)) /\ InCall(a)
                                  THEN dev[a] ELSE buf[a]]
        /\ blk' = next
  BY DEF ReadMiss
<1>5. next \in Nat /\ next - 1 \in Nat /\ blk < next /\ next <= DevSize
  BY <1>2, Geo
<1>6. \A c \in blk .. next - 1 : c \in Blocks /\ c \notin present
  BY <1>2, <1>3, <1>4, <1>5, Geo DEF InMiss
<1>7. TypeOK'
  <2>1. miss' \in [Addr -> Byte] /\ buf' \in [Addr -> Byte \cup {NoByte}]
    BY <1>4, CacheAssumption DEF TypeOK
  <2>2. QED
    BY <1>a, <1>2, <1>4, <1>5, <2>1, Geo DEF TypeOK
<1>8. PcInv' /\ DirtyWithinValid' /\ RunIsWritten' /\ RunData' /\ Coherent'
  BY <1>1 DEF ReadMiss, entries, back, inner, history, PcInv, InBack, DirtyWithinValid, RunIsWritten,
              RunData, Coherent, IsDirty, InRun, InCall
<1>9. LoopInv'
  <2>1. next \in Nat /\ Start(blk + 1) <= Start(next)
    BY <1>2, <1>5, Multiples, CacheAssumption, Geo DEF Start
  <2>2. Start(next) <= Start(next + 1) /\ Start(next) \in Nat /\ Start(next + 1) \in Nat
    BY <2>1, Multiples, CacheAssumption DEF Start
  <2>3. Start(blk + 1) \in Nat
    BY <1>2, Geo
  <2>4. QED
    BY <1>1, <1>3, <1>4, <2>1, <2>2, <2>3 DEF LoopInv, ReadMiss
<1>10. MissInv'
  <2> SUFFICES ASSUME NEW c \in blk .. next - 1, NEW a \in Addr, InBlock(a, c)
               PROVE  miss'[a] = dev[a]
    BY <1>1, <1>2, <1>a, <1>4, <1>5, <1>6, Geo DEF MissInv, InRun
  <2>1. c \in Blocks /\ next - 1 \in Blocks
    BY <1>2, <1>5, <1>6, Geo
  <2>2. Start(blk) <= Start(c) /\ End(c) <= End(next - 1)
    BY <1>2, <1>5, <2>1, Geo
  <2>3. Start(blk) <= a /\ a < End(next - 1)
    BY <1>2, <2>1, <2>2, Geo DEF InBlock
  <2>4. QED
    BY <1>4, <2>3
<1>11. ServedInv'
  <2> SUFFICES ASSUME NEW a \in Addr, InCall(a), a < Start(next)
               PROVE  buf'[a] # NoByte
    BY <1>4 DEF ServedInv, ReadMiss, InCall
  <2>1. next - 1 \in Blocks
    BY <1>2, <1>5, <1>6, Geo
  <2>2. next - 1 + 1 = next
    BY <1>5
  <2>3. a < End(next - 1)
    BY <2>1, <2>2, Geo
  <2>4. CASE a < Start(blk)
    <3>1. ~(Start(blk) <= a)
      BY <1>2, <2>4, Geo
    <3>2. QED
      BY <1>1, <1>4, <2>4, <3>1 DEF ServedInv
  <2>5. CASE Start(blk) <= a
    BY <1>4, <2>3, <2>5, CacheAssumption DEF TypeOK
  <2>6. QED
    BY <2>4, <2>5, <1>2, Geo
<1>12. ZeroedInv' /\ StoredInv' /\ FlushInv'
  BY <1>1 DEF ReadMiss, ZeroedInv, StoredInv, FlushInv, InBack
<1>13. MayInv'
  BY DEF ReadMiss, entries, back, inner, history, MayInv, InRun, InCall
<1>14. QED
  BY <1>7, <1>8, <1>9, <1>10, <1>11, <1>12, <1>13

\* A block enters the map.
LEMMA StepInsert ==
    ASSUME IInv, Insert
    PROVE  IInv'
<1> USE DEF IInv
<1>1. call.kind = "read" /\ pc = "insert" /\ runLo = runHi /\ todo = {} /\ \A a \in Addr : ~InRun(a)
  BY NoRun DEF Insert, PcInv, InBack
<1>2. ins \in Blocks /\ ins \notin present /\ \A a \in Addr : InBlock(a, ins) => miss[a] = dev[a]
  BY DEF Insert, MissInv, TypeOK
<1>3. TypeOK'
  BY <1>1, <1>2, Geo DEF TypeOK, Insert, Span, Empty, back, inner, history
<1>4. PcInv' /\ RunIsWritten' /\ RunData'
  BY <1>1 DEF Insert, back, PcInv, InBack, RunIsWritten, RunData, InRun
<1>5. DirtyWithinValid'
  BY <1>2, Geo DEF Insert, DirtyWithinValid, IsDirty, TypeOK, Span, Empty
<1>6. ASSUME NEW b \in present, NEW a \in Addr, Within(a, valid[b])
      PROVE  ~InBlock(a, ins)
  <2>1. b \in Blocks /\ InBlock(a, b) /\ b # ins
    BY <1>2, <1>6, Geo DEF DirtyWithinValid, Within, InBlock, TypeOK, Span
  <2>2. QED
    BY <1>2, <2>1, Disjoint
<1>7. ASSUME NEW b \in present', NEW a \in Addr, Within(a, valid'[b])
      PROVE  \/ b \in present /\ Within(a, valid[b]) /\ dirty'[b] = dirty[b] /\ data'[a] = data[a]
             \/ data'[a] = dev[a]
  <2>1. CASE b = ins
    BY <1>2, <1>7, <2>1 DEF Insert, Within, InBlock, TypeOK
  <2>2. CASE b # ins
    <3>1. b \in present /\ b \in Blocks /\ Within(a, valid[b]) /\ dirty'[b] = dirty[b]
      BY <1>2, <1>7, <2>2 DEF Insert, TypeOK
    <3>2. QED
      BY <1>6, <3>1 DEF Insert
  <2>3. QED
    BY <2>1, <2>2
<1>8. Coherent'
  BY <1>1, <1>7 DEF Insert, back, inner, history, Coherent, InRun, InCall
<1>9. MissInv'
  BY <1>1, <1>2, Geo DEF Insert, MissInv, back, inner, InRun, TypeOK
<1>10. LoopInv' /\ ServedInv' /\ StoredInv' /\ ZeroedInv' /\ FlushInv'
  BY <1>1 DEF Insert, LoopInv, ServedInv, StoredInv, ZeroedInv, FlushInv, InBack, InCall
<1>11. MayInv'
  BY <1>7 DEF Insert, back, inner, history, MayInv, InRun, InCall
<1>12. QED
  BY <1>3, <1>4, <1>5, <1>8, <1>9, <1>10, <1>11

\* The insertion's eviction loop is over and the call goes on.
LEMMA StepInsertDone ==
    ASSUME IInv, InsertDone
    PROVE  IInv'
<1> USE DEF IInv
<1>1. call.kind = "read" /\ pc = "insert" /\ runLo = runHi /\ todo = {}
  BY DEF InsertDone, PcInv, InBack
<1>2. TypeOK'
  BY Geo, CacheAssumption DEF TypeOK, InsertDone, Zeroes, entries, back, inner, history
<1>3. PcInv' /\ RunIsWritten' /\ RunData' /\ DirtyWithinValid' /\ Coherent'
  BY <1>1 DEF InsertDone, entries, back, inner, history, PcInv, InBack, RunIsWritten, RunData,
              DirtyWithinValid, Coherent, IsDirty, InRun, InCall
<1>4. LoopInv' /\ MissInv' /\ ServedInv' /\ StoredInv' /\ ZeroedInv' /\ FlushInv'
  BY <1>1 DEF InsertDone, LoopInv, MissInv, ServedInv, StoredInv, ZeroedInv, FlushInv, InBack, InCall
<1>5. MayInv'
  BY DEF InsertDone, entries, back, inner, history, MayInv, InRun, InCall
<1>6. QED
  BY <1>2, <1>3, <1>4, <1>5

\* The call leaves: whatever entries, device and history it leaves behind have to be in order.
LEMMA StepLeave ==
    ASSUME IInv, Leave, calls' \in 0 .. MaxCalls,
           (present \subseteq Blocks)', (data \in [Addr -> Byte])',
           (valid \in [Blocks -> Span])', (dirty \in [Blocks -> Span])',
           (dev \in [Addr -> Byte])', (pend \in [Addr -> SUBSET Byte])',
           (may \in [Addr -> SUBSET Byte])', (weak \subseteq Addr)',
           DirtyWithinValid',
           \A b \in present' : \A a \in Addr :
              Within(a, valid'[b]) /\ ~Within(a, dirty'[b]) /\ a \notin weak' => data'[a] = dev'[a],
           \A a \in Addr : /\ dev'[a] \in may'[a]
                           /\ pend'[a] \subseteq may'[a]
                           /\ \A b \in present' : Within(a, valid'[b]) => data'[a] \in may'[a]
    PROVE  IInv'
<1>1. /\ call' = NoCall /\ pc' = "idle" /\ runLo' = 0 /\ runHi' = 0 /\ todo' = {}
      /\ \A a \in Addr : ~InRun(a)'
  BY Geo DEF Leave, InRun
<1>2. TypeOK'
  <2>1. Zeroes \in [Addr -> Byte] /\ NoBytes \in [Addr -> Byte \cup {NoByte}]
    BY CacheAssumption DEF Zeroes, NoBytes
  <2>2. /\ call' \in Calls \cup {NoCall} /\ blk' \in 0 .. DevSize /\ ins' \in 0 .. DevSize
        /\ runLo' \in 0 .. DevSize /\ runHi' \in 0 .. DevSize /\ todo' \subseteq present'
    BY Geo DEF Leave
  <2>3. remove' \in BOOLEAN
    BY Zenon DEF Leave
  <2>4. QED
    BY <1>1, <2>1, <2>2, <2>3 DEF TypeOK, Leave
<1>3. PcInv' /\ RunIsWritten' /\ LoopInv' /\ MissInv' /\ ServedInv' /\ StoredInv' /\ ZeroedInv' /\ FlushInv'
  BY <1>1 DEF PcInv, InBack, RunIsWritten, LoopInv, MissInv, ServedInv, StoredInv, ZeroedInv, FlushInv, NoCall
<1>4. RunData' /\ Coherent' /\ MayInv'
  BY <1>1 DEF RunData, Coherent, MayInv, NoCall
<1>5. QED
  BY <1>2, <1>3, <1>4 DEF IInv

\* A call that changes nothing more as it leaves, with no run pending and nothing half zeroed.
LEMMA StepLeaveQuietly ==
    ASSUME IInv, Leave, ~InBack, pc # "zero", UNCHANGED <<calls, entries, inner, history>>
    PROVE  IInv'
<1>1. \A a \in Addr : ~InRun(a)
  BY NoRun
<1>2. call.kind # "zero"
  BY DEF IInv, PcInv
<1>3. UNCHANGED <<calls, present, data, valid, dirty, dev, pend, may, weak>>
  BY DEF entries, inner, history
<1>4. /\ calls' \in 0 .. MaxCalls
      /\ (present \subseteq Blocks)' /\ (data \in [Addr -> Byte])'
      /\ (valid \in [Blocks -> Span])' /\ (dirty \in [Blocks -> Span])'
      /\ (dev \in [Addr -> Byte])' /\ (pend \in [Addr -> SUBSET Byte])'
      /\ (may \in [Addr -> SUBSET Byte])' /\ (weak \subseteq Addr)'
  BY <1>3 DEF IInv, TypeOK
<1>5. DirtyWithinValid'
  BY <1>3 DEF IInv, DirtyWithinValid, IsDirty
<1>6. \A b \in present' : \A a \in Addr :
         Within(a, valid'[b]) /\ ~Within(a, dirty'[b]) /\ a \notin weak' => data'[a] = dev'[a]
  BY <1>1, <1>2, <1>3 DEF IInv, Coherent
<1>7. \A a \in Addr : /\ dev'[a] \in may'[a]
                      /\ pend'[a] \subseteq may'[a]
                      /\ \A b \in present' : Within(a, valid'[b]) => data'[a] \in may'[a]
  BY <1>3 DEF IInv, MayInv
<1>8. QED
  BY <1>4, <1>5, <1>6, <1>7, StepLeave

\* A call that is through, or fails before it touched the device.
LEMMA StepDoneOrFailedEarly ==
    ASSUME IInv, ReadDone \/ WriteDone \/ InnerFails
    PROVE  IInv'
<1>1. ~InBack /\ pc # "zero" /\ Leave /\ UNCHANGED <<calls, entries, inner, history>>
  BY DEF ReadDone, WriteDone, InnerFails, InBack
<1>2. QED
  BY <1>1, StepLeaveQuietly

\* evict picks a victim: nothing a reader sees has moved yet.
LEMMA StepEvict ==
    ASSUME IInv, Evict
    PROVE  IInv'
<1> USE DEF IInv
<1>1. pc \in {"insert", "write"} /\ runLo = runHi /\ \A a \in Addr : ~InRun(a)
  BY NoRun DEF Evict, InBack
<1>2. /\ todo' \subseteq present /\ remove' = TRUE /\ ret' = pc /\ pc' = "back"
      /\ UNCHANGED <<present, data, valid, dirty, calls, call, blk, ins, miss, buf, run, runLo, runHi,
                     dev, pend, may, weak>>
  BY DEF Evict, entries, loop, inner, history
<1>3. TypeOK'
  BY <1>1, <1>2 DEF TypeOK
<1>4. PcInv' /\ RunIsWritten' /\ RunData' /\ DirtyWithinValid' /\ Coherent'
  BY <1>1, <1>2 DEF PcInv, InBack, RunIsWritten, RunData, DirtyWithinValid, Coherent, IsDirty, InRun, InCall
<1>5. LoopInv' /\ ServedInv' /\ ZeroedInv' /\ FlushInv' /\ MissInv'
  BY <1>1, <1>2 DEF LoopInv, ServedInv, ZeroedInv, FlushInv, MissInv, InBack, InCall, InRun
<1>6. StoredInv' /\ MayInv'
  BY <1>2 DEF StoredInv, View, MayInv, InRun, InCall
<1>7. QED
  BY <1>3, <1>4, <1>5, <1>6

\* write_at inserts an empty entry for a block the cache does not hold.
LEMMA StepWriteInsert ==
    ASSUME IInv, WriteInsert
    PROVE  IInv' /\ View' = View
<1> USE DEF IInv
<1>1. call.kind = "write" /\ pc = "write" /\ runLo = runHi /\ todo = {} /\ \A a \in Addr : ~InRun(a)
  BY NoRun DEF WriteInsert, PcInv, InBack
<1>2. /\ blk \in Blocks /\ blk \notin present
      /\ CallLo(blk) \in 0 .. DevSize /\ Start(blk) <= CallLo(blk) /\ CallLo(blk) <= End(blk)
  BY <1>1, Part, Geo DEF WriteInsert
<1>3. /\ valid' \in [Blocks -> Span]
      /\ valid'[blk].lo = CallLo(blk) /\ valid'[blk].hi = CallLo(blk)
      /\ \A c \in Blocks : c # blk => valid'[c] = valid[c]
  BY <1>2, SetRange DEF WriteInsert, TypeOK
<1>4. /\ dirty' \in [Blocks -> Span]
      /\ dirty'[blk].lo = CallLo(blk) /\ dirty'[blk].hi = CallLo(blk)
      /\ \A c \in Blocks : c # blk => dirty'[c] = dirty[c]
  BY <1>2, SetRange DEF WriteInsert, TypeOK
<1>5. /\ present' = present \cup {blk}
      /\ data' \in [Addr -> Byte] /\ \A a \in Addr : ~InBlock(a, blk) => data'[a] = data[a]
  BY CacheAssumption DEF WriteInsert, TypeOK
<1>6. UNCHANGED <<calls, call, pc, blk, ins, miss, buf, todo, remove, ret, run, runLo, runHi,
                  dev, pend, may, weak>>
  BY DEF WriteInsert, loop, back, inner, history
<1>7. TypeOK'
  BY <1>1, <1>2, <1>3, <1>4, <1>5, <1>6 DEF TypeOK
<1>8. PcInv' /\ RunIsWritten' /\ RunData'
  BY <1>1, <1>6 DEF PcInv, InBack, RunIsWritten, RunData, InRun
<1>9. DirtyWithinValid'
  BY <1>2, <1>3, <1>4, <1>5 DEF DirtyWithinValid, IsDirty, TypeOK
<1>10. ASSUME NEW b \in present', NEW a \in Addr, Within(a, valid'[b])
       PROVE  b \in present /\ Within(a, valid[b]) /\ dirty'[b] = dirty[b] /\ data'[a] = data[a]
  <2>1. b # blk
    BY <1>2, <1>3, <1>10, Geo DEF Within
  <2>2. b \in present /\ b \in Blocks /\ Within(a, valid[b]) /\ dirty'[b] = dirty[b]
    BY <1>3, <1>4, <1>5, <1>10, <2>1 DEF TypeOK
  <2>3. ~InBlock(a, blk)
    BY <1>2, <2>1, <2>2, ValidInBlock
  <2>4. QED
    BY <1>5, <2>2, <2>3
<1>11. ASSUME NEW a \in Addr
       PROVE  (\E b \in present' : Within(a, valid'[b])) <=> (\E b \in present : Within(a, valid[b]))
  <2>1. ASSUME NEW b \in present, Within(a, valid[b]) PROVE b \in present' /\ Within(a, valid'[b])
    BY <1>2, <1>3, <1>5, <2>1 DEF TypeOK
  <2>2. QED
    BY <1>10, <2>1
<1>12. View' = View
  <2>1. ASSUME NEW a \in Addr, \E b \in present' : Within(a, valid'[b]) PROVE data'[a] = data[a]
    BY <1>10, <2>1
  <2>2. QED
    BY <1>1, <1>6, <1>11, <2>1 DEF View, InRun, InCall
<1>13. Coherent'
  BY <1>6, <1>10 DEF Coherent, InRun, InCall
<1>14. LoopInv' /\ ServedInv' /\ ZeroedInv' /\ FlushInv' /\ MissInv'
  BY <1>1, <1>6 DEF LoopInv, ServedInv, ZeroedInv, FlushInv, MissInv, InBack, InCall
<1>15. StoredInv'
  BY <1>6, <1>12 DEF StoredInv, InCall
<1>16. MayInv'
  BY <1>6, <1>10 DEF MayInv, InRun, InCall
<1>17. QED
  BY <1>7, <1>8, <1>9, <1>12, <1>13, <1>14, <1>15, <1>16

\* The write of one block: its part is stored, every other byte a reader sees stays.
LEMMA StepWriteBlock ==
    ASSUME IInv, WriteBlock
    PROVE  /\ IInv'
           /\ \A a \in Addr : View'[a] = IF InPart(a, blk) THEN call.val ELSE View[a]
<1> USE DEF IInv
<1>1. call.kind = "write" /\ pc = "write" /\ runLo = runHi /\ todo = {} /\ \A a \in Addr : ~InRun(a)
  BY NoRun DEF WriteBlock, PcInv, InBack
<1>2. /\ blk \in Blocks /\ blk \in present /\ call.val \in Byte
      /\ Start(blk) <= CallLo(blk) /\ CallLo(blk) < CallHi(blk) /\ CallHi(blk) <= End(blk)
      /\ CallLo(blk) \in 0 .. DevSize /\ CallHi(blk) \in 0 .. DevSize
      /\ Start(blk) \in 0 .. DevSize /\ End(blk) \in 0 .. DevSize
  <2>1. call.val \in Byte
    BY CacheAssumption DEF TypeOK, Calls, NoCall
  <2>2. QED
    BY <1>1, <2>1, Part, Geo DEF WriteBlock
<1>3. /\ valid[blk].lo \in 0 .. DevSize /\ valid[blk].hi \in 0 .. DevSize
      /\ dirty[blk].lo \in 0 .. DevSize /\ dirty[blk].hi \in 0 .. DevSize
      /\ Start(blk) <= valid[blk].lo /\ valid[blk].lo <= valid[blk].hi /\ valid[blk].hi <= End(blk)
      /\ IsDirty(blk) => valid[blk].lo <= dirty[blk].lo /\ dirty[blk].hi <= valid[blk].hi
  BY <1>2 DEF TypeOK, Span, DirtyWithinValid
<1> DEFINE vl == IF Gap THEN Start(blk) ELSE Least(valid[blk].lo, CallLo(blk))
           vh == IF Gap THEN End(blk) ELSE Greatest(valid[blk].hi, CallHi(blk))
           dl == IF IsDirty(blk) THEN Least(dirty[blk].lo, CallLo(blk)) ELSE CallLo(blk)
           dh == IF IsDirty(blk) THEN Greatest(dirty[blk].hi, CallHi(blk)) ELSE CallHi(blk)
<1>4. /\ vl \in 0 .. DevSize /\ vh \in 0 .. DevSize /\ dl \in 0 .. DevSize /\ dh \in 0 .. DevSize
      /\ Start(blk) <= vl /\ vl <= vh /\ vh <= End(blk) /\ vl <= dl /\ dh <= vh
  BY <1>2, <1>3 DEF Least, Greatest
<1>5. /\ valid' = [valid EXCEPT ![blk] = [lo |-> vl, hi |-> vh]]
      /\ dirty' = [dirty EXCEPT ![blk] = [lo |-> dl, hi |-> dh]]
  BY DEF WriteBlock, Hull
<1>6. /\ valid' \in [Blocks -> Span] /\ valid'[blk].lo = vl /\ valid'[blk].hi = vh
      /\ \A c \in Blocks : c # blk => valid'[c] = valid[c]
  <2> HIDE DEF vl, vh
  <2>1. QED
    BY <1>2, <1>4, <1>5, SetRange DEF TypeOK
<1>7. /\ dirty' \in [Blocks -> Span] /\ dirty'[blk].lo = dl /\ dirty'[blk].hi = dh
      /\ \A c \in Blocks : c # blk => dirty'[c] = dirty[c]
  <2> HIDE DEF dl, dh
  <2>1. QED
    BY <1>2, <1>4, <1>5, SetRange DEF TypeOK
\* The bytes of the block after the step: stored, filled in from the device, or as they were.
<1>8. /\ data' \in [Addr -> Byte]
      /\ \A a \in Addr :
            /\ InPart(a, blk) => data'[a] = call.val
            /\ ~InPart(a, blk) /\ Gap /\ InBlock(a, blk) /\ ~Within(a, valid[blk]) => data'[a] = dev[a]
            /\ ~InPart(a, blk) /\ ~(Gap /\ InBlock(a, blk) /\ ~Within(a, valid[blk])) => data'[a] = data[a]
  BY <1>2 DEF WriteBlock, Stored, Filled, TypeOK
<1>9. /\ blk' = blk + 1
      /\ UNCHANGED <<present, calls, call, pc, ins, miss, buf, todo, remove, ret, run, runLo, runHi, dev, pend>>
  BY DEF WriteBlock, back, inner
<1>10. /\ may' \in [Addr -> SUBSET Byte] /\ weak' \subseteq Addr
       /\ weak' = {a \in weak : ~InPart(a, blk)}
       /\ \A a \in Addr : may'[a] = IF InPart(a, blk) THEN may[a] \cup {call.val} ELSE may[a]
  BY <1>2 DEF WriteBlock, TypeOK
<1>11. TypeOK'
  BY <1>1, <1>6, <1>7, <1>8, <1>9, <1>10, Part DEF TypeOK, WriteBlock
<1>12. PcInv' /\ RunIsWritten' /\ RunData' /\ ServedInv' /\ ZeroedInv' /\ FlushInv' /\ MissInv'
  BY <1>1, <1>9 DEF PcInv, InBack, RunIsWritten, RunData, InRun, ServedInv, ZeroedInv, FlushInv, MissInv
<1>13. LoopInv'
  BY <1>1, <1>9, Part DEF LoopInv, WriteBlock
<1>14. DirtyWithinValid'
  <2> SUFFICES ASSUME NEW b \in present
               PROVE  /\ Start(b) <= valid'[b].lo /\ valid'[b].lo <= valid'[b].hi /\ valid'[b].hi <= End(b)
                      /\ IsDirty(b)' => valid'[b].lo <= dirty'[b].lo /\ dirty'[b].hi <= valid'[b].hi
    BY <1>9 DEF DirtyWithinValid
  <2> HIDE DEF vl, vh, dl, dh
  <2>1. CASE b = blk
    BY <1>4, <1>6, <1>7, <2>1
  <2>2. CASE b # blk
    BY <1>6, <1>7, <2>2 DEF DirtyWithinValid, IsDirty, TypeOK
  <2>3. QED
    BY <2>1, <2>2
\* A valid byte outside the written part was valid before, or was filled in.
<1>15. ASSUME NEW b \in present, NEW a \in Addr, Within(a, valid'[b]), ~InPart(a, blk)
       PROVE  \/ Within(a, valid[b]) /\ data'[a] = data[a] /\ (Within(a, dirty[b]) => Within(a, dirty'[b]))
              \/ data'[a] = dev[a] /\ InBlock(a, blk) /\ ~Within(a, valid[blk])
  <2>1. CASE b = blk
    <3>1. CASE Gap
      BY <1>2, <1>3, <1>6, <1>7, <1>8, <1>15, <2>1, <3>1, Geo
         DEF Within, InBlock, IsDirty, Least, Greatest
    <3>2. CASE ~Gap
      BY <1>2, <1>3, <1>6, <1>7, <1>8, <1>15, <2>1, <3>2, Geo
         DEF Within, IsDirty, Least, Greatest, Gap, InPart
    <3>3. QED
      BY <3>1, <3>2
  <2>2. CASE b # blk
    <3>1. b \in Blocks /\ Within(a, valid[b]) /\ dirty'[b] = dirty[b]
      BY <1>6, <1>7, <1>15, <2>2 DEF TypeOK
    <3>2. ~InBlock(a, blk)
      BY <1>2, <2>2, <3>1, ValidInBlock
    <3>3. QED
      BY <1>8, <1>15, <3>1, <3>2
  <2>3. QED
    BY <2>1, <2>2
<1>16. ASSUME NEW a \in Addr, InPart(a, blk)
       PROVE  Within(a, valid'[blk]) /\ Within(a, dirty'[blk])
  BY <1>2, <1>3, <1>6, <1>7, <1>16, Geo DEF Within, InPart, Least, Greatest
<1>17. Coherent'
  <2> SUFFICES ASSUME NEW b \in present, NEW a \in Addr,
                      Within(a, valid'[b]), ~Within(a, dirty'[b]), a \notin weak'
               PROVE  data'[a] = dev[a]
    BY <1>1, <1>9 DEF Coherent
  <2>1. ~InPart(a, blk)
    <3>1. SUFFICES ASSUME InPart(a, blk) PROVE FALSE
      OBVIOUS
    <3>2. InBlock(a, blk)
      BY <3>1, <1>1, Part DEF WriteBlock
    <3>3. b = blk
      BY <3>2, <1>2, <1>9, <1>11, <1>14, ValidInBlock, Disjoint, <1>4, <1>6, Geo DEF Within, InBlock, TypeOK,
         DirtyWithinValid, Span
    <3>4. QED
      BY <1>16, <3>1, <3>3
  <2>2. QED
    BY <1>1, <1>10, <1>15, <2>1 DEF Coherent
<1>18. ASSUME NEW a \in Addr, ~InPart(a, blk)
       PROVE  View'[a] = View[a]
  <2>1. \A b \in present : Within(a, valid[b]) => Within(a, valid'[b])
    <3> SUFFICES ASSUME NEW b \in present, Within(a, valid[b]) PROVE Within(a, valid'[b])
      OBVIOUS
    <3>1. CASE b = blk
      BY <1>2, <1>3, <1>6, <3>1, Geo DEF Within, Least, Greatest
    <3>2. CASE b # blk
      BY <1>6, <3>2 DEF TypeOK
    <3>3. QED
      BY <3>1, <3>2
  <2>2. CASE \E b \in present : Within(a, valid[b])
    <3>1. PICK b \in present : Within(a, valid[b])
      BY <2>2
    <3>2. ~(InBlock(a, blk) /\ ~Within(a, valid[blk]))
      BY <1>2, <3>1, ValidInBlock
    <3>3. data'[a] = data[a]
      BY <1>8, <1>18, <3>2
    <3>4. QED
      BY <1>1, <1>9, <2>1, <3>1, <3>3 DEF View, InRun, InCall
  <2>3. CASE ~\E b \in present : Within(a, valid[b])
    <3>1. (\E b \in present : Within(a, valid'[b])) => data'[a] = dev[a]
      BY <1>15, <1>18, <2>3
    <3>2. QED
      BY <1>1, <1>9, <2>3, <3>1 DEF View, InRun, InCall
  <2>4. QED
    BY <2>2, <2>3
<1>19. ASSUME NEW a \in Addr, InPart(a, blk)
       PROVE  View'[a] = call.val
  BY <1>1, <1>2, <1>8, <1>9, <1>16, <1>19 DEF View, InRun
<1>20. StoredInv'
  BY <1>1, <1>9, <1>10, <1>18, <1>19, Part DEF StoredInv, InCall, WriteBlock
<1>21. MayInv'
  <2> SUFFICES ASSUME NEW a \in Addr
               PROVE  /\ dev[a] \in may'[a] /\ pend[a] \subseteq may'[a]
                      /\ \A b \in present : Within(a, valid'[b]) => data'[a] \in may'[a]
    BY <1>1, <1>9 DEF MayInv, InRun
  <2>1. CASE InPart(a, blk)
    BY <1>8, <1>10, <2>1 DEF MayInv
  <2>2. CASE ~InPart(a, blk)
    BY <1>10, <1>15, <2>2 DEF MayInv
  <2>3. QED
    BY <2>1, <2>2
<1>22. QED
  BY <1>11, <1>12, <1>13, <1>14, <1>17, <1>18, <1>19, <1>20, <1>21

\* Removing an entry touches no other.
LEMMA RemoveOthers ==
    ASSUME TypeOK, DirtyWithinValid, NEW b \in Blocks, Remove(b)
    PROVE  /\ present' = present \ {b}
           /\ data' \in [Addr -> Byte] /\ valid' \in [Blocks -> Span] /\ dirty' \in [Blocks -> Span]
           /\ \A c \in present' :
                 /\ c \in present /\ c # b /\ valid'[c] = valid[c] /\ dirty'[c] = dirty[c]
                 /\ \A a \in Addr : Within(a, valid[c]) => data'[a] = data[a]
<1>1. present' = present \ {b} /\ data' \in [Addr -> Byte]
  BY CacheAssumption DEF Remove, TypeOK
<1>2. 0 \in 0 .. DevSize
  BY Geo
<1>3. /\ valid' \in [Blocks -> Span] /\ dirty' \in [Blocks -> Span]
      /\ \A c \in Blocks : c # b => valid'[c] = valid[c] /\ dirty'[c] = dirty[c]
  BY <1>2, SetRange DEF Remove, TypeOK, Empty
<1>4. ASSUME NEW c \in present', NEW a \in Addr, Within(a, valid[c])
      PROVE  data'[a] = data[a]
  <2>1. c \in present /\ c # b
    BY <1>1
  <2>2. ~InBlock(a, b)
    BY <1>4, <2>1, ValidInBlock
  <2>3. QED
    BY <2>2 DEF Remove
<1>5. QED
  BY <1>1, <1>3, <1>4 DEF TypeOK

\* A block joins the run.  What a reader sees moves, if at all, on unsettled addresses.
LEMMA StepGather ==
    ASSUME IInv, NEW b \in Blocks, Gather(b)
    PROVE  /\ IInv'
           /\ \A a \in Addr : View'[a] = View[a] \/ (a \in weak /\ View'[a] = dev[a])
<1> USE DEF IInv
<1>1. pc = "back" /\ b \in present /\ Lowest(b) /\ IsDirty(b)
  BY DEF Gather
<1>2. /\ dirty[b].lo \in 0 .. DevSize /\ dirty[b].hi \in 0 .. DevSize /\ dirty[b].lo < dirty[b].hi
      /\ Start(b) <= valid[b].lo /\ valid[b].lo <= dirty[b].lo
      /\ dirty[b].hi <= valid[b].hi /\ valid[b].hi <= End(b)
      /\ valid[b].lo \in 0 .. DevSize /\ valid[b].hi \in 0 .. DevSize
      /\ runLo \in Nat /\ runHi \in Nat /\ runLo <= runHi
  BY <1>1, Geo DEF TypeOK, Span, DirtyWithinValid, IsDirty, PcInv
\* A run in progress ends where this block's dirty bytes start.
<1>3. RunAt(b) = dirty[b].lo /\ (runLo # runHi => runHi = dirty[b].lo)
  <2>1. ASSUME runLo # runHi PROVE runHi = dirty[b].lo
    <3>1. PICK c \in present : Lowest(c) /\ dirty[c].lo = runHi
      BY <1>1, <2>1 DEF RunIsWritten
    <3>2. b \in Nat /\ c \in Nat
      BY Geo DEF TypeOK
    <3>3. b <= c /\ c <= b
      BY <1>1, <3>1 DEF Lowest
    <3>4. QED
      BY <3>1, <3>2, <3>3
  <2>2. QED
    BY <2>1 DEF RunAt
<1>4. /\ runHi' = dirty[b].hi
      /\ runLo' = IF runLo = runHi THEN dirty[b].lo ELSE runLo
      /\ run' = [a \in Addr |-> IF dirty[b].lo <= a /\ a < dirty[b].hi THEN data[a] ELSE run[a]]
  <2>1. dirty[b].lo + (dirty[b].hi - dirty[b].lo) = dirty[b].hi
    BY <1>2
  <2>2. \A a \in Addr : dirty[b].lo + (a - dirty[b].lo) = a
    BY <1>2, Geo
  <2>3. QED
    BY <1>3, <2>1, <2>2 DEF Gather
<1>5. \A a \in Addr : InRun(a)' <=> InRun(a) \/ Within(a, dirty[b])
  BY <1>2, <1>3, <1>4, Geo DEF InRun, Within
<1>6. /\ run' \in [Addr -> Byte]
      /\ \A a \in Addr : run'[a] = IF Within(a, dirty[b]) THEN data[a] ELSE run[a]
  BY <1>4 DEF Within, TypeOK
<1>7. /\ runLo' \in 0 .. DevSize /\ runHi' \in 0 .. DevSize /\ runLo' <= runHi'
  BY <1>2, <1>3, <1>4, Geo
<1>8. /\ todo' = todo \ {b} /\ pc' = IF NextJoins(b) THEN "back" ELSE "put"
      /\ UNCHANGED <<calls, call, blk, ins, miss, buf, remove, ret, dev, pend, may, weak>>
  BY DEF Gather, loop, inner, history
\* The entries after the step, whichever way the block left its dirty bytes.
<1>9. /\ present' \subseteq present /\ todo' \subseteq present'
      /\ data' \in [Addr -> Byte] /\ valid' \in [Blocks -> Span] /\ dirty' \in [Blocks -> Span]
      /\ \A c \in present' :
            /\ valid'[c] = valid[c]
            /\ c # b => dirty'[c] = dirty[c]
            /\ c = b => dirty'[c] = Empty
            /\ \A a \in Addr : Within(a, valid[c]) => data'[a] = data[a]
      /\ \A c \in present : c # b => c \in present'
      /\ ~remove => present' = present
  <2>1. CASE remove
    <3>1. Remove(b)
      BY <2>1 DEF Gather
    <3>2. QED
      BY <2>1, <3>1, <1>8, RemoveOthers DEF TypeOK
  <2>2. CASE ~remove
    <3>1. dirty' = [dirty EXCEPT ![b] = Empty] /\ UNCHANGED <<present, data, valid>>
      BY <2>2 DEF Gather
    <3>2. 0 \in 0 .. DevSize
      BY Geo
    <3>3. dirty' \in [Blocks -> Span] /\ dirty'[b] = Empty /\ \A c \in Blocks : c # b => dirty'[c] = dirty[c]
      BY <3>1, <3>2, SetRange DEF TypeOK, Empty
    <3>4. QED
      BY <1>8, <3>1, <3>3 DEF TypeOK
  <2>3. QED
    BY <2>1, <2>2
<1>10. TypeOK'
  BY <1>1, <1>6, <1>7, <1>8, <1>9 DEF TypeOK
<1>11. PcInv'
  BY <1>1, <1>7, <1>8 DEF PcInv, InBack
<1>12. DirtyWithinValid'
  BY <1>9, Geo DEF DirtyWithinValid, IsDirty, Empty
<1>13. RunIsWritten'
  <2> SUFFICES ASSUME NextJoins(b)
               PROVE  \E c \in present' : /\ c \in todo' /\ \A d \in todo' : c <= d
                                          /\ dirty'[c].lo < dirty'[c].hi /\ dirty'[c].lo = runHi'
    BY <1>8 DEF RunIsWritten, Lowest, IsDirty
  <2>1. b + 1 \in todo /\ b + 1 \in present /\ b + 1 \in Blocks /\ b \in Nat /\ b + 1 # b
    BY Geo DEF NextJoins, TypeOK
  <2>2. b + 1 \in todo' /\ b + 1 \in present' /\ dirty'[b + 1] = dirty[b + 1]
    BY <1>8, <1>9, <2>1
  <2>3. \A d \in todo' : b + 1 <= d
    BY <1>1, <1>8, <2>1, Geo DEF Lowest, TypeOK
  <2>4. dirty[b + 1].lo = runHi'
    <3>1. End(b) <= Start(b + 1) /\ End(b) \in Nat /\ Start(b + 1) \in Nat
      BY <2>1, Geo
    <3>2. ~(End(b) < Start(b + 1))
      <4>1. SUFFICES ASSUME End(b) < Start(b + 1) PROVE FALSE
        OBVIOUS
      <4>2. End(b) \in Addr
        BY <3>1, <4>1, <2>1, Geo DEF Addr
      <4>3. QED
        BY <4>1, <4>2, <3>1, Geo
    <3>3. QED
      BY <1>4, <3>1, <3>2 DEF NextJoins
  <2>5. QED
    BY <2>1, <2>2, <2>3, <2>4 DEF NextJoins, IsDirty
<1>14. RunData'
  BY <1>5, <1>6, <1>9 DEF RunData
<1>15. Coherent'
  <2> SUFFICES ASSUME NEW c \in present', NEW a \in Addr, Within(a, valid'[c]), ~Within(a, dirty'[c]),
                      a \notin weak, ~InRun(a)', ~(call.kind = "zero" /\ InCall(a))
               PROVE  data'[a] = dev[a]
    BY <1>8 DEF Coherent, InCall
  <2>1. c \in present /\ Within(a, valid[c]) /\ data'[a] = data[a]
    BY <1>9
  <2>2. ~Within(a, dirty[c]) /\ ~InRun(a)
    BY <1>5, <1>9
  <2>3. QED
    BY <2>1, <2>2 DEF Coherent
<1>16. MissInv'
  <2> SUFFICES ASSUME ret = "insert"
               PROVE  /\ ins <= blk
                      /\ \A c \in ins .. blk - 1 :
                            /\ c \in Blocks /\ c \notin present'
                            /\ \A a \in Addr : InBlock(a, c) => ~InRun(a)' /\ miss[a] = dev[a]
    BY <1>8 DEF MissInv, InBack
  <2>1. /\ ins <= blk
        /\ \A c \in ins .. blk - 1 :
              /\ c \in Blocks /\ c \notin present
              /\ \A a \in Addr : InBlock(a, c) => ~InRun(a) /\ miss[a] = dev[a]
    BY <1>1 DEF MissInv, InBack
  <2>2. ASSUME NEW c \in ins .. blk - 1, NEW a \in Addr, InBlock(a, c) PROVE ~Within(a, dirty[b])
    <3>1. c \in Blocks /\ c # b
      BY <1>1, <2>1
    <3>2. Within(a, dirty[b]) => InBlock(a, b)
      BY <1>2, Geo DEF Within, InBlock
    <3>3. QED
      BY <2>2, <3>1, <3>2, Disjoint
  <2>3. QED
    BY <1>5, <1>9, <2>1, <2>2
<1>17. LoopInv' /\ ServedInv' /\ ZeroedInv'
  BY <1>8 DEF LoopInv, ServedInv, ZeroedInv, InCall
<1>18. FlushInv'
  <2>1. ret = "sync" => ~remove
    BY <1>1 DEF PcInv, InBack
  <2>2. QED
    BY <1>1, <1>8, <1>9 DEF FlushInv, InBack, IsDirty, Empty
<1>19. call.kind # "zero"
  BY <1>1 DEF PcInv
<1>20. ASSUME NEW a \in Addr
       PROVE  View'[a] = View[a] \/ (a \in weak /\ View'[a] = dev[a])
  <2>1. CASE InRun(a)
    <3>1. Within(a, dirty[b]) => data[a] = run[a]
      BY <1>1, <1>2, <2>1, Geo DEF RunData, Within
    <3>2. QED
      BY <1>5, <1>6, <1>8, <1>19, <2>1, <3>1 DEF View
  <2>2. CASE ~InRun(a) /\ Within(a, dirty[b])
    <3>1. Within(a, valid[b])
      BY <1>2, <2>2, Geo DEF Within
    <3>2. QED
      BY <1>1, <1>5, <1>6, <1>8, <1>19, <2>2, <3>1 DEF View
  <2>3. CASE ~InRun(a) /\ ~Within(a, dirty[b])
    <3>1. CASE \E c \in present' : Within(a, valid'[c])
      BY <1>5, <1>8, <1>9, <1>19, <2>3, <3>1 DEF View
    <3>2. CASE (~\E c \in present' : Within(a, valid'[c])) /\ ~\E c \in present : Within(a, valid[c])
      BY <1>5, <1>8, <1>19, <2>3, <3>2 DEF View
    <3>3. CASE (~\E c \in present' : Within(a, valid'[c])) /\ \E c \in present : Within(a, valid[c])
      <4>1. Within(a, valid[b])
        BY <1>9, <3>3
      <4>2. View[a] = data[a] /\ View'[a] = dev[a]
        BY <1>1, <1>5, <1>8, <1>19, <2>3, <3>3, <4>1 DEF View
      <4>3. a \notin weak => data[a] = dev[a]
        BY <1>1, <1>19, <2>3, <4>1 DEF Coherent
      <4>4. QED
        BY <4>2, <4>3
    <3>4. QED
      BY <3>1, <3>2, <3>3
  <2>4. QED
    BY <2>1, <2>2, <2>3
<1>21. StoredInv'
  BY <1>8, <1>20 DEF StoredInv, InCall
<1>22. MayInv'
  <2> SUFFICES ASSUME NEW a \in Addr
               PROVE  /\ InRun(a)' => run'[a] \in may[a]
                      /\ \A c \in present' : Within(a, valid'[c]) => data'[a] \in may[a]
    BY <1>8 DEF MayInv, InCall
  <2>1. Within(a, dirty[b]) => Within(a, valid[b])
    BY <1>2, Geo DEF Within
  <2>2. QED
    BY <1>1, <1>5, <1>6, <1>9, <2>1 DEF MayInv
<1>23. QED
  BY <1>10, <1>11, <1>12, <1>13, <1>14, <1>15, <1>16, <1>17, <1>18, <1>20, <1>21, <1>22

\* A clean block leaves the map.
LEMMA StepDropClean ==
    ASSUME IInv, NEW b \in Blocks, DropClean(b)
    PROVE  /\ IInv'
           /\ \A a \in Addr : View'[a] = View[a] \/ (a \in weak /\ View'[a] = dev[a])
<1> USE DEF IInv
<1>1. pc = "back" /\ b \in present /\ Lowest(b) /\ ~IsDirty(b)
  BY DEF DropClean
<1>2. /\ todo' = todo \ {b}
      /\ UNCHANGED <<calls, call, pc, blk, ins, miss, buf, remove, ret, run, runLo, runHi, dev, pend, may, weak>>
  BY DEF DropClean, loop, inner, history
<1>3. runLo = runHi /\ \A a \in Addr : ~InRun(a) /\ ~InRun(a)'
  <2>1. runLo = runHi
    <3>1. SUFFICES ASSUME runLo # runHi PROVE FALSE
      OBVIOUS
    <3>2. PICK c \in present : Lowest(c) /\ IsDirty(c)
      BY <1>1, <3>1 DEF RunIsWritten
    <3>3. b \in Nat /\ c \in Nat /\ b <= c /\ c <= b
      BY <1>1, <3>2, Geo DEF TypeOK, Lowest
    <3>4. QED
      BY <1>1, <3>2, <3>3
  <2>2. QED
    BY <1>2, <2>1, Geo DEF InRun, TypeOK
<1>4. /\ present' \subseteq present /\ todo' \subseteq present'
      /\ data' \in [Addr -> Byte] /\ valid' \in [Blocks -> Span] /\ dirty' \in [Blocks -> Span]
      /\ \A c \in present' :
            /\ valid'[c] = valid[c] /\ dirty'[c] = dirty[c]
            /\ \A a \in Addr : Within(a, valid[c]) => data'[a] = data[a]
      /\ \A c \in present : c # b => c \in present'
  <2>1. CASE remove
    BY <2>1, <1>2, RemoveOthers DEF DropClean, TypeOK
  <2>2. CASE ~remove
    BY <2>2, <1>2 DEF DropClean, entries, TypeOK
  <2>3. QED
    BY <2>1, <2>2
<1>5. TypeOK'
  BY <1>2, <1>4 DEF TypeOK
<1>6. PcInv' /\ RunIsWritten' /\ RunData'
  BY <1>1, <1>2, <1>3 DEF PcInv, InBack, RunIsWritten, RunData
<1>7. DirtyWithinValid'
  BY <1>4 DEF DirtyWithinValid, IsDirty
<1>8. Coherent'
  BY <1>2, <1>3, <1>4 DEF Coherent, InCall
<1>9. MissInv'
  BY <1>1, <1>2, <1>3, <1>4 DEF MissInv, InBack
<1>10. LoopInv' /\ ServedInv' /\ ZeroedInv'
  BY <1>1, <1>2 DEF LoopInv, ServedInv, ZeroedInv, InCall
<1>11. FlushInv'
  BY <1>1, <1>2, <1>4 DEF FlushInv, InBack, IsDirty
<1>12. call.kind # "zero"
  BY <1>1 DEF PcInv
<1>13. ASSUME NEW a \in Addr
       PROVE  View'[a] = View[a] \/ (a \in weak /\ View'[a] = dev[a])
  <2>1. CASE \E c \in present' : Within(a, valid'[c])
    BY <1>2, <1>3, <1>4, <1>12, <2>1 DEF View
  <2>2. CASE (~\E c \in present' : Within(a, valid'[c])) /\ ~\E c \in present : Within(a, valid[c])
    BY <1>2, <1>3, <1>12, <2>2 DEF View
  <2>3. CASE (~\E c \in present' : Within(a, valid'[c])) /\ \E c \in present : Within(a, valid[c])
    <3>1. Within(a, valid[b])
      BY <1>4, <2>3
    <3>2. View[a] = data[a] /\ View'[a] = dev[a]
      BY <1>2, <1>3, <1>12, <2>3 DEF View
    <3>3. ~Within(a, dirty[b])
      BY <1>1, Geo DEF IsDirty, Within, TypeOK, Span
    <3>4. a \notin weak => data[a] = dev[a]
      BY <1>1, <1>3, <1>12, <3>1, <3>3 DEF Coherent
    <3>5. QED
      BY <3>2, <3>4
  <2>4. QED
    BY <2>1, <2>2, <2>3
<1>14. StoredInv'
  BY <1>2, <1>13 DEF StoredInv, InCall
<1>15. MayInv'
  BY <1>2, <1>3, <1>4 DEF MayInv, InCall
<1>16. QED
  BY <1>5, <1>6, <1>7, <1>8, <1>9, <1>10, <1>11, <1>13, <1>14, <1>15

\* The run reaches the device: no reader can tell.
LEMMA StepPutRun ==
    ASSUME IInv, PutRun
    PROVE  IInv' /\ View' = View
<1> USE DEF IInv
<1>1. pc = "put" /\ pc' = "back" /\ runLo' = 0 /\ runHi' = 0 /\ call.kind # "zero"
  BY DEF PutRun, PcInv
<1>2. UNCHANGED <<present, data, valid, dirty, calls, call, blk, ins, miss, buf, todo, remove, ret, may, weak>>
  BY DEF PutRun, entries, loop, history
<1>3. \A a \in Addr : ~InRun(a)'
  BY <1>1, Geo DEF InRun
<1>4. /\ dev' \in [Addr -> Byte] /\ pend' \in [Addr -> SUBSET Byte]
      /\ \A a \in Addr : /\ InRun(a) => dev'[a] = run[a] /\ pend'[a] = pend[a] \cup {run[a]}
                         /\ ~InRun(a) => dev'[a] = dev[a] /\ pend'[a] = pend[a]
  BY DEF PutRun, InnerWrite, RunBytes, TypeOK
<1>5. TypeOK'
  BY <1>1, <1>2, <1>4, Geo, CacheAssumption DEF PutRun, Zeroes, TypeOK
<1>6. PcInv' /\ RunIsWritten' /\ RunData' /\ DirtyWithinValid'
  BY <1>1, <1>2, <1>3 DEF PcInv, InBack, RunIsWritten, RunData, DirtyWithinValid, IsDirty
<1>7. Coherent'
  <2> SUFFICES ASSUME NEW b \in present, NEW a \in Addr, Within(a, valid[b]), ~Within(a, dirty[b]),
                      a \notin weak
               PROVE  data[a] = dev'[a]
    BY <1>2 DEF Coherent
  <2>1. CASE InRun(a)
    BY <1>4, <2>1 DEF RunData
  <2>2. CASE ~InRun(a)
    BY <1>1, <1>4, <2>2 DEF Coherent
  <2>3. QED
    BY <2>1, <2>2
<1>8. MissInv'
  BY <1>1, <1>2, <1>3, <1>4, Zenon DEF MissInv, InBack
<1>9. LoopInv' /\ ServedInv' /\ ZeroedInv' /\ FlushInv'
  BY <1>1, <1>2 DEF LoopInv, ServedInv, ZeroedInv, FlushInv, InBack, IsDirty, InCall
<1>10. View' = View
  <2>1. ASSUME NEW a \in Addr PROVE View'[a] = View[a]
    <3>1. CASE InRun(a)
      BY <1>1, <1>2, <1>3, <1>4, <3>1 DEF View, RunData
    <3>2. CASE ~InRun(a)
      BY <1>1, <1>2, <1>3, <1>4, <3>2 DEF View
    <3>3. QED
      BY <3>1, <3>2
  <2>2. QED
    BY <2>1 DEF View
<1>11. StoredInv'
  BY <1>2, <1>10 DEF StoredInv, InCall
<1>12. MayInv'
  <2> SUFFICES ASSUME NEW a \in Addr PROVE dev'[a] \in may[a] /\ pend'[a] \subseteq may[a]
    BY <1>1, <1>2, <1>3 DEF MayInv
  <2>1. CASE InRun(a)
    BY <1>4, <2>1 DEF MayInv
  <2>2. CASE ~InRun(a)
    BY <1>4, <2>2 DEF MayInv
  <2>3. QED
    BY <2>1, <2>2
<1>13. QED
  BY <1>5, <1>6, <1>7, <1>8, <1>9, <1>10, <1>11, <1>12

\* write_back has emptied its run and returns to its caller.
LEMMA StepBackDone ==
    ASSUME IInv, BackDone
    PROVE  IInv' /\ View' = View
<1> USE DEF IInv
<1>1. pc = "back" /\ todo = {} /\ pc' = ret /\ ret \in {"insert", "write", "sync"}
  BY DEF BackDone, PcInv, InBack
<1>2. ret' = "idle" /\ remove' = FALSE
      /\ UNCHANGED <<present, data, valid, dirty, calls, call, blk, ins, miss, buf, todo, run, runLo, runHi,
                     dev, pend, may, weak>>
  BY DEF BackDone, entries, loop, inner, history
<1>3. runLo = runHi
  BY <1>1 DEF RunIsWritten, Lowest
<1>4. TypeOK'
  BY <1>1, <1>2 DEF TypeOK
<1>5. PcInv' /\ RunIsWritten' /\ RunData' /\ DirtyWithinValid' /\ Coherent'
  BY <1>1, <1>2, <1>3 DEF PcInv, InBack, RunIsWritten, RunData, DirtyWithinValid, Coherent, IsDirty, InRun, InCall
<1>6. MissInv' /\ LoopInv' /\ ServedInv' /\ ZeroedInv' /\ FlushInv'
  BY <1>1, <1>2 DEF MissInv, LoopInv, ServedInv, ZeroedInv, FlushInv, InBack, IsDirty, InCall, InRun
<1>7. View' = View
  BY <1>2 DEF View, InRun, InCall
<1>8. StoredInv' /\ MayInv'
  BY <1>2, <1>7 DEF StoredInv, MayInv, InRun, InCall
<1>9. QED
  BY <1>4, <1>5, <1>6, <1>7, <1>8

\* inner.flush: with no dirty block left, what a reader sees is what the device has.
LEMMA StepSync ==
    ASSUME IInv, Sync
    PROVE  /\ IInv' /\ View' = View
           /\ \A a \in Addr : a \notin weak => View[a] = dev[a]
<1> USE DEF IInv
<1>1. pc = "sync" /\ call.kind = "flush" /\ \A a \in Addr : ~InRun(a)
  BY NoRun DEF Sync, PcInv, InBack
<1>2. UNCHANGED <<calls, present, data, valid, dirty, dev, weak>> /\ Leave
  BY DEF Sync, entries
<1>3. ASSUME NEW b \in present, NEW a \in Addr, Within(a, valid[b]), a \notin weak
      PROVE  data[a] = dev[a]
  <2>1. ~Within(a, dirty[b])
    BY <1>1, Geo DEF FlushInv, IsDirty, Within, TypeOK, Span
  <2>2. QED
    BY <1>1, <1>3, <2>1 DEF Coherent
<1>4. \A a \in Addr : a \notin weak => View[a] = dev[a]
  BY <1>1, <1>3 DEF View
<1>5. /\ pend' \in [Addr -> SUBSET Byte] /\ may' \in [Addr -> SUBSET Byte]
      /\ \A a \in Addr : /\ pend'[a] = {dev[a]}
                         /\ a \in weak => may'[a] = may[a]
                         /\ a \notin weak => may'[a] = {dev[a]}
  BY <1>4 DEF Sync, TypeOK
<1>6. /\ calls' \in 0 .. MaxCalls
      /\ (present \subseteq Blocks)' /\ (data \in [Addr -> Byte])'
      /\ (valid \in [Blocks -> Span])' /\ (dirty \in [Blocks -> Span])'
      /\ (dev \in [Addr -> Byte])' /\ (weak \subseteq Addr)'
  BY <1>2 DEF TypeOK
<1>7. DirtyWithinValid'
  BY <1>2 DEF DirtyWithinValid, IsDirty
<1>8. \A b \in present' : \A a \in Addr :
         Within(a, valid'[b]) /\ ~Within(a, dirty'[b]) /\ a \notin weak' => data'[a] = dev'[a]
  BY <1>2, <1>3
<1>9. \A a \in Addr : /\ dev'[a] \in may'[a]
                      /\ pend'[a] \subseteq may'[a]
                      /\ \A b \in present' : Within(a, valid'[b]) => data'[a] \in may'[a]
  BY <1>2, <1>3, <1>5 DEF MayInv
<1>10. IInv'
  BY <1>2, <1>5, <1>6, <1>7, <1>8, <1>9, StepLeave
<1>11. View' = View
  <2>1. call'.kind = "none" /\ \A a \in Addr : ~InRun(a)'
    BY <1>2, Geo DEF Leave, NoCall, InRun
  <2>2. QED
    BY <1>1, <1>2, <2>1 DEF View
<1>12. QED
  BY <1>4, <1>10, <1>11

\* A block of write_zeroes: the promised zeroes hide what the step does.
LEMMA StepZeroBlock ==
    ASSUME IInv, ZeroBlock
    PROVE  IInv' /\ View' = View
<1> USE DEF IInv
<1>1. call.kind = "zero" /\ pc = "zero" /\ runLo = runHi /\ todo = {} /\ \A a \in Addr : ~InRun(a)
  BY NoRun DEF ZeroBlock, PcInv, InBack
<1>2. /\ blk \in Blocks
      /\ \A a \in Addr : InPart(a, blk) => InCall(a) /\ InBlock(a, blk)
      /\ \A a \in Addr : InCall(a) /\ InBlock(a, blk) => InPart(a, blk)
  BY <1>1, Part DEF ZeroBlock
<1>3. /\ blk' = blk + 1
      /\ UNCHANGED <<calls, call, pc, ins, miss, buf, todo, remove, ret, run, runLo, runHi, dev, pend, may, weak>>
  BY DEF ZeroBlock, back, inner, history
\* Bytes outside the call keep their entries; cached bytes of this block inside it become zero.
<1>4. /\ present' \subseteq present
      /\ data' \in [Addr -> Byte] /\ valid' \in [Blocks -> Span] /\ dirty' \in [Blocks -> Span]
      /\ \A c \in present' :
            /\ valid'[c] = valid[c] /\ dirty'[c] = dirty[c]
            /\ \A a \in Addr : Within(a, valid[c]) =>
                  IF c = blk /\ InCall(a) THEN data'[a] = Zero ELSE data'[a] = data[a]
      /\ \A c \in present : \A a \in Addr : Within(a, valid[c]) /\ ~InCall(a) => c \in present'
  <2>1. CASE blk \notin present
    <3>1. UNCHANGED <<present, data, valid, dirty>>
      BY <2>1 DEF ZeroBlock, entries
    <3>2. QED
      BY <2>1, <3>1 DEF TypeOK
  <2>2. CASE blk \in present /\ CallLo(blk) = Start(blk) /\ CallHi(blk) = End(blk)
    <3>1. Remove(blk)
      BY <2>2 DEF ZeroBlock
    <3>2. ASSUME NEW a \in Addr, Within(a, valid[blk]) PROVE InCall(a)
      <4>1. InBlock(a, blk)
        BY <2>2, <3>2, ValidInBlock
      <4>2. InPart(a, blk)
        BY <2>2, <4>1 DEF InBlock, InPart
      <4>3. QED
        BY <1>2, <4>2
    <3>3. QED
      BY <1>2, <3>1, <3>2, RemoveOthers
  <2>3. CASE blk \in present /\ ~(CallLo(blk) = Start(blk) /\ CallHi(blk) = End(blk))
    <3>1. /\ UNCHANGED <<present, valid, dirty>>
          /\ data' = [a \in Addr |-> IF InPart(a, blk) /\ Within(a, valid[blk]) THEN Zero ELSE data[a]]
      BY <2>3 DEF ZeroBlock
    <3>2. data' \in [Addr -> Byte]
      BY <3>1, CacheAssumption DEF TypeOK
    <3>3. ASSUME NEW c \in present, NEW a \in Addr, Within(a, valid[c])
          PROVE  IF c = blk /\ InCall(a) THEN data'[a] = Zero ELSE data'[a] = data[a]
      <4>1. c \in Blocks /\ InBlock(a, c) /\ (InBlock(a, blk) => blk = c)
        BY <1>2, <3>3, ValidInBlock
      <4>2. CASE c = blk /\ InCall(a)
        BY <1>2, <3>1, <3>3, <4>1, <4>2
      <4>3. CASE ~(c = blk /\ InCall(a))
        BY <1>2, <3>1, <4>1, <4>3
      <4>4. QED
        BY <4>2, <4>3
    <3>4. QED
      BY <3>1, <3>2, <3>3 DEF TypeOK
  <2>4. QED
    BY <2>1, <2>2, <2>3
<1>5. TypeOK'
  BY <1>1, <1>3, <1>4, Part DEF TypeOK, ZeroBlock
<1>6. PcInv' /\ RunIsWritten' /\ RunData' /\ MissInv' /\ ServedInv' /\ StoredInv' /\ FlushInv'
  BY <1>1, <1>3 DEF PcInv, InBack, RunIsWritten, RunData, InRun, MissInv, ServedInv, StoredInv, FlushInv
<1>7. DirtyWithinValid'
  BY <1>4 DEF DirtyWithinValid, IsDirty
<1>8. Coherent'
  BY <1>1, <1>3, <1>4 DEF Coherent, InCall
<1>9. LoopInv'
  BY <1>1, <1>3, Part DEF LoopInv, ZeroBlock
<1>10. ZeroedInv'
  <2> SUFFICES ASSUME NEW c \in present', NEW a \in Addr, Within(a, valid'[c]), InCall(a), a < Start(blk + 1)
               PROVE  data'[a] = Zero
    BY <1>3 DEF ZeroedInv, InCall
  <2>1. c \in present /\ Within(a, valid[c])
    BY <1>4
  <2>2. CASE c = blk
    BY <1>4, <2>1, <2>2
  <2>3. CASE c # blk
    <3>1. ~InBlock(a, blk)
      BY <1>2, <2>1, <2>3, ValidInBlock
    <3>2. a < Start(blk)
      BY <1>1, <1>2, <3>1, Part DEF ZeroBlock
    <3>3. QED
      BY <1>1, <1>4, <2>1, <2>3, <3>2 DEF ZeroedInv
  <2>4. QED
    BY <2>2, <2>3
<1>11. View' = View
  <2>1. ASSUME NEW a \in Addr PROVE View'[a] = View[a]
    <3>1. CASE InCall(a)
      BY <1>1, <1>3, <3>1 DEF View, InCall
    <3>2. CASE ~InCall(a)
      <4>1. (\E c \in present' : Within(a, valid'[c])) <=> (\E c \in present : Within(a, valid[c]))
        BY <1>4, <3>2
      <4>2. (\E c \in present' : Within(a, valid'[c])) => data'[a] = data[a]
        BY <1>4, <3>2
      <4>3. ~InRun(a) /\ ~InRun(a)' /\ ~InCall(a)'
        BY <1>1, <1>3, <3>2 DEF InRun, InCall
      <4>4. QED
        BY <1>3, <3>2, <4>1, <4>2, <4>3 DEF View
    <3>3. QED
      BY <3>1, <3>2
  <2>2. QED
    BY <2>1 DEF View
<1>12. MayInv'
  <2> SUFFICES ASSUME NEW a \in Addr, NEW c \in present', Within(a, valid'[c])
               PROVE  data'[a] \in may[a]
    BY <1>1, <1>3 DEF MayInv, InRun, InCall
  <2>1. c \in present /\ Within(a, valid[c])
    BY <1>4
  <2>2. data'[a] = data[a] \/ (InCall(a) /\ data'[a] = Zero)
    BY <1>4, <2>1
  <2>3. QED
    BY <1>1, <2>1, <2>2 DEF MayInv
<1>13. QED
  BY <1>5, <1>6, <1>7, <1>8, <1>9, <1>10, <1>11, <1>12

\* inner.write_zeroes returns: the device and every cached copy now hold the promised zeroes.
LEMMA StepZeroInner ==
    ASSUME IInv, ZeroInner
    PROVE  IInv' /\ View' = View
<1> USE DEF IInv
<1>1. call.kind = "zero" /\ pc = "zero" /\ ~More /\ \A a \in Addr : ~InRun(a)
  BY NoRun DEF ZeroInner, PcInv, InBack
<1>2. UNCHANGED <<calls, present, data, valid, dirty, may, weak>> /\ Leave
  BY DEF ZeroInner, entries, history
<1>3. /\ dev' \in [Addr -> Byte] /\ pend' \in [Addr -> SUBSET Byte]
      /\ \A a \in Addr : /\ InCall(a) => dev'[a] = Zero /\ pend'[a] = pend[a] \cup {Zero}
                         /\ ~InCall(a) => dev'[a] = dev[a] /\ pend'[a] = pend[a]
  BY CacheAssumption DEF ZeroInner, InnerWrite, CallBytes, Zeroes, TypeOK
<1>4. ASSUME NEW b \in present, NEW a \in Addr, Within(a, valid[b]), InCall(a)
      PROVE  data[a] = Zero
  <2>1. a < Start(blk)
    <3>1. call.hi \in Nat /\ Start(blk) \in Nat /\ a \in Nat
      BY <1>1, Geo DEF TypeOK, Calls, NoCall
    <3>2. QED
      BY <1>1, <1>4, <3>1 DEF More, InCall
  <2>2. QED
    BY <1>1, <1>4, <2>1 DEF ZeroedInv
<1>5. /\ calls' \in 0 .. MaxCalls
      /\ (present \subseteq Blocks)' /\ (data \in [Addr -> Byte])'
      /\ (valid \in [Blocks -> Span])' /\ (dirty \in [Blocks -> Span])'
      /\ (may \in [Addr -> SUBSET Byte])' /\ (weak \subseteq Addr)'
  BY <1>2 DEF TypeOK
<1>6. DirtyWithinValid'
  BY <1>2 DEF DirtyWithinValid, IsDirty
<1>7. ASSUME NEW b \in present, NEW a \in Addr, Within(a, valid[b]), ~Within(a, dirty[b]), a \notin weak
      PROVE  data[a] = dev'[a]
  BY <1>1, <1>3, <1>4, <1>7 DEF Coherent
<1>8. ASSUME NEW a \in Addr
      PROVE  /\ dev'[a] \in may[a] /\ pend'[a] \subseteq may[a]
             /\ \A b \in present : Within(a, valid[b]) => data[a] \in may[a]
  BY <1>1, <1>3 DEF MayInv
<1>9. IInv'
  BY <1>2, <1>3, <1>5, <1>6, <1>7, <1>8, StepLeave
<1>10. View' = View
  <2>1. call'.kind = "none" /\ \A a \in Addr : ~InRun(a)'
    BY <1>2, Geo DEF Leave, NoCall, InRun
  <2>2. ASSUME NEW a \in Addr PROVE View'[a] = View[a]
    BY <1>1, <1>2, <1>3, <1>4, <2>1 DEF View
  <2>3. QED
    BY <2>2 DEF View
<1>11. QED
  BY <1>9, <1>10

\* A failed run: its addresses, and no others, are unsettled and hold one of the bytes they may.
LEMMA StepPutRunFails ==
    ASSUME IInv, PutRunFails
    PROVE  /\ IInv'
           /\ \A a \in Addr : View'[a] = View[a] \/ (a \in weak' /\ View'[a] \in may[a])
<1> USE DEF IInv
<1>1. pc = "put" /\ call.kind # "zero"
  BY DEF PutRunFails, PcInv
<1>2. UNCHANGED <<calls, present, data, valid, dirty, may>> /\ Leave /\ weak' = weak \cup RunBytes
  BY DEF PutRunFails, entries
<1>3. PICK landed \in SUBSET RunBytes : InnerWrite(landed, run)
  BY DEF PutRunFails, InnerWriteFails
<1>4. /\ dev' \in [Addr -> Byte] /\ pend' \in [Addr -> SUBSET Byte]
      /\ \A a \in Addr : \/ dev'[a] = dev[a] /\ pend'[a] = pend[a]
                         \/ InRun(a) /\ dev'[a] = run[a] /\ pend'[a] = pend[a] \cup {run[a]}
  BY <1>3 DEF InnerWrite, RunBytes, TypeOK
<1>5. \A a \in Addr : a \in weak' <=> a \in weak \/ InRun(a)
  BY <1>2 DEF RunBytes
<1>6. /\ calls' \in 0 .. MaxCalls
      /\ (present \subseteq Blocks)' /\ (data \in [Addr -> Byte])'
      /\ (valid \in [Blocks -> Span])' /\ (dirty \in [Blocks -> Span])'
      /\ (may \in [Addr -> SUBSET Byte])' /\ (weak \subseteq Addr)'
  BY <1>2 DEF TypeOK, RunBytes
<1>7. DirtyWithinValid'
  BY <1>2 DEF DirtyWithinValid, IsDirty
<1>8. ASSUME NEW b \in present, NEW a \in Addr, Within(a, valid[b]), ~Within(a, dirty[b]), a \notin weak'
      PROVE  data[a] = dev'[a]
  BY <1>1, <1>4, <1>5, <1>8 DEF Coherent
<1>9. ASSUME NEW a \in Addr
      PROVE  /\ dev'[a] \in may[a] /\ pend'[a] \subseteq may[a]
             /\ \A b \in present : Within(a, valid[b]) => data[a] \in may[a]
  BY <1>4 DEF MayInv
<1>10. IInv'
  BY <1>2, <1>4, <1>6, <1>7, <1>8, <1>9, StepLeave
<1>11. ASSUME NEW a \in Addr
       PROVE  View'[a] = View[a] \/ (a \in weak' /\ View'[a] \in may[a])
  <2>1. call'.kind = "none" /\ ~InRun(a)'
    BY <1>2, Geo DEF Leave, NoCall, InRun
  <2>2. View'[a] \in may[a]
    BY <1>2, <1>9, <2>1 DEF View
  <2>3. CASE InRun(a)
    BY <1>5, <2>2, <2>3
  <2>4. CASE ~InRun(a)
    BY <1>1, <1>2, <1>4, <2>1, <2>4 DEF View
  <2>5. QED
    BY <2>3, <2>4
<1>12. QED
  BY <1>10, <1>11

\* inner.write_zeroes fails: only the addresses of the call are unsettled.
LEMMA StepZeroInnerFails ==
    ASSUME IInv, ZeroInnerFails
    PROVE  /\ IInv'
           /\ \A a \in Addr : View'[a] = View[a] \/ (a \in weak' /\ View'[a] \in may[a])
<1> USE DEF IInv
<1>1. call.kind = "zero" /\ pc = "zero" /\ ~More /\ \A a \in Addr : ~InRun(a)
  BY NoRun DEF ZeroInnerFails, PcInv, InBack
<1>2. UNCHANGED <<calls, present, data, valid, dirty, may>> /\ Leave /\ weak' = weak \cup CallBytes
  BY DEF ZeroInnerFails, entries
<1>3. PICK landed \in SUBSET CallBytes : InnerWrite(landed, Zeroes)
  BY DEF ZeroInnerFails, InnerWriteFails
<1>4. /\ dev' \in [Addr -> Byte] /\ pend' \in [Addr -> SUBSET Byte]
      /\ \A a \in Addr : \/ dev'[a] = dev[a] /\ pend'[a] = pend[a]
                         \/ InCall(a) /\ dev'[a] = Zero /\ pend'[a] = pend[a] \cup {Zero}
  BY <1>3, CacheAssumption DEF InnerWrite, CallBytes, Zeroes, TypeOK
<1>5. \A a \in Addr : a \in weak' <=> a \in weak \/ InCall(a)
  BY <1>2 DEF CallBytes
<1>6. /\ calls' \in 0 .. MaxCalls
      /\ (present \subseteq Blocks)' /\ (data \in [Addr -> Byte])'
      /\ (valid \in [Blocks -> Span])' /\ (dirty \in [Blocks -> Span])'
      /\ (may \in [Addr -> SUBSET Byte])' /\ (weak \subseteq Addr)'
  BY <1>2 DEF TypeOK, CallBytes
<1>7. DirtyWithinValid'
  BY <1>2 DEF DirtyWithinValid, IsDirty
<1>8. ASSUME NEW b \in present, NEW a \in Addr, Within(a, valid[b]), ~Within(a, dirty[b]), a \notin weak'
      PROVE  data[a] = dev'[a]
  BY <1>1, <1>4, <1>5, <1>8 DEF Coherent
<1>9. ASSUME NEW a \in Addr
      PROVE  /\ dev'[a] \in may[a] /\ pend'[a] \subseteq may[a]
             /\ \A b \in present : Within(a, valid[b]) => data[a] \in may[a]
  BY <1>1, <1>4 DEF MayInv
<1>10. IInv'
  BY <1>2, <1>4, <1>6, <1>7, <1>8, <1>9, StepLeave
<1>11. ASSUME NEW a \in Addr
       PROVE  View'[a] = View[a] \/ (a \in weak' /\ View'[a] \in may[a])
  <2>1. call'.kind = "none" /\ ~InRun(a)'
    BY <1>2, Geo DEF Leave, NoCall, InRun
  <2>2. View'[a] \in may[a]
    BY <1>2, <1>9, <2>1 DEF View
  <2>3. CASE InCall(a)
    BY <1>5, <2>2, <2>3
  <2>4. CASE ~InCall(a)
    BY <1>1, <1>2, <1>4, <2>1, <2>4 DEF View
  <2>5. QED
    BY <2>3, <2>4
<1>12. QED
  BY <1>10, <1>11

\* A power cut drops the cache: a reader is owed what the device may have kept.
LEMMA StepPowerCut ==
    ASSUME IInv, PowerCut
    PROVE  /\ IInv'
           /\ \A a \in Addr : View'[a] = dev'[a] /\ dev'[a] \in may[a]
<1> USE DEF IInv
<1>1. /\ Leave /\ calls' = calls /\ present' = {} /\ weak' = {}
      /\ dev' \in [Addr -> Byte] /\ \A a \in Addr : dev'[a] \in pend[a]
  BY DEF PowerCut
<1>2. /\ data' \in [Addr -> Byte]
      /\ valid' \in [Blocks -> Span] /\ dirty' \in [Blocks -> Span]
  BY CacheAssumption, Geo DEF PowerCut, Zeroes, Empty, Span
<1>3. /\ pend' \in [Addr -> SUBSET Byte] /\ may' \in [Addr -> SUBSET Byte]
      /\ \A a \in Addr : pend'[a] = {dev'[a]} /\ may'[a] = {dev'[a]}
  BY <1>1 DEF PowerCut
<1>4. calls' \in 0 .. MaxCalls
  BY <1>1 DEF TypeOK
<1>5. DirtyWithinValid'
  BY <1>1 DEF DirtyWithinValid
<1>6. IInv'
  BY <1>1, <1>2, <1>3, <1>4, <1>5, StepLeave
<1>7. ASSUME NEW a \in Addr PROVE View'[a] = dev'[a] /\ dev'[a] \in may[a]
  <2>1. call'.kind = "none" /\ ~InRun(a)'
    BY <1>1, Geo DEF Leave, NoCall, InRun
  <2>2. QED
    BY <1>1, <2>1 DEF View, MayInv
<1>8. QED
  BY <1>6, <1>7

\* A call enters: its loop starts in the block of its first byte, and nothing is behind it yet.
LEMMA StepBegin ==
    ASSUME IInv, Begin
    PROVE  /\ IInv'
           /\ \A a \in Addr :
                 View'[a] = IF call'.kind = "zero" /\ call'.lo <= a /\ a < call'.hi THEN Zero ELSE View[a]
<1> USE DEF IInv
<1>1. PICK c \in Calls : BeginRead(c) \/ BeginWrite(c) \/ BeginZero(c) \/ BeginFlush(c)
  BY DEF Begin
<1>2. /\ pc = "idle" /\ call' = c /\ blk' = c.lo \div BlockSize
      /\ calls < MaxCalls /\ calls' = calls + 1
      /\ UNCHANGED <<present, data, valid, dirty, ins, miss, buf, run, runLo, runHi, dev, pend>>
  BY <1>1 DEF BeginRead, BeginWrite, BeginZero, BeginFlush, Enter, entries, inner
<1>3. /\ runLo = runHi /\ todo = {} /\ \A a \in Addr : ~InRun(a) /\ ~InRun(a)'
  BY <1>2, NoRun DEF InBack, InRun
<1>4. /\ c.kind \in {"read", "write", "zero", "flush"} /\ c.lo \in 0 .. DevSize /\ c.hi \in 0 .. DevSize
      /\ c.kind # "flush" => c.lo < c.hi
  BY DEF Calls
<1>5. /\ blk' \in 0 .. DevSize /\ Start(blk') <= c.lo /\ c.lo < Start(blk' + 1)
      /\ Start(blk') \in Nat
  <2>1. c.lo \in Nat /\ c.lo <= DevSize
    BY <1>4, Geo
  <2>2. /\ blk' \in Nat /\ blk' * BlockSize <= c.lo /\ c.lo < (blk' + 1) * BlockSize /\ blk' <= c.lo
    BY <1>2, <2>1, Division, CacheAssumption
  <2>3. Start(blk') \in Nat
    BY <2>2, Geo
  <2>4. blk' \in 0 .. DevSize
    BY <2>1, <2>2, Geo
  <2>5. QED
    BY <2>2, <2>3, <2>4 DEF Start
<1>6. /\ c.kind \in {"read", "write", "zero"} =>
            pc' = c.kind /\ UNCHANGED <<todo, remove, ret>>
      /\ c.kind = "flush" =>
            pc' = "back" /\ ret' = "sync" /\ remove' = FALSE /\ todo' = {b \in present : IsDirty(b)}
      /\ c.kind # "zero" => UNCHANGED <<may, weak>>
  BY <1>1 DEF BeginRead, BeginWrite, BeginZero, BeginFlush, history
<1>7. c.kind = "zero" =>
        /\ may' \in [Addr -> SUBSET Byte] /\ weak' \subseteq Addr
        /\ weak' = {a \in weak : ~Within(a, c)}
        /\ \A a \in Addr : may'[a] = IF Within(a, c) THEN may[a] \cup {Zero} ELSE may[a]
  BY <1>1, CacheAssumption DEF BeginRead, BeginWrite, BeginZero, BeginFlush, TypeOK
<1>8. TypeOK'
  <2>1. may' \in [Addr -> SUBSET Byte] /\ weak' \subseteq Addr
    BY <1>6, <1>7 DEF TypeOK
  <2>2. calls' \in 0 .. MaxCalls
    BY <1>2, CacheAssumption DEF TypeOK
  <2>3. remove' \in BOOLEAN
    BY <1>4, <1>6, Zenon DEF TypeOK
  <2>4. todo' \subseteq present'
    BY <1>2, <1>3, <1>4, <1>6
  <2>5. QED
    BY <1>2, <1>4, <1>5, <1>6, <2>1, <2>2, <2>3, <2>4 DEF TypeOK
<1>9. PcInv'
  BY <1>2, <1>3, <1>4, <1>6 DEF PcInv, InBack
<1>10. RunIsWritten' /\ RunData' /\ DirtyWithinValid'
  BY <1>2, <1>3 DEF RunIsWritten, RunData, DirtyWithinValid, IsDirty
<1>11. call.kind = "none"
  BY <1>2 DEF PcInv, NoCall
<1>12. Coherent'
  <2> SUFFICES ASSUME NEW b \in present, NEW a \in Addr, Within(a, valid[b]), ~Within(a, dirty[b]),
                      a \notin weak', ~(c.kind = "zero" /\ Within(a, c))
               PROVE  data[a] = dev[a]
    BY <1>2 DEF Coherent, InCall, Within
  <2>1. a \notin weak
    BY <1>6, <1>7
  <2>2. QED
    BY <1>3, <1>11, <2>1 DEF Coherent
<1>13. \A a \in Addr : ~((InCall(a))' /\ a < Start(blk'))
  BY <1>2, <1>4, <1>5, Geo DEF InCall
<1>14. LoopInv' /\ MissInv' /\ ServedInv' /\ StoredInv' /\ ZeroedInv'
  BY <1>2, <1>4, <1>5, <1>6, <1>13 DEF LoopInv, MissInv, InBack, ServedInv, StoredInv, ZeroedInv
<1>15. FlushInv'
  BY <1>2, <1>4, <1>6 DEF FlushInv, InBack, IsDirty
<1>16. MayInv'
  <2> SUFFICES ASSUME NEW a \in Addr
               PROVE  /\ may[a] \subseteq may'[a]
                      /\ c.kind = "zero" /\ Within(a, c) => Zero \in may'[a]
    BY <1>2, <1>3 DEF MayInv, InCall, Within
  <2>1. QED
    BY <1>6, <1>7
<1>17. ASSUME NEW a \in Addr
       PROVE  View'[a] = IF call'.kind = "zero" /\ call'.lo <= a /\ a < call'.hi THEN Zero ELSE View[a]
  BY <1>2, <1>3, <1>11 DEF View, InCall
<1>18. QED
  BY <1>8, <1>9, <1>10, <1>12, <1>14, <1>15, <1>16, <1>17

-------------------------------------------------------------------------------
(* The invariant *)

\* The cache starts empty over the device: the inductive invariant holds.
LEMMA Initially == Init => IInv
<1> SUFFICES ASSUME Init PROVE IInv
  OBVIOUS
<1>1. /\ present = {} /\ todo = {} /\ call = NoCall /\ pc = "idle" /\ runLo = 0 /\ runHi = 0
      /\ \A a \in Addr : ~InRun(a)
  BY Geo DEF Init, NoEntries, InRun
<1>2. /\ data \in [Addr -> Byte] /\ miss \in [Addr -> Byte] /\ run \in [Addr -> Byte]
      /\ buf \in [Addr -> Byte \cup {NoByte}]
  BY CacheAssumption DEF Init, NoEntries, Zeroes, NoBytes
<1>3. valid \in [Blocks -> Span] /\ dirty \in [Blocks -> Span]
  BY Geo DEF Init, NoEntries, Empty, Span
<1>4. dev \in [Addr -> Byte]
  BY CacheAssumption DEF Init, Addr
<1>5. /\ pend \in [Addr -> SUBSET Byte] /\ may \in [Addr -> SUBSET Byte] /\ weak = {}
      /\ \A a \in Addr : pend[a] = {dev[a]} /\ may[a] = {dev[a]}
  BY <1>4 DEF Init
<1>6. TypeOK
  <2>1. remove \in BOOLEAN
    BY Zenon DEF Init
  <2>2. QED
    BY <1>1, <1>2, <1>3, <1>4, <1>5, <2>1, Geo, CacheAssumption DEF Init, TypeOK
<1>7. PcInv /\ DirtyWithinValid /\ RunIsWritten /\ RunData /\ Coherent
  BY <1>1 DEF PcInv, InBack, DirtyWithinValid, RunIsWritten, RunData, Coherent, NoCall
<1>8. LoopInv /\ MissInv /\ ServedInv /\ StoredInv /\ ZeroedInv /\ FlushInv
  BY <1>1 DEF LoopInv, MissInv, ServedInv, StoredInv, ZeroedInv, FlushInv, InBack, NoCall
<1>9. MayInv
  BY <1>1, <1>5 DEF MayInv, NoCall
<1>10. QED
  BY <1>6, <1>7, <1>8, <1>9 DEF IInv

\* Every step of CachedDevice keeps the inductive invariant.
LEMMA Inductive == IInv /\ [Next]_vars => IInv'
<1> SUFFICES ASSUME IInv, [Next]_vars PROVE IInv'
  OBVIOUS
<1>1. CASE Begin
  BY <1>1, StepBegin
<1>2. CASE ReadHit
  BY <1>2, StepReadHit
<1>3. CASE ReadFill
  BY <1>3, StepReadFill
<1>4. CASE ReadMiss
  BY <1>4, StepReadMiss
<1>5. CASE Insert
  BY <1>5, StepInsert
<1>6. CASE InsertDone
  BY <1>6, StepInsertDone
<1>7. CASE ReadDone \/ WriteDone \/ InnerFails
  BY <1>7, StepDoneOrFailedEarly
<1>8. CASE Evict
  BY <1>8, StepEvict
<1>9. CASE WriteInsert
  BY <1>9, StepWriteInsert
<1>10. CASE WriteBlock
  BY <1>10, StepWriteBlock
<1>11. CASE \E b \in Blocks : Gather(b) \/ DropClean(b)
  BY <1>11, StepGather, StepDropClean
<1>12. CASE PutRun
  BY <1>12, StepPutRun
<1>13. CASE BackDone
  BY <1>13, StepBackDone
<1>14. CASE Sync
  BY <1>14, StepSync
<1>15. CASE ZeroBlock
  BY <1>15, StepZeroBlock
<1>16. CASE ZeroInner
  BY <1>16, StepZeroInner
<1>17. CASE PutRunFails
  BY <1>17, StepPutRunFails
<1>18. CASE ZeroInnerFails
  BY <1>18, StepZeroInnerFails
<1>19. CASE PowerCut
  BY <1>19, StepPowerCut
<1>20. CASE UNCHANGED vars
  BY <1>20 DEF vars, entries, loop, back, inner, history, IInv, TypeOK, PcInv, DirtyWithinValid,
               RunIsWritten, RunData, Coherent, LoopInv, MissInv, ServedInv, StoredInv, ZeroedInv,
               FlushInv, MayInv, InBack, InRun, InCall, IsDirty, Lowest, View
<1>21. QED
  BY <1>1, <1>2, <1>3, <1>4, <1>5, <1>6, <1>7, <1>8, <1>9, <1>10, <1>11, <1>12, <1>13, <1>14,
     <1>15, <1>16, <1>17, <1>18, <1>19, <1>20 DEF Next, Step

\* Every reachable state of CachedDevice satisfies the inductive invariant.
THEOREM Invariance == Spec => []IInv
<1>1. Init => IInv
  BY Initially
<1>2. IInv /\ [Next]_vars => IInv'
  BY Inductive
<1>3. QED
  BY <1>1, <1>2, PTL DEF Spec

\* CachedDevice's state keeps its types.
THEOREM TypeCorrect == Spec => []TypeOK
<1>1. IInv => TypeOK
  BY DEF IInv
<1>2. QED
  BY <1>1, Invariance, PTL

\* Entry: one valid range inside the block, dirty within it.
THEOREM EntryShape == Spec => []DirtyWithinValid
<1>1. IInv => DirtyWithinValid
  BY DEF IInv
<1>2. QED
  BY <1>1, Invariance, PTL

\* write_back: the next block always continues the run that is being gathered, so none is left behind.
THEOREM RunsAreWritten == Spec => []RunIsWritten
<1>1. IInv => RunIsWritten
  BY DEF IInv
<1>2. QED
  BY <1>1, Invariance, PTL

\* Between calls only addresses whose write-back or zeroing failed may differ from the device without
\* being dirty.
THEOREM NoSilentDivergence == Spec => []DivergenceIsReported
<1>1. IInv => DivergenceIsReported
  <2> SUFFICES ASSUME IInv, pc = "idle", NEW b \in present, NEW a \in Addr,
                      Within(a, valid[b]), ~Within(a, dirty[b]), a \notin weak
               PROVE  data[a] = dev[a]
    BY DEF DivergenceIsReported
  <2>1. ~InRun(a) /\ call.kind # "zero"
    BY NoRun DEF IInv, PcInv, InBack
  <2>2. QED
    BY <2>1 DEF IInv, Coherent
<1>2. QED
  BY <1>1, Invariance, PTL

\* Outside the addresses errors were reported for, a flush that has written everything back leaves the
\* device with what a reader would be served.
LEMMA FlushReaches ==
    ASSUME IInv, pc = "sync", NEW a \in Addr, a \notin weak
    PROVE  View[a] = dev[a]
<1>1. call.kind = "flush" /\ ~InRun(a)
  BY NoRun DEF IInv, PcInv, InBack
<1>2. ASSUME NEW b \in present, Within(a, valid[b])
      PROVE  data[a] = dev[a]
  <2>1. ~Within(a, dirty[b])
    BY Geo DEF IInv, FlushInv, IsDirty, Within, TypeOK, Span
  <2>2. QED
    BY <1>1, <1>2, <2>1 DEF IInv, Coherent
<1>3. QED
  BY <1>1, <1>2 DEF View

\* An inner device that never fails leaves no address unsettled: only PutRunFails and ZeroInnerFails
\* report one.
THEOREM NothingUnsettled ==
    ASSUME ~Faulty
    PROVE  Spec => [](weak = {})
<1>1. Init => weak = {}
  BY DEF Init
<1>2. weak = {} /\ [Next]_vars => (weak = {})'
  <2> SUFFICES ASSUME weak = {}, [Next]_vars PROVE weak' = {}
    OBVIOUS
  <2>1. CASE Step
    BY <2>1 DEF Step, ReadHit, ReadFill, ReadMiss, Insert, InsertDone, ReadDone, Evict, WriteInsert,
       WriteBlock, WriteDone, Gather, DropClean, PutRun, BackDone, Sync, ZeroBlock, ZeroInner,
       InnerFails, PutRunFails, ZeroInnerFails, history
  <2>2. CASE Begin
    BY <2>2 DEF Begin, BeginRead, BeginWrite, BeginZero, BeginFlush, Enter, history
  <2>3. CASE PowerCut \/ UNCHANGED vars
    BY <2>3 DEF PowerCut, vars, history
  <2>4. QED
    BY <2>1, <2>2, <2>3 DEF Next
<1>3. QED
  BY <1>1, <1>2, PTL DEF Spec

\* Entry's "dirty is the subrange the device does not have yet": over a device that never fails, a
\* valid byte outside dirty is the device's, between any two calls.
THEOREM CleanBytesAreTheDevices ==
    ASSUME ~Faulty
    PROVE  Spec => []DeviceHasCleanBytes
<1>1. DivergenceIsReported /\ weak = {} => DeviceHasCleanBytes
  BY DEF DivergenceIsReported, DeviceHasCleanBytes
<1>2. QED
  BY <1>1, NoSilentDivergence, NothingUnsettled, PTL

\* flush, over a device that never fails: when it reaches inner.flush() the device has every byte a
\* reader would be served.
THEOREM FlushIsComplete ==
    ASSUME ~Faulty
    PROVE  Spec => []FlushDelivers
<1>1. IInv /\ weak = {} => FlushDelivers
  <2> SUFFICES ASSUME IInv, weak = {}, pc = "sync" PROVE dev = View
    BY DEF FlushDelivers
  <2>1. \A a \in Addr : View[a] = dev[a]
    BY FlushReaches
  <2>2. dev \in [Addr -> Byte]
    BY DEF IInv, TypeOK
  <2>3. QED
    BY <2>1, <2>2 DEF View
<1>2. QED
  BY <1>1, Invariance, NothingUnsettled, PTL

-------------------------------------------------------------------------------
(* Refinement: every step of CachedDevice is a step of BlockStore, or none, seen through View. *)

\* BlockStore's address set, buffers and calls are this module's.
LEMMA SameWords ==
    /\ Store!Addr = Addr /\ Store!NoCall = NoCall /\ Store!NoBytes = NoBytes
    /\ \A c \in Calls : c \in Store!Calls
    /\ \A a : Store!InCall(a) <=> InCall(a)
  BY DEF Store!Addr, Addr, Store!NoCall, NoCall, Store!NoBytes, NoBytes, Store!Calls, Calls,
         Store!InCall, InCall

\* A fresh cache over the device is an initial state of BlockStore.
LEMMA RefineInit == Init => Store!Init
<1> SUFFICES ASSUME Init PROVE Store!Init
  OBVIOUS
<1>1. View = dev
  <2>1. present = {} /\ call.kind = "none" /\ (\A a \in Addr : ~InRun(a)) /\ dev \in [Addr -> Byte]
    BY Geo, CacheAssumption DEF Init, NoEntries, InRun, NoCall, Addr
  <2>2. QED
    BY <2>1 DEF View
<1>2. dev \in [Addr -> Byte]
  BY CacheAssumption DEF Init, Addr
<1>3. QED
  BY <1>1, <1>2, SameWords DEF Init, Store!Init

\* A step that only moves unsettled bytes.
LEMMA RefineMove ==
    ASSUME IInv, IInv', UNCHANGED <<call, may, weak, buf>>,
           \A a \in Addr : View'[a] = View[a] \/ (a \in weak /\ View'[a] \in may[a])
    PROVE  Store!Settle
<1>1. View' \in [Addr -> Byte]
  BY CacheAssumption DEF IInv, TypeOK, View
<1>2. QED
  BY <1>1, SameWords DEF Store!Settle, Store!Moves

\* Entering a call is BlockStore's Begin.
LEMMA RefineBegin == ASSUME IInv, Begin PROVE Store!Begin
<1>1. PICK c \in Calls : BeginRead(c) \/ BeginWrite(c) \/ BeginZero(c) \/ BeginFlush(c)
  BY DEF Begin
<1>2. /\ call = NoCall /\ call' = c /\ UNCHANGED buf
  BY <1>1 DEF BeginRead, BeginWrite, BeginZero, BeginFlush, Enter, IInv, PcInv
<1>3. View' = [a \in Addr |-> IF call'.kind = "zero" /\ call'.lo <= a /\ a < call'.hi
                             THEN Zero ELSE View[a]]
  BY StepBegin DEF View
<1>4. /\ may' = [a \in Addr |-> IF call'.kind = "zero" /\ call'.lo <= a /\ a < call'.hi
                                THEN may[a] \cup {Zero} ELSE may[a]]
      /\ weak' = {a \in weak : ~(call'.kind = "zero" /\ call'.lo <= a /\ a < call'.hi)}
  <2>1. CASE c.kind = "zero"
    BY <1>1, <1>2, <2>1 DEF BeginRead, BeginWrite, BeginZero, BeginFlush, Within
  <2>2. CASE c.kind # "zero"
    BY <1>1, <1>2, <2>2 DEF BeginRead, BeginWrite, BeginZero, BeginFlush, history, IInv, TypeOK
  <2>3. QED
    BY <2>1, <2>2
<1>5. QED
  BY <1>2, <1>3, <1>4, SameWords DEF Store!Begin

\* The three ways a read fills its buffer take current bytes of its range.
LEMMA RefineServe ==
    ASSUME IInv, ReadHit \/ ReadFill \/ ReadMiss
    PROVE  Store!Serve
<1> USE DEF IInv
<1>1. /\ call.kind = "read" /\ pc = "read" /\ blk \in Blocks /\ \A a \in Addr : ~InRun(a)
      /\ \A a \in Addr : InPart(a, blk) => InCall(a) /\ InBlock(a, blk)
  <2>1. call.kind = "read" /\ pc = "read" /\ More
    BY DEF ReadHit, ReadFill, ReadMiss, PcInv
  <2>2. QED
    BY <2>1, NoRun, Part DEF InBack
<1>2. IInv'
  BY StepReadHit, StepReadFill, StepReadMiss
<1>3. UNCHANGED <<call, present, may, weak, run, runLo, runHi, dev>>
  BY DEF ReadHit, ReadFill, ReadMiss, entries, back, inner, history
<1>4. \A a \in Addr : ~InRun(a)'
  BY <1>1, <1>3 DEF InRun
<1>5. CASE ReadHit
  <2>1. View' = View
    BY <1>1, <1>3, <1>4, <1>5 DEF ReadHit, View
  <2>2. ASSUME NEW a \in Addr, InPart(a, blk) PROVE View[a] = data[a]
    <3>1. blk \in present /\ Within(a, valid[blk])
      <4>1. /\ valid[blk].lo \in Nat /\ valid[blk].hi \in Nat /\ CallLo(blk) \in Nat /\ CallHi(blk) \in Nat
        BY <1>1, <1>5, Part, Geo DEF ReadHit, TypeOK, Span
      <4>2. QED
        BY <1>5, <2>2, <4>1, Geo DEF ReadHit, Covered, InPart, Within
    <3>2. QED
      BY <1>1, <3>1 DEF View
  <2>3. QED
    BY <1>1, <1>2, <1>3, <1>5, <2>1, <2>2, SameWords DEF Store!Serve, ReadHit, TypeOK
<1>6. CASE ReadFill
  <2>1. /\ blk \in present
        /\ Start(blk) \in 0 .. DevSize /\ End(blk) \in 0 .. DevSize
    BY <1>1, <1>6, Geo DEF ReadFill
  <2>2. /\ valid'[blk].lo = Start(blk) /\ valid'[blk].hi = End(blk)
        /\ \A c \in Blocks : c # blk => valid'[c] = valid[c]
    BY <1>1, <1>6, <2>1, SetRange DEF ReadFill, TypeOK
  <2>3. ASSUME NEW a \in Addr PROVE View'[a] = View[a] /\ (InPart(a, blk) => Filled(blk)[a] = View[a])
    <3>1. CASE InBlock(a, blk) /\ ~Within(a, valid[blk])
      <4>1. ~\E b \in present : Within(a, valid[b])
        BY <1>1, <3>1, ValidInBlock
      <4>2. Within(a, valid'[blk])
        BY <2>2, <3>1 DEF Within, InBlock
      <4>3. QED
        BY <1>1, <1>3, <1>4, <1>6, <2>1, <3>1, <4>1, <4>2 DEF View, ReadFill, Filled
    <3>2. CASE ~InBlock(a, blk)
      <4>1. ~Within(a, valid'[blk]) /\ ~Within(a, valid[blk]) /\ ~InPart(a, blk)
        BY <1>1, <2>1, <2>2, <3>2, ValidInBlock DEF Within, InBlock
      <4>2. \A b \in present : Within(a, valid'[b]) <=> Within(a, valid[b])
        BY <2>2, <4>1 DEF TypeOK
      <4>3. QED
        BY <1>1, <1>3, <1>4, <1>6, <3>2, <4>1, <4>2 DEF View, ReadFill, Filled
    <3>3. CASE InBlock(a, blk) /\ Within(a, valid[blk])
      <4>1. Within(a, valid'[blk])
        BY <2>2, <3>3 DEF Within, InBlock
      <4>2. QED
        BY <1>1, <1>3, <1>4, <1>6, <2>1, <3>3, <4>1 DEF View, ReadFill, Filled
    <3>4. QED
      BY <3>1, <3>2, <3>3
  <2>4. View' = View
    BY <2>3 DEF View
  <2>5. QED
    BY <1>1, <1>2, <1>3, <1>6, <2>3, <2>4, SameWords DEF Store!Serve, ReadFill, TypeOK
<1>7. CASE ReadMiss
  <2>1. UNCHANGED <<data, valid>>
    BY <1>7 DEF ReadMiss, entries
  <2>2. View' = View
    BY <1>1, <1>3, <1>4, <2>1 DEF View
  <2>3. PICK next \in blk + 1 .. DevSize :
          /\ InMiss(next - 1)
          /\ buf' = [a \in Addr |-> IF (Start(blk) <= a /\ a < End(next - 1)) /\ InCall(a)
                                    THEN dev[a] ELSE buf[a]]
    BY <1>7 DEF ReadMiss
  <2>4. next \in Nat /\ blk \in Nat /\ blk < next /\ next - 1 \in Blocks
    <3>1. next \in Nat /\ blk \in Nat /\ blk < next
      BY <1>1, Geo
    <3>2. call.hi \in Nat /\ call.hi <= DevSize
      BY <1>1, Geo DEF TypeOK, Calls, NoCall
    <3>3. QED
      BY <2>3, <3>1, <3>2, Geo DEF InMiss
  <2>5. ASSUME NEW a \in Addr, Start(blk) <= a, a < End(next - 1) PROVE View[a] = dev[a]
    <3>1. ~\E b \in present : Within(a, valid[b])
      <4>1. SUFFICES ASSUME NEW b \in present, Within(a, valid[b]) PROVE FALSE
        OBVIOUS
      <4>2. b \in Blocks /\ InBlock(a, b)
        BY <4>1, ValidInBlock
      <4>3. ~(b < blk) /\ ~(next - 1 < b)
        BY <1>1, <2>4, <2>5, <4>2, Geo DEF InBlock
      <4>4. b \in blk .. next - 1
        BY <2>4, <4>2, <4>3, Geo
      <4>5. QED
        BY <2>3, <4>1, <4>4 DEF InMiss
    <3>2. QED
      BY <1>1, <3>1 DEF View
  <2>6. QED
    BY <1>1, <1>2, <1>3, <2>2, <2>3, <2>5, SameWords DEF Store!Serve, TypeOK
<1>8. QED
  BY <1>5, <1>6, <1>7

\* A block of write_at is BlockStore's Store.
LEMMA RefineStore == ASSUME IInv, WriteBlock PROVE Store!Store
<1> USE DEF IInv
<1>1. call.kind = "write" /\ \A a \in Addr : InPart(a, blk) => InCall(a)
  BY Part DEF WriteBlock, PcInv
<1>2. IInv' /\ \A a \in Addr : View'[a] = IF InPart(a, blk) THEN call.val ELSE View[a]
  BY StepWriteBlock
<1>3. View' \in [Addr -> Byte]
  BY <1>2, CacheAssumption DEF TypeOK, View
<1>4. /\ may' = [a \in Addr |-> IF InPart(a, blk) THEN may[a] \cup {call.val} ELSE may[a]]
      /\ weak' = {a \in weak : ~InPart(a, blk)}
      /\ UNCHANGED <<call, buf>>
  BY DEF WriteBlock
<1>5. may' \in [Addr -> SUBSET Byte] /\ weak' \subseteq Addr
  BY <1>2 DEF TypeOK
<1>6. QED
  BY <1>1, <1>2, <1>3, <1>4, <1>5, SameWords DEF Store!Store, TypeOK

\* Cache-internal steps (fills, evictions, write back) are invisible in BlockStore.
LEMMA RefineStutter ==
    ASSUME IInv,
           Insert \/ InsertDone \/ Evict \/ WriteInsert \/ PutRun \/ BackDone \/ ZeroBlock
    PROVE  UNCHANGED Store!vars
<1> USE DEF IInv
<1>1. UNCHANGED <<call, may, weak, buf>>
  BY DEF Insert, InsertDone, Evict, WriteInsert, PutRun, BackDone, ZeroBlock, loop, history
<1>2. View' = View
  <2>1. CASE Insert
    <3>1. call.kind = "read" /\ (\A a \in Addr : ~InRun(a)) /\ ins \in Blocks /\ ins \notin present
          /\ \A a \in Addr : InBlock(a, ins) => miss[a] = dev[a]
      BY <2>1, NoRun DEF Insert, PcInv, InBack, MissInv, TypeOK
    <3>2. Start(ins) \in 0 .. DevSize /\ End(ins) \in 0 .. DevSize
      BY <3>1, Geo
    <3>3. /\ valid'[ins].lo = Start(ins) /\ valid'[ins].hi = End(ins)
          /\ \A c \in Blocks : c # ins => valid'[c] = valid[c]
      BY <2>1, <3>1, <3>2, SetRange DEF Insert, TypeOK
    <3>4. UNCHANGED <<run, runLo, runHi, dev>> /\ present' = present \cup {ins}
      BY <2>1 DEF Insert, back, inner
    <3>5. \A a \in Addr : ~InRun(a)'
      BY <3>1, <3>4 DEF InRun
    <3>6. ASSUME NEW a \in Addr PROVE View'[a] = View[a]
      <4>1. CASE InBlock(a, ins)
        <5>1. ~\E b \in present : Within(a, valid[b])
          BY <3>1, <4>1, ValidInBlock
        <5>2. Within(a, valid'[ins])
          BY <3>3, <4>1 DEF Within, InBlock
        <5>3. QED
          BY <1>1, <2>1, <3>1, <3>4, <3>5, <4>1, <5>1, <5>2 DEF View, Insert
      <4>2. CASE ~InBlock(a, ins)
        <5>1. ~Within(a, valid'[ins])
          BY <3>3, <4>2 DEF Within, InBlock
        <5>2. (\E b \in present' : Within(a, valid'[b])) <=> (\E b \in present : Within(a, valid[b]))
          BY <3>1, <3>3, <3>4, <5>1 DEF TypeOK
        <5>3. QED
          BY <1>1, <2>1, <3>1, <3>4, <3>5, <4>2, <5>2 DEF View, Insert
      <4>3. QED
        BY <4>1, <4>2
    <3>7. QED
      BY <3>6 DEF View
  <2>2. CASE InsertDone \/ Evict
    BY <2>2 DEF InsertDone, Evict, View, entries, back, inner, InRun, InCall
  <2>3. CASE WriteInsert \/ PutRun \/ BackDone \/ ZeroBlock
    BY <2>3, StepWriteInsert, StepPutRun, StepBackDone, StepZeroBlock
  <2>4. QED
    BY <2>1, <2>2, <2>3
<1>3. QED
  BY <1>1, <1>2 DEF Store!vars

\* A block that write back gathers or drops moves, at most, bytes that are unsettled: BlockStore's Settle.
LEMMA RefineSettle ==
    ASSUME IInv, NEW b \in Blocks, Gather(b) \/ DropClean(b)
    PROVE  Store!Settle
<1>1. /\ IInv'
      /\ \A a \in Addr : View'[a] = View[a] \/ (a \in weak /\ View'[a] = dev[a])
  BY StepGather, StepDropClean
<1>2. UNCHANGED <<call, may, weak, buf>>
  BY DEF Gather, DropClean, history
<1>3. \A a \in Addr : dev[a] \in may[a]
  BY DEF IInv, MayInv
<1>4. QED
  BY <1>1, <1>2, <1>3, RefineMove

\* A call that succeeds returns in BlockStore.
LEMMA RefineReturnOk ==
    ASSUME IInv, ReadDone \/ WriteDone \/ Sync \/ ZeroInner
    PROVE  Store!ReturnOk
<1> USE DEF IInv
<1>1. Leave /\ call' = NoCall /\ buf' = NoBytes /\ call # NoCall
  BY DEF ReadDone, WriteDone, Sync, ZeroInner, Leave, PcInv, NoCall
<1>2. weak' = weak
  BY DEF ReadDone, WriteDone, Sync, ZeroInner, history
<1>3. may' = [a \in Addr |-> IF call.kind = "flush" /\ a \notin weak THEN {View[a]} ELSE may[a]]
  <2>1. CASE Sync
    BY <2>1 DEF Sync, PcInv
  <2>2. CASE ReadDone \/ WriteDone \/ ZeroInner
    BY <2>2 DEF ReadDone, WriteDone, ZeroInner, history, PcInv, TypeOK
  <2>3. QED
    BY <2>1, <2>2
<1>4. View' = View
  <2>1. CASE Sync \/ ZeroInner
    BY <2>1, StepSync, StepZeroInner
  <2>2. CASE ReadDone \/ WriteDone
    <3>1. UNCHANGED <<present, data, valid, dev>> /\ call.kind # "zero" /\ \A a \in Addr : ~InRun(a)
      BY <2>2, NoRun DEF ReadDone, WriteDone, entries, inner, PcInv, InBack
    <3>2. call'.kind = "none" /\ \A a \in Addr : ~InRun(a)'
      BY <1>1, Geo DEF Leave, NoCall, InRun
    <3>3. QED
      BY <3>1, <3>2 DEF View
  <2>3. QED
    BY <2>1, <2>2
<1>5. \A a \in Addr : InCall(a) /\ call.kind \in {"read", "write"} => a < Start(blk)
  <2>1. SUFFICES ASSUME call.kind \in {"read", "write"}, NEW a \in Addr, InCall(a)
                 PROVE  a < Start(blk)
    OBVIOUS
  <2>2. ~More
    BY <2>1 DEF ReadDone, WriteDone, Sync, ZeroInner, PcInv
  <2>3. call.hi \in Nat /\ Start(blk) \in Nat /\ a \in Nat
    BY <2>1, Geo DEF TypeOK, Calls, NoCall
  <2>4. QED
    BY <2>1, <2>2, <2>3 DEF More, InCall
<1>6. call.kind = "read" => \A a \in Addr : InCall(a) => buf[a] # NoByte
  BY <1>5 DEF ServedInv
<1>7. call.kind = "write" => \A a \in Addr : InCall(a) => View[a] = call.val /\ a \notin weak
  BY <1>5 DEF StoredInv
<1>8. QED
  BY <1>1, <1>2, <1>3, <1>4, <1>6, <1>7, SameWords DEF Store!ReturnOk

\* A call that fails returns an error in BlockStore.
LEMMA RefineReturnErr ==
    ASSUME IInv, InnerFails \/ PutRunFails \/ ZeroInnerFails
    PROVE  Store!ReturnErr
<1> USE DEF IInv
<1>1. Faulty /\ Leave /\ call' = NoCall /\ buf' = NoBytes /\ may' = may
  BY DEF InnerFails, PutRunFails, ZeroInnerFails, Leave, history
<1>2. IInv'
  BY StepDoneOrFailedEarly, StepPutRunFails, StepZeroInnerFails
<1>3. View' \in [Addr -> Byte] /\ weak' \subseteq Addr
  BY <1>2, CacheAssumption DEF TypeOK, View
<1>4. call # NoCall
  BY Geo DEF InnerFails, PutRunFails, ZeroInnerFails, PcInv, NoCall, InBack
<1>5. weak \subseteq weak'
  BY DEF InnerFails, PutRunFails, ZeroInnerFails, history
<1>6. \A a \in Addr : View'[a] = View[a] \/ (a \in weak' /\ View'[a] \in may[a])
  <2>1. CASE InnerFails
    <3>1. UNCHANGED <<present, data, valid, dev>> /\ call.kind # "zero" /\ \A a \in Addr : ~InRun(a)
      BY <2>1, NoRun DEF InnerFails, entries, inner, PcInv, InBack
    <3>2. call'.kind = "none" /\ \A a \in Addr : ~InRun(a)'
      BY <1>1, Geo DEF Leave, NoCall, InRun
    <3>3. QED
      BY <3>1, <3>2 DEF View
  <2>2. CASE PutRunFails \/ ZeroInnerFails
    BY <2>2, StepPutRunFails, StepZeroInnerFails
  <2>3. QED
    BY <2>1, <2>2
<1>7. QED
  BY <1>1, <1>3, <1>4, <1>5, <1>6, SameWords DEF Store!ReturnErr, Store!Moves

\* A power cut is a power cut of BlockStore.
LEMMA RefinePowerCut == ASSUME IInv, PowerCut PROVE Store!PowerCut
<1>1. /\ weak' = {} /\ call' = NoCall /\ buf' = NoBytes /\ dev' \in [Addr -> Byte]
      /\ may' = [a \in Addr |-> {dev'[a]}]
  BY DEF PowerCut, Leave
<1>2. \A a \in Addr : View'[a] = dev'[a] /\ dev'[a] \in may[a]
  BY StepPowerCut
<1>3. View' = dev'
  BY <1>1, <1>2 DEF View
<1>4. QED
  BY <1>1, <1>2, <1>3, SameWords DEF Store!PowerCut

\* Every step of CachedDevice is a step of BlockStore or a stutter.
LEMMA RefineStep == IInv /\ [Next]_vars => [Store!Next]_(Store!vars)
<1> SUFFICES ASSUME IInv, [Next]_vars PROVE [Store!Next]_(Store!vars)
  OBVIOUS
<1>1. CASE Begin
  BY <1>1, RefineBegin DEF Store!Next
<1>2. CASE ReadHit \/ ReadFill \/ ReadMiss
  BY <1>2, RefineServe DEF Store!Next
<1>3. CASE WriteBlock
  BY <1>3, RefineStore DEF Store!Next
<1>4. CASE Insert \/ InsertDone \/ Evict \/ WriteInsert \/ PutRun \/ BackDone \/ ZeroBlock
  BY <1>4, RefineStutter
<1>5. CASE \E b \in Blocks : Gather(b) \/ DropClean(b)
  BY <1>5, RefineSettle DEF Store!Next
<1>6. CASE ReadDone \/ WriteDone \/ Sync \/ ZeroInner
  BY <1>6, RefineReturnOk DEF Store!Next
<1>7. CASE InnerFails \/ PutRunFails \/ ZeroInnerFails
  BY <1>7, RefineReturnErr DEF Store!Next
<1>8. CASE PowerCut
  BY <1>8, RefinePowerCut DEF Store!Next
<1>9. CASE UNCHANGED vars
  BY <1>9 DEF vars, entries, loop, back, inner, history, Store!vars, View, InRun, InCall
<1>10. QED
  BY <1>1, <1>2, <1>3, <1>4, <1>5, <1>6, <1>7, <1>8, <1>9 DEF Next, Step

\* CachedDevice implements BlockStore, whatever its geometry, whatever fails: reads return the last
\* bytes written, a successful flush pins every settled byte, an error unsettles only bytes it covers.
THEOREM CacheImplementsStore == Spec => ImplementsStore
<1>1. Init => Store!Init
  BY RefineInit
<1>2. IInv /\ [Next]_vars => [Store!Next]_(Store!vars)
  BY RefineStep
<1>3. QED
  BY <1>1, <1>2, Invariance, PTL DEF Spec, ImplementsStore, Store!Spec

-------------------------------------------------------------------------------
(* The bound on the map *)

\* The device has finitely many blocks, so the cache's map is finite.
LEMMA BlocksFinite == IsFiniteSet(Blocks)
<1>1. IsFiniteSet(0 .. DevSize - 1)
  BY FS_Interval, CacheAssumption
<1>2. Blocks \subseteq 0 .. DevSize - 1
  BY DEF Blocks
<1>3. QED
  BY <1>1, <1>2, FS_Subset

Capacity == Cardinality(present) <= MaxBlocks

\* Both loops call make_room first, so the map never holds more than max_blocks entries.
THEOREM MapIsBounded == Spec => []Capacity
<1>1. Init => Capacity
  BY FS_EmptySet, CacheAssumption DEF Init, NoEntries, Capacity
<1>2. IInv /\ IInv' /\ Capacity /\ [Next]_vars => Capacity'
  <2> SUFFICES ASSUME IInv, Capacity, [Next]_vars PROVE Capacity'
    OBVIOUS
  <2>1. IsFiniteSet(present) /\ Cardinality(present) \in Nat
    BY BlocksFinite, FS_Subset, FS_CardinalityType DEF IInv, TypeOK
  <2>2. ASSUME NEW b, present' = present \cup {b}, ~Full PROVE Capacity'
    <3>1. Cardinality(present') <= Cardinality(present) + 1
      BY <2>1, <2>2, FS_AddElement
    <3>2. IsFiniteSet(present')
      BY <2>1, <2>2, FS_AddElement
    <3>3. Cardinality(present') \in Nat
      BY <3>2, FS_CardinalityType
    <3>4. QED
      BY <2>1, <2>2, <3>1, <3>3, CacheAssumption DEF Full, Capacity
  <2>3. ASSUME present' \subseteq present PROVE Capacity'
    <3>1. IsFiniteSet(present') /\ Cardinality(present') <= Cardinality(present)
      BY <2>1, <2>3, FS_Subset
    <3>2. Cardinality(present') \in Nat
      BY <3>1, FS_CardinalityType
    <3>3. QED
      BY <2>1, <3>1, <3>2, CacheAssumption DEF Capacity
  <2>4. CASE Insert \/ WriteInsert
    BY <2>2, <2>4 DEF Insert, WriteInsert
  <2>5. CASE ~(Insert \/ WriteInsert)
    <3>1. present' \subseteq present
      BY <2>5 DEF Next, Step, Begin, BeginRead, BeginWrite, BeginZero, BeginFlush, Enter, ReadHit, ReadFill,
         ReadMiss, InsertDone, ReadDone, Evict, WriteBlock, WriteDone, Gather, DropClean, Remove, PutRun,
         BackDone, Sync, ZeroBlock, ZeroInner, InnerFails, PutRunFails, ZeroInnerFails, PowerCut,
         vars, entries
    <3>2. QED
      BY <2>3, <3>1
  <2>6. QED
    BY <2>4, <2>5
<1>3. QED
  BY <1>1, <1>2, Invariance, PTL DEF Spec
===============================================================================
