------------------------------ MODULE FsckProofs ------------------------------
(***************************************************************************)
(* Proofs about the checker, for every filesystem it may find, any number  *)
(* of checks in any mode, power cuts and device errors.                    *)
(***************************************************************************)
EXTENDS Fsck, BlockRunsProofs

-------------------------------------------------------------------------------
(* What passes 0 and 1 claim *)

Runs ==
    {b \in [runs : UNION {[D -> Nat] : D \in SUBSET Nat}, len : {blocks_count}, count : Nat] :
        Separate(b) /\ Counts(b)}

\* ScanState while blocks are being claimed.
ScanStates ==
    [blocks : Runs, duplicates : SUBSET Nat,
     inodes : {{}}, dirs : {{}}, names : {{}}, parents : {{}}]

\* The runs a check has are BlockRuns as its theorems know them.
LEMMA RunsAreBlockRuns ==
    ASSUME NEW b \in Runs
    PROVE  IsBlockRuns(b) /\ Counts(b) /\ b.len = blocks_count /\ b.runs = [s \in DOMAIN b.runs |-> b.runs[s]]
  BY DEF Runs, IsBlockRuns

\* insert, as a check uses it.
LEMMA InsertInRuns ==
    ASSUME NEW b \in Runs, NEW start \in Nat, NEW end \in Nat
    PROVE  /\ insert(b, start, end) \in Runs
           /\ Blocks(insert(b, start, end)) = Blocks(b) \cup (Span(<<start, end>>) \cap Blk)
<1> DEFINE stop == Smaller(end, b.len)
           i == insert(b, start, end)
<1>1. IsBlockRuns(b) /\ Counts(b) /\ b.len = blocks_count /\ b.runs = [s \in DOMAIN b.runs |-> b.runs[s]]
  BY RunsAreBlockRuns
<1>2. IsBlockRuns(i) /\ Blocks(i) = Blocks(b) \cup (Span(<<start, end>>) \cap Span(<<0, b.len>>))
  BY <1>1, InsertIsUnion
<1>3. Counts(i)
  BY <1>1, InsertCounts
<1>4. i.len = b.len /\ i.runs = IF start >= stop THEN b.runs ELSE Merge(b.runs, start, stop)
  BY <1>1, InsertFields
<1>5. i.runs = [s \in DOMAIN i.runs |-> i.runs[s]]
  <2>1. Merge(b.runs, start, stop) = [s \in DOMAIN Merge(b.runs, start, stop) |-> Merge(b.runs, start, stop)[s]]
    BY DEF Merge
  <2> HIDE DEF i, stop
  <2>2. QED
    BY <1>1, <1>4, <2>1
<1> HIDE DEF i
<1>6. DOMAIN i.runs \in SUBSET Nat /\ \A s \in DOMAIN i.runs : i.runs[s] \in Nat
  BY <1>2, RunTypes DEF IsBlockRuns
<1>7. i.count \in Nat
  BY <1>2, <1>3, BlocksAreFinite DEF IsBlockRuns, Counts
<1>8. i.runs \in UNION {[D -> Nat] : D \in SUBSET Nat}
  BY <1>5, <1>6
<1>9. i \in [runs : UNION {[D -> Nat] : D \in SUBSET Nat}, len : {blocks_count}, count : Nat]
  BY <1>1, <1>2, <1>4, <1>7, <1>8 DEF IsBlockRuns
<1>10. Blk = Span(<<0, blocks_count>>)
  BY DEF Blk, Span
<1>11. QED
  BY <1>1, <1>2, <1>3, <1>9, <1>10 DEF Runs, IsBlockRuns, i

\* claim_range: the range is held afterwards, and what was held before is noted.
LEMMA ClaimRange ==
    ASSUME NEW state \in ScanStates, NEW start \in Nat, NEW end \in Nat
    PROVE  LET after == claim_range(state, <<start, end>>)
           IN  /\ after \in ScanStates
               /\ Blocks(after.blocks) = Blocks(state.blocks) \cup (Span(<<start, end>>) \cap Blk)
               /\ after.duplicates = state.duplicates \cup (Blocks(state.blocks) \cap Span(<<start, end>>))
<1> DEFINE after == claim_range(state, <<start, end>>)
           dups == UNION {Span(h) : h \in Held(state.blocks, start, end)}
<1>1. state.blocks \in Runs /\ state.duplicates \subseteq Nat
  BY DEF ScanStates
<1>2. dups = Blocks(state.blocks) \cap Span(<<start, end>>)
  BY <1>1, RunsAreBlockRuns, HeldIsIntersection
<1>3. Blocks(state.blocks) \subseteq Nat
  BY <1>1, RunsAreBlockRuns, BlocksByRun DEF IsBlockRuns
<1>4. after = [state EXCEPT !.blocks = insert(state.blocks, start, end), !.duplicates = state.duplicates \cup dups]
  BY DEF claim_range
<1>5. insert(state.blocks, start, end) \in Runs
  BY <1>1, InsertInRuns
<1> HIDE DEF dups, after
<1>6. after.blocks = insert(state.blocks, start, end) /\ after.duplicates = state.duplicates \cup dups
  BY <1>4 DEF ScanStates
<1>7. after \in ScanStates
  BY <1>1, <1>2, <1>3, <1>4, <1>5 DEF ScanStates
<1>8. QED
  BY <1>1, <1>2, <1>6, <1>7, InsertInRuns DEF after

\* A check begins with nothing claimed.
LEMMA NoScanInStates ==
    /\ NoScan \in ScanStates /\ Blocks(NoScan.blocks) = {} /\ NoScan.duplicates = {}
<1>1. blocks_count \in Nat
  BY FsckAssumption
<1>2. IsBlockRuns(new(blocks_count)) /\ Blocks(new(blocks_count)) = {} /\ Counts(new(blocks_count))
  BY <1>1, NewIsEmpty, NewCounts
<1>3. new(blocks_count) \in Runs
  <2>1. new(blocks_count) = [runs |-> [s \in {} |-> 0], len |-> blocks_count, count |-> 0]
    BY DEF new
  <2>2. [s \in {} |-> 0] \in [{} -> Nat] /\ {} \in SUBSET Nat
    OBVIOUS
  <2>3. [s \in {} |-> 0] \in UNION {[D -> Nat] : D \in SUBSET Nat}
    BY <2>2
  <2>4. new(blocks_count) \in [runs : UNION {[D -> Nat] : D \in SUBSET Nat}, len : {blocks_count}, count : Nat]
    BY <2>1, <2>3
  <2>5. QED
    BY <1>2, <2>4 DEF Runs, IsBlockRuns
<1>4. QED
  BY <1>2, <1>3 DEF NoScan, ScanStates

Metadata(s) == (UNION {Span(MetaRuns[k]) : k \in s}) \cap Blk
Doubled(s) == {b \in Blk : \E k, l \in s : k # l /\ b \in Span(MetaRuns[k]) \cap Span(MetaRuns[l])}

\* What it is for a block to be metadata, or metadata twice.
LEMMA MetadataMember ==
    ASSUME NEW s, NEW b
    PROVE  /\ b \in Metadata(s) <=> b \in Blk /\ \E k \in s : b \in Span(MetaRuns[k])
           /\ b \in Doubled(s) <=> b \in Blk /\ \E k, l \in s : k # l /\ b \in Span(MetaRuns[k]) /\ b \in Span(MetaRuns[l])
<1>1. b \in Metadata(s) <=> b \in Blk /\ \E k \in s : b \in Span(MetaRuns[k])
  <2> DEFINE U == UNION {Span(MetaRuns[k]) : k \in s}
  <2>1. b \in U <=> \E k \in s : b \in Span(MetaRuns[k])
    BY Zenon
  <2>2. Metadata(s) = U \cap Blk
    BY Zenon DEF Metadata
  <2> HIDE DEF U
  <2>3. QED
    BY <2>1, <2>2
<1>2. b \in Doubled(s) <=> b \in Blk /\ \E k, l \in s : k # l /\ b \in Span(MetaRuns[k]) /\ b \in Span(MetaRuns[l])
  BY Zenon DEF Doubled
<1>3. QED
  BY <1>1, <1>2

\* The ScanState that pass 0 leaves.
HoldsMetadata(state) ==
    /\ state \in ScanStates
    /\ Blocks(state.blocks) = Meta
    /\ state.duplicates = Doubled(DOMAIN MetaRuns)

\* Pass 0 claims its ranges one after another: all of them are held, and where two meet is noted.
LEMMA PassZeroClaims ==
    HoldsMetadata(FoldLeft(claim_range, NoScan, MetaRuns))
<1> DEFINE D == DOMAIN MetaRuns
           Is(g) == g = [s \in SUBSET D |-> IF s = {} THEN NoScan ELSE claim_range(g[s \ {Max(s)}], MetaRuns[Max(s)])]
           loop == CHOOSE g : Is(g)
           F == [p \in D \X ScanStates |-> claim_range(p[2], MetaRuns[p[1]])]
           c == [s \in SUBSET D |-> Max(s)]
<1>1. FoldLeft(claim_range, NoScan, MetaRuns) = loop[D]
  BY DEF FoldLeft, MapThenFoldSet
<1>2. IsFiniteSet(D) /\ \A k \in D : MetaRuns[k] \in Nat \X Nat
  <2>1. MetaRuns \in Seq(Nat \X Nat)
    BY FsckAssumption
  <2>2. D = 1 .. Len(MetaRuns) /\ Len(MetaRuns) \in Nat /\ \A k \in D : MetaRuns[k] \in Nat \X Nat
    BY <2>1
  <2>3. QED
    BY <2>2, FS_Interval
<1>3. \A s \in SUBSET D : s # {} => Max(s) \in s /\ c[s] = Max(s) /\ s \ {Max(s)} \in SUBSET D
  <2> SUFFICES ASSUME NEW s \in SUBSET D, s # {} PROVE Max(s) \in s
    OBVIOUS
  <2>1. MetaRuns \in Seq(Nat \X Nat)
    BY FsckAssumption
  <2>2. s \subseteq 0 .. Len(MetaRuns) /\ Len(MetaRuns) \in Nat
    BY <2>1
  <2>3. \E x \in s : \A y \in s : x >= y
    BY <2>2, GreatestNumber
  <2>4. QED
    BY <2>3 DEF Max
<1>4. \A k \in D, v \in ScanStates : claim_range(v, MetaRuns[k]) \in ScanStates
  <2> SUFFICES ASSUME NEW k \in D, NEW v \in ScanStates PROVE claim_range(v, MetaRuns[k]) \in ScanStates
    OBVIOUS
  <2>1. MetaRuns[k] = <<MetaRuns[k][1], MetaRuns[k][2]>> /\ MetaRuns[k][1] \in Nat /\ MetaRuns[k][2] \in Nat
    BY <1>2
  <2>2. QED
    BY <2>1, ClaimRange
<1>5. IsStep(F, D, ScanStates)
  BY <1>4 DEF IsStep
<1>6. IsChoice(c, D)
  BY <1>3 DEF IsChoice
<1> HIDE DEF F, c, D
<1>7. PICK g : IsFold(g, D, ScanStates, NoScan, F, c)
  BY <1>2, <1>5, <1>6, NoScanInStates, SubsetRecursion
<1>8. g \in [SUBSET D -> ScanStates] /\ g[{}] = NoScan
  BY <1>7 DEF IsFold
<1>9. ASSUME NEW s \in SUBSET D, s # {} PROVE g[s] = claim_range(g[s \ {Max(s)}], MetaRuns[Max(s)])
  <2>1. Max(s) \in D /\ s \ {Max(s)} \in SUBSET D /\ c[s] = Max(s)
    BY <1>3, <1>9
  <2>2. F[<<Max(s), g[s \ {Max(s)}]>>] = claim_range(g[s \ {Max(s)}], MetaRuns[Max(s)])
    BY <1>8, <2>1 DEF F
  <2>3. QED
    BY <1>7, <1>9, <2>1, <2>2 DEF IsFold
<1>10. Is(g)
  BY <1>8, <1>9
<1>11. Is(loop)
  BY <1>10, Zenon
<1> HIDE DEF loop
<1>12. loop[{}] = NoScan /\ \A s \in SUBSET D : s # {} => loop[s] = claim_range(loop[s \ {Max(s)}], MetaRuns[Max(s)])
  BY <1>11
<1> DEFINE T == {s \in SUBSET D : /\ loop[s] \in ScanStates
                                  /\ Blocks(loop[s].blocks) = Metadata(s)
                                  /\ loop[s].duplicates = Doubled(s)}
<1>13. ASSUME NEW s \in SUBSET D, \A r \in SUBSET s : r # s => r \in T
       PROVE  s \in T
  <2>1. CASE s = {}
    BY <1>12, <2>1, NoScanInStates DEF Metadata, Doubled
  <2>2. CASE s # {}
    <3> DEFINE k == Max(s)
               rest == s \ {k}
    <3>1. k \in s /\ rest \in SUBSET s /\ rest # s /\ s = rest \cup {k} /\ k \notin rest /\ k \in D
      BY <1>3, <2>2
    <3>2. rest \in T
      BY <1>13, <3>1
    <3>3. loop[s] = claim_range(loop[rest], MetaRuns[k])
      BY <1>12, <2>2
    <3> HIDE DEF k, rest
    <3> DEFINE a == MetaRuns[k][1]
               z == MetaRuns[k][2]
    <3>4. MetaRuns[k] = <<a, z>> /\ a \in Nat /\ z \in Nat
      BY <1>2, <3>1
    <3> HIDE DEF a, z
    <3>5. /\ loop[s] \in ScanStates
          /\ Blocks(loop[s].blocks) = Blocks(loop[rest].blocks) \cup (Span(<<a, z>>) \cap Blk)
          /\ loop[s].duplicates = loop[rest].duplicates \cup (Blocks(loop[rest].blocks) \cap Span(<<a, z>>))
      <4> DEFINE v == loop[rest]
                 w == claim_range(v, <<a, z>>)
      <4>1. v \in ScanStates /\ loop[s] = w
        BY <3>2, <3>3, <3>4
      <4> HIDE DEF v
      <4>2. /\ w \in ScanStates
            /\ Blocks(w.blocks) = Blocks(v.blocks) \cup (Span(<<a, z>>) \cap Blk)
            /\ w.duplicates = v.duplicates \cup (Blocks(v.blocks) \cap Span(<<a, z>>))
        BY <3>4, <4>1, ClaimRange
      <4>3. QED
        BY <4>1, <4>2 DEF v
    <3>6. Metadata(s) = Metadata(rest) \cup (Span(<<a, z>>) \cap Blk)
      <4>1. \A b : b \in Metadata(s) <=> b \in Metadata(rest) \cup (Span(<<a, z>>) \cap Blk)
        BY <3>1, <3>4, MetadataMember
      <4>2. QED
        BY <4>1
    <3>7. Doubled(s) = Doubled(rest) \cup (Metadata(rest) \cap Span(<<a, z>>))
      <4>1. \A b : b \in Doubled(s) <=> b \in Doubled(rest) \cup (Metadata(rest) \cap Span(<<a, z>>))
        BY <3>1, <3>4, MetadataMember
      <4>2. QED
        BY <4>1
    <3>8. QED
      BY <3>2, <3>5, <3>6, <3>7
  <2>3. QED
    BY <2>1, <2>2
<1>14. SUBSET D \subseteq T
  <2> HIDE DEF T
  <2>1. \A s \in SUBSET D : (\A r \in SUBSET s : r # s => r \in T) => s \in T
    BY <1>13
  <2>2. QED
    BY <1>2, <2>1, SubsetInduction, Zenon
<1>15. D \in T
  BY <1>14
<1>16. Metadata(D) = Meta
  BY DEF Metadata, Meta, D
<1>17. QED
  BY <1>1, <1>15, <1>16 DEF D, HoldsMetadata

\* An inode claims `more`: it is held afterwards, and what someone had before or it reaches again is
\* noted, unless the inode is the resize inode.
Claims(i, before, after, more) ==
    /\ after \in ScanStates
    /\ Blocks(after.blocks) = Blocks(before.blocks) \cup more
    /\ i = Resize => after.duplicates = before.duplicates
    /\ i # Resize => after.duplicates = before.duplicates \cup ((Blocks(before.blocks) \cup Node(i).again) \cap more)

\* ClaimOne: one block of an inode's map.
LEMMA ClaimOneBlock ==
    ASSUME NEW i, NEW state \in ScanStates, NEW b \in Blk
    PROVE  Claims(i, state, ClaimOne(i, state, b), {b})
<1> DEFINE z == b + 1
           claimed == claim_range(state, <<b, z>>)
           after == ClaimOne(i, state, b)
           twice == {b} \cap Node(i).again
<1>1. b \in Nat /\ z \in Nat /\ Span(<<b, z>>) = {b}
  BY FsckAssumption DEF Blk, Span
<1>2. after = IF i = Resize THEN [claimed EXCEPT !.duplicates = state.duplicates]
                            ELSE [claimed EXCEPT !.duplicates = claimed.duplicates \cup twice]
  BY DEF ClaimOne
<1> HIDE DEF z, after
<1>3. /\ claimed \in ScanStates
      /\ Blocks(claimed.blocks) = Blocks(state.blocks) \cup (Span(<<b, z>>) \cap Blk)
      /\ claimed.duplicates = state.duplicates \cup (Blocks(state.blocks) \cap Span(<<b, z>>))
  BY <1>1, ClaimRange
<1> HIDE DEF claimed
<1>4. Span(<<b, z>>) \cap Blk = {b}
  BY <1>1
<1>5. Claims(i, state, after, {b})
  <2>1. CASE i # Resize
    <3>1. after = [claimed EXCEPT !.duplicates = claimed.duplicates \cup twice]
      BY <1>2, <2>1
    <3>2. twice \subseteq Nat /\ \A S : S \cup twice = S \cup ({b} \cap Node(i).again)
      BY <1>1
    <3> HIDE DEF twice
    <3>3. after \in ScanStates /\ after.blocks = claimed.blocks /\ after.duplicates = claimed.duplicates \cup twice
      BY <1>3, <3>1, <3>2 DEF ScanStates
    <3>4. after.duplicates = state.duplicates \cup ((Blocks(state.blocks) \cup Node(i).again) \cap {b})
      BY <1>1, <1>3, <3>2, <3>3
    <3>5. QED
      BY <1>3, <1>4, <2>1, <3>3, <3>4 DEF Claims
  <2>2. CASE i = Resize
    <3>1. after = [claimed EXCEPT !.duplicates = state.duplicates]
      BY <1>2, <2>2
    <3>2. after \in ScanStates /\ after.blocks = claimed.blocks /\ after.duplicates = state.duplicates
      BY <1>3, <3>1 DEF ScanStates
    <3>3. QED
      BY <1>3, <1>4, <2>2, <3>2 DEF Claims
  <2>3. QED
    BY <2>1, <2>2
<1>6. QED
  BY <1>5 DEF after

\* The blocks of one inode: all of them are held, and what someone had before or the inode reaches
\* again is noted, unless it is the resize inode.
LEMMA ClaimAllBlocks ==
    ASSUME NEW i, NEW state \in ScanStates
    PROVE  Claims(i, state, ClaimAll(i, state), Claimed(i))
<1> DEFINE D == Claimed(i)
           Is(g) == g = [s \in SUBSET D |-> IF s = {} THEN state ELSE ClaimOne(i, g[s \ {Pick(s)}], Pick(s))]
           loop == CHOOSE g : Is(g)
           F == [p \in D \X ScanStates |-> ClaimOne(i, p[2], p[1])]
           c == [s \in SUBSET D |-> Pick(s)]
<1>1. ClaimAll(i, state) = loop[D]
  BY DEF ClaimAll, FoldSet, MapThenFoldSet, Pick
<1>2. D \subseteq Blk /\ IsFiniteSet(D)
  <2>1. IsFiniteSet(Blk)
    BY FsckAssumption, FS_Interval DEF Blk
  <2>2. D \subseteq Blk
    BY DEF Claimed
  <2> HIDE DEF D
  <2>3. QED
    BY <2>1, <2>2, FS_Subset
<1> HIDE DEF D
<1>3. \A s \in SUBSET D : s # {} => Pick(s) \in s /\ c[s] = Pick(s) /\ s \ {Pick(s)} \in SUBSET D
  BY DEF Pick
<1>4. \A b \in D, v \in ScanStates : ClaimOne(i, v, b) \in ScanStates
  BY <1>2, ClaimOneBlock DEF Claims
<1>5. IsStep(F, D, ScanStates)
  BY <1>4 DEF IsStep
<1>6. IsChoice(c, D)
  BY <1>3 DEF IsChoice
<1> HIDE DEF F, c
<1>7. PICK g : IsFold(g, D, ScanStates, state, F, c)
  BY <1>2, <1>5, <1>6, SubsetRecursion
<1>8. g \in [SUBSET D -> ScanStates] /\ g[{}] = state
  BY <1>7 DEF IsFold
<1>9. ASSUME NEW s \in SUBSET D, s # {} PROVE g[s] = ClaimOne(i, g[s \ {Pick(s)}], Pick(s))
  <2>1. Pick(s) \in D /\ s \ {Pick(s)} \in SUBSET D /\ c[s] = Pick(s)
    BY <1>3, <1>9
  <2>2. F[<<Pick(s), g[s \ {Pick(s)}]>>] = ClaimOne(i, g[s \ {Pick(s)}], Pick(s))
    BY <1>8, <2>1 DEF F
  <2>3. QED
    BY <1>7, <1>9, <2>1, <2>2 DEF IsFold
<1>10. Is(g)
  BY <1>8, <1>9
<1>11. Is(loop)
  BY <1>10, Zenon
<1> HIDE DEF loop
<1>12. loop[{}] = state /\ \A s \in SUBSET D : s # {} => loop[s] = ClaimOne(i, loop[s \ {Pick(s)}], Pick(s))
  BY <1>11
<1> DEFINE T == {s \in SUBSET D : Claims(i, state, loop[s], s)}
<1>13. ASSUME NEW s \in SUBSET D, \A r \in SUBSET s : r # s => r \in T
       PROVE  s \in T
  <2>1. CASE s = {}
    BY <1>12, <2>1 DEF Claims
  <2>2. CASE s # {}
    <3> DEFINE b == Pick(s)
               rest == s \ {b}
               v == loop[rest]
               w == ClaimOne(i, v, b)
    <3>1. b \in s /\ rest \in SUBSET s /\ rest # s /\ s = rest \cup {b} /\ b \notin rest /\ b \in Blk
      BY <1>2, <1>3, <2>2
    <3>2. rest \in T
      BY <1>13, <3>1
    <3>3. loop[s] = w
      BY <1>12, <2>2
    <3> HIDE DEF b, rest
    <3>4. Claims(i, state, v, rest)
      BY <3>2
    <3> HIDE DEF v
    <3>5. v \in ScanStates
      BY <3>4 DEF Claims
    <3>6. Claims(i, v, w, {b})
      BY <3>1, <3>5, ClaimOneBlock
    <3> HIDE DEF w
    <3>7. Blocks(w.blocks) = Blocks(state.blocks) \cup s
      BY <3>1, <3>4, <3>6 DEF Claims
    <3>8. i # Resize => w.duplicates = state.duplicates \cup ((Blocks(state.blocks) \cup Node(i).again) \cap s)
      <4> SUFFICES ASSUME i # Resize
                   PROVE  w.duplicates = state.duplicates \cup ((Blocks(state.blocks) \cup Node(i).again) \cap s)
        OBVIOUS
      <4>1. /\ w.duplicates = v.duplicates \cup ((Blocks(v.blocks) \cup Node(i).again) \cap {b})
            /\ v.duplicates = state.duplicates \cup ((Blocks(state.blocks) \cup Node(i).again) \cap rest)
            /\ Blocks(v.blocks) = Blocks(state.blocks) \cup rest
        BY <3>4, <3>6 DEF Claims
      <4>2. \A x : x \in w.duplicates <=> x \in state.duplicates \cup ((Blocks(state.blocks) \cup Node(i).again) \cap s)
        BY <3>1, <4>1
      <4>3. QED
        BY <4>2
    <3>9. Claims(i, state, w, s)
      BY <3>4, <3>6, <3>7, <3>8 DEF Claims
    <3>10. QED
      BY <3>3, <3>9
  <2>3. QED
    BY <2>1, <2>2
<1>14. SUBSET D \subseteq T
  <2> HIDE DEF T
  <2>1. \A s \in SUBSET D : (\A r \in SUBSET s : r # s => r \in T) => s \in T
    BY <1>13
  <2>2. QED
    BY <1>2, <2>1, SubsetInduction, Zenon
<1>15. D \in T
  BY <1>14
<1>16. QED
  BY <1>1, <1>15 DEF D

\* What the inodes up to n claim, and what of it is claimed twice.
ClaimedUpTo(n) == UNION {Claimed(i) : i \in {j \in Walked : j <= n}}
TwiceUpTo(n) ==
    {b \in Blk : \E i \in Walked \ {Resize} :
        i <= n /\ b \in Claimed(i) /\ (b \in Meta \/ b \in Node(i).again \/ \E j \in Walked : j < i /\ b \in Claimed(j))}

\* The ScanState after the metadata and the inodes up to n.
Holding(state, n) ==
    /\ state \in ScanStates
    /\ Blocks(state.blocks) = Meta \cup ClaimedUpTo(n)
    /\ state.duplicates = Doubled(DOMAIN MetaRuns) \cup TwiceUpTo(n)

\* One more inode adds what it claims, and what of that was claimed before.
LEMMA OneMoreInode ==
    ASSUME NEW n \in Nat, NEW state, Holding(state, n), NEW after,
           IF n + 1 \in Walked THEN Claims(n + 1, state, after, Claimed(n + 1)) ELSE after = state
    PROVE  Holding(after, n + 1)
<1> DEFINE i == n + 1
<1>1. i \in Nat /\ Walked \subseteq Nat /\ (\A j \in Walked : j <= i <=> j = i \/ j <= n) /\ (\A j \in Walked : j < i <=> j <= n) /\ ~(i <= n)
  <2>1. Walked \subseteq Ino
    BY DEF Walked, in_use, Live
  <2>2. Ino \subseteq Nat
    BY FsckAssumption, FS_CardinalityType
  <2>3. Walked \subseteq Nat
    BY <2>1, <2>2
  <2>4. QED
    BY <2>3
<1>2. IF i \in Walked THEN Claims(i, state, after, Claimed(i)) ELSE after = state
  OBVIOUS
<1> HIDE DEF i
<1>3. Claimed(i) \subseteq Blk
  BY DEF Claimed
<1>4. \A m, b : b \in ClaimedUpTo(m) <=> \E j \in Walked : j <= m /\ b \in Claimed(j)
  BY Zenon DEF ClaimedUpTo
<1>5. \A m, b : b \in TwiceUpTo(m) <=> b \in Blk /\ \E j \in Walked \ {Resize} :
            j <= m /\ b \in Claimed(j) /\ (b \in Meta \/ b \in Node(j).again \/ \E k \in Walked : k < j /\ b \in Claimed(k))
  BY Zenon DEF TwiceUpTo
<1>6. CASE i \notin Walked
  <2>1. \A b : b \in ClaimedUpTo(i) <=> b \in ClaimedUpTo(n)
    BY <1>1, <1>4, <1>6
  <2>2. \A b : b \in TwiceUpTo(i) <=> b \in TwiceUpTo(n)
    BY <1>1, <1>5, <1>6
  <2>3. ClaimedUpTo(i) = ClaimedUpTo(n)
    BY <2>1 DEF ClaimedUpTo
  <2>4. TwiceUpTo(i) = TwiceUpTo(n)
    BY <2>2 DEF TwiceUpTo
  <2>5. QED
    BY <1>2, <1>6, <2>3, <2>4 DEF Holding, i
<1>7. CASE i \in Walked
  <2>1. Claims(i, state, after, Claimed(i))
    BY <1>2, <1>7
  <2>2. \A b : b \in ClaimedUpTo(i) <=> b \in ClaimedUpTo(n) \/ b \in Claimed(i)
    BY <1>1, <1>4, <1>7
  <2>3. \A b : b \in Blocks(after.blocks) <=> b \in Meta \cup ClaimedUpTo(i)
    BY <2>1, <2>2 DEF Holding, Claims
  <2>4. Blocks(after.blocks) = Meta \cup ClaimedUpTo(i)
    BY <2>3
  <2>5. CASE i = Resize
    <3>1. \A b : b \in TwiceUpTo(i) <=> b \in TwiceUpTo(n)
      BY <1>1, <1>5, <2>5
    <3>2. TwiceUpTo(i) = TwiceUpTo(n)
      BY <3>1 DEF TwiceUpTo
    <3>3. QED
      BY <2>1, <2>4, <2>5, <3>2 DEF Holding, Claims, i
  <2>6. CASE i # Resize
    <3>1. \A b : b \in TwiceUpTo(i) <=>
                b \in TwiceUpTo(n) \/ (b \in Claimed(i) /\ b \in Meta \cup ClaimedUpTo(n) \cup Node(i).again)
      <4> SUFFICES ASSUME NEW b
                   PROVE  b \in TwiceUpTo(i) <=>
                              b \in TwiceUpTo(n) \/ (b \in Claimed(i) /\ b \in Meta \cup ClaimedUpTo(n) \cup Node(i).again)
        OBVIOUS
      <4> DEFINE Twice(j) == b \in Meta \/ b \in Node(j).again \/ \E k \in Walked : k < j /\ b \in Claimed(k)
      <4>1. \A m : b \in TwiceUpTo(m) <=> b \in Blk /\ \E j \in Walked \ {Resize} : j <= m /\ b \in Claimed(j) /\ Twice(j)
        BY <1>5
      <4>2. Twice(i) <=> b \in Meta \cup ClaimedUpTo(n) \cup Node(i).again
        BY <1>1, <1>4
      <4> HIDE DEF Twice
      <4>3. (\E j \in Walked \ {Resize} : j <= i /\ b \in Claimed(j) /\ Twice(j))
              <=> (\E j \in Walked \ {Resize} : j <= n /\ b \in Claimed(j) /\ Twice(j)) \/ (b \in Claimed(i) /\ Twice(i))
        BY <1>1, <1>7, <2>6
      <4>4. b \in Claimed(i) => b \in Blk
        BY <1>3
      <4>5. QED
        BY <4>1, <4>2, <4>3, <4>4
    <3>2. after.duplicates = state.duplicates \cup ((Blocks(state.blocks) \cup Node(i).again) \cap Claimed(i))
      BY <2>1, <2>6 DEF Claims
    <3>3. \A b : b \in after.duplicates <=> b \in Doubled(DOMAIN MetaRuns) \cup TwiceUpTo(i)
      BY <3>1, <3>2 DEF Holding
    <3>4. after.duplicates = Doubled(DOMAIN MetaRuns) \cup TwiceUpTo(i)
      BY <3>3
    <3>5. QED
      BY <2>1, <2>4, <3>4 DEF Holding, Claims, i
  <2>7. QED
    BY <2>5, <2>6
<1>8. QED
  BY <1>6, <1>7

\* Pass 1 claims for one inode after another what its map reaches.
LEMMA PassOneClaims ==
    ASSUME NEW state, Holding(state, 0)
    PROVE  Holding(ClaimWalked(state), Cardinality(Ino))
<1> DEFINE N == Cardinality(Ino)
           Is(g) == g = [n \in 0 .. N |-> IF n = 0 THEN state
                                          ELSE IF n \in Walked THEN ClaimAll(n, g[n - 1]) ELSE g[n - 1]]
           loop == CHOOSE g : Is(g)
           F == [p \in (1 .. N) \X ScanStates |-> IF p[1] \in Walked THEN ClaimAll(p[1], p[2]) ELSE p[2]]
<1>1. ClaimWalked(state) = loop[N]
  BY DEF ClaimWalked
<1>2. N \in Nat
  BY FsckAssumption, FS_CardinalityType
<1> HIDE DEF N
<1>3. state \in ScanStates
  BY DEF Holding
<1>4. \A n \in 1 .. N, v \in ScanStates : ClaimAll(n, v) \in ScanStates
  BY ClaimAllBlocks DEF Claims
<1>5. IsStep(F, 1 .. N, ScanStates)
  BY <1>4 DEF IsStep
<1> HIDE DEF F
<1>6. PICK g : IsLoop(g, N, ScanStates, state, F)
  BY <1>2, <1>3, <1>5, NumberRecursion
<1>7. g \in [0 .. N -> ScanStates] /\ g[0] = state
  BY <1>6 DEF IsLoop
<1>8. ASSUME NEW n \in 1 .. N PROVE g[n] = IF n \in Walked THEN ClaimAll(n, g[n - 1]) ELSE g[n - 1]
  <2>1. n - 1 \in 0 .. N
    BY <1>2
  <2>2. g[n - 1] \in ScanStates
    BY <1>7, <2>1
  <2>3. g[n] = F[<<n, g[n - 1]>>]
    BY <1>6 DEF IsLoop
  <2>4. QED
    BY <2>2, <2>3 DEF F
<1>9. Is(g)
  BY <1>2, <1>7, <1>8
<1>10. Is(loop)
  BY <1>9, Zenon
<1> HIDE DEF loop
<1>11. loop[0] = state /\ \A n \in 1 .. N : loop[n] = IF n \in Walked THEN ClaimAll(n, loop[n - 1]) ELSE loop[n - 1]
  BY <1>2, <1>10
<1> DEFINE T == {n \in Nat : n \in 0 .. N => Holding(loop[n], n)}
<1>12. 0 \in T
  BY <1>11
<1>13. ASSUME NEW n \in Nat, n \in T PROVE n + 1 \in T
  <2> SUFFICES ASSUME n + 1 \in 0 .. N PROVE Holding(loop[n + 1], n + 1)
    OBVIOUS
  <2> DEFINE v == loop[n]
             w == loop[n + 1]
  <2>1. n \in 0 .. N /\ n + 1 \in 1 .. N /\ (n + 1) - 1 = n
    BY <1>2
  <2>2. Holding(v, n)
    BY <1>13, <2>1
  <2>3. w = IF n + 1 \in Walked THEN ClaimAll(n + 1, v) ELSE v
    BY <1>11, <2>1
  <2> HIDE DEF v, w
  <2>4. Claims(n + 1, v, ClaimAll(n + 1, v), Claimed(n + 1))
    BY <2>2, ClaimAllBlocks DEF Holding
  <2>5. IF n + 1 \in Walked THEN Claims(n + 1, v, w, Claimed(n + 1)) ELSE w = v
    BY <2>3, <2>4
  <2>6. Holding(w, n + 1)
    BY <2>2, <2>5, OneMoreInode
  <2>7. QED
    BY <2>6 DEF w
<1>14. Nat \subseteq T
  <2> HIDE DEF T
  <2>1. QED
    BY <1>12, <1>13, NumberInduction
<1>15. Holding(loop[N], N)
  BY <1>2, <1>14
<1>16. QED
  BY <1>1, <1>15 DEF N

\* Everything pass 0 and pass 1 claim, and everything claimed twice.
ExactClaims ==
    /\ Blocks(scan.blocks) = Meta \cup UNION {Claimed(i) : i \in Walked}
    /\ scan.duplicates = Collisions

\* Pass 1 starts from the metadata and ends with everything.
LEMMA PassOneIsExact ==
    ASSUME NEW state, HoldsMetadata(state)
    PROVE  LET after == ClaimWalked(state)
           IN  /\ after \in ScanStates
               /\ Blocks(after.blocks) = Meta \cup UNION {Claimed(i) : i \in Walked}
               /\ after.duplicates = Collisions
<1> DEFINE after == ClaimWalked(state)
           N == Cardinality(Ino)
<1>1. Walked \subseteq 1 .. N /\ N \in Nat
  <2>1. Walked \subseteq Ino
    BY DEF Walked, in_use, Live
  <2>2. QED
    BY <2>1, FsckAssumption, FS_CardinalityType
<1>2. \A b : b \notin ClaimedUpTo(0) /\ b \notin TwiceUpTo(0)
  BY <1>1 DEF ClaimedUpTo, TwiceUpTo
<1>3. ClaimedUpTo(0) = {} /\ TwiceUpTo(0) = {}
  <2>1. \A S : (\A b : b \notin S) => S = {}
    OBVIOUS
  <2>2. QED
    BY <1>2, <2>1
<1>4. Holding(state, 0)
  BY <1>3 DEF Holding, HoldsMetadata
<1>5. Holding(after, N)
  BY <1>4, PassOneClaims
<1> HIDE DEF after, N
<1>6. {j \in Walked : j <= N} = Walked
  <2>1. \A j \in Walked : j <= N
    BY <1>1
  <2>2. QED
    BY <2>1
<1>7. ClaimedUpTo(N) = UNION {Claimed(i) : i \in Walked}
  BY <1>6 DEF ClaimedUpTo
<1>8. Doubled(DOMAIN MetaRuns) \cup TwiceUpTo(N) = Collisions
  <2>1. \A b : b \in Collisions <=>
            b \in Blk /\ (\/ \E k, l \in DOMAIN MetaRuns : k # l /\ b \in Span(MetaRuns[k]) \cap Span(MetaRuns[l])
                         \/ \E i \in Walked \ {Resize} :
                               b \in Claimed(i) /\ (b \in Meta \/ b \in Node(i).again \/ \E j \in Walked : j < i /\ b \in Claimed(j)))
    BY Zenon DEF Collisions
  <2>2. \A b : b \in Doubled(DOMAIN MetaRuns) <=>
            b \in Blk /\ \E k, l \in DOMAIN MetaRuns : k # l /\ b \in Span(MetaRuns[k]) \cap Span(MetaRuns[l])
    BY Zenon DEF Doubled
  <2>3. \A b : b \in TwiceUpTo(N) <=> b \in Blk /\ \E i \in Walked \ {Resize} :
            i <= N /\ b \in Claimed(i) /\ (b \in Meta \/ b \in Node(i).again \/ \E j \in Walked : j < i /\ b \in Claimed(j))
    BY Zenon DEF TwiceUpTo
  <2>4. \A i \in Walked : i <= N
    BY <1>1
  <2>5. \A b : b \in TwiceUpTo(N) <=> b \in Blk /\ \E i \in Walked \ {Resize} :
            b \in Claimed(i) /\ (b \in Meta \/ b \in Node(i).again \/ \E j \in Walked : j < i /\ b \in Claimed(j))
    BY <2>3, <2>4, Zenon
  <2>6. \A b : b \in Doubled(DOMAIN MetaRuns) \cup TwiceUpTo(N) <=> b \in Collisions
    BY <2>1, <2>2, <2>5, Zenon
  <2>7. QED
    BY <2>6
<1>9. QED
  BY <1>5, <1>7, <1>8 DEF Holding, after

\* The fields of ScanState.
IsScan(s) ==
    s = [blocks |-> s.blocks, duplicates |-> s.duplicates, inodes |-> s.inodes,
         dirs |-> s.dirs, names |-> s.names, parents |-> s.parents]

\* What keeps the runs exact from pass to pass.
ScanInv ==
    /\ IsScan(scan) /\ scan.blocks \in Runs
    /\ pc \in {"due", "pass1"} => HoldsMetadata(scan)
    /\ pc \in {"pass2", "pass3", "pass4"} => ExactClaims

\* What inodes claim is read from their table and the descriptor.
LEMMA ClaimsStay ==
    ASSUME UNCHANGED <<disk, gd>>
    PROVE  /\ (UNION {Claimed(i) : i \in Walked})' = UNION {Claimed(i) : i \in Walked}
           /\ Collisions' = Collisions
<1>1. Walked' = Walked
  BY DEF Walked, in_use, Live, Node
<1>2. \A i : Claimed(i)' = Claimed(i) /\ Node(i)' = Node(i)
  BY DEF Claimed, Node
<1>3. Collisions' = Collisions
  BY <1>1, <1>2, Zenon DEF Collisions
<1>4. QED
  BY <1>1, <1>2, <1>3

\* A check that begins, or the handle dropped, has claimed nothing.
LEMMA FreshScan ==
    ASSUME Fresh, pc' \notin {"due", "pass1", "pass2", "pass3", "pass4"}
    PROVE  ScanInv'
<1>1. scan' = NoScan
  BY DEF Fresh
<1>2. NoScan.blocks \in Runs /\ IsScan(NoScan)
  BY NoScanInStates DEF ScanStates, NoScan, IsScan
<1>3. QED
  BY <1>1, <1>2 DEF ScanInv, IsScan

\* Each step of a check keeps the runs exact.
LEMMA ScanStep ==
    ASSUME ScanInv, Next
    PROVE  ScanInv'
<1>1. ASSUME NEW m \in Modes, NEW f \in Forced, Open(m, f) PROVE ScanInv'
  BY <1>1, FreshScan DEF Open
<1>2. CASE DeviceFails \/ PowerCut
  BY <1>2, FreshScan DEF DeviceFails, PowerCut
<1>3. CASE pass0_superblock
  <2>1. scan' = FoldLeft(claim_range, NoScan, MetaRuns) /\ pc' = "due"
    BY <1>3 DEF pass0_superblock
  <2>2. HoldsMetadata(scan')
    BY <2>1, PassZeroClaims
  <2>3. QED
    BY <2>1, <2>2 DEF ScanInv, HoldsMetadata, ScanStates, IsScan
<1>4. CASE Due
  BY <1>4 DEF Due, ScanInv, HoldsMetadata, IsScan
<1>5. CASE pass1_inodes
  <2> DEFINE after == ClaimWalked(scan)
  <2>1. /\ scan' = [after EXCEPT !.inodes = in_use, !.dirs = {i \in in_use : Node(i).dir}]
        /\ pc' = "pass2" /\ UNCHANGED <<disk, gd>>
    BY <1>5 DEF pass1_inodes, device, handle
  <2>2. HoldsMetadata(scan)
    BY <1>5 DEF ScanInv, pass1_inodes
  <2>3. /\ after \in ScanStates
        /\ Blocks(after.blocks) = Meta \cup UNION {Claimed(i) : i \in Walked}
        /\ after.duplicates = Collisions
    BY <2>2, PassOneIsExact
  <2> HIDE DEF after
  <2>4. IsScan(scan') /\ scan'.blocks = after.blocks /\ scan'.duplicates = after.duplicates /\ after.blocks \in Runs
    BY <2>1, <2>3 DEF ScanStates, IsScan
  <2>5. ExactClaims'
    BY <2>1, <2>3, <2>4, ClaimsStay DEF ExactClaims
  <2>6. QED
    BY <2>1, <2>4, <2>5 DEF ScanInv, IsScan
<1>6. CASE pass2_directories
  <2>1. /\ \E p, n : scan' = [scan EXCEPT !.parents = p, !.names = n]
        /\ pc' = "pass3" /\ UNCHANGED <<disk, gd>>
    BY <1>6 DEF pass2_directories, device, handle
  <2>2. IsScan(scan') /\ scan'.blocks = scan.blocks /\ scan'.duplicates = scan.duplicates
    BY <2>1 DEF ScanInv, IsScan
  <2>3. ExactClaims
    BY <1>6 DEF ScanInv, pass2_directories
  <2>4. ExactClaims'
    BY <2>1, <2>2, <2>3, ClaimsStay DEF ExactClaims
  <2>5. QED
    BY <2>1, <2>2, <2>4 DEF ScanInv, IsScan
<1>7. CASE pass3_connectivity
  <2>1. UNCHANGED <<disk, gd, scan>> /\ pc = "pass3" /\ pc' = "pass4"
    BY <1>7 DEF pass3_connectivity, device, handle
  <2>2. ExactClaims'
    BY <2>1, ClaimsStay DEF ScanInv, ExactClaims
  <2>3. QED
    BY <2>1, <2>2 DEF ScanInv, IsScan
<1>8. ASSUME \/ skip \/ SkipFlush \/ Pass2Fails \/ pass4_link_counts
             \/ preen_halt \/ HaltFlush \/ FixLinks \/ LinksDone
             \/ Pass5Blocks \/ Pass5Inodes \/ Pass5Counts
             \/ Conclude \/ FlushDescs \/ FlushDevice
      PROVE  ScanInv'
  <2>1. scan' = scan /\ pc' \notin {"due", "pass1", "pass2", "pass3", "pass4"}
    BY <1>8 DEF skip, SkipFlush, Pass2Fails, pass4_link_counts, preen_halt, HaltFlush, FixLinks, LinksDone,
                Pass5Blocks, Pass5Inodes, Pass5Counts, Conclude, FlushDescs, FlushDevice
  <2>2. QED
    BY <2>1 DEF ScanInv, IsScan
<1>9. QED
  BY <1>1, <1>2, <1>3, <1>4, <1>5, <1>6, <1>7, <1>8 DEF Next, Step

\* The runs are exact from pass to pass of every check.
LEMMA ScanHolds == Spec => []ScanInv
<1>1. Init => ScanInv
  BY NoScanInStates DEF Init, ScanInv, ScanStates, NoScan, IsScan
<1>2. ScanInv /\ [Next]_vars => ScanInv'
  <2> SUFFICES ASSUME ScanInv, [Next]_vars PROVE ScanInv'
    OBVIOUS
  <2>1. CASE Next
    BY <2>1, ScanStep
  <2>2. CASE UNCHANGED vars
    <3>1. UNCHANGED <<disk, gd, scan, pc>>
      BY <2>2 DEF vars, device, handle
    <3>2. QED
      BY <3>1, ClaimsStay DEF ScanInv, ExactClaims, HoldsMetadata, IsScan
  <2>3. QED
    BY <2>1, <2>2
<1>3. QED
  BY <1>1, <1>2, PTL DEF Spec

\* The runs are exact where the fields and claims are.
LEMMA ScanIsExact ==
    ASSUME ScanInv
    PROVE  RunsAreExact
<1> DEFINE b == scan.blocks
<1>1. b \in Runs /\ IsBlockRuns(b) /\ Counts(b) /\ b.len = blocks_count /\ blocks_count \in Nat
  BY RunsAreBlockRuns, FsckAssumption DEF ScanInv
<1>2. expected_blocks = Blocks(b) \cap Span(<<0, blocks_count>>)
  BY <1>1, WithinIsCut DEF expected_blocks, used_runs
<1>3. Blocks(b) \subseteq Span(<<0, blocks_count>>)
  BY <1>1, BlocksAreFinite DEF IsBlockRuns
<1> HIDE DEF b
<1>4. expected_blocks = Blocks(b)
  BY <1>2, <1>3
<1>5. Separate(b) /\ b.count = Cardinality(Blocks(b))
  BY <1>1 DEF IsBlockRuns, Counts
<1>6. QED
  BY <1>4, <1>5 DEF RunsAreExact, ScanInv, ExactClaims, b

\* "The blocks something owns, held as runs" (BlockRuns) as check_opened fills and uses them: for every
\* filesystem, whatever its inodes claim, the runs hold after pass 1 exactly what pass 0 and pass 1
\* claimed, what was claimed twice is known, and pass 5 reads all of it back.
THEOREM RunsStayExact == Spec => []RunsAreExact
  BY ScanHolds, ScanIsExact, PTL

-------------------------------------------------------------------------------
(* What every check leaves of a device *)

\* The descriptor's counts and checksum may be rewritten, not what hides inodes and bitmaps.
LikeGroupDesc(g, im) ==
    /\ IsGroupDesc(g)
    /\ g.itable_unused = im.disk[Gd].itable_unused
    /\ g.block_uninit = im.disk[Gd].block_uninit /\ g.inode_uninit = im.disk[Gd].inode_uninit

\* An inode's links and checksum may be rewritten, its links never to none.
LikeInode(n, found_as) ==
    /\ n = [found_as EXCEPT !.links = n.links, !.ok = n.ok]
    /\ n.links \in Nat /\ (found_as.links > 0 => n.links > 0)

\* What a place of the device may hold.
MayHold(p, v, im) ==
    /\ p = Sb => IsSuperblock(v)
    /\ p = Gd => LikeGroupDesc(v, im)
    /\ \A i \in Ino : p = Inode(i) => LikeInode(v, im.disk[Inode(i)])
    /\ \A i \in Ino : p = Dir(i) => v = im.disk[p]

Like(d, im) ==
    /\ d = [p \in DOMAIN im.disk |-> d[p]]
    /\ \A p \in DOMAIN im.disk : MayHold(p, d[p], im)

\* A correction is of an inode and gives it at least one link.
IsFix(f) == f[1] \in Ino /\ f[2] \in Nat /\ f[2] > 0

\* What a check has scanned.
IsScanned(s, im) ==
    /\ s.inodes \subseteq Ino /\ s.dirs \subseteq s.inodes
    /\ \A d \in s.dirs : im.disk[Inode(d)].dir
    /\ IsFiniteSet(s.names)
    /\ \A n \in s.names : n[1] \in s.dirs /\ n[2].ino \in s.inodes

CheckInv ==
    /\ image \in Images
    /\ Like(disk, image) /\ Like(safe, image)
    /\ IsSuperblock(sb) /\ LikeGroupDesc(gd, image)
    /\ checks \in 0 .. MaxChecks /\ crashes \in 0 .. MaxCrashes
    /\ mode \in Modes \cup {"check"} /\ force \in BOOLEAN
    /\ IsScanned(scan, image)
    /\ \A f \in fixes : IsFix(f)
    /\ verdict \in {None, "right", "wrong"}

\* An image is like itself.
LEMMA LikeItself ==
    ASSUME NEW im \in Images
    PROVE  Like(im.disk, im)
<1>1. im.disk = [p \in DOMAIN im.disk |-> im.disk[p]]
  BY ImageAssumption
<1>2. ASSUME NEW p \in DOMAIN im.disk PROVE MayHold(p, im.disk[p], im)
  <2>1. p = Sb => IsSuperblock(im.disk[p])
    BY ImageAssumption
  <2>2. p = Gd => LikeGroupDesc(im.disk[p], im)
    BY ImageAssumption DEF LikeGroupDesc
  <2>3. ASSUME NEW i \in Ino PROVE LikeInode(im.disk[Inode(i)], im.disk[Inode(i)])
    <3> DEFINE n == im.disk[Inode(i)]
    <3>1. IsInode(n)
      BY ImageAssumption
    <3> HIDE DEF n
    <3>2. n = [n EXCEPT !.links = n.links, !.ok = n.ok] /\ n.links \in Nat
      BY <3>1 DEF IsInode
    <3>3. QED
      BY <3>2 DEF LikeInode, n
  <2>4. QED
    BY <2>1, <2>2, <2>3 DEF MayHold
<1>3. QED
  BY <1>1, <1>2 DEF Like

\* Writing what a place may hold.
LEMMA WriteLike ==
    ASSUME NEW im, NEW d, Like(d, im), NEW p \in DOMAIN im.disk, NEW v, MayHold(p, v, im),
           NEW after, after = [d EXCEPT ![p] = v]
    PROVE  Like(after, im)
<1>1. DOMAIN d = DOMAIN im.disk
  BY DEF Like
<1>2. \A q \in DOMAIN im.disk : after[q] = IF q = p THEN v ELSE d[q]
  BY <1>1
<1>3. after = [q \in DOMAIN im.disk |-> after[q]]
  BY <1>1
<1>4. \A q \in DOMAIN im.disk : MayHold(q, after[q], im)
  BY <1>2 DEF Like
<1>5. QED
  BY <1>3, <1>4 DEF Like

\* A power cut leaves each place with one of two values.
LEMMA CutLike ==
    ASSUME NEW im, NEW d, Like(d, im), NEW s, Like(s, im), NEW kept,
           NEW after, after = [p \in DOMAIN d |-> IF p \in kept THEN d[p] ELSE s[p]]
    PROVE  Like(after, im)
<1>1. DOMAIN d = DOMAIN im.disk
  BY DEF Like
<1>2. \A q \in DOMAIN im.disk : after[q] = d[q] \/ after[q] = s[q]
  BY <1>1
<1>3. after = [q \in DOMAIN im.disk |-> after[q]]
  BY <1>1
<1>4. \A q \in DOMAIN im.disk : MayHold(q, after[q], im)
  BY <1>2 DEF Like
<1>5. QED
  BY <1>3, <1>4 DEF Like

\* What a place holds, read from a device.
LEMMA LikePlaces ==
    ASSUME NEW im \in Images, NEW d, Like(d, im)
    PROVE  /\ IsSuperblock(d[Sb]) /\ LikeGroupDesc(d[Gd], im)
           /\ \A i \in Ino : LikeInode(d[Inode(i)], im.disk[Inode(i)])
           /\ \A i \in Ino : im.disk[Inode(i)].dir => d[Dir(i)] = im.disk[Dir(i)]
<1>1. {Sb, Gd, BlockBitmap, InodeBitmap} \cup {Inode(i) : i \in Ino} \subseteq DOMAIN im.disk
  BY ImageAssumption
<1>2. \A i \in Ino : im.disk[Inode(i)].dir => Dir(i) \in DOMAIN im.disk
  BY ImageAssumption
<1>3. QED
  BY <1>1, <1>2 DEF Like, MayHold

\* What the checker writes to each kind of place is what it may hold.
LEMMA MayHoldPlaces ==
    ASSUME NEW im, NEW v
    PROVE  /\ IsSuperblock(v) => MayHold(Sb, v, im)
           /\ LikeGroupDesc(v, im) => MayHold(Gd, v, im)
           /\ MayHold(BlockBitmap, v, im) /\ MayHold(InodeBitmap, v, im)
           /\ \A i \in Ino : LikeInode(v, im.disk[Inode(i)]) => MayHold(Inode(i), v, im)
  BY DEF MayHold, Sb, Gd, BlockBitmap, InodeBitmap, Inode, Dir

\* A superblock keeps its fields through the checker's assignments.
LEMMA SuperblockFields ==
    ASSUME NEW s, IsSuperblock(s), NEW a, NEW b, NEW c
    PROVE  /\ IsSuperblock([s EXCEPT !.ok = a]) /\ IsSuperblock([s EXCEPT !.error = a])
           /\ IsSuperblock([s EXCEPT !.free_blocks = a, !.free_inodes = b])
           /\ IsSuperblock([s EXCEPT !.valid = a, !.due = b])
           /\ IsSuperblock([s EXCEPT !.valid = a, !.error = b, !.due = c])
<1>1. IsSuperblock([s EXCEPT !.ok = a])
  BY DEF IsSuperblock
<1>2. IsSuperblock([s EXCEPT !.error = a])
  BY DEF IsSuperblock
<1>3. IsSuperblock([s EXCEPT !.free_blocks = a, !.free_inodes = b])
  <2> DEFINE e1 == [s EXCEPT !.free_blocks = a]
             e2 == [e1 EXCEPT !.free_inodes = b]
  <2>1. IsSuperblock(e1)
    BY DEF IsSuperblock
  <2> HIDE DEF e1
  <2>2. IsSuperblock(e2)
    BY <2>1 DEF IsSuperblock
  <2>3. QED
    BY <2>2 DEF e1
<1>4. IsSuperblock([s EXCEPT !.valid = a, !.due = b])
  <2> DEFINE e1 == [s EXCEPT !.valid = a]
             e2 == [e1 EXCEPT !.due = b]
  <2>1. IsSuperblock(e1)
    BY DEF IsSuperblock
  <2> HIDE DEF e1
  <2>2. IsSuperblock(e2)
    BY <2>1 DEF IsSuperblock
  <2>3. QED
    BY <2>2 DEF e1
<1>5. IsSuperblock([s EXCEPT !.valid = a, !.error = b, !.due = c])
  <2> DEFINE e1 == [s EXCEPT !.valid = a]
             e2 == [e1 EXCEPT !.error = b]
             e3 == [e2 EXCEPT !.due = c]
  <2>1. IsSuperblock(e1)
    BY DEF IsSuperblock
  <2> HIDE DEF e1
  <2>2. IsSuperblock(e2)
    BY <2>1 DEF IsSuperblock
  <2> HIDE DEF e2
  <2>3. IsSuperblock(e3)
    BY <2>2 DEF IsSuperblock
  <2>4. QED
    BY <2>3 DEF e1, e2
<1>6. QED
  BY <1>1, <1>2, <1>3, <1>4, <1>5

\* The descriptor, likewise.
LEMMA GroupDescFields ==
    ASSUME NEW im, NEW g, LikeGroupDesc(g, im), NEW a, NEW b, NEW c
    PROVE  /\ LikeGroupDesc([g EXCEPT !.ok = a], im)
           /\ LikeGroupDesc([g EXCEPT !.free_blocks = a, !.free_inodes = b, !.used_dirs = c], im)
<1>1. LikeGroupDesc([g EXCEPT !.ok = a], im)
  BY DEF LikeGroupDesc, IsGroupDesc
<1>2. LikeGroupDesc([g EXCEPT !.free_blocks = a, !.free_inodes = b, !.used_dirs = c], im)
  <2> DEFINE e1 == [g EXCEPT !.free_blocks = a]
             e2 == [e1 EXCEPT !.free_inodes = b]
             e3 == [e2 EXCEPT !.used_dirs = c]
  <2>1. LikeGroupDesc(e1, im)
    BY DEF LikeGroupDesc, IsGroupDesc
  <2> HIDE DEF e1
  <2>2. LikeGroupDesc(e2, im)
    BY <2>1 DEF LikeGroupDesc, IsGroupDesc
  <2> HIDE DEF e2
  <2>3. LikeGroupDesc(e3, im)
    BY <2>2 DEF LikeGroupDesc, IsGroupDesc
  <2>4. QED
    BY <2>3 DEF e1, e2
<1>3. QED
  BY <1>1, <1>2

\* An inode given links, likewise.
LEMMA InodeFields ==
    ASSUME NEW im \in Images, NEW i \in Ino, NEW n, LikeInode(n, im.disk[Inode(i)]),
           NEW links \in Nat, links > 0, NEW a
    PROVE  /\ LikeInode([n EXCEPT !.links = links, !.ok = a], im.disk[Inode(i)])
           /\ n.dir = im.disk[Inode(i)].dir /\ n.reaches = im.disk[Inode(i)].reaches
<1> DEFINE f == im.disk[Inode(i)]
<1>1. IsInode(f)
  BY ImageAssumption
<1> HIDE DEF f
<1>2. n = [f EXCEPT !.links = n.links, !.ok = n.ok]
  BY DEF LikeInode, f
<1>3. n.dir = f.dir /\ n.reaches = f.reaches
  BY <1>1, <1>2 DEF IsInode
<1>4. LikeInode([n EXCEPT !.links = links, !.ok = a], f)
  <2> DEFINE m == [n EXCEPT !.links = links, !.ok = a]
  <2>1. m.links = links /\ m = [f EXCEPT !.links = m.links, !.ok = m.ok]
    BY <1>1, <1>2 DEF IsInode
  <2> HIDE DEF m
  <2>2. LikeInode(m, f)
    BY <2>1 DEF LikeInode
  <2>3. QED
    BY <2>2 DEF m
<1>5. QED
  BY <1>3, <1>4 DEF f

\* A handle opened anew reads what the device holds.
LEMMA FreshHandle ==
    ASSUME image' \in Images, Like(disk', image'), Fresh
    PROVE  /\ IsSuperblock(sb') /\ LikeGroupDesc(gd', image')
           /\ IsScanned(scan', image') /\ (\A f \in fixes' : IsFix(f))
<1>1. IsSuperblock(sb') /\ LikeGroupDesc(gd', image')
  BY LikePlaces DEF Fresh
<1>2. IsFiniteSet({})
  BY FS_EmptySet
<1>3. IsScanned(NoScan, image')
  BY <1>2 DEF NoScan, IsScanned
<1>4. QED
  BY <1>1, <1>3 DEF Fresh

\* Writing to the device what a place may hold keeps it like the image.
LEMMA WriteKeeps ==
    ASSUME CheckInv, NEW p \in DOMAIN image.disk, NEW v, MayHold(p, v, image), Write(p, v), image' = image
    PROVE  Like(disk', image') /\ Like(safe', image')
  BY WriteLike DEF Write, CheckInv

\* The places the checker writes are there.
LEMMA Places ==
    ASSUME CheckInv
    PROVE  /\ Sb \in DOMAIN image.disk /\ Gd \in DOMAIN image.disk
           /\ BlockBitmap \in DOMAIN image.disk /\ InodeBitmap \in DOMAIN image.disk
           /\ \A i \in Ino : Inode(i) \in DOMAIN image.disk
<1>1. {Sb, Gd, BlockBitmap, InodeBitmap} \cup {Inode(i) : i \in Ino} \subseteq DOMAIN image.disk
  BY ImageAssumption DEF CheckInv
<1>2. QED
  BY <1>1

\* A check is opened, or ends with the device or the power.
LEMMA CheckOpenOrEnds ==
    ASSUME CheckInv, (\E m \in Modes, f \in Forced : Open(m, f)) \/ DeviceFails \/ PowerCut
    PROVE  CheckInv'
<1>1. ASSUME NEW m \in Modes, NEW f \in Forced, Open(m, f) PROVE CheckInv'
  <2>1. Like(disk', image') /\ Like(safe', image') /\ image' \in Images /\ Fresh
    BY <1>1 DEF CheckInv, Open, device
  <2>2. checks' \in 0 .. MaxChecks
    BY <1>1, FsckAssumption DEF CheckInv, Open
  <2>3. mode' \in Modes /\ force' \in BOOLEAN /\ UNCHANGED <<crashes, verdict>>
    BY <1>1, FsckAssumption DEF Open
  <2>4. QED
    BY <2>1, <2>2, <2>3, FreshHandle DEF CheckInv
<1>2. CASE DeviceFails
  <2>1. Like(disk', image') /\ Like(safe', image') /\ image' \in Images /\ Fresh
    BY <1>2 DEF CheckInv, DeviceFails, device
  <2>2. crashes' \in 0 .. MaxCrashes
    BY <1>2, FsckAssumption DEF CheckInv, DeviceFails
  <2>3. UNCHANGED <<checks, mode, force, verdict>>
    BY <1>2 DEF DeviceFails, run
  <2>4. QED
    BY <2>1, <2>2, <2>3, FreshHandle DEF CheckInv
<1>3. CASE PowerCut
  <2>1. PICK kept : disk' = [p \in DOMAIN disk |-> IF p \in kept THEN disk[p] ELSE safe[p]]
    BY <1>3 DEF PowerCut
  <2>2. Like(disk', image)
    BY <2>1, CutLike DEF CheckInv
  <2>3. Like(disk', image') /\ Like(safe', image') /\ image' \in Images /\ Fresh
    BY <1>3, <2>2 DEF CheckInv, PowerCut
  <2>4. crashes' \in 0 .. MaxCrashes
    BY <1>3, FsckAssumption DEF CheckInv, PowerCut
  <2>5. UNCHANGED <<checks, mode, force, verdict>>
    BY <1>3 DEF PowerCut, run
  <2>6. QED
    BY <2>3, <2>4, <2>5, FreshHandle DEF CheckInv
<1>4. QED
  BY <1>1, <1>2, <1>3

\* The names in a directory's blocks, counted or not, are finitely many.
LEMMA EntriesAreFinite ==
    ASSUME CheckInv, NEW d \in Ino, image.disk[Inode(d)].dir
    PROVE  IsFiniteSet(Entries(d))
<1>1. disk[Dir(d)] = image.disk[Dir(d)] /\ IsFiniteSet(image.disk[Dir(d)].names)
  BY LikePlaces, ImageAssumption DEF CheckInv
<1> DEFINE one == [name |-> ".", ino |-> disk[Dir(d)].dot, type |-> "dir"]
           two == [name |-> "..", ino |-> disk[Dir(d)].dotdot, type |-> "dir"]
           dots == {e \in {one, two} : e.ino # 0}
<1>2. Entries(d) = dots \cup disk[Dir(d)].names
  BY DEF Entries
<1> HIDE DEF one, two
<1>3. IsFiniteSet({one, two})
  <2> DEFINE A == {one}
             B == {two}
  <2>1. IsFiniteSet(A) /\ IsFiniteSet(B)
    BY FS_Singleton
  <2>2. {one, two} = A \cup B
    OBVIOUS
  <2> HIDE DEF A, B
  <2>3. IsFiniteSet(A \cup B)
    BY <2>1, FS_Union
  <2>4. QED
    BY <2>2, <2>3
<1>4. dots \subseteq {one, two}
  OBVIOUS
<1> HIDE DEF dots
<1>5. IsFiniteSet(dots)
  BY <1>3, <1>4, FS_Subset
<1>6. QED
  BY <1>1, <1>2, <1>5, FS_Union

\* Pass 1: what is in use is an inode, and what is a directory was one in the image.
LEMMA CheckPassOne ==
    ASSUME CheckInv, ScanInv, pass1_inodes
    PROVE  IsScanned(scan', image)
<1> DEFINE after == ClaimWalked(scan)
<1>1. scan' = [after EXCEPT !.inodes = in_use, !.dirs = {i \in in_use : Node(i).dir}]
  BY DEF pass1_inodes
<1>2. after \in ScanStates
  BY PassOneIsExact DEF ScanInv, pass1_inodes
<1> HIDE DEF after
<1>3. /\ scan'.inodes = in_use /\ scan'.dirs = {i \in in_use : Node(i).dir} /\ scan'.names = {}
  BY <1>1, <1>2 DEF ScanStates
<1>4. in_use \subseteq Ino
  BY DEF in_use, Live
<1>5. \A i \in Ino : Node(i).dir = image.disk[Inode(i)].dir
  <2> SUFFICES ASSUME NEW i \in Ino PROVE Node(i).dir = image.disk[Inode(i)].dir
    OBVIOUS
  <2>1. LikeInode(Node(i), image.disk[Inode(i)]) /\ image \in Images
    BY LikePlaces DEF CheckInv, Node
  <2>2. 1 \in Nat /\ 1 > 0
    OBVIOUS
  <2>3. QED
    BY <2>1, <2>2, InodeFields
<1>6. IsFiniteSet({})
  BY FS_EmptySet
<1>7. QED
  BY <1>3, <1>4, <1>5, <1>6 DEF IsScanned

\* Pass 2: every name it keeps is of a directory and leads to an inode in use.
LEMMA CheckPassTwo ==
    ASSUME CheckInv, ScanInv, pass2_directories
    PROVE  IsScanned(scan', image)
<1> DEFINE names == UNION {{<<d, e>> : e \in Counted(d)} : d \in Parsed}
<1>1. \E p : scan' = [scan EXCEPT !.parents = p, !.names = names]
  BY DEF pass2_directories
<1>2. Parsed \subseteq scan.dirs /\ scan.dirs \subseteq Ino
  BY DEF Parsed, CheckInv, IsScanned
<1>3. IsFiniteSet(Parsed)
  <2>1. IsFiniteSet(Ino)
    BY FsckAssumption
  <2>2. QED
    BY <1>2, <2>1, FS_Subset
<1>4. ASSUME NEW d \in Parsed PROVE IsFiniteSet({<<d, e>> : e \in Counted(d)})
  <2>1. IsFiniteSet(Entries(d))
    BY <1>2, EntriesAreFinite DEF CheckInv, IsScanned
  <2>2. Counted(d) \subseteq Entries(d)
    BY DEF Counted, InRange
  <2>3. IsFiniteSet(Counted(d))
    BY <2>1, <2>2, FS_Subset
  <2> DEFINE C == Counted(d)
             f == [e \in C |-> <<d, e>>]
  <2> HIDE DEF C
  <2>4. {<<d, e>> : e \in C} = {f[e] : e \in C}
    OBVIOUS
  <2>5. f \in Surjection(C, {f[e] : e \in C})
    BY DEF Surjection
  <2> HIDE DEF f
  <2>6. IsFiniteSet({f[e] : e \in C})
    BY <2>3, <2>5, FS_Surjection DEF C
  <2>7. QED
    BY <2>4, <2>6 DEF C
<1>5. IsFiniteSet(names)
  <2> DEFINE of == [d \in Parsed |-> {<<d, e>> : e \in Counted(d)}]
             family == {of[d] : d \in Parsed}
  <2>1. family = {{<<d, e>> : e \in Counted(d)} : d \in Parsed}
    OBVIOUS
  <2>2. \A s \in family : IsFiniteSet(s)
    BY <1>4, <2>1
  <2>3. of \in Surjection(Parsed, family)
    BY DEF Surjection
  <2> HIDE DEF of
  <2>4. IsFiniteSet(family)
    BY <1>3, <2>3, FS_Surjection
  <2>5. names = UNION family
    BY <2>1
  <2> HIDE DEF family, names
  <2>6. QED
    BY <2>2, <2>4, <2>5, FS_UNION
<1>6. \A n \in names : n[1] \in scan.dirs /\ n[2].ino \in scan.inodes
  BY <1>2 DEF Counted, InRange
<1> HIDE DEF names
<1>7. scan'.names = names /\ scan'.dirs = scan.dirs /\ scan'.inodes = scan.inodes
  BY <1>1 DEF ScanInv, IsScan
<1>8. QED
  BY <1>5, <1>6, <1>7 DEF CheckInv, IsScanned

\* Pass 4: it corrects a count only to the number of names it found, which is not none.
LEMMA CheckPassFour ==
    ASSUME CheckInv, pass4_link_counts
    PROVE  \A f \in fixes' : IsFix(f)
<1>1. ASSUME NEW i PROVE observed_links(i) \in Nat
  <2> DEFINE N == {n \in scan.names : n[2].ino = i}
  <2>1. IsFiniteSet(scan.names) /\ N \subseteq scan.names
    BY DEF CheckInv, IsScanned
  <2> HIDE DEF N
  <2>2. Cardinality(N) \in Nat
    BY <2>1, FS_Subset, FS_CardinalityType
  <2>3. QED
    BY <2>2 DEF observed_links, N
<1>2. \A f \in fixes' : \E i \in scan.inodes : f = <<i, observed_links(i)>> /\ observed_links(i) # 0
  BY DEF pass4_link_counts
<1>3. QED
  BY <1>1, <1>2 DEF IsFix, CheckInv, IsScanned

\* Each step of a check leaves the device like the image it started from.
LEMMA CheckStep ==
    ASSUME CheckInv, ScanInv, Next
    PROVE  CheckInv'
<1> USE DEF run, handle, device
<1>1. CASE (\E m \in Modes, f \in Forced : Open(m, f)) \/ DeviceFails \/ PowerCut
  BY <1>1, CheckOpenOrEnds
<1>2. CASE pass0_superblock
  <2>1. scan' \in ScanStates
    BY <1>2, PassZeroClaims DEF pass0_superblock, HoldsMetadata
  <2>2. IsFiniteSet({})
    BY FS_EmptySet
  <2>3. IsScanned(scan', image)
    BY <2>1, <2>2 DEF ScanStates, IsScanned
  <2>4. QED
    BY <1>2, <2>3 DEF pass0_superblock, CheckInv
<1>3. CASE Due \/ Pass2Fails \/ pass3_connectivity \/ LinksDone
  BY <1>3 DEF Due, Pass2Fails, pass3_connectivity, LinksDone, CheckInv
<1>4. CASE skip
  <2>1. CASE UNCHANGED <<device, sb>>
    BY <1>4, <2>1 DEF skip, CheckInv
  <2>2. CASE ~UNCHANGED <<device, sb>>
    <3> DEFINE aligned == [sb EXCEPT !.free_blocks = gd.free_blocks, !.free_inodes = gd.free_inodes]
               written == [aligned EXCEPT !.ok = TRUE]
    <3>1. sb' = aligned /\ Write(Sb, written) /\ UNCHANGED <<image, crashes, run, gd, scan, fixes, verdict>>
      BY <1>4, <2>2 DEF skip, flush_superblock
    <3>2. IsSuperblock(aligned)
      BY SuperblockFields DEF CheckInv
    <3> HIDE DEF aligned
    <3>3. IsSuperblock(written)
      BY <3>2, SuperblockFields
    <3> HIDE DEF written
    <3>4. Like(disk', image') /\ Like(safe', image')
      BY <3>1, <3>3, MayHoldPlaces, Places, WriteKeeps
    <3>5. QED
      BY <3>1, <3>2, <3>4 DEF CheckInv
  <2>3. QED
    BY <2>1, <2>2
<1>5. CASE SkipFlush \/ HaltFlush \/ FlushDevice
  BY <1>5 DEF SkipFlush, HaltFlush, FlushDevice, Sync, CheckInv
<1>6. CASE pass1_inodes
  BY <1>6, CheckPassOne DEF pass1_inodes, CheckInv
<1>7. CASE pass2_directories
  BY <1>7, CheckPassTwo DEF pass2_directories, CheckInv
<1>8. CASE pass4_link_counts
  BY <1>8, CheckPassFour DEF pass4_link_counts, CheckInv
<1>9. CASE preen_halt
  <2> DEFINE marked == [sb EXCEPT !.error = TRUE]
             written == [marked EXCEPT !.ok = TRUE]
  <2>1. sb' = marked /\ Write(Sb, written) /\ UNCHANGED <<image, crashes, run, gd, scan, fixes, verdict>>
    BY <1>9 DEF preen_halt, flush_superblock
  <2>2. IsSuperblock(marked)
    BY SuperblockFields DEF CheckInv
  <2> HIDE DEF marked
  <2>3. IsSuperblock(written)
    BY <2>2, SuperblockFields
  <2> HIDE DEF written
  <2>4. Like(disk', image') /\ Like(safe', image')
    BY <2>1, <2>3, MayHoldPlaces, Places, WriteKeeps
  <2>5. QED
    BY <2>1, <2>2, <2>4 DEF CheckInv
<1>10. CASE FixLinks
  <2>1. PICK f \in fixes : /\ Write(Inode(f[1]), [Node(f[1]) EXCEPT !.links = f[2], !.ok = TRUE])
                           /\ fixes' = fixes \ {f}
    BY <1>10 DEF FixLinks
  <2> DEFINE i == f[1]
             n == Node(i)
             written == [n EXCEPT !.links = f[2], !.ok = TRUE]
  <2>2. i \in Ino /\ f[2] \in Nat /\ f[2] > 0
    BY DEF CheckInv, IsFix
  <2>3. LikeInode(n, image.disk[Inode(i)]) /\ image \in Images
    BY <2>2, LikePlaces DEF CheckInv, Node
  <2> HIDE DEF i, n
  <2>4. LikeInode(written, image.disk[Inode(i)])
    BY <2>2, <2>3, InodeFields
  <2>5. Write(Inode(i), written)
    BY <2>1 DEF i, n
  <2> HIDE DEF written
  <2>6. UNCHANGED <<image, crashes, run, handle, scan, verdict>>
    BY <1>10 DEF FixLinks
  <2>7. Like(disk', image') /\ Like(safe', image')
    BY <2>2, <2>4, <2>5, <2>6, MayHoldPlaces, Places, WriteKeeps
  <2>8. QED
    BY <2>1, <2>6, <2>7 DEF CheckInv
<1>11. CASE Pass5Blocks
  <2>1. UNCHANGED <<image, crashes, run, handle, scan, fixes, verdict>>
    BY <1>11 DEF Pass5Blocks
  <2>2. Write(BlockBitmap, expected_blocks) \/ UNCHANGED device
    BY <1>11 DEF Pass5Blocks
  <2>3. Like(disk', image') /\ Like(safe', image')
    <3>1. CASE Write(BlockBitmap, expected_blocks)
      BY <2>1, <3>1, MayHoldPlaces, Places, WriteKeeps
    <3>2. CASE UNCHANGED device
      BY <2>1, <3>2 DEF CheckInv
    <3>3. QED
      BY <2>2, <3>1, <3>2
  <2>4. QED
    BY <2>1, <2>3 DEF CheckInv
<1>12. CASE Pass5Inodes
  <2>1. UNCHANGED <<image, crashes, run, handle, scan, fixes, verdict>>
    BY <1>12 DEF Pass5Inodes
  <2>2. Write(InodeBitmap, scan.inodes) \/ UNCHANGED device
    BY <1>12 DEF Pass5Inodes
  <2>3. Like(disk', image') /\ Like(safe', image')
    <3>1. CASE Write(InodeBitmap, scan.inodes)
      BY <2>1, <3>1, MayHoldPlaces, Places, WriteKeeps
    <3>2. CASE UNCHANGED device
      BY <2>1, <3>2 DEF CheckInv
    <3>3. QED
      BY <2>2, <3>1, <3>2
  <2>4. QED
    BY <2>1, <2>3 DEF CheckInv
<1>13. CASE Pass5Counts
  <2>1. UNCHANGED <<image, device, crashes, run, scan, fixes, verdict>>
    BY <1>13 DEF Pass5Counts
  <2>2. \/ /\ gd' = [gd EXCEPT !.free_blocks = free_blocks, !.free_inodes = free_inodes,
                                !.used_dirs = Cardinality(scan.dirs)]
           /\ sb' = [sb EXCEPT !.free_blocks = free_blocks, !.free_inodes = free_inodes]
        \/ UNCHANGED handle
    BY <1>13 DEF Pass5Counts
  <2>3. IsSuperblock(sb') /\ LikeGroupDesc(gd', image)
    <3>1. IsSuperblock(sb) /\ LikeGroupDesc(gd, image)
      BY DEF CheckInv
    <3>2. IsSuperblock([sb EXCEPT !.free_blocks = free_blocks, !.free_inodes = free_inodes])
      BY <3>1, SuperblockFields
    <3>3. LikeGroupDesc([gd EXCEPT !.free_blocks = free_blocks, !.free_inodes = free_inodes,
                                   !.used_dirs = Cardinality(scan.dirs)], image)
      BY <3>1, GroupDescFields
    <3>4. QED
      BY <2>2, <3>1, <3>2, <3>3
  <2>4. QED
    BY <2>1, <2>3 DEF CheckInv
<1>14. CASE Conclude
  <2> DEFINE written == [sb' EXCEPT !.ok = TRUE]
  <2>1. /\ \/ sb' = [sb EXCEPT !.valid = FALSE, !.due = FALSE]
           \/ sb' = [sb EXCEPT !.valid = TRUE, !.error = FALSE, !.due = FALSE]
        /\ Write(Sb, written) /\ UNCHANGED <<image, crashes, run, gd, scan, fixes, verdict>>
    BY <1>14 DEF Conclude, flush_superblock
  <2>2. IsSuperblock(sb')
    <3>1. IsSuperblock(sb)
      BY DEF CheckInv
    <3>2. IsSuperblock([sb EXCEPT !.valid = FALSE, !.due = FALSE])
      BY <3>1, SuperblockFields
    <3>3. IsSuperblock([sb EXCEPT !.valid = TRUE, !.error = FALSE, !.due = FALSE])
      BY <3>1, SuperblockFields
    <3>4. QED
      BY <2>1, <3>2, <3>3
  <2>3. IsSuperblock(written)
    BY <2>2, SuperblockFields
  <2> HIDE DEF written
  <2>4. Like(disk', image') /\ Like(safe', image')
    BY <2>1, <2>3, MayHoldPlaces, Places, WriteKeeps
  <2>5. QED
    BY <2>1, <2>2, <2>4 DEF CheckInv
<1>15. CASE FlushDescs
  <2>1. UNCHANGED <<image, crashes, run, sb, scan, fixes, verdict>>
    BY <1>15 DEF FlushDescs
  <2>2. CASE UNCHANGED <<gd, device>>
    BY <2>1, <2>2 DEF CheckInv
  <2>3. CASE gd' = [gd EXCEPT !.ok = TRUE] /\ Write(Gd, gd')
    <3>1. LikeGroupDesc(gd', image)
      BY <2>3, GroupDescFields DEF CheckInv
    <3>2. Like(disk', image') /\ Like(safe', image')
      BY <2>1, <2>3, <3>1, MayHoldPlaces, Places, WriteKeeps
    <3>3. QED
      BY <2>1, <3>1, <3>2 DEF CheckInv
  <2>4. QED
    BY <1>15, <2>2, <2>3 DEF FlushDescs
<1>16. QED
  BY <1>1, <1>2, <1>3, <1>4, <1>5, <1>6, <1>7, <1>8, <1>9, <1>10, <1>11, <1>12, <1>13, <1>14, <1>15 DEF Next, Step

\* A device stays like its image through every check, cut short or not.
LEMMA CheckHolds == Spec => []CheckInv
<1>1. Init => CheckInv
  <2> SUFFICES ASSUME Init PROVE CheckInv
    OBVIOUS
  <2>1. image \in Images /\ disk = image.disk /\ safe = image.disk
    BY DEF Init
  <2>2. Like(disk, image) /\ Like(safe, image)
    BY <2>1, LikeItself
  <2>3. IsSuperblock(sb) /\ LikeGroupDesc(gd, image)
    BY <2>1, <2>2, LikePlaces DEF Init
  <2>4. IsScanned(scan, image)
    <3>1. IsFiniteSet({})
      BY FS_EmptySet
    <3>2. IsScanned(NoScan, image)
      BY <3>1 DEF NoScan, IsScanned
    <3>3. QED
      BY <3>2 DEF Init
  <2>5. checks \in 0 .. MaxChecks /\ crashes \in 0 .. MaxCrashes
    BY FsckAssumption DEF Init
  <2>6. mode \in Modes \cup {"check"} /\ force \in BOOLEAN /\ fixes = {} /\ verdict = None
    BY DEF Init
  <2>7. QED
    BY <2>1, <2>2, <2>3, <2>4, <2>5, <2>6 DEF CheckInv
<1>2. CheckInv /\ ScanInv /\ [Next]_vars => CheckInv'
  <2> SUFFICES ASSUME CheckInv, ScanInv, [Next]_vars PROVE CheckInv'
    OBVIOUS
  <2>1. CASE Next
    BY <2>1, CheckStep
  <2>2. CASE UNCHANGED vars
    BY <2>2 DEF vars, device, handle, run, CheckInv
  <2>3. QED
    BY <2>1, <2>2
<1>3. QED
  BY <1>1, <1>2, ScanHolds, PTL DEF Spec

\* TypeOK of the checker: among it that pass 4 never asks for a count of no links, whatever the
\* directories say, and that every name that was counted is of an inode in use.
THEOREM TypeCorrect == Spec => []TypeOK
<1>1. ScanInv /\ CheckInv => TypeOK
  <2> SUFFICES ASSUME ScanInv, CheckInv PROVE TypeOK
    OBVIOUS
  <2>1. DOMAIN disk = DOMAIN safe
    BY DEF CheckInv, Like
  <2>2. scan.blocks.len = blocks_count
    BY RunsAreBlockRuns DEF ScanInv
  <2>3. QED
    BY <2>1, <2>2 DEF TypeOK, CheckInv, IsScanned, IsFix
<1>2. QED
  BY <1>1, ScanHolds, CheckHolds, PTL

-------------------------------------------------------------------------------
(* A preen that halts *)

\* The device as preen_halt leaves it.
Halted == disk = [found EXCEPT ![Sb].error = TRUE, ![Sb].ok = TRUE]

\* While a check only reads, the device and the superblock are what they were when it began; and a check
\* that will halt has only read.
HaltInv ==
    /\ pc \in {"pass0", "due", "pass1", "pass2", "pass3", "pass4"} \/ (pc = "decide" /\ Halts)
          => disk = found /\ sb = disk[Sb]
    /\ pc \in {"halt", "halted"} => Halted

\* The fields of a problem.
IsProblem(p) == p = [code |-> p.code, at |-> p.at, fixed |-> p.fixed]

ProblemsInv == \A p \in problems : IsProblem(p)

\* A finding has its fields, and keeps them when it is marked.
LEMMA FoundAreProblems ==
    /\ \A code, where : \A p \in Found(code, where) : IsProblem(p)
    /\ \A code, condition : \A p \in If(code, condition) : IsProblem(p)
    /\ \A ps : (\A p \in ps : IsProblem(p)) => \A p \in Fixed(ps) : IsProblem(p)
    /\ \A p : IsProblem(p) => IsProblem([p EXCEPT !.fixed = TRUE]) /\ [p EXCEPT !.fixed = TRUE].code = p.code
<1>1. \A code, where : \A p \in Found(code, where) : IsProblem(p)
  BY DEF Found, IsProblem
<1>2. \A code, condition : \A p \in If(code, condition) : IsProblem(p)
  BY <1>1 DEF If
<1>3. ASSUME NEW p, IsProblem(p), NEW x PROVE IsProblem([p EXCEPT !.fixed = x]) /\ [p EXCEPT !.fixed = x].code = p.code
  BY <1>3 DEF IsProblem
<1>4. \A ps : (\A p \in ps : IsProblem(p)) => \A p \in Fixed(ps) : IsProblem(p)
  BY <1>3 DEF Fixed
<1>5. QED
  BY <1>1, <1>2, <1>3, <1>4

\* Every problem of every check has its fields.
LEMMA ProblemsHold == Spec => []ProblemsInv
<1>1. Init => ProblemsInv
  BY DEF Init, ProblemsInv
<1>2. ProblemsInv /\ [Next]_vars => ProblemsInv'
  <2> SUFFICES ASSUME ProblemsInv, [Next]_vars PROVE ProblemsInv'
    OBVIOUS
  <2>1. CASE \/ UNCHANGED vars \/ Due \/ SkipFlush \/ Pass2Fails \/ preen_halt \/ HaltFlush \/ LinksDone
             \/ FlushDescs \/ FlushDevice
    BY <2>1 DEF vars, Due, SkipFlush, Pass2Fails, preen_halt, HaltFlush, LinksDone, FlushDescs, FlushDevice, ProblemsInv
  <2>2. CASE \/ (\E m \in Modes, f \in Forced : Open(m, f)) \/ DeviceFails \/ PowerCut \/ skip
    BY <2>2 DEF Open, DeviceFails, PowerCut, Fresh, skip, ProblemsInv
  <2>3. CASE pass0_superblock
    BY <2>3, FoundAreProblems DEF pass0_superblock, ProblemsInv
  <2>4. CASE pass1_inodes
    BY <2>4, FoundAreProblems DEF pass1_inodes, ProblemsInv
  <2>5. CASE pass2_directories
    BY <2>5, FoundAreProblems DEF pass2_directories, ProblemsInv
  <2>6. CASE pass3_connectivity
    BY <2>6, FoundAreProblems DEF pass3_connectivity, ProblemsInv
  <2>7. CASE pass4_link_counts
    BY <2>7, FoundAreProblems DEF pass4_link_counts, ProblemsInv
  <2>8. CASE FixLinks
    BY <2>8, FoundAreProblems DEF FixLinks, ProblemsInv
  <2>9. CASE Pass5Blocks
    BY <2>9, FoundAreProblems DEF Pass5Blocks, ProblemsInv
  <2>10. CASE Pass5Inodes
    BY <2>10, FoundAreProblems DEF Pass5Inodes, ProblemsInv
  <2>11. CASE Pass5Counts
    BY <2>11, FoundAreProblems DEF Pass5Counts, ProblemsInv
  <2>12. CASE Conclude
    BY <2>12, FoundAreProblems DEF Conclude, ProblemsInv
  <2>13. QED
    BY <2>1, <2>2, <2>3, <2>4, <2>5, <2>6, <2>7, <2>8, <2>9, <2>10, <2>11, <2>12 DEF Next, Step
<1>3. QED
  BY <1>1, <1>2, PTL DEF Spec

\* A repair leaves a check that does not halt one that does not.
LEMMA FixKeepsGoing ==
    ASSUME ProblemsInv, FixLinks
    PROVE  ~Halts'
<1>1. ~Halts /\ mode' = mode
  BY DEF FixLinks, run
<1>2. PICK f : problems' = {IF p.code = "link-count-wrong" /\ p.at = f[1] THEN [p EXCEPT !.fixed = TRUE]
                                                                         ELSE p : p \in problems}
  BY DEF FixLinks
<1>3. ASSUME NEW q \in problems', needs_a_person(q) PROVE q \in problems
  <2>1. PICK p \in problems : q = IF p.code = "link-count-wrong" /\ p.at = f[1] THEN [p EXCEPT !.fixed = TRUE] ELSE p
    BY <1>2
  <2>2. CASE p.code = "link-count-wrong"
    <3>1. q.code = "link-count-wrong"
      <4>1. [p EXCEPT !.fixed = TRUE].code = p.code
        BY FoundAreProblems DEF ProblemsInv
      <4>2. QED
        BY <2>1, <2>2, <4>1
    <3>2. QED
      BY <1>3, <3>1 DEF needs_a_person, PREEN_OK
  <2>3. CASE p.code # "link-count-wrong"
    BY <2>1, <2>3
  <2>4. QED
    BY <2>2, <2>3
<1>4. QED
  BY <1>1, <1>3 DEF Halts

\* preen_halt's write, said as what it changes of the device.
LEMMA HaltWrites ==
    ASSUME NEW d, d = [p \in DOMAIN d |-> d[p]], Sb \in DOMAIN d
    PROVE  [d EXCEPT ![Sb] = [[d[Sb] EXCEPT !.error = TRUE] EXCEPT !.ok = TRUE]]
             = [d EXCEPT ![Sb].error = TRUE, ![Sb].ok = TRUE]
<1> DEFINE s == d[Sb]
           e == [s EXCEPT !.error = TRUE]
           d1 == [d EXCEPT ![Sb] = e]
<1>1. d1[Sb] = e
  OBVIOUS
<1>2. [d EXCEPT ![Sb].error = TRUE, ![Sb].ok = TRUE] = [d1 EXCEPT ![Sb] = [d1[Sb] EXCEPT !.ok = TRUE]]
  OBVIOUS
<1> HIDE DEF e
<1>3. [d1 EXCEPT ![Sb] = [e EXCEPT !.ok = TRUE]] = [d EXCEPT ![Sb] = [e EXCEPT !.ok = TRUE]]
  OBVIOUS
<1> HIDE DEF d1
<1>4. QED
  BY <1>1, <1>2, <1>3 DEF e

\* Each step keeps a reading check from having written.
LEMMA HaltStep ==
    ASSUME HaltInv, CheckInv, ProblemsInv, Next
    PROVE  HaltInv'
<1> USE DEF run, handle, device
<1>1. ASSUME NEW m \in Modes, NEW f \in Forced, Open(m, f) PROVE HaltInv'
  BY <1>1 DEF Open, Fresh, HaltInv
<1>2. CASE pass0_superblock
  BY <1>2 DEF pass0_superblock, HaltInv
<1>3. CASE Due
  BY <1>3 DEF Due, HaltInv
<1>4. CASE pass1_inodes
  BY <1>4 DEF pass1_inodes, HaltInv
<1>5. CASE pass2_directories
  BY <1>5 DEF pass2_directories, HaltInv
<1>6. CASE pass3_connectivity
  BY <1>6 DEF pass3_connectivity, HaltInv
<1>7. CASE pass4_link_counts
  BY <1>7 DEF pass4_link_counts, HaltInv
<1>8. CASE FixLinks
  <2>1. pc' = "decide" /\ ~Halts'
    BY <1>8, FixKeepsGoing DEF FixLinks
  <2>2. QED
    BY <2>1 DEF HaltInv
<1>9. CASE preen_halt
  <2>1. disk = found /\ sb = disk[Sb] /\ UNCHANGED found /\ pc' = "halt"
    BY <1>9 DEF preen_halt, HaltInv
  <2>2. disk' = [disk EXCEPT ![Sb] = [[disk[Sb] EXCEPT !.error = TRUE] EXCEPT !.ok = TRUE]]
    BY <1>9, <2>1 DEF preen_halt, flush_superblock, Write
  <2>3. Sb \in DOMAIN disk /\ disk = [p \in DOMAIN disk |-> disk[p]]
    BY Places DEF CheckInv, Like
  <2>4. disk' = [found EXCEPT ![Sb].error = TRUE, ![Sb].ok = TRUE]
    BY <2>1, <2>2, <2>3, HaltWrites
  <2>5. QED
    BY <2>1, <2>4 DEF HaltInv, Halted
<1>10. CASE HaltFlush
  BY <1>10 DEF HaltFlush, Sync, HaltInv, Halted
<1>11. CASE \/ skip \/ SkipFlush \/ Pass2Fails \/ LinksDone \/ Pass5Blocks \/ Pass5Inodes \/ Pass5Counts
            \/ Conclude \/ FlushDescs \/ FlushDevice \/ DeviceFails \/ PowerCut
  <2>1. pc' \in {"align", "skipped", "idle", "blocks", "inodes", "counts", "conclude", "descs", "flush", "done"}
    BY <1>11 DEF skip, SkipFlush, Pass2Fails, LinksDone, Pass5Blocks, Pass5Inodes, Pass5Counts,
                 Conclude, FlushDescs, FlushDevice, DeviceFails, PowerCut
  <2>2. QED
    BY <2>1 DEF HaltInv
<1>12. QED
  BY <1>1, <1>2, <1>3, <1>4, <1>5, <1>6, <1>7, <1>8, <1>9, <1>10, <1>11 DEF Next, Step

\* "Nothing was repaired, and the superblock now records errors" (preen_halted): of every filesystem, with
\* any number of checks and power cuts before, a preen that halts leaves each block as that preen
\* found it, but for the superblock's error flag and checksum.
THEOREM HaltOnlyMarks == Spec => []HaltLeavesAsFound
<1>1. Init => HaltInv
  BY DEF Init, HaltInv
<1>2. HaltInv /\ CheckInv /\ ProblemsInv /\ [Next]_vars => HaltInv'
  <2> SUFFICES ASSUME HaltInv, CheckInv, ProblemsInv, [Next]_vars PROVE HaltInv'
    OBVIOUS
  <2>1. CASE Next
    BY <2>1, HaltStep
  <2>2. CASE UNCHANGED vars
    BY <2>2 DEF vars, device, handle, run, HaltInv, Halted, Halts
  <2>3. QED
    BY <2>1, <2>2
<1>3. HaltInv => HaltLeavesAsFound
  BY DEF HaltInv, Halted, HaltLeavesAsFound
<1>4. QED
  BY <1>1, <1>2, <1>3, CheckHolds, ProblemsHold, PTL DEF Spec

-------------------------------------------------------------------------------
(* What is left wrong is looked at again *)

\* check_due runs a check of it.
Marked(s) == s.error \/ ~s.valid

\* Once a writing check has left something wrong, the superblock says so on the device, and so does the
\* handle of every later check until that check writes its own mark.
WrongInv ==
    /\ pc \in {"conclude", "descs", "flush"} => writes
    /\ pc = "halt" => Marked(disk[Sb])
    /\ pc \in {"descs", "flush"} /\ left_wrong => Marked(disk[Sb])
    /\ verdict = "wrong" /\ crashes = 0 =>
          /\ pc \notin {"align", "skipped"}
          /\ pc \notin {"descs", "flush"} => Marked(disk[Sb])
          /\ ~AtRest /\ pc \notin {"halt", "descs", "flush"} => Marked(sb)

\* A write to another place leaves the superblock.
LEMMA OtherPlaces ==
    ASSUME NEW p, NEW v, p # Sb, Write(p, v), CheckInv
    PROVE  disk'[Sb] = disk[Sb]
<1>1. Sb \in DOMAIN disk
  BY Places DEF CheckInv, Like
<1>2. QED
  BY <1>1 DEF Write

\* A write to the superblock's place is what it then holds.
LEMMA SuperblockPlace ==
    ASSUME NEW s, flush_superblock(s), CheckInv, IsSuperblock(s)
    PROVE  disk'[Sb].error = s.error /\ disk'[Sb].valid = s.valid
<1>1. Sb \in DOMAIN disk
  BY Places DEF CheckInv, Like
<1>2. disk'[Sb] = [s EXCEPT !.ok = TRUE]
  BY <1>1 DEF flush_superblock, Write
<1>3. QED
  BY <1>2 DEF IsSuperblock

\* Nothing is left wrong by the step that marks the filesystem clean.
LEMMA CleanIsClean ==
    ASSUME ProblemsInv, Conclude, writes, ~left_wrong
    PROVE  ~left_wrong'
<1>1. problems' = {IF p.code = "fs-has-errors" THEN [p EXCEPT !.fixed = TRUE] ELSE p : p \in problems}
                    \cup Fixed(If("marked-clean", ~sb.valid))
  BY DEF Conclude
<1>2. \A p \in Fixed(If("marked-clean", ~sb.valid)) : p.fixed
  BY DEF Fixed, If, Found
<1>3. ASSUME NEW p \in problems, NEW q, q = IF p.code = "fs-has-errors" THEN [p EXCEPT !.fixed = TRUE] ELSE p
      PROVE  ~Wrong(q) \/ q.fixed
  <2>1. IsProblem(p)
    BY DEF ProblemsInv
  <2>2. CASE p.code = "fs-has-errors"
    BY <1>3, <2>1, <2>2 DEF IsProblem
  <2>3. CASE p.code # "fs-has-errors"
    BY <1>3, <2>3 DEF left_wrong
  <2>4. QED
    BY <2>2, <2>3
<1>4. QED
  BY <1>1, <1>2, <1>3 DEF left_wrong, Wrong

\* Each step keeps the mark of what is left wrong.
LEMMA WrongStep ==
    ASSUME WrongInv, CheckInv, ProblemsInv, Next
    PROVE  WrongInv'
<1> USE DEF run, handle, device
<1>1. ASSUME NEW m \in Modes, NEW f \in Forced, Open(m, f) PROVE WrongInv'
  <2>1. AtRest /\ pc' = "pass0" /\ sb' = disk[Sb] /\ UNCHANGED <<disk, verdict, crashes>>
    BY <1>1 DEF Open, Fresh
  <2>2. QED
    BY <2>1 DEF WrongInv, AtRest, Marked
<1>2. CASE pass0_superblock \/ Due \/ pass1_inodes \/ pass2_directories \/ pass3_connectivity \/ pass4_link_counts
  <2>1. /\ pc \in {"pass0", "due", "pass1", "pass2", "pass3", "pass4"}
        /\ pc' \in {"due", "pass1", "pass2", "pass3", "pass4", "decide"}
        /\ UNCHANGED <<disk, sb, verdict, crashes>>
    BY <1>2 DEF pass0_superblock, Due, pass1_inodes, pass2_directories, pass3_connectivity, pass4_link_counts
  <2>2. QED
    BY <2>1 DEF WrongInv, AtRest, Marked
<1>3. CASE skip
  <2>1. pc = "due" /\ ~Marked(sb)
    BY <1>3 DEF skip, check_due, Marked
  <2>2. ~(verdict = "wrong" /\ crashes = 0)
    BY <2>1 DEF WrongInv, AtRest
  <2>3. pc' \in {"align", "skipped"} /\ UNCHANGED <<verdict, crashes>>
    BY <1>3 DEF skip
  <2>4. QED
    BY <2>2, <2>3 DEF WrongInv
<1>4. CASE SkipFlush
  <2>1. pc = "align" /\ pc' = "skipped" /\ UNCHANGED <<verdict, crashes>>
    BY <1>4 DEF SkipFlush
  <2>2. QED
    BY <2>1 DEF WrongInv
<1>5. CASE Pass2Fails
  <2>1. pc = "pass2" /\ pc' = "idle" /\ UNCHANGED <<disk, verdict, crashes>>
    BY <1>5 DEF Pass2Fails
  <2>2. QED
    BY <2>1 DEF WrongInv, AtRest, Marked
<1>6. CASE preen_halt
  <2> DEFINE s == [sb EXCEPT !.error = TRUE]
  <2>1. flush_superblock(s) /\ pc' = "halt"
    BY <1>6 DEF preen_halt
  <2>2. IsSuperblock(s) /\ s.error
    <3>1. IsSuperblock(sb)
      BY DEF CheckInv
    <3>2. IsSuperblock(s)
      BY <3>1, SuperblockFields
    <3>3. s.error
      BY <3>1 DEF IsSuperblock
    <3>4. QED
      BY <3>2, <3>3
  <2> HIDE DEF s
  <2>3. Marked(disk'[Sb])
    BY <2>1, <2>2, SuperblockPlace DEF Marked
  <2>4. QED
    BY <2>1, <2>3 DEF WrongInv
<1>7. CASE HaltFlush
  <2>1. pc = "halt" /\ pc' = "halted" /\ UNCHANGED disk
    BY <1>7 DEF HaltFlush, Sync
  <2>2. QED
    BY <2>1 DEF WrongInv, AtRest, Marked
<1>8. CASE FixLinks
  <2>1. PICK f, v : Write(Inode(f), v)
    BY <1>8 DEF FixLinks
  <2>2. Inode(f) # Sb
    BY DEF Inode, Sb
  <2>3. disk'[Sb] = disk[Sb]
    BY <2>1, <2>2, OtherPlaces
  <2>4. pc = "decide" /\ pc' = "decide" /\ UNCHANGED <<sb, verdict, crashes>>
    BY <1>8 DEF FixLinks
  <2>5. QED
    BY <2>3, <2>4 DEF WrongInv, AtRest, Marked
<1>9. CASE LinksDone
  <2>1. pc = "decide" /\ pc' = "blocks" /\ UNCHANGED <<disk, sb, verdict, crashes>>
    BY <1>9 DEF LinksDone
  <2>2. QED
    BY <2>1 DEF WrongInv, AtRest, Marked
<1>10. CASE Pass5Blocks \/ Pass5Inodes
  <2>1. disk'[Sb] = disk[Sb]
    <3>1. \/ UNCHANGED disk \/ Write(BlockBitmap, expected_blocks) \/ Write(InodeBitmap, scan.inodes)
      BY <1>10 DEF Pass5Blocks, Pass5Inodes
    <3>2. BlockBitmap # Sb /\ InodeBitmap # Sb
      BY DEF BlockBitmap, InodeBitmap, Sb
    <3>3. QED
      BY <3>1, <3>2, OtherPlaces
  <2>2. pc \in {"blocks", "inodes"} /\ pc' \in {"inodes", "counts"} /\ UNCHANGED <<sb, verdict, crashes>>
    BY <1>10 DEF Pass5Blocks, Pass5Inodes
  <2>3. QED
    BY <2>1, <2>2 DEF WrongInv, AtRest, Marked
<1>11. CASE Pass5Counts
  <2>1. /\ pc = "counts" /\ UNCHANGED <<disk, verdict, crashes, mode>>
        /\ pc' = IF writes THEN "conclude" ELSE "done"
    BY <1>11 DEF Pass5Counts
  <2>2. sb' = [sb EXCEPT !.free_blocks = free_blocks, !.free_inodes = free_inodes] \/ sb' = sb
    BY <1>11 DEF Pass5Counts
  <2>3. sb'.error = sb.error /\ sb'.valid = sb.valid
    BY <2>2 DEF CheckInv, IsSuperblock
  <2>4. QED
    BY <2>1, <2>3 DEF WrongInv, AtRest, Marked, writes
<1>12. CASE Conclude
  <2>1. pc = "conclude" /\ pc' = "descs" /\ flush_superblock(sb') /\ UNCHANGED <<mode, crashes, verdict>>
    BY <1>12 DEF Conclude
  <2>2. writes /\ writes'
    BY <2>1 DEF WrongInv, writes
  <2>3. CASE left_wrong
    <3>1. sb' = [sb EXCEPT !.valid = FALSE, !.due = FALSE]
      BY <1>12, <2>3 DEF Conclude
    <3>2. IsSuperblock(sb)
      BY DEF CheckInv
    <3>3. IsSuperblock(sb') /\ ~sb'.valid
      <4>1. IsSuperblock(sb')
        BY <3>1, <3>2, SuperblockFields
      <4>2. ~sb'.valid
        BY <3>1, <3>2 DEF IsSuperblock
      <4>3. QED
        BY <4>1, <4>2
    <3>4. Marked(disk'[Sb])
      BY <2>1, <3>3, SuperblockPlace DEF Marked
    <3>5. QED
      BY <2>1, <2>2, <3>4 DEF WrongInv
  <2>4. CASE ~left_wrong
    BY <1>12, <2>1, <2>2, <2>4, CleanIsClean DEF WrongInv
  <2>5. QED
    BY <2>3, <2>4
<1>13. CASE FlushDescs
  <2>1. pc = "descs" /\ pc' = "flush" /\ UNCHANGED <<mode, crashes, verdict, problems>>
    BY <1>13 DEF FlushDescs
  <2>2. disk'[Sb] = disk[Sb]
    <3>1. UNCHANGED disk \/ Write(Gd, gd')
      BY <1>13 DEF FlushDescs
    <3>2. Gd # Sb
      BY DEF Gd, Sb
    <3>3. QED
      BY <3>1, <3>2, OtherPlaces
  <2>3. left_wrong' = left_wrong /\ writes' = writes
    BY <2>1 DEF left_wrong, writes
  <2>4. QED
    BY <2>1, <2>2, <2>3 DEF WrongInv, Marked
<1>14. CASE FlushDevice
  <2>1. pc = "flush" /\ pc' = "done" /\ UNCHANGED disk /\ verdict' = IF left_wrong THEN "wrong" ELSE "right"
    BY <1>14 DEF FlushDevice, Sync
  <2>2. verdict' = "wrong" => Marked(disk'[Sb])
    BY <2>1 DEF WrongInv
  <2>3. QED
    BY <2>1, <2>2 DEF WrongInv, AtRest
<1>15. CASE DeviceFails \/ PowerCut
  <2>1. pc' = "idle" /\ crashes' = crashes + 1 /\ crashes \in Nat
    BY <1>15, FsckAssumption DEF DeviceFails, PowerCut, CheckInv
  <2>2. crashes' # 0
    BY <2>1
  <2>3. QED
    BY <2>1, <2>2 DEF WrongInv
<1>16. QED
  BY <1>1, <1>2, <1>3, <1>4, <1>5, <1>6, <1>7, <1>8, <1>9, <1>10, <1>11, <1>12, <1>13, <1>14, <1>15 DEF Next, Step

\* The mark is there for as long as something is left wrong.
LEMMA WrongHolds == Spec => []WrongInv
<1>1. Init => WrongInv
  <2>1. None # "wrong"
    BY FsckAssumption
  <2>2. QED
    BY <2>1 DEF Init, WrongInv
<1>2. WrongInv /\ CheckInv /\ ProblemsInv /\ [Next]_vars => WrongInv'
  <2> SUFFICES ASSUME WrongInv, CheckInv, ProblemsInv, [Next]_vars PROVE WrongInv'
    OBVIOUS
  <2>1. CASE Next
    BY <2>1, WrongStep
  <2>2. CASE UNCHANGED vars
    BY <2>2 DEF vars, device, handle, run, WrongInv, Marked, AtRest, left_wrong, writes
  <2>3. QED
    BY <2>1, <2>2
<1>3. QED
  BY <1>1, <1>2, CheckHolds, ProblemsHold, PTL DEF Spec

\* "so the next boot checks it again rather than skipping it" (preen_halt): while no check is cut short,
\* what a writing check left wrong, halted or at its end, keeps every later check of any mode from skipping,
\* however many there are and whatever they repair.
THEOREM WrongIsChecked == Spec => []WrongIsNotSkipped
<1>1. WrongInv => WrongIsNotSkipped
  BY DEF WrongInv, WrongIsNotSkipped
<1>2. QED
  BY <1>1, WrongHolds, PTL

-------------------------------------------------------------------------------
(* Blocks in use stay in use *)

\* The blocks an inode of the image owns that the image's bitmap has in use.
InUse(im, i) ==
    (im.disk[Inode(i)].owns \cup ({im.disk[Inode(i)].acl} \ {0})) \cap im.disk[BlockBitmap]

Links(im, i) == im.disk[Inode(i)].links > 0

\* The inodes pass 1 would walk, were they linked.
Visible(im, i) ==
    /\ i <= Cardinality(Ino) - im.disk[Gd].itable_unused
    /\ i >= FirstIno \/ i \in {Root, Journal, Resize}

\* Every linked inode owns metadata, or what pass 1 reaches from its map: it has no attribute block, its
\* map can be walked to its end, and it is not behind itable_unused.
OwnersReach(im) ==
    \A i \in Ino : Links(im, i) =>
        \A b \in InUse(im, i) :
            b \in Meta \/ (Visible(im, i) /\ b \in im.disk[Inode(i)].reaches /\ b \in Blk \ {0})

UsedIn(blocks, im) == \A i \in Ino : Links(im, i) => InUse(im, i) \subseteq blocks

UsedInv ==
    /\ UsedIn(disk[BlockBitmap], image) /\ UsedIn(safe[BlockBitmap], image)
    /\ pc \in {"decide", "blocks"} => UsedIn(Blocks(scan.blocks), image)

\* What pass 1 claims holds what is in use: it walks every inode that had links, since no repair took them.
LEMMA ClaimsHoldUsed ==
    ASSUME CheckInv, ExactClaims, OwnersReach(image)
    PROVE  UsedIn(Blocks(scan.blocks), image)
<1> SUFFICES ASSUME NEW i \in Ino, Links(image, i), NEW b \in InUse(image, i)
             PROVE  b \in Blocks(scan.blocks)
  BY DEF UsedIn
<1>1. CASE b \in Meta
  BY <1>1 DEF ExactClaims
<1>2. CASE Visible(image, i) /\ b \in image.disk[Inode(i)].reaches /\ b \in Blk \ {0}
  <2>1. LikeInode(Node(i), image.disk[Inode(i)]) /\ image \in Images /\ LikeGroupDesc(gd, image)
    BY LikePlaces DEF CheckInv, Node
  <2>2. 1 \in Nat /\ 1 > 0
    OBVIOUS
  <2>3. Node(i).reaches = image.disk[Inode(i)].reaches
    BY <2>1, <2>2, InodeFields
  <2>4. Node(i).links > 0
    BY <2>1 DEF LikeInode, Links
  <2>5. i \in Live
    BY <1>2, <2>1 DEF Live, Visible, LikeGroupDesc
  <2>6. i \in Walked
    BY <1>2, <2>4, <2>5 DEF Walked, in_use, Visible
  <2>7. b \in Claimed(i)
    BY <1>2, <2>3 DEF Claimed
  <2>8. QED
    BY <2>6, <2>7 DEF ExactClaims
<1>3. QED
  BY <1>1, <1>2 DEF OwnersReach

\* Each step keeps what is in use in the bitmap, written or cached.
LEMMA UsedStep ==
    ASSUME UsedInv, CheckInv, ScanInv, OwnersReach(image), Next
    PROVE  UsedInv'
<1> USE DEF run, handle, device
<1>1. BlockBitmap \in DOMAIN disk /\ DOMAIN disk = DOMAIN safe
  BY Places DEF CheckInv, Like
<1>2. /\ BlockBitmap # Sb /\ BlockBitmap # Gd /\ BlockBitmap # InodeBitmap
      /\ \A i : BlockBitmap # Inode(i)
  BY DEF BlockBitmap, InodeBitmap, Sb, Gd, Inode
<1>3. ASSUME NEW p, NEW v, Write(p, v), p # BlockBitmap PROVE disk'[BlockBitmap] = disk[BlockBitmap] /\ UNCHANGED safe
  BY <1>1, <1>3 DEF Write
<1>4. CASE \/ (\E m \in Modes, f \in Forced : Open(m, f)) \/ DeviceFails \/ pass0_superblock \/ Due \/ pass1_inodes
           \/ pass2_directories \/ Pass2Fails \/ pass3_connectivity \/ Pass5Counts
  <2>1. UNCHANGED <<disk, safe, image>> /\ pc' \notin {"decide", "blocks"}
    BY <1>4 DEF Open, DeviceFails, pass0_superblock, Due, pass1_inodes, pass2_directories, Pass2Fails,
                pass3_connectivity, Pass5Counts
  <2>2. QED
    BY <2>1 DEF UsedInv
<1>5. CASE SkipFlush \/ HaltFlush \/ FlushDevice
  <2>1. safe' = disk /\ UNCHANGED <<disk, image>> /\ pc' \notin {"decide", "blocks"}
    BY <1>5 DEF SkipFlush, HaltFlush, FlushDevice, Sync
  <2>2. QED
    BY <2>1 DEF UsedInv
<1>6. CASE skip \/ preen_halt \/ Conclude \/ FlushDescs \/ Pass5Inodes
  <2>1. UNCHANGED image /\ pc' \notin {"decide", "blocks"}
    BY <1>6 DEF skip, preen_halt, Conclude, FlushDescs, Pass5Inodes
  <2>2. UNCHANGED <<disk, safe>> \/ \E p, v : Write(p, v) /\ p \in {Sb, Gd, InodeBitmap}
    <3>1. CASE skip
      BY <3>1 DEF skip, flush_superblock
    <3>2. CASE preen_halt
      BY <3>2 DEF preen_halt, flush_superblock
    <3>3. CASE Conclude
      BY <3>3 DEF Conclude, flush_superblock
    <3>4. CASE FlushDescs
      BY <3>4 DEF FlushDescs
    <3>5. CASE Pass5Inodes
      BY <3>5 DEF Pass5Inodes
    <3>6. QED
      BY <1>6, <3>1, <3>2, <3>3, <3>4, <3>5
  <2>3. disk'[BlockBitmap] = disk[BlockBitmap] /\ safe' = safe
    BY <1>2, <1>3, <2>2
  <2>4. QED
    BY <2>1, <2>3 DEF UsedInv
<1>7. CASE pass4_link_counts
  <2>1. UNCHANGED <<disk, safe, image, scan>> /\ pc = "pass4"
    BY <1>7 DEF pass4_link_counts
  <2>2. UsedIn(Blocks(scan.blocks), image)
    BY <2>1, ClaimsHoldUsed DEF ScanInv
  <2>3. QED
    BY <2>1, <2>2 DEF UsedInv
<1>8. CASE FixLinks
  <2>1. PICK i, v : Write(Inode(i), v)
    BY <1>8 DEF FixLinks
  <2>2. disk'[BlockBitmap] = disk[BlockBitmap] /\ safe' = safe
    BY <1>2, <1>3, <2>1
  <2>3. UNCHANGED <<image, scan>> /\ pc = "decide"
    BY <1>8 DEF FixLinks
  <2>4. QED
    BY <2>2, <2>3 DEF UsedInv
<1>9. CASE LinksDone
  <2>1. UNCHANGED <<disk, safe, image, scan>> /\ pc = "decide"
    BY <1>9 DEF LinksDone
  <2>2. QED
    BY <2>1 DEF UsedInv
<1>10. CASE Pass5Blocks
  <2>1. UNCHANGED image /\ pc = "blocks" /\ pc' = "inodes"
    BY <1>10 DEF Pass5Blocks
  <2>2. UNCHANGED <<disk, safe>> \/ Write(BlockBitmap, expected_blocks)
    BY <1>10 DEF Pass5Blocks
  <2>3. expected_blocks = Blocks(scan.blocks)
    BY ScanIsExact DEF RunsAreExact
  <2>4. CASE Write(BlockBitmap, expected_blocks)
    <3>1. disk'[BlockBitmap] = Blocks(scan.blocks) /\ safe' = safe
      BY <1>1, <2>3, <2>4 DEF Write
    <3>2. QED
      BY <2>1, <3>1 DEF UsedInv
  <2>5. CASE UNCHANGED <<disk, safe>>
    BY <2>1, <2>5 DEF UsedInv
  <2>6. QED
    BY <2>2, <2>4, <2>5
<1>11. CASE PowerCut
  <2>1. PICK kept : disk' = [p \in DOMAIN disk |-> IF p \in kept THEN disk[p] ELSE safe[p]]
    BY <1>11 DEF PowerCut
  <2>2. disk'[BlockBitmap] = disk[BlockBitmap] \/ disk'[BlockBitmap] = safe[BlockBitmap]
    BY <1>1, <2>1
  <2>3. safe' = disk' /\ pc' = "idle" /\ UNCHANGED image
    BY <1>11 DEF PowerCut
  <2>4. QED
    BY <2>2, <2>3 DEF UsedInv
<1>12. QED
  BY <1>4, <1>5, <1>6, <1>7, <1>8, <1>9, <1>10, <1>11 DEF Next, Step

\* "Repair writes only what a pass proved wrong": where every linked inode owns only metadata and what its
\* map reaches, no repair, by any number of checks, cut short or not, takes a block in use from its owner.
\* MCFsckInUse shows the hypothesis is needed: an attribute block is owned and never reached.
THEOREM UsedBlocksAreKept ==
    ASSUME \A im \in Images : OwnersReach(im)
    PROVE  Spec => []UsedBlocksStay
<1>1. Init => UsedInv
  BY DEF Init, UsedInv, UsedIn, InUse
<1>2. UsedInv /\ CheckInv /\ ScanInv /\ [Next]_vars => UsedInv'
  <2> SUFFICES ASSUME UsedInv, CheckInv, ScanInv, [Next]_vars PROVE UsedInv'
    OBVIOUS
  <2>1. CASE Next
    BY <2>1, UsedStep DEF CheckInv
  <2>2. CASE UNCHANGED vars
    BY <2>2 DEF vars, device, UsedInv
  <2>3. QED
    BY <2>1, <2>2
<1>3. UsedInv => UsedBlocksStay
  BY DEF UsedInv, UsedIn, InUse, Links, UsedBlocksStay
<1>4. QED
  BY <1>1, <1>2, <1>3, CheckHolds, ScanHolds, PTL DEF Spec

-------------------------------------------------------------------------------
(* What is made right stays right *)

\* What passes 1 and 2 gather, said of the device alone.
Directories == {i \in in_use : Node(i).dir}
Readable == {d \in Directories : disk[Dir(d)].parses}
NamedIn(d) == {e \in InRange(d) : e.ino \in in_use}
ParentsHeld == {<<d, disk[Dir(d)].dotdot>> : d \in {c \in Readable : HasDotDot(c)}}
NamesHeld == UNION {{<<d, e>> : e \in NamedIn(d)} : d \in Readable}
ClaimedBlocks == Meta \cup UNION {Claimed(i) : i \in Walked}

\* The inodes pass 4 compares, and how often it sees each named.
Compared == {i \in in_use \ {OrphanFile} : i >= FirstIno \/ i = Root}
LinksSeen(i) == Cardinality({n \in NamesHeld : n[2].ino = i})

\* The walk from the root and the mismatches of pass 3, of any relation.
BelowIn(parents, dirs) == {p[1] : p \in {q \in parents : q[2] \in dirs}}
LevelsIn(parents) ==
    LET level[n \in 0 .. Cardinality(Ino)] ==
            IF n = 0 THEN {Root} ELSE level[n - 1] \cup BelowIn(parents, level[n - 1])
    IN  level
ReachedIn(parents) == LevelsIn(parents)[Cardinality(Ino)]
MismatchedIn(parents) ==
    {p[1] : p \in {q \in parents : q[1] # Root /\ \E r \in parents : r[1] = q[1] /\ r[2] < q[2]}}

\* Pass 1 has nothing to report.
Sound1 ==
    /\ {i \in in_use : ~Node(i).ok} = {}
    /\ {i \in in_use : Node(i).links > 0 /\ Node(i).deleted} = {}
    /\ {i \in Walked : ~Node(i).whole} = {}
    /\ {i \in Walked : Node(i).whole /\ Claimed(i) # Node(i).reaches} = {}
    /\ {i \in Walked \ {Resize} : Node(i).whole /\ Node(i).blocks # Visits(i)} = {}
    /\ Collisions = {}

\* Nor has pass 2.
Sound2 ==
    /\ Directories \ Readable = {}
    /\ {d \in Directories : ~disk[Dir(d)].ok} = {}
    /\ {d \in Readable : disk[Dir(d)].dot \notin {0, d}} = {}
    /\ {d \in Readable : disk[Dir(d)].dot = 0} = {}
    /\ {d \in Readable : ~HasDotDot(d)} = {}
    /\ {d \in Readable : InRange(d) # Entries(d)} = {}
    /\ {d \in Readable : \E e, f \in InRange(d) : e # f /\ e.name = f.name} = {}
    /\ {d \in Readable : \E e \in InRange(d) : e.ino \notin in_use} = {}
    /\ {d \in Readable : \E e \in NamedIn(d) : e.type # TypeOf(e.ino)} = {}

\* Nor pass 3.
Sound3 ==
    /\ Root \in Directories
    /\ Directories \ ReachedIn(ParentsHeld) = {}
    /\ MismatchedIn(ParentsHeld) = {}

\* What pass 4 cannot correct, and what it can.
AllNamed == \A i \in Compared : LinksSeen(i) # 0
LinksAgree == \A i \in Compared : LinksSeen(i) = Node(i).links

\* A repair leaves most fields of an inode.
LEMMA InodeSame ==
    ASSUME NEW im \in Images, NEW i \in Ino, NEW n, LikeInode(n, im.disk[Inode(i)])
    PROVE  /\ n.dir = im.disk[Inode(i)].dir /\ n.reaches = im.disk[Inode(i)].reaches
           /\ n.deleted = im.disk[Inode(i)].deleted /\ n.whole = im.disk[Inode(i)].whole
           /\ n.blocks = im.disk[Inode(i)].blocks /\ n.again = im.disk[Inode(i)].again
           /\ n.owns = im.disk[Inode(i)].owns /\ n.acl = im.disk[Inode(i)].acl
<1> DEFINE f == im.disk[Inode(i)]
<1>1. IsInode(f)
  BY ImageAssumption
<1> HIDE DEF f
<1>2. n = [f EXCEPT !.links = n.links, !.ok = n.ok]
  BY DEF LikeInode, f
<1>3. /\ n.dir = f.dir /\ n.reaches = f.reaches /\ n.deleted = f.deleted /\ n.whole = f.whole /\ n.blocks = f.blocks
      /\ n.again = f.again /\ n.owns = f.owns /\ n.acl = f.acl
  BY <1>1, <1>2 DEF IsInode
<1>4. QED
  BY <1>3 DEF f

\* Whatever is repaired, inodes keep what passes 1 to 3 look at, but for links and checksums.
LEMMA SameInodes ==
    ASSUME CheckInv, CheckInv', image' = image, NEW i \in Ino
    PROVE  /\ Node(i)'.dir = Node(i).dir /\ Node(i)'.reaches = Node(i).reaches
           /\ Node(i)'.deleted = Node(i).deleted /\ Node(i)'.whole = Node(i).whole
           /\ Node(i)'.blocks = Node(i).blocks /\ Node(i)'.again = Node(i).again
           /\ Claimed(i)' = Claimed(i) /\ Visits(i)' = Visits(i)
           /\ Node(i).dir => disk'[Dir(i)] = disk[Dir(i)]
<1>1. image \in Images /\ Like(disk, image) /\ Like(disk', image)
  BY DEF CheckInv
<1>2. /\ LikeInode(disk[Inode(i)], image.disk[Inode(i)]) /\ LikeInode(disk'[Inode(i)], image.disk[Inode(i)])
      /\ image.disk[Inode(i)].dir => disk[Dir(i)] = image.disk[Dir(i)] /\ disk'[Dir(i)] = image.disk[Dir(i)]
  BY <1>1, LikePlaces
<1>3. PICK n : n = disk[Inode(i)]
  OBVIOUS
<1>4. PICK m : m = disk'[Inode(i)]
  OBVIOUS
<1>5. /\ n.dir = m.dir /\ n.reaches = m.reaches /\ n.deleted = m.deleted /\ n.whole = m.whole /\ n.blocks = m.blocks
      /\ n.again = m.again
      /\ n.dir = image.disk[Inode(i)].dir
  BY <1>1, <1>2, <1>3, <1>4, InodeSame
<1>6. Claimed(i)' = Claimed(i) /\ Visits(i)' = Visits(i)
  BY <1>3, <1>4, <1>5 DEF Claimed, Visits, Node
<1>7. QED
  BY <1>2, <1>3, <1>4, <1>5, <1>6 DEF Node

\* Links rewritten where there were links leave the same inodes in use.
LEMMA SameUse ==
    ASSUME CheckInv, CheckInv', image' = image,
           \A i \in Ino : i >= FirstIno => (Node(i)'.links > 0 <=> Node(i).links > 0)
    PROVE  in_use' = in_use /\ Walked' = Walked
<1>1. gd'.itable_unused = gd.itable_unused
  BY DEF CheckInv, LikeGroupDesc
<1>2. Live' = Live
  BY <1>1 DEF Live
<1>3. \A i \in Ino : i < FirstIno \/ i >= FirstIno
  <2>1. Ino \subseteq Int /\ FirstIno \in Nat
    BY FsckAssumption, FS_CardinalityType
  <2>2. QED
    BY <2>1
<1>4. Live \subseteq Ino
  BY DEF Live
<1>5. \A i \in Live : (i < FirstIno \/ Node(i)'.links > 0) <=> (i < FirstIno \/ Node(i).links > 0)
  BY <1>3, <1>4
<1>6. in_use' = {i \in Live : i < FirstIno \/ Node(i)'.links > 0}
  BY <1>2 DEF in_use
<1>7. in_use' = in_use
  BY <1>5, <1>6 DEF in_use
<1>8. QED
  BY <1>7 DEF Walked

\* Then passes 1 to 3 gather the same.
LEMMA SameTree ==
    ASSUME CheckInv, CheckInv', image' = image, in_use' = in_use, Walked' = Walked
    PROVE  /\ Directories' = Directories /\ ParentsHeld' = ParentsHeld /\ NamesHeld' = NamesHeld
           /\ ClaimedBlocks' = ClaimedBlocks /\ Collisions' = Collisions /\ Compared' = Compared
           /\ Sound2' = Sound2 /\ Sound3' = Sound3
           /\ \A i : LinksSeen(i)' = LinksSeen(i)
<1>1. in_use \subseteq Ino /\ Walked \subseteq Ino
  BY DEF in_use, Live, Walked
<1>2. \A i \in Ino : Node(i)'.dir = Node(i).dir /\ Claimed(i)' = Claimed(i) /\ Node(i)'.again = Node(i).again
  BY SameInodes
<1>3. Directories' = Directories
  <2>1. Directories' = {i \in in_use : Node(i)'.dir}
    BY DEF Directories
  <2>2. QED
    BY <1>1, <1>2, <2>1 DEF Directories
<1>4. \A d \in Directories : d \in Ino /\ disk'[Dir(d)] = disk[Dir(d)]
  BY <1>1, SameInodes DEF Directories
<1>5. Readable' = Readable
  <2>1. Readable' = {d \in Directories : disk'[Dir(d)].parses}
    BY <1>3 DEF Readable
  <2>2. QED
    BY <1>4, <2>1 DEF Readable
<1>6. Readable \subseteq Directories
  BY DEF Readable
<1>7. \A d \in Directories : Entries(d)' = Entries(d)
  <2> SUFFICES ASSUME NEW d \in Directories PROVE Entries(d)' = Entries(d)
    OBVIOUS
  <2>1. Entries(d)' = {e \in {[name |-> ".", ino |-> disk'[Dir(d)].dot, type |-> "dir"],
                              [name |-> "..", ino |-> disk'[Dir(d)].dotdot, type |-> "dir"]} : e.ino # 0}
                      \cup disk'[Dir(d)].names
    BY Zenon DEF Entries
  <2>2. disk'[Dir(d)] = disk[Dir(d)]
    BY <1>4
  <2>3. QED
    BY <2>1, <2>2, Zenon DEF Entries
<1>8. \A d \in Directories : InRange(d)' = InRange(d) /\ NamedIn(d)' = NamedIn(d) /\ HasDotDot(d)' = HasDotDot(d)
  BY <1>4, <1>7, Zenon DEF InRange, NamedIn, HasDotDot
<1>9. ParentsHeld' = ParentsHeld
  <2>1. ParentsHeld' = {<<d, disk'[Dir(d)].dotdot>> : d \in {c \in Readable : HasDotDot(c)'}}
    BY <1>5, Zenon DEF ParentsHeld
  <2>2. {c \in Readable : HasDotDot(c)'} = {c \in Readable : HasDotDot(c)}
    BY <1>6, <1>8
  <2>3. \A c \in {c \in Readable : HasDotDot(c)} : disk'[Dir(c)] = disk[Dir(c)]
    BY <1>4, <1>6
  <2>4. QED
    BY <2>1, <2>2, <2>3 DEF ParentsHeld
<1>10. NamesHeld' = NamesHeld
  <2>1. NamesHeld' = UNION {{<<d, e>> : e \in NamedIn(d)'} : d \in Readable}
    BY <1>5, Zenon DEF NamesHeld
  <2>2. \A d \in Readable : NamedIn(d)' = NamedIn(d)
    BY <1>6, <1>8
  <2>3. \A d \in Readable : {<<d, e>> : e \in NamedIn(d)'} = {<<d, e>> : e \in NamedIn(d)}
    BY <2>2
  <2>4. QED
    BY <2>1, <2>3 DEF NamesHeld
<1>11. ClaimedBlocks' = ClaimedBlocks
  <2>1. ClaimedBlocks' = Meta \cup UNION {Claimed(i)' : i \in Walked}
    BY DEF ClaimedBlocks
  <2>2. {Claimed(i)' : i \in Walked} = {Claimed(i) : i \in Walked}
    BY <1>1, <1>2
  <2>3. QED
    BY <2>1, <2>2 DEF ClaimedBlocks
<1>12. Collisions' = Collisions
  <2>1. \A i \in Walked : Claimed(i)' = Claimed(i) /\ Node(i)'.again = Node(i).again
    BY <1>1, <1>2
  <2>2. \A b : (\E i \in Walked \ {Resize} :
                   b \in Claimed(i)' /\ (b \in Meta \/ b \in Node(i)'.again \/ \E j \in Walked : j < i /\ b \in Claimed(j)'))
               <=> \E i \in Walked \ {Resize} :
                   b \in Claimed(i) /\ (b \in Meta \/ b \in Node(i).again \/ \E j \in Walked : j < i /\ b \in Claimed(j))
    BY <2>1
  <2>3. Collisions' =
            {b \in Blk :
                \/ \E k, l \in DOMAIN MetaRuns : k # l /\ b \in Span(MetaRuns[k]) \cap Span(MetaRuns[l])
                \/ \E i \in Walked \ {Resize} :
                      b \in Claimed(i)' /\ (b \in Meta \/ b \in Node(i)'.again \/ \E j \in Walked : j < i /\ b \in Claimed(j)')}
    BY Zenon DEF Collisions
  <2>4. \A b : b \in Collisions' <=> b \in Collisions
    BY <2>2, <2>3, Zenon DEF Collisions
  <2>5. QED
    BY <2>4
<1>13. Compared' = Compared
  BY DEF Compared
<1>14. Sound2' = Sound2
  <2>1. \A d \in Readable : \A e \in NamedIn(d) : TypeOf(e.ino)' = TypeOf(e.ino)
    <3>1. \A i \in Ino : TypeOf(i)' = TypeOf(i)
      BY <1>2 DEF TypeOf
    <3>2. \A d \in Readable : \A e \in NamedIn(d) : e.ino \in Ino
      BY DEF NamedIn, InRange
    <3>3. QED
      BY <3>1, <3>2
  <2>2. \A d \in Readable : /\ d \in Directories /\ disk'[Dir(d)] = disk[Dir(d)] /\ HasDotDot(d)' = HasDotDot(d)
                            /\ InRange(d)' = InRange(d) /\ Entries(d)' = Entries(d) /\ NamedIn(d)' = NamedIn(d)
    BY <1>4, <1>6, <1>7, <1>8
  <2>3. {d \in Readable : \E e \in NamedIn(d)' : e.type # TypeOf(e.ino)'}
            = {d \in Readable : \E e \in NamedIn(d) : e.type # TypeOf(e.ino)}
    BY <2>1, <2>2
  <2>4. {d \in Directories : ~disk'[Dir(d)].ok} = {d \in Directories : ~disk[Dir(d)].ok}
    BY <1>4
  <2>5. /\ {d \in Readable : disk'[Dir(d)].dot \notin {0, d}} = {d \in Readable : disk[Dir(d)].dot \notin {0, d}}
        /\ {d \in Readable : disk'[Dir(d)].dot = 0} = {d \in Readable : disk[Dir(d)].dot = 0}
        /\ {d \in Readable : ~HasDotDot(d)'} = {d \in Readable : ~HasDotDot(d)}
        /\ {d \in Readable : InRange(d)' # Entries(d)'} = {d \in Readable : InRange(d) # Entries(d)}
    BY <2>2
  <2>6. /\ {d \in Readable : \E e, f \in InRange(d)' : e # f /\ e.name = f.name}
             = {d \in Readable : \E e, f \in InRange(d) : e # f /\ e.name = f.name}
        /\ {d \in Readable : \E e \in InRange(d)' : e.ino \notin in_use}
             = {d \in Readable : \E e \in InRange(d) : e.ino \notin in_use}
    BY <2>2
  <2>7. Sound2' <=>
            /\ Directories \ Readable = {}
            /\ {d \in Directories : ~disk'[Dir(d)].ok} = {}
            /\ {d \in Readable : disk'[Dir(d)].dot \notin {0, d}} = {}
            /\ {d \in Readable : disk'[Dir(d)].dot = 0} = {}
            /\ {d \in Readable : ~HasDotDot(d)'} = {}
            /\ {d \in Readable : InRange(d)' # Entries(d)'} = {}
            /\ {d \in Readable : \E e, f \in InRange(d)' : e # f /\ e.name = f.name} = {}
            /\ {d \in Readable : \E e \in InRange(d)' : e.ino \notin in_use} = {}
            /\ {d \in Readable : \E e \in NamedIn(d)' : e.type # TypeOf(e.ino)'} = {}
    BY <1>3, <1>5, Zenon DEF Sound2
  <2>8. Sound2' <=> Sound2
    BY <2>3, <2>4, <2>5, <2>6, <2>7, Zenon DEF Sound2
  <2>9. QED
    BY <2>8, Zenon DEF Sound2
<1>15. Sound3' = Sound3
  <2>1. Sound3' <=> Sound3
    BY <1>3, <1>9, Zenon DEF Sound3
  <2>2. QED
    BY <2>1, Zenon DEF Sound3
<1>16. \A i : LinksSeen(i)' = LinksSeen(i)
  BY <1>10, Zenon DEF LinksSeen
<1>17. QED
  BY <1>3, <1>9, <1>10, <1>11, <1>12, <1>13, <1>14, <1>15, <1>16

\* Writing any other place leaves the inodes.
LEMMA OtherWrites ==
    ASSUME CheckInv, NEW p, NEW v, Write(p, v), p \in {Sb, Gd, BlockBitmap, InodeBitmap}, NEW i \in Ino
    PROVE  Node(i)' = Node(i)
<1>1. Inode(i) \in DOMAIN disk
  BY Places DEF CheckInv, Like
<1>2. Inode(i) # p
  BY DEF Sb, Gd, BlockBitmap, InodeBitmap, Inode
<1>3. QED
  BY <1>1, <1>2 DEF Write, Node

\* Only the corrections of pass 4 write inodes, and only a power cut takes a write back.
LEMMA InodesStay ==
    ASSUME CheckInv, Next, ~FixLinks, ~PowerCut
    PROVE  image' = image /\ \A i \in Ino : Node(i)' = Node(i)
<1> USE DEF run, handle, device
<1>1. image' = image
  BY DEF Next, Step, Open, pass0_superblock, Due, skip, SkipFlush, pass1_inodes, pass2_directories, Pass2Fails,
         pass3_connectivity, pass4_link_counts, preen_halt, HaltFlush, LinksDone, Pass5Blocks, Pass5Inodes,
         Pass5Counts, Conclude, FlushDescs, FlushDevice, DeviceFails
<1>2. UNCHANGED disk \/ \E p, v : Write(p, v) /\ p \in {Sb, Gd, BlockBitmap, InodeBitmap}
  <2>1. CASE \/ (\E m \in Modes, f \in Forced : Open(m, f)) \/ pass0_superblock \/ Due \/ SkipFlush \/ pass1_inodes
             \/ pass2_directories \/ Pass2Fails \/ pass3_connectivity \/ pass4_link_counts \/ HaltFlush
             \/ LinksDone \/ Pass5Counts \/ FlushDevice \/ DeviceFails
    BY <2>1 DEF Open, pass0_superblock, Due, SkipFlush, pass1_inodes, pass2_directories, Pass2Fails,
                pass3_connectivity, pass4_link_counts, HaltFlush, LinksDone, Pass5Counts, FlushDevice, DeviceFails, Sync
  <2>2. CASE skip
    BY <2>2 DEF skip, flush_superblock
  <2>3. CASE preen_halt
    BY <2>3 DEF preen_halt, flush_superblock
  <2>4. CASE Conclude
    BY <2>4 DEF Conclude, flush_superblock
  <2>5. CASE FlushDescs
    BY <2>5 DEF FlushDescs
  <2>6. CASE Pass5Blocks
    BY <2>6 DEF Pass5Blocks
  <2>7. CASE Pass5Inodes
    BY <2>7 DEF Pass5Inodes
  <2>8. QED
    BY <2>1, <2>2, <2>3, <2>4, <2>5, <2>6, <2>7 DEF Next, Step
<1>3. \A i \in Ino : Node(i)' = Node(i)
  <2>1. CASE UNCHANGED disk
    BY <2>1 DEF Node
  <2>2. CASE \E p, v : Write(p, v) /\ p \in {Sb, Gd, BlockBitmap, InodeBitmap}
    BY <2>2, OtherWrites
  <2>3. QED
    BY <1>2, <2>1, <2>2
<1>4. QED
  BY <1>1, <1>3

\* What passes 1 to 4 gather from the device.
gathered == <<in_use, Walked, Directories, ParentsHeld, NamesHeld, ClaimedBlocks, Collisions, Compared>>

\* Where the inodes stay, so does all that is gathered from them, and what the passes have to report.
LEMMA SameReport ==
    ASSUME CheckInv, CheckInv', image' = image, \A i \in Ino : Node(i)' = Node(i)
    PROVE  /\ UNCHANGED gathered
           /\ Sound1' = Sound1 /\ Sound2' = Sound2 /\ Sound3' = Sound3
           /\ AllNamed' = AllNamed /\ LinksAgree' = LinksAgree
           /\ \A i : LinksSeen(i)' = LinksSeen(i)
<1>1. in_use' = in_use /\ Walked' = Walked
  BY SameUse
<1>2. /\ Directories' = Directories /\ ParentsHeld' = ParentsHeld /\ NamesHeld' = NamesHeld
      /\ ClaimedBlocks' = ClaimedBlocks /\ Collisions' = Collisions /\ Compared' = Compared
      /\ Sound2' = Sound2 /\ Sound3' = Sound3
      /\ \A i : LinksSeen(i)' = LinksSeen(i)
  BY <1>1, SameTree
<1>3. in_use \subseteq Ino /\ Walked \subseteq Ino /\ Compared \subseteq Ino
  BY DEF in_use, Live, Walked, Compared
<1>4. \A i \in Ino : Claimed(i)' = Claimed(i) /\ Visits(i)' = Visits(i)
  BY SameInodes
<1>5. Sound1' = Sound1
  <2>1. /\ {i \in in_use : ~Node(i)'.ok} = {i \in in_use : ~Node(i).ok}
        /\ {i \in in_use : Node(i)'.links > 0 /\ Node(i)'.deleted}
             = {i \in in_use : Node(i).links > 0 /\ Node(i).deleted}
    BY <1>3
  <2>2. /\ {i \in Walked : ~Node(i)'.whole} = {i \in Walked : ~Node(i).whole}
        /\ {i \in Walked : Node(i)'.whole /\ Claimed(i)' # Node(i)'.reaches}
             = {i \in Walked : Node(i).whole /\ Claimed(i) # Node(i).reaches}
        /\ {i \in Walked \ {Resize} : Node(i)'.whole /\ Node(i)'.blocks # Visits(i)'}
             = {i \in Walked \ {Resize} : Node(i).whole /\ Node(i).blocks # Visits(i)}
    BY <1>3, <1>4
  <2>3. Sound1' <=>
            /\ {i \in in_use : ~Node(i)'.ok} = {}
            /\ {i \in in_use : Node(i)'.links > 0 /\ Node(i)'.deleted} = {}
            /\ {i \in Walked : ~Node(i)'.whole} = {}
            /\ {i \in Walked : Node(i)'.whole /\ Claimed(i)' # Node(i)'.reaches} = {}
            /\ {i \in Walked \ {Resize} : Node(i)'.whole /\ Node(i)'.blocks # Visits(i)'} = {}
            /\ Collisions = {}
    BY <1>1, <1>2, Zenon DEF Sound1
  <2>4. Sound1' <=> Sound1
    BY <2>1, <2>2, <2>3, Zenon DEF Sound1
  <2>5. QED
    BY <2>4, Zenon DEF Sound1
<1>6. AllNamed' = AllNamed
  BY <1>2, Zenon DEF AllNamed
<1>7. LinksAgree' = LinksAgree
  <2>1. LinksAgree' <=> \A i \in Compared : LinksSeen(i) = Node(i)'.links
    BY <1>2, Zenon DEF LinksAgree
  <2>2. LinksAgree' <=> LinksAgree
    BY <1>3, <2>1 DEF LinksAgree
  <2>3. QED
    BY <2>2, Zenon DEF LinksAgree
<1>8. QED
  BY <1>1, <1>2, <1>5, <1>6, <1>7 DEF gathered

\* From pass 1 to its end a check's scan is what its device holds, the corrections of pass 4 included.
FromPass3 == {"pass3", "pass4", "decide", "blocks", "inodes", "counts", "conclude", "descs", "flush"}
FromPass2 == {"pass2"} \cup FromPass3

\* What each pass has gathered from the device so far is all there is to gather.
GatherInv ==
    /\ pc \in FromPass2 =>
          /\ scan.inodes = in_use /\ scan.dirs = Directories
          /\ Blocks(scan.blocks) = ClaimedBlocks /\ scan.duplicates = Collisions
    /\ pc \in FromPass3 => scan.parents = ParentsHeld /\ scan.names = NamesHeld
    /\ pc = "decide" => \A f \in fixes : f[1] \in Compared /\ f[2] = LinksSeen(f[1])

\* A correction is of an inode in use, whose other fields it keeps, and leaves all that was gathered.
LEMMA FixGathers ==
    ASSUME CheckInv, CheckInv', GatherInv, FixLinks
    PROVE  /\ image' = image /\ UNCHANGED gathered
           /\ Sound2' = Sound2 /\ Sound3' = Sound3
           /\ \A i : LinksSeen(i)' = LinksSeen(i)
           /\ \E f \in fixes :
                 /\ f[1] \in Compared /\ f[2] = LinksSeen(f[1]) /\ f[2] \in Nat /\ f[2] > 0
                 /\ fixes' = fixes \ {f}
                 /\ \A i \in Ino : i # f[1] => Node(i)' = Node(i)
                 /\ Node(f[1])'.links = f[2] /\ Node(f[1])'.ok
<1>1. PICK f \in fixes :
        /\ Write(Inode(f[1]), [Node(f[1]) EXCEPT !.links = f[2], !.ok = TRUE])
        /\ fixes' = fixes \ {f}
  BY DEF FixLinks
<1>2. image' = image /\ pc = "decide"
  BY DEF FixLinks
<1>3. f[1] \in Ino /\ f[1] \in Compared /\ f[2] = LinksSeen(f[1]) /\ f[2] \in Nat /\ f[2] > 0
  BY <1>2 DEF CheckInv, IsFix, GatherInv
<1>4. \A i \in Ino : Inode(i) \in DOMAIN disk
  BY Places DEF CheckInv, Like
<1>5. \A i \in Ino : i # f[1] => Node(i)' = Node(i)
  <2>1. \A i \in Ino : i # f[1] => Inode(i) # Inode(f[1])
    BY DEF Inode
  <2>2. QED
    BY <1>1, <1>4, <2>1 DEF Write, Node
<1>6. Node(f[1])'.links = f[2] /\ Node(f[1])'.ok
  <2>1. PICK n : n = Node(f[1])
    OBVIOUS
  <2>2. Node(f[1])' = [n EXCEPT !.links = f[2], !.ok = TRUE]
    BY <1>1, <1>3, <1>4, <2>1 DEF Write, Node
  <2>3. IsInode(n)
    <3>1. LikeInode(n, image.disk[Inode(f[1])]) /\ IsInode(image.disk[Inode(f[1])])
      BY <1>3, <2>1, LikePlaces, ImageAssumption DEF CheckInv, Node
    <3>2. PICK m : m = image.disk[Inode(f[1])]
      OBVIOUS
    <3>3. QED
      BY <3>1, <3>2 DEF LikeInode, IsInode
  <2>4. QED
    BY <2>2, <2>3 DEF IsInode
<1>7. \A i \in Ino : i >= FirstIno => (Node(i)'.links > 0 <=> Node(i).links > 0)
  <2> SUFFICES ASSUME NEW i \in Ino, i >= FirstIno, i = f[1] PROVE Node(i)'.links > 0 /\ Node(i).links > 0
    BY <1>5
  <2>1. i \in in_use /\ ~(i < FirstIno)
    <3>1. Ino \subseteq Int /\ FirstIno \in Nat
      BY FsckAssumption, FS_CardinalityType
    <3>2. QED
      BY <1>3, <3>1 DEF Compared
  <2>2. QED
    BY <1>3, <1>6, <2>1 DEF in_use
<1>8. in_use' = in_use /\ Walked' = Walked
  BY <1>2, <1>7, SameUse
<1>9. /\ Directories' = Directories /\ ParentsHeld' = ParentsHeld /\ NamesHeld' = NamesHeld
      /\ ClaimedBlocks' = ClaimedBlocks /\ Collisions' = Collisions /\ Compared' = Compared
      /\ Sound2' = Sound2 /\ Sound3' = Sound3
      /\ \A i : LinksSeen(i)' = LinksSeen(i)
  BY <1>2, <1>8, SameTree
<1>10. QED
  BY <1>1, <1>2, <1>3, <1>5, <1>6, <1>8, <1>9 DEF gathered

\* What pass 2 finds is what its directories hold.
LEMMA GatherPassTwo ==
    ASSUME GatherInv, ScanInv, pass2_directories
    PROVE  scan'.parents = ParentsHeld /\ scan'.names = NamesHeld /\ scan'.inodes = scan.inodes
           /\ scan'.dirs = scan.dirs /\ scan'.blocks = scan.blocks /\ scan'.duplicates = scan.duplicates
           /\ Parsed = Readable /\ \A d : Counted(d) = NamedIn(d)
<1>1. scan.inodes = in_use /\ scan.dirs = Directories
  BY DEF pass2_directories, GatherInv, FromPass2
<1>2. Parsed = Readable
  BY <1>1 DEF Parsed, Readable
<1>3. \A d : Counted(d) = NamedIn(d)
  BY <1>1 DEF Counted, NamedIn
<1>4. PICK p, n : /\ p = {<<d, disk[Dir(d)].dotdot>> : d \in {c \in Parsed : HasDotDot(c)}}
                  /\ n = UNION {{<<d, e>> : e \in Counted(d)} : d \in Parsed}
                  /\ scan' = [scan EXCEPT !.parents = p, !.names = n]
  BY DEF pass2_directories
<1>5. p = ParentsHeld
  BY <1>2, <1>4 DEF ParentsHeld
<1>6. n = NamesHeld
  <2>1. \A d \in Readable : {<<d, e>> : e \in Counted(d)} = {<<d, e>> : e \in NamedIn(d)}
    BY <1>3
  <2>2. QED
    BY <1>2, <1>4, <2>1 DEF NamesHeld
<1>7. PICK s : s = scan
  OBVIOUS
<1>8. QED
  BY <1>2, <1>3, <1>4, <1>5, <1>6, <1>7 DEF ScanInv, IsScan

\* Each step keeps the scan what the device holds.
LEMMA GatherStep ==
    ASSUME GatherInv, ScanInv, CheckInv, CheckInv', Next
    PROVE  GatherInv'
<1> USE DEF run, handle, device
<1>1. CASE FixLinks
  <2>1. scan' = scan /\ pc = "decide" /\ pc' = "decide" /\ fixes' \subseteq fixes
    BY <1>1 DEF FixLinks
  <2>2. UNCHANGED gathered /\ \A i : LinksSeen(i)' = LinksSeen(i)
    BY <1>1, FixGathers
  <2>3. QED
    BY <2>1, <2>2 DEF GatherInv, gathered, FromPass2, FromPass3
<1>2. CASE PowerCut
  <2>1. pc' = "idle"
    BY <1>2 DEF PowerCut
  <2>2. QED
    BY <2>1 DEF GatherInv, FromPass2, FromPass3
<1>3. CASE ~FixLinks /\ ~PowerCut
  <2>1. image' = image /\ \A i \in Ino : Node(i)' = Node(i)
    BY <1>3, InodesStay
  <2>2. UNCHANGED gathered /\ \A i : LinksSeen(i)' = LinksSeen(i)
    BY <2>1, SameReport
  <2>3. CASE pass1_inodes
    <3> DEFINE after == ClaimWalked(scan)
    <3>1. /\ scan' = [after EXCEPT !.inodes = in_use, !.dirs = {i \in in_use : Node(i).dir}]
          /\ pc = "pass1" /\ pc' = "pass2"
      BY <2>3 DEF pass1_inodes
    <3>2. HoldsMetadata(scan)
      BY <3>1 DEF ScanInv
    <3>3. /\ after \in ScanStates
          /\ Blocks(after.blocks) = Meta \cup UNION {Claimed(i) : i \in Walked}
          /\ after.duplicates = Collisions
      BY <3>2, PassOneIsExact
    <3> HIDE DEF after
    <3>4. /\ scan'.inodes = in_use /\ scan'.dirs = Directories
          /\ scan'.blocks = after.blocks /\ scan'.duplicates = after.duplicates
      BY <3>1, <3>3 DEF ScanStates, Directories
    <3>5. QED
      BY <2>2, <3>1, <3>3, <3>4 DEF GatherInv, gathered, FromPass2, FromPass3, ClaimedBlocks
  <2>4. CASE pass2_directories
    <3>1. pc = "pass2" /\ pc' = "pass3"
      BY <2>4 DEF pass2_directories
    <3>2. QED
      BY <2>2, <2>4, <3>1, GatherPassTwo DEF GatherInv, gathered, FromPass2, FromPass3
  <2>5. CASE pass4_link_counts
    <3>1. pc = "pass4" /\ pc' = "decide" /\ scan' = scan
      BY <2>5 DEF pass4_link_counts
    <3>2. scan.inodes = in_use /\ scan.names = NamesHeld
      BY <3>1 DEF GatherInv, FromPass2, FromPass3
    <3>3. \A i : observed_links(i) = LinksSeen(i)
      BY <3>2, Zenon DEF observed_links, LinksSeen
    <3>4. \A f \in fixes' : f[1] \in Compared /\ f[2] = LinksSeen(f[1])
      BY <2>5, <3>2, <3>3 DEF pass4_link_counts, Compared
    <3>5. QED
      BY <2>2, <3>1, <3>4 DEF GatherInv, gathered, FromPass2, FromPass3
  <2>6. CASE pass3_connectivity \/ LinksDone \/ Pass5Blocks \/ Pass5Inodes \/ Pass5Counts \/ Conclude \/ FlushDescs
    <3>1. scan' = scan /\ pc \in FromPass3 /\ pc' # "decide"
      BY <2>6 DEF pass3_connectivity, LinksDone, Pass5Blocks, Pass5Inodes, Pass5Counts, Conclude, FlushDescs, FromPass3
    <3>2. QED
      BY <2>2, <3>1 DEF GatherInv, gathered, FromPass2, FromPass3
  <2>7. CASE \/ (\E m \in Modes, f \in Forced : Open(m, f)) \/ pass0_superblock \/ Due \/ skip \/ SkipFlush \/ Pass2Fails
             \/ preen_halt \/ HaltFlush \/ FlushDevice \/ DeviceFails
    <3>1. pc' \notin FromPass2
      BY <2>7 DEF Open, pass0_superblock, Due, skip, SkipFlush, Pass2Fails, preen_halt, HaltFlush, FlushDevice,
                  DeviceFails, FromPass2, FromPass3
    <3>2. QED
      BY <3>1 DEF GatherInv, FromPass2, FromPass3
  <2>8. QED
    BY <1>3, <2>3, <2>4, <2>5, <2>6, <2>7 DEF Next, Step
<1>4. QED
  BY <1>1, <1>2, <1>3

\* A problem no check can put right.
StaysWrong == \E p \in problems : needs_a_person(p) /\ ~p.fixed

\* Nothing is found where there is nothing.
LEMMA NothingFound ==
    ASSUME NEW code
    PROVE  Found(code, {}) = {} /\ If(code, FALSE) = {} /\ Fixed({}) = {}
<1>1. Found(code, {}) = {}
  BY DEF Found
<1>2. If(code, FALSE) = {}
  BY <1>1 DEF If
<1>3. Fixed({}) = {}
  BY DEF Fixed
<1>4. QED
  BY <1>1, <1>2, <1>3

\* What needs a person and was found stays wrong.
LEMMA FoundStaysWrong ==
    ASSUME NEW code, code \notin PREEN_OK, code \notin Info, NEW where, NEW ps, Found(code, where) \subseteq ps,
           ~\E p \in ps : needs_a_person(p) /\ ~p.fixed
    PROVE  where = {}
<1>1. ASSUME NEW x \in where PROVE FALSE
  <2> DEFINE p == [code |-> code, at |-> x, fixed |-> FALSE]
  <2>1. p \in ps
    BY DEF Found
  <2>2. needs_a_person(p) /\ ~p.fixed
    BY DEF needs_a_person, Wrong
  <2>3. QED
    BY <2>1, <2>2
<1>2. QED
  BY <1>1

\* Pass 1 reports what is not sound, and nothing else.
LEMMA ReportOne ==
    ASSUME ScanInv, pass1_inodes
    PROVE  /\ Sound1 /\ problems = {} => problems' = {}
           /\ ~StaysWrong' => Sound1 /\ ~StaysWrong
<1> DEFINE A == {i \in in_use : ~Node(i).ok}
           B == {i \in in_use : Node(i).links > 0 /\ Node(i).deleted}
           C == {i \in Walked : ~Node(i).whole}
           D == {i \in Walked : Node(i).whole /\ Claimed(i) # Node(i).reaches}
           E == {i \in Walked \ {Resize} : Node(i).whole /\ Node(i).blocks # Visits(i)}
           after == ClaimWalked(scan)
<1>1. scan'.duplicates = Collisions
  <2>1. scan' = [after EXCEPT !.inodes = in_use, !.dirs = {i \in in_use : Node(i).dir}] /\ pc = "pass1"
    BY DEF pass1_inodes
  <2>2. HoldsMetadata(scan)
    BY <2>1 DEF ScanInv
  <2>3. after \in ScanStates /\ after.duplicates = Collisions
    BY <2>2, PassOneIsExact
  <2> HIDE DEF after
  <2>4. QED
    BY <2>1, <2>3 DEF ScanStates
<1>2. problems' = problems \cup Found("inode-csum", A) \cup Found("deleted-but-linked", B)
        \cup Found("unwalkable-block-map", C) \cup Found("block-out-of-range", D)
        \cup Found("i-blocks-wrong", E) \cup Found("duplicate-block", Collisions)
  BY <1>1 DEF pass1_inodes
<1>3. Sound1 <=> A = {} /\ B = {} /\ C = {} /\ D = {} /\ E = {} /\ Collisions = {}
  BY Zenon DEF Sound1
<1> HIDE DEF A, B, C, D, E
<1>4. Sound1 /\ problems = {} => problems' = {}
  BY <1>2, <1>3, NothingFound
<1>5. ASSUME ~StaysWrong' PROVE Sound1 /\ ~StaysWrong
  <2>1. PICK ps : ps = problems'
    OBVIOUS
  <2>2. ~\E p \in ps : needs_a_person(p) /\ ~p.fixed
    BY <1>5, <2>1 DEF StaysWrong
  <2>3. \A c \in {"inode-csum", "deleted-but-linked", "unwalkable-block-map", "block-out-of-range", "i-blocks-wrong",
                  "duplicate-block"} : c \notin PREEN_OK /\ c \notin Info
    BY DEF PREEN_OK, Info
  <2>4. /\ Found("inode-csum", A) \subseteq ps /\ Found("deleted-but-linked", B) \subseteq ps
        /\ Found("unwalkable-block-map", C) \subseteq ps /\ Found("block-out-of-range", D) \subseteq ps
        /\ Found("i-blocks-wrong", E) \subseteq ps /\ Found("duplicate-block", Collisions) \subseteq ps
        /\ problems \subseteq ps
    BY <1>2, <2>1
  <2>5. A = {} /\ B = {} /\ C = {} /\ D = {} /\ E = {} /\ Collisions = {}
    BY <2>2, <2>3, <2>4, FoundStaysWrong
  <2>6. QED
    BY <1>3, <2>2, <2>4, <2>5 DEF StaysWrong
<1>6. QED
  BY <1>4, <1>5

\* Pass 2, likewise.
LEMMA ReportTwo ==
    ASSUME GatherInv, ScanInv, pass2_directories
    PROVE  /\ Sound2 /\ problems = {} => problems' = {}
           /\ ~StaysWrong' => Sound2 /\ ~StaysWrong
<1> DEFINE A == Directories \ Readable
           B == {d \in Directories : ~disk[Dir(d)].ok}
           C == {d \in Readable : disk[Dir(d)].dot \notin {0, d}}
           D == {d \in Readable : disk[Dir(d)].dot = 0}
           E == {d \in Readable : ~HasDotDot(d)}
           F == {d \in Readable : InRange(d) # Entries(d)}
           G == {d \in Readable : \E e, f \in InRange(d) : e # f /\ e.name = f.name}
           H == {d \in Readable : \E e \in InRange(d) : e.ino \notin in_use}
           I == {d \in Readable : \E e \in NamedIn(d) : e.type # TypeOf(e.ino)}
<1>1. Parsed = Readable /\ \A d : Counted(d) = NamedIn(d)
  BY GatherPassTwo
<1>2. scan.inodes = in_use /\ scan.dirs = Directories
  BY DEF pass2_directories, GatherInv, FromPass2
<1>3. {d \in Readable : \E e \in Counted(d) : e.type # TypeOf(e.ino)} = I
  BY <1>1
<1>4. problems' = problems \cup Found("dir-block-malformed", A) \cup Found("dir-block-csum", B)
        \cup Found("dot-wrong", C) \cup Found("dot-missing", D) \cup Found("dotdot-missing", E)
        \cup Found("entry-inode-out-of-range", F) \cup Found("duplicate-name", G)
        \cup Found("entry-points-at-free-inode", H) \cup Found("filetype-mismatch", I)
  <2>1. problems' = problems \cup Found("dir-block-malformed", A) \cup Found("dir-block-csum", B)
        \cup Found("dot-wrong", C) \cup Found("dot-missing", D) \cup Found("dotdot-missing", E)
        \cup Found("entry-inode-out-of-range", F) \cup Found("duplicate-name", G)
        \cup Found("entry-points-at-free-inode", H)
        \cup Found("filetype-mismatch", {d \in Readable : \E e \in Counted(d) : e.type # TypeOf(e.ino)})
    BY <1>1, <1>2, Zenon DEF pass2_directories
  <2>2. QED
    BY <1>3, <2>1, Zenon
<1>5. Sound2 <=> A = {} /\ B = {} /\ C = {} /\ D = {} /\ E = {} /\ F = {} /\ G = {} /\ H = {} /\ I = {}
  BY Zenon DEF Sound2
<1> HIDE DEF A, B, C, D, E, F, G, H, I
<1>6. Sound2 /\ problems = {} => problems' = {}
  BY <1>4, <1>5, NothingFound
<1>7. ASSUME ~StaysWrong' PROVE Sound2 /\ ~StaysWrong
  <2>1. PICK ps : ps = problems'
    OBVIOUS
  <2>2. ~\E p \in ps : needs_a_person(p) /\ ~p.fixed
    BY <1>7, <2>1 DEF StaysWrong
  <2>3. \A c \in {"dir-block-malformed", "dir-block-csum", "dot-wrong", "dot-missing", "dotdot-missing",
                  "entry-inode-out-of-range", "duplicate-name", "entry-points-at-free-inode", "filetype-mismatch"} :
            c \notin PREEN_OK /\ c \notin Info
    BY DEF PREEN_OK, Info
  <2>4. /\ Found("dir-block-malformed", A) \subseteq ps /\ Found("dir-block-csum", B) \subseteq ps
        /\ Found("dot-wrong", C) \subseteq ps /\ Found("dot-missing", D) \subseteq ps
        /\ Found("dotdot-missing", E) \subseteq ps /\ Found("entry-inode-out-of-range", F) \subseteq ps
        /\ Found("duplicate-name", G) \subseteq ps /\ Found("entry-points-at-free-inode", H) \subseteq ps
        /\ Found("filetype-mismatch", I) \subseteq ps /\ problems \subseteq ps
    BY <1>4, <2>1
  <2>5. A = {} /\ B = {} /\ C = {} /\ D = {} /\ E = {}
    BY <2>2, <2>3, <2>4, FoundStaysWrong
  <2>6. F = {} /\ G = {} /\ H = {} /\ I = {}
    BY <2>2, <2>3, <2>4, FoundStaysWrong
  <2>7. QED
    BY <1>5, <2>2, <2>4, <2>5, <2>6 DEF StaysWrong
<1>8. QED
  BY <1>6, <1>7

\* Pass 3, likewise.
LEMMA ReportThree ==
    ASSUME GatherInv, pass3_connectivity
    PROVE  /\ Sound3 /\ problems = {} => problems' = {}
           /\ ~StaysWrong' => Sound3 /\ ~StaysWrong
<1> DEFINE A == Directories \ ReachedIn(ParentsHeld)
           B == MismatchedIn(ParentsHeld)
<1>1. scan.dirs = Directories /\ scan.parents = ParentsHeld
  BY DEF pass3_connectivity, GatherInv, FromPass2, FromPass3
<1>2. reached = ReachedIn(scan.parents)
  <2>1. Levels = LevelsIn(scan.parents)
    BY DEF Levels, LevelsIn, Below, BelowIn
  <2>2. QED
    BY <2>1 DEF reached, ReachedIn
<1>3. Mismatched = MismatchedIn(scan.parents)
  BY DEF Mismatched, MismatchedIn
<1>4. problems' = problems \cup
        IF Root \notin Directories THEN Found("no-root-directory", {Root})
        ELSE Found("disconnected-directory", A) \cup Found("parent-mismatch", B)
  BY <1>1, <1>2, <1>3, Zenon DEF pass3_connectivity
<1>5. Sound3 <=> Root \in Directories /\ A = {} /\ B = {}
  BY Zenon DEF Sound3
<1> HIDE DEF A, B
<1>6. Sound3 /\ problems = {} => problems' = {}
  BY <1>4, <1>5, NothingFound
<1>7. ASSUME ~StaysWrong' PROVE Sound3 /\ ~StaysWrong
  <2>1. PICK ps : ps = problems'
    OBVIOUS
  <2>2. ~\E p \in ps : needs_a_person(p) /\ ~p.fixed
    BY <1>7, <2>1 DEF StaysWrong
  <2>3. \A c \in {"no-root-directory", "disconnected-directory", "parent-mismatch"} :
            c \notin PREEN_OK /\ c \notin Info
    BY DEF PREEN_OK, Info
  <2>4. Root \in Directories
    <3>1. CASE Root \notin Directories
      <4>1. Found("no-root-directory", {Root}) \subseteq ps
        BY <1>4, <2>1, <3>1
      <4>2. {Root} = {}
        BY <2>2, <2>3, <4>1, FoundStaysWrong
      <4>3. QED
        BY <4>2
    <3>2. QED
      BY <3>1
  <2>5. Found("disconnected-directory", A) \subseteq ps /\ Found("parent-mismatch", B) \subseteq ps /\ problems \subseteq ps
    BY <1>4, <2>1, <2>4
  <2>6. A = {} /\ B = {}
    BY <2>2, <2>3, <2>5, FoundStaysWrong
  <2>7. QED
    BY <1>5, <2>2, <2>4, <2>5, <2>6 DEF StaysWrong
<1>8. QED
  BY <1>6, <1>7

\* Pass 4 reports the inodes nobody names, and corrects the others.
LEMMA ReportFour ==
    ASSUME GatherInv, pass4_link_counts
    PROVE  /\ AllNamed /\ LinksAgree /\ problems = {} => problems' = {} /\ fixes' = {}
           /\ ~StaysWrong' => AllNamed /\ ~StaysWrong
           /\ \A i \in Compared : LinksSeen(i) \in {0, Node(i).links} \/ <<i, LinksSeen(i)>> \in fixes'
<1> DEFINE A == {i \in Compared : LinksSeen(i) = 0}
           B == {i \in Compared : LinksSeen(i) \notin {0, Node(i).links}}
<1>1. scan.inodes = in_use /\ scan.names = NamesHeld
  BY DEF pass4_link_counts, GatherInv, FromPass2, FromPass3
<1>2. \A i : observed_links(i) = LinksSeen(i)
  BY <1>1, Zenon DEF observed_links, LinksSeen
<1>3. /\ problems' = problems \cup Found("unreferenced-inode", A) \cup Found("link-count-wrong", B)
      /\ fixes' = {<<i, LinksSeen(i)>> : i \in B}
  <2> DEFINE compared == {i \in scan.inodes \ {OrphanFile} : i >= FirstIno \/ i = Root}
             wrong == {i \in compared : observed_links(i) \notin {0, Node(i).links}}
             unnamed == {i \in compared : observed_links(i) = 0}
  <2>1. /\ problems' = problems \cup Found("unreferenced-inode", unnamed) \cup Found("link-count-wrong", wrong)
        /\ fixes' = {<<i, observed_links(i)>> : i \in wrong}
    BY Zenon DEF pass4_link_counts
  <2>2. compared = Compared
    BY <1>1 DEF Compared
  <2> HIDE DEF compared
  <2>3. wrong = B /\ unnamed = A
    BY <1>2, <2>2
  <2> HIDE DEF wrong, unnamed, A, B
  <2>4. QED
    BY <1>2, <2>1, <2>3
<1>4. AllNamed <=> A = {}
  BY DEF AllNamed
<1>5. ASSUME AllNamed, LinksAgree PROVE B = {}
  BY <1>5 DEF LinksAgree
<1>6. \A i \in Compared : LinksSeen(i) \in {0, Node(i).links} \/ <<i, LinksSeen(i)>> \in fixes'
  BY <1>3
<1> HIDE DEF A, B
<1>7. AllNamed /\ LinksAgree /\ problems = {} => problems' = {} /\ fixes' = {}
  BY <1>3, <1>4, <1>5, NothingFound
<1>8. ASSUME ~StaysWrong' PROVE AllNamed /\ ~StaysWrong
  <2>1. PICK ps : ps = problems'
    OBVIOUS
  <2>2. ~\E p \in ps : needs_a_person(p) /\ ~p.fixed
    BY <1>8, <2>1 DEF StaysWrong
  <2>3. "unreferenced-inode" \notin PREEN_OK /\ "unreferenced-inode" \notin Info
    BY DEF PREEN_OK, Info
  <2>4. Found("unreferenced-inode", A) \subseteq ps /\ problems \subseteq ps
    BY <1>3, <2>1
  <2>5. A = {}
    BY <2>2, <2>3, <2>4, FoundStaysWrong
  <2>6. QED
    BY <1>4, <2>2, <2>4, <2>5 DEF StaysWrong
<1>9. QED
  BY <1>6, <1>7, <1>8

\* What pass 5 rebuilds, said of the device.
FreeBlocksHeld == blocks_count - Cardinality(ClaimedBlocks)
FreeInodesHeld == Cardinality(Ino \ in_use)
GroupAgrees(g) ==
    g.free_blocks = FreeBlocksHeld /\ g.free_inodes = FreeInodesHeld /\ g.used_dirs = Cardinality(Directories)
SuperAgrees(s) == s.free_blocks = FreeBlocksHeld /\ s.free_inodes = FreeInodesHeld

\* It rebuilds the bitmaps and the counts from the scan.
LEMMA Rebuilt ==
    ASSUME GatherInv, ScanInv, pc \in FromPass3
    PROVE  /\ expected_blocks = ClaimedBlocks /\ scan.inodes = in_use /\ scan.dirs = Directories
           /\ free_blocks = FreeBlocksHeld /\ free_inodes = FreeInodesHeld
<1>1. scan.inodes = in_use /\ scan.dirs = Directories /\ Blocks(scan.blocks) = ClaimedBlocks
  BY DEF GatherInv, FromPass2
<1>2. expected_blocks = Blocks(scan.blocks)
  BY ScanIsExact DEF RunsAreExact
<1>3. PICK b : b = scan.blocks
  OBVIOUS
<1>4. IsBlockRuns(b) /\ b.len = blocks_count /\ blocks_count \in Nat
  BY <1>3, RunsAreBlockRuns, FsckAssumption DEF ScanInv
<1>5. Blocks(b) \cap Span(<<0, blocks_count>>) = Blocks(b)
  BY <1>4, BlocksAreFinite DEF IsBlockRuns
<1>6. Total(within(b, 0, blocks_count)) = Cardinality(Blocks(b))
  <2>1. Total(within(b, 0, blocks_count)) = Cardinality(Blocks(b) \cap Span(<<0, blocks_count>>))
    BY <1>4, WithinAddsUp
  <2>2. QED
    BY <1>5, <2>1
<1>7. QED
  BY <1>1, <1>2, <1>3, <1>6 DEF free_blocks, free_inodes, used_runs, FreeBlocksHeld, FreeInodesHeld

\* What a check cannot put right stays wrong to its end.
LEMMA StaysWrongStays ==
    ASSUME ProblemsInv, StaysWrong,
           FixLinks \/ LinksDone \/ Pass5Blocks \/ Pass5Inodes \/ Pass5Counts \/ Conclude \/ FlushDescs
    PROVE  StaysWrong'
<1>1. PICK p \in problems : needs_a_person(p) /\ ~p.fixed
  BY DEF StaysWrong
<1>2. p.code # "link-count-wrong" /\ p.code # "fs-has-errors"
  BY <1>1 DEF needs_a_person, Wrong, PREEN_OK, Info
<1>3. p \in problems'
  <2>1. CASE FixLinks
    <3>1. PICK f : problems' = {IF q.code = "link-count-wrong" /\ q.at = f[1] THEN [q EXCEPT !.fixed = TRUE]
                                                                         ELSE q : q \in problems}
      BY <2>1 DEF FixLinks
    <3>2. QED
      BY <1>2, <3>1
  <2>2. CASE LinksDone \/ FlushDescs
    BY <2>2 DEF LinksDone, FlushDescs
  <2>3. CASE Pass5Blocks \/ Pass5Inodes \/ Pass5Counts
    BY <2>3 DEF Pass5Blocks, Pass5Inodes, Pass5Counts
  <2>4. CASE Conclude
    <3>1. \/ problems' = problems
          \/ \E more : problems' = {IF q.code = "fs-has-errors" THEN [q EXCEPT !.fixed = TRUE] ELSE q : q \in problems} \cup more
      BY <2>4 DEF Conclude
    <3>2. QED
      BY <1>2, <3>1
  <2>5. QED
    BY <2>1, <2>2, <2>3, <2>4
<1>4. QED
  BY <1>1, <1>3 DEF StaysWrong

\* A correction leaves pass 1 nothing more to report.
LEMMA FixIsSound ==
    ASSUME CheckInv, CheckInv', GatherInv, Convergent(image), Sound1, FixLinks
    PROVE  Sound1'
<1>1. PICK f \in fixes :
        /\ f[1] \in Compared /\ \A i \in Ino : i # f[1] => Node(i)' = Node(i)
        /\ Node(f[1])'.ok
  BY FixGathers
<1>2. image' = image /\ in_use' = in_use /\ Walked' = Walked /\ Collisions' = Collisions
  BY FixGathers DEF gathered
<1>3. in_use \subseteq Ino /\ Walked \subseteq in_use
  BY DEF in_use, Live, Walked
<1>4. \A i \in Ino : /\ Node(i)'.deleted = Node(i).deleted /\ Node(i)'.whole = Node(i).whole
                     /\ Node(i)'.blocks = Node(i).blocks /\ Node(i)'.reaches = Node(i).reaches
                     /\ Claimed(i)' = Claimed(i) /\ Visits(i)' = Visits(i)
  BY <1>2, SameInodes
<1>5. \A i \in in_use : Node(i)'.ok
  BY <1>1, <1>3 DEF Sound1
<1>6. f[1] \in in_use /\ (f[1] >= FirstIno \/ f[1] = Root)
  BY <1>1 DEF Compared
<1>7. ~Node(f[1]).deleted
  <2>1. CASE f[1] = Root
    <3>1. Root \in Ino /\ LikeInode(Node(Root), image.disk[Inode(Root)]) /\ image \in Images
      BY <1>3, <1>6, <2>1, LikePlaces DEF CheckInv, Node
    <3>2. Node(Root).deleted = image.disk[Inode(Root)].deleted
      BY <3>1, InodeSame
    <3>3. image.disk[Inode(Root)].links > 0 => Node(Root).links > 0
      BY <3>1 DEF LikeInode
    <3>4. QED
      BY <1>6, <2>1, <3>2, <3>3 DEF Convergent, Sound1
  <2>2. CASE f[1] >= FirstIno
    <3>1. Ino \subseteq Int /\ FirstIno \in Nat
      BY FsckAssumption, FS_CardinalityType
    <3>2. f[1] \in Int /\ ~(f[1] < FirstIno)
      <4>1. PICK i : i = f[1]
        OBVIOUS
      <4>2. i \in Int
        BY <1>3, <1>6, <3>1, <4>1
      <4>3. ~(i < FirstIno)
        BY <2>2, <3>1, <4>1, <4>2
      <4>4. QED
        BY <4>1, <4>2, <4>3
    <3>3. Node(f[1]).links > 0
      BY <1>6, <3>2 DEF in_use
    <3>4. QED
      BY <1>6, <3>3 DEF Sound1
  <2>3. QED
    BY <1>6, <2>1, <2>2
<1>8. \A i \in in_use : ~(Node(i)'.links > 0 /\ Node(i)'.deleted)
  BY <1>1, <1>3, <1>4, <1>7 DEF Sound1
<1>9. /\ \A i \in Walked : Node(i)'.whole
      /\ \A i \in Walked : Claimed(i)' = Node(i)'.reaches
      /\ \A i \in Walked \ {Resize} : Node(i)'.blocks = Visits(i)'
  <2>1. /\ \A i \in Walked : Node(i).whole
        /\ \A i \in Walked : Node(i).whole => Claimed(i) = Node(i).reaches
        /\ \A i \in Walked \ {Resize} : Node(i).whole => Node(i).blocks = Visits(i)
    BY DEF Sound1
  <2>2. QED
    BY <1>3, <1>4, <2>1
<1>10. Sound1' <=>
            /\ {i \in in_use : ~Node(i)'.ok} = {}
            /\ {i \in in_use : Node(i)'.links > 0 /\ Node(i)'.deleted} = {}
            /\ {i \in Walked : ~Node(i)'.whole} = {}
            /\ {i \in Walked : Node(i)'.whole /\ Claimed(i)' # Node(i)'.reaches} = {}
            /\ {i \in Walked \ {Resize} : Node(i)'.whole /\ Node(i)'.blocks # Visits(i)'} = {}
            /\ Collisions = {}
  BY <1>2, Zenon DEF Sound1
<1>11. Collisions = {}
  BY DEF Sound1
<1>12. QED
  BY <1>5, <1>8, <1>9, <1>10, <1>11

FromCounts == {"counts", "conclude", "descs", "flush"}
FromInodes == {"inodes"} \cup FromCounts
FromBlocks == {"blocks"} \cup FromInodes
FromDecide == {"decide"} \cup FromBlocks
FromPass4 == {"pass4"} \cup FromDecide
FromDue == {"due", "pass1"} \cup FromPass2

\* What a check knows where it found nothing that stays wrong.
Learned ==
    /\ pc \in FromDue => gd.ok
    /\ pc \in FromPass2 => Sound1
    /\ pc \in FromPass3 => Sound2
    /\ pc \in FromPass4 => Sound3
    /\ pc \in FromDecide => AllNamed

\* Every count that is not what was seen has its correction.
AllCorrected == \A i \in Compared : LinksSeen(i) \in {0, Node(i).links} \/ <<i, LinksSeen(i)>> \in fixes

\* What a check that may write has made right.
Repaired ==
    /\ pc \in FromBlocks /\ ~StaysWrong => LinksAgree
    /\ pc \in FromInodes => disk[BlockBitmap] = ClaimedBlocks
    /\ pc \in FromCounts => disk[InodeBitmap] = in_use

\* The superblock of a filesystem with nothing wrong.
MarkedRight(s) == s.ok /\ s.valid /\ ~s.error /\ SuperAgrees(s)

\* A check that leaves nothing wrong has made or found right all that the next will look at.
RepairInv ==
    /\ pc \in {"pass0", "due", "pass1", "pass2", "pass3", "pass4", "decide", "blocks", "inodes", "counts"} => gd = disk[Gd]
    /\ ~StaysWrong => Learned
    /\ pc = "decide" => AllCorrected
    /\ writes => Repaired
    /\ pc \in {"conclude", "descs", "flush"} => writes /\ GroupAgrees(gd) /\ SuperAgrees(sb)
    /\ pc \in {"conclude", "descs"} /\ ~repaired_anything => gd = disk[Gd]
    /\ pc \in {"descs", "flush"} /\ ~left_wrong => MarkedRight(disk[Sb])
    /\ pc = "flush" /\ ~left_wrong => disk[Gd].ok /\ GroupAgrees(disk[Gd])

\* Nothing is known where no check is under way or it ends early.
LEMMA RepairOutside ==
    ASSUME pc \in {"idle", "skipped", "halted", "done", "align", "halt"} \/ (pc = "pass0" /\ gd = disk[Gd])
    PROVE  RepairInv
  BY DEF RepairInv, Learned, Repaired, FromDue, FromPass2, FromPass3, FromPass4, FromDecide, FromBlocks, FromInodes,
         FromCounts

\* The passes that only read: each tells what is sound.
LEMMA RepairReads ==
    ASSUME RepairInv, GatherInv, ScanInv, CheckInv, CheckInv',
           pass0_superblock \/ Due \/ pass1_inodes \/ pass2_directories \/ pass3_connectivity \/ pass4_link_counts
    PROVE  RepairInv'
<1> USE DEF run, handle, device
<1>1. UNCHANGED <<image, disk, gd, sb, mode>>
  BY DEF pass0_superblock, Due, pass1_inodes, pass2_directories, pass3_connectivity, pass4_link_counts
<1>2. \A i \in Ino : Node(i)' = Node(i)
  BY <1>1 DEF Node
<1>3. /\ UNCHANGED gathered /\ Sound1' = Sound1 /\ Sound2' = Sound2 /\ Sound3' = Sound3 /\ AllNamed' = AllNamed
      /\ \A i : LinksSeen(i)' = LinksSeen(i)
  BY <1>1, <1>2, SameReport
<1> USE DEF FromDue, FromPass2, FromPass3, FromPass4, FromDecide, FromBlocks, FromInodes, FromCounts
<1>4. CASE pass0_superblock
  <2>1. pc = "pass0" /\ pc' = "due" /\ If("group-desc-csum", ~gd.ok) \subseteq problems'
    BY <1>4 DEF pass0_superblock
  <2>2. ASSUME ~StaysWrong' PROVE gd.ok
    <3>1. PICK ps : ps = problems'
      OBVIOUS
    <3>2. ~\E p \in ps : needs_a_person(p) /\ ~p.fixed
      BY <2>2, <3>1 DEF StaysWrong
    <3>3. "group-desc-csum" \notin PREEN_OK /\ "group-desc-csum" \notin Info
      BY DEF PREEN_OK, Info
    <3>4. PICK where : where = (IF ~gd.ok THEN {0} ELSE {}) /\ Found("group-desc-csum", where) \subseteq ps
      BY <2>1, <3>1 DEF If
    <3>5. where = {}
      BY <3>2, <3>3, <3>4, FoundStaysWrong
    <3>6. QED
      BY <3>4, <3>5
  <2>3. QED
    BY <1>1, <2>1, <2>2 DEF RepairInv, Learned, Repaired
<1>5. CASE Due
  <2>1. pc = "due" /\ pc' = "pass1" /\ UNCHANGED problems
    BY <1>5 DEF Due
  <2>2. StaysWrong' = StaysWrong
    BY <2>1 DEF StaysWrong
  <2>3. QED
    BY <1>1, <2>1, <2>2 DEF RepairInv, Learned, Repaired
<1>6. CASE pass1_inodes
  <2>1. pc = "pass1" /\ pc' = "pass2"
    BY <1>6 DEF pass1_inodes
  <2>2. ~StaysWrong' => Sound1 /\ ~StaysWrong
    BY <1>6, ReportOne
  <2>3. QED
    BY <1>1, <1>3, <2>1, <2>2 DEF RepairInv, Learned, Repaired
<1>7. CASE pass2_directories
  <2>1. pc = "pass2" /\ pc' = "pass3"
    BY <1>7 DEF pass2_directories
  <2>2. ~StaysWrong' => Sound2 /\ ~StaysWrong
    BY <1>7, ReportTwo
  <2>3. QED
    BY <1>1, <1>3, <2>1, <2>2 DEF RepairInv, Learned, Repaired
<1>8. CASE pass3_connectivity
  <2>1. pc = "pass3" /\ pc' = "pass4"
    BY <1>8 DEF pass3_connectivity
  <2>2. ~StaysWrong' => Sound3 /\ ~StaysWrong
    BY <1>8, ReportThree
  <2>3. QED
    BY <1>1, <1>3, <2>1, <2>2 DEF RepairInv, Learned, Repaired
<1>9. CASE pass4_link_counts
  <2>1. pc = "pass4" /\ pc' = "decide"
    BY <1>9 DEF pass4_link_counts
  <2>2. /\ ~StaysWrong' => AllNamed /\ ~StaysWrong
        /\ \A i \in Compared : LinksSeen(i) \in {0, Node(i).links} \/ <<i, LinksSeen(i)>> \in fixes'
    BY <1>9, ReportFour
  <2>3. AllCorrected'
    <3>1. Compared' = Compared /\ Compared \subseteq Ino
      BY <1>3 DEF gathered, Compared, in_use, Live
    <3>2. QED
      BY <1>2, <1>3, <2>2, <3>1 DEF AllCorrected
  <2>4. QED
    BY <1>1, <1>3, <2>1, <2>2, <2>3 DEF RepairInv, Learned, Repaired
<1>10. QED
  BY <1>4, <1>5, <1>6, <1>7, <1>8, <1>9

\* The corrections of pass 4.
LEMMA RepairLinks ==
    ASSUME RepairInv, GatherInv, ProblemsInv, CheckInv, CheckInv', Convergent(image), FixLinks \/ LinksDone
    PROVE  RepairInv'
<1> USE DEF run, handle, device, FromDue, FromPass2, FromPass3, FromPass4, FromDecide, FromBlocks, FromInodes, FromCounts
<1>1. ~StaysWrong' => ~StaysWrong
  BY StaysWrongStays
<1>2. CASE FixLinks
  <2>1. pc = "decide" /\ pc' = "decide" /\ UNCHANGED <<sb, gd>>
    BY <1>2 DEF FixLinks
  <2>2. PICK f \in fixes :
            /\ f[1] \in Compared /\ f[2] = LinksSeen(f[1]) /\ fixes' = fixes \ {f}
            /\ \A i \in Ino : i # f[1] => Node(i)' = Node(i)
            /\ Node(f[1])'.links = f[2]
    BY <1>2, FixGathers
  <2>3. Compared' = Compared /\ Sound2' = Sound2 /\ Sound3' = Sound3 /\ \A i : LinksSeen(i)' = LinksSeen(i)
    BY <1>2, FixGathers DEF gathered
  <2>4. Sound1 => Sound1'
    BY <1>2, FixIsSound
  <2>5. AllNamed => AllNamed'
    BY <2>3 DEF AllNamed
  <2>6. AllCorrected'
    <3> SUFFICES ASSUME NEW i \in Compared
                 PROVE  LinksSeen(i) \in {0, Node(i)'.links} \/ <<i, LinksSeen(i)>> \in fixes'
      BY <2>3 DEF AllCorrected
    <3>1. CASE i = f[1]
      BY <2>2, <3>1
    <3>2. CASE i # f[1]
      <4>1. i \in Ino /\ Node(i)' = Node(i)
        BY <2>2, <3>2 DEF Compared, in_use, Live
      <4>2. LinksSeen(i) \in {0, Node(i).links} \/ <<i, LinksSeen(i)>> \in fixes
        BY <2>1 DEF RepairInv, AllCorrected
      <4>3. <<i, LinksSeen(i)>> # f
        BY <3>2
      <4>4. QED
        BY <2>2, <4>1, <4>2, <4>3
    <3>3. QED
      BY <3>1, <3>2
  <2>7. disk'[Gd] = disk[Gd]
    <3>1. PICK i, v : Write(Inode(i), v)
      BY <1>2 DEF FixLinks
    <3>2. Gd \in DOMAIN disk /\ Inode(i) # Gd
      BY Places DEF CheckInv, Like, Gd, Inode
    <3>3. QED
      BY <3>1, <3>2 DEF Write
  <2>8. QED
    BY <1>1, <2>1, <2>3, <2>4, <2>5, <2>6, <2>7 DEF RepairInv, Learned, Repaired
<1>3. CASE LinksDone
  <2>1. pc = "decide" /\ pc' = "blocks" /\ UNCHANGED <<image, disk, sb, gd, mode>> /\ (writes => fixes = {})
    BY <1>3 DEF LinksDone
  <2>2. \A i \in Ino : Node(i)' = Node(i)
    BY <2>1 DEF Node
  <2>3. /\ Sound1' = Sound1 /\ Sound2' = Sound2 /\ Sound3' = Sound3 /\ AllNamed' = AllNamed /\ LinksAgree' = LinksAgree
    BY <2>1, <2>2, SameReport
  <2>4. writes' = writes
    BY <2>1 DEF writes
  <2>5. ASSUME writes, ~StaysWrong PROVE LinksAgree
    <3>1. AllNamed /\ AllCorrected /\ fixes = {}
      BY <2>1, <2>5 DEF RepairInv, Learned
    <3>2. QED
      BY <3>1 DEF AllNamed, AllCorrected, LinksAgree
  <2>6. QED
    BY <1>1, <2>1, <2>3, <2>4, <2>5 DEF RepairInv, Learned, Repaired
<1>4. QED
  BY <1>2, <1>3

\* The descriptor's bitmaps are the ones read.
LEMMA BitmapsAreRead ==
    ASSUME CheckInv, Convergent(image)
    PROVE  read_block_bitmap = disk[BlockBitmap] /\ read_inode_bitmap = disk[InodeBitmap]
<1>1. ~gd.block_uninit /\ ~gd.inode_uninit
  BY DEF CheckInv, LikeGroupDesc, Convergent
<1>2. QED
  BY <1>1 DEF read_block_bitmap, read_inode_bitmap

\* The bitmaps of pass 5.
LEMMA RepairBitmaps ==
    ASSUME RepairInv, GatherInv, ScanInv, ProblemsInv, CheckInv, CheckInv', Convergent(image), Pass5Blocks \/ Pass5Inodes
    PROVE  RepairInv'
<1> USE DEF run, handle, device
<1>1. ~StaysWrong' => ~StaysWrong
  BY StaysWrongStays
<1>2. /\ Gd \in DOMAIN disk /\ BlockBitmap \in DOMAIN disk /\ InodeBitmap \in DOMAIN disk
      /\ Gd # BlockBitmap /\ Gd # InodeBitmap /\ BlockBitmap # InodeBitmap
  BY Places DEF CheckInv, Like, Gd, BlockBitmap, InodeBitmap
<1>3. /\ UNCHANGED <<image, sb, gd, mode>> /\ writes' = writes
      /\ (pc = "blocks" /\ pc' = "inodes") \/ (pc = "inodes" /\ pc' = "counts")
  BY DEF Pass5Blocks, Pass5Inodes, writes
<1>4. \/ UNCHANGED disk \/ Write(BlockBitmap, expected_blocks) \/ Write(InodeBitmap, scan.inodes)
  BY DEF Pass5Blocks, Pass5Inodes
<1>5. \A i \in Ino : Node(i)' = Node(i)
  <2>1. CASE UNCHANGED disk
    BY <2>1 DEF Node
  <2>2. CASE ~UNCHANGED disk
    BY <1>4, <2>2, OtherWrites
  <2>3. QED
    BY <2>1, <2>2
<1>6. /\ UNCHANGED gathered /\ Sound1' = Sound1 /\ Sound2' = Sound2 /\ Sound3' = Sound3
      /\ AllNamed' = AllNamed /\ LinksAgree' = LinksAgree
  BY <1>3, <1>5, SameReport
<1>7. disk'[Gd] = disk[Gd]
  BY <1>2, <1>4 DEF Write
<1>8. pc \in FromPass3
  BY <1>3 DEF FromPass3
<1>9. expected_blocks = ClaimedBlocks /\ scan.inodes = in_use
  BY <1>8, Rebuilt
<1>10. read_block_bitmap = disk[BlockBitmap] /\ read_inode_bitmap = disk[InodeBitmap]
  BY BitmapsAreRead
<1> USE DEF FromDue, FromPass2, FromPass3, FromPass4, FromDecide, FromBlocks, FromInodes, FromCounts
<1>11. CASE Pass5Blocks
  <2>1. pc = "blocks" /\ pc' = "inodes"
    BY <1>11 DEF Pass5Blocks
  <2>2. ASSUME writes PROVE disk'[BlockBitmap] = ClaimedBlocks
    <3>1. CASE read_block_bitmap # expected_blocks
      <4>1. Write(BlockBitmap, expected_blocks)
        BY <1>11, <2>2, <3>1 DEF Pass5Blocks
      <4>2. QED
        BY <1>2, <1>9, <4>1 DEF Write
    <3>2. CASE read_block_bitmap = expected_blocks
      <4>1. UNCHANGED disk
        BY <1>11, <3>2 DEF Pass5Blocks
      <4>2. QED
        BY <1>9, <1>10, <3>2, <4>1
    <3>3. QED
      BY <3>1, <3>2
  <2>3. QED
    BY <1>1, <1>3, <1>6, <1>7, <2>1, <2>2 DEF RepairInv, Learned, Repaired, gathered
<1>12. CASE Pass5Inodes
  <2>1. pc = "inodes" /\ pc' = "counts"
    BY <1>12 DEF Pass5Inodes
  <2>2. ASSUME writes PROVE disk'[InodeBitmap] = in_use
    <3>1. CASE read_inode_bitmap # scan.inodes
      <4>1. Write(InodeBitmap, scan.inodes)
        BY <1>12, <2>2, <3>1 DEF Pass5Inodes
      <4>2. QED
        BY <1>2, <1>9, <4>1 DEF Write
    <3>2. CASE read_inode_bitmap = scan.inodes
      <4>1. UNCHANGED disk
        BY <1>12, <3>2 DEF Pass5Inodes
      <4>2. QED
        BY <1>9, <1>10, <3>2, <4>1
    <3>3. QED
      BY <3>1, <3>2
  <2>3. disk'[BlockBitmap] = disk[BlockBitmap]
    <3>1. UNCHANGED disk \/ Write(InodeBitmap, scan.inodes)
      BY <1>12 DEF Pass5Inodes
    <3>2. QED
      BY <1>2, <3>1 DEF Write
  <2>4. QED
    BY <1>1, <1>3, <1>6, <1>7, <2>1, <2>2, <2>3 DEF RepairInv, Learned, Repaired, gathered
<1>13. QED
  BY <1>11, <1>12

\* The assignments of pass 5.
DescWith(g, a, b, c) == [g EXCEPT !.free_blocks = a, !.free_inodes = b, !.used_dirs = c]
SuperWith(s, a, b) == [s EXCEPT !.free_blocks = a, !.free_inodes = b]

\* A descriptor keeps its other fields.
LEMMA DescCounts ==
    ASSUME NEW g, IsGroupDesc(g), NEW a, NEW b, NEW c, NEW e, e = DescWith(g, a, b, c)
    PROVE  /\ e.free_blocks = a /\ e.free_inodes = b /\ e.used_dirs = c /\ e.ok = g.ok
           /\ a = g.free_blocks /\ b = g.free_inodes /\ c = g.used_dirs => e = g
<1>1. PICK x : x = [g EXCEPT !.free_blocks = a]
  OBVIOUS
<1>2. PICK y : y = [x EXCEPT !.free_inodes = b]
  OBVIOUS
<1>3. e = [y EXCEPT !.used_dirs = c]
  BY <1>1, <1>2 DEF DescWith
<1>4. IsGroupDesc(x) /\ x.free_blocks = a /\ x.free_inodes = g.free_inodes /\ x.used_dirs = g.used_dirs
  BY <1>1 DEF IsGroupDesc
<1>5. x.ok = g.ok
  BY <1>1 DEF IsGroupDesc
<1>6. IsGroupDesc(y) /\ y.free_blocks = a /\ y.free_inodes = b /\ y.used_dirs = g.used_dirs
  BY <1>2, <1>4 DEF IsGroupDesc
<1>7. y.ok = x.ok
  BY <1>2, <1>4 DEF IsGroupDesc
<1>8. e.free_blocks = a /\ e.free_inodes = b /\ e.used_dirs = c
  BY <1>3, <1>6 DEF IsGroupDesc
<1>9. e.ok = y.ok
  BY <1>3, <1>6 DEF IsGroupDesc
<1>10. ASSUME a = g.free_blocks, b = g.free_inodes, c = g.used_dirs PROVE e = g
  <2>1. x = g
    BY <1>1, <1>10 DEF IsGroupDesc
  <2>2. y = g
    BY <1>2, <1>10, <2>1 DEF IsGroupDesc
  <2>3. QED
    BY <1>3, <1>10, <2>2 DEF IsGroupDesc
<1>11. QED
  BY <1>5, <1>7, <1>8, <1>9, <1>10

\* A superblock likewise.
LEMMA SuperCounts ==
    ASSUME NEW s, IsSuperblock(s), NEW a, NEW b, NEW e, e = SuperWith(s, a, b)
    PROVE  /\ e.free_blocks = a /\ e.free_inodes = b /\ e.ok = s.ok /\ e.valid = s.valid /\ e.error = s.error
           /\ a = s.free_blocks /\ b = s.free_inodes => e = s
<1>1. PICK x : x = [s EXCEPT !.free_blocks = a]
  OBVIOUS
<1>2. e = [x EXCEPT !.free_inodes = b]
  BY <1>1 DEF SuperWith
<1>3. IsSuperblock(x) /\ x.free_blocks = a /\ x.free_inodes = s.free_inodes
  BY <1>1 DEF IsSuperblock
<1>4. x.ok = s.ok /\ x.valid = s.valid /\ x.error = s.error
  BY <1>1 DEF IsSuperblock
<1>5. e.free_blocks = a /\ e.free_inodes = b
  BY <1>2, <1>3 DEF IsSuperblock
<1>6. e.ok = x.ok /\ e.valid = x.valid /\ e.error = x.error
  BY <1>2, <1>3 DEF IsSuperblock
<1>7. ASSUME a = s.free_blocks, b = s.free_inodes PROVE e = s
  <2>1. x = s
    BY <1>1, <1>7 DEF IsSuperblock
  <2>2. QED
    BY <1>2, <1>7, <2>1 DEF IsSuperblock
<1>8. QED
  BY <1>4, <1>5, <1>6, <1>7

\* Something repaired shows in the report.
LEMMA FixedIsRepaired ==
    ASSUME writes, NEW ps, Fixed(ps) \subseteq problems', NEW code, NEW condition, If(code, condition) \subseteq ps, condition
    PROVE  repaired_anything'
<1> DEFINE p == [code |-> code, at |-> 0, fixed |-> FALSE]
           q == [p EXCEPT !.fixed = writes]
<1>1. p \in ps
  BY DEF If, Found
<1>2. q \in Fixed(ps)
  BY <1>1 DEF Fixed
<1>3. q.fixed
  OBVIOUS
<1> HIDE DEF q
<1>4. QED
  BY <1>2, <1>3 DEF repaired_anything

\* The counts of pass 5.
LEMMA RepairCounts ==
    ASSUME RepairInv, GatherInv, ScanInv, ProblemsInv, CheckInv, CheckInv', Pass5Counts
    PROVE  RepairInv'
<1> USE DEF run, handle, device
<1>1. pc = "counts" /\ pc' = (IF writes THEN "conclude" ELSE "done") /\ UNCHANGED <<image, disk, mode>>
  BY DEF Pass5Counts
<1>2. CASE ~writes
  <2>1. pc' = "done"
    BY <1>1, <1>2
  <2>2. QED
    BY <2>1 DEF RepairInv, Learned, Repaired, FromDue, FromPass2, FromPass3, FromPass4, FromDecide, FromBlocks,
                FromInodes, FromCounts
<1>3. CASE writes
  <2>1. pc' = "conclude" /\ writes'
    BY <1>1, <1>3 DEF writes
  <2>2. ~StaysWrong' => ~StaysWrong
    BY StaysWrongStays
  <2>3. \A i \in Ino : Node(i)' = Node(i)
    BY <1>1 DEF Node
  <2>4. /\ UNCHANGED gathered /\ Sound1' = Sound1 /\ Sound2' = Sound2 /\ Sound3' = Sound3
        /\ AllNamed' = AllNamed /\ LinksAgree' = LinksAgree
    BY <1>1, <2>3, SameReport
  <2>5. FreeBlocksHeld' = FreeBlocksHeld /\ FreeInodesHeld' = FreeInodesHeld
    BY <2>4 DEF gathered, FreeBlocksHeld, FreeInodesHeld
  <2>6. /\ scan.dirs = Directories /\ free_blocks = FreeBlocksHeld /\ free_inodes = FreeInodesHeld
    <3>1. pc \in FromPass3
      BY <1>1 DEF FromPass3
    <3>2. QED
      BY <3>1, Rebuilt
  <2>7. /\ gd' = [gd EXCEPT !.free_blocks = free_blocks, !.free_inodes = free_inodes, !.used_dirs = Cardinality(scan.dirs)]
        /\ sb' = [sb EXCEPT !.free_blocks = free_blocks, !.free_inodes = free_inodes]
    BY <1>3 DEF Pass5Counts
  <2>8. PICK g, h : g = gd /\ h = gd'
    OBVIOUS
  <2>9. PICK s, t : s = sb /\ t = sb'
    OBVIOUS
  <2>10. IsGroupDesc(g) /\ IsSuperblock(s)
    BY <2>8, <2>9 DEF CheckInv, LikeGroupDesc
  <2>11. /\ h.free_blocks = free_blocks /\ h.free_inodes = free_inodes /\ h.used_dirs = Cardinality(scan.dirs) /\ h.ok = g.ok
         /\ free_blocks = g.free_blocks /\ free_inodes = g.free_inodes /\ Cardinality(scan.dirs) = g.used_dirs => h = g
    <3>1. PICK a, b, c : a = free_blocks /\ b = free_inodes /\ c = Cardinality(scan.dirs)
      OBVIOUS
    <3>2. h = DescWith(g, a, b, c)
      BY <2>7, <2>8, <3>1 DEF DescWith
    <3>3. /\ h.free_blocks = a /\ h.free_inodes = b /\ h.used_dirs = c /\ h.ok = g.ok
          /\ a = g.free_blocks /\ b = g.free_inodes /\ c = g.used_dirs => h = g
      BY <2>10, <3>2, DescCounts
    <3>4. QED
      BY <3>1, <3>3
  <2>12. t.free_blocks = free_blocks /\ t.free_inodes = free_inodes
    <3>1. PICK a, b : a = free_blocks /\ b = free_inodes
      OBVIOUS
    <3>2. t = SuperWith(s, a, b)
      BY <2>7, <2>9, <3>1 DEF SuperWith
    <3>3. t.free_blocks = a /\ t.free_inodes = b
      BY <2>10, <3>2, SuperCounts
    <3>4. QED
      BY <3>1, <3>3
  <2>13. GroupAgrees(gd)' /\ SuperAgrees(sb)'
    BY <2>4, <2>5, <2>6, <2>8, <2>9, <2>11, <2>12 DEF GroupAgrees, SuperAgrees, gathered
  <2>14. ASSUME ~repaired_anything' PROVE gd' = gd
    <3> DEFINE A == If("group-free-blocks-wrong", gd.free_blocks # free_blocks)
               B == If("group-free-inodes-wrong", gd.free_inodes # free_inodes)
               C == If("group-dir-count-wrong", gd.used_dirs # Cardinality(scan.dirs))
               D == If("superblock-free-blocks-wrong", sb.free_blocks # free_blocks)
               E == If("superblock-free-inodes-wrong", sb.free_inodes # free_inodes)
               ps == A \cup B \cup C \cup D \cup E
    <3>1. Fixed(ps) \subseteq problems'
      BY DEF Pass5Counts
    <3>2. A \subseteq ps /\ B \subseteq ps /\ C \subseteq ps
      OBVIOUS
    <3> HIDE DEF ps
    <3>3. gd.free_blocks = free_blocks
      BY <1>3, <2>14, <3>1, <3>2, FixedIsRepaired
    <3>4. gd.free_inodes = free_inodes
      BY <1>3, <2>14, <3>1, <3>2, FixedIsRepaired
    <3>5. gd.used_dirs = Cardinality(scan.dirs)
      BY <1>3, <2>14, <3>1, <3>2, FixedIsRepaired
    <3>6. QED
      BY <2>8, <2>11, <3>3, <3>4, <3>5
  <2>15. gd'.ok = gd.ok
    BY <2>8, <2>11
  <2>16. gd = disk[Gd]
    BY <1>1 DEF RepairInv
  <2>17. disk'[BlockBitmap] = ClaimedBlocks' /\ disk'[InodeBitmap] = in_use' /\ (~StaysWrong' => LinksAgree')
    BY <1>1, <1>3, <2>2, <2>4 DEF RepairInv, Repaired, gathered, FromBlocks, FromInodes, FromCounts
  <2>18. ~StaysWrong' => Learned'
    BY <1>1, <2>1, <2>2, <2>4, <2>15 DEF RepairInv, Learned, FromDue, FromPass2, FromPass3, FromPass4, FromDecide,
                                         FromBlocks, FromInodes, FromCounts
  <2>19. QED
    BY <1>1, <2>1, <2>13, <2>14, <2>16, <2>17, <2>18 DEF RepairInv, Repaired
<1>4. QED
  BY <1>2, <1>3

\* The last mark of a check with nothing left wrong.
CleanMark(s) == [s EXCEPT !.valid = TRUE, !.error = FALSE, !.due = FALSE]
FoulMark(s) == [s EXCEPT !.valid = FALSE, !.due = FALSE]
Encoded(s) == [s EXCEPT !.ok = TRUE]

\* The marks keep the counts.
LEMMA MarksKeepCounts ==
    ASSUME NEW s, IsSuperblock(s)
    PROVE  /\ IsSuperblock(CleanMark(s)) /\ CleanMark(s).valid /\ ~CleanMark(s).error
           /\ CleanMark(s).free_blocks = s.free_blocks /\ CleanMark(s).free_inodes = s.free_inodes
           /\ IsSuperblock(FoulMark(s))
           /\ FoulMark(s).free_blocks = s.free_blocks /\ FoulMark(s).free_inodes = s.free_inodes
           /\ IsSuperblock(Encoded(s)) /\ Encoded(s).ok
           /\ Encoded(s).valid = s.valid /\ Encoded(s).error = s.error
           /\ Encoded(s).free_blocks = s.free_blocks /\ Encoded(s).free_inodes = s.free_inodes
<1>1. IsSuperblock(CleanMark(s)) /\ IsSuperblock(FoulMark(s)) /\ IsSuperblock(Encoded(s))
  BY SuperblockFields DEF CleanMark, FoulMark, Encoded
<1>2. CleanMark(s).valid
  BY DEF CleanMark, IsSuperblock
<1>3. ~CleanMark(s).error
  BY DEF CleanMark, IsSuperblock
<1>4. CleanMark(s).free_blocks = s.free_blocks /\ CleanMark(s).free_inodes = s.free_inodes
  BY DEF CleanMark, IsSuperblock
<1>5. FoulMark(s).free_blocks = s.free_blocks /\ FoulMark(s).free_inodes = s.free_inodes
  BY DEF FoulMark, IsSuperblock
<1>6. Encoded(s).ok
  BY DEF Encoded, IsSuperblock
<1>7. Encoded(s).valid = s.valid /\ Encoded(s).error = s.error
  BY DEF Encoded, IsSuperblock
<1>8. Encoded(s).free_blocks = s.free_blocks /\ Encoded(s).free_inodes = s.free_inodes
  BY DEF Encoded, IsSuperblock
<1>9. QED
  BY <1>1, <1>2, <1>3, <1>4, <1>5, <1>6, <1>7, <1>8

\* What was repaired still shows after the mark.
LEMMA RepairsShow ==
    ASSUME ProblemsInv, Conclude, repaired_anything
    PROVE  repaired_anything'
<1>1. PICK p \in problems : p.fixed
  BY DEF repaired_anything
<1>2. CASE UNCHANGED problems
  BY <1>1, <1>2 DEF repaired_anything
<1>3. CASE ~UNCHANGED problems
  <2>1. PICK more : problems' = {IF q.code = "fs-has-errors" THEN [q EXCEPT !.fixed = TRUE] ELSE q : q \in problems} \cup more
    BY <1>3 DEF Conclude
  <2>2. (IF p.code = "fs-has-errors" THEN [p EXCEPT !.fixed = TRUE] ELSE p) \in problems'
    BY <2>1
  <2>3. IsProblem(p)
    BY DEF ProblemsInv
  <2>4. (IF p.code = "fs-has-errors" THEN [p EXCEPT !.fixed = TRUE] ELSE p).fixed
    BY <1>1, <2>3 DEF IsProblem
  <2>5. QED
    BY <2>2, <2>4 DEF repaired_anything
<1>4. QED
  BY <1>2, <1>3

\* The mark, and the descriptors after it.
LEMMA RepairEnds ==
    ASSUME RepairInv, ProblemsInv, CheckInv, CheckInv', Conclude \/ FlushDescs
    PROVE  RepairInv'
<1> USE DEF run, handle, device
<1>1. ~StaysWrong' => ~StaysWrong
  BY StaysWrongStays
<1>2. /\ Gd \in DOMAIN disk /\ BlockBitmap \in DOMAIN disk /\ InodeBitmap \in DOMAIN disk /\ Sb \in DOMAIN disk
      /\ Sb # BlockBitmap /\ Sb # InodeBitmap /\ Gd # BlockBitmap /\ Gd # InodeBitmap /\ Gd # Sb
  BY Places DEF CheckInv, Like, Gd, BlockBitmap, InodeBitmap, Sb
<1>3. UNCHANGED <<image, mode>> /\ writes' = writes /\ writes /\ pc \in {"conclude", "descs"}
  BY DEF Conclude, FlushDescs, writes, RepairInv
<1>4. \/ UNCHANGED disk \/ Write(Sb, Encoded(sb')) \/ Write(Gd, gd')
  BY DEF Conclude, FlushDescs, flush_superblock, Encoded
<1>5. \A i \in Ino : Node(i)' = Node(i)
  <2>1. CASE UNCHANGED disk
    BY <2>1 DEF Node
  <2>2. CASE ~UNCHANGED disk
    BY <1>4, <2>2, OtherWrites
  <2>3. QED
    BY <2>1, <2>2
<1>6. /\ UNCHANGED gathered /\ Sound1' = Sound1 /\ Sound2' = Sound2 /\ Sound3' = Sound3
      /\ AllNamed' = AllNamed /\ LinksAgree' = LinksAgree
  BY <1>3, <1>5, SameReport
<1>7. FreeBlocksHeld' = FreeBlocksHeld /\ FreeInodesHeld' = FreeInodesHeld /\ Directories' = Directories
  BY <1>6 DEF gathered, FreeBlocksHeld, FreeInodesHeld
<1>8. disk'[BlockBitmap] = disk[BlockBitmap] /\ disk'[InodeBitmap] = disk[InodeBitmap]
  BY <1>2, <1>4 DEF Write
<1>9. disk'[BlockBitmap] = ClaimedBlocks' /\ disk'[InodeBitmap] = in_use' /\ (~StaysWrong' => LinksAgree')
  BY <1>1, <1>3, <1>6, <1>8 DEF RepairInv, Repaired, gathered, FromBlocks, FromInodes, FromCounts
<1>10. GroupAgrees(gd) /\ SuperAgrees(sb)
  BY <1>3 DEF RepairInv
<1>11. ~StaysWrong' => gd.ok /\ Sound1' /\ Sound2' /\ Sound3' /\ AllNamed'
  BY <1>1, <1>3, <1>6 DEF RepairInv, Learned, FromDue, FromPass2, FromPass3, FromPass4, FromDecide,
                          FromBlocks, FromInodes, FromCounts
<1>12. CASE Conclude
  <2>1. pc = "conclude" /\ pc' = "descs" /\ UNCHANGED gd /\ Write(Sb, Encoded(sb'))
    BY <1>12 DEF Conclude, flush_superblock, Encoded
  <2>2. \/ left_wrong /\ sb' = FoulMark(sb) /\ UNCHANGED problems
        \/ ~left_wrong /\ sb' = CleanMark(sb)
    BY <1>12 DEF Conclude, FoulMark, CleanMark
  <2>3. PICK s, t : s = sb /\ t = sb'
    OBVIOUS
  <2>4. IsSuperblock(s)
    BY <2>3 DEF CheckInv
  <2>5. IsSuperblock(t) /\ t.free_blocks = s.free_blocks /\ t.free_inodes = s.free_inodes
    BY <2>2, <2>3, <2>4, MarksKeepCounts
  <2>6. SuperAgrees(sb)' /\ GroupAgrees(gd)'
    BY <1>7, <1>10, <2>1, <2>3, <2>5 DEF SuperAgrees, GroupAgrees
  <2>7. disk'[Gd] = disk[Gd] /\ disk'[Sb] = Encoded(t)
    BY <1>2, <2>1, <2>3 DEF Write
  <2>8. ASSUME ~left_wrong' PROVE MarkedRight(disk[Sb])'
    <3>1. t = CleanMark(s)
      <4>1. CASE left_wrong /\ UNCHANGED problems
        BY <2>8, <4>1 DEF left_wrong
      <4>2. QED
        BY <2>2, <2>3, <4>1
    <3>2. t.valid /\ ~t.error
      BY <2>4, <3>1, MarksKeepCounts
    <3>3. PICK e : e = Encoded(t)
      OBVIOUS
    <3>4. e.ok /\ e.valid /\ ~e.error /\ e.free_blocks = t.free_blocks /\ e.free_inodes = t.free_inodes
      BY <2>5, <3>2, <3>3, MarksKeepCounts
    <3>5. QED
      BY <2>3, <2>6, <2>7, <3>3, <3>4 DEF MarkedRight, SuperAgrees
  <2>9. ~repaired_anything' => gd' = disk'[Gd]
    BY <1>12, <2>1, <2>7, RepairsShow DEF RepairInv
  <2>10. QED
    BY <1>3, <1>9, <1>11, <2>1, <2>6, <2>8, <2>9 DEF RepairInv, Learned, Repaired, FromDue, FromPass2, FromPass3, FromPass4,
                                      FromDecide, FromBlocks, FromInodes, FromCounts
<1>13. CASE FlushDescs
  <2>1. pc = "descs" /\ pc' = "flush" /\ UNCHANGED <<sb, problems>>
    BY <1>13 DEF FlushDescs
  <2>2. left_wrong' = left_wrong
    BY <2>1 DEF left_wrong
  <2>3. \/ repaired_anything /\ gd' = [gd EXCEPT !.ok = TRUE] /\ Write(Gd, gd')
        \/ ~repaired_anything /\ UNCHANGED <<gd, disk>>
    BY <1>13 DEF FlushDescs
  <2>4. IsGroupDesc(gd)
    BY DEF CheckInv, LikeGroupDesc
  <2>5. GroupAgrees(gd)'
    <3>1. PICK g, h : g = gd /\ h = gd'
      OBVIOUS
    <3>2. h = [g EXCEPT !.ok = TRUE] \/ h = g
      BY <2>3, <3>1
    <3>3. h.free_blocks = g.free_blocks /\ h.free_inodes = g.free_inodes /\ h.used_dirs = g.used_dirs
      BY <2>4, <3>1, <3>2 DEF IsGroupDesc
    <3>4. QED
      BY <1>7, <1>10, <3>1, <3>3 DEF GroupAgrees
  <2>6. disk'[Gd] = gd'
    <3>1. CASE repaired_anything
      BY <1>2, <2>3, <3>1 DEF Write
    <3>2. CASE ~repaired_anything
      BY <2>1, <2>3, <3>2 DEF RepairInv
    <3>3. QED
      BY <3>1, <3>2
  <2>7. ~StaysWrong' => gd'.ok
    <3>1. CASE gd' = [gd EXCEPT !.ok = TRUE]
      <4>1. PICK g : g = gd
        OBVIOUS
      <4>2. [g EXCEPT !.ok = TRUE].ok
        BY <2>4, <4>1 DEF IsGroupDesc
      <4>3. QED
        BY <3>1, <4>1, <4>2
    <3>2. CASE gd' = gd
      BY <1>11, <3>2
    <3>3. QED
      BY <2>3, <3>1, <3>2
  <2>8. ~left_wrong' => ~StaysWrong'
    BY DEF left_wrong, StaysWrong, needs_a_person
  <2>9. disk'[Sb] = disk[Sb]
    BY <1>2, <2>3 DEF Write
  <2>10. ~left_wrong' => MarkedRight(disk[Sb])'
    BY <1>7, <2>1, <2>2, <2>9 DEF RepairInv, MarkedRight, SuperAgrees
  <2>11. ~left_wrong' => disk'[Gd].ok /\ GroupAgrees(disk[Gd])'
    BY <2>5, <2>6, <2>7, <2>8 DEF GroupAgrees
  <2>12. SuperAgrees(sb)'
    BY <1>7, <1>10, <2>1 DEF SuperAgrees
  <2>13. QED
    BY <1>3, <1>9, <1>11, <2>1, <2>5, <2>7, <2>10, <2>11, <2>12
       DEF RepairInv, Learned, Repaired, FromDue, FromPass2, FromPass3, FromPass4,
           FromDecide, FromBlocks, FromInodes, FromCounts
<1>14. QED
  BY <1>12, <1>13

\* Each step of a check keeps what it has learned and repaired.
LEMMA RepairStep ==
    ASSUME RepairInv, GatherInv, ScanInv, ProblemsInv, CheckInv, CheckInv', Convergent(image), Next
    PROVE  RepairInv'
<1> USE DEF run, handle, device
<1>1. CASE pass0_superblock \/ Due \/ pass1_inodes \/ pass2_directories \/ pass3_connectivity \/ pass4_link_counts
  BY <1>1, RepairReads
<1>2. CASE FixLinks \/ LinksDone
  BY <1>2, RepairLinks
<1>3. CASE Pass5Blocks \/ Pass5Inodes
  BY <1>3, RepairBitmaps
<1>4. CASE Pass5Counts
  BY <1>4, RepairCounts
<1>5. CASE Conclude \/ FlushDescs
  BY <1>5, RepairEnds
<1>6. CASE \/ (\E m \in Modes, f \in Forced : Open(m, f)) \/ skip \/ SkipFlush \/ Pass2Fails
           \/ preen_halt \/ HaltFlush \/ FlushDevice \/ DeviceFails \/ PowerCut
  <2>1. pc' \in {"idle", "skipped", "halted", "done", "align", "halt"} \/ (pc' = "pass0" /\ gd' = disk'[Gd])
    BY <1>6 DEF Open, Fresh, skip, SkipFlush, Pass2Fails, preen_halt, HaltFlush, FlushDevice, DeviceFails, PowerCut
  <2>2. QED
    BY <2>1 DEF RepairInv, Learned, Repaired, FromDue, FromPass2, FromPass3, FromPass4, FromDecide, FromBlocks, FromInodes,
                FromCounts
<1>7. QED
  BY <1>1, <1>2, <1>3, <1>4, <1>5, <1>6 DEF Next, Step

\* A device no pass has anything to say about.
RightDevice ==
    /\ Sound1 /\ Sound2 /\ Sound3 /\ AllNamed /\ LinksAgree
    /\ disk[BlockBitmap] = ClaimedBlocks /\ disk[InodeBitmap] = in_use
    /\ disk[Gd].ok /\ GroupAgrees(disk[Gd]) /\ MarkedRight(disk[Sb])

\* What a check left right, the checks after it find and leave right.
RightInv ==
    verdict = "right" /\ crashes = 0 =>
        /\ RightDevice
        /\ pc \notin {"halt", "align"}
        /\ pc \in {"pass0", "due", "pass1", "pass2", "pass3", "pass4", "decide", "blocks", "inodes", "counts", "conclude"}
              => sb = disk[Sb] /\ gd = disk[Gd]
        /\ pc \in FromDue => problems = {}
        /\ pc = "decide" => fixes = {}

\* It stays right where inodes, bitmaps and descriptors stay.
LEMMA RightStays ==
    ASSUME CheckInv, CheckInv', image' = image, RightDevice, \A i \in Ino : Node(i)' = Node(i),
           disk'[BlockBitmap] = disk[BlockBitmap], disk'[InodeBitmap] = disk[InodeBitmap], disk'[Gd] = disk[Gd],
           disk'[Sb] = disk[Sb] \/ (disk'[Sb].ok /\ disk'[Sb].valid /\ ~disk'[Sb].error /\
                                    disk'[Sb].free_blocks = disk[Sb].free_blocks /\
                                    disk'[Sb].free_inodes = disk[Sb].free_inodes)
    PROVE  RightDevice'
<1>1. /\ UNCHANGED gathered /\ Sound1' = Sound1 /\ Sound2' = Sound2 /\ Sound3' = Sound3
      /\ AllNamed' = AllNamed /\ LinksAgree' = LinksAgree
  BY SameReport
<1>2. FreeBlocksHeld' = FreeBlocksHeld /\ FreeInodesHeld' = FreeInodesHeld /\ Directories' = Directories
  BY <1>1 DEF gathered, FreeBlocksHeld, FreeInodesHeld
<1>3. GroupAgrees(disk[Gd])'
  BY <1>2 DEF RightDevice, GroupAgrees
<1>4. MarkedRight(disk[Sb])'
  BY <1>2 DEF RightDevice, MarkedRight, SuperAgrees
<1>5. QED
  BY <1>1, <1>3, <1>4 DEF RightDevice, gathered

\* A full check that ends with nothing left wrong ends with such a device.
LEMMA EndsRight ==
    ASSUME RepairInv, CheckInv, CheckInv', FlushDevice, verdict' = "right"
    PROVE  RightDevice'
<1> USE DEF run, handle, device
<1>1. pc = "flush" /\ UNCHANGED <<image, disk>> /\ ~left_wrong
  BY DEF FlushDevice, Sync
<1>2. ~StaysWrong
  BY <1>1 DEF left_wrong, StaysWrong, needs_a_person
<1>3. Learned /\ Repaired
  BY <1>1, <1>2 DEF RepairInv
<1>4. Sound1 /\ Sound2 /\ Sound3 /\ AllNamed
  BY <1>1, <1>3 DEF Learned, FromPass2, FromPass3, FromPass4, FromDecide, FromBlocks, FromInodes, FromCounts
<1>5. LinksAgree /\ disk[BlockBitmap] = ClaimedBlocks /\ disk[InodeBitmap] = in_use
  BY <1>1, <1>2, <1>3 DEF Repaired, FromBlocks, FromInodes, FromCounts
<1>6. disk[Gd].ok /\ GroupAgrees(disk[Gd]) /\ MarkedRight(disk[Sb])
  BY <1>1 DEF RepairInv
<1>7. RightDevice
  BY <1>4, <1>5, <1>6 DEF RightDevice
<1>8. \A i \in Ino : Node(i)' = Node(i)
  BY <1>1 DEF Node
<1>9. QED
  BY <1>1, <1>7, <1>8, RightStays

\* The passes of a later check, which only read.
LEMMA RightReads ==
    ASSUME RightInv, GatherInv, ScanInv, CheckInv, CheckInv', verdict = "right", crashes = 0,
           pass0_superblock \/ Due \/ pass1_inodes \/ pass2_directories \/ pass3_connectivity \/ pass4_link_counts
    PROVE  RightInv'
<1> USE DEF run, handle, device
<1>1. UNCHANGED <<image, disk, gd, sb, verdict, crashes>>
  BY DEF pass0_superblock, Due, pass1_inodes, pass2_directories, pass3_connectivity, pass4_link_counts
<1>2. \A i \in Ino : Node(i)' = Node(i)
  BY <1>1 DEF Node
<1>3. RightDevice /\ RightDevice'
  BY <1>1, <1>2, RightStays DEF RightInv
<1>4. /\ pc \in {"pass0", "due", "pass1", "pass2", "pass3", "pass4"}
      /\ pc' \in {"due", "pass1", "pass2", "pass3", "pass4", "decide"}
  BY DEF pass0_superblock, Due, pass1_inodes, pass2_directories, pass3_connectivity, pass4_link_counts
<1>5. sb = disk[Sb] /\ gd = disk[Gd]
  BY <1>4 DEF RightInv
<1>6. pc # "pass0" => problems = {}
  BY <1>4 DEF RightInv, FromDue, FromPass2, FromPass3
<1>7. problems' = {} /\ (pc' = "decide" => fixes' = {})
  <2>1. CASE pass0_superblock
    <3>1. sb.ok /\ ~sb.error /\ gd.ok
      BY <1>3, <1>5 DEF RightDevice, MarkedRight
    <3>2. /\ If("fs-has-errors", sb.error) = {} /\ If("superblock-csum", ~sb.ok) = {} /\ If("group-desc-csum", ~gd.ok) = {}
      BY <3>1 DEF If, Found
    <3>3. problems' = {} /\ pc' = "due"
      BY <2>1, <3>2 DEF pass0_superblock
    <3>4. QED
      BY <3>3
  <2>2. CASE Due
    BY <1>6, <2>2 DEF Due
  <2>3. CASE pass1_inodes
    <3>1. pc = "pass1" /\ pc' = "pass2"
      BY <2>3 DEF pass1_inodes
    <3>2. QED
      BY <1>3, <1>6, <2>3, <3>1, ReportOne DEF RightDevice
  <2>4. CASE pass2_directories
    <3>1. pc = "pass2" /\ pc' = "pass3"
      BY <2>4 DEF pass2_directories
    <3>2. QED
      BY <1>3, <1>6, <2>4, <3>1, ReportTwo DEF RightDevice
  <2>5. CASE pass3_connectivity
    <3>1. pc = "pass3" /\ pc' = "pass4"
      BY <2>5 DEF pass3_connectivity
    <3>2. QED
      BY <1>3, <1>6, <2>5, <3>1, ReportThree DEF RightDevice
  <2>6. CASE pass4_link_counts
    <3>1. pc = "pass4"
      BY <2>6 DEF pass4_link_counts
    <3>2. QED
      BY <1>3, <1>6, <2>6, <3>1, ReportFour DEF RightDevice
  <2>7. QED
    BY <2>1, <2>2, <2>3, <2>4, <2>5, <2>6
<1>8. QED
  BY <1>1, <1>3, <1>4, <1>5, <1>7 DEF RightInv

\* Counts assigned as they are leave the descriptor.
LEMMA DescSame ==
    ASSUME NEW g, IsGroupDesc(g)
    PROVE  DescWith(g, g.free_blocks, g.free_inodes, g.used_dirs) = g
  BY DescCounts

\* A skip of a later check finds the counts in line.
LEMMA RightSkip ==
    ASSUME RightInv, CheckInv, verdict = "right", crashes = 0, skip
    PROVE  UNCHANGED disk /\ pc' = "skipped"
<1>1. pc = "due" /\ sb = disk[Sb] /\ gd = disk[Gd] /\ RightDevice
  BY DEF skip, RightInv
<1>2. PICK s, a, b : s = sb /\ a = gd.free_blocks /\ b = gd.free_inodes
  OBVIOUS
<1>3. a = s.free_blocks /\ b = s.free_inodes
  BY <1>1, <1>2 DEF RightDevice, GroupAgrees, MarkedRight, SuperAgrees
<1>4. IsSuperblock(s)
  BY <1>2 DEF CheckInv
<1>5. SuperWith(s, a, b) = s
  BY <1>3, <1>4, SuperCounts
<1>6. [sb EXCEPT !.free_blocks = gd.free_blocks, !.free_inodes = gd.free_inodes] = sb
  BY <1>2, <1>5 DEF SuperWith
<1>7. QED
  BY <1>6 DEF skip, device

\* Pass 5 of a later check finds what it would write.
LEMMA RightFive ==
    ASSUME RightInv, GatherInv, ScanInv, CheckInv, Convergent(image), verdict = "right", crashes = 0,
           Pass5Blocks \/ Pass5Inodes \/ Pass5Counts
    PROVE  problems' = {} /\ UNCHANGED <<disk, sb, gd>>
<1> USE DEF handle, device
<1>1. pc \in {"blocks", "inodes", "counts"}
  BY DEF Pass5Blocks, Pass5Inodes, Pass5Counts
<1>2. pc \in FromPass3 /\ pc \in FromDue
  BY <1>1 DEF FromPass3, FromDue, FromPass2
<1>3. RightDevice /\ sb = disk[Sb] /\ gd = disk[Gd] /\ problems = {}
  BY <1>1, <1>2 DEF RightInv
<1>4. /\ expected_blocks = ClaimedBlocks /\ scan.inodes = in_use /\ scan.dirs = Directories
      /\ free_blocks = FreeBlocksHeld /\ free_inodes = FreeInodesHeld
  BY <1>2, Rebuilt
<1>5. read_block_bitmap = disk[BlockBitmap] /\ read_inode_bitmap = disk[InodeBitmap]
  BY BitmapsAreRead
<1>6. \A code : Found(code, {}) = {} /\ If(code, FALSE) = {} /\ Fixed({}) = {}
  BY NothingFound
<1>7. CASE Pass5Blocks
  <2>1. ~(read_block_bitmap # expected_blocks)
    BY <1>3, <1>4, <1>5 DEF RightDevice
  <2>2. Fixed(If("block-bitmap-differs", read_block_bitmap # expected_blocks)) = {}
    BY <1>6, <2>1
  <2>3. QED
    BY <1>3, <1>7, <2>1, <2>2 DEF Pass5Blocks
<1>8. CASE Pass5Inodes
  <2>1. ~(read_inode_bitmap # scan.inodes)
    BY <1>3, <1>4, <1>5 DEF RightDevice
  <2>2. Fixed(If("inode-bitmap-differs", read_inode_bitmap # scan.inodes)) = {}
    BY <1>6, <2>1
  <2>3. QED
    BY <1>3, <1>8, <2>1, <2>2 DEF Pass5Inodes
<1>9. CASE Pass5Counts
  <2>1. /\ gd.free_blocks = free_blocks /\ gd.free_inodes = free_inodes /\ gd.used_dirs = Cardinality(scan.dirs)
        /\ sb.free_blocks = free_blocks /\ sb.free_inodes = free_inodes
    BY <1>3, <1>4 DEF RightDevice, GroupAgrees, MarkedRight, SuperAgrees
  <2>2. /\ If("group-free-blocks-wrong", gd.free_blocks # free_blocks) = {}
        /\ If("group-free-inodes-wrong", gd.free_inodes # free_inodes) = {}
        /\ If("group-dir-count-wrong", gd.used_dirs # Cardinality(scan.dirs)) = {}
        /\ If("superblock-free-blocks-wrong", sb.free_blocks # free_blocks) = {}
        /\ If("superblock-free-inodes-wrong", sb.free_inodes # free_inodes) = {}
    BY <1>6, <2>1
  <2>3. problems' = {}
    <3>1. PICK ps : /\ ps = If("group-free-blocks-wrong", gd.free_blocks # free_blocks)
                              \cup If("group-free-inodes-wrong", gd.free_inodes # free_inodes)
                              \cup If("group-dir-count-wrong", gd.used_dirs # Cardinality(scan.dirs))
                              \cup If("superblock-free-blocks-wrong", sb.free_blocks # free_blocks)
                              \cup If("superblock-free-inodes-wrong", sb.free_inodes # free_inodes)
                    /\ problems' = problems \cup Fixed(ps)
      BY <1>9 DEF Pass5Counts
    <3>2. ps = {}
      BY <2>2, <3>1
    <3>3. QED
      BY <1>3, <1>6, <3>1, <3>2
  <2>4. PICK g, s, a, b, c : /\ g = gd /\ s = sb
                             /\ a = free_blocks /\ b = free_inodes /\ c = Cardinality(scan.dirs)
    OBVIOUS
  <2>5. IsGroupDesc(g) /\ IsSuperblock(s)
    BY <2>4 DEF CheckInv, LikeGroupDesc
  <2>6. a = g.free_blocks /\ b = g.free_inodes /\ c = g.used_dirs /\ a = s.free_blocks /\ b = s.free_inodes
    BY <2>1, <2>4
  <2>7. DescWith(g, a, b, c) = g /\ SuperWith(s, a, b) = s
    <3>1. SuperWith(s, a, b) = s
      BY <2>5, <2>6, SuperCounts
    <3>2. DescWith(g, g.free_blocks, g.free_inodes, g.used_dirs) = g
      BY <2>5, DescSame
    <3>3. QED
      BY <2>6, <3>1, <3>2
  <2>8. (gd' = DescWith(g, a, b, c) /\ sb' = SuperWith(s, a, b)) \/ UNCHANGED <<gd, sb>>
    BY <1>9, <2>4 DEF Pass5Counts, DescWith, SuperWith
  <2>9. UNCHANGED disk
    BY <1>9 DEF Pass5Counts
  <2>10. QED
    BY <2>3, <2>4, <2>7, <2>8, <2>9
<1>10. QED
  BY <1>7, <1>8, <1>9

\* Its mark is the one that stands, and it has no descriptors to write.
LEMMA RightMark ==
    ASSUME RightInv, CheckInv, verdict = "right", crashes = 0, Conclude
    PROVE  /\ problems' = {}
           /\ \E s : /\ disk' = [disk EXCEPT ![Sb] = s] /\ s.ok /\ s.valid /\ ~s.error
                     /\ s.free_blocks = disk[Sb].free_blocks /\ s.free_inodes = disk[Sb].free_inodes
<1>1. RightDevice /\ sb = disk[Sb] /\ problems = {}
  BY DEF Conclude, RightInv, FromDue, FromPass2, FromPass3
<1>2. ~left_wrong
  BY <1>1 DEF left_wrong
<1>3. sb' = CleanMark(sb) /\ disk' = [disk EXCEPT ![Sb] = Encoded(sb')]
  BY <1>2 DEF Conclude, CleanMark, flush_superblock, Encoded, Write
<1>4. problems' = {}
  <2>1. sb.valid
    BY <1>1 DEF RightDevice, MarkedRight
  <2>2. Fixed(If("marked-clean", ~sb.valid)) = {}
    BY <2>1, NothingFound
  <2>3. problems' = {IF p.code = "fs-has-errors" THEN [p EXCEPT !.fixed = TRUE] ELSE p : p \in problems}
                      \cup Fixed(If("marked-clean", ~sb.valid))
    BY <1>2 DEF Conclude
  <2>4. QED
    BY <1>1, <2>2, <2>3
<1>5. PICK s, t, e : s = sb /\ t = CleanMark(s) /\ e = Encoded(t)
  OBVIOUS
<1>6. IsSuperblock(s)
  BY <1>5 DEF CheckInv
<1>7. IsSuperblock(t) /\ t.valid /\ ~t.error /\ t.free_blocks = s.free_blocks /\ t.free_inodes = s.free_inodes
  BY <1>5, <1>6, MarksKeepCounts
<1>8. e.ok /\ e.valid /\ ~e.error /\ e.free_blocks = s.free_blocks /\ e.free_inodes = s.free_inodes
  BY <1>5, <1>7, MarksKeepCounts
<1>9. disk' = [disk EXCEPT ![Sb] = e]
  BY <1>3, <1>5
<1>10. QED
  BY <1>1, <1>4, <1>5, <1>8, <1>9

\* Each step keeps what is right right.
LEMMA RightStep ==
    ASSUME RightInv, RepairInv, GatherInv, ScanInv, CheckInv, CheckInv', Convergent(image), Next
    PROVE  RightInv'
<1> USE DEF run, handle, device
<1>1. CASE FlushDevice
  <2>1. pc' = "done" /\ (verdict' = "right" => RightDevice')
    BY <1>1, EndsRight DEF FlushDevice
  <2>2. QED
    BY <2>1 DEF RightInv, FromDue, FromPass2, FromPass3
<1>2. CASE HaltFlush \/ DeviceFails \/ PowerCut
  <2>1. verdict' = "wrong" \/ crashes' # 0
    <3>1. crashes \in Nat
      BY FsckAssumption DEF CheckInv
    <3>2. QED
      BY <1>2, <3>1 DEF HaltFlush, DeviceFails, PowerCut
  <2>2. QED
    BY <2>1 DEF RightInv
<1>3. CASE ~FlushDevice /\ ~HaltFlush /\ ~DeviceFails /\ ~PowerCut
  <2>1. UNCHANGED <<verdict, crashes>>
    BY <1>3 DEF Next, Step, Open, pass0_superblock, Due, skip, SkipFlush, pass1_inodes, pass2_directories, Pass2Fails,
                pass3_connectivity, pass4_link_counts, preen_halt, FixLinks, LinksDone, Pass5Blocks, Pass5Inodes,
                Pass5Counts, Conclude, FlushDescs
  <2>2. CASE ~(verdict = "right" /\ crashes = 0)
    BY <2>1, <2>2 DEF RightInv
  <2>3. CASE verdict = "right" /\ crashes = 0
    <3>1. CASE pass0_superblock \/ Due \/ pass1_inodes \/ pass2_directories \/ pass3_connectivity \/ pass4_link_counts
      BY <2>3, <3>1, RightReads
    <3>2. RightDevice
      BY <2>3 DEF RightInv
    <3>3. ASSUME UNCHANGED <<image, disk>> PROVE RightDevice'
      <4>1. \A i \in Ino : Node(i)' = Node(i)
        BY <3>3 DEF Node
      <4>2. QED
        BY <3>2, <3>3, <4>1, RightStays
    <3>4. ASSUME NEW m \in Modes, NEW f \in Forced, Open(m, f) PROVE RightInv'
      <4>1. UNCHANGED <<image, disk>> /\ pc' = "pass0" /\ sb' = disk'[Sb] /\ gd' = disk'[Gd]
        BY <3>4 DEF Open, Fresh
      <4>2. QED
        BY <3>3, <4>1 DEF RightInv, FromDue, FromPass2, FromPass3
    <3>5. CASE skip
      <4>1. UNCHANGED <<image, disk>> /\ pc' = "skipped"
        BY <2>3, <3>5, RightSkip DEF skip
      <4>2. QED
        BY <3>3, <4>1 DEF RightInv, FromDue, FromPass2, FromPass3
    <3>6. CASE SkipFlush
      BY <2>3, <3>6 DEF SkipFlush, RightInv
    <3>7. CASE Pass2Fails
      <4>1. UNCHANGED <<image, disk>> /\ pc' = "idle"
        BY <3>7 DEF Pass2Fails
      <4>2. QED
        BY <3>3, <4>1 DEF RightInv, FromDue, FromPass2, FromPass3
    <3>8. CASE preen_halt
      <4>1. problems = {} /\ problems # {}
        BY <2>3, <3>8 DEF preen_halt, Halts, RightInv, FromDue, FromPass2, FromPass3
      <4>2. QED
        BY <4>1
    <3>9. CASE FixLinks
      <4>1. fixes = {} /\ fixes # {}
        BY <2>3, <3>9 DEF FixLinks, RightInv
      <4>2. QED
        BY <4>1
    <3>10. CASE LinksDone
      <4>1. UNCHANGED <<image, disk, sb, gd, problems>> /\ pc = "decide" /\ pc' = "blocks"
        BY <3>10 DEF LinksDone
      <4>2. QED
        BY <2>3, <3>3, <4>1 DEF RightInv, FromDue, FromPass2, FromPass3
    <3>11. CASE Pass5Blocks \/ Pass5Inodes \/ Pass5Counts
      <4>1. problems' = {} /\ UNCHANGED <<disk, sb, gd>>
        BY <2>3, <3>11, RightFive
      <4>2. UNCHANGED image /\ pc \in {"blocks", "inodes", "counts"} /\ pc' \in {"inodes", "counts", "conclude", "done"}
        BY <3>11 DEF Pass5Blocks, Pass5Inodes, Pass5Counts
      <4>3. sb = disk[Sb] /\ gd = disk[Gd]
        BY <2>3, <4>2 DEF RightInv
      <4>4. QED
        BY <3>3, <4>1, <4>2, <4>3 DEF RightInv, FromDue, FromPass2, FromPass3
    <3>12. CASE Conclude
      <4>1. problems' = {} /\ pc' = "descs" /\ image' = image
        BY <2>3, <3>12, RightMark DEF Conclude
      <4>2. PICK s : /\ disk' = [disk EXCEPT ![Sb] = s] /\ s.ok /\ s.valid /\ ~s.error
                     /\ s.free_blocks = disk[Sb].free_blocks /\ s.free_inodes = disk[Sb].free_inodes
        BY <2>3, <3>12, RightMark
      <4>3. \A i \in Ino : Node(i)' = Node(i)
        <5>1. Write(Sb, Encoded(sb'))
          BY <3>12 DEF Conclude, flush_superblock, Encoded
        <5>2. QED
          BY <5>1, OtherWrites
      <4>4. /\ disk'[BlockBitmap] = disk[BlockBitmap] /\ disk'[InodeBitmap] = disk[InodeBitmap] /\ disk'[Gd] = disk[Gd]
            /\ disk'[Sb] = s
        <5>1. /\ Gd \in DOMAIN disk /\ BlockBitmap \in DOMAIN disk /\ InodeBitmap \in DOMAIN disk /\ Sb \in DOMAIN disk
              /\ Sb # BlockBitmap /\ Sb # InodeBitmap /\ Gd # Sb
          BY Places DEF CheckInv, Like, Gd, BlockBitmap, InodeBitmap, Sb
        <5>2. QED
          BY <4>2, <5>1
      <4>5. RightDevice'
        BY <3>2, <4>1, <4>2, <4>3, <4>4, RightStays
      <4>6. QED
        BY <4>1, <4>5 DEF RightInv
    <3>13. CASE FlushDescs
      <4>1. pc = "descs" /\ pc' = "flush" /\ UNCHANGED <<image, problems>> /\ problems = {}
        BY <2>3, <3>13 DEF FlushDescs, RightInv, FromDue, FromPass2, FromPass3
      <4>2. ~repaired_anything
        BY <4>1 DEF repaired_anything
      <4>3. UNCHANGED disk
        BY <3>13, <4>2 DEF FlushDescs
      <4>4. QED
        BY <3>3, <4>1, <4>3 DEF RightInv
    <3>14. QED
      BY <1>3, <3>1, <3>4, <3>5, <3>6, <3>7, <3>8, <3>9, <3>10, <3>11, <3>12, <3>13 DEF Next, Step
  <2>4. QED
    BY <2>2, <2>3
<1>4. QED
  BY <1>1, <1>2, <1>3

\* The device as it was found is history.
LEMMA ImageStays ==
    ASSUME Next
    PROVE  image' = image
  BY DEF Next, Step, Open, pass0_superblock, Due, skip, SkipFlush, pass1_inodes, pass2_directories, Pass2Fails,
         pass3_connectivity, pass4_link_counts, preen_halt, HaltFlush, FixLinks, LinksDone, Pass5Blocks, Pass5Inodes,
         Pass5Counts, Conclude, FlushDescs, FlushDevice, DeviceFails, PowerCut, run, handle, device

\* What the passes of one check gather is there, and a device that lets them converges.
ConvergeInv ==
    /\ GatherInv
    /\ Convergent(image) => RepairInv /\ RightInv

\* The two checks of the argument, and those after them.
LEMMA ConvergeHolds == Spec => []ConvergeInv
<1>1. Init => GatherInv /\ RepairInv /\ RightInv
  <2> SUFFICES ASSUME Init PROVE GatherInv /\ RepairInv /\ RightInv
    OBVIOUS
  <2>1. pc = "idle" /\ verdict = None
    BY DEF Init
  <2>2. None # "right"
    BY FsckAssumption
  <2>3. QED
    BY <2>1, <2>2, RepairOutside DEF GatherInv, RightInv, FromPass2, FromPass3
<1>2. CheckInv /\ CheckInv' /\ ScanInv /\ ProblemsInv /\ ConvergeInv /\ [Next]_vars => ConvergeInv'
  <2> SUFFICES ASSUME CheckInv, CheckInv', ScanInv, ProblemsInv, ConvergeInv, [Next]_vars
               PROVE  GatherInv' /\ (Convergent(image)' => RepairInv' /\ RightInv')
    BY DEF ConvergeInv
  <2>1. CASE Next
    <3>1. image' = image
      BY <2>1, ImageStays
    <3>2. Convergent(image)' <=> Convergent(image)
      BY <3>1 DEF Convergent
    <3>3. QED
      BY <2>1, <3>2, GatherStep, RepairStep, RightStep DEF ConvergeInv
  <2>2. CASE UNCHANGED vars
    <3>1. UNCHANGED <<image, disk, pc, mode, crashes, sb, gd, scan, problems, fixes, verdict>>
      BY <2>2 DEF vars, device, handle, run
    <3>2. image' = image /\ \A i \in Ino : Node(i)' = Node(i)
      BY <3>1 DEF Node
    <3>3. /\ UNCHANGED gathered /\ Sound1' = Sound1 /\ Sound2' = Sound2 /\ Sound3' = Sound3
          /\ AllNamed' = AllNamed /\ LinksAgree' = LinksAgree
          /\ \A i : LinksSeen(i)' = LinksSeen(i)
      BY <3>2, SameReport
    <3>4. GatherInv'
      BY <3>1, <3>3 DEF ConvergeInv, GatherInv, gathered
    <3>5. FreeBlocksHeld' = FreeBlocksHeld /\ FreeInodesHeld' = FreeInodesHeld /\ Directories' = Directories
      BY <3>3 DEF gathered, FreeBlocksHeld, FreeInodesHeld
    <3>6. /\ GroupAgrees(gd)' = GroupAgrees(gd) /\ GroupAgrees(disk[Gd])' = GroupAgrees(disk[Gd])
          /\ SuperAgrees(sb)' = SuperAgrees(sb) /\ MarkedRight(disk[Sb])' = MarkedRight(disk[Sb])
      BY <3>1, <3>5 DEF GroupAgrees, SuperAgrees, MarkedRight
    <3>7. StaysWrong' = StaysWrong /\ writes' = writes /\ left_wrong' = left_wrong /\ repaired_anything' = repaired_anything
      BY <3>1 DEF StaysWrong, writes, left_wrong, repaired_anything
    <3>8. Learned' = Learned /\ Repaired' = Repaired
      BY <3>1, <3>3, <3>7 DEF Learned, Repaired, gathered
    <3>9. AllCorrected' = AllCorrected
      <4>1. Compared' = Compared /\ Compared \subseteq Ino
        BY <3>3 DEF gathered, Compared, in_use, Live
      <4>2. QED
        BY <3>1, <3>2, <3>3, <4>1 DEF AllCorrected
    <3>10. RepairInv => RepairInv'
      BY <3>1, <3>6, <3>7, <3>8, <3>9 DEF RepairInv
    <3>11. RightDevice' = RightDevice
      BY <3>1, <3>3, <3>6 DEF RightDevice, gathered
    <3>12. RightInv => RightInv'
      BY <3>1, <3>11 DEF RightInv
    <3>13. Convergent(image)' => Convergent(image)
      BY <3>1 DEF Convergent
    <3>14. QED
      BY <3>4, <3>10, <3>12, <3>13 DEF ConvergeInv
  <2>3. QED
    BY <2>1, <2>2
<1>3. QED
  BY <1>1, <1>2, CheckHolds, ScanHolds, ProblemsHold, PTL DEF Spec, ConvergeInv

\* `again.is_clean()` after a repair (the repair tests of fsck.rs): of every filesystem whose bitmaps were
\* written and whose root is not both unlinked and deleted, however wrong, once a writing check ran to its
\* end with nothing left wrong, no later check of any mode finds or repairs anything, nor halts, until
\* something crashes.  The argument runs over two checks: the first learns or makes everything true
\* that the passes look at (RepairInv), and no later step of any check takes it away (RightInv).
THEOREM RepairsConverge == Spec => []RepairConverges
<1>1. ConvergeInv => RepairConverges
  BY DEF ConvergeInv, RightInv, RepairConverges, FromDue, FromPass2, FromPass3
<1>2. QED
  BY <1>1, ConvergeHolds, PTL

-------------------------------------------------------------------------------
(* What is marked clean is right *)

\* A full check that may write has left its verdict, and until something crashes only inodes that had
\* links, and reserved ones, have them.
EndInv ==
    /\ pc = "done" /\ writes => verdict # None
    /\ crashes = 0 => \A i \in Ino : i >= FirstIno /\ Node(i).links > 0 => image.disk[Inode(i)].links > 0

\* Only corrections write inodes, and they are of inodes in use.
LEMMA EndStep ==
    ASSUME EndInv, GatherInv, CheckInv, CheckInv', Next
    PROVE  EndInv'
<1> USE DEF run, handle, device
<1>1. pc' = "done" /\ writes' => verdict' # None
  <2>1. CASE FlushDevice
    BY <2>1, FsckAssumption DEF FlushDevice
  <2>2. CASE Pass5Counts
    BY <2>2 DEF Pass5Counts, writes
  <2>3. CASE ~FlushDevice /\ ~Pass5Counts
    <3>1. pc' # "done"
      BY <2>3 DEF Next, Step, Open, pass0_superblock, Due, skip, SkipFlush, pass1_inodes, pass2_directories, Pass2Fails,
                  pass3_connectivity, pass4_link_counts, preen_halt, HaltFlush, FixLinks, LinksDone, Pass5Blocks,
                  Pass5Inodes, Conclude, FlushDescs, DeviceFails, PowerCut
    <3>2. QED
      BY <3>1
  <2>4. QED
    BY <2>1, <2>2, <2>3
<1>2. crashes' = 0 => \A i \in Ino : i >= FirstIno /\ Node(i)'.links > 0 => image'.disk[Inode(i)].links > 0
  <2>1. crashes \in Nat
    BY FsckAssumption DEF CheckInv
  <2>2. CASE PowerCut
    BY <2>1, <2>2 DEF PowerCut
  <2>3. ASSUME ~PowerCut, crashes' = 0 PROVE crashes = 0
    <3>1. ~DeviceFails
      BY <2>1, <2>3 DEF DeviceFails
    <3>2. crashes' = crashes
      BY <2>3, <3>1
         DEF Next, Step, Open, pass0_superblock, Due, skip, SkipFlush, pass1_inodes, pass2_directories, Pass2Fails,
             pass3_connectivity, pass4_link_counts, preen_halt, HaltFlush, FixLinks, LinksDone, Pass5Blocks,
             Pass5Inodes, Pass5Counts, Conclude, FlushDescs, FlushDevice
    <3>3. QED
      BY <2>3, <3>2
  <2>4. CASE FixLinks
    <3>1. PICK f \in fixes : f[1] \in Compared /\ \A i \in Ino : i # f[1] => Node(i)' = Node(i)
      BY <2>4, FixGathers
    <3>2. image' = image /\ ~PowerCut
      BY <2>4, FixGathers DEF FixLinks, PowerCut, AtRest
    <3>3. Ino \subseteq Int /\ FirstIno \in Nat
      BY FsckAssumption, FS_CardinalityType
    <3>4. \A i \in in_use : i >= FirstIno => Node(i).links > 0
      BY <3>3 DEF in_use, Live
    <3>5. f[1] \in in_use
      BY <3>1 DEF Compared
    <3>6. QED
      BY <2>3, <3>1, <3>2, <3>4, <3>5 DEF EndInv
  <2>5. CASE ~FixLinks /\ ~PowerCut
    <3>1. image' = image /\ \A i \in Ino : Node(i)' = Node(i)
      BY <2>5, InodesStay
    <3>2. QED
      BY <2>3, <2>5, <3>1 DEF EndInv
  <2>6. QED
    BY <2>2, <2>4, <2>5
<1>3. QED
  BY <1>1, <1>2 DEF EndInv

LEMMA EndHolds == Spec => []EndInv
<1>1. Init => EndInv
  <2> SUFFICES ASSUME Init PROVE EndInv
    OBVIOUS
  <2>1. pc = "idle" /\ disk = image.disk
    BY DEF Init
  <2>2. QED
    BY <2>1 DEF EndInv, Node
<1>2. EndInv /\ ConvergeInv /\ CheckInv /\ CheckInv' /\ [Next]_vars => EndInv'
  <2> SUFFICES ASSUME EndInv, ConvergeInv, CheckInv, CheckInv', [Next]_vars PROVE EndInv'
    OBVIOUS
  <2>1. CASE Next
    BY <2>1, EndStep DEF ConvergeInv
  <2>2. CASE UNCHANGED vars
    BY <2>2 DEF vars, device, handle, run, EndInv, writes, Node
  <2>3. QED
    BY <2>1, <2>2
<1>3. QED
  BY <1>1, <1>2, CheckHolds, ConvergeHolds, PTL DEF Spec

\* A set of inodes that grows from the root, a level at a time.
LEMMA LevelsExist ==
    ASSUME NEW N \in Nat, NEW B \in [SUBSET Ino -> SUBSET Ino]
    PROVE  \E g \in [0 .. N -> SUBSET Ino] : g[0] = {Root} /\ \A n \in 1 .. N : g[n] = g[n - 1] \cup B[g[n - 1]]
<1> DEFINE F == [p \in (1 .. N) \X SUBSET Ino |-> p[2] \cup B[p[2]]]
<1>1. {Root} \in SUBSET Ino
  BY FsckAssumption
<1>2. IsStep(F, 1 .. N, SUBSET Ino)
  BY DEF IsStep
<1> HIDE DEF F
<1>3. PICK g : IsLoop(g, N, SUBSET Ino, {Root}, F)
  BY <1>1, <1>2, NumberRecursion
<1>4. g \in [0 .. N -> SUBSET Ino] /\ g[0] = {Root}
  BY <1>3 DEF IsLoop
<1>5. ASSUME NEW n \in 1 .. N PROVE g[n] = g[n - 1] \cup B[g[n - 1]]
  <2>1. n - 1 \in 0 .. N
    OBVIOUS
  <2>2. g[n - 1] \in SUBSET Ino
    BY <1>4, <2>1
  <2>3. g[n] = F[<<n, g[n - 1]>>]
    BY <1>3 DEF IsLoop
  <2>4. QED
    BY <2>2, <2>3 DEF F
<1>6. QED
  BY <1>4, <1>5

\* The levels of the tree, and those of pass 3.
NamedBelow(dirs) == {i \in Used : Node(i).dir /\ \E d \in dirs : \E e \in disk[Dir(d)].names : e.ino = i}
TreeLevels ==
    LET level[n \in 0 .. Cardinality(Ino)] ==
            IF n = 0 THEN {Root}
            ELSE level[n - 1] \cup {i \in Used : Node(i).dir /\ \E d \in level[n - 1] :
                                        \E e \in disk[Dir(d)].names : e.ino = i}
    IN  level

LEMMA TreeByLevels ==
    /\ Tree = TreeLevels[Cardinality(Ino)]
    /\ TreeLevels[0] = {Root}
    /\ \A n \in 1 .. Cardinality(Ino) : TreeLevels[n] = TreeLevels[n - 1] \cup NamedBelow(TreeLevels[n - 1])
<1> DEFINE N == Cardinality(Ino)
           Is(g) == g = [n \in 0 .. N |-> IF n = 0 THEN {Root} ELSE g[n - 1] \cup NamedBelow(g[n - 1])]
           loop == CHOOSE g : Is(g)
           B == [dirs \in SUBSET Ino |-> NamedBelow(dirs)]
<1>1. TreeLevels = loop /\ Tree = loop[N]
  BY DEF TreeLevels, Tree, NamedBelow
<1>2. N \in Nat
  BY FsckAssumption, FS_CardinalityType
<1> HIDE DEF N
<1>3. B \in [SUBSET Ino -> SUBSET Ino]
  BY DEF NamedBelow, Used
<1> HIDE DEF B
<1>4. PICK g \in [0 .. N -> SUBSET Ino] : g[0] = {Root} /\ \A n \in 1 .. N : g[n] = g[n - 1] \cup B[g[n - 1]]
  BY <1>2, <1>3, LevelsExist
<1>5. ASSUME NEW n \in 1 .. N PROVE g[n] = g[n - 1] \cup NamedBelow(g[n - 1])
  <2>1. g[n - 1] \in SUBSET Ino
    BY <1>2, <1>4
  <2>2. QED
    BY <1>4, <2>1 DEF B
<1>6. Is(g)
  <2>1. g = [n \in 0 .. N |-> g[n]]
    BY <1>4
  <2>2. \A n \in 0 .. N : g[n] = IF n = 0 THEN {Root} ELSE g[n - 1] \cup NamedBelow(g[n - 1])
    BY <1>2, <1>4, <1>5
  <2>3. QED
    BY <2>1, <2>2
<1>7. Is(loop)
  BY <1>6, Zenon
<1> HIDE DEF loop
<1>8. loop[0] = {Root} /\ \A n \in 1 .. N : loop[n] = loop[n - 1] \cup NamedBelow(loop[n - 1])
  <2>1. \A n \in 0 .. N : loop[n] = IF n = 0 THEN {Root} ELSE loop[n - 1] \cup NamedBelow(loop[n - 1])
    BY <1>7, Zenon
  <2>2. 0 \in 0 .. N /\ \A n \in 1 .. N : n \in 0 .. N /\ n # 0
    BY <1>2
  <2>3. QED
    BY <2>1, <2>2, Zenon
<1>9. QED
  BY <1>1, <1>8 DEF N

LEMMA ReachedByLevels ==
    ASSUME NEW parents, \A p \in parents : p[1] \in Ino
    PROVE  /\ LevelsIn(parents)[0] = {Root}
           /\ \A n \in 1 .. Cardinality(Ino) :
                 LevelsIn(parents)[n] = LevelsIn(parents)[n - 1] \cup BelowIn(parents, LevelsIn(parents)[n - 1])
<1> DEFINE N == Cardinality(Ino)
           Is(g) == g = [n \in 0 .. N |-> IF n = 0 THEN {Root} ELSE g[n - 1] \cup BelowIn(parents, g[n - 1])]
           loop == CHOOSE g : Is(g)
           B == [dirs \in SUBSET Ino |-> BelowIn(parents, dirs)]
<1>1. LevelsIn(parents) = loop
  BY DEF LevelsIn
<1>2. N \in Nat
  BY FsckAssumption, FS_CardinalityType
<1> HIDE DEF N
<1>3. B \in [SUBSET Ino -> SUBSET Ino]
  BY DEF BelowIn
<1> HIDE DEF B
<1>4. PICK g \in [0 .. N -> SUBSET Ino] : g[0] = {Root} /\ \A n \in 1 .. N : g[n] = g[n - 1] \cup B[g[n - 1]]
  BY <1>2, <1>3, LevelsExist
<1>5. ASSUME NEW n \in 1 .. N PROVE g[n] = g[n - 1] \cup BelowIn(parents, g[n - 1])
  <2>1. g[n - 1] \in SUBSET Ino
    BY <1>2, <1>4
  <2>2. QED
    BY <1>4, <2>1 DEF B
<1>6. Is(g)
  <2>1. g = [n \in 0 .. N |-> g[n]]
    BY <1>4
  <2>2. \A n \in 0 .. N : g[n] = IF n = 0 THEN {Root} ELSE g[n - 1] \cup BelowIn(parents, g[n - 1])
    BY <1>2, <1>4, <1>5
  <2>3. QED
    BY <2>1, <2>2
<1>7. Is(loop)
  BY <1>6, Zenon
<1> HIDE DEF loop
<1>8. loop[0] = {Root} /\ \A n \in 1 .. N : loop[n] = loop[n - 1] \cup BelowIn(parents, loop[n - 1])
  <2>1. \A n \in 0 .. N : loop[n] = IF n = 0 THEN {Root} ELSE loop[n - 1] \cup BelowIn(parents, loop[n - 1])
    BY <1>7, Zenon
  <2>2. 0 \in 0 .. N /\ \A n \in 1 .. N : n \in 0 .. N /\ n # 0
    BY <1>2
  <2>3. QED
    BY <2>1, <2>2, Zenon
<1>9. QED
  BY <1>1, <1>8 DEF N

\* Where what pass 3 takes on trust holds, the directories its walk finds are named, and they are all.
LEMMA TreeIsAll ==
    ASSUME in_use = Used, Sound3,
           \A i \in Directories \ {Root} : disk[Dir(i)].dotdot \in Directories =>
               \E e \in disk[Dir(disk[Dir(i)].dotdot)].names : e.ino = i
    PROVE  Tree = Directories
<1> DEFINE N == Cardinality(Ino)
           L(n) == LevelsIn(ParentsHeld)[n]
           T(n) == TreeLevels[n]
           S == {n \in Nat : n \in 0 .. N => Root \in T(n) /\ T(n) \subseteq Directories /\ L(n) \subseteq T(n)}
<1>1. N \in Nat
  BY FsckAssumption, FS_CardinalityType
<1>2. Directories \subseteq Ino /\ Root \in Directories
  BY DEF Directories, in_use, Live, Sound3
<1>3. \A p \in ParentsHeld : p[1] \in Directories /\ p[2] = disk[Dir(p[1])].dotdot
  BY DEF ParentsHeld, Readable
<1>4. L(0) = {Root} /\ \A n \in 1 .. N : L(n) = L(n - 1) \cup BelowIn(ParentsHeld, L(n - 1))
  BY <1>2, <1>3, ReachedByLevels
<1>5. Tree = T(N) /\ T(0) = {Root} /\ \A n \in 1 .. N : T(n) = T(n - 1) \cup NamedBelow(T(n - 1))
  BY TreeByLevels
<1>6. \A x, dirs : x \in BelowIn(ParentsHeld, dirs) => x \in Directories /\ disk[Dir(x)].dotdot \in dirs
  BY <1>3 DEF BelowIn
<1>7. \A x, dirs : x \in NamedBelow(dirs) <=>
          x \in Directories /\ \E d \in dirs : \E e \in disk[Dir(d)].names : e.ino = x
  BY DEF NamedBelow, Directories
<1>8. ReachedIn(ParentsHeld) = L(N) /\ Directories \subseteq ReachedIn(ParentsHeld)
  BY DEF ReachedIn, Sound3
<1> HIDE DEF N, L, T
<1>9. 0 \in S
  BY <1>2, <1>4, <1>5
<1>10. ASSUME NEW n \in Nat, n \in S PROVE n + 1 \in S
  <2> SUFFICES ASSUME n + 1 \in 0 .. N
               PROVE  Root \in T(n + 1) /\ T(n + 1) \subseteq Directories /\ L(n + 1) \subseteq T(n + 1)
    OBVIOUS
  <2>1. n \in 0 .. N /\ n + 1 \in 1 .. N /\ (n + 1) - 1 = n
    BY <1>1
  <2>2. Root \in T(n) /\ T(n) \subseteq Directories /\ L(n) \subseteq T(n)
    BY <1>10, <2>1
  <2>3. L(n + 1) = L(n) \cup BelowIn(ParentsHeld, L(n)) /\ T(n + 1) = T(n) \cup NamedBelow(T(n))
    BY <1>4, <1>5, <2>1
  <2>4. ASSUME NEW x \in BelowIn(ParentsHeld, L(n)) PROVE x \in T(n + 1)
    <3>1. x \in Directories /\ disk[Dir(x)].dotdot \in T(n) /\ disk[Dir(x)].dotdot \in Directories
      BY <1>6, <2>2, <2>4
    <3>2. x # Root => x \in NamedBelow(T(n))
      BY <1>7, <3>1
    <3>3. QED
      BY <2>2, <2>3, <3>2
  <2>5. T(n + 1) \subseteq Directories
    BY <1>7, <2>2, <2>3
  <2>6. QED
    BY <2>2, <2>3, <2>4, <2>5
<1>11. Nat \subseteq S
  <2> HIDE DEF S
  <2>1. QED
    BY <1>9, <1>10, NumberInduction
<1>12. T(N) \subseteq Directories /\ L(N) \subseteq T(N)
  BY <1>1, <1>11
<1>13. QED
  BY <1>5, <1>8, <1>12

\* What was found to be as the passes trust still is.
LEMMA TrustStays ==
    ASSUME CheckInv, Trusted(image),
           \A i \in Ino : i >= FirstIno /\ Node(i).links > 0 => image.disk[Inode(i)].links > 0
    PROVE  /\ in_use = Used
           /\ \A i \in Used : Owned(i) = IF i \in Walked THEN Node(i).owns ELSE {}
           /\ \A i \in Walked : Node(i).whole => Node(i).owns = Node(i).reaches
           /\ \A i \in Directories \ {Root} : disk[Dir(i)].dotdot \in Directories =>
                 \E e \in disk[Dir(disk[Dir(i)].dotdot)].names : e.ino = i
           /\ ~disk[Gd].block_uninit /\ ~disk[Gd].inode_uninit
<1>1. image \in Images /\ Like(disk, image) /\ LikeGroupDesc(gd, image)
  BY DEF CheckInv
<1>2. /\ LikeGroupDesc(disk[Gd], image)
      /\ \A i \in Ino : LikeInode(Node(i), image.disk[Inode(i)])
      /\ \A i \in Ino : image.disk[Inode(i)].dir => disk[Dir(i)] = image.disk[Dir(i)]
  BY <1>1, LikePlaces DEF Node
<1>3. \A i \in Ino : /\ Node(i).dir = image.disk[Inode(i)].dir /\ Node(i).reaches = image.disk[Inode(i)].reaches
                     /\ Node(i).whole = image.disk[Inode(i)].whole
                     /\ Node(i).owns = image.disk[Inode(i)].owns /\ Node(i).acl = image.disk[Inode(i)].acl
  BY <1>1, <1>2, InodeSame
<1>4. Ino \subseteq Int /\ FirstIno \in Nat
  BY FsckAssumption, FS_CardinalityType
<1>5. \A i \in Used : i \in Ino /\ (i < FirstIno \/ image.disk[Inode(i)].links > 0)
  BY <1>4 DEF Used
<1>6. \A i \in Used : TrustedInode(image, i)
  BY <1>5 DEF Trusted
<1>7. in_use = Used
  <2>1. gd.itable_unused = image.disk[Gd].itable_unused
    BY <1>1 DEF LikeGroupDesc
  <2>2. \A i \in Used : i \in Live
    BY <1>5, <1>6, <2>1 DEF TrustedInode, Live
  <2>3. QED
    BY <2>2 DEF in_use, Used, Live
<1>8. \A i \in Used : (i \in Walked <=> i >= FirstIno \/ i \in {Root, Journal, Resize})
  BY <1>7 DEF Walked
<1>9. \A i \in Used : /\ Node(i).acl = 0
                      /\ i \in Walked /\ Node(i).whole => Node(i).owns = Node(i).reaches
                      /\ i \notin Walked => Node(i).owns = {}
  BY <1>3, <1>5, <1>6, <1>8 DEF TrustedInode
<1>10. Walked \subseteq Used
  BY <1>7 DEF Walked
<1>11. \A i \in Used : Owned(i) = IF i \in Walked THEN Node(i).owns ELSE {}
  BY <1>9 DEF Owned
<1>12. ASSUME NEW i \in Directories \ {Root}, disk[Dir(i)].dotdot \in Directories
       PROVE  \E e \in disk[Dir(disk[Dir(i)].dotdot)].names : e.ino = i
  <2>1. i \in Used /\ i \in Ino /\ image.disk[Inode(i)].dir
    BY <1>3, <1>5, <1>7 DEF Directories
  <2>2. disk[Dir(i)] = image.disk[Dir(i)]
    BY <1>2, <2>1
  <2>3. PICK d : d = disk[Dir(i)].dotdot
    OBVIOUS
  <2>4. d \in Used /\ d \in Ino /\ image.disk[Inode(d)].dir /\ (d < FirstIno \/ image.disk[Inode(d)].links > 0)
    BY <1>3, <1>5, <1>7, <1>12, <2>3 DEF Directories
  <2>5. disk[Dir(d)] = image.disk[Dir(d)]
    BY <1>2, <2>4
  <2>6. \E e \in image.disk[Dir(d)].names : e.ino = i
    BY <1>6, <2>1, <2>2, <2>3, <2>4 DEF TrustedInode
  <2>7. QED
    BY <2>3, <2>5, <2>6
<1>13. ~disk[Gd].block_uninit /\ ~disk[Gd].inode_uninit
  BY <1>2 DEF LikeGroupDesc, Trusted, Convergent
<1>14. QED
  BY <1>7, <1>9, <1>10, <1>11, <1>12, <1>13

\* A directory's entries are those pass 2 counts, and its ".." leads to a directory.
LEMMA EntriesAreCounted ==
    ASSUME Sound2, NEW d \in Directories
    PROVE  /\ d \in Readable /\ NamedIn(d) = Entries(d)
           /\ disk[Dir(d)].dot = d /\ disk[Dir(d)].dotdot \in Directories
           /\ \A e \in disk[Dir(d)].names : e.ino \in in_use
<1>1. d \in Readable
  BY DEF Sound2
<1>2. InRange(d) = Entries(d) /\ \A e \in InRange(d) : e.ino \in in_use
  BY <1>1 DEF Sound2
<1>3. NamedIn(d) = Entries(d)
  BY <1>2 DEF NamedIn
<1>4. disk[Dir(d)].names \subseteq Entries(d)
  BY DEF Entries
<1>5. disk[Dir(d)].dot = d /\ HasDotDot(d)
  BY <1>1 DEF Sound2
<1>6. disk[Dir(d)].dotdot \in Directories
  <2> DEFINE up == [name |-> "..", ino |-> disk[Dir(d)].dotdot, type |-> "dir"]
  <2>1. up \in Entries(d)
    BY <1>5 DEF HasDotDot, Entries
  <2>2. up.ino = disk[Dir(d)].dotdot /\ up.type = "dir"
    OBVIOUS
  <2> HIDE DEF up
  <2>3. up \in NamedIn(d) /\ up.ino \in in_use
    BY <1>2, <1>3, <2>1
  <2>4. up.type = TypeOf(up.ino)
    BY <1>1, <2>3 DEF Sound2
  <2>5. Node(up.ino).dir
    BY <2>2, <2>4 DEF TypeOf
  <2>6. QED
    BY <2>2, <2>3, <2>5 DEF Directories
<1>7. QED
  BY <1>1, <1>2, <1>3, <1>4, <1>5, <1>6

\* A device no pass has anything to say about is right, where what they take on trust is.
LEMMA RightIsConsistent ==
    ASSUME CheckInv, RightDevice, Trusted(image),
           \A i \in Ino : i >= FirstIno /\ Node(i).links > 0 => image.disk[Inode(i)].links > 0
    PROVE  Consistent
<1> DEFINE reserved == {i \in Ino : i < FirstIno}
           owned == UNION {Owned(i) : i \in Used}
<1>1. /\ Sound1 /\ Sound2 /\ Sound3 /\ LinksAgree
      /\ disk[BlockBitmap] = ClaimedBlocks /\ disk[InodeBitmap] = in_use
      /\ GroupAgrees(disk[Gd]) /\ SuperAgrees(disk[Sb])
  BY DEF RightDevice, MarkedRight
<1>2. /\ in_use = Used
      /\ \A i \in Used : Owned(i) = IF i \in Walked THEN Node(i).owns ELSE {}
      /\ \A i \in Walked : Node(i).whole => Node(i).owns = Node(i).reaches
      /\ \A i \in Directories \ {Root} : disk[Dir(i)].dotdot \in Directories =>
            \E e \in disk[Dir(disk[Dir(i)].dotdot)].names : e.ino = i
      /\ ~disk[Gd].block_uninit /\ ~disk[Gd].inode_uninit
  BY TrustStays
<1>3. Tree = Directories
  BY <1>1, <1>2, TreeIsAll
<1>4. Walked \subseteq Used /\ Used \subseteq Ino
  BY <1>2 DEF Walked, Used
<1>5. \A i \in Walked : Owned(i) = Claimed(i)
  <2>1. \A i \in Walked : Node(i).whole
    BY <1>1 DEF Sound1
  <2>2. \A i \in Walked : Claimed(i) = Node(i).reaches
    BY <1>1, <2>1 DEF Sound1
  <2>3. QED
    BY <1>2, <1>4, <2>1, <2>2
<1>6. \A i \in Used : i \notin Walked => Owned(i) = {}
  BY <1>2
<1>7. ASSUME NEW i \in Used \ ({OrphanFile} \cup (reserved \ {Root})) PROVE Node(i).links = Cardinality(NamesOf(i))
  <2>1. i \in Compared
    <3>1. Ino \subseteq Int /\ FirstIno \in Nat
      BY FsckAssumption, FS_CardinalityType
    <3>2. QED
      BY <1>2, <1>4, <3>1 DEF Compared
  <2>2. LinksSeen(i) = Node(i).links
    BY <1>1, <2>1 DEF LinksAgree
  <2>3. \A d \in Directories : NamedIn(d) = Entries(d)
    BY <1>1, EntriesAreCounted
  <2>4. Readable = Directories
    BY <1>1 DEF Sound2, Readable
  <2>5. \A x : x \in NamesHeld <=> \E d \in Directories : \E e \in Entries(d) : x = <<d, e>>
    <3> DEFINE P(d) == {<<d, e>> : e \in NamedIn(d)}
    <3>1. \A x : x \in NamesHeld <=> \E d \in Readable : x \in P(d)
      BY Zenon DEF NamesHeld
    <3>2. \A x, d : x \in P(d) <=> \E e \in NamedIn(d) : x = <<d, e>>
      OBVIOUS
    <3> HIDE DEF P
    <3>3. QED
      BY <2>3, <2>4, <3>1, <3>2
  <2>6. \A x : x \in NamesOf(i) <=> \E d \in Directories : \E e \in Entries(d) : e.ino = i /\ x = <<d, e>>
    <3> DEFINE P(d) == {<<d, e>> : e \in {f \in Entries(d) : f.ino = i}}
    <3>1. \A x : x \in NamesOf(i) <=> \E d \in Tree : x \in P(d)
      BY Zenon DEF NamesOf
    <3>2. \A x, d : x \in P(d) <=> \E e \in Entries(d) : e.ino = i /\ x = <<d, e>>
      OBVIOUS
    <3> HIDE DEF P
    <3>3. QED
      BY <1>3, <3>1, <3>2
  <2>7. \A x : x \in NamesOf(i) <=> x \in {n \in NamesHeld : n[2].ino = i}
    BY <2>5, <2>6
  <2>8. NamesOf(i) = {n \in NamesHeld : n[2].ino = i}
    BY <2>7
  <2>9. QED
    BY <2>2, <2>8 DEF LinksSeen
<1>8. \A d \in Tree : \A e \in disk[Dir(d)].names : e.ino \in Used
  BY <1>1, <1>2, <1>3, EntriesAreCounted
<1>9. \A d \in Tree : disk[Dir(d)].dot = d /\ (d # Root =>
              \E e \in disk[Dir(disk[Dir(d)].dotdot)].names : e.ino = d)
  BY <1>1, <1>2, <1>3, EntriesAreCounted
<1>10. \A b : \A i \in Walked \ {Resize} : b \in Claimed(i) =>
           b \notin Meta /\ b \notin Node(i).again /\ \A j \in Walked : j < i => b \notin Claimed(j)
  <2>1. \A b : \A i \in Walked : b \in Claimed(i) => b \in Blk
    BY DEF Claimed
  <2>2. \A b : b \notin Collisions
    BY <1>1 DEF Sound1
  <2>3. QED
    BY <2>1, <2>2 DEF Collisions
<1>11. \A i \in Used \ {Resize} : Owned(i) \cap (Meta \cup Node(i).again) = {}
  BY <1>5, <1>6, <1>10
<1>12. ASSUME NEW i \in Used \ {Resize}, NEW j \in Used \ {Resize}, i # j PROVE Owned(i) \cap Owned(j) = {}
  <2>1. i \in Int /\ j \in Int
    BY <1>4, FsckAssumption, FS_CardinalityType
  <2>2. i < j \/ j < i
    BY <1>12, <2>1
  <2>3. CASE i \in Walked /\ j \in Walked
    BY <1>5, <1>10, <2>2, <2>3
  <2>4. CASE ~(i \in Walked /\ j \in Walked)
    BY <1>6, <2>4
  <2>5. QED
    BY <2>3, <2>4
<1>13. disk[BlockBitmap] = Meta \cup owned
  <2>1. \A b : b \in owned <=> \E i \in Walked : b \in Claimed(i)
    <3>1. \A b : b \in owned <=> \E i \in Used : b \in Owned(i)
      BY Zenon
    <3>2. QED
      BY <1>4, <1>5, <1>6, <3>1
  <2>2. \A b : b \in ClaimedBlocks <=> b \in Meta \/ \E i \in Walked : b \in Claimed(i)
    BY Zenon DEF ClaimedBlocks
  <2> HIDE DEF owned
  <2>3. \A b : b \in ClaimedBlocks <=> b \in Meta \cup owned
    BY <2>1, <2>2
  <2>4. ClaimedBlocks = Meta \cup owned
    BY <2>3
  <2>5. QED
    BY <1>1, <2>4
<1>14. Cardinality(Blk \ disk[BlockBitmap]) = FreeBlocksHeld
  <2>1. IsFiniteSet(Blk) /\ Cardinality(Blk) = blocks_count
    BY FsckAssumption, FS_Interval DEF Blk
  <2>2. ClaimedBlocks \subseteq Blk
    BY DEF ClaimedBlocks, Meta, Claimed
  <2>3. Blk \cap ClaimedBlocks = ClaimedBlocks
    BY <2>2
  <2>4. Cardinality(Blk \ ClaimedBlocks) = Cardinality(Blk) - Cardinality(Blk \cap ClaimedBlocks)
    BY <2>1, FS_Difference
  <2>5. QED
    BY <1>1, <2>1, <2>3, <2>4 DEF FreeBlocksHeld
<1>15. Cardinality(Ino \ disk[InodeBitmap]) = FreeInodesHeld
  BY <1>1 DEF FreeInodesHeld
<1>16. /\ disk[Gd].free_blocks = Cardinality(Blk \ disk[BlockBitmap])
       /\ disk[Gd].free_inodes = Cardinality(Ino \ disk[InodeBitmap])
       /\ disk[Gd].used_dirs = Cardinality(Tree)
       /\ disk[Sb].free_blocks = disk[Gd].free_blocks /\ disk[Sb].free_inodes = disk[Gd].free_inodes
  BY <1>1, <1>3, <1>14, <1>15 DEF GroupAgrees, SuperAgrees
<1>17. disk[InodeBitmap] = Used
  BY <1>1, <1>2
<1>18. QED
  BY <1>2, <1>7, <1>8, <1>9, <1>11, <1>12, <1>13, <1>16, <1>17 DEF Consistent

\* "valid if nothing is left wrong, not valid otherwise" (check_opened): of every filesystem of which what
\* the passes take on trust holds, however wrong otherwise, what an uninterrupted full check leaves marked
\* clean is right: the tree holds every inode in use and each has the links it is named with, no block has
\* two owners, and bitmaps and counts agree.  A verdict of "wrong" leaves the superblock marked (WrongInv);
\* one of "right" leaves nothing for any pass to say (RightInv), and on a trusted device the walk over ".."
\* of pass 3 then finds just the directories that names lead to.
THEOREM MarkedCleanIsSound == Spec => []MarkedCleanIsRight
<1>1. CheckInv /\ WrongInv /\ ConvergeInv /\ EndInv => MarkedCleanIsRight
  <2> SUFFICES ASSUME CheckInv, WrongInv, ConvergeInv, EndInv, Trusted(image),
                      pc = "done", writes, crashes = 0, disk[Sb].valid, ~disk[Sb].error
               PROVE  Consistent
    BY DEF MarkedCleanIsRight
  <2>1. verdict # "wrong"
    BY DEF WrongInv, Marked
  <2>2. verdict = "right"
    BY <2>1 DEF EndInv, CheckInv
  <2>3. RightDevice
    BY <2>2 DEF ConvergeInv, Trusted, RightInv
  <2>4. QED
    BY <2>3, RightIsConsistent DEF EndInv
<1>2. QED
  BY <1>1, CheckHolds, WrongHolds, ConvergeHolds, EndHolds, PTL
===============================================================================
