--------------------------- MODULE BlockRunsProofs ---------------------------
(***************************************************************************)
(* BlockRuns is a set of blocks: whatever is inserted, in whatever order,  *)
(* the runs stay apart and hold exactly what was claimed below len; what   *)
(* insert returns is what was held before; within returns all that is held *)
(* in its range.  The argument rests on Separate alone: of the runs before *)
(* a claim only the last can reach it, and of the runs a claim joins only  *)
(* one can begin before it and only one can end behind it, so the merged   *)
(* run has nothing in it that was not held or claimed.                     *)
(***************************************************************************)
EXTENDS BlockRuns, Induction, TLAPS

\* What Separate gives for single runs.
LEMMA RunTypes ==
    ASSUME NEW b, Separate(b)
    PROVE  /\ \A s \in DOMAIN b.runs : s \in Nat /\ b.runs[s] \in Nat /\ s < b.runs[s] /\ b.runs[s] <= b.len
           /\ \A s, t \in DOMAIN b.runs : s < t => b.runs[s] < t
           /\ b.len \in Nat
  BY DEF Separate

\* A run before a claim that reaches it is the last one: insert need look at no other.
LEMMA JoinedIsReached ==
    ASSUME NEW b, Separate(b), NEW start \in Nat, NEW end \in Nat, start <= end
    PROVE  joined(b.runs, start, end) = {s \in DOMAIN b.runs : s <= end /\ start <= b.runs[s]}
  <1>1. \A s \in DOMAIN b.runs : s < start /\ b.runs[s] >= start => s \in last_before(b.runs, start)
    <2> SUFFICES ASSUME NEW s \in DOMAIN b.runs, s < start, b.runs[s] >= start,
                        NEW t \in DOMAIN b.runs, t < start
                 PROVE  t <= s
        BY DEF last_before
    <2>1. s < t => b.runs[s] < t
          BY RunTypes
    <2> QED BY <2>1, RunTypes
  <1> QED BY <1>1, RunTypes DEF joined, last_before

\* Where the merged run begins: at the claim, or at the one run that reaches it from before.
LEMMA LoIsStart ==
    ASSUME NEW b, Separate(b), NEW start \in Nat, NEW end \in Nat, start <= end
    PROVE  LET l == lo(b.runs, start, end)
               joins == joined(b.runs, start, end)
           IN  /\ l \in Nat /\ l <= start /\ (l = start \/ l \in joins)
               /\ \A s \in joins : l <= s
  <1> DEFINE joins == joined(b.runs, start, end)
             S == {start} \cup joins
  <1>1. \A s \in joins : s \in DOMAIN b.runs /\ s \in Nat /\ start <= b.runs[s] /\ s <= end
        BY JoinedIsReached, RunTypes
  <1>2. \A s, t \in joins : s < start /\ t < start => s = t
    <2> SUFFICES ASSUME NEW s \in joins, NEW t \in joins, s < start, t < start, s < t
                 PROVE  FALSE
        BY <1>1
    <2> QED BY <1>1, RunTypes
  <1>3. \E m \in S : \A y \in S : m <= y
    <2>1. CASE \E s \in joins : s < start
      <3>1. PICK s \in joins : s < start
            BY <2>1
      <3>2. \A y \in S : s <= y
            BY <1>1, <1>2, <3>1
      <3> QED BY <3>2
    <2>2. CASE \A s \in joins : start <= s
          BY <2>2, <1>1
    <2> QED BY <2>1, <2>2, <1>1
  <1>4. lo(b.runs, start, end) \in S /\ \A y \in S : lo(b.runs, start, end) <= y
        BY <1>3 DEF lo, Min
  <1> HIDE DEF joins
  <1>5. lo(b.runs, start, end) \in Nat
        BY <1>4, <1>1
  <1> QED BY <1>4, <1>5, <1>1 DEF joins

\* Where it ends: at the end of the claim, or of the one run that lies across it.
LEMMA HiIsEnd ==
    ASSUME NEW b, Separate(b), NEW start \in Nat, NEW end \in Nat, start <= end
    PROVE  LET h == hi(b.runs, start, end)
               joins == joined(b.runs, start, end)
           IN  /\ h \in Nat /\ end <= h /\ (h = end \/ \E s \in joins : h = b.runs[s])
               /\ \A s \in joins : b.runs[s] <= h
  <1> DEFINE joins == joined(b.runs, start, end)
             S == {end} \cup {b.runs[s] : s \in joins}
  <1>1. \A s \in joins : s \in DOMAIN b.runs /\ s \in Nat /\ b.runs[s] \in Nat /\ s <= end
        BY JoinedIsReached, RunTypes
  <1>2. \A s, t \in joins : end < b.runs[s] /\ end < b.runs[t] => s = t
    <2> SUFFICES ASSUME NEW s \in joins, NEW t \in joins, end < b.runs[s], end < b.runs[t], s < t
                 PROVE  FALSE
        BY <1>1
    <2> QED BY <1>1, RunTypes
  <1>3. \E m \in S : \A y \in S : m >= y
    <2>1. CASE \E s \in joins : end < b.runs[s]
      <3>1. PICK s \in joins : end < b.runs[s]
            BY <2>1
      <3>2. \A y \in S : b.runs[s] >= y
            BY <1>1, <1>2, <3>1
      <3> QED BY <3>2
    <2>2. CASE \A s \in joins : b.runs[s] <= end
          BY <2>2, <1>1
    <2> QED BY <2>1, <2>2, <1>1
  <1>4. hi(b.runs, start, end) \in S /\ \A y \in S : hi(b.runs, start, end) >= y
        BY <1>3 DEF hi, Max
  <1> HIDE DEF joins
  <1>5. hi(b.runs, start, end) \in Nat
        BY <1>4, <1>1
  <1> QED BY <1>4, <1>5, <1>1 DEF joins

-------------------------------------------------------------------------------
(* insert *)

\* The map after a merge: the runs it did not join, as they were, and the merged one.
LEMMA MergeShape ==
    ASSUME NEW b, Separate(b), NEW start \in Nat, NEW end \in Nat, start < end, end <= b.len
    PROVE  LET m == Merge(b.runs, start, end)
               joins == joined(b.runs, start, end)
               l == lo(b.runs, start, end)
           IN  /\ DOMAIN m = (DOMAIN b.runs \ joins) \cup {l}
               /\ l \notin DOMAIN b.runs \ joins
               /\ m[l] = hi(b.runs, start, end)
               /\ \A s \in DOMAIN b.runs \ joins : m[s] = b.runs[s]
  <1> DEFINE joins == joined(b.runs, start, end)
             l == lo(b.runs, start, end)
  <1>1. l = start \/ l \in joins
        BY LoIsStart
  <1>2. start \in DOMAIN b.runs => start \in joins
        BY JoinedIsReached, RunTypes
  <1>3. l \notin DOMAIN b.runs \ joins
        BY <1>1, <1>2
  <1> QED BY <1>3 DEF Merge

\* A merge leaves the runs apart: the gap before it and the gap behind it stay gaps.
LEMMA MergeKeepsApart ==
    ASSUME NEW b, Separate(b), NEW start \in Nat, NEW end \in Nat, start < end, end <= b.len
    PROVE  LET m == Merge(b.runs, start, end)
           IN  /\ DOMAIN m \subseteq Nat
               /\ \A s \in DOMAIN m : m[s] \in Nat /\ s < m[s] /\ m[s] <= b.len
               /\ \A s, t \in DOMAIN m : s < t => m[s] < t
  <1> DEFINE m == Merge(b.runs, start, end)
             joins == joined(b.runs, start, end)
             l == lo(b.runs, start, end)
             h == hi(b.runs, start, end)
             rest == DOMAIN b.runs \ joins
  <1>1. /\ DOMAIN m = rest \cup {l} /\ m[l] = h
        /\ \A s \in rest : m[s] = b.runs[s]
        BY MergeShape
  <1>0. start <= end
        OBVIOUS
  <1>lo. l \in Nat /\ l <= start /\ (l = start \/ l \in joins)
        BY <1>0, LoIsStart, Zenon
  <1>hi. h \in Nat /\ end <= h /\ (h = end \/ \E u \in joins : h = b.runs[u])
        BY <1>0, HiIsEnd, Zenon
  <1>2. /\ l \in Nat /\ l <= start /\ (l = start \/ l \in joins)
        /\ h \in Nat /\ end <= h /\ (h = end \/ \E u \in joins : h = b.runs[u])
        BY <1>lo, <1>hi
  <1>3. joins = {s \in DOMAIN b.runs : s <= end /\ start <= b.runs[s]}
        BY JoinedIsReached
  <1> HIDE DEF m, joins, l, h
  <1>4. h <= b.len
        BY <1>2, <1>3, RunTypes
  <1>5. \A t \in rest : l < t => h < t
    <2> SUFFICES ASSUME NEW t \in rest, l < t PROVE h < t
        OBVIOUS
    <2>1. end < t
      <3>1. b.runs[t] < start => l \in joins
            BY <1>2, RunTypes
      <3>2. l \in joins => b.runs[l] < t
            BY <1>3, RunTypes
      <3> QED BY <3>1, <3>2, <1>2, <1>3, RunTypes
    <2>2. \A u \in joins : b.runs[u] < t
          BY <2>1, <1>3, RunTypes
    <2> QED BY <2>1, <2>2, <1>2
  <1>6. \A s \in rest : s < l => b.runs[s] < l
        BY <1>2, <1>3, RunTypes
  <1>7. \A s, t \in DOMAIN m : s < t => m[s] < t
    <2> SUFFICES ASSUME NEW s \in DOMAIN m, NEW t \in DOMAIN m, s < t PROVE m[s] < t
        OBVIOUS
    <2>1. CASE s = l /\ t \in rest
          BY <2>1, <1>1, <1>5
    <2>2. CASE s \in rest /\ t = l
          BY <2>2, <1>1, <1>6
    <2>3. CASE s \in rest /\ t \in rest
          BY <2>3, <1>1, RunTypes
    <2>4. ~(s = l /\ t = l)
          BY <1>2
    <2> QED BY <2>1, <2>2, <2>3, <2>4, <1>1
  <1> QED BY <1>1, <1>2, <1>4, <1>7, RunTypes DEF m

\* A merge holds what was held and what was claimed, and nothing else.
LEMMA MergeHoldsBoth ==
    ASSUME NEW b, Separate(b), NEW start \in Nat, NEW end \in Nat, start < end, end <= b.len,
           NEW x \in Nat
    PROVE  LET m == Merge(b.runs, start, end)
           IN  (\E s \in DOMAIN m : s <= x /\ x < m[s])
                  <=> \/ \E s \in DOMAIN b.runs : s <= x /\ x < b.runs[s]
                      \/ start <= x /\ x < end
  <1> DEFINE m == Merge(b.runs, start, end)
             joins == joined(b.runs, start, end)
             l == lo(b.runs, start, end)
             h == hi(b.runs, start, end)
             rest == DOMAIN b.runs \ joins
  <1>0. start <= end
        OBVIOUS
  <1>1. /\ DOMAIN m = rest \cup {l} /\ m[l] = h
        /\ \A s \in rest : m[s] = b.runs[s]
        BY MergeShape
  <1>2. /\ l \in Nat /\ l <= start /\ (l = start \/ l \in joins)
        /\ \A s \in joins : l <= s
        BY <1>0, LoIsStart, Zenon
  <1>3. /\ h \in Nat /\ end <= h /\ (h = end \/ \E u \in joins : h = b.runs[u])
        /\ \A s \in joins : b.runs[s] <= h
        BY <1>0, HiIsEnd, Zenon
  <1>4. joins = {s \in DOMAIN b.runs : s <= end /\ start <= b.runs[s]}
        BY JoinedIsReached
  <1> HIDE DEF m, joins, l, h
  <1>5. ASSUME NEW s \in DOMAIN m, s <= x, x < m[s]
        PROVE  (\E t \in DOMAIN b.runs : t <= x /\ x < b.runs[t]) \/ (start <= x /\ x < end)
    <2>1. CASE s \in rest
          BY <2>1, <1>1, <1>5
    <2>2. CASE s = l
      <3>1. x < start => l \in joins /\ x < b.runs[l]
            BY <2>2, <1>2, <1>4, <1>5, RunTypes
      <3>2. end <= x => \E u \in joins : u <= x /\ x < b.runs[u]
            BY <2>2, <1>1, <1>3, <1>4, <1>5, RunTypes
      <3> QED BY <3>1, <3>2, <2>2, <1>4, <1>5
    <2> QED BY <2>1, <2>2, <1>1
  <1>6. ASSUME NEW s \in DOMAIN b.runs, s <= x, x < b.runs[s]
        PROVE  \E t \in DOMAIN m : t <= x /\ x < m[t]
    <2>1. CASE s \in rest
          BY <2>1, <1>1, <1>6
    <2>2. CASE s \in joins
      <3>1. l <= x /\ x < h
            BY <2>2, <1>2, <1>3, <1>6, RunTypes
      <3> QED BY <3>1, <1>1
    <2> QED BY <2>1, <2>2
  <1>7. start <= x /\ x < end => \E t \in DOMAIN m : t <= x /\ x < m[t]
    <2>1. start <= x /\ x < end => l <= x /\ x < h
          BY <1>2, <1>3
    <2> QED BY <2>1, <1>1
  <1> QED BY <1>5, <1>6, <1>7 DEF m

\* Membership in the blocks of the runs, a run at a time.
LEMMA BlocksByRun ==
    ASSUME NEW b, Separate(b)
    PROVE  /\ Blocks(b) \subseteq Nat
           /\ \A x \in Nat : x \in Blocks(b) <=> \E s \in DOMAIN b.runs : s <= x /\ x < b.runs[s]
  BY RunTypes DEF Blocks

\* A BlockRuns value: the three fields of the struct.
IsBlockRuns(b) ==
    /\ b = [runs |-> b.runs, len |-> b.len, count |-> b.count]
    /\ Separate(b)

\* insert changes the runs and the count: the fields of the struct after a call.
LEMMA InsertFields ==
    ASSUME NEW b, IsBlockRuns(b), NEW start \in Nat, NEW end \in Nat
    PROVE  LET stop == Smaller(end, b.len)
               i == insert(b, start, end)
           IN  /\ i = [runs |-> i.runs, len |-> i.len, count |-> i.count]
               /\ i.len = b.len
               /\ i.runs = IF start >= stop THEN b.runs ELSE Merge(b.runs, start, stop)
  <1> DEFINE stop == Smaller(end, b.len)
             i == insert(b, start, end)
  <1>1. CASE start >= stop
        BY <1>1 DEF insert, IsBlockRuns
  <1>2. CASE ~(start >= stop)
    <2>1. i = [b EXCEPT !.runs = Merge(@, start, stop),
                        !.count = @ + (stop - start) - Total(overlaps(b.runs, start, stop))]
          BY <1>2 DEF insert
    <2> QED BY <2>1, <1>2 DEF IsBlockRuns
  <1> QED BY <1>1, <1>2

\* BlockRuns::insert, for every set of runs, every claim and every device size: the runs
\* stay apart and hold what they held and what was claimed inside the filesystem.
THEOREM InsertIsUnion ==
    ASSUME NEW b, IsBlockRuns(b), NEW start \in Nat, NEW end \in Nat
    PROVE  /\ IsBlockRuns(insert(b, start, end))
           /\ Blocks(insert(b, start, end)) = Blocks(b) \cup (Span(<<start, end>>) \cap Span(<<0, b.len>>))
  <1> DEFINE stop == Smaller(end, b.len)
             i == insert(b, start, end)
  <1>1. /\ Separate(b) /\ b.len \in Nat /\ stop \in Nat /\ stop <= b.len
        /\ Span(<<start, end>>) \cap Span(<<0, b.len>>) = start .. stop - 1
        BY RunTypes DEF IsBlockRuns, Smaller, Span
  <1>2. /\ i = [runs |-> i.runs, len |-> i.len, count |-> i.count]
        /\ i.len = b.len
        /\ i.runs = IF start >= stop THEN b.runs ELSE Merge(b.runs, start, stop)
        BY InsertFields
  <1> HIDE DEF i, stop
  <1>3. CASE start >= stop
    <2>1. Separate(i)
          BY <1>1, <1>2, <1>3 DEF Separate
    <2>2. Blocks(i) = Blocks(b)
          BY <1>2, <1>3 DEF Blocks
    <2>3. start .. stop - 1 = {}
          BY <1>1, <1>3
    <2> QED BY <1>1, <1>2, <2>1, <2>2, <2>3 DEF IsBlockRuns, i
  <1>4. CASE start < stop
    <2>0. i.runs = Merge(b.runs, start, stop)
          BY <1>1, <1>2, <1>4
    <2>1. Separate(i)
          BY <1>1, <1>2, <1>4, <2>0, MergeKeepsApart DEF Separate
    <2>2. \A x \in Nat : x \in Blocks(i) <=> x \in Blocks(b) \/ (start <= x /\ x < stop)
      <3> SUFFICES ASSUME NEW x \in Nat
                   PROVE  x \in Blocks(i) <=> x \in Blocks(b) \/ (start <= x /\ x < stop)
          OBVIOUS
      <3>1. x \in Blocks(i) <=> \E s \in DOMAIN i.runs : s <= x /\ x < i.runs[s]
            BY <2>1, BlocksByRun
      <3>2. x \in Blocks(b) <=> \E s \in DOMAIN b.runs : s <= x /\ x < b.runs[s]
            BY <1>1, BlocksByRun
      <3>3. (\E s \in DOMAIN i.runs : s <= x /\ x < i.runs[s])
               <=> \/ \E s \in DOMAIN b.runs : s <= x /\ x < b.runs[s]
                   \/ start <= x /\ x < stop
            BY <1>1, <1>4, <2>0, MergeHoldsBoth
      <3> QED BY <3>1, <3>2, <3>3
    <2>3. Blocks(i) \subseteq Nat /\ Blocks(b) \subseteq Nat
          BY <1>1, <2>1, BlocksByRun
    <2>4. Blocks(i) = Blocks(b) \cup (start .. stop - 1)
          BY <2>2, <2>3, <1>1
    <2> QED BY <1>1, <1>2, <2>1, <2>4 DEF IsBlockRuns, i
  <1> QED BY <1>1, <1>3, <1>4

\* What insert returns, and ScanState::claim_range notes as duplicates, is what was both
\* held before and claimed now.
THEOREM HeldIsIntersection ==
    ASSUME NEW b, IsBlockRuns(b), NEW start \in Nat, NEW end \in Nat
    PROVE  UNION {Span(r) : r \in Held(b, start, end)} = Blocks(b) \cap Span(<<start, end>>)
  <1> DEFINE stop == Smaller(end, b.len)
             both == UNION {Span(r) : r \in Held(b, start, end)}
  <1>1. /\ Separate(b) /\ b.len \in Nat /\ stop \in Nat /\ stop <= end /\ stop <= b.len
        /\ stop = end \/ stop = b.len
        BY RunTypes DEF IsBlockRuns, Smaller
  <1>2. \A x \in Blocks(b) : x \in Nat /\ x < b.len
        BY <1>1, BlocksByRun, RunTypes
  <1>3. CASE start >= stop
    <2>1. Held(b, start, end) = {}
          BY <1>3 DEF Held
    <2> QED BY <2>1, <1>1, <1>2, <1>3 DEF Span
  <1>4. CASE start < stop
    <2> DEFINE joins == joined(b.runs, start, stop)
               hit == {t \in joins : start < b.runs[t] /\ t < stop}
    <2>0. joins = {s \in DOMAIN b.runs : s <= stop /\ start <= b.runs[s]}
          BY <1>1, <1>4, JoinedIsReached
    <2>1. Held(b, start, end) = {<<Larger(start, s), Smaller(b.runs[s], stop)>> : s \in hit}
          BY <1>1, <1>4 DEF Held, overlaps
    <2>2. hit = {s \in DOMAIN b.runs : s < stop /\ start < b.runs[s]}
          BY <2>0, <1>1, RunTypes
    <2> HIDE DEF joins, hit, stop
    <2>3. \A s \in hit : Span(<<Larger(start, s), Smaller(b.runs[s], stop)>>)
                             = {x \in Nat : s <= x /\ x < b.runs[s] /\ start <= x /\ x < stop}
          BY <2>2, <1>1, RunTypes DEF Span, Larger, Smaller
    <2>4. \A x : x \in both <=> \E s \in hit : x \in Span(<<Larger(start, s), Smaller(b.runs[s], stop)>>)
          BY <2>1
    <2>5. \A x \in Nat : x \in both <=> x \in Blocks(b) /\ start <= x /\ x < stop
      <3> SUFFICES ASSUME NEW x \in Nat
                   PROVE  x \in both <=> x \in Blocks(b) /\ start <= x /\ x < stop
          OBVIOUS
      <3>1. x \in both <=> \E s \in hit : s <= x /\ x < b.runs[s] /\ start <= x /\ x < stop
            BY <2>3, <2>4
      <3>2. x \in Blocks(b) <=> \E s \in DOMAIN b.runs : s <= x /\ x < b.runs[s]
            BY <1>1, BlocksByRun
      <3>3. \A s \in DOMAIN b.runs : s <= x /\ x < b.runs[s] /\ start <= x /\ x < stop => s \in hit
            BY <2>2, <1>1, RunTypes
      <3> QED BY <3>1, <3>2, <3>3, <2>2
    <2>6. both \subseteq Nat
          BY <2>3, <2>4
    <2>7. \A x \in Nat : x \in Blocks(b) /\ x \in Span(<<start, end>>)
                             <=> x \in Blocks(b) /\ start <= x /\ x < stop
          BY <1>1, <1>2 DEF Span
    <2> HIDE DEF both
    <2>8. both = Blocks(b) \cap Span(<<start, end>>)
          BY <2>5, <2>6, <2>7, <1>2
    <2> QED BY <2>8 DEF both
  <1> QED BY <1>1, <1>3, <1>4

-------------------------------------------------------------------------------
(* within *)

\* Where the walk begins: no run before it reaches into the range.
LEMMA FromMissesNothing ==
    ASSUME NEW b, Separate(b), NEW start \in Nat
    PROVE  LET from == Min({start} \cup {s \in last_before(b.runs, start) : b.runs[s] > start})
           IN  \A s \in DOMAIN b.runs : start < b.runs[s] => from <= s
  <1> DEFINE reaching == {s \in last_before(b.runs, start) : b.runs[s] > start}
             S == {start} \cup reaching
  <1>1. \A s \in reaching : s \in DOMAIN b.runs /\ s \in Nat /\ s < start
        BY RunTypes DEF last_before
  <1>2. \A s \in DOMAIN b.runs : s < start /\ start < b.runs[s] => s \in reaching
    <2> SUFFICES ASSUME NEW s \in DOMAIN b.runs, s < start, start < b.runs[s],
                        NEW t \in DOMAIN b.runs, t < start
                 PROVE  t <= s
        BY DEF last_before
    <2> QED BY RunTypes
  <1>3. \A s, t \in reaching : s = t
        BY RunTypes DEF last_before
  <1>4. \E m \in S : \A y \in S : m <= y
    <2>1. CASE reaching = {}
          BY <2>1
    <2>2. CASE reaching # {}
      <3>1. PICK s \in reaching : TRUE
            BY <2>2
      <3>2. \A y \in S : s <= y
            BY <1>1, <1>3, <3>1
      <3> QED BY <3>2
    <2> QED BY <2>1, <2>2
  <1>5. Min(S) \in S /\ \A y \in S : Min(S) <= y
        BY <1>4 DEF Min
  <1>6. \A s \in DOMAIN b.runs : start < b.runs[s] => Min(S) <= s
    <2> SUFFICES ASSUME NEW s \in DOMAIN b.runs, start < b.runs[s] PROVE Min(S) <= s
        OBVIOUS
    <2>1. CASE s < start
          BY <2>1, <1>2, <1>5
    <2>2. CASE start <= s
      <3>1. Min(S) <= start /\ Min(S) \in Nat
            BY <1>5, <1>1
      <3> QED BY <3>1, <2>2, RunTypes
    <2> QED BY <2>1, <2>2, RunTypes
  <1> QED BY <1>6

\* BlockRuns::within, which pass 5 builds a group's bitmap from: the ranges it yields are
\* the blocks held in start .. end, all of them and no others.
THEOREM WithinIsCut ==
    ASSUME NEW b, IsBlockRuns(b), NEW start \in Nat, NEW end \in Nat
    PROVE  UNION {Span(r) : r \in within(b, start, end)} = Blocks(b) \cap Span(<<start, end>>)
  <1> DEFINE from == Min({start} \cup {s \in last_before(b.runs, start) : b.runs[s] > start})
             part(s) == <<Larger(s, start), Smaller(b.runs[s], end)>>
             walked == {t \in DOMAIN b.runs : from <= t /\ t < end}
             got == UNION {Span(r) : r \in within(b, start, end)}
  <1>0. Separate(b)
        BY DEF IsBlockRuns
  <1>1. within(b, start, end) = {r \in {part(s) : s \in walked} : r[1] < r[2]}
        BY DEF within
  <1>2. \A s \in DOMAIN b.runs : start < b.runs[s] => from <= s
        BY <1>0, FromMissesNothing
  <1> HIDE DEF from
  <1>3. \A s \in DOMAIN b.runs : Span(part(s)) = {x \in Nat : s <= x /\ x < b.runs[s] /\ start <= x /\ x < end}
        BY <1>0, RunTypes DEF Span, Larger, Smaller
  <1>4. \A s \in DOMAIN b.runs : Span(part(s)) # {} => part(s)[1] < part(s)[2]
        BY <1>0, RunTypes DEF Span, Larger, Smaller
  <1> HIDE DEF part
  <1>5. \A x : x \in got <=> \E s \in walked : x \in Span(part(s))
        BY <1>1, <1>4
  <1>6. \A x \in Nat : x \in got <=> x \in Blocks(b) /\ start <= x /\ x < end
    <2> SUFFICES ASSUME NEW x \in Nat
                 PROVE  x \in got <=> x \in Blocks(b) /\ start <= x /\ x < end
        OBVIOUS
    <2>1. x \in got <=> \E s \in walked : s <= x /\ x < b.runs[s] /\ start <= x /\ x < end
          BY <1>3, <1>5
    <2>2. x \in Blocks(b) <=> \E s \in DOMAIN b.runs : s <= x /\ x < b.runs[s]
          BY <1>0, BlocksByRun
    <2>3. \A s \in DOMAIN b.runs : s <= x /\ x < b.runs[s] /\ start <= x /\ x < end => s \in walked
          BY <1>0, <1>2, RunTypes
    <2> QED BY <2>1, <2>2, <2>3
  <1>7. got \subseteq Nat /\ Blocks(b) \subseteq Nat
        BY <1>0, <1>3, <1>5, BlocksByRun
  <1> HIDE DEF got
  <1>8. \A x \in Nat : x \in Span(<<start, end>>) <=> start <= x /\ x < end
        BY DEF Span
  <1>9. got = Blocks(b) \cap Span(<<start, end>>)
        BY <1>6, <1>7, <1>8
  <1> QED BY <1>9 DEF got

\* The runs a check begins with are apart and hold nothing.
LEMMA NewIsEmpty ==
    ASSUME NEW len \in Nat
    PROVE  IsBlockRuns(new(len)) /\ Blocks(new(len)) = {}
  BY DEF new, IsBlockRuns, Separate, Blocks

-------------------------------------------------------------------------------
(* Counting *)

\* The element a fold of FiniteSetsExt takes of a set.
Pick(s) == CHOOSE x \in s : TRUE

\* g is the sum of the lengths of every set of ranges out of R.
IsSum(g, R) ==
    /\ g \in [SUBSET R -> Int]
    /\ g[{}] = 0
    /\ \A s \in SUBSET R : s # {} => g[s] = Length(Pick(s)) + g[s \ {Pick(s)}]

\* The sum insert and free_blocks take over a set of ranges, range by range.
LEMMA SumUnfolds ==
    ASSUME NEW R, IsFiniteSet(R), R \subseteq Int \X Int
    PROVE  \E g : IsSum(g, R) /\ Total(R) = g[R]
<1> DEFINE Is(g) == g = [s \in SUBSET R |-> IF s = {} THEN 0 ELSE Length(Pick(s)) + g[s \ {Pick(s)}]]
           sum == CHOOSE g : Is(g)
           F == [p \in R \X Int |-> Length(p[1]) + p[2]]
           c == [s \in SUBSET R |-> Pick(s)]
<1>1. Total(R) = sum[R]
  BY DEF Total, MapThenSumSet, MapThenFoldSet, Pick, Length
<1>2. \A s \in SUBSET R : s # {} => Pick(s) \in s /\ c[s] = Pick(s) /\ s \ {Pick(s)} \in SUBSET R
  BY DEF Pick
<1>3. \A x \in R : Length(x) \in Int
  BY DEF Length
<1>4. IsStep(F, R, Int) 
  BY <1>3 DEF IsStep
<1>5. IsChoice(c, R)
  BY <1>2 DEF IsChoice
<1> HIDE DEF F, c
<1>6. PICK g : IsFold(g, R, Int, 0, F, c)
  BY <1>4, <1>5, SubsetRecursion
<1>7. g \in [SUBSET R -> Int] /\ g[{}] = 0
  BY <1>6 DEF IsFold
<1>8. \A s \in SUBSET R : s # {} => g[s] = Length(Pick(s)) + g[s \ {Pick(s)}]
  <2> SUFFICES ASSUME NEW s \in SUBSET R, s # {} PROVE g[s] = Length(Pick(s)) + g[s \ {Pick(s)}]
    OBVIOUS
  <2>1. Pick(s) \in R /\ s \ {Pick(s)} \in SUBSET R /\ c[s] = Pick(s)
    BY <1>2
  <2>2. F[<<Pick(s), g[s \ {Pick(s)}]>>] = Length(Pick(s)) + g[s \ {Pick(s)}]
    BY <1>7, <2>1 DEF F
  <2> QED BY <1>6, <2>1, <2>2 DEF IsFold
<1>9. Is(g)
  BY <1>7, <1>8
<1>10. Is(sum)
  BY <1>9, Zenon
<1> HIDE DEF sum
<1>11. /\ sum[{}] = 0
       /\ \A s \in SUBSET R : s # {} => sum[s] = Length(Pick(s)) + sum[s \ {Pick(s)}]
  BY <1>10
<1> DEFINE T == {s \in SUBSET R : sum[s] \in Int}
<1>12. SUBSET R \subseteq T
  <2>1. ASSUME NEW s \in SUBSET R, \A r \in SUBSET s : r # s => r \in T
        PROVE  s \in T
    <3>1. CASE s = {}
      BY <1>11, <3>1
    <3>2. CASE s # {}
      <4>1. Pick(s) \in s /\ Pick(s) \in R /\ s \ {Pick(s)} \in SUBSET s /\ s \ {Pick(s)} # s
        BY <1>2, <3>2
      <4>2. sum[s \ {Pick(s)}] \in Int
        BY <2>1, <4>1
      <4>3. QED
        BY <1>3, <1>11, <3>2, <4>1, <4>2
    <3>3. QED
      BY <3>1, <3>2
  <2> HIDE DEF T
  <2> QED BY <2>1, SubsetInduction, Zenon
<1>13. sum = [s \in SUBSET R |-> sum[s]]
  BY <1>10
<1>14. sum \in [SUBSET R -> Int]
  BY <1>12, <1>13
<1> QED BY <1>1, <1>11, <1>14 DEF IsSum

\* The lengths of ranges that do not meet add up to the number of blocks in them.
LEMMA SumOfSpans ==
    ASSUME NEW R, IsFiniteSet(R), R \subseteq Nat \X Nat,
           \A r \in R : r[1] < r[2],
           \A q, r \in R : q # r => Span(q) \cap Span(r) = {}
    PROVE  /\ IsFiniteSet(UNION {Span(r) : r \in R})
           /\ Total(R) = Cardinality(UNION {Span(r) : r \in R})
<1> DEFINE All(s) == UNION {Span(r) : r \in s}
<1>0. PICK g : IsSum(g, R) /\ Total(R) = g[R]
  <2>1. R \subseteq Int \X Int
    OBVIOUS
  <2>2. IsFiniteSet(R)
    OBVIOUS
  <2>3. QED
    BY <2>1, <2>2, SumUnfolds
<1>1. /\ g \in [SUBSET R -> Int] /\ g[{}] = 0
      /\ \A s \in SUBSET R : s # {} => g[s] = Length(Pick(s)) + g[s \ {Pick(s)}]
  BY <1>0 DEF IsSum
<1>2. \A r \in R : IsFiniteSet(Span(r)) /\ Cardinality(Span(r)) = Length(r)
  <2> SUFFICES ASSUME NEW r \in R
               PROVE  IsFiniteSet(Span(r)) /\ Cardinality(Span(r)) = Length(r)
    OBVIOUS
  <2> DEFINE a == r[1]
             z == r[2] - 1
  <2>1. a \in Int /\ z \in Int /\ ~(a > z) /\ r[2] \in Int
    OBVIOUS
  <2> HIDE DEF a, z
  <2>2. IsFiniteSet(a .. z) /\ Cardinality(a .. z) = z - a + 1
    BY <2>1, FS_Interval
  <2>3. QED
    BY <2>1, <2>2 DEF Span, Length, a, z
<1> DEFINE T == {s \in SUBSET R : IsFiniteSet(All(s)) /\ g[s] = Cardinality(All(s))}
<1>3. ASSUME NEW s \in SUBSET R, \A r \in SUBSET s : r # s => r \in T
      PROVE  s \in T
  <2>1. CASE s = {}
    <3>1. All(s) = {}
      BY <2>1
    <3>2. QED
      BY <1>1, <2>1, <3>1, FS_EmptySet
  <2>2. CASE s # {}
    <3> DEFINE x == Pick(s)
               rest == s \ {x}
    <3>1. x \in s /\ x \in R
      BY <2>2 DEF Pick
    <3>2. rest \in SUBSET s /\ rest # s /\ rest \in SUBSET R
      BY <3>1
    <3>3. g[s] = Length(x) + g[rest]
      BY <1>1, <2>2
    <3> HIDE DEF x, rest
    <3>4. IsFiniteSet(All(rest)) /\ g[rest] = Cardinality(All(rest))
      BY <1>3, <3>2
    <3>5. All(s) = Span(x) \cup All(rest)
      BY <3>1 DEF rest
    <3>6. Span(x) \cap All(rest) = {}
      <4>1. \A r \in rest : r \in R /\ r # x
        BY <3>2 DEF rest
      <4>2. QED
        BY <3>1, <4>1
    <3>7. IsFiniteSet(Span(x)) /\ Cardinality(Span(x)) = Length(x) /\ Length(x) \in Int
      BY <1>2, <3>1 DEF Length
    <3> HIDE DEF All
    <3>8. /\ IsFiniteSet(All(s))
          /\ Cardinality(All(s)) = Cardinality(Span(x)) + Cardinality(All(rest)) - Cardinality({})
      BY <3>4, <3>5, <3>6, <3>7, FS_Union
    <3>9. Cardinality({}) = 0 /\ Cardinality(All(rest)) \in Nat
      BY <3>4, FS_EmptySet, FS_CardinalityType
    <3>10. QED
      BY <3>3, <3>4, <3>7, <3>8, <3>9
  <2>3. QED
    BY <2>1, <2>2
<1>4. SUBSET R \subseteq T
  <2> HIDE DEF T
  <2>1. IsFiniteSet(R) /\ \A s \in SUBSET R : (\A r \in SUBSET s : r # s => r \in T) => s \in T
    BY <1>3
  <2>2. QED
    BY <2>1, SubsetInduction, Zenon
<1>5. R \in T
  BY <1>4
<1>6. QED
  BY <1>0, <1>5

\* A value of BlockRuns whose count is the number of blocks in its runs.
Counts(b) == b.count = Cardinality(Blocks(b))

\* The runs hold finitely many blocks, all below len.
LEMMA BlocksAreFinite ==
    ASSUME NEW b, Separate(b)
    PROVE  /\ Blocks(b) \subseteq Span(<<0, b.len>>)
           /\ IsFiniteSet(Blocks(b)) /\ Cardinality(Blocks(b)) \in Nat
           /\ IsFiniteSet(DOMAIN b.runs)
<1>1. b.len \in Nat /\ 0 \in Int /\ b.len - 1 \in Int
  BY RunTypes
<1>2. IsFiniteSet(0 .. b.len - 1)
  BY <1>1, FS_Interval
<1>3. \A x \in Blocks(b) : x \in Nat /\ x < b.len
  BY <1>1, BlocksByRun, RunTypes
<1>4. Blocks(b) \subseteq 0 .. b.len - 1
  BY <1>1, <1>3
<1>5. DOMAIN b.runs \subseteq 0 .. b.len - 1
  BY <1>1, RunTypes
<1>6. IsFiniteSet(Blocks(b)) /\ IsFiniteSet(DOMAIN b.runs)
  BY <1>2, <1>4, <1>5, FS_Subset
<1>7. QED
  BY <1>4, <1>6, FS_CardinalityType DEF Span

\* The parts of a claim already held do not meet, so their lengths add up to the blocks held twice.
LEMMA OverlapsAddUp ==
    ASSUME NEW b, Separate(b), NEW start \in Nat, NEW stop \in Nat, start < stop
    PROVE  LET parts == overlaps(b.runs, start, stop)
           IN  Total(parts) = Cardinality(UNION {Span(r) : r \in parts})
<1> DEFINE met == {t \in joined(b.runs, start, stop) : start < b.runs[t] /\ t < stop}
           part == [s \in met |-> <<Larger(start, s), Smaller(b.runs[s], stop)>>]
           parts == overlaps(b.runs, start, stop)
<1>1. met \subseteq DOMAIN b.runs
  BY DEF joined, last_before
<1>2. parts = {part[s] : s \in met}
  BY DEF overlaps
<1>3. \A s \in met : /\ s \in Nat /\ b.runs[s] \in Nat /\ part[s] \in Nat \X Nat
                     /\ part[s][1] < part[s][2]
                     /\ s <= part[s][1] /\ part[s][2] <= b.runs[s]
  BY <1>1, RunTypes DEF Larger, Smaller
<1>4. \A s, t \in met : s # t => b.runs[s] < t \/ b.runs[t] < s
  BY <1>1, <1>3, RunTypes
<1> HIDE DEF met
<1>5. IsFiniteSet(parts)
  <2>1. IsFiniteSet(met)
    BY <1>1, BlocksAreFinite, FS_Subset
  <2>2. part \in Surjection(met, parts)
    BY <1>2 DEF Surjection
  <2> HIDE DEF part, parts
  <2>3. QED
    BY <2>1, <2>2, FS_Surjection, Zenon
<1> HIDE DEF part, parts
<1>6. parts \subseteq Nat \X Nat /\ \A r \in parts : r[1] < r[2]
  BY <1>2, <1>3
<1>7. ASSUME NEW q \in parts, NEW r \in parts, q # r
      PROVE  Span(q) \cap Span(r) = {}
  <2>1. PICK s \in met, t \in met : q = part[s] /\ r = part[t]
    BY <1>2
  <2>2. s # t
    BY <1>7, <2>1
  <2>3. b.runs[s] < t \/ b.runs[t] < s
    BY <1>4, <2>2
  <2>4. q[2] < r[1] \/ r[2] < q[1]
    BY <1>3, <2>1, <2>3
  <2>5. QED
    BY <1>6, <2>4 DEF Span
<1>8. Total(parts) = Cardinality(UNION {Span(r) : r \in parts})
  BY <1>5, <1>6, <1>7, SumOfSpans
<1>9. QED
  BY <1>8 DEF parts

\* insert's count, which pass 5's totals rest on: after any claim it is the number of blocks held.
THEOREM InsertCounts ==
    ASSUME NEW b, IsBlockRuns(b), Counts(b), NEW start \in Nat, NEW end \in Nat
    PROVE  Counts(insert(b, start, end))
<1> DEFINE stop == Smaller(end, b.len)
           i == insert(b, start, end)
           parts == overlaps(b.runs, start, stop)
<1>1. Separate(b) /\ b.len \in Nat /\ stop \in Nat /\ Span(<<start, end>>) \cap Span(<<0, b.len>>) = start .. stop - 1
  BY RunTypes DEF IsBlockRuns, Smaller, Span
<1>2. CASE start >= stop
  BY <1>2 DEF insert, Counts
<1>3. CASE start < stop
  <2>1. i.count = b.count + (stop - start) - Total(parts)
    <3>1. i = [b EXCEPT !.runs = Merge(@, start, stop), !.count = @ + (stop - start) - Total(parts)]
      BY <1>1, <1>3 DEF insert
    <3>2. QED
      BY <3>1 DEF IsBlockRuns
  <2>2. Blocks(i) = Blocks(b) \cup (start .. stop - 1)
    BY <1>1, InsertIsUnion
  <2>3. Total(parts) = Cardinality(UNION {Span(r) : r \in parts})
    BY <1>1, <1>3, OverlapsAddUp
  <2>4. UNION {Span(r) : r \in parts} = Blocks(b) \cap Span(<<start, end>>)
    <3>1. Held(b, start, end) = parts
      BY <1>1, <1>3 DEF Held
    <3>2. QED
      BY <3>1, HeldIsIntersection
  <2> HIDE DEF i, parts, stop
  <2>5. Blocks(b) \subseteq Span(<<0, b.len>>) /\ IsFiniteSet(Blocks(b)) /\ Cardinality(Blocks(b)) \in Nat
    BY <1>1, BlocksAreFinite
  <2>6. Blocks(b) \cap Span(<<start, end>>) = Blocks(b) \cap (start .. stop - 1)
    BY <1>1, <2>5
  <2>7. IsFiniteSet(start .. stop - 1) /\ Cardinality(start .. stop - 1) = stop - start
    <3>1. start \in Int /\ stop - 1 \in Int /\ ~(start > stop - 1)
      BY <1>1, <1>3
    <3>2. IsFiniteSet(start .. stop - 1) /\ Cardinality(start .. stop - 1) = (stop - 1) - start + 1
      BY <3>1, FS_Interval
    <3>3. QED
      BY <1>1, <3>1, <3>2
  <2>8. /\ Cardinality(Blocks(i)) = Cardinality(Blocks(b)) + Cardinality(start .. stop - 1)
                                      - Cardinality(Blocks(b) \cap (start .. stop - 1))
    BY <2>2, <2>5, <2>7, FS_Union
  <2>9. Total(parts) = Cardinality(Blocks(b) \cap (start .. stop - 1))
    BY <2>3, <2>4, <2>6
  <2>10. QED
    BY <2>1, <2>7, <2>8, <2>9 DEF Counts, i
<1>4. QED
  BY <1>1, <1>2, <1>3

\* The runs a check begins with count nothing.
LEMMA NewCounts ==
    ASSUME NEW len \in Nat
    PROVE  Counts(new(len))
  BY NewIsEmpty, FS_EmptySet DEF new, Counts

\* The lengths of what within yields, which pass 5 takes from a group's size for its free blocks, add
\* up to the number of blocks held there.
THEOREM WithinAddsUp ==
    ASSUME NEW b, IsBlockRuns(b), NEW start \in Nat, NEW end \in Nat
    PROVE  Total(within(b, start, end)) = Cardinality(Blocks(b) \cap Span(<<start, end>>))
<1> DEFINE part == [s \in DOMAIN b.runs |-> <<Larger(s, start), Smaller(b.runs[s], end)>>]
           met == {s \in DOMAIN b.runs : part[s] \in within(b, start, end)}
           parts == within(b, start, end)
<1>0. Separate(b)
  BY DEF IsBlockRuns
<1>1. parts = {part[s] : s \in met} /\ \A r \in parts : r[1] < r[2]
  BY DEF within
<1>2. \A s \in DOMAIN b.runs : /\ s \in Nat /\ b.runs[s] \in Nat /\ part[s] \in Nat \X Nat
                               /\ s <= part[s][1] /\ part[s][2] <= b.runs[s]
  BY <1>0, RunTypes DEF Larger, Smaller
<1>3. \A s, t \in DOMAIN b.runs : s # t => b.runs[s] < t \/ b.runs[t] < s
  BY <1>0, <1>2, RunTypes
<1>4. part = [s \in DOMAIN b.runs |-> part[s]] /\ met \subseteq DOMAIN b.runs
  OBVIOUS
<1>5. UNION {Span(r) : r \in parts} = Blocks(b) \cap Span(<<start, end>>)
  BY WithinIsCut
<1> HIDE DEF part, met, parts
<1>6. IsFiniteSet(parts)
  <2> DEFINE only == [s \in met |-> part[s]]
  <2>1. IsFiniteSet(met)
    BY <1>0, <1>4, BlocksAreFinite, FS_Subset
  <2>2. only \in Surjection(met, parts)
    BY <1>1 DEF Surjection
  <2> HIDE DEF only
  <2>3. QED
    BY <2>1, <2>2, FS_Surjection, Zenon
<1>7. parts \subseteq Nat \X Nat
  BY <1>1, <1>2, <1>4
<1>8. ASSUME NEW q \in parts, NEW r \in parts, q # r
      PROVE  Span(q) \cap Span(r) = {}
  <2>1. PICK s \in met, t \in met : q = part[s] /\ r = part[t]
    BY <1>1
  <2>2. s # t /\ s \in DOMAIN b.runs /\ t \in DOMAIN b.runs
    BY <1>4, <1>8, <2>1
  <2>3. b.runs[s] < t \/ b.runs[t] < s
    BY <1>3, <2>2
  <2>4. q[2] < r[1] \/ r[2] < q[1]
    BY <1>2, <2>1, <2>2, <2>3
  <2>5. QED
    BY <1>7, <2>4 DEF Span
<1>9. Total(parts) = Cardinality(UNION {Span(r) : r \in parts})
  BY <1>1, <1>6, <1>7, <1>8, SumOfSpans
<1>10. QED
  BY <1>5, <1>9 DEF parts
===============================================================================
