------------------------------ MODULE BlockRuns ------------------------------
(***************************************************************************)
(* BlockRuns (fsck.rs): the blocks something owns, held as a map from the  *)
(* start of each run to its end (exclusive).  insert merges a claim with   *)
(* the runs it overlaps or touches; within cuts out a group's part.  The   *)
(* map is a function on the starts; a range start .. end of Rust is the    *)
(* pair <<start, end>>.                                                    *)
(***************************************************************************)
EXTENDS Integers, FiniteSetsExt

Span(range) == range[1] .. range[2] - 1

Smaller(a, b) == IF a < b THEN a ELSE b
Larger(a, b) == IF a < b THEN b ELSE a

new(len) == [runs |-> [s \in {} |-> 0], len |-> len, count |-> 0]

\* runs.range(..start).next_back(): the last run that starts before `start`, if any.
last_before(runs, start) ==
    {s \in DOMAIN runs : s < start /\ \A t \in DOMAIN runs : t < start => t <= s}

\* The runs merged with start .. end: one that reaches or touches it from before, and
\* those that start in it or right behind it.
joined(runs, start, end) ==
    {s \in last_before(runs, start) : runs[s] >= start} \cup {s \in DOMAIN runs : start <= s /\ s <= end}

\* The parts of start .. end already held.
overlaps(runs, start, end) ==
    {<<Larger(start, s), Smaller(runs[s], end)>> :
        s \in {t \in joined(runs, start, end) : start < runs[t] /\ t < end}}

\* Mutant: the merged run ends where the claim ends.
hi_Claim(runs, start, end) == end

hi(runs, start, end) == Max({end} \cup {runs[s] : s \in joined(runs, start, end)})

lo(runs, start, end) == Min({start} \cup joined(runs, start, end))

Merge(runs, start, end) ==
    [s \in (DOMAIN runs \ joined(runs, start, end)) \cup {lo(runs, start, end)} |->
        IF s = lo(runs, start, end) THEN hi(runs, start, end) ELSE runs[s]]

Length(range) == range[2] - range[1]
Total(ranges) == MapThenSumSet(Length, ranges)

\* Blocks at or past `len` are ignored.
insert(b, start, end) ==
    LET stop == Smaller(end, b.len)
    IN  IF start >= stop THEN b
        ELSE [b EXCEPT !.runs = Merge(@, start, stop),
                       !.count = @ + (stop - start) - Total(overlaps(b.runs, start, stop))]

\* What insert returns: the parts someone already had.
Held(b, start, end) ==
    LET stop == Smaller(end, b.len) IN IF start >= stop THEN {} ELSE overlaps(b.runs, start, stop)

\* The held parts of start .. end.
within(b, start, end) ==
    LET from == Min({start} \cup {s \in last_before(b.runs, start) : b.runs[s] > start})
        cut == {<<Larger(s, start), Smaller(b.runs[s], end)>> :
                    s \in {t \in DOMAIN b.runs : from <= t /\ t < end}}
    IN  {range \in cut : range[1] < range[2]}

-------------------------------------------------------------------------------
(* What the runs stand for *)

Blocks(b) == UNION {s .. b.runs[s] - 1 : s \in DOMAIN b.runs}

\* A run is not empty, ends inside the filesystem and neither meets nor touches another.
Separate(b) ==
    /\ b.len \in Nat
    /\ DOMAIN b.runs \subseteq Nat
    /\ \A s \in DOMAIN b.runs : b.runs[s] \in Nat /\ s < b.runs[s] /\ b.runs[s] <= b.len
    /\ \A s, t \in DOMAIN b.runs : s < t => b.runs[s] < t
===============================================================================
