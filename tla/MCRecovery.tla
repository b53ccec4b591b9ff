----------------------------- MODULE MCRecovery -----------------------------
(***************************************************************************)
(* Journals for Recovery, as the kernel writes them: up to three           *)
(* transactions that follow on from s_sequence, laid out from s_start and  *)
(* wrapping round, then what the log held before.  Sequence numbers wrap   *)
(* between the transactions.                                               *)
(***************************************************************************)
EXTENDS Recovery

Seqs == INSTANCE SequencesExt

Superblock(body, recover) ==
    [body |-> body, journal |-> TRUE, recover |-> recover, valid |-> TRUE, error |-> FALSE]

\* Any other block has a body alone.
Contents(body) ==
    [body |-> body, journal |-> FALSE, recover |-> FALSE, valid |-> FALSE, error |-> FALSE]

MagicBlock == Contents("magic")

Tag(home, val) == [home |-> home, val |-> val, escape |-> val = MagicBlock]

\* What one transaction logs and revokes.
Shapes == {
    [tags |-> <<Tag("a", Contents("new"))>>, revokes |-> {}],
    [tags |-> <<Tag("a", Contents("newer")), Tag("b", Contents("new"))>>, revokes |-> {}],
    [tags |-> <<Tag("b", MagicBlock)>>, revokes |-> {"a"}],
    [tags |-> << >>, revokes |-> {"b", Outside}],
    [tags |-> <<Tag(Super, Superblock("new", TRUE)), Tag("a", Contents("new"))>>, revokes |-> {"a"}]}

Block(kind, seq, ts, recs, time, val) ==
    [kind |-> kind, seq |-> seq, tags |-> ts, recs |-> recs, time |-> time, val |-> val, ok |-> TRUE]

NoTags == << >>

\* The blocks of transaction x, the i-th of the log, without its commit block.
Body(x, seq) ==
    LET descriptor == Block("descriptor", seq,
                            [i \in 1 .. Len(x.tags) |-> [home |-> x.tags[i].home, escape |-> x.tags[i].escape]],
                            {}, 0, Contents("none"))
        data == [i \in 1 .. Len(x.tags) |->
                    Block("data", 0, NoTags, {}, 0, IF x.tags[i].escape THEN Contents("blank") ELSE x.tags[i].val)]
    IN  (IF x.tags = << >> THEN << >> ELSE <<descriptor>> \o data)
        \o (IF x.revokes = {} THEN << >> ELSE <<Block("revoke", seq, NoTags, x.revokes, 0, Contents("none"))>>)

Commit(seq, time) == Block("commit", seq, NoTags, {}, time, Contents("none"))

FirstSeq == TidMod - 2
SeqOf(i) == (FirstSeq + i - 1) % TidMod

Transactions(txns) ==
    Seqs!FlattenSeq([i \in 1 .. Len(txns) |-> Append(Body(txns[i], SeqOf(i)), Commit(SeqOf(i), i))])

\* What may follow the last commit: a transaction without its commit block, or
\* a block the scan does not know.
Tails(n) == {
    Body([tags |-> <<Tag("a", Contents("torn"))>>, revokes |-> {"b"}], SeqOf(n + 1)),
    <<Block("other", SeqOf(n + 1), NoTags, {}, 0, Contents("none"))>>}

\* The rest of the log is an earlier lap's.
Stale == Commit(FirstSeq - 1, 0)

LogSize == Last - First

LogOf(blocks, start) ==
    [p \in First .. Last - 1 |->
        LET i == ((p - start) % LogSize) + 1 IN IF i <= Len(blocks) THEN blocks[i] ELSE Stale]

Disk0(recover) == [h \in Homes |-> IF h = Super THEN Superblock("old", recover) ELSE Contents("old")]

\* The last committed write of a home that no transaction at or after it revokes.
Survives(txns, t, h) ==
    /\ \E i \in DOMAIN txns[t].tags : txns[t].tags[i].home = h
    /\ \A u \in t .. Len(txns) : h \notin txns[u].revokes

Logged(txns) == {h \in Homes : \E t \in DOMAIN txns : Survives(txns, t, h)}

Goal(txns) ==
    [h \in Homes |->
        IF h \notin Logged(txns) THEN Disk0(TRUE)[h]
        ELSE LET t == CHOOSE t \in DOMAIN txns :
                        Survives(txns, t, h) /\ \A u \in t + 1 .. Len(txns) : ~Survives(txns, u, h)
                 x == txns[t].tags
                 i == CHOOSE i \in DOMAIN x :
                        x[i].home = h /\ \A k \in i + 1 .. Len(x) : x[k].home # h
             IN  x[i].val]

Image(txns, blocks, start, recover, err) ==
    [log |-> LogOf(blocks, start),
     jsb |-> [ok |-> TRUE, sequence |-> FirstSeq, start |-> start, errno |-> err],
     disk |-> Disk0(recover), goal |-> Goal(txns), logged |-> Logged(txns)]

TxnSeqs(n) == UNION {[1 .. k -> Shapes] : k \in 0 .. n}

\* Intact logs: any two transactions, or three different ones.
Different == {x \in [1 .. 3 -> Shapes] : \A i, j \in 1 .. 3 : x[i] = x[j] => i = j}

Whole ==
    {Image(x, Transactions(x), Last - 4, TRUE, 0) : x \in TxnSeqs(2) \cup Different}
    \cup UNION {{Image(x, Transactions(x) \o tail, Last - 4, TRUE, 0) : tail \in Tails(Len(x))} :
                   x \in TxnSeqs(2)}

\* Logs in which one block of the committed transactions fails its checksum.
DamagedAt(x, p) ==
    [Image(x, Transactions(x), First, TRUE, 0) EXCEPT !.log[p].ok = FALSE]

Damaged ==
    UNION {{DamagedAt(x, First + i) : i \in 0 .. Len(Transactions(x)) - 1} : x \in TxnSeqs(2)}

\* Journals the kernel aborted, emptied or not, with the flag or without; a
\* journal that cannot be replayed; a filesystem without one.
Empty(recover, err) ==
    [Image(<< >>, << >>, First, recover, err) EXCEPT !.jsb.start = 0]

OneShape == CHOOSE x \in Shapes : Len(x.tags) = 2 /\ x.revokes = {}

Aborted ==
    {Empty(r, 5) : r \in BOOLEAN}
    \cup {Image(<<x>>, Transactions(<<x>>), First, r, 5) : <<x, r>> \in Shapes \X BOOLEAN}

Odd ==
    {[Image(<<OneShape>>, Transactions(<<OneShape>>), First, r, 0) EXCEPT !.jsb.ok = FALSE] : r \in BOOLEAN}
    \cup {[Empty(r, 0) EXCEPT !.disk[Super].journal = FALSE] : r \in BOOLEAN}
    \cup {Image(<<OneShape>>, Transactions(<<OneShape>>), First, FALSE, 0), Empty(TRUE, 0)}
    \cup {[Image(<<x>>, Transactions(<<x>>), First, TRUE, 0) EXCEPT
              !.log[First + Len(Transactions(<<x>>)) - 2].recs = BadCount] :
              x \in {y \in Shapes : y.revokes # {}}}

MisTag == [tags |-> <<Tag(Outside, Contents("new")), Tag("b", Contents("new"))>>, revokes |-> {}]
Misplaced == {Image(<<MisTag>>, Transactions(<<MisTag>>), First, TRUE, 0)}

MCImages == Whole \cup Damaged \cup Aborted \cup Odd \cup Misplaced
===============================================================================
