---------------------------- MODULE FormatProofs ----------------------------
(***************************************************************************)
(* Proofs about the formatter: see the README.                             *)
(***************************************************************************)
EXTENDS Format, Induction

\* The least of a set of numbers is one of them.
LEMMA MinIs ==
    ASSUME NEW S, S \subseteq Nat, S # {}
    PROVE  Min(S) \in S /\ \A y \in S : Min(S) <= y
<1>1. \E x \in S : \A y \in S : x <= y
  BY LeastNumber, Zenon
<1>2. (CHOOSE x \in S : \A y \in S : x <= y) \in S /\ \A y \in S : (CHOOSE x \in S : \A z \in S : x <= z) <= y
  BY <1>1
<1>3. QED
  BY <1>2 DEF Min

\* And so is the greatest of a bounded one.
LEMMA MaxIs ==
    ASSUME NEW S, NEW n \in Nat, S \subseteq 0 .. n, S # {}
    PROVE  Max(S) \in S /\ \A y \in S : Max(S) >= y
<1>1. \E x \in S : \A y \in S : x >= y
  BY GreatestNumber, Zenon
<1>2. (CHOOSE x \in S : \A y \in S : x >= y) \in S /\ \A y \in S : (CHOOSE x \in S : \A z \in S : x >= z) >= y
  BY <1>1
<1>3. QED
  BY <1>2 DEF Max

\* Of two numbers.
LEMMA MinOfTwo ==
    ASSUME NEW a \in Int, NEW b \in Int
    PROVE  Min({a, b}) = IF a <= b THEN a ELSE b
<1>1. \E x \in {a, b} : \A y \in {a, b} : x <= y
  OBVIOUS
<1>2. Min({a, b}) \in {a, b} /\ \A y \in {a, b} : Min({a, b}) <= y
  BY <1>1 DEF Min
<1>3. QED
  BY <1>2

\* The larger of two numbers.
LEMMA MaxOfTwo ==
    ASSUME NEW a \in Int, NEW b \in Int
    PROVE  Max({a, b}) = IF a >= b THEN a ELSE b
<1>1. \E x \in {a, b} : \A y \in {a, b} : x >= y
  OBVIOUS
<1>2. Max({a, b}) \in {a, b} /\ \A y \in {a, b} : Max({a, b}) >= y
  BY <1>1 DEF Max
<1>3. QED
  BY <1>2

\* A sequence of blocks that rises, all of them in S and above 0.
Rises(s, S) ==
    /\ s \in Seq(Nat)
    /\ \A i \in 1 .. Len(s) : s[i] \in S /\ s[i] > 0
    /\ \A i, j \in 1 .. Len(s) : i < j => s[i] < s[j]

\* Ascending lists numbers of the set, each one once, in order.
LEMMA AscendingRises ==
    ASSUME NEW n \in Nat, NEW S, S \subseteq 0 .. n
    PROVE  Rises(Ascending[S], S)
<1> DEFINE last == Max(S \cup {0})
           V == Seq(Nat)
           Is(u) == u = [k \in 0 .. last |->
                           IF k = 0 THEN << >> ELSE IF k \in S THEN Append(u[k - 1], k) ELSE u[k - 1]]
           upto == CHOOSE u : Is(u)
           F == [x \in (1 .. last) \X V |-> IF x[1] \in S THEN Append(x[2], x[1]) ELSE x[2]]
<1>1. last \in Nat /\ last \in S \cup {0} /\ S \in SUBSET Nat
  <2>1. S \cup {0} \subseteq 0 .. n /\ S \cup {0} # {}
    OBVIOUS
  <2>2. Max(S \cup {0}) \in S \cup {0}
    BY <2>1, MaxIs, Zenon
  <2>3. S \in SUBSET Nat /\ S \cup {0} \subseteq Nat
    OBVIOUS
  <2>4. QED
    BY <2>2, <2>3, Zenon
<1>2. Ascending[S] = upto[last]
  BY <1>1, Zenon DEF Ascending
<1> HIDE DEF last
<1>3. IsStep(F, 1 .. last, V)
  <2> SUFFICES ASSUME NEW x \in (1 .. last) \X V
               PROVE  (IF x[1] \in S THEN Append(x[2], x[1]) ELSE x[2]) \in V
    BY DEF IsStep
  <2>1. x[1] \in Nat /\ x[2] \in Seq(Nat)
    BY <1>1
  <2>2. QED
    BY <2>1
<1>4. << >> \in V
  OBVIOUS
<1> HIDE DEF V
<1>5. PICK g : IsLoop(g, last, V, << >>, F)
  BY <1>1, <1>3, <1>4, NumberRecursion
<1>6. g \in [0 .. last -> V] /\ g[0] = << >>
  BY <1>5 DEF IsLoop
<1>7. \A k \in 1 .. last : g[k] = IF k \in S THEN Append(g[k - 1], k) ELSE g[k - 1]
  <2> SUFFICES ASSUME NEW k \in 1 .. last
               PROVE  g[k] = IF k \in S THEN Append(g[k - 1], k) ELSE g[k - 1]
    OBVIOUS
  <2>1. k - 1 \in 0 .. last
    BY <1>1
  <2>2. <<k, g[k - 1]>> \in (1 .. last) \X V
    BY <1>6, <2>1
  <2>3. F[<<k, g[k - 1]>>] = IF k \in S THEN Append(g[k - 1], k) ELSE g[k - 1]
    BY <2>2
  <2>4. QED
    BY <1>5, <2>3 DEF IsLoop
<1>8. Is(g)
  <2>1. \A k \in 0 .. last : g[k] = IF k = 0 THEN << >> ELSE IF k \in S THEN Append(g[k - 1], k) ELSE g[k - 1]
    <3> SUFFICES ASSUME NEW k \in 0 .. last, k # 0
                 PROVE  g[k] = IF k \in S THEN Append(g[k - 1], k) ELSE g[k - 1]
      BY <1>6
    <3>1. k \in 1 .. last
      BY <1>1
    <3>2. QED
      BY <1>7, <3>1
  <2>2. QED
    BY <1>6, <2>1
<1>9. Is(upto)
  BY <1>8, Zenon
<1> HIDE DEF upto
<1> DEFINE Part(k) == /\ upto[k] \in Seq(Nat)
                      /\ \A i \in 1 .. Len(upto[k]) : upto[k][i] \in S /\ upto[k][i] > 0 /\ upto[k][i] <= k
                      /\ \A i, j \in 1 .. Len(upto[k]) : i < j => upto[k][i] < upto[k][j]
           T == {k \in Nat : k <= last => Part(k)}
<1>10. 0 \in T
  <2>1. upto[0] = << >>
    BY <1>1, <1>9
  <2>2. << >> \in Seq(Nat) /\ 1 .. Len(<< >>) = {}
    OBVIOUS
  <2>3. Part(0)
    BY <2>1, <2>2, Zenon
  <2> HIDE DEF Part
  <2>4. QED
    BY <2>3
<1>11. ASSUME NEW k \in Nat, k \in T PROVE k + 1 \in T
  <2> SUFFICES ASSUME k + 1 <= last PROVE Part(k + 1)
    OBVIOUS
  <2>1. Part(k)
    BY <1>1, <1>11
  <2>2. upto[k + 1] = IF k + 1 \in S THEN Append(upto[k], k + 1) ELSE upto[k]
    <3>1. k + 1 \in 0 .. last /\ k + 1 # 0 /\ (k + 1) - 1 = k
      BY <1>1
    <3>2. upto[k + 1] = IF k + 1 = 0 THEN << >> ELSE IF k + 1 \in S THEN Append(upto[(k + 1) - 1], k + 1) ELSE upto[(k + 1) - 1]
      BY <1>9, <3>1
    <3>3. QED
      BY <3>1, <3>2
  <2>3. PICK s : s = upto[k]
    OBVIOUS
  <2>4. PICK t : t = upto[k + 1]
    OBVIOUS
  <2>5. s \in Seq(Nat) /\ \A i \in 1 .. Len(s) : s[i] \in S /\ s[i] > 0 /\ s[i] <= k /\ s[i] \in Nat
    BY <2>1, <2>3
  <2>6. \A i, j \in 1 .. Len(s) : i < j => s[i] < s[j]
    BY <2>1, <2>3
  <2>7. CASE k + 1 \in S
    <3>1. t = Append(s, k + 1)
      BY <2>2, <2>3, <2>4, <2>7
    <3>2. t \in Seq(Nat) /\ Len(t) = Len(s) + 1 /\ Len(s) \in Nat /\ t[Len(s) + 1] = k + 1
      BY <2>5, <3>1
    <3>3. \A i \in 1 .. Len(s) : t[i] = s[i]
      BY <2>5, <3>1
    <3>4. \A i \in 1 .. Len(t) : i \in 1 .. Len(s) \/ i = Len(s) + 1
      BY <3>2
    <3>5. \A i \in 1 .. Len(t) : t[i] \in S /\ t[i] > 0 /\ t[i] <= k + 1
      BY <2>5, <2>7, <3>2, <3>3, <3>4
    <3>6. \A i, j \in 1 .. Len(t) : i < j => t[i] < t[j]
      <4> SUFFICES ASSUME NEW i \in 1 .. Len(t), NEW j \in 1 .. Len(t), i < j PROVE t[i] < t[j]
        OBVIOUS
      <4>1. i \in 1 .. Len(s)
        BY <3>2
      <4>2. CASE j \in 1 .. Len(s)
        BY <2>6, <3>3, <4>1, <4>2
      <4>3. CASE j = Len(s) + 1
        <5>1. t[i] \in Nat /\ t[i] <= k /\ t[j] = k + 1
          BY <2>5, <3>2, <3>3, <4>1, <4>3
        <5>2. QED
          BY <5>1
      <4>4. QED
        BY <3>4, <4>2, <4>3
    <3>7. QED
      BY <2>4, <3>2, <3>5, <3>6
  <2>8. CASE k + 1 \notin S
    <3>1. t = s
      BY <2>2, <2>3, <2>4, <2>8
    <3>2. \A i \in 1 .. Len(t) : t[i] \in S /\ t[i] > 0 /\ t[i] <= k + 1
      BY <2>5, <3>1
    <3>3. QED
      BY <2>4, <2>5, <2>6, <3>1, <3>2
  <2>9. QED
    BY <2>7, <2>8
<1>12. last \in T
  <2> HIDE DEF T
  <2>1. Nat \subseteq T
    BY <1>10, <1>11, NumberInduction, Zenon
  <2>2. QED
    BY <1>1, <2>1
<1>13. QED
  BY <1>1, <1>2, <1>12 DEF Rises

-----------------------------------------------------------------------------
(* The allocator *)

\* The blocks an allocation may take.
Left(g, S) == (g.first_data_block .. g.blocks_count - 1) \ S

\* A device with blocks, none of which is block 0 to the allocator.
Usable(g, S) == g.first_data_block \in Nat /\ g.blocks_count \in Nat /\ 0 \notin Left(g, S)

\* A run alloc finds is free, whole and in the device.
LEMMA AllocIsFree ==
    ASSUME NEW g, NEW S, Usable(g, S), NEW goal, NEW len \in Nat \ {0}, alloc(g, S, goal, len) # 0
    PROVE  LET b == alloc(g, S, goal, len) IN b \in Nat /\ (b .. b + len - 1) \subseteq Left(g, S)
<1> DEFINE fits == {b \in g.first_data_block .. g.blocks_count - len : \A k \in b .. b + len - 1 : k \notin S}
           ahead == {b \in fits : b >= goal}
           a == alloc(g, S, goal, len)
<1>1. a = IF ahead # {} THEN Min(ahead) ELSE IF fits # {} THEN Min(fits) ELSE 0
  BY DEF alloc
<1>2. fits \subseteq Nat /\ ahead \subseteq fits
  BY DEF Usable
<1>3. a \in fits
  <2> HIDE DEF fits, ahead
  <2>1. ahead # {} => Min(ahead) \in ahead
    BY <1>2, MinIs
  <2>2. fits # {} => Min(fits) \in fits
    BY <1>2, MinIs
  <2>3. a # 0
    OBVIOUS
  <2> HIDE DEF a
  <2>4. QED
    BY <1>1, <1>2, <2>1, <2>2, <2>3, Zenon
<1> HIDE DEF a
<1>4. a \in Nat /\ a >= g.first_data_block /\ a <= g.blocks_count - len /\ \A k \in a .. a + len - 1 : k \notin S
  BY <1>2, <1>3
<1>5. (a .. a + len - 1) \subseteq Left(g, S)
  BY <1>4 DEF Left, Usable
<1>6. QED
  BY <1>4, <1>5 DEF a

\* Blocks granted one by one: as many as asked for, free, and none of them twice.
Granted(got, count, S) ==
    /\ got \in Seq(Nat) /\ Len(got) = count
    /\ \A i \in 1 .. count : got[i] # 0 => got[i] \in S
    /\ \A i, j \in 1 .. count : got[i] = got[j] /\ got[i] # 0 => i = j

\* What alloc_runs collects, from the goal on and then from the start, is free and has no block twice.
LEMMA RunsAreFree ==
    ASSUME NEW g, NEW S, Usable(g, S), NEW goal, NEW count \in Nat
    PROVE  Granted(alloc_runs(g, S, goal, count), count, Left(g, S))
<1> DEFINE left == (g.first_data_block .. g.blocks_count - 1) \ S
           ahead == {b \in left : b >= goal}
           none == [k \in 1 .. count |-> 0]
           s == Ascending[ahead]
           t == Ascending[left \ ahead]
           got == SubSeq(s \o t \o none, 1, count)
<1>1. alloc_runs(g, S, goal, count) = got
  BY DEF alloc_runs
<1>2. left = Left(g, S) /\ 0 \notin left
  BY DEF Left, Usable
<1>3. Rises(s, ahead) /\ Rises(t, left \ ahead)
  <2>1. left \subseteq 0 .. g.blocks_count /\ g.blocks_count \in Nat
    BY DEF Usable
  <2>2. ahead \subseteq 0 .. g.blocks_count /\ left \ ahead \subseteq 0 .. g.blocks_count
    BY <2>1
  <2> HIDE DEF left, ahead
  <2>3. QED
    BY <2>1, <2>2, AscendingRises
<1>4. none \in Seq(Nat) /\ Len(none) = count /\ \A k \in 1 .. count : none[k] = 0
  OBVIOUS
<1>5. ahead \subseteq left
  OBVIOUS
<1> HIDE DEF s, t, none
<1>6. PICK ls \in Nat, lt \in Nat : ls = Len(s) /\ lt = Len(t)
  BY <1>3 DEF Rises
<1>7. s \in Seq(Nat) /\ t \in Seq(Nat)
  BY <1>3 DEF Rises
<1>8. PICK u : u = s \o t \o none
  OBVIOUS
<1>9. u \in Seq(Nat) /\ Len(u) = ls + lt + count
  <2>1. s \o t \in Seq(Nat) /\ Len(s \o t) = ls + lt
    BY <1>6, <1>7
  <2>2. PICK v : v = s \o t
    OBVIOUS
  <2>3. v \in Seq(Nat) /\ Len(v) = ls + lt
    BY <2>1, <2>2
  <2>4. v \o none \in Seq(Nat) /\ Len(v \o none) = Len(v) + Len(none)
    BY <1>4, <2>3
  <2>5. Len(v \o none) = ls + lt + count
    BY <1>4, <2>3, <2>4
  <2>6. QED
    BY <1>8, <2>2, <2>4, <2>5
<1>10. \A i \in 1 .. Len(u) : u[i] = IF i <= ls THEN s[i] ELSE IF i <= ls + lt THEN t[i - ls] ELSE none[i - ls - lt]
  BY <1>4, <1>6, <1>7, <1>8
<1>11. got = SubSeq(u, 1, count)
  BY <1>8
<1> HIDE DEF got
<1>12. got \in Seq(Nat) /\ Len(got) = count /\ \A i \in 1 .. count : got[i] = u[i] /\ i \in 1 .. Len(u)
  BY <1>9, <1>11
<1>13. \A i \in 1 .. ls : s[i] \in ahead /\ s[i] \in Nat
  BY <1>3, <1>6 DEF Rises
<1>14. \A i \in 1 .. lt : t[i] \in left \ ahead /\ t[i] \in Nat
  BY <1>3, <1>6 DEF Rises
<1>15. (\A i, j \in 1 .. ls : i < j => s[i] < s[j]) /\ \A i, j \in 1 .. lt : i < j => t[i] < t[j]
  BY <1>3, <1>6 DEF Rises
<1>16. \A i, j \in 1 .. ls : s[i] = s[j] => i = j
  BY <1>13, <1>15
<1>17. \A i, j \in 1 .. lt : t[i] = t[j] => i = j
  BY <1>14, <1>15
<1> HIDE DEF left, ahead
<1>18. \A i \in 1 .. count : \/ i \in 1 .. ls /\ got[i] = s[i]
                             \/ i - ls \in 1 .. lt /\ got[i] = t[i - ls]
                             \/ got[i] = 0
  <2> SUFFICES ASSUME NEW i \in 1 .. count
               PROVE  \/ i \in 1 .. ls /\ got[i] = s[i]
                      \/ i - ls \in 1 .. lt /\ got[i] = t[i - ls]
                      \/ got[i] = 0
    OBVIOUS
  <2>1. got[i] = IF i <= ls THEN s[i] ELSE IF i <= ls + lt THEN t[i - ls] ELSE none[i - ls - lt]
    BY <1>10, <1>12
  <2>2. CASE i <= ls
    BY <2>1, <2>2
  <2>3. CASE ~(i <= ls) /\ i <= ls + lt
    BY <2>1, <2>3
  <2>4. CASE ~(i <= ls) /\ ~(i <= ls + lt)
    <3>1. i - ls - lt \in 1 .. count
      BY <2>4
    <3>2. QED
      BY <1>4, <2>1, <2>4, <3>1
  <2>5. QED
    BY <2>2, <2>3, <2>4
<1>19. \A i \in 1 .. count : got[i] # 0 => got[i] \in left
  BY <1>5, <1>13, <1>14, <1>18
<1>20. ASSUME NEW i \in 1 .. count, NEW j \in 1 .. count, got[i] = got[j], got[i] # 0
       PROVE  i = j
  <2>1. CASE i \in 1 .. ls /\ got[i] = s[i]
    <3>1. j \in 1 .. ls /\ got[j] = s[j]
      BY <1>13, <1>14, <1>18, <1>20, <2>1
    <3>2. QED
      BY <1>16, <1>20, <2>1, <3>1
  <2>2. CASE i - ls \in 1 .. lt /\ got[i] = t[i - ls]
    <3>1. j - ls \in 1 .. lt /\ got[j] = t[j - ls]
      BY <1>13, <1>14, <1>18, <1>20, <2>2
    <3>2. i - ls = j - ls
      BY <1>17, <1>20, <2>2, <3>1
    <3>3. QED
      BY <3>2
  <2>3. QED
    BY <1>18, <1>20, <2>1, <2>2
<1>21. QED
  BY <1>1, <1>2, <1>12, <1>19, <1>20 DEF Granted

\* When no block is missing the grant is that many free blocks.
LEMMA GrantedBlocks ==
    ASSUME NEW got, NEW count \in Nat, NEW S, Granted(got, count, S), 0 \notin Range(got)
    PROVE  /\ Range(got) \subseteq S /\ IsFiniteSet(Range(got)) /\ Cardinality(Range(got)) = count
           /\ \A i \in 1 .. count : got[i] \in Range(got)
<1>1. got \in Seq(Nat) /\ DOMAIN got = 1 .. count
  BY DEF Granted
<1>2. Range(got) = {got[i] : i \in 1 .. count}
  BY <1>1 DEF Range
<1>3. \A i \in 1 .. count : got[i] \in Range(got) /\ got[i] # 0
  BY <1>2
<1>4. got \in Surjection(1 .. count, Range(got))
  BY <1>1, <1>2 DEF Surjection
<1>5. got \in Injection(1 .. count, Range(got))
  BY <1>1, <1>3, <1>4 DEF Granted, Injection, Surjection, IsInjective
<1>6. IsFiniteSet(1 .. count) /\ Cardinality(1 .. count) = count
  BY FS_Interval
<1>7. IsFiniteSet(Range(got)) /\ Cardinality(Range(got)) = count
  BY <1>4, <1>5, <1>6, FS_Surjection
<1>8. Range(got) \subseteq S
  BY <1>2, <1>3 DEF Granted
<1>9. QED
  BY <1>3, <1>7, <1>8

-----------------------------------------------------------------------------
(* Groups *)

\* Multiplying keeps the order.
LEMMA TimesRises ==
    ASSUME NEW i \in Int, NEW j \in Int, NEW b \in Nat, i <= j
    PROVE  i * b <= j * b /\ i * b \in Int /\ j * b \in Int
<1>1. (j - i) * b >= 0 /\ j * b - i * b = (j - i) * b
  OBVIOUS
<1>2. QED
  BY <1>1

\* A product, one factor more or less.
LEMMA TimesNext ==
    ASSUME NEW i \in Int, NEW b \in Int
    PROVE  (i + 1) * b = i * b + b /\ (i - 1) * b = i * b - b
  OBVIOUS

\* What a quotient is.
LEMMA DivIs ==
    ASSUME NEW a \in Nat, NEW b \in Nat \ {0}
    PROVE  a \div b \in Nat /\ (a \div b) * b <= a /\ a < (a \div b) * b + b
  OBVIOUS

\* And how it is found.
LEMMA DivOf ==
    ASSUME NEW a \in Nat, NEW b \in Nat \ {0}, NEW q \in Int, q * b <= a, a < q * b + b
    PROVE  a \div b = q
<1>1. PICK d : d = a \div b
  OBVIOUS
<1>2. d \in Int /\ d * b <= a /\ a < d * b + b
  BY <1>1, DivIs
<1>3. ~(d < q)
  <2> SUFFICES ASSUME d + 1 <= q PROVE FALSE
    BY <1>2
  <2>1. (d + 1) * b <= q * b
    BY <1>2, TimesRises
  <2>2. QED
    BY <1>2, <2>1, TimesNext
<1>4. ~(q < d)
  <2> SUFFICES ASSUME q + 1 <= d PROVE FALSE
    BY <1>2
  <2>1. (q + 1) * b <= d * b
    BY <1>2, TimesRises
  <2>2. QED
    BY <1>2, <2>1, TimesNext
<1>5. QED
  BY <1>1, <1>2, <1>3, <1>4

\* Rounding up: the last of the pieces begins before the end.
LEMMA CeilIs ==
    ASSUME NEW a \in Nat \ {0}, NEW b \in Nat \ {0}
    PROVE  /\ div_ceil(a, b) \in Nat \ {0}
           /\ (div_ceil(a, b) - 1) * b < a /\ a <= div_ceil(a, b) * b
<1>1. PICK d : d = div_ceil(a, b)
  OBVIOUS
<1>2. a + b - 1 \in Nat /\ d = (a + b - 1) \div b
  BY <1>1 DEF div_ceil
<1>3. d \in Nat /\ d * b <= a + b - 1 /\ a + b - 1 < d * b + b
  BY <1>2, DivIs
<1>4. d # 0
  <2> SUFFICES ASSUME d = 0 PROVE FALSE
    OBVIOUS
  <2>1. d * b = 0
    OBVIOUS
  <2>2. QED
    BY <1>3, <2>1
<1>5. (d - 1) * b = d * b - b /\ d * b \in Int
  BY <1>3, TimesNext
<1>6. QED
  BY <1>1, <1>3, <1>4, <1>5

\* The numbers of a geometry that compute settles on.
IsGeometry(g) ==
    /\ g.first_data_block \in {0, 1} /\ g.blocks_count \in Nat
    /\ g.blocks_per_group \in Nat \ {0} /\ g.group_count \in Nat \ {0}
    /\ (g.group_count - 1) * g.blocks_per_group < g.blocks_count - g.first_data_block
    /\ g.blocks_count - g.first_data_block <= g.group_count * g.blocks_per_group
    /\ g.itable \in Nat \ {0} /\ g.flex \in Nat \ {0}
    /\ g.desc_per_block \in Nat \ {0} /\ g.desc_blocks \in Nat \ {0} /\ g.reserved_gdt \in Nat
    /\ g.first_meta_bg \in Nat

\* A group's blocks: not empty, in the device, and nobody else's.
LEMMA GroupIs ==
    ASSUME NEW g, IsGeometry(g), NEW i \in GroupsOf(g)
    PROVE  /\ i \in Nat /\ group_first_block(g, i) \in Nat /\ group_last_block(g, i) \in Nat
           /\ g.first_data_block <= group_first_block(g, i)
           /\ group_first_block(g, i) <= group_last_block(g, i) /\ group_last_block(g, i) < g.blocks_count
           /\ group_last_block(g, i) < group_first_block(g, i) + g.blocks_per_group
           /\ i < g.group_count - 1 => group_last_block(g, i) = group_first_block(g, i) + g.blocks_per_group - 1
           /\ i = g.group_count - 1 => group_last_block(g, i) = g.blocks_count - 1
<1>1. PICK f, c, w, n : f = g.first_data_block /\ c = g.blocks_count /\ w = g.blocks_per_group /\ n = g.group_count
  OBVIOUS
<1>2. f \in Nat /\ c \in Nat /\ w \in Nat \ {0} /\ n \in Nat \ {0} /\ (n - 1) * w < c - f /\ c - f <= n * w
  BY <1>1 DEF IsGeometry
<1>3. i \in Nat /\ i <= n - 1
  BY <1>1, <1>2 DEF GroupsOf
<1>4. i * w <= (n - 1) * w /\ i * w \in Nat
  <2>1. i * w <= (n - 1) * w /\ 0 * w <= i * w /\ 0 * w = 0 /\ i * w \in Int
    BY <1>2, <1>3, TimesRises
  <2>2. QED
    BY <2>1
<1>5. PICK a : a = f + i * w
  OBVIOUS
<1>6. group_first_block(g, i) = a /\ a \in Nat /\ a < c /\ a >= f
  BY <1>1, <1>2, <1>4, <1>5 DEF group_first_block
<1>7. group_last_block(g, i) = IF a + w - 1 <= c - 1 THEN a + w - 1 ELSE c - 1
  <2>1. a + w - 1 \in Int /\ c - 1 \in Int
    BY <1>2, <1>6
  <2>2. Min({a + w - 1, c - 1}) = IF a + w - 1 <= c - 1 THEN a + w - 1 ELSE c - 1
    BY <2>1, MinOfTwo
  <2>3. QED
    BY <1>1, <1>6, <2>2 DEF group_last_block
<1>8. i < n - 1 => a + w - 1 <= c - 1
  <2> SUFFICES ASSUME i + 1 <= n - 1 PROVE a + w - 1 <= c - 1
    BY <1>2, <1>3
  <2>1. (i + 1) * w <= (n - 1) * w /\ (i + 1) * w = i * w + w
    BY <1>2, <1>3, TimesRises, TimesNext
  <2>2. QED
    BY <1>2, <1>4, <1>5, <2>1
<1>9. i = n - 1 => a + w >= c
  <2> SUFFICES ASSUME i = n - 1 PROVE a + w >= c
    OBVIOUS
  <2>1. n * w = i * w + w
    BY <1>2, <1>3, TimesNext
  <2>2. QED
    BY <1>2, <1>4, <1>5, <2>1
<1>10. QED
  BY <1>1, <1>2, <1>3, <1>6, <1>7, <1>8, <1>9

\* A later group begins behind the end of an earlier one.
LEMMA GroupsFollow ==
    ASSUME NEW g, IsGeometry(g), NEW i \in GroupsOf(g), NEW j \in GroupsOf(g), i < j
    PROVE  /\ group_last_block(g, i) < group_first_block(g, j)
           /\ group_last_block(g, i) < group_last_block(g, j)
           /\ group_first_block(g, i) < group_first_block(g, j)
<1>1. PICK f, w, n : f = g.first_data_block /\ w = g.blocks_per_group /\ n = g.group_count
  OBVIOUS
<1>2. f \in Nat /\ w \in Nat \ {0} /\ n \in Nat
  BY <1>1 DEF IsGeometry
<1>3. i \in Nat /\ j \in Nat /\ i + 1 <= j /\ j <= n - 1
  BY <1>1, <1>2 DEF GroupsOf
<1>4. (i + 1) * w <= j * w /\ (i + 1) * w = i * w + w /\ i * w \in Int /\ j * w \in Int
  BY <1>2, <1>3, TimesRises, TimesNext
<1>5. group_first_block(g, i) = f + i * w /\ group_first_block(g, j) = f + j * w
  BY <1>1 DEF group_first_block
<1>6. group_last_block(g, i) = f + i * w + w - 1
  BY <1>1, <1>2, <1>3, <1>5, GroupIs
<1>7. group_first_block(g, j) <= group_last_block(g, j) /\ group_last_block(g, j) \in Nat
  BY GroupIs
<1>8. QED
  BY <1>2, <1>4, <1>5, <1>6, <1>7

\* group_of_block finds the group a block is of.
LEMMA GroupOfBlock ==
    ASSUME NEW g, IsGeometry(g), NEW i \in GroupsOf(g), NEW b \in GroupBlocks(g, i)
    PROVE  group_of_block(g, b) = i /\ b \in Nat /\ b >= g.first_data_block /\ b < g.blocks_count
<1>1. PICK f, w : f = g.first_data_block /\ w = g.blocks_per_group
  OBVIOUS
<1>2. f \in Nat /\ w \in Nat \ {0} /\ i \in Nat /\ g.blocks_count \in Nat
  BY <1>1, GroupIs DEF IsGeometry
<1>3. group_first_block(g, i) = f + i * w /\ i * w \in Int
  BY <1>1, <1>2, TimesRises DEF group_first_block
<1>4. b \in Nat /\ b >= f + i * w /\ b < f + i * w + w /\ b < g.blocks_count /\ b >= f
  BY <1>1, <1>2, <1>3, GroupIs DEF GroupBlocks
<1>5. b - f \in Nat /\ i * w <= b - f /\ b - f < i * w + w
  BY <1>2, <1>3, <1>4
<1>6. (b - f) \div w = i
  BY <1>2, <1>5, DivOf
<1>7. QED
  BY <1>1, <1>4, <1>6 DEF group_of_block

\* Every block of the device is of one of the groups.
LEMMA BlockOfGroup ==
    ASSUME NEW g, IsGeometry(g), NEW b \in g.first_data_block .. g.blocks_count - 1
    PROVE  group_of_block(g, b) \in GroupsOf(g) /\ b \in GroupBlocks(g, group_of_block(g, b))
<1>1. PICK f, c, w, n : f = g.first_data_block /\ c = g.blocks_count /\ w = g.blocks_per_group /\ n = g.group_count
  OBVIOUS
<1>2. f \in Nat /\ c \in Nat /\ w \in Nat \ {0} /\ n \in Nat \ {0} /\ c - f <= n * w
  BY <1>1 DEF IsGeometry
<1>3. b \in Nat /\ b >= f /\ b < c
  BY <1>1, <1>2
<1>4. PICK q : q = group_of_block(g, b)
  OBVIOUS
<1>5. q \in Nat /\ q * w <= b - f /\ b - f < q * w + w
  <2>1. b - f \in Nat /\ q = (b - f) \div w
    BY <1>1, <1>2, <1>3, <1>4 DEF group_of_block
  <2>2. QED
    BY <1>2, <2>1, DivIs
<1>6. q < n
  <2> SUFFICES ASSUME n <= q PROVE FALSE
    BY <1>2, <1>5
  <2>1. n * w <= q * w /\ q * w \in Int /\ n * w \in Int
    BY <1>2, <1>5, TimesRises
  <2>2. QED
    BY <1>2, <1>3, <1>5, <2>1
<1>7. q \in GroupsOf(g)
  BY <1>1, <1>2, <1>5, <1>6 DEF GroupsOf
<1>8. group_first_block(g, q) = f + q * w /\ q * w \in Int
  BY <1>1, <1>2, <1>5, TimesRises DEF group_first_block
<1>9. group_first_block(g, q) <= b
  BY <1>2, <1>3, <1>5, <1>8
<1>10. b <= group_last_block(g, q)
  <2>1. CASE q < n - 1
    <3>1. group_last_block(g, q) = f + q * w + w - 1
      BY <1>1, <1>2, <1>7, <1>8, <2>1, GroupIs
    <3>2. QED
      BY <1>2, <1>3, <1>5, <1>8, <3>1
  <2>2. CASE q = n - 1
    <3>1. group_last_block(g, q) = c - 1
      BY <1>1, <1>7, <2>2, GroupIs
    <3>2. QED
      BY <1>2, <1>3, <3>1
  <2>3. QED
    BY <1>2, <1>5, <1>6, <2>1, <2>2
<1>11. QED
  BY <1>3, <1>4, <1>7, <1>9, <1>10, GroupIs DEF GroupBlocks

\* Every superblock copy lies in its group with the descriptors behind it.
CopiesFit(g) ==
    \A i \in GroupsOf(g) : group_first_block(g, i) + super_overhead(g, i) - 1 <= group_last_block(g, i)

\* The front of a group has a size.
LEMMA OverheadIs ==
    ASSUME NEW g, IsGeometry(g), NEW i
    PROVE  super_overhead(g, i) \in Nat
  BY DEF IsGeometry, super_overhead, desc_blocks_in_group

\* The front of a group is what in_super_region says it is.
LEMMA FrontIs ==
    ASSUME NEW g, IsGeometry(g), CopiesFit(g), NEW i \in GroupsOf(g)
    PROVE  /\ SuperRegion(g, i) \subseteq GroupBlocks(g, i)
           /\ IsFiniteSet(SuperRegion(g, i)) /\ Cardinality(SuperRegion(g, i)) = super_overhead(g, i)
           /\ \A b \in SuperRegion(g, i) : in_super_region(g, b)
           /\ \A b \in GroupBlocks(g, i) : in_super_region(g, b) => b \in SuperRegion(g, i)
<1>1. PICK a, z, n : a = group_first_block(g, i) /\ z = group_last_block(g, i) /\ n = super_overhead(g, i)
  OBVIOUS
<1>2. a \in Nat /\ z \in Nat /\ n \in Nat /\ a + n - 1 <= z
  BY <1>1, GroupIs, OverheadIs DEF CopiesFit
<1>3. SuperRegion(g, i) = a .. a + n - 1 /\ GroupBlocks(g, i) = a .. z
  BY <1>1 DEF SuperRegion, GroupBlocks
<1>4. SuperRegion(g, i) \subseteq GroupBlocks(g, i)
  BY <1>2, <1>3
<1>5. IsFiniteSet(SuperRegion(g, i)) /\ Cardinality(SuperRegion(g, i)) = n
  <2>1. a + n - 1 \in Int /\ a \in Int
    BY <1>2
  <2>2. PICK e \in Int : e = a + n - 1
    BY <2>1
  <2>3. IsFiniteSet(a .. e) /\ Cardinality(a .. e) = IF a > e THEN 0 ELSE e - a + 1
    BY <2>1, FS_Interval
  <2>4. QED
    BY <1>2, <1>3, <2>2, <2>3
<1>6. ASSUME NEW b \in GroupBlocks(g, i)
      PROVE  in_super_region(g, b) <=> b \in SuperRegion(g, i)
  <2>1. group_of_block(g, b) = i /\ b \in Nat /\ b >= g.first_data_block /\ b < g.blocks_count
    BY GroupOfBlock
  <2>2. in_super_region(g, b) <=> b < a + n
    <3>1. g.first_data_block \in Nat /\ g.blocks_count \in Nat
      BY DEF IsGeometry
    <3>2. ~(b < g.first_data_block) /\ ~(b >= g.blocks_count)
      BY <2>1, <3>1
    <3>3. QED
      BY <1>1, <2>1, <3>2 DEF in_super_region
  <2>3. b \in Nat /\ b >= a /\ b <= z
    BY <1>2, <1>3
  <2>4. QED
    BY <1>2, <1>3, <2>2, <2>3
<1>7. QED
  BY <1>1, <1>4, <1>5, <1>6

\* What Clear leaves is on the device and outside every front.
LEMMA ClearIs ==
    ASSUME NEW g, IsGeometry(g), CopiesFit(g)
    PROVE  /\ Clear(g) \subseteq g.first_data_block .. g.blocks_count - 1
           /\ \A i \in GroupsOf(g) : SuperRegion(g, i) \cap Clear(g) = {}
           /\ 0 \notin Clear(g)
<1>1. \A i \in GroupsOf(g) : SuperRegion(g, i) \cap Clear(g) = {}
  BY FrontIs DEF Clear
<1>2. 0 \notin Clear(g)
  <2> SUFFICES ASSUME 0 \in Clear(g) PROVE FALSE
    OBVIOUS
  <2>1. g.first_data_block = 0 /\ g.blocks_count \in Nat /\ 0 < g.blocks_count /\ ~in_super_region(g, 0)
    BY DEF Clear, IsGeometry
  <2>2. 0 \in GroupsOf(g) /\ group_first_block(g, 0) = 0
    BY <2>1 DEF IsGeometry, GroupsOf, group_first_block
  <2>3. super_overhead(g, 0) \in Nat /\ super_overhead(g, 0) >= 1
    BY OverheadIs DEF super_overhead, has_super, has_super_for, desc_blocks_in_group, IsGeometry
  <2>4. 0 \in SuperRegion(g, 0)
    BY <2>2, <2>3 DEF SuperRegion
  <2>5. QED
    BY <2>1, <2>2, <2>4, FrontIs
<1>3. QED
  BY <1>1, <1>2 DEF Clear

-----------------------------------------------------------------------------
(* Flex groups *)

\* The last member of a flex group.
FlexLast(g, i) == flex_first_group(g, i) + flex_members(g, flex_first_group(g, i)) - 1

\* The groups packed together are consecutive, and every one of them is packed with all of them.
LEMMA FlexIs ==
    ASSUME NEW g, IsGeometry(g), NEW i \in GroupsOf(g)
    PROVE  /\ flex_first_group(g, i) \in GroupsOf(g) /\ flex_members(g, flex_first_group(g, i)) \in Nat \ {0}
           /\ FlexLast(g, i) \in GroupsOf(g) /\ i \in flex_first_group(g, i) .. FlexLast(g, i)
           /\ \A j \in flex_first_group(g, i) .. FlexLast(g, i) :
                 j \in GroupsOf(g) /\ flex_first_group(g, j) = flex_first_group(g, i)
           /\ \A j \in GroupsOf(g) : flex_first_group(g, i) < flex_first_group(g, j) =>
                 FlexLast(g, i) < flex_first_group(g, j)
<1>1. PICK w, n : w = g.flex /\ n = g.group_count
  OBVIOUS
<1>2. w \in Nat \ {0} /\ n \in Nat \ {0} /\ GroupsOf(g) = 0 .. n - 1
  BY <1>1 DEF IsGeometry, GroupsOf
<1>3. \A j \in GroupsOf(g) : /\ flex_first_group(g, j) = (j \div w) * w /\ j \div w \in Nat
                             /\ (j \div w) * w \in Nat /\ (j \div w) * w <= j /\ j < (j \div w) * w + w
  <2> SUFFICES ASSUME NEW j \in GroupsOf(g)
               PROVE  /\ flex_first_group(g, j) = (j \div w) * w /\ j \div w \in Nat
                      /\ (j \div w) * w \in Nat /\ (j \div w) * w <= j /\ j < (j \div w) * w + w
    OBVIOUS
  <2>1. j \in Nat
    BY <1>2
  <2>2. j \div w \in Nat /\ (j \div w) * w <= j /\ j < (j \div w) * w + w
    BY <1>2, <2>1, DivIs
  <2>3. 0 * w <= (j \div w) * w /\ 0 * w = 0 /\ (j \div w) * w \in Int
    BY <1>2, <2>2, TimesRises
  <2>4. QED
    BY <1>1, <2>2, <2>3 DEF flex_first_group
<1>4. PICK f : f = flex_first_group(g, i)
  OBVIOUS
<1>5. f \in Nat /\ f <= i /\ i < f + w /\ i \in Nat /\ i <= n - 1
  BY <1>2, <1>3, <1>4
<1>6. PICK m : m = flex_members(g, f)
  OBVIOUS
<1>7. m = IF w <= n - f THEN w ELSE n - f
  <2>1. n - f \in Int /\ w \in Int
    BY <1>2, <1>5
  <2>2. QED
    BY <1>1, <1>6, <2>1, MinOfTwo DEF flex_members
<1>8. m \in Nat \ {0} /\ f + m - 1 \in 0 .. n - 1 /\ i <= f + m - 1 /\ m <= w
  BY <1>2, <1>5, <1>7
<1>9. FlexLast(g, i) = f + m - 1
  BY <1>4, <1>6 DEF FlexLast
<1>10. ASSUME NEW j \in f .. f + m - 1
       PROVE  j \in GroupsOf(g) /\ flex_first_group(g, j) = f
  <2>1. j \in Nat /\ j <= n - 1 /\ f <= j /\ j < f + w
    BY <1>2, <1>5, <1>8
  <2>2. j \in GroupsOf(g)
    BY <1>2, <2>1
  <2>3. PICK q \in Int : q = i \div w
    BY <1>3
  <2>4. f = q * w
    BY <1>3, <1>4, <2>3
  <2>5. j \div w = q
    BY <1>2, <2>1, <2>3, <2>4, DivOf
  <2>6. QED
    BY <1>3, <2>2, <2>4, <2>5
<1>11. ASSUME NEW j \in GroupsOf(g), f < flex_first_group(g, j)
       PROVE  f + m - 1 < flex_first_group(g, j)
  <2>1. PICK q \in Int, r \in Int : q = i \div w /\ r = j \div w
    BY <1>3
  <2>2. f = q * w /\ flex_first_group(g, j) = r * w /\ r * w \in Int
    BY <1>3, <1>4, <2>1
  <2>3. q + 1 <= r
    <3> SUFFICES ASSUME r <= q PROVE FALSE
      OBVIOUS
    <3>1. r * w <= q * w
      BY <1>2, TimesRises
    <3>2. QED
      BY <1>5, <1>11, <2>2, <3>1
  <2>4. (q + 1) * w <= r * w /\ (q + 1) * w = q * w + w
    BY <1>2, <2>3, TimesRises, TimesNext
  <2>5. QED
    BY <1>2, <1>5, <1>8, <2>2, <2>4
<1>12. f \in GroupsOf(g)
  BY <1>2, <1>5
<1>13. QED
  BY <1>2, <1>4, <1>5, <1>6, <1>8, <1>9, <1>10, <1>11, <1>12

\* A run found for an inode table begins at or after the cursor and is clear throughout.
LEMMA TakeRunIs ==
    ASSUME NEW g, NEW S, S \subseteq Nat, g.blocks_count \in Nat, NEW len \in Nat, NEW c \in Nat
    PROVE  LET r == TakeRun(g, S, len)[c]
           IN  r \in Nat /\ (r < g.blocks_count => r >= c /\ (r .. r + len - 1) \subseteq S)
<1> DEFINE fits == {b \in S : b >= c /\ (b .. b + len - 1) \subseteq S}
           T == {g.blocks_count} \cup fits
<1>1. TakeRun(g, S, len)[c] = Min(T)
  BY DEF TakeRun
<1>2. T \subseteq Nat /\ T # {}
  OBVIOUS
<1>3. Min(T) \in T
  <2> HIDE DEF T
  <2>1. QED
    BY <1>2, MinIs
<1>4. PICK r : r = Min(T)
  OBVIOUS
<1>5. r \in T /\ r \in Nat
  BY <1>2, <1>3, <1>4
<1>6. r < g.blocks_count => r \in fits
  BY <1>5
<1>7. QED
  BY <1>1, <1>4, <1>5, <1>6

\* Bitmaps and tables packed one after another from group f on, clear of the copies in their way.
Packed(g, at, f, m) ==
    /\ \A i \in f .. f + m - 1 :
          /\ at[i].block_bitmap \in Nat /\ at[i].inode_bitmap \in Nat /\ at[i].inode_table \in Nat
          /\ MetaBlocks(g, at[i]) \subseteq Clear(g) /\ group_first_block(g, f) <= at[i].block_bitmap
    /\ \A i, j \in f .. f + m - 1 :
          /\ at[i].block_bitmap < at[j].inode_bitmap /\ at[i].inode_bitmap < at[j].inode_table
          /\ i < j => /\ at[i].block_bitmap < at[j].block_bitmap /\ at[i].inode_bitmap < at[j].inode_bitmap
                      /\ at[i].inode_table + g.itable <= at[j].inode_table

\* The cursor behind the tables, table by table.
IsCursor(c, g, S, start, m) ==
    /\ c \in [0 .. m -> Nat] /\ c[0] = start
    /\ \A k \in 1 .. m : c[k] = TakeRun(g, S, g.itable)[c[k - 1]] + g.itable

\* The cursor of place_flex after each table.
LEMMA CursorIs ==
    ASSUME NEW g, IsGeometry(g), NEW S, S \subseteq Nat, NEW start \in Nat, NEW m \in Nat
    PROVE  LET c[k \in 0 .. m] == IF k = 0 THEN start ELSE TakeRun(g, S, g.itable)[c[k - 1]] + g.itable
           IN  IsCursor(c, g, S, start, m)
<1> DEFINE Is(c) == c = [k \in 0 .. m |-> IF k = 0 THEN start ELSE TakeRun(g, S, g.itable)[c[k - 1]] + g.itable]
           cursor == CHOOSE c : Is(c)
           F == [x \in (1 .. m) \X Nat |-> TakeRun(g, S, g.itable)[x[2]] + g.itable]
<1>1. g.blocks_count \in Nat /\ g.itable \in Nat
  BY DEF IsGeometry
<1>2. \A n \in Nat : TakeRun(g, S, g.itable)[n] \in Nat
  BY <1>1, TakeRunIs
<1>3. IsStep(F, 1 .. m, Nat)
  BY <1>1, <1>2 DEF IsStep
<1>4. PICK c : IsLoop(c, m, Nat, start, F)
  <2> HIDE DEF F
  <2>1. QED
    BY <1>3, NumberRecursion
<1>5. c \in [0 .. m -> Nat] /\ c[0] = start
  BY <1>4 DEF IsLoop
<1>6. \A k \in 1 .. m : c[k] = TakeRun(g, S, g.itable)[c[k - 1]] + g.itable
  <2> SUFFICES ASSUME NEW k \in 1 .. m PROVE c[k] = TakeRun(g, S, g.itable)[c[k - 1]] + g.itable
    OBVIOUS
  <2>1. k - 1 \in 0 .. m
    OBVIOUS
  <2>2. <<k, c[k - 1]>> \in (1 .. m) \X Nat
    BY <1>5, <2>1
  <2>3. F[<<k, c[k - 1]>>] = TakeRun(g, S, g.itable)[c[k - 1]] + g.itable
    BY <2>2
  <2> HIDE DEF F
  <2>4. QED
    BY <1>4, <2>3 DEF IsLoop
<1>7. Is(c)
  <2>1. \A k \in 0 .. m : k = 0 \/ k \in 1 .. m
    OBVIOUS
  <2>2. QED
    BY <1>5, <1>6, <2>1
<1>8. Is(cursor)
  BY <1>7, Zenon
<1> HIDE DEF cursor
<1>9. cursor[0] = start /\ \A k \in 1 .. m : cursor[k] = TakeRun(g, S, g.itable)[cursor[k - 1]] + g.itable
  BY <1>8
<1> DEFINE T == {k \in Nat : k <= m => cursor[k] \in Nat}
<1>10. 0 \in T
  BY <1>9
<1>11. ASSUME NEW k \in Nat, k \in T PROVE k + 1 \in T
  <2> SUFFICES ASSUME k + 1 <= m PROVE cursor[k + 1] \in Nat
    OBVIOUS
  <2>1. k + 1 \in 1 .. m /\ (k + 1) - 1 = k /\ cursor[k] \in Nat
    BY <1>11
  <2>2. cursor[k + 1] = TakeRun(g, S, g.itable)[cursor[k]] + g.itable
    BY <1>9, <2>1
  <2>3. QED
    BY <1>1, <1>2, <2>1, <2>2
<1>12. Nat \subseteq T
  <2> HIDE DEF T
  <2>1. QED
    BY <1>10, <1>11, NumberInduction, Zenon
<1>13. cursor \in [0 .. m -> Nat]
  <2>1. \A k \in 0 .. m : cursor[k] \in Nat
    BY <1>12
  <2>2. cursor = [k \in 0 .. m |-> cursor[k]]
    BY <1>8
  <2>3. QED
    BY <2>1, <2>2
<1>14. IsCursor(cursor, g, S, start, m)
  BY <1>9, <1>13 DEF IsCursor
<1>15. QED
  BY <1>14 DEF cursor

\* Tables that all end in the device follow each other, each of them clear.
LEMMA CursorRises ==
    ASSUME NEW g, IsGeometry(g), NEW S, S \subseteq Nat, NEW start \in Nat, NEW m \in Nat, NEW c,
           IsCursor(c, g, S, start, m), \A k \in 1 .. m : c[k] <= g.blocks_count
    PROVE  /\ \A k \in 1 .. m : c[k] - g.itable >= c[k - 1] /\ (c[k] - g.itable .. c[k] - 1) \subseteq S
           /\ \A j \in 0 .. m, k \in 0 .. m : j <= k => c[j] <= c[k]
           /\ \A k \in 1 .. m : c[k] - g.itable \in Nat /\ c[k] - g.itable >= start
<1>1. g.blocks_count \in Nat /\ g.itable \in Nat /\ g.itable >= 1
  BY DEF IsGeometry
<1>2. c \in [0 .. m -> Nat] /\ c[0] = start
  BY DEF IsCursor
<1>3. ASSUME NEW k \in 1 .. m
      PROVE  c[k] - g.itable >= c[k - 1] /\ (c[k] - g.itable .. c[k] - 1) \subseteq S /\ c[k] - g.itable \in Nat
  <2>1. k - 1 \in 0 .. m /\ k \in 0 .. m
    OBVIOUS
  <2>2. PICK d \in Nat : d = c[k - 1]
    BY <1>2, <2>1
  <2>3. PICK r : r = TakeRun(g, S, g.itable)[d]
    OBVIOUS
  <2>4. r \in Nat /\ (r < g.blocks_count => r >= d /\ (r .. r + g.itable - 1) \subseteq S)
    BY <1>1, <2>3, TakeRunIs
  <2>5. c[k] = r + g.itable
    BY <2>2, <2>3 DEF IsCursor
  <2>6. r < g.blocks_count
    BY <1>1, <2>4, <2>5
  <2>7. c[k] - g.itable = r /\ c[k] - 1 = r + g.itable - 1
    BY <1>1, <2>4, <2>5
  <2>8. QED
    BY <2>2, <2>4, <2>6, <2>7
<1> DEFINE T == {n \in Nat : n <= m => \A j \in 0 .. n : c[j] <= c[n]}
<1>4. 0 \in T
  BY <1>2
<1>5. ASSUME NEW n \in Nat, n \in T PROVE n + 1 \in T
  <2> SUFFICES ASSUME n + 1 <= m, NEW j \in 0 .. n + 1 PROVE c[j] <= c[n + 1]
    OBVIOUS
  <2>1. n + 1 \in 1 .. m /\ (n + 1) - 1 = n /\ n \in 0 .. m /\ n + 1 \in 0 .. m /\ j \in 0 .. m
    OBVIOUS
  <2>2. c[n] <= c[n + 1]
    <3>1. c[n + 1] - g.itable >= c[n]
      BY <1>3, <2>1
    <3>2. c[n] \in Nat /\ c[n + 1] \in Nat
      BY <1>2, <2>1
    <3>3. QED
      BY <1>1, <3>1, <3>2
  <2>3. c[n] \in Nat /\ c[n + 1] \in Nat /\ c[j] \in Nat
    BY <1>2, <2>1
  <2>4. CASE j = n + 1
    BY <2>3, <2>4
  <2>5. CASE j # n + 1
    <3>1. j \in 0 .. n
      BY <2>5
    <3>2. c[j] <= c[n]
      BY <1>5, <3>1
    <3>3. QED
      BY <2>2, <2>3, <3>2
  <2>6. QED
    BY <2>4, <2>5
<1>6. Nat \subseteq T
  <2> HIDE DEF T
  <2>1. QED
    BY <1>4, <1>5, NumberInduction, Zenon
<1>7. \A j \in 0 .. m, k \in 0 .. m : j <= k => c[j] <= c[k]
  <2> SUFFICES ASSUME NEW j \in 0 .. m, NEW k \in 0 .. m, j <= k PROVE c[j] <= c[k]
    OBVIOUS
  <2>1. k \in T /\ k \in Nat /\ k <= m /\ j \in 0 .. k
    BY <1>6
  <2>2. QED
    BY <2>1
<1>8. ASSUME NEW k \in 1 .. m PROVE c[k] - g.itable >= start
  <2>1. 0 \in 0 .. m /\ k - 1 \in 0 .. m /\ 0 <= k - 1 /\ k \in 0 .. m
    OBVIOUS
  <2>2. start <= c[k - 1] /\ c[k - 1] \in Nat /\ c[k] \in Nat
    BY <1>2, <1>7, <2>1
  <2>3. QED
    BY <1>1, <1>3, <2>2
<1>9. QED
  BY <1>3, <1>7, <1>8

\* What place_flex returns, when its tables all end in the device, is packed.
LEMMA PlacesArePacked ==
    ASSUME NEW g, IsGeometry(g), CopiesFit(g), NEW f \in GroupsOf(g), NEW m \in Nat \ {0}, m = flex_members(g, f),
           NEW at, at = place_flex(g, Clear(g), f),
           \A i \in f .. f + m - 1 : \E z \in Nat : z < g.blocks_count /\ at[i].inode_table + g.itable - 1 <= z
    PROVE  Packed(g, at, f, m)
<1> DEFINE S == {b \in Clear(g) : b >= group_first_block(g, f)}
           singles == Ascending[S]
           one(k) == IF k <= Len(singles) THEN singles[k] ELSE g.blocks_count
           start == one(2 * m) + 1
           Cursor(n) == CHOOSE c : c = [k \in 0 .. n |->
               IF k = 0 THEN one(2 * n) + 1 ELSE TakeRun(g, Clear(g), g.itable)[c[k - 1]] + g.itable]
           Places(n) == [i \in f .. f + n - 1 |->
               [block_bitmap |-> one(i - f + 1), inode_bitmap |-> one(i - f + 1 + n),
                inode_table |-> Cursor(n)[i - f + 1] - g.itable]]
           c == Cursor(m)
<1>0. place_flex(g, Clear(g), f) = Places(flex_members(g, f))
  BY DEF place_flex
<1>1. at = Places(m)
  <2> HIDE DEF Places
  <2>1. QED
    BY <1>0
<1>2. /\ g.blocks_count \in Nat /\ g.itable \in Nat /\ g.itable >= 1 /\ f \in Nat
      /\ g.first_data_block \in Nat /\ group_first_block(g, f) \in Nat
  BY GroupIs DEF IsGeometry
<1>3. Clear(g) \subseteq Nat /\ Clear(g) \subseteq 0 .. g.blocks_count - 1
  BY <1>2, ClearIs
<1>4. Rises(singles, S)
  <2>1. S \subseteq 0 .. g.blocks_count
    BY <1>2, <1>3
  <2> HIDE DEF S
  <2>2. QED
    BY <1>2, <2>1, AscendingRises
<1>5. singles \in Seq(Nat) /\ Len(singles) \in Nat
  BY <1>4 DEF Rises
<1>6. \A k \in 1 .. Len(singles) : singles[k] \in S /\ singles[k] \in Nat
  BY <1>4 DEF Rises
<1>7. \A j, k \in 1 .. Len(singles) : j < k => singles[j] < singles[k]
  BY <1>4 DEF Rises
<1> HIDE DEF singles
<1>8. start \in Nat /\ one(2 * m) \in Nat
  <2>1. 2 * m <= Len(singles) => 2 * m \in 1 .. Len(singles)
    BY <1>5
  <2>2. one(2 * m) \in Nat
    BY <1>2, <1>6, <2>1
  <2>3. QED
    BY <2>2
<1>9. IsCursor(c, g, Clear(g), start, m)
  <2> HIDE DEF one
  <2>1. QED
    BY <1>3, <1>8, CursorIs
<1> HIDE DEF start, Cursor, c
<1>10. \A i \in f .. f + m - 1 : /\ i - f + 1 \in 1 .. m /\ i \in Nat
                                 /\ at[i].block_bitmap = one(i - f + 1) /\ at[i].inode_bitmap = one(i - f + 1 + m)
                                 /\ at[i].inode_table = c[i - f + 1] - g.itable
  BY <1>1, <1>2 DEF c
<1>11. c \in [0 .. m -> Nat] /\ c[0] = start
  BY <1>9 DEF IsCursor
<1>12. \A k \in 1 .. m : c[k] <= g.blocks_count
  <2> SUFFICES ASSUME NEW k \in 1 .. m PROVE c[k] <= g.blocks_count
    OBVIOUS
  <2>1. f + k - 1 \in f .. f + m - 1 /\ (f + k - 1) - f + 1 = k /\ k \in 0 .. m
    BY <1>2
  <2>2. at[f + k - 1].inode_table = c[k] - g.itable
    BY <1>10, <2>1
  <2>3. PICK z \in Nat : z < g.blocks_count /\ at[f + k - 1].inode_table + g.itable - 1 <= z
    BY <2>1
  <2>4. c[k] \in Nat
    BY <1>11, <2>1
  <2>5. QED
    BY <1>2, <2>2, <2>3, <2>4
<1>13. /\ \A k \in 1 .. m : c[k] - g.itable >= c[k - 1] /\ (c[k] - g.itable .. c[k] - 1) \subseteq Clear(g)
       /\ \A j \in 0 .. m, k \in 0 .. m : j <= k => c[j] <= c[k]
       /\ \A k \in 1 .. m : c[k] - g.itable \in Nat /\ c[k] - g.itable >= start
  BY <1>3, <1>8, <1>9, <1>12, CursorRises
<1>14. one(2 * m) < g.blocks_count
  <2>1. 1 \in 1 .. m /\ 1 \in 0 .. m
    OBVIOUS
  <2>2. c[1] - g.itable >= start /\ c[1] <= g.blocks_count /\ c[1] \in Nat
    BY <1>11, <1>12, <1>13, <2>1
  <2>3. QED
    BY <1>2, <1>8, <2>2 DEF start
<1>15. 2 * m <= Len(singles)
  BY <1>2, <1>14
<1>16. \A k \in 1 .. 2 * m : k \in 1 .. Len(singles) /\ one(k) = singles[k]
  BY <1>5, <1>15
<1>17. start = singles[2 * m] + 1
  <2>1. 2 * m \in 1 .. 2 * m
    OBVIOUS
  <2>2. QED
    BY <1>16, <2>1 DEF start
<1> HIDE DEF one
<1>18. \A k \in 1 .. 2 * m : singles[k] \in Nat /\ singles[k] < start
  <2> SUFFICES ASSUME NEW k \in 1 .. 2 * m PROVE singles[k] \in Nat /\ singles[k] < start
    OBVIOUS
  <2>1. k \in 1 .. Len(singles) /\ 2 * m \in 1 .. Len(singles)
    BY <1>5, <1>15
  <2>2. k < 2 * m \/ k = 2 * m
    OBVIOUS
  <2>3. singles[k] \in Nat /\ singles[2 * m] \in Nat
    BY <1>6, <2>1
  <2>4. singles[k] <= singles[2 * m]
    BY <1>7, <2>1, <2>2, <2>3
  <2>5. QED
    BY <1>17, <2>3, <2>4
<1>19. ASSUME NEW i \in f .. f + m - 1
       PROVE  \E k \in 1 .. m :
                /\ k = i - f + 1 /\ k \in 1 .. 2 * m /\ k + m \in 1 .. 2 * m
                /\ at[i].block_bitmap = singles[k] /\ at[i].inode_bitmap = singles[k + m]
                /\ at[i].inode_table = c[k] - g.itable
                /\ singles[k] \in S /\ singles[k + m] \in S
  <2>1. PICK k \in 1 .. m : k = i - f + 1
    BY <1>10
  <2>2. k \in 1 .. 2 * m /\ k + m \in 1 .. 2 * m
    OBVIOUS
  <2>3. at[i].block_bitmap = one(k) /\ at[i].inode_bitmap = one(k + m) /\ at[i].inode_table = c[k] - g.itable
    BY <1>10, <2>1
  <2>4. QED
    BY <1>6, <1>16, <2>1, <2>2, <2>3
<1>20. ASSUME NEW i \in f .. f + m - 1
       PROVE  /\ at[i].block_bitmap \in Nat /\ at[i].inode_bitmap \in Nat /\ at[i].inode_table \in Nat
              /\ MetaBlocks(g, at[i]) \subseteq Clear(g) /\ group_first_block(g, f) <= at[i].block_bitmap
  <2>1. PICK k \in 1 .. m : /\ k \in 1 .. 2 * m /\ k + m \in 1 .. 2 * m
                            /\ at[i].block_bitmap = singles[k] /\ at[i].inode_bitmap = singles[k + m]
                            /\ at[i].inode_table = c[k] - g.itable
                            /\ singles[k] \in S /\ singles[k + m] \in S
    BY <1>19
  <2>2. k \in 0 .. m /\ c[k] \in Nat
    BY <1>11
  <2>3. at[i].inode_table + g.itable - 1 = c[k] - 1
    BY <1>2, <2>1, <2>2
  <2>4. MetaBlocks(g, at[i]) = {singles[k], singles[k + m]} \cup (c[k] - g.itable .. c[k] - 1)
    BY <2>1, <2>3 DEF MetaBlocks
  <2>5. (c[k] - g.itable .. c[k] - 1) \subseteq Clear(g) /\ c[k] - g.itable \in Nat
    BY <1>13
  <2>6. QED
    BY <1>18, <2>1, <2>4, <2>5
<1>21. ASSUME NEW i \in f .. f + m - 1, NEW j \in f .. f + m - 1
       PROVE  /\ at[i].block_bitmap < at[j].inode_bitmap /\ at[i].inode_bitmap < at[j].inode_table
              /\ i < j => /\ at[i].block_bitmap < at[j].block_bitmap /\ at[i].inode_bitmap < at[j].inode_bitmap
                          /\ at[i].inode_table + g.itable <= at[j].inode_table
  <2>1. PICK k \in 1 .. m : /\ k = i - f + 1 /\ k \in 1 .. 2 * m /\ k + m \in 1 .. 2 * m
                            /\ at[i].block_bitmap = singles[k] /\ at[i].inode_bitmap = singles[k + m]
                            /\ at[i].inode_table = c[k] - g.itable
    BY <1>19
  <2>2. PICK l \in 1 .. m : /\ l = j - f + 1 /\ l \in 1 .. 2 * m /\ l + m \in 1 .. 2 * m
                            /\ at[j].block_bitmap = singles[l] /\ at[j].inode_bitmap = singles[l + m]
                            /\ at[j].inode_table = c[l] - g.itable
    BY <1>19
  <2>3. \A x, y \in 1 .. 2 * m : x < y => singles[x] < singles[y]
    BY <1>7, <1>16
  <2>4. at[i].block_bitmap < at[j].inode_bitmap
    BY <2>1, <2>2, <2>3
  <2>5. at[i].inode_bitmap < at[j].inode_table
    <3>1. singles[k + m] \in Nat /\ singles[k + m] < start /\ c[l] - g.itable \in Nat /\ c[l] - g.itable >= start
      BY <1>13, <1>18, <2>1
    <3>2. QED
      BY <1>8, <2>1, <2>2, <3>1
  <2>6. ASSUME i < j
        PROVE  /\ at[i].block_bitmap < at[j].block_bitmap /\ at[i].inode_bitmap < at[j].inode_bitmap
               /\ at[i].inode_table + g.itable <= at[j].inode_table
    <3>1. k < l /\ k + m < l + m
      BY <1>2, <2>1, <2>2, <2>6
    <3>2. k \in 0 .. m /\ l - 1 \in 0 .. m /\ k <= l - 1 /\ l \in 0 .. m
      BY <3>1
    <3>3. c[k] <= c[l - 1] /\ c[l] - g.itable >= c[l - 1] /\ c[k] \in Nat /\ c[l - 1] \in Nat /\ c[l] \in Nat
      BY <1>11, <1>13, <3>2
    <3>4. at[i].inode_table + g.itable <= at[j].inode_table
      BY <1>2, <2>1, <2>2, <3>3
    <3>5. QED
      BY <2>1, <2>2, <2>3, <3>1, <3>4
  <2>7. QED
    BY <2>4, <2>5, <2>6
<1>22. QED
  BY <1>20, <1>21 DEF Packed

\* Every flex group has room for what is packed in it: its last table ends in it.
TablesFit(g, at) ==
    \A i \in GroupsOf(g) : at[i].inode_table + g.itable - 1 <= group_last_block(g, FlexLast(g, i))

\* What a group's metadata takes.
Own(g, at, i) == SuperRegion(g, i) \cup MetaBlocks(g, at[i])

\* The metadata of a flex group, with the same facts for each of its members.
LEMMA FlexIsPacked ==
    ASSUME NEW g, IsGeometry(g), CopiesFit(g), NEW at, at = group(g, Clear(g)), TablesFit(g, at), NEW i \in GroupsOf(g)
    PROVE  Packed(g, at, flex_first_group(g, i), flex_members(g, flex_first_group(g, i)))
<1>1. PICK f, m : f = flex_first_group(g, i) /\ m = flex_members(g, f)
  OBVIOUS
<1>2. f \in GroupsOf(g) /\ m \in Nat \ {0} /\ FlexLast(g, i) = f + m - 1 /\ f \in Nat
  BY <1>1, FlexIs, GroupIs DEF FlexLast
<1>3. \A j \in f .. f + m - 1 : j \in GroupsOf(g) /\ flex_first_group(g, j) = f
  BY <1>1, <1>2, FlexIs
<1>4. PICK there : there = place_flex(g, Clear(g), f)
  OBVIOUS
<1>5. \A j \in f .. f + m - 1 : at[j] = there[j]
  BY <1>3, <1>4 DEF group
<1>6. \A j \in f .. f + m - 1 : \E z \in Nat : z < g.blocks_count /\ there[j].inode_table + g.itable - 1 <= z
  <2> SUFFICES ASSUME NEW j \in f .. f + m - 1
               PROVE  \E z \in Nat : z < g.blocks_count /\ there[j].inode_table + g.itable - 1 <= z
    OBVIOUS
  <2>1. j \in GroupsOf(g) /\ there[j].inode_table + g.itable - 1 <= group_last_block(g, FlexLast(g, j))
    BY <1>3, <1>5 DEF TablesFit
  <2>2. group_last_block(g, FlexLast(g, j)) \in Nat /\ group_last_block(g, FlexLast(g, j)) < g.blocks_count
    BY <2>1, FlexIs, GroupIs
  <2>3. QED
    BY <2>1, <2>2
<1>7. Packed(g, there, f, m)
  BY <1>1, <1>2, <1>4, <1>6, PlacesArePacked
<1>8. Packed(g, at, f, m)
  BY <1>5, <1>7 DEF Packed
<1>9. QED
  BY <1>1, <1>8

\* The facts about one group's metadata that follow.
OwnIs(g, at, i) ==
    /\ MetaBlocks(g, at[i]) \subseteq Clear(g)
    /\ \A b \in MetaBlocks(g, at[i]) :
          b \in Nat /\ group_first_block(g, flex_first_group(g, i)) <= b /\ b <= group_last_block(g, FlexLast(g, i))
    /\ at[i].block_bitmap \in Nat /\ at[i].inode_bitmap \in Nat /\ at[i].inode_table \in Nat
    /\ IsFiniteSet(Own(g, at, i)) /\ Cardinality(Own(g, at, i)) = super_overhead(g, i) + 2 + g.itable
    /\ Own(g, at, i) \subseteq g.first_data_block .. g.blocks_count - 1

\* Where a group's bitmaps and table lie, and how much it owns in all.
LEMMA OwnBlocks ==
    ASSUME NEW g, IsGeometry(g), CopiesFit(g), NEW at, at = group(g, Clear(g)), TablesFit(g, at), NEW i \in GroupsOf(g)
    PROVE  OwnIs(g, at, i)
<1>1. PICK f, m : f = flex_first_group(g, i) /\ m = flex_members(g, f)
  OBVIOUS
<1>2. f \in GroupsOf(g) /\ m \in Nat \ {0} /\ FlexLast(g, i) = f + m - 1 /\ i \in f .. f + m - 1
  BY <1>1, FlexIs DEF FlexLast
<1>3. Packed(g, at, f, m)
  BY <1>1, FlexIsPacked
<1>4. PICK x, y, t, n : x = at[i].block_bitmap /\ y = at[i].inode_bitmap /\ t = at[i].inode_table /\ n = g.itable
  OBVIOUS
<1>5. /\ x \in Nat /\ y \in Nat /\ t \in Nat /\ n \in Nat \ {0} /\ x < y /\ y < t
      /\ group_first_block(g, f) <= x /\ MetaBlocks(g, at[i]) \subseteq Clear(g)
  BY <1>2, <1>3, <1>4 DEF Packed, IsGeometry
<1>6. MetaBlocks(g, at[i]) = {x, y} \cup (t .. t + n - 1)
  BY <1>4 DEF MetaBlocks
<1>7. PICK a, z : a = group_first_block(g, f) /\ z = group_last_block(g, FlexLast(g, i))
  OBVIOUS
<1>8. a \in Nat /\ z \in Nat /\ a <= x /\ t + n - 1 <= z
  BY <1>2, <1>4, <1>5, <1>7, FlexIs, GroupIs DEF TablesFit
<1>9. \A b \in MetaBlocks(g, at[i]) : b \in Nat /\ a <= b /\ b <= z
  BY <1>5, <1>6, <1>8
<1>10. IsFiniteSet(MetaBlocks(g, at[i])) /\ Cardinality(MetaBlocks(g, at[i])) = 2 + n
  <2>1. PICK e \in Int : e = t + n - 1
    BY <1>5
  <2>2. IsFiniteSet(t .. e) /\ Cardinality(t .. e) = n
    <3>1. t \in Int /\ ~(t > e)
      BY <1>5, <2>1
    <3>2. IsFiniteSet(t .. e) /\ Cardinality(t .. e) = e - t + 1
      BY <3>1, FS_Interval
    <3>3. QED
      BY <1>5, <2>1, <3>2
  <2>3. PICK T : T = t .. e
    OBVIOUS
  <2>4. y \notin T /\ x \notin T \cup {y}
    BY <1>5, <2>1, <2>3
  <2>5. IsFiniteSet(T \cup {y}) /\ Cardinality(T \cup {y}) = n + 1
    BY <2>2, <2>3, <2>4, FS_AddElement
  <2>6. IsFiniteSet((T \cup {y}) \cup {x}) /\ Cardinality((T \cup {y}) \cup {x}) = (n + 1) + 1
    BY <2>4, <2>5, FS_AddElement
  <2>7. MetaBlocks(g, at[i]) = (T \cup {y}) \cup {x}
    BY <1>6, <2>1, <2>3
  <2>8. QED
    BY <1>5, <2>6, <2>7
<1>11. /\ IsFiniteSet(SuperRegion(g, i)) /\ Cardinality(SuperRegion(g, i)) = super_overhead(g, i)
       /\ SuperRegion(g, i) \cap MetaBlocks(g, at[i]) = {} /\ SuperRegion(g, i) \subseteq GroupBlocks(g, i)
  BY <1>5, FrontIs, ClearIs
<1>12. IsFiniteSet(Own(g, at, i)) /\ Cardinality(Own(g, at, i)) = super_overhead(g, i) + 2 + n
  <2>1. /\ IsFiniteSet(Own(g, at, i))
        /\ Cardinality(Own(g, at, i)) = Cardinality(SuperRegion(g, i)) + Cardinality(MetaBlocks(g, at[i])) - Cardinality({})
    BY <1>10, <1>11, FS_Union DEF Own
  <2>2. Cardinality({}) = 0 /\ super_overhead(g, i) \in Nat
    BY FS_EmptySet, OverheadIs
  <2>3. QED
    BY <1>5, <1>10, <1>11, <2>1, <2>2
<1>13. Own(g, at, i) \subseteq g.first_data_block .. g.blocks_count - 1
  <2>1. SuperRegion(g, i) \subseteq g.first_data_block .. g.blocks_count - 1
    <3>1. g.first_data_block \in Nat /\ g.blocks_count \in Nat
      BY DEF IsGeometry
    <3>2. \A b \in SuperRegion(g, i) : b \in Nat /\ b >= g.first_data_block /\ b < g.blocks_count
      BY <1>11, GroupOfBlock
    <3>3. QED
      BY <3>1, <3>2
  <2>2. QED
    BY <1>5, <2>1, ClearIs DEF Own
<1>14. QED
  BY <1>1, <1>4, <1>5, <1>7, <1>9, <1>12, <1>13 DEF OwnIs

\* No block of one group's metadata is another's.
LEMMA OwnersDiffer ==
    ASSUME NEW g, IsGeometry(g), CopiesFit(g), NEW at, at = group(g, Clear(g)), TablesFit(g, at),
           NEW i \in GroupsOf(g), NEW j \in GroupsOf(g), i # j
    PROVE  Own(g, at, i) \cap Own(g, at, j) = {}
<1>1. SuperRegion(g, i) \cap SuperRegion(g, j) = {}
  <2> SUFFICES ASSUME NEW b \in SuperRegion(g, i), b \in SuperRegion(g, j) PROVE FALSE
    OBVIOUS
  <2>1. b \in GroupBlocks(g, i) /\ b \in GroupBlocks(g, j)
    BY FrontIs
  <2>2. QED
    BY <2>1, GroupOfBlock
<1>2. SuperRegion(g, i) \cap MetaBlocks(g, at[j]) = {} /\ SuperRegion(g, j) \cap MetaBlocks(g, at[i]) = {}
  BY OwnBlocks, ClearIs DEF OwnIs
<1>3. PICK f, h : f = flex_first_group(g, i) /\ h = flex_first_group(g, j)
  OBVIOUS
<1>4. f \in Nat /\ h \in Nat
  BY <1>3, FlexIs, GroupIs
<1>5. CASE f # h
  <2>1. ASSUME NEW k \in GroupsOf(g), NEW l \in GroupsOf(g), flex_first_group(g, k) < flex_first_group(g, l)
        PROVE  MetaBlocks(g, at[k]) \cap MetaBlocks(g, at[l]) = {}
    <3>1. FlexLast(g, k) < flex_first_group(g, l) /\ FlexLast(g, k) \in GroupsOf(g) /\ flex_first_group(g, l) \in GroupsOf(g)
      BY <2>1, FlexIs
    <3>2. PICK z, a : z = group_last_block(g, FlexLast(g, k)) /\ a = group_first_block(g, flex_first_group(g, l))
      OBVIOUS
    <3>3. z < a /\ z \in Nat /\ a \in Nat
      BY <3>1, <3>2, GroupsFollow, GroupIs
    <3>4. (\A b \in MetaBlocks(g, at[k]) : b \in Nat /\ b <= z) /\ \A b \in MetaBlocks(g, at[l]) : b \in Nat /\ a <= b
      BY <3>2, OwnBlocks DEF OwnIs
    <3>5. QED
      BY <3>3, <3>4
  <2>2. MetaBlocks(g, at[i]) \cap MetaBlocks(g, at[j]) = {}
    <3>1. f < h \/ h < f
      BY <1>4, <1>5
    <3>2. QED
      BY <1>3, <2>1, <3>1
  <2>3. QED
    BY <1>1, <1>2, <2>2 DEF Own
<1>6. CASE f = h
  <2>1. PICK m : m = flex_members(g, f)
    OBVIOUS
  <2>2. m \in Nat \ {0} /\ i \in f .. f + m - 1 /\ j \in f .. f + m - 1
    BY <1>3, <1>6, <2>1, FlexIs DEF FlexLast
  <2>3. Packed(g, at, f, m)
    BY <1>3, <2>1, FlexIsPacked
  <2>4. ASSUME NEW k \in f .. f + m - 1, NEW l \in f .. f + m - 1, k < l
        PROVE  MetaBlocks(g, at[k]) \cap MetaBlocks(g, at[l]) = {}
    <3>1. PICK x, y, t, u, v, w, n : /\ x = at[k].block_bitmap /\ y = at[k].inode_bitmap /\ t = at[k].inode_table
                                     /\ u = at[l].block_bitmap /\ v = at[l].inode_bitmap /\ w = at[l].inode_table
                                     /\ n = g.itable
      OBVIOUS
    <3>2. /\ x \in Nat /\ y \in Nat /\ t \in Nat /\ u \in Nat /\ v \in Nat /\ w \in Nat /\ n \in Nat
          /\ x < v /\ u < y /\ y < w /\ v < t /\ x < u /\ y < v /\ t + n <= w
      BY <2>3, <2>4, <3>1 DEF Packed, IsGeometry
    <3>3. MetaBlocks(g, at[k]) = {x, y} \cup (t .. t + n - 1) /\ MetaBlocks(g, at[l]) = {u, v} \cup (w .. w + n - 1)
      BY <3>1 DEF MetaBlocks
    <3>4. QED
      BY <3>2, <3>3
  <2>5. i < j \/ j < i
    BY GroupIs
  <2>6. MetaBlocks(g, at[i]) \cap MetaBlocks(g, at[j]) = {}
    BY <2>2, <2>4, <2>5
  <2>7. QED
    BY <1>1, <1>2, <2>6 DEF Own
<1>7. QED
  BY <1>5, <1>6

\* The probe of the allocator, which places the flex groups a second time, knows all of it.
LEMMA ProbeKnows ==
    ASSUME NEW g, IsGeometry(g), CopiesFit(g), NEW at, at = group(g, Clear(g)), TablesFit(g, at), NEW i \in GroupsOf(g)
    PROVE  Own(g, at, i) \subseteq metadata_probe(g, at)
<1>1. SuperRegion(g, i) \subseteq metadata_probe(g, at)
  <2> SUFFICES ASSUME NEW b \in SuperRegion(g, i) PROVE b \in metadata_probe(g, at)
    OBVIOUS
  <2>1. in_super_region(g, b) /\ b \in GroupBlocks(g, i)
    BY FrontIs
  <2>2. b \in Nat /\ b < g.blocks_count /\ g.blocks_count \in Nat
    BY <2>1, GroupOfBlock DEF IsGeometry
  <2>3. b \in 0 .. g.blocks_count - 1
    BY <2>2
  <2>4. QED
    BY <2>1, <2>3 DEF metadata_probe
<1>2. ASSUME NEW b \in MetaBlocks(g, at[i]) PROVE b \in metadata_probe(g, at)
  <2>1. PICK k : k = group_of_block(g, b)
    OBVIOUS
  <2>2. b \in g.first_data_block .. g.blocks_count - 1
    BY OwnBlocks DEF OwnIs, Own
  <2>3. k \in GroupsOf(g) /\ b \in GroupBlocks(g, k)
    BY <2>1, <2>2, BlockOfGroup
  <2>4. PICK f, z : f = flex_first_group(g, i) /\ z = FlexLast(g, i)
    OBVIOUS
  <2>5. f \in GroupsOf(g) /\ z \in GroupsOf(g) /\ i \in f .. z
    BY <2>4, FlexIs
  <2>6. b \in Nat /\ group_first_block(g, f) <= b /\ b <= group_last_block(g, z)
    BY <2>4, OwnBlocks DEF OwnIs
  <2>7. k \in Nat /\ f \in Nat /\ z \in Nat /\ group_first_block(g, k) <= b /\ b <= group_last_block(g, k)
    BY <2>3, <2>5, GroupIs DEF GroupBlocks
  <2>8. ~(k < f)
    <3> SUFFICES ASSUME k < f PROVE FALSE
      OBVIOUS
    <3>1. group_last_block(g, k) < group_first_block(g, f)
      BY <2>3, <2>5, GroupsFollow
    <3>2. QED
      BY <2>3, <2>5, <2>6, <2>7, <3>1, GroupIs
  <2>9. ~(z < k)
    <3> SUFFICES ASSUME z < k PROVE FALSE
      OBVIOUS
    <3>1. group_last_block(g, z) < group_first_block(g, k)
      BY <2>3, <2>5, GroupsFollow
    <3>2. QED
      BY <2>3, <2>5, <2>6, <2>7, <3>1, GroupIs
  <2>10. k \in f .. z
    BY <2>7, <2>8, <2>9
  <2>11. flex_first_group(g, k) = f
    BY <2>4, <2>10, FlexIs
  <2>12. FlexLast(g, k) = z
    BY <2>4, <2>11 DEF FlexLast
  <2>13. i \in flex_first_group(g, k) .. flex_first_group(g, k) + flex_members(g, flex_first_group(g, k)) - 1
    BY <2>5, <2>11, <2>12 DEF FlexLast
  <2>14. b \in flex_metadata_runs(g, at, k)
    BY <2>13 DEF flex_metadata_runs
  <2>15. QED
    BY <2>3, <2>14 DEF metadata_probe
<1>3. QED
  BY <1>1, <1>2 DEF Own

\* How much a group owns.
Size(g, i) == super_overhead(g, i) + 2 + g.itable

\* What the groups' metadata should come to.
Total(g, Q) == MapThenSumSet(LAMBDA i : super_overhead(g, i) + 2 + g.itable, Q)

\* And the blocks it takes.
Fixed(g, at) == UNION {SuperRegion(g, i) \cup MetaBlocks(g, at[i]) : i \in GroupsOf(g)}

\* The element a fold of FiniteSetsExt takes of a set.
Pick(s) == CHOOSE x \in s : TRUE

\* The sum of the sizes of a set of groups, unfolded group by group.
IsSum(h, g, Q) ==
    /\ h \in [SUBSET Q -> Int] /\ h[{}] = 0
    /\ \A s \in SUBSET Q : s # {} => h[s] = Size(g, Pick(s)) + h[s \ {Pick(s)}]

\* A sum over groups, one group at a time.
LEMMA SumUnfolds ==
    ASSUME NEW g, IsGeometry(g), NEW Q, IsFiniteSet(Q)
    PROVE  \E h : IsSum(h, g, Q) /\ Total(g, Q) = h[Q]
<1> DEFINE Is(h) == h = [s \in SUBSET Q |-> IF s = {} THEN 0 ELSE Size(g, Pick(s)) + h[s \ {Pick(s)}]]
           sum == CHOOSE h : Is(h)
           F == [x \in Q \X Int |-> Size(g, x[1]) + x[2]]
           c == [s \in SUBSET Q |-> Pick(s)]
<1>1. Total(g, Q) = sum[Q]
  BY DEF Total, MapThenSumSet, MapThenFoldSet, Pick, Size
<1>2. \A s \in SUBSET Q : s # {} => Pick(s) \in s /\ c[s] = Pick(s) /\ s \ {Pick(s)} \in SUBSET Q
  BY DEF Pick
<1>3. \A x \in Q : Size(g, x) \in Int
  BY OverheadIs DEF Size, IsGeometry
<1>4. IsStep(F, Q, Int)
  BY <1>3 DEF IsStep
<1>5. IsChoice(c, Q)
  BY <1>2 DEF IsChoice
<1> HIDE DEF F, c
<1>6. PICK h : IsFold(h, Q, Int, 0, F, c)
  <2>1. 0 \in Int
    OBVIOUS
  <2>2. QED
    BY <1>4, <1>5, <2>1, SubsetRecursion, Zenon
<1>7. h \in [SUBSET Q -> Int] /\ h[{}] = 0
  BY <1>6 DEF IsFold
<1>8. \A s \in SUBSET Q : s # {} => h[s] = Size(g, Pick(s)) + h[s \ {Pick(s)}]
  <2> SUFFICES ASSUME NEW s \in SUBSET Q, s # {} PROVE h[s] = Size(g, Pick(s)) + h[s \ {Pick(s)}]
    OBVIOUS
  <2>1. Pick(s) \in Q /\ s \ {Pick(s)} \in SUBSET Q /\ c[s] = Pick(s)
    BY <1>2
  <2>2. F[<<Pick(s), h[s \ {Pick(s)}]>>] = Size(g, Pick(s)) + h[s \ {Pick(s)}]
    BY <1>7, <2>1 DEF F
  <2>3. QED
    BY <1>6, <2>1, <2>2 DEF IsFold
<1>9. Is(h)
  BY <1>7, <1>8
<1>10. Is(sum)
  BY <1>9, Zenon
<1> HIDE DEF sum
<1>11. /\ sum[{}] = 0
       /\ \A s \in SUBSET Q : s # {} => sum[s] = Size(g, Pick(s)) + sum[s \ {Pick(s)}]
  BY <1>10
<1> DEFINE T == {s \in SUBSET Q : sum[s] \in Int}
<1>12. SUBSET Q \subseteq T
  <2>1. ASSUME NEW s \in SUBSET Q, \A r \in SUBSET s : r # s => r \in T
        PROVE  s \in T
    <3>1. CASE s = {}
      BY <1>11, <3>1
    <3>2. CASE s # {}
      <4>1. Pick(s) \in s /\ Pick(s) \in Q /\ s \ {Pick(s)} \in SUBSET s /\ s \ {Pick(s)} # s
        BY <1>2, <3>2
      <4>2. sum[s \ {Pick(s)}] \in Int
        BY <2>1, <4>1
      <4>3. QED
        BY <1>3, <1>11, <3>2, <4>1, <4>2
    <3>3. QED
      BY <3>1, <3>2
  <2> HIDE DEF T
  <2>2. QED
    BY <2>1, SubsetInduction, Zenon
<1>13. sum = [s \in SUBSET Q |-> sum[s]]
  BY <1>10
<1>14. sum \in [SUBSET Q -> Int]
  BY <1>12, <1>13
<1>15. QED
  BY <1>1, <1>11, <1>14 DEF IsSum

\* The metadata of all groups takes as many blocks as the groups' own sizes add up to: none is shared.
LEMMA FixedCount ==
    ASSUME NEW g, IsGeometry(g), CopiesFit(g), NEW at, at = group(g, Clear(g)), TablesFit(g, at)
    PROVE  /\ Cardinality(Fixed(g, at)) =
                 Total(g, GroupsOf(g))
           /\ Fixed(g, at) \subseteq metadata_probe(g, at)
           /\ Fixed(g, at) \subseteq g.first_data_block .. g.blocks_count - 1
<1> DEFINE Q == GroupsOf(g)
           All(s) == UNION {Own(g, at, i) : i \in s}
<1>1. IsFiniteSet(Q)
  <2>1. PICK e \in Int : e = g.group_count - 1
    BY DEF IsGeometry
  <2>2. IsFiniteSet(0 .. e)
    BY FS_Interval
  <2>3. QED
    BY <2>1, <2>2 DEF GroupsOf
<1>2. PICK h : /\ IsSum(h, g, Q)
               /\ Total(g, Q) = h[Q]
  BY <1>1, SumUnfolds
<1>3. /\ h \in [SUBSET Q -> Int] /\ h[{}] = 0
      /\ \A s \in SUBSET Q : s # {} => h[s] = Size(g, Pick(s)) + h[s \ {Pick(s)}]
  BY <1>2 DEF IsSum
<1>4. \A i \in Q : /\ IsFiniteSet(Own(g, at, i)) /\ Cardinality(Own(g, at, i)) = Size(g, i) /\ Size(g, i) \in Int
                   /\ Own(g, at, i) \subseteq g.first_data_block .. g.blocks_count - 1
                   /\ Own(g, at, i) \subseteq metadata_probe(g, at)
  BY OwnBlocks, OverheadIs, ProbeKnows DEF OwnIs, Size, IsGeometry
<1>5. \A i, j \in Q : i # j => Own(g, at, i) \cap Own(g, at, j) = {}
  BY OwnersDiffer
<1> HIDE DEF Q
<1> DEFINE T == {s \in SUBSET Q : IsFiniteSet(All(s)) /\ h[s] = Cardinality(All(s))}
<1>6. ASSUME NEW s \in SUBSET Q, \A r \in SUBSET s : r # s => r \in T
      PROVE  s \in T
  <2>1. CASE s = {}
    <3>1. All(s) = {}
      BY <2>1
    <3>2. QED
      BY <1>3, <2>1, <3>1, FS_EmptySet
  <2>2. CASE s # {}
    <3> DEFINE x == Pick(s)
               rest == s \ {x}
    <3>1. x \in s /\ x \in Q
      BY <2>2 DEF Pick
    <3>2. rest \in SUBSET s /\ rest # s /\ rest \in SUBSET Q
      BY <3>1
    <3>3. h[s] = Size(g, x) + h[rest]
      BY <1>3, <2>2
    <3> HIDE DEF x, rest
    <3>4. IsFiniteSet(All(rest)) /\ h[rest] = Cardinality(All(rest))
      BY <1>6, <3>2
    <3>5. All(s) = Own(g, at, x) \cup All(rest)
      BY <3>1 DEF rest
    <3>6. Own(g, at, x) \cap All(rest) = {}
      <4>1. \A r \in rest : r \in Q /\ r # x
        BY <3>2 DEF rest
      <4>2. QED
        BY <1>5, <3>1, <4>1
    <3>7. IsFiniteSet(Own(g, at, x)) /\ Cardinality(Own(g, at, x)) = Size(g, x) /\ Size(g, x) \in Int
      BY <1>4, <3>1
    <3> HIDE DEF All
    <3>8. /\ IsFiniteSet(All(s))
          /\ Cardinality(All(s)) = Cardinality(Own(g, at, x)) + Cardinality(All(rest)) - Cardinality({})
      <4>1. PICK A, B : A = Own(g, at, x) /\ B = All(rest)
        OBVIOUS
      <4>2. IsFiniteSet(A) /\ IsFiniteSet(B) /\ A \cap B = {} /\ All(s) = A \cup B
        BY <3>4, <3>5, <3>6, <3>7, <4>1
      <4>3. IsFiniteSet(A \cup B) /\ Cardinality(A \cup B) = Cardinality(A) + Cardinality(B) - Cardinality(A \cap B)
        BY <4>2, FS_Union
      <4>4. QED
        BY <4>1, <4>2, <4>3
    <3>9. Cardinality({}) = 0 /\ Cardinality(All(rest)) \in Nat
      BY <3>4, FS_EmptySet, FS_CardinalityType
    <3>10. QED
      BY <3>3, <3>4, <3>7, <3>8, <3>9
  <2>3. QED
    BY <2>1, <2>2
<1>7. SUBSET Q \subseteq T
  <2> HIDE DEF T
  <2>1. QED
    BY <1>1, <1>6, SubsetInduction, Zenon
<1>8. Q \in T
  BY <1>7
<1>9. Fixed(g, at) = All(Q)
  BY DEF Fixed, Own, Q
<1>10. QED
  BY <1>2, <1>4, <1>8, <1>9 DEF Q

-----------------------------------------------------------------------------
(* Geometry::compute *)

\* What is assumed of the constants, one by one.
LEMMA Constants ==
    /\ BlockBits \in Nat \ {0} /\ DescPerBlock \in Nat \ {0} /\ InodesPerBlock \in Nat \ {0}
    /\ AddrPerBlock \in Nat \ {0} /\ MaxCount \in Nat \ {0} /\ ShrinkBy \in Nat \ {0}
    /\ Slack \in Nat /\ GrowBy \in Nat /\ MinShrink \in Nat /\ JournalFloor \in Nat /\ JournalSize \in Nat
    /\ MinShrink > ShrinkBy
    /\ MaxExtent \in Nat \ {0} /\ LostFound \in Nat \ {0}
    /\ NDIR \in Nat /\ InlineMax \in Nat /\ OrphanFloor \in Nat /\ OrphanBlocks \in Nat /\ OrphanMany \in Nat
  BY LayoutAssumption, FormatAssumption

\* What is assumed of the parameters.
IsParams(q) ==
    /\ q.first_data_block \in {0, 1} /\ q.blocks_per_inode \in Nat \ {0} /\ q.journal \in Nat \cup {NoJournal}
    /\ q.blocks \in Nat /\ q.blocks_per_group \in Nat /\ q.inodes_count \in Nat /\ q.flex_bg_size \in Nat
    /\ q.first_meta_bg \in Nat /\ q.concurrency \in Nat /\ q.chunk \in Nat

\* Every choice of parameters is one of these.
LEMMA ParamsAre ==
    ASSUME NEW q \in Params
    PROVE  IsParams(q)
  BY FormatAssumption DEF IsParams

\* A rounded quotient is a number.
LEMMA CeilType ==
    ASSUME NEW a \in Int, NEW b \in Nat \ {0}
    PROVE  div_ceil(a, b) \in Int
  BY DEF div_ceil

\* The inodes of a group and the blocks of its table.
LEMMA RoundedIs ==
    ASSUME NEW ipg \in Nat \ {0}
    PROVE  /\ Rounded(ipg) \in Nat \ {0} /\ div_ceil(Rounded(ipg), InodesPerBlock) \in Nat \ {0}
           /\ Rounded(ipg) <= div_ceil(Rounded(ipg), InodesPerBlock) * InodesPerBlock
<1>1. PICK x : x = div_ceil(ipg, InodesPerBlock) * InodesPerBlock
  OBVIOUS
<1>2. x \in Nat
  <2>1. PICK d, w : d = div_ceil(ipg, InodesPerBlock) /\ w = InodesPerBlock
    OBVIOUS
  <2>2. d \in Nat /\ w \in Nat
    BY <2>1, Constants, CeilIs
  <2>3. 0 * w <= d * w /\ 0 * w = 0 /\ d * w \in Int
    BY <2>2, TimesRises
  <2>4. QED
    BY <1>1, <2>1, <2>3
<1>3. PICK y : y = Max({x, 8})
  OBVIOUS
<1>4. y \in Nat /\ y >= 8
  BY <1>2, <1>3, MaxOfTwo
<1>5. Rounded(ipg) = (y \div 8) * 8
  BY <1>1, <1>3 DEF Rounded
<1>6. Rounded(ipg) \in Nat \ {0}
  BY <1>4, <1>5
<1>7. QED
  BY <1>6, Constants, CeilIs

\* Where the retries for fewer inodes end.
LEMMA RetryIs ==
    ASSUME NEW n \in Int, NEW groups
    PROVE  ipg_retry(n, groups) \in Nat
<1> DEFINE T == {0} \cup {k \in 1 .. n : Rounded(k) * groups <= MaxCount}
<1>1. PICK m \in Nat : m >= n
  <2>1. n \in Nat \/ n < 0
    OBVIOUS
  <2>2. QED
    BY <2>1
<1>2. T \subseteq 0 .. m /\ T # {}
  BY <1>1
<1>3. Max(T) \in T
  <2> HIDE DEF T
  <2>1. QED
    BY <1>2, MaxIs
<1>4. Max(T) \in 0 .. m
  <2> HIDE DEF T
  <2>1. QED
    BY <1>2, <1>3
<1>5. QED
  BY <1>4 DEF ipg_retry

\* A block holds a descriptor or more.
LEMMA DescPerBlockIs ==
    ASSUME NEW f
    PROVE  desc_per_block(f) \in Nat \ {0}
  BY Constants DEF desc_per_block

\* One turn of compute's loop that comes to an end, in numbers.
LEMMA TrialIs ==
    ASSUME NEW q \in Params, NEW n \in Nat, NEW w \in Nat \ {0}, q.first_data_block < n
    PROVE  LET t == Trial(q, n, w)
               dpb == desc_per_block(resolve_features(q))
           IN  /\ t.groups \in Nat \ {0}
               /\ (t.groups - 1) * w < n - q.first_data_block /\ n - q.first_data_block <= t.groups * w
               /\ t.desc_blocks = div_ceil(t.groups, dpb)
               /\ t.ipg \in Nat /\ t.reserved \in Nat
               /\ t.itable = div_ceil(Rounded(t.ipg), InodesPerBlock)
               /\ t.rem = (n - q.first_data_block) % w
               /\ t.overhead_last = 2 + t.itable + (IF has_super_for(t.groups - 1, resolve_features(q))
                                                    THEN 1 + t.desc_blocks + t.reserved ELSE 0)
<1>1. PICK t, f : t = Trial(q, n, w) /\ f = resolve_features(q)
  OBVIOUS
<1>2. PICK dpb : dpb = desc_per_block(f)
  OBVIOUS
<1>3. dpb \in Nat \ {0}
  BY <1>2, DescPerBlockIs
<1>4. IsParams(q)
  BY ParamsAre
<1>5. PICK a \in Nat \ {0} : a = n - q.first_data_block
  BY <1>4 DEF IsParams
<1>6. t.groups = div_ceil(a, w)
  BY <1>1, <1>5 DEF Trial, Groups
<1>7. t.groups \in Nat \ {0} /\ (t.groups - 1) * w < a /\ a <= t.groups * w
  BY <1>6, CeilIs
<1>8. t.desc_blocks = div_ceil(t.groups, dpb)
  BY <1>1, <1>2 DEF Trial
<1>9. t.ipg \in Nat
  <2>1. requested_inodes(q) \in Int
    <3>1. q.blocks \div q.blocks_per_inode \in Nat /\ q.inodes_count \in Int
      BY <1>4, DivIs DEF IsParams
    <3>2. Max({q.inodes_count, FIRST_INO + 1}) \in Int
      BY <3>1, MaxOfTwo DEF FIRST_INO
    <3>3. Max({q.blocks \div q.blocks_per_inode, 16}) \in Int
      BY <3>1, MaxOfTwo
    <3>4. Min({MaxCount, Max({q.blocks \div q.blocks_per_inode, 16})}) \in Int
      BY <3>3, Constants, MinOfTwo
    <3>5. QED
      BY <3>2, <3>4 DEF requested_inodes
  <2>2. Wanted(q, n, w) \in Int
    <3>1. Groups(q, n, w) = t.groups
      BY <1>1 DEF Trial
    <3>2. QED
      BY <1>7, <2>1, <3>1, CeilType DEF Wanted
  <2>3. Min({Wanted(q, n, w), 65536 - InodesPerBlock}) \in Int
    BY <2>2, Constants, MinOfTwo
  <2>4. t.ipg = ipg_retry(Min({Wanted(q, n, w), 65536 - InodesPerBlock}), t.groups)
    BY <1>1 DEF Trial
  <2>5. QED
    BY <2>3, <2>4, RetryIs
<1>10. t.reserved \in Nat
  <2>1. t.reserved = IF "resize_inode" \notin f THEN 0
                     ELSE calc_reserved_gdt_blocks(n, q.first_data_block, w, dpb, t.desc_blocks)
    BY <1>1, <1>2 DEF Trial
  <2>2. t.desc_blocks \in Int
    BY <1>3, <1>7, <1>8, CeilType
  <2>3. calc_reserved_gdt_blocks(n, q.first_data_block, w, dpb, t.desc_blocks) \in Nat
    <3>1. n * GrowBy \in Int /\ q.first_data_block \in Int
      BY <1>4, Constants DEF IsParams
    <3>2. Min({n * GrowBy, MaxCount}) \in Int
      BY <3>1, Constants, MinOfTwo
    <3>3. PICK r : r = div_ceil(Min({n * GrowBy, MaxCount}) - q.first_data_block, w)
      OBVIOUS
    <3>4. r \in Int
      BY <3>1, <3>2, <3>3, CeilType
    <3>5. div_ceil(r, dpb) - t.desc_blocks \in Int
      BY <1>3, <2>2, <3>4, CeilType
    <3>6. PICK e : e = Max({div_ceil(r, dpb) - t.desc_blocks, 0})
      OBVIOUS
    <3>7. e \in Nat
      BY <3>5, <3>6, MaxOfTwo
    <3>8. Min({e, AddrPerBlock}) \in Nat
      BY <3>7, Constants, MinOfTwo
    <3>9. QED
      BY <3>3, <3>6, <3>8 DEF calc_reserved_gdt_blocks
  <2>4. QED
    BY <2>1, <2>3
<1>11. t.itable = div_ceil(Rounded(t.ipg), InodesPerBlock)
  BY <1>1 DEF Trial
<1>12. t.rem = (n - q.first_data_block) % w
  BY <1>1 DEF Trial
<1>13. t.overhead_last = 2 + t.itable + (IF has_super_for(t.groups - 1, f) THEN 1 + t.desc_blocks + t.reserved ELSE 0)
  BY <1>1 DEF Trial
<1>14. QED
  BY <1>1, <1>2, <1>5, <1>7, <1>8, <1>9, <1>10, <1>11, <1>12, <1>13

\* What else a geometry settled on for parameters q and n blocks has.
IsSettled(g, q, n) ==
    /\ g.first_data_block = q.first_data_block /\ g.blocks_count = n
    /\ g.meta_bg \in BOOLEAN /\ (g.meta_bg => g.reserved_gdt = 0)
    /\ (g.desc_blocks - 1) * g.desc_per_block < g.group_count /\ g.group_count <= g.desc_blocks * g.desc_per_block
    /\ g.inodes_per_group \in Nat /\ g.inodes_per_group <= g.itable * InodesPerBlock
    /\ g.inodes_per_group >= FIRST_INO + (IF "orphan_file" \in g.features THEN 1 ELSE 0)

\* A geometry's features are those asked for, but for the ones named here.
LEMMA FeaturesAre ==
    ASSUME NEW q, NEW n, NEW w, NEW g, g = Geometry(q, n, w), NEW f, f = resolve_features(q)
    PROVE  /\ "sparse_super" \in g.features <=> "sparse_super" \in f
           /\ "flex_bg" \in f => "flex_bg" \in g.features
           /\ "orphan_file" \in g.features => "orphan_file" \in f
<1> DEFINE t == Trial(q, n, w)
           meta_bg == "meta_bg" \in f \/ t.reserved + t.desc_blocks > (w * 3) \div 4
           f2 == IF meta_bg THEN (f \cup {"meta_bg"}) \ {"resize_inode"} ELSE f
<1>1. g.features = IF q.journal = DefaultJournal /\ default_journal_blocks(n) = 0
                   THEN normalise(f2 \ {"has_journal"}) ELSE f2
  BY DEF Geometry
<1> HIDE DEF meta_bg
<1>2. /\ "sparse_super" \in f2 <=> "sparse_super" \in f
      /\ "flex_bg" \in f => "flex_bg" \in f2
      /\ "orphan_file" \in f2 => "orphan_file" \in f
  OBVIOUS
<1> HIDE DEF f2
<1>3. PICK h : h = f2 \ {"has_journal"}
  OBVIOUS
<1>4. /\ "sparse_super" \in h <=> "sparse_super" \in f
      /\ "flex_bg" \in f => "flex_bg" \in h
      /\ "orphan_file" \in h => "orphan_file" \in f
  BY <1>2, <1>3
<1>5. /\ "sparse_super" \in normalise(h) <=> "sparse_super" \in h
      /\ "flex_bg" \in h => "flex_bg" \in normalise(h)
      /\ "orphan_file" \in normalise(h) => "orphan_file" \in h
  BY DEF normalise
<1>6. QED
  BY <1>1, <1>2, <1>3, <1>4, <1>5

\* The fields of a geometry, from the trial.
LEMMA GeometryFields ==
    ASSUME NEW q, NEW n, NEW w, NEW g, g = Geometry(q, n, w), NEW t, t = Trial(q, n, w), NEW f, f = resolve_features(q)
    PROVE  /\ g.blocks_count = n /\ g.first_data_block = q.first_data_block /\ g.blocks_per_group = w
           /\ g.inodes_per_group = Rounded(t.ipg) /\ g.itable = t.itable /\ g.group_count = t.groups
           /\ g.desc_blocks = t.desc_blocks /\ g.desc_per_block = desc_per_block(f)
           /\ g.meta_bg \in BOOLEAN
           /\ ~g.meta_bg => ~(t.reserved + t.desc_blocks > (w * 3) \div 4)
           /\ g.reserved_gdt = IF g.meta_bg THEN 0 ELSE t.reserved
           /\ g.first_meta_bg = IF g.meta_bg THEN q.first_meta_bg ELSE 0
           /\ g.flex = IF "flex_bg" \in f THEN q.flex_bg_size ELSE 1
<1>1. g.meta_bg = ("meta_bg" \in f \/ t.reserved + t.desc_blocks > (w * 3) \div 4)
  BY DEF Geometry
<1>2. g.meta_bg \in BOOLEAN /\ (~g.meta_bg => ~(t.reserved + t.desc_blocks > (w * 3) \div 4))
  BY <1>1, Zenon
<1>3. g.reserved_gdt = IF g.meta_bg THEN 0 ELSE t.reserved
  BY DEF Geometry
<1>4. g.first_meta_bg = IF g.meta_bg THEN q.first_meta_bg ELSE 0
  BY DEF Geometry
<1>5. QED
  BY <1>2, <1>3, <1>4 DEF Geometry

\* The trial that compute ends with has blocks to divide and inodes to give.
LEMMA TrialStands ==
    ASSUME NEW q \in Params, NEW n \in Nat, NEW w \in Nat \ {0}, q.first_data_block <= n,
           ~Unplaceable(q, n, w), ~GroupsTooLarge(q, n, w)
    PROVE  q.first_data_block < n /\ Trial(q, n, w).ipg # 0
<1>1. Groups(q, n, w) # 0 /\ Trial(q, n, w).ipg # 0
  BY DEF Unplaceable
<1>2. q.first_data_block \in Nat
  BY ParamsAre DEF IsParams
<1>3. q.first_data_block # n
  <2> SUFFICES ASSUME q.first_data_block = n PROVE FALSE
    OBVIOUS
  <2>1. n - q.first_data_block = 0
    OBVIOUS
  <2>2. Groups(q, n, w) = (0 + w - 1) \div w
    BY <2>1 DEF Groups, div_ceil
  <2>3. PICK v \in Nat : v = 0 + w - 1
    OBVIOUS
  <2>4. 0 * w <= v /\ v < 0 * w + w
    BY <2>3
  <2>5. v \div w = 0
    BY <2>4, DivOf
  <2>6. QED
    BY <1>1, <2>2, <2>3, <2>5
<1>4. QED
  BY <1>1, <1>2, <1>3

\* What compute returns is a geometry.
LEMMA SettledGeometry ==
    ASSUME NEW q \in Params, NEW n \in Nat, NEW w \in Nat \ {0}, q.first_data_block <= n,
           ~Unplaceable(q, n, w), ~GroupsTooLarge(q, n, w), NEW g, g = Geometry(q, n, w), ~Refused(g, q)
    PROVE  IsGeometry(g) /\ IsSettled(g, q, n)
<1>1. PICK t, f : t = Trial(q, n, w) /\ f = resolve_features(q)
  OBVIOUS
<1>2. q.first_data_block < n /\ t.ipg # 0
  BY <1>1, TrialStands
<1>3. /\ t.groups \in Nat \ {0}
      /\ (t.groups - 1) * w < n - q.first_data_block /\ n - q.first_data_block <= t.groups * w
      /\ t.desc_blocks = div_ceil(t.groups, desc_per_block(f))
      /\ t.ipg \in Nat /\ t.reserved \in Nat
      /\ t.itable = div_ceil(Rounded(t.ipg), InodesPerBlock)
  BY <1>1, <1>2, TrialIs
<1>4. PICK dpb : dpb = desc_per_block(f)
  OBVIOUS
<1>5. dpb \in Nat \ {0}
  BY <1>4, DescPerBlockIs
<1>6. t.desc_blocks \in Nat \ {0} /\ (t.desc_blocks - 1) * dpb < t.groups /\ t.groups <= t.desc_blocks * dpb
  BY <1>3, <1>4, <1>5, CeilIs
<1>7. Rounded(t.ipg) \in Nat \ {0} /\ t.itable \in Nat \ {0} /\ Rounded(t.ipg) <= t.itable * InodesPerBlock
  BY <1>2, <1>3, RoundedIs
<1>8. /\ g.blocks_count = n /\ g.first_data_block = q.first_data_block /\ g.blocks_per_group = w
      /\ g.inodes_per_group = Rounded(t.ipg) /\ g.itable = t.itable /\ g.group_count = t.groups
      /\ g.desc_blocks = t.desc_blocks /\ g.desc_per_block = dpb
      /\ g.meta_bg \in BOOLEAN /\ g.reserved_gdt = IF g.meta_bg THEN 0 ELSE t.reserved
      /\ g.first_meta_bg = IF g.meta_bg THEN q.first_meta_bg ELSE 0
      /\ g.flex = IF "flex_bg" \in f THEN q.flex_bg_size ELSE 1
  BY <1>1, <1>4, GeometryFields
<1>9. /\ "flex_bg" \in f => "flex_bg" \in g.features
      /\ "orphan_file" \in g.features => "orphan_file" \in f
  BY <1>1, FeaturesAre
<1>10. IsParams(q)
  BY ParamsAre
<1>11. g.flex \in Nat \ {0}
  <2>1. CASE "flex_bg" \in f
    <3>1. is_power_of(q.flex_bg_size, 2)
      BY <1>9, <2>1 DEF Refused
    <3>2. q.flex_bg_size # 0
      BY <3>1 DEF is_power_of
    <3>3. QED
      BY <1>8, <1>10, <2>1, <3>2 DEF IsParams
  <2>2. CASE "flex_bg" \notin f
    BY <1>8, <2>2
  <2>3. QED
    BY <2>1, <2>2
<1>12. g.inodes_per_group >= FIRST_INO + (IF "orphan_file" \in g.features THEN 1 ELSE 0)
  <2>1. ~(g.inodes_per_group < FIRST_INO + (IF "orphan_file" \in f THEN 1 ELSE 0))
    BY <1>1 DEF Refused
  <2>2. QED
    BY <1>7, <1>8, <1>9, <2>1 DEF FIRST_INO
<1>13. IsGeometry(g)
  BY <1>3, <1>5, <1>6, <1>7, <1>8, <1>10, <1>11 DEF IsGeometry, IsParams
<1>14. IsSettled(g, q, n)
  BY <1>6, <1>7, <1>8, <1>12 DEF IsSettled
<1>15. QED
  BY <1>13, <1>14

\* Quotient and remainder.
LEMMA ModIs ==
    ASSUME NEW a \in Nat, NEW b \in Nat \ {0}
    PROVE  a % b = a - (a \div b) * b
  OBVIOUS

\* The remainder is the length of a last piece that is not whole.
LEMMA LastPiece ==
    ASSUME NEW a \in Nat, NEW w \in Nat \ {0}, NEW k \in Nat, k * w < a, a <= (k + 1) * w
    PROVE  a - k * w = IF a % w = 0 THEN w ELSE a % w
<1>1. k * w \in Int /\ (k + 1) * w = k * w + w
  BY TimesNext
<1>2. CASE a = k * w + w
  <2>1. (k + 1) * w <= a /\ a < (k + 1) * w + w /\ k + 1 \in Int
    BY <1>1, <1>2
  <2>2. a \div w = k + 1
    BY <2>1, DivOf
  <2>3. a % w = a - (k + 1) * w
    BY <2>2, ModIs
  <2>4. QED
    BY <1>1, <1>2, <2>3
<1>3. CASE a < k * w + w
  <2>1. a \div w = k
    BY <1>3, DivOf
  <2>2. a % w = a - k * w
    BY <2>1, ModIs
  <2>3. QED
    BY <1>1, <2>2
<1>4. QED
  BY <1>1, <1>2, <1>3

\* A superblock copy with its descriptors is within a whole group, and within a last one that compute
\* leaves standing; only a table kept whole beside meta block groups is not looked at.
LEMMA CopiesSettle ==
    ASSUME NEW q \in Params, NEW n \in Nat, NEW w \in Nat \ {0}, q.first_data_block <= n,
           ~Unplaceable(q, n, w), ~GroupsTooLarge(q, n, w), ~LastTooShort(q, n, w),
           NEW g, g = Geometry(q, n, w), ~Refused(g, q), g.first_meta_bg = 0 \/ g.desc_blocks < g.blocks_per_group
    PROVE  CopiesFit(g)
<1>1. PICK t, f : t = Trial(q, n, w) /\ f = resolve_features(q)
  OBVIOUS
<1>2. IsGeometry(g) /\ IsSettled(g, q, n)
  BY SettledGeometry
<1>3. q.first_data_block < n
  BY TrialStands
<1>4. /\ t.rem = (n - q.first_data_block) % w /\ t.reserved \in Nat
      /\ t.overhead_last = 2 + t.itable + (IF has_super_for(t.groups - 1, f)
                                           THEN 1 + t.desc_blocks + t.reserved ELSE 0)
  BY <1>1, <1>3, TrialIs
<1>5. /\ g.blocks_count = n /\ g.first_data_block = q.first_data_block /\ g.blocks_per_group = w
      /\ g.itable = t.itable /\ g.group_count = t.groups /\ g.desc_blocks = t.desc_blocks
      /\ ~g.meta_bg => ~(t.reserved + t.desc_blocks > (w * 3) \div 4)
      /\ g.reserved_gdt = IF g.meta_bg THEN 0 ELSE t.reserved
  BY <1>1, GeometryFields
<1>6. PICK D, r, it, k : D = g.desc_blocks /\ r = g.reserved_gdt /\ it = g.itable /\ k = g.group_count - 1
  OBVIOUS
<1>7. D \in Nat \ {0} /\ r \in Nat /\ r <= t.reserved /\ it \in Nat \ {0} /\ k \in Nat
  BY <1>2, <1>4, <1>5, <1>6 DEF IsGeometry
<1> SUFFICES ASSUME NEW i \in GroupsOf(g)
             PROVE  group_first_block(g, i) + super_overhead(g, i) - 1 <= group_last_block(g, i)
  BY DEF CopiesFit
<1>8. PICK o, a, z : o = super_overhead(g, i) /\ a = group_first_block(g, i) /\ z = group_last_block(g, i)
  OBVIOUS
<1>9. o \in Nat /\ a \in Nat /\ z \in Nat
  BY <1>2, <1>8, OverheadIs, GroupIs
<1>10. /\ Classic(g, i) => o = IF has_super(g, i) THEN 1 + D + r ELSE 0
       /\ ~Classic(g, i) => o <= (IF has_super(g, i) THEN 1 ELSE 0) + 1
  BY <1>6, <1>7, <1>8 DEF super_overhead, desc_blocks_in_group, group_has_desc
<1>11. o <= w
  <2>1. CASE ~g.meta_bg
    <3>1. Classic(g, i)
      BY <2>1 DEF Classic
    <3>2. r + D <= (w * 3) \div 4
      BY <1>4, <1>5, <1>6, <1>7, <2>1
    <3>3. (w * 3) \div 4 <= w - 1
      OBVIOUS
    <3>4. QED
      BY <1>7, <1>9, <1>10, <3>1, <3>2, <3>3
  <2>2. CASE g.meta_bg
    <3>1. w >= 5
      BY <1>2, <1>5, <1>6, <1>7, <2>2 DEF Refused
    <3>2. CASE ~Classic(g, i)
      BY <1>9, <1>10, <3>1, <3>2
    <3>3. CASE Classic(g, i)
      <4>1. g.first_meta_bg # 0
        <5>1. i \in Nat /\ g.desc_per_block \in Nat \ {0}
          BY <1>2, GroupIs DEF IsGeometry
        <5>2. i \div g.desc_per_block \in Nat
          BY <5>1, DivIs
        <5>3. i \div g.desc_per_block < g.first_meta_bg
          BY <2>2, <3>3 DEF Classic
        <5>4. QED
          BY <5>2, <5>3
      <4>2. D < w /\ r = 0
        BY <1>2, <1>5, <1>6, <2>2, <4>1 DEF IsSettled
      <4>3. QED
        BY <1>7, <1>9, <1>10, <3>3, <4>2
    <3>4. QED
      BY <3>2, <3>3
  <2>3. QED
    BY <1>2, <2>1, <2>2 DEF IsSettled
<1>12. CASE i < k
  <2>1. z = a + w - 1
    BY <1>2, <1>5, <1>6, <1>8, <1>12, GroupIs
  <2>2. QED
    BY <1>8, <1>9, <1>11, <2>1
<1>13. CASE i = k
  <2>1. z = n - 1
    BY <1>2, <1>5, <1>6, <1>8, <1>13, GroupIs
  <2>2. PICK s \in Nat : s = n - q.first_data_block
    BY <1>3, ParamsAre DEF IsParams
  <2>3. k * w < s /\ s <= (k + 1) * w
    <3>1. (g.group_count - 1) * w < s /\ s <= g.group_count * w /\ g.group_count = k + 1
      BY <1>2, <1>5, <1>6, <2>2 DEF IsGeometry
    <3>2. QED
      BY <1>6, <3>1
  <2>4. s - k * w = IF t.rem = 0 THEN w ELSE t.rem
    BY <1>4, <1>7, <2>2, <2>3, LastPiece
  <2>5. a = q.first_data_block + k * w /\ k * w \in Int /\ q.first_data_block \in Nat
    BY <1>5, <1>7, <1>8, <1>13, ParamsAre DEF group_first_block, IsParams
  <2>6. z - a + 1 = s - k * w
    BY <1>9, <2>1, <2>2, <2>5
  <2>7. o <= s - k * w
    <3>1. CASE t.rem = 0
      BY <1>11, <2>4, <3>1
    <3>2. CASE t.rem # 0
      <4>1. t.rem = s - k * w /\ s - k * w \in Int
        BY <2>4, <2>5, <3>2
      <4>2. ~(t.rem < t.overhead_last + Slack)
        BY <1>1, <3>2 DEF LastTooShort
      <4>3. has_super(g, i) <=> has_super_for(t.groups - 1, f)
        <5>1. "sparse_super" \in g.features <=> "sparse_super" \in f
          BY <1>1, FeaturesAre
        <5>2. i = t.groups - 1
          BY <1>5, <1>6, <1>13
        <5>3. QED
          BY <5>1, <5>2 DEF has_super, has_super_for
      <4>4. PICK h \in BOOLEAN : h = has_super_for(t.groups - 1, f)
        BY DEF has_super_for
      <4>5. t.overhead_last = 2 + it + IF h THEN 1 + D + t.reserved ELSE 0
        BY <1>4, <1>5, <1>6, <4>4
      <4>6. o <= 2 + it + IF h THEN 1 + D + t.reserved ELSE 0
        <5>1. CASE h
          BY <1>4, <1>7, <1>9, <1>10, <4>3, <4>4, <5>1
        <5>2. CASE ~h
          BY <1>7, <1>9, <1>10, <4>3, <4>4, <5>2
        <5>3. QED
          BY <5>1, <5>2
      <4>7. PICK e \in Nat : e = t.overhead_last
        BY <1>4, <1>7, <4>5
      <4>8. QED
        BY <1>9, <4>1, <4>2, <4>5, <4>6, <4>7, Constants
    <3>3. QED
      BY <3>1, <3>2
  <2>8. QED
    BY <1>8, <1>9, <2>2, <2>5, <2>6, <2>7
<1>14. QED
  <2>1. i < k \/ i = k
    BY <1>2, <1>6, <1>7 DEF GroupsOf, IsGeometry
  <2>2. QED
    BY <1>12, <1>13, <2>1

-----------------------------------------------------------------------------
(* plan *)

\* The blocks of a filesystem, and whether its files have extents.
Device(g) == g.first_data_block .. g.blocks_count - 1
HasExtents(g) == "extents" \in g.features

\* The stages up to each of the later ones.
UpToResize == {"root", "lost_found", "resize"}
UpToJournal == UpToResize \cup {"journal"}
UpToOrphan == UpToJournal \cup {"orphan"}
UpToMmp == UpToOrphan \cup {"mmp"}
UpToLeaves == UpToMmp \cup {"leaves"}

\* The fields of a Plan.
Fields == {"root", "lost_found", "dind", "mmp", "journal", "journal_extents", "journal_leaf", "journal_indirect",
           "orphan", "orphan_extents", "orphan_leaf", "orphan_indirect"}

\* What stage s finds in a plan: what was planned before it, and nothing else.
PlanShape(pl, s, ext) ==
    /\ DOMAIN pl = Fields
    /\ IF s = "root" THEN pl.root = 0 ELSE pl.root \in Nat \ {0}
    /\ IF s \in {"root", "lost_found"} THEN pl.lost_found = 0 ELSE pl.lost_found \in Nat \ {0}
    /\ pl.dind \in Nat /\ (s \in UpToResize => pl.dind = 0)
    /\ pl.mmp \in Nat /\ (s \in UpToMmp => pl.mmp = 0)
    /\ pl.journal \in Seq(Nat) /\ (s \in UpToJournal => pl.journal = << >>)
    /\ pl.orphan \in Seq(Nat) /\ (s \in UpToOrphan => pl.orphan = << >>)
    /\ s \in UpToJournal \/ ~ext => pl.journal_extents = << >>
    /\ s \in UpToOrphan \/ ~ext => pl.orphan_extents = << >>
    /\ s \in UpToJournal \/ ext => pl.journal_indirect = NoMap
    /\ s \in UpToOrphan \/ ext => pl.orphan_indirect = NoMap
    /\ IsFiniteSet(DOMAIN pl.journal_indirect.blocks) /\ IsFiniteSet(DOMAIN pl.orphan_indirect.blocks)
    /\ pl.journal_leaf \in Nat /\ (s \in UpToLeaves => pl.journal_leaf = 0)
    /\ pl.orphan_leaf \in Nat /\ (s \in UpToLeaves => pl.orphan_leaf = 0)

\* Everything in the plan is allocated.
PlanBlocks(pl, r) ==
    /\ {pl.root, pl.dind, pl.mmp, pl.journal_leaf, pl.orphan_leaf} \ {0} \subseteq r
    /\ pl.lost_found # 0 => (pl.lost_found .. pl.lost_found + LostFound - 1) \subseteq r
    /\ Range(pl.journal) \subseteq r /\ Range(pl.orphan) \subseteq r
    /\ NodeBlocks(pl.journal_indirect) \subseteq r /\ NodeBlocks(pl.orphan_indirect) \subseteq r

\* What a block that may be missing, and the map of a file, count for.
One(b) == IF b = 0 THEN 0 ELSE 1
Overhead(ext, leaf, map) == IF ext THEN One(leaf) ELSE Cardinality(DOMAIN map.blocks)

\* How much the plan takes.
PlanSize(pl, ext) ==
    One(pl.root) + (IF pl.lost_found = 0 THEN 0 ELSE LostFound) + One(pl.dind) + One(pl.mmp)
    + Len(pl.journal) + Overhead(ext, pl.journal_leaf, pl.journal_indirect)
    + Len(pl.orphan) + Overhead(ext, pl.orphan_leaf, pl.orphan_indirect)

\* Allocated blocks are free ones of the device ...
Allocated(g, m, r) == r \cap m = {} /\ r \subseteq Device(g) /\ IsFiniteSet(r)

\* ... and as many as the plan has use for.
Planned(g, m, r, pl, s) ==
    /\ Allocated(g, m, r)
    /\ PlanShape(pl, s, HasExtents(g)) /\ PlanBlocks(pl, r) /\ Cardinality(r) = PlanSize(pl, HasExtents(g))

\* The empty plan.
LEMMA NothingPlanned ==
    ASSUME NEW g, NEW m
    PROVE  Planned(g, m, {}, NoPlan, "root")
<1>1. DOMAIN NoMap.blocks = {} /\ NodeBlocks(NoMap) = {}
  BY DEF NoMap, NodeBlocks
<1>2. IsFiniteSet({}) /\ Cardinality({}) = 0
  BY FS_EmptySet
<1>3. DOMAIN NoPlan = Fields
  BY DEF NoPlan, Fields
<1>4. /\ NoPlan.root = 0 /\ NoPlan.lost_found = 0 /\ NoPlan.dind = 0 /\ NoPlan.mmp = 0
      /\ NoPlan.journal = << >> /\ NoPlan.journal_extents = << >> /\ NoPlan.journal_leaf = 0
      /\ NoPlan.orphan = << >> /\ NoPlan.orphan_extents = << >> /\ NoPlan.orphan_leaf = 0
      /\ NoPlan.journal_indirect = NoMap /\ NoPlan.orphan_indirect = NoMap
  BY DEF NoPlan
<1>5. PlanShape(NoPlan, "root", HasExtents(g))
  <2>1. << >> \in Seq(Nat) /\ 0 \in Nat
    OBVIOUS
  <2>2. IsFiniteSet(DOMAIN NoPlan.journal_indirect.blocks) /\ IsFiniteSet(DOMAIN NoPlan.orphan_indirect.blocks)
    BY <1>1, <1>2, <1>4
  <2> HIDE DEF NoPlan, NoMap
  <2>3. QED
    BY <1>3, <1>4, <2>1, <2>2, Zenon DEF PlanShape
<1>6. Range(<< >>) = {} /\ Len(<< >>) = 0
  BY DEF Range
<1>7. PlanBlocks(NoPlan, {})
  BY <1>1, <1>4, <1>6 DEF PlanBlocks
<1>8. Overhead(HasExtents(g), 0, NoMap) = 0 /\ One(0) = 0
  BY <1>1, <1>2 DEF Overhead, One
<1>9. PlanSize(NoPlan, HasExtents(g)) = 0
  BY <1>4, <1>6, <1>8 DEF PlanSize
<1>10. QED
  BY <1>2, <1>5, <1>7, <1>9 DEF Planned, Allocated

\* Every part of the plan's size is a number.
LEMMA SizesAre ==
    ASSUME NEW pl, NEW s, NEW ext, PlanShape(pl, s, ext)
    PROVE  /\ One(pl.root) \in Nat /\ (IF pl.lost_found = 0 THEN 0 ELSE LostFound) \in Nat
           /\ One(pl.dind) \in Nat /\ One(pl.mmp) \in Nat
           /\ Len(pl.journal) \in Nat /\ Overhead(ext, pl.journal_leaf, pl.journal_indirect) \in Nat
           /\ Len(pl.orphan) \in Nat /\ Overhead(ext, pl.orphan_leaf, pl.orphan_indirect) \in Nat
  BY Constants, FS_CardinalityType DEF PlanShape, One, Overhead

\* What is allocated stays allocated.
LEMMA MoreBlocks ==
    ASSUME NEW pl, NEW r, NEW s, r \subseteq s, PlanBlocks(pl, r)
    PROVE  PlanBlocks(pl, s)
  BY DEF PlanBlocks

\* A grant of free blocks adds to the count and takes nothing twice.
LEMMA GrantCounts ==
    ASSUME NEW g, NEW m, NEW r, Allocated(g, m, r), NEW got, IsFiniteSet(got), got \subseteq Left(g, m \cup r)
    PROVE  /\ Allocated(g, m, r \cup got)
           /\ Cardinality(r \cup got) = Cardinality(r) + Cardinality(got)
           /\ Cardinality(r) \in Nat /\ Cardinality(got) \in Nat
<1>1. r \cap got = {} /\ got \subseteq Device(g) /\ got \cap m = {}
  BY DEF Left, Device, Allocated
<1>2. /\ IsFiniteSet(r \cup got)
      /\ Cardinality(r \cup got) = Cardinality(r) + Cardinality(got) - Cardinality(r \cap got)
  BY FS_Union DEF Allocated
<1>3. Cardinality(r) \in Nat /\ Cardinality(got) \in Nat /\ Cardinality({}) = 0
  BY FS_CardinalityType, FS_EmptySet DEF Allocated
<1>4. Cardinality(r \cup got) = Cardinality(r) + Cardinality(got)
  <2>1. Cardinality(r \cap got) = 0
    BY <1>1, <1>3, Zenon
  <2>2. PICK a, b, c : a = Cardinality(r \cup got) /\ b = Cardinality(r) /\ c = Cardinality(got)
    OBVIOUS
  <2>3. a = b + c - 0 /\ b \in Nat /\ c \in Nat
    BY <1>2, <1>3, <2>1, <2>2, Zenon
  <2>4. QED
    BY <2>2, <2>3
<1>5. (r \cup got) \cap m = {} /\ r \cup got \subseteq Device(g)
  BY <1>1 DEF Allocated
<1>6. QED
  BY <1>2, <1>3, <1>4, <1>5 DEF Allocated

\* A plan that takes just what it was granted.
LEMMA PlanGrows ==
    ASSUME NEW g, NEW m, NEW r, NEW pl, NEW s, Planned(g, m, r, pl, s),
           NEW got, IsFiniteSet(got), got \subseteq Left(g, m \cup r),
           NEW q, NEW t, PlanShape(q, t, HasExtents(g)), PlanBlocks(q, r \cup got),
           PlanSize(q, HasExtents(g)) = PlanSize(pl, HasExtents(g)) + Cardinality(got)
    PROVE  Planned(g, m, r \cup got, q, t)
<1>1. Allocated(g, m, r)
  BY DEF Planned
<1>2. Allocated(g, m, r \cup got)
  BY <1>1, GrantCounts, Zenon
<1>3. Cardinality(r \cup got) = Cardinality(r) + Cardinality(got)
  BY <1>1, GrantCounts
<1>4. QED
  BY <1>2, <1>3, Zenon DEF Planned

\* The size of a plan, part by part.
PartsAre(pl, ext, ro, lf, di, mm, jn, jo, on, oo) ==
    /\ ro = One(pl.root) /\ lf = (IF pl.lost_found = 0 THEN 0 ELSE LostFound)
    /\ di = One(pl.dind) /\ mm = One(pl.mmp)
    /\ jn = Len(pl.journal) /\ jo = Overhead(ext, pl.journal_leaf, pl.journal_indirect)
    /\ on = Len(pl.orphan) /\ oo = Overhead(ext, pl.orphan_leaf, pl.orphan_indirect)

\* What the parts of a plan's size come to.
LEMMA SizeIs ==
    ASSUME NEW pl, NEW s, NEW ext, PlanShape(pl, s, ext),
           NEW ro, NEW lf, NEW di, NEW mm, NEW jn, NEW jo, NEW on, NEW oo,
           PartsAre(pl, ext, ro, lf, di, mm, jn, jo, on, oo)
    PROVE  /\ PlanSize(pl, ext) = ro + lf + di + mm + jn + jo + on + oo
           /\ ro \in Nat /\ lf \in Nat /\ di \in Nat /\ mm \in Nat
           /\ jn \in Nat /\ jo \in Nat /\ on \in Nat /\ oo \in Nat
<1>1. PlanSize(pl, ext) = ro + lf + di + mm + jn + jo + on + oo
  BY Zenon DEF PlanSize, PartsAre
<1>2. QED
  BY <1>1, SizesAre, Zenon DEF PartsAre

\* The root directory's block.
LEMMA RootPlanned ==
    ASSUME NEW g, NEW m, NEW r, NEW pl, Planned(g, m, r, pl, "root"), NEW b \in Nat \ {0}, {b} \subseteq Left(g, m \cup r)
    PROVE  Planned(g, m, r \cup {b}, [pl EXCEPT !.root = b], "lost_found")
<1>1. PICK q, ext : q = [pl EXCEPT !.root = b] /\ ext = HasExtents(g)
  OBVIOUS
<1>2. PlanShape(pl, "root", ext) /\ PlanBlocks(pl, r)
  BY <1>1 DEF Planned
<1>3. /\ DOMAIN q = Fields /\ q.root = b
      /\ q.lost_found = pl.lost_found /\ q.dind = pl.dind /\ q.mmp = pl.mmp /\ q.journal = pl.journal
      /\ q.journal_extents = pl.journal_extents /\ q.journal_leaf = pl.journal_leaf
      /\ q.journal_indirect = pl.journal_indirect /\ q.orphan = pl.orphan /\ q.orphan_extents = pl.orphan_extents
      /\ q.orphan_leaf = pl.orphan_leaf /\ q.orphan_indirect = pl.orphan_indirect
  BY <1>1, <1>2 DEF PlanShape, Fields
<1>4. PlanShape(q, "lost_found", ext)
  BY <1>2, <1>3 DEF PlanShape, UpToResize, UpToJournal, UpToOrphan, UpToMmp, UpToLeaves
<1>5. PlanBlocks(q, r \cup {b})
  BY <1>2, <1>3 DEF PlanBlocks
<1>6. PlanSize(q, ext) = PlanSize(pl, ext) + 1
  <2>1. One(pl.root) = 0 /\ One(b) = 1
    BY <1>2 DEF One, PlanShape
  <2>2. PICK lf, di, mm, jn, jo, on, oo : PartsAre(pl, ext, 0, lf, di, mm, jn, jo, on, oo)
    BY <2>1 DEF PartsAre
  <2>3. PartsAre(q, ext, 1, lf, di, mm, jn, jo, on, oo)
    BY <1>3, <2>1, <2>2 DEF PartsAre
  <2>4. /\ PlanSize(pl, ext) = 0 + lf + di + mm + jn + jo + on + oo
        /\ lf \in Nat /\ di \in Nat /\ mm \in Nat /\ jn \in Nat /\ jo \in Nat /\ on \in Nat /\ oo \in Nat
    BY <1>2, <2>2, SizeIs
  <2>5. PlanSize(q, ext) = 1 + lf + di + mm + jn + jo + on + oo
    BY <1>4, <2>3, SizeIs
  <2>6. QED
    BY <2>4, <2>5
<1>7. IsFiniteSet({b}) /\ Cardinality({b}) = 1
  BY FS_Singleton
<1>8. QED
  BY <1>1, <1>4, <1>5, <1>6, <1>7, PlanGrows

\* The blocks of lost+found.
LEMMA LostFoundPlanned ==
    ASSUME NEW g, NEW m, NEW r, NEW pl, Planned(g, m, r, pl, "lost_found"), NEW b \in Nat \ {0},
           (b .. b + LostFound - 1) \subseteq Left(g, m \cup r)
    PROVE  Planned(g, m, r \cup (b .. b + LostFound - 1), [pl EXCEPT !.lost_found = b], "resize")
<1>1. PICK q, ext : q = [pl EXCEPT !.lost_found = b] /\ ext = HasExtents(g)
  OBVIOUS
<1>2. PlanShape(pl, "lost_found", ext) /\ PlanBlocks(pl, r)
  BY <1>1 DEF Planned
<1>3. /\ DOMAIN q = Fields /\ q.lost_found = b
      /\ q.root = pl.root /\ q.dind = pl.dind /\ q.mmp = pl.mmp /\ q.journal = pl.journal
      /\ q.journal_extents = pl.journal_extents /\ q.journal_leaf = pl.journal_leaf
      /\ q.journal_indirect = pl.journal_indirect /\ q.orphan = pl.orphan
      /\ q.orphan_extents = pl.orphan_extents /\ q.orphan_leaf = pl.orphan_leaf
      /\ q.orphan_indirect = pl.orphan_indirect
  BY <1>1, <1>2 DEF PlanShape, Fields
<1>4. PlanShape(q, "resize", ext)
  BY <1>2, <1>3 DEF PlanShape, UpToResize, UpToJournal, UpToOrphan, UpToMmp, UpToLeaves
<1>5. PlanBlocks(q, r \cup (b .. b + LostFound - 1))
  BY <1>2, <1>3 DEF PlanBlocks
<1>6. PlanSize(q, ext) = PlanSize(pl, ext) + LostFound
  <2>1. pl.lost_found = 0
    BY <1>2 DEF PlanShape
  <2>2. PICK ro, di, mm, jn, jo, on, oo : PartsAre(pl, ext, ro, 0, di, mm, jn, jo, on, oo)
    BY <2>1 DEF PartsAre
  <2>3. PartsAre(q, ext, ro, LostFound, di, mm, jn, jo, on, oo)
    BY <1>3, <2>1, <2>2 DEF PartsAre
  <2>4. /\ PlanSize(pl, ext) = ro + 0 + di + mm + jn + jo + on + oo
        /\ ro \in Nat /\ di \in Nat /\ mm \in Nat /\ jn \in Nat /\ jo \in Nat /\ on \in Nat /\ oo \in Nat
    BY <1>2, <2>2, SizeIs
  <2>5. PlanSize(q, ext) = ro + LostFound + di + mm + jn + jo + on + oo
    BY <1>4, <2>3, SizeIs
  <2>6. QED
    BY <2>4, <2>5, Constants
<1>7. IsFiniteSet(b .. b + LostFound - 1) /\ Cardinality(b .. b + LostFound - 1) = LostFound
  <2>1. LostFound \in Nat \ {0}
    BY Constants
  <2>2. QED
    BY <2>1, FS_Interval
<1>8. QED
  BY <1>1, <1>4, <1>5, <1>6, <1>7, PlanGrows

\* The resize inode's double indirect block.
LEMMA ResizePlanned ==
    ASSUME NEW g, NEW m, NEW r, NEW pl, Planned(g, m, r, pl, "resize"), NEW b \in Nat \ {0}, {b} \subseteq Left(g, m \cup r)
    PROVE  Planned(g, m, r \cup {b}, [pl EXCEPT !.dind = b], "journal")
<1>1. PICK q, ext : q = [pl EXCEPT !.dind = b] /\ ext = HasExtents(g)
  OBVIOUS
<1>2. PlanShape(pl, "resize", ext) /\ PlanBlocks(pl, r)
  BY <1>1 DEF Planned
<1>3. /\ DOMAIN q = Fields /\ q.dind = b
      /\ q.root = pl.root /\ q.lost_found = pl.lost_found /\ q.mmp = pl.mmp /\ q.journal = pl.journal
      /\ q.journal_extents = pl.journal_extents /\ q.journal_leaf = pl.journal_leaf
      /\ q.journal_indirect = pl.journal_indirect /\ q.orphan = pl.orphan
      /\ q.orphan_extents = pl.orphan_extents /\ q.orphan_leaf = pl.orphan_leaf
      /\ q.orphan_indirect = pl.orphan_indirect
  BY <1>1, <1>2 DEF PlanShape, Fields
<1>4. PlanShape(q, "journal", ext)
  BY <1>2, <1>3 DEF PlanShape, UpToResize, UpToJournal, UpToOrphan, UpToMmp, UpToLeaves
<1>5. PlanBlocks(q, r \cup {b})
  BY <1>2, <1>3 DEF PlanBlocks
<1>6. PlanSize(q, ext) = PlanSize(pl, ext) + 1
  <2>1. One(pl.dind) = 0 /\ One(b) = 1
    BY <1>2 DEF One, PlanShape, UpToResize, UpToJournal, UpToOrphan, UpToMmp, UpToLeaves
  <2>2. PICK ro, lf, mm, jn, jo, on, oo : PartsAre(pl, ext, ro, lf, 0, mm, jn, jo, on, oo)
    BY <2>1 DEF PartsAre
  <2>3. PartsAre(q, ext, ro, lf, 1, mm, jn, jo, on, oo)
    BY <1>3, <2>1, <2>2 DEF PartsAre
  <2>4. /\ PlanSize(pl, ext) = ro + lf + 0 + mm + jn + jo + on + oo
        /\ ro \in Nat /\ lf \in Nat /\ mm \in Nat /\ jn \in Nat /\ jo \in Nat /\ on \in Nat /\ oo \in Nat
    BY <1>2, <2>2, SizeIs
  <2>5. PlanSize(q, ext) = ro + lf + 1 + mm + jn + jo + on + oo
    BY <1>4, <2>3, SizeIs
  <2>6. QED
    BY <2>4, <2>5
<1>7. IsFiniteSet({b}) /\ Cardinality({b}) = 1
  BY FS_Singleton
<1>8. QED
  BY <1>1, <1>4, <1>5, <1>6, <1>7, PlanGrows

\* The MMP block.
LEMMA MmpPlanned ==
    ASSUME NEW g, NEW m, NEW r, NEW pl, Planned(g, m, r, pl, "mmp"), NEW b \in Nat \ {0}, {b} \subseteq Left(g, m \cup r)
    PROVE  Planned(g, m, r \cup {b}, [pl EXCEPT !.mmp = b], "leaves")
<1>1. PICK q, ext : q = [pl EXCEPT !.mmp = b] /\ ext = HasExtents(g)
  OBVIOUS
<1>2. PlanShape(pl, "mmp", ext) /\ PlanBlocks(pl, r)
  BY <1>1 DEF Planned
<1>3. /\ DOMAIN q = Fields /\ q.mmp = b
      /\ q.root = pl.root /\ q.lost_found = pl.lost_found /\ q.dind = pl.dind /\ q.journal = pl.journal
      /\ q.journal_extents = pl.journal_extents /\ q.journal_leaf = pl.journal_leaf
      /\ q.journal_indirect = pl.journal_indirect /\ q.orphan = pl.orphan
      /\ q.orphan_extents = pl.orphan_extents /\ q.orphan_leaf = pl.orphan_leaf
      /\ q.orphan_indirect = pl.orphan_indirect
  BY <1>1, <1>2 DEF PlanShape, Fields
<1>4. PlanShape(q, "leaves", ext)
  BY <1>2, <1>3 DEF PlanShape, UpToResize, UpToJournal, UpToOrphan, UpToMmp, UpToLeaves
<1>5. PlanBlocks(q, r \cup {b})
  BY <1>2, <1>3 DEF PlanBlocks
<1>6. PlanSize(q, ext) = PlanSize(pl, ext) + 1
  <2>1. One(pl.mmp) = 0 /\ One(b) = 1
    BY <1>2 DEF One, PlanShape, UpToResize, UpToJournal, UpToOrphan, UpToMmp, UpToLeaves
  <2>2. PICK ro, lf, di, jn, jo, on, oo : PartsAre(pl, ext, ro, lf, di, 0, jn, jo, on, oo)
    BY <2>1 DEF PartsAre
  <2>3. PartsAre(q, ext, ro, lf, di, 1, jn, jo, on, oo)
    BY <1>3, <2>1, <2>2 DEF PartsAre
  <2>4. /\ PlanSize(pl, ext) = ro + lf + di + 0 + jn + jo + on + oo
        /\ ro \in Nat /\ lf \in Nat /\ di \in Nat /\ jn \in Nat /\ jo \in Nat /\ on \in Nat /\ oo \in Nat
    BY <1>2, <2>2, SizeIs
  <2>5. PlanSize(q, ext) = ro + lf + di + 1 + jn + jo + on + oo
    BY <1>4, <2>3, SizeIs
  <2>6. QED
    BY <2>4, <2>5
<1>7. IsFiniteSet({b}) /\ Cardinality({b}) = 1
  BY FS_Singleton
<1>8. QED
  BY <1>1, <1>4, <1>5, <1>6, <1>7, PlanGrows

\* A filesystem without a resize inode or MMP block plans none.
LEMMA PlanSkips ==
    ASSUME NEW g, NEW m, NEW r, NEW pl, NEW s, NEW t, Planned(g, m, r, pl, s), <<s, t>> \in {<<"resize", "journal">>, <<"mmp", "leaves">>}
    PROVE  Planned(g, m, r, pl, t)
<1>1. PlanShape(pl, t, HasExtents(g))
  BY DEF Planned, PlanShape, UpToResize, UpToJournal, UpToOrphan, UpToMmp, UpToLeaves
<1>2. QED
  BY <1>1, Zenon DEF Planned

\* Plan pl with blocks got for the journal in it.
WithJournal(pl, q, got, ext) ==
    /\ DOMAIN q = Fields /\ q.journal \in Seq(Nat) /\ Range(q.journal) \subseteq got
    /\ q.root = pl.root /\ q.lost_found = pl.lost_found /\ q.dind = pl.dind /\ q.mmp = pl.mmp
    /\ q.journal_leaf = pl.journal_leaf /\ q.orphan = pl.orphan
    /\ q.orphan_extents = pl.orphan_extents /\ q.orphan_leaf = pl.orphan_leaf
    /\ q.orphan_indirect = pl.orphan_indirect
    /\ ext => q.journal_indirect = pl.journal_indirect /\ Cardinality(got) = Len(q.journal)
    /\ ~ext => /\ q.journal_extents = pl.journal_extents /\ NodeBlocks(q.journal_indirect) \subseteq got
                /\ IsFiniteSet(DOMAIN q.journal_indirect.blocks)
                /\ Cardinality(got) = Len(q.journal) + Cardinality(DOMAIN q.journal_indirect.blocks)

\* The journal, with the indirect blocks that map it where there are no extents.
LEMMA JournalPlanned ==
    ASSUME NEW g, NEW m, NEW r, NEW pl, Planned(g, m, r, pl, "journal"), NEW got, IsFiniteSet(got), got \subseteq Left(g, m \cup r),
           NEW q, NEW ext, ext = HasExtents(g), WithJournal(pl, q, got, ext)
    PROVE  Planned(g, m, r \cup got, q, "orphan")
<1> USE DEF WithJournal
<1>1. PlanShape(pl, "journal", ext) /\ PlanBlocks(pl, r) /\ ext \in BOOLEAN
  BY DEF Planned, HasExtents
<1>2. pl.journal_indirect = NoMap /\ pl.journal_extents = << >> /\ pl.journal = << >> /\ pl.journal_leaf = 0
  BY <1>1 DEF PlanShape, UpToResize, UpToJournal, UpToOrphan, UpToMmp, UpToLeaves
<1>3. DOMAIN NoMap.blocks = {} /\ NodeBlocks(NoMap) = {} /\ Cardinality({}) = 0 /\ IsFiniteSet({})
  BY FS_EmptySet DEF NoMap, NodeBlocks
<1>4. PlanShape(q, "orphan", ext)
  <2>1. IsFiniteSet(DOMAIN q.journal_indirect.blocks)
    BY <1>1, <1>2, <1>3
  <2>2. QED
    BY <1>1, <1>2, <2>1 DEF PlanShape, UpToResize, UpToJournal, UpToOrphan, UpToMmp, UpToLeaves
<1>5. PlanBlocks(q, r \cup got)
  <2>1. NodeBlocks(q.journal_indirect) \subseteq got
    BY <1>1, <1>2, <1>3
  <2>2. QED
    BY <1>1, <2>1 DEF PlanBlocks
<1>6. PlanSize(q, ext) = PlanSize(pl, ext) + Cardinality(got)
  <2>1. Len(pl.journal) = 0 /\ Overhead(ext, pl.journal_leaf, pl.journal_indirect) = 0
    BY <1>1, <1>2, <1>3 DEF Overhead, One
  <2>2. PICK n, v : n = Len(q.journal) /\ v = Overhead(ext, q.journal_leaf, q.journal_indirect)
    OBVIOUS
  <2>3. n \in Nat /\ v \in Nat /\ Cardinality(got) = n + v
    BY <1>1, <1>2, <2>2, FS_CardinalityType DEF Overhead, One
  <2>5. PICK ro, lf, di, mm, on, oo : PartsAre(pl, ext, ro, lf, di, mm, 0, 0, on, oo)
    BY <2>1 DEF PartsAre
  <2>6. PartsAre(q, ext, ro, lf, di, mm, n, v, on, oo)
    BY <2>2, <2>5 DEF PartsAre
  <2>7. /\ PlanSize(pl, ext) = ro + lf + di + mm + 0 + 0 + on + oo
        /\ ro \in Nat /\ lf \in Nat /\ di \in Nat /\ mm \in Nat /\ on \in Nat /\ oo \in Nat
    BY <1>1, <2>5, SizeIs
  <2>8. PlanSize(q, ext) = ro + lf + di + mm + n + v + on + oo
    BY <1>4, <2>6, SizeIs
  <2>9. QED
    BY <2>3, <2>7, <2>8
<1>7. QED
  BY <1>4, <1>5, <1>6, PlanGrows

\* Plan pl with blocks got for the orphan file in it.
WithOrphan(pl, q, got, ext) ==
    /\ DOMAIN q = Fields /\ q.orphan \in Seq(Nat) /\ Range(q.orphan) \subseteq got
    /\ q.root = pl.root /\ q.lost_found = pl.lost_found /\ q.dind = pl.dind /\ q.mmp = pl.mmp
    /\ q.journal = pl.journal /\ q.journal_extents = pl.journal_extents
    /\ q.journal_leaf = pl.journal_leaf /\ q.journal_indirect = pl.journal_indirect
    /\ q.orphan_leaf = pl.orphan_leaf
    /\ ext => q.orphan_indirect = pl.orphan_indirect /\ Cardinality(got) = Len(q.orphan)
    /\ ~ext => /\ q.orphan_extents = pl.orphan_extents /\ NodeBlocks(q.orphan_indirect) \subseteq got
                /\ IsFiniteSet(DOMAIN q.orphan_indirect.blocks)
                /\ Cardinality(got) = Len(q.orphan) + Cardinality(DOMAIN q.orphan_indirect.blocks)

\* The orphan file, likewise.
LEMMA OrphanPlanned ==
    ASSUME NEW g, NEW m, NEW r, NEW pl, Planned(g, m, r, pl, "orphan"), NEW got, IsFiniteSet(got), got \subseteq Left(g, m \cup r),
           NEW q, NEW ext, ext = HasExtents(g), WithOrphan(pl, q, got, ext)
    PROVE  Planned(g, m, r \cup got, q, "mmp")
<1> USE DEF WithOrphan
<1>1. PlanShape(pl, "orphan", ext) /\ PlanBlocks(pl, r) /\ ext \in BOOLEAN
  BY DEF Planned, HasExtents
<1>2. pl.orphan_indirect = NoMap /\ pl.orphan_extents = << >> /\ pl.orphan = << >> /\ pl.orphan_leaf = 0
  BY <1>1 DEF PlanShape, UpToResize, UpToJournal, UpToOrphan, UpToMmp, UpToLeaves
<1>3. DOMAIN NoMap.blocks = {} /\ NodeBlocks(NoMap) = {} /\ Cardinality({}) = 0 /\ IsFiniteSet({})
  BY FS_EmptySet DEF NoMap, NodeBlocks
<1>4. PlanShape(q, "mmp", ext)
  <2>1. IsFiniteSet(DOMAIN q.orphan_indirect.blocks)
    BY <1>1, <1>2, <1>3
  <2>2. QED
    BY <1>1, <1>2, <2>1 DEF PlanShape, UpToResize, UpToJournal, UpToOrphan, UpToMmp, UpToLeaves
<1>5. PlanBlocks(q, r \cup got)
  <2>1. NodeBlocks(q.orphan_indirect) \subseteq got
    BY <1>1, <1>2, <1>3
  <2>2. QED
    BY <1>1, <2>1 DEF PlanBlocks
<1>6. PlanSize(q, ext) = PlanSize(pl, ext) + Cardinality(got)
  <2>1. Len(pl.orphan) = 0 /\ Overhead(ext, pl.orphan_leaf, pl.orphan_indirect) = 0
    BY <1>1, <1>2, <1>3 DEF Overhead, One
  <2>2. PICK n, v : n = Len(q.orphan) /\ v = Overhead(ext, q.orphan_leaf, q.orphan_indirect)
    OBVIOUS
  <2>3. n \in Nat /\ v \in Nat /\ Cardinality(got) = n + v
    BY <1>1, <1>2, <2>2, FS_CardinalityType DEF Overhead, One
  <2>5. PICK ro, lf, di, mm, jn, jo : PartsAre(pl, ext, ro, lf, di, mm, jn, jo, 0, 0)
    BY <2>1 DEF PartsAre
  <2>6. PartsAre(q, ext, ro, lf, di, mm, jn, jo, n, v)
    BY <2>2, <2>5 DEF PartsAre
  <2>7. /\ PlanSize(pl, ext) = ro + lf + di + mm + jn + jo + 0 + 0
        /\ ro \in Nat /\ lf \in Nat /\ di \in Nat /\ mm \in Nat /\ jn \in Nat /\ jo \in Nat
    BY <1>1, <2>5, SizeIs
  <2>8. PlanSize(q, ext) = ro + lf + di + mm + jn + jo + n + v
    BY <1>4, <2>6, SizeIs
  <2>9. QED
    BY <2>3, <2>7, <2>8
<1>7. QED
  BY <1>4, <1>5, <1>6, PlanGrows

-----------------------------------------------------------------------------
(* The files' maps *)

\* A map has finitely many nodes, each over a block of the file.
LEMMA NodesAre ==
    ASSUME NEW n \in Nat
    PROVE  /\ IsFiniteSet(MapNodes(n)) /\ Cardinality(MapNodes(n)) \in Nat
           /\ \A x \in MapNodes(n) : x.base \in Nat /\ x.base < n /\ x.height \in Nat
<1> DEFINE A == 1 .. 3
           B == NDIR .. n - 1
           R0 == [height : A, base : B]
           f == [t \in A \X B |-> [height |-> t[1], base |-> t[2]]]
<1>1. IsFiniteSet(A \X B)
  <2>1. NDIR \in Int /\ n - 1 \in Int /\ 1 \in Int /\ 3 \in Int
    BY Constants
  <2>2. IsFiniteSet(A)
    BY <2>1, FS_Interval
  <2>3. IsFiniteSet(B)
    BY <2>1, FS_Interval
  <2>4. QED
    BY <2>2, <2>3, FS_Product
<1>2. f \in Surjection(A \X B, R0)
  <2>1. f \in [A \X B -> R0]
    OBVIOUS
  <2>2. ASSUME NEW x \in R0 PROVE \E t \in A \X B : f[t] = x
    <3>1. x.height \in A /\ x.base \in B /\ x = [height |-> x.height, base |-> x.base]
      OBVIOUS
    <3>2. <<x.height, x.base>> \in A \X B
      BY <3>1
    <3>3. f[<<x.height, x.base>>] = x
      BY <3>1, <3>2
    <3>4. QED
      BY <3>2, <3>3
  <2> HIDE DEF f, A, B, R0
  <2>3. QED
    BY <2>1, <2>2 DEF Surjection
<1>3. IsFiniteSet(R0)
  <2> HIDE DEF f, A, B, R0
  <2>1. QED
    BY <1>1, <1>2, FS_Surjection
<1>4. MapNodes(n) \in SUBSET R0
  BY DEF MapNodes
<1>5. \A x \in R0 : x.base \in Nat /\ x.base < n /\ x.height \in Nat
  BY Constants
<1> HIDE DEF R0
<1>6. IsFiniteSet(MapNodes(n))
  BY <1>3, <1>4, FS_Subset
<1>7. QED
  BY <1>4, <1>5, <1>6, FS_CardinalityType

\* As many nodes at most come before a block or a node as there are.
LEMMA NodesBefore ==
    ASSUME NEW n \in Nat, NEW T, T \subseteq MapNodes(n)
    PROVE  /\ Cardinality(T) \in Nat /\ Cardinality(T) <= Cardinality(MapNodes(n))
           /\ (\E x \in MapNodes(n) : x \notin T) => Cardinality(T) < Cardinality(MapNodes(n))
<1>1. IsFiniteSet(MapNodes(n)) /\ Cardinality(MapNodes(n)) \in Nat
  BY NodesAre
<1>2. /\ IsFiniteSet(T) /\ Cardinality(T) <= Cardinality(MapNodes(n))
      /\ Cardinality(MapNodes(n)) = Cardinality(T) => MapNodes(n) = T
  BY <1>1, FS_Subset
<1>3. Cardinality(T) \in Nat
  BY <1>2, FS_CardinalityType
<1>4. ASSUME \E x \in MapNodes(n) : x \notin T PROVE Cardinality(T) # Cardinality(MapNodes(n))
  BY <1>2, <1>4
<1>5. QED
  BY <1>1, <1>2, <1>3, <1>4

\* alloc_indirect_file maps the journal onto blocks it was granted, one for each block and each node.
LEMMA JournalMapped ==
    ASSUME NEW n \in Nat, NEW got, NEW S, Granted(got, n + Cardinality(MapNodes(n)), S), 0 \notin Range(got),
           NEW file, file = [i \in 1 .. n |-> got[i + Cardinality({y \in MapNodes(n) : y.base < i})]],
           NEW map, map = alloc_indirect_file(got, n)
    PROVE  /\ file \in Seq(Nat) /\ Len(file) = n /\ Range(file) \subseteq Range(got)
           /\ DOMAIN map.blocks = MapNodes(n) /\ NodeBlocks(map) \subseteq Range(got)
<1>1. PICK c : c = Cardinality(MapNodes(n))
  OBVIOUS
<1>2. c \in Nat /\ n + c \in Nat
  BY <1>1, NodesAre
<1>3. \A k \in 1 .. n + c : got[k] \in Nat /\ got[k] \in Range(got)
  BY <1>1, <1>2 DEF Granted, Range
<1>4. ASSUME NEW i \in 1 .. n PROVE i + Cardinality({y \in MapNodes(n) : y.base < i}) \in 1 .. n + c
  <2>1. PICK k : k = Cardinality({y \in MapNodes(n) : y.base < i})
    OBVIOUS
  <2>2. k \in Nat /\ k <= c
    BY <1>1, <2>1, NodesBefore
  <2>3. QED
    BY <1>2, <2>1, <2>2
<1>5. ASSUME NEW i \in 1 .. n PROVE file[i] \in Nat /\ file[i] \in Range(got)
  BY <1>3, <1>4
<1>6. file \in [1 .. n -> Nat] /\ DOMAIN file = 1 .. n
  BY <1>5
<1>7. file \in Seq(Nat) /\ Len(file) = n
  BY <1>6
<1>8. Range(file) \subseteq Range(got)
  BY <1>5, <1>6 DEF Range
<1>9. ASSUME NEW x \in MapNodes(n) PROVE got[x.base + Before(x, n) + 1] \in Range(got)
  <2>1. PICK k : k = Before(x, n)
    OBVIOUS
  <2>2. k \in Nat /\ k <= c
    BY <1>1, <2>1, NodesBefore DEF Before
  <2>3. x.base \in Nat /\ x.base < n
    BY NodesAre
  <2>4. x.base + k + 1 \in 1 .. n + c
    BY <1>2, <2>2, <2>3
  <2>5. QED
    BY <1>3, <2>1, <2>4
<1>10. /\ DOMAIN map.blocks = MapNodes(n)
       /\ \A x \in MapNodes(n) : map.blocks[x].at = got[x.base + Before(x, n) + 1]
  BY DEF alloc_indirect_file, IndirectMap
<1>11. NodeBlocks(map) \subseteq Range(got)
  BY <1>9, <1>10 DEF NodeBlocks
<1>12. QED
  BY <1>7, <1>8, <1>10, <1>11

\* build_indirect puts the orphan file's nodes on blocks granted for them.
LEMMA OrphanMapped ==
    ASSUME NEW file, file \in Seq(Nat), NEW got, NEW S, Granted(got, Cardinality(MapNodes(Len(file))), S),
           0 \notin Range(got), NEW map, map = build_indirect(file, got)
    PROVE  DOMAIN map.blocks = MapNodes(Len(file)) /\ NodeBlocks(map) \subseteq Range(got)
<1>1. PICK n, c : n = Len(file) /\ c = Cardinality(MapNodes(n))
  OBVIOUS
<1>2. n \in Nat /\ c \in Nat
  BY <1>1, NodesAre
<1>3. \A k \in 1 .. c : got[k] \in Range(got)
  <2>1. got \in Seq(Nat) /\ Len(got) = c
    BY <1>1 DEF Granted
  <2>2. DOMAIN got = 1 .. c
    BY <1>2, <2>1
  <2>3. QED
    BY <2>2 DEF Range
<1>4. ASSUME NEW x \in MapNodes(n) PROVE got[Before(x, n) + 1] \in Range(got)
  <2>1. PICK T : T = {y \in MapNodes(n) : y.base < x.base \/ (y.base = x.base /\ y.height > x.height)}
    OBVIOUS
  <2>2. x.base \in Nat /\ x.height \in Nat
    BY <1>2, NodesAre
  <2>3. T \subseteq MapNodes(n) /\ x \notin T
    BY <2>1, <2>2
  <2>4. Cardinality(T) \in Nat /\ Cardinality(T) < c
    BY <1>1, <1>2, <2>3, NodesBefore
  <2>5. Before(x, n) = Cardinality(T)
    BY <2>1 DEF Before
  <2>6. QED
    BY <1>2, <1>3, <2>4, <2>5
<1>5. /\ DOMAIN map.blocks = MapNodes(n)
      /\ \A x \in MapNodes(n) : map.blocks[x].at = got[Before(x, n) + 1]
  BY <1>1 DEF build_indirect, IndirectMap
<1>6. QED
  BY <1>1, <1>4, <1>5 DEF NodeBlocks

-----------------------------------------------------------------------------
(* The last of the plan *)

\* A block, or none.
LeafSet(b) == IF b = 0 THEN {} ELSE {b}

\* Two leaf blocks that differ are as many as they seem.
LEMMA LeafCount ==
    ASSUME NEW a \in Nat, NEW b \in Nat, a = b => a = 0
    PROVE  /\ IsFiniteSet(LeafSet(a) \cup LeafSet(b))
           /\ Cardinality(LeafSet(a) \cup LeafSet(b)) = One(a) + One(b)
<1>1. ASSUME NEW x PROVE IsFiniteSet({x}) /\ Cardinality({x}) = 1
  BY FS_Singleton
<1>2. IsFiniteSet({}) /\ Cardinality({}) = 0
  BY FS_EmptySet
<1>3. CASE a = 0 /\ b = 0
  <2>1. LeafSet(a) \cup LeafSet(b) = {} /\ One(a) = 0 /\ One(b) = 0
    BY <1>3 DEF LeafSet, One
  <2>2. QED
    BY <1>2, <2>1
<1>4. CASE a = 0 /\ b # 0
  <2>1. LeafSet(a) \cup LeafSet(b) = {b} /\ One(a) = 0 /\ One(b) = 1
    BY <1>4 DEF LeafSet, One
  <2>2. QED
    BY <1>1, <2>1
<1>5. CASE a # 0 /\ b = 0
  <2>1. LeafSet(a) \cup LeafSet(b) = {a} /\ One(a) = 1 /\ One(b) = 0
    BY <1>5 DEF LeafSet, One
  <2>2. QED
    BY <1>1, <2>1
<1>6. CASE a # 0 /\ b # 0
  <2>1. LeafSet(a) \cup LeafSet(b) = {a} \cup {b} /\ One(a) = 1 /\ One(b) = 1 /\ b \notin {a}
    BY <1>6 DEF LeafSet, One
  <2>2. IsFiniteSet({a} \cup {b}) /\ Cardinality({a} \cup {b}) = Cardinality({a}) + 1
    BY <1>1, <2>1, FS_AddElement
  <2>3. QED
    BY <1>1, <2>1, <2>2
<1>7. QED
  BY <1>3, <1>4, <1>5, <1>6

\* The leaf blocks of files with many extents.
LEMMA LeavesPlanned ==
    ASSUME NEW g, NEW m, NEW r, NEW pl, Planned(g, m, r, pl, "leaves"), NEW jl \in Nat, NEW ol \in Nat,
           LeafSet(jl) \cup LeafSet(ol) \subseteq Left(g, m \cup r), jl = ol => jl = 0,
           ~HasExtents(g) => jl = 0 /\ ol = 0
    PROVE  Planned(g, m, r \cup (LeafSet(jl) \cup LeafSet(ol)), [pl EXCEPT !.journal_leaf = jl, !.orphan_leaf = ol], "boot")
<1>1. PICK q, ext, got : /\ q = [pl EXCEPT !.journal_leaf = jl, !.orphan_leaf = ol] /\ ext = HasExtents(g)
                          /\ got = LeafSet(jl) \cup LeafSet(ol)
  OBVIOUS
<1>2. PlanShape(pl, "leaves", ext) /\ PlanBlocks(pl, r)
  BY <1>1 DEF Planned
<1>3. /\ DOMAIN q = Fields /\ q.journal_leaf = jl /\ q.orphan_leaf = ol
      /\ q.root = pl.root /\ q.lost_found = pl.lost_found /\ q.dind = pl.dind /\ q.mmp = pl.mmp
      /\ q.journal = pl.journal /\ q.journal_extents = pl.journal_extents
      /\ q.journal_indirect = pl.journal_indirect /\ q.orphan = pl.orphan
      /\ q.orphan_extents = pl.orphan_extents /\ q.orphan_indirect = pl.orphan_indirect
  BY <1>1, <1>2 DEF PlanShape, Fields
<1>4. PlanShape(q, "boot", ext)
  BY <1>2, <1>3 DEF PlanShape, UpToResize, UpToJournal, UpToOrphan, UpToMmp, UpToLeaves
<1>5. PlanBlocks(q, r \cup got)
  <2>1. {jl, ol} \ {0} \subseteq got
    BY <1>1 DEF LeafSet
  <2>2. QED
    BY <1>2, <1>3, <2>1 DEF PlanBlocks
<1>6. IsFiniteSet(got) /\ Cardinality(got) = One(jl) + One(ol)
  BY <1>1, LeafCount
<1>7. PlanSize(q, ext) = PlanSize(pl, ext) + Cardinality(got)
  <2>1. PICK ro, lf, di, mm, jn, jo, on, oo : PartsAre(pl, ext, ro, lf, di, mm, jn, jo, on, oo)
    BY DEF PartsAre
  <2>2. PICK j, o : j = One(jl) /\ o = One(ol)
    OBVIOUS
  <2>3. jo + j = Overhead(ext, jl, q.journal_indirect) /\ oo + o = Overhead(ext, ol, q.orphan_indirect)
    <3>1. pl.journal_leaf = 0 /\ pl.orphan_leaf = 0
      BY <1>2 DEF PlanShape, UpToResize, UpToJournal, UpToOrphan, UpToMmp, UpToLeaves
    <3>2. jo = Overhead(ext, 0, pl.journal_indirect) /\ oo = Overhead(ext, 0, pl.orphan_indirect)
      BY <2>1, <3>1 DEF PartsAre
    <3>3. jo \in Nat /\ oo \in Nat
      BY <1>2, <2>1, SizeIs
    <3>4. CASE ext
      BY <1>3, <2>2, <3>2, <3>4 DEF Overhead, One
    <3>5. CASE ~ext
      <4>1. j = 0 /\ o = 0
        BY <1>1, <2>2, <3>5 DEF One
      <4>2. QED
        BY <1>3, <3>2, <3>3, <3>5, <4>1 DEF Overhead
    <3>6. QED
      BY <3>4, <3>5
  <2>4. PartsAre(q, ext, ro, lf, di, mm, jn, jo + j, on, oo + o)
    BY <1>3, <2>1, <2>3 DEF PartsAre
  <2>5. /\ PlanSize(pl, ext) = ro + lf + di + mm + jn + jo + on + oo
        /\ ro \in Nat /\ lf \in Nat /\ di \in Nat /\ mm \in Nat /\ jn \in Nat /\ jo \in Nat /\ on \in Nat /\ oo \in Nat
    BY <1>2, <2>1, SizeIs
  <2>6. PlanSize(q, ext) = ro + lf + di + mm + jn + (jo + j) + on + (oo + o)
    BY <1>4, <2>4, SizeIs
  <2>7. j \in Nat /\ o \in Nat /\ Cardinality(got) = j + o
    BY <1>6, <2>2 DEF One
  <2>8. QED
    BY <2>5, <2>6, <2>7
<1>8. QED
  BY <1>1, <1>4, <1>5, <1>6, <1>7, PlanGrows

-----------------------------------------------------------------------------
(* The search *)

\* A geometry stands from the first allocation on, unless the format is refused.
Laid == Stages \ {"features", "compute", "refused"}

\* What compute does not look at: that the tables of every flex group end in it (placement is validated
\* for the last group alone), and that a table kept whole beside meta block groups fits a group.
HasRoom(g, at) == (g.first_meta_bg = 0 \/ g.desc_blocks < g.blocks_per_group) /\ TablesFit(g, at)

\* The hypothesis of the theorems: a geometry that stands has that room.
Roomy == pc \in Laid => HasRoom(geom, places)

\* The search stays within the device, and never tries a group of no blocks.
SearchInv ==
    /\ p \in Params /\ pc \in Stages
    /\ blocks \in Nat /\ blocks <= p.blocks /\ bpg \in Nat \ {0}
    /\ pc = "features" => blocks = p.blocks
    /\ pc = "compute" => p.first_data_block <= blocks

\* The geometry, where it puts things, and what the allocator is told of it.
Settled(g, at, taken0, q) ==
    /\ IsGeometry(g) /\ IsSettled(g, q, g.blocks_count) /\ g.blocks_count <= q.blocks
    /\ at = group(g, Clear(g)) /\ taken0 = metadata_probe(g, at)
    /\ HasRoom(g, at) => CopiesFit(g)

\* The first part of the invariant: the search, and what it settled on.
GeoInv == SearchInv /\ (pc \in Laid => Settled(geom, places, meta, p))

\* A group is made smaller only while there is enough of it.
LEMMA Shrinks ==
    ASSUME NEW q, NEW n, NEW w \in Nat, ~Unplaceable(q, n, w), GroupsTooLarge(q, n, w)
    PROVE  w - ShrinkBy \in Nat \ {0}
<1>1. ~(w < MinShrink)
  BY DEF Unplaceable
<1>2. QED
  BY <1>1, Constants

\* A last group that is too short is dropped, not more.
LEMMA Drops ==
    ASSUME NEW q \in Params, NEW n \in Nat, NEW w \in Nat \ {0}, q.first_data_block <= n,
           ~Unplaceable(q, n, w), ~GroupsTooLarge(q, n, w)
    PROVE  LET left == n - Trial(q, n, w).rem IN left \in Nat /\ left <= n /\ q.first_data_block <= left
<1>1. PICK a, b : a = q.first_data_block /\ b = n - a
  OBVIOUS
<1>2. a \in Nat /\ a <= n
  BY <1>1, ParamsAre DEF IsParams
<1>3. b \in Nat
  BY <1>1, <1>2
<1>4. q.first_data_block < n
  BY TrialStands
<1>5. Trial(q, n, w).rem = b % w
  BY <1>1, <1>4, TrialIs
<1>6. b % w \in Nat /\ b % w <= b
  <2>1. PICK k : k = b \div w
    OBVIOUS
  <2>2. k \in Nat /\ k * w <= b /\ b < k * w + w /\ b % w = b - k * w
    BY <1>3, <2>1, ModIs, DivIs
  <2>3. k * w \in Nat
    BY <2>2
  <2>4. QED
    BY <1>3, <2>2, <2>3
<1>7. QED
  BY <1>1, <1>2, <1>3, <1>5, <1>6

\* The search begins with the device's blocks and a group size of at least one.
LEMMA SearchBegins == Init => SearchInv
<1> SUFFICES ASSUME Init PROVE SearchInv
  OBVIOUS
<1>1. PICK q : q = p
  OBVIOUS
<1>2. q \in Params /\ pc = "features" /\ blocks = q.blocks
  BY <1>1 DEF Init
<1>3. IsParams(q)
  BY <1>2, ParamsAre
<1>4. PICK w : w = IF q.blocks_per_group = 0 THEN BlockBits ELSE q.blocks_per_group
  OBVIOUS
<1>5. w \in Nat \ {0}
  BY <1>3, <1>4, Constants DEF IsParams
<1>6. bpg = Min({w, 65536 - 8})
  BY <1>1, <1>4 DEF Init
<1>7. Min({w, 65536 - 8}) = IF w <= 65536 - 8 THEN w ELSE 65536 - 8
  BY <1>5, MinOfTwo
<1>8. bpg \in Nat \ {0}
  BY <1>5, <1>6, <1>7
<1>9. QED
  BY <1>1, <1>2, <1>3, <1>8 DEF SearchInv, IsParams, Stages

\* What compute settles on, where it is not refused.
LEMMA Settles ==
    ASSUME NEW q \in Params, NEW n \in Nat, NEW w \in Nat \ {0}, q.first_data_block <= n, n <= q.blocks,
           ~Unplaceable(q, n, w), ~GroupsTooLarge(q, n, w), ~LastTooShort(q, n, w),
           NEW g, g = Geometry(q, n, w), ~Refused(g, q), NEW at, at = group(g, Clear(g))
    PROVE  Settled(g, at, metadata_probe(g, at), q)
<1>1. IsGeometry(g) /\ IsSettled(g, q, n)
  BY SettledGeometry
<1>2. g.blocks_count = n
  BY <1>1 DEF IsSettled
<1>3. HasRoom(g, at) => CopiesFit(g)
  BY CopiesSettle DEF HasRoom
<1>4. QED
  BY <1>1, <1>2, <1>3 DEF Settled

\* Every step of the search keeps what is known of it, and Settle ends it with a geometry.
LEMMA SearchSteps ==
    ASSUME GeoInv, Compute
    PROVE  GeoInv'
<1>1. SearchInv /\ p' = p /\ p \in Params
  BY DEF GeoInv, SearchInv, Compute, CheckFeatures, TooSmall, ShrinkGroups, DropLastGroup, Settle
<1>2. PICK q, n, w : q = p /\ n = blocks /\ w = bpg
  OBVIOUS
<1>3. q \in Params /\ n \in Nat /\ n <= q.blocks /\ w \in Nat \ {0} /\ IsParams(q)
  BY <1>1, <1>2, ParamsAre DEF SearchInv
<1>4. CASE CheckFeatures
  <2>1. blocks' = n /\ bpg' = w /\ n = q.blocks /\ pc' \in {"refused", "compute"}
    BY <1>1, <1>2, <1>4 DEF CheckFeatures, SearchInv, searchVars
  <2>2. pc' = "compute" => ~(q.blocks <= q.first_data_block)
    BY <1>2, <1>4 DEF CheckFeatures
  <2>3. pc' = "compute" => q.first_data_block <= n
    BY <1>3, <2>1, <2>2 DEF IsParams
  <2>4. QED
    BY <1>1, <1>2, <1>3, <2>1, <2>3 DEF GeoInv, SearchInv, Laid, Stages
<1>5. CASE TooSmall
  <2>1. blocks' = n /\ bpg' = w /\ pc' = "refused"
    BY <1>2, <1>5 DEF TooSmall, searchVars
  <2>2. QED
    BY <1>1, <1>2, <1>3, <2>1 DEF GeoInv, SearchInv, Laid, Stages
<1>6. CASE ShrinkGroups
  <2>1. blocks' = n /\ bpg' = w - ShrinkBy /\ pc' = pc /\ pc = "compute" /\ ~Unplaceable(q, n, w) /\ GroupsTooLarge(q, n, w)
    BY <1>2, <1>6 DEF ShrinkGroups
  <2>2. bpg' \in Nat \ {0}
    BY <1>3, <2>1, Shrinks
  <2>3. QED
    BY <1>1, <1>2, <1>3, <2>1, <2>2 DEF GeoInv, SearchInv, Laid, Stages
<1>7. CASE DropLastGroup
  <2>1. /\ blocks' = n - Trial(q, n, w).rem /\ bpg' = w /\ pc' = pc /\ pc = "compute"
        /\ ~Unplaceable(q, n, w) /\ ~GroupsTooLarge(q, n, w)
    BY <1>2, <1>7 DEF DropLastGroup
  <2>2. q.first_data_block <= n
    BY <1>1, <1>2, <2>1 DEF SearchInv
  <2>3. blocks' \in Nat /\ blocks' <= n /\ q.first_data_block <= blocks'
    BY <1>3, <2>1, <2>2, Drops
  <2>4. blocks' <= q.blocks
    BY <1>3, <2>3 DEF IsParams
  <2>5. QED
    BY <1>1, <1>2, <1>3, <2>1, <2>3, <2>4 DEF GeoInv, SearchInv, Laid, Stages
<1>8. CASE Settle
  <2>1. /\ blocks' = n /\ bpg' = w /\ pc = "compute" /\ pc' \in {"root", "refused"}
        /\ ~Unplaceable(q, n, w) /\ ~GroupsTooLarge(q, n, w) /\ ~LastTooShort(q, n, w)
    BY <1>2, <1>8 DEF Settle, searchVars
  <2>2. q.first_data_block <= n
    BY <1>1, <1>2, <2>1 DEF SearchInv
  <2>3. PICK g, at : g = Geometry(q, n, w) /\ at = group(g, Clear(g))
    OBVIOUS
  <2>4. pc' = "root" => ~Refused(g, q) /\ geom' = g /\ places' = at /\ meta' = metadata_probe(g, at)
    BY <1>2, <1>8, <2>3 DEF Settle
  <2>5. pc' = "root" => Settled(g, at, metadata_probe(g, at), q)
    BY <1>3, <2>1, <2>2, <2>3, <2>4, Settles
  <2>6. pc' \in Laid => Settled(geom', places', meta', q)
    BY <2>1, <2>4, <2>5 DEF Laid
  <2>7. SearchInv'
    BY <1>1, <1>2, <1>3, <2>1 DEF SearchInv, Stages
  <2>8. QED
    BY <1>1, <1>2, <2>6, <2>7 DEF GeoInv
<1>9. QED
  BY <1>4, <1>5, <1>6, <1>7, <1>8 DEF Compute

-----------------------------------------------------------------------------
(* The plan, step by step *)

\* The stages that allocate.
Planning == {"root", "lost_found", "resize", "journal", "orphan", "mmp", "leaves"}

\* The stage a plan was left in.
StageOf(c) == IF c \in Planning THEN c ELSE "boot"

\* The second part: what is allocated is free, on the device and in the plan.
PlanInv ==
    /\ pc \in {"features", "compute"} => runs = {} /\ plan = NoPlan
    /\ runs \subseteq 0 .. p.blocks - 1
    /\ pc \in Laid => /\ Planned(geom, meta, runs, plan, StageOf(pc))
                      /\ "orphan_file" \notin geom.features => plan.orphan = << >>

\* Block 0 is never free: it is the boot block, or the primary superblock is in it.
LEMMA NeverZero ==
    ASSUME NEW g, NEW at, NEW m, NEW q, Settled(g, at, m, q), NEW r
    PROVE  Usable(g, m \cup r)
<1>1. IsGeometry(g) /\ m = metadata_probe(g, at)
  BY DEF Settled
<1>2. g.first_data_block \in Nat /\ g.blocks_count \in Nat
  BY <1>1 DEF IsGeometry
<1>3. ASSUME g.first_data_block = 0 PROVE 0 \in m
  <2>1. 0 \in GroupsOf(g) /\ g.blocks_per_group \in Nat \ {0}
    BY <1>1 DEF IsGeometry, GroupsOf
  <2>2. group_first_block(g, 0) = 0
    BY <1>3, <2>1 DEF group_first_block
  <2>3. 0 \in 0 .. g.blocks_count - 1
    <3>1. PICK z : z = group_last_block(g, 0)
      OBVIOUS
    <3>2. z \in Nat /\ z < g.blocks_count
      BY <1>1, <2>1, <3>1, GroupIs
    <3>3. QED
      BY <1>2, <3>2
  <2>4. group_of_block(g, 0) = 0
    BY <1>3, <2>1 DEF group_of_block
  <2>5. desc_blocks_in_group(g, 0) \in Nat /\ super_overhead(g, 0) = 1 + desc_blocks_in_group(g, 0)
    BY <1>1 DEF IsGeometry, desc_blocks_in_group, super_overhead, has_super, has_super_for
  <2>6. 0 < group_first_block(g, 0) + super_overhead(g, 0)
    BY <2>2, <2>5
  <2>7. in_super_region(g, 0)
    BY <2>4, <2>6 DEF in_super_region
  <2>8. QED
    BY <1>1, <2>3, <2>7 DEF metadata_probe
<1>4. CASE g.first_data_block = 0
  BY <1>2, <1>3, <1>4 DEF Usable, Left
<1>5. CASE g.first_data_block # 0
  BY <1>2, <1>5 DEF Usable, Left
<1>6. QED
  BY <1>4, <1>5

\* A grant leaves the plan with just what it was granted, or the format refused.
LEMMA GrantStep ==
    ASSUME GeoInv, PlanInv, pc \in Laid, NEW got, NEW pl, NEW next, Grant(got, pl, next),
           p' = p, geom' = geom, meta' = meta, next \in Laid,
           0 \notin got => /\ Planned(geom, meta, runs \cup got, pl, StageOf(next))
                           /\ "orphan_file" \notin geom.features => pl.orphan = << >>
    PROVE  PlanInv'
<1>1. CASE 0 \in got
  <2>1. pc' = "refused" /\ runs' = runs /\ plan' = plan
    BY <1>1 DEF Grant
  <2>2. QED
    BY <2>1 DEF PlanInv, Laid
<1>2. CASE 0 \notin got
  <2>1. pc' = next /\ runs' = runs \cup got /\ plan' = pl
    BY <1>2 DEF Grant
  <2>2. runs \cup got \subseteq Device(geom)
    BY <1>2 DEF Planned, Allocated
  <2>3. Device(geom) \subseteq 0 .. p.blocks - 1
    <3>1. PICK g, q : g = geom /\ q = p
      OBVIOUS
    <3>2. q \in Params /\ IsGeometry(g) /\ g.blocks_count <= q.blocks
      BY <3>1 DEF GeoInv, SearchInv, Settled
    <3>3. g.first_data_block \in Nat /\ g.blocks_count \in Nat /\ q.blocks \in Nat
      BY <3>2, ParamsAre DEF IsGeometry, IsParams
    <3>4. Device(g) \subseteq 0 .. q.blocks - 1
      BY <3>2, <3>3 DEF Device
    <3>5. QED
      BY <3>1, <3>4
  <2>4. next \notin {"features", "compute"}
    BY DEF Laid
  <2>5. QED
    BY <1>2, <2>1, <2>2, <2>3, <2>4 DEF PlanInv
<1>3. QED
  BY <1>1, <1>2

\* One block, or one run, that alloc finds.
LEMMA AllocGrants ==
    ASSUME NEW g, NEW at, NEW m, NEW q, Settled(g, at, m, q), NEW r, NEW goal, NEW len \in Nat \ {0},
           NEW b, b = alloc(g, m \cup r, goal, len), b # 0
    PROVE  b \in Nat \ {0} /\ (b .. b + len - 1) \subseteq Left(g, m \cup r)
<1>1. Usable(g, m \cup r)
  BY NeverZero
<1>2. QED
  BY <1>1, AllocIsFree

\* The same for a single block.
LEMMA BlockGrants ==
    ASSUME NEW g, NEW at, NEW m, NEW q, Settled(g, at, m, q), NEW r, NEW goal, NEW b, b = alloc(g, m \cup r, goal, 1), b # 0
    PROVE  b \in Nat \ {0} /\ {b} \subseteq Left(g, m \cup r)
<1>1. PICK len : len = 1
  OBVIOUS
<1>2. len \in Nat \ {0} /\ b = alloc(g, m \cup r, goal, len)
  BY <1>1
<1>3. b \in Nat \ {0} /\ (b .. b + len - 1) \subseteq Left(g, m \cup r)
  BY <1>2, AllocGrants
<1>4. b \in b .. b + len - 1
  BY <1>1, <1>3
<1>5. QED
  BY <1>3, <1>4

\* PlanRoot keeps the plan in order.
LEMMA RootStep ==
    ASSUME GeoInv, PlanInv, PlanRoot
    PROVE  PlanInv'
<1>1. PICK g, at, m, q, r, pl, b :
         /\ g = geom /\ at = places /\ m = meta /\ q = p /\ r = runs /\ pl = plan
         /\ b = alloc(g, m \cup r, g.first_data_block, 1)
  OBVIOUS
<1>2. pc = "root" /\ pc \in Laid /\ p' = p /\ geom' = geom /\ meta' = meta
  BY DEF PlanRoot, Laid, Stages, layoutVars
<1>3. Grant({b}, [pl EXCEPT !.root = b], "lost_found")
  BY <1>1 DEF PlanRoot, taken, first_data
<1>4. Settled(g, at, m, q) /\ Planned(g, m, r, pl, "root")
  BY <1>1, <1>2 DEF GeoInv, PlanInv, StageOf, Planning
<1>5. 0 \notin {b} => Planned(g, m, r \cup {b}, [pl EXCEPT !.root = b], "lost_found")
  BY <1>1, <1>4, BlockGrants, RootPlanned
<1>6. [pl EXCEPT !.root = b].orphan = pl.orphan
  BY <1>4 DEF Planned, PlanShape, Fields
<1>7. "orphan_file" \notin geom.features => [pl EXCEPT !.root = b].orphan = << >>
  BY <1>1, <1>2, <1>6 DEF PlanInv
<1>8. "lost_found" \in Laid /\ StageOf("lost_found") = "lost_found"
  BY DEF Laid, Stages, StageOf, Planning
<1>9. QED
  BY <1>1, <1>2, <1>3, <1>5, <1>7, <1>8, GrantStep

\* PlanLostFound does.
LEMMA LostFoundStep ==
    ASSUME GeoInv, PlanInv, PlanLostFound
    PROVE  PlanInv'
<1>1. PICK g, at, m, q, r, pl, b :
         /\ g = geom /\ at = places /\ m = meta /\ q = p /\ r = runs /\ pl = plan
         /\ b = alloc(g, m \cup r, g.first_data_block, LostFound)
  OBVIOUS
<1>2. pc = "lost_found" /\ pc \in Laid /\ p' = p /\ geom' = geom /\ meta' = meta
  BY DEF PlanLostFound, Laid, Stages, layoutVars
<1>3. PICK got : got = IF b = 0 THEN {0} ELSE b .. b + LostFound - 1
  OBVIOUS
<1>4. Grant(got, [pl EXCEPT !.lost_found = b], "resize")
  BY <1>1, <1>3 DEF PlanLostFound, taken, first_data
<1>5. Settled(g, at, m, q) /\ Planned(g, m, r, pl, "lost_found")
  BY <1>1, <1>2 DEF GeoInv, PlanInv, StageOf, Planning
<1>6. ASSUME 0 \notin got PROVE Planned(g, m, r \cup got, [pl EXCEPT !.lost_found = b], "resize")
  <2>1. b # 0 /\ got = b .. b + LostFound - 1
    BY <1>3, <1>6
  <2>2. b \in Nat \ {0} /\ (b .. b + LostFound - 1) \subseteq Left(g, m \cup r)
    BY <1>1, <1>5, <2>1, Constants, AllocGrants
  <2>3. QED
    BY <1>5, <2>1, <2>2, LostFoundPlanned
<1>7. [pl EXCEPT !.lost_found = b].orphan = pl.orphan
  BY <1>5 DEF Planned, PlanShape, Fields
<1>8. "orphan_file" \notin geom.features => [pl EXCEPT !.lost_found = b].orphan = << >>
  BY <1>1, <1>2, <1>7 DEF PlanInv
<1>9. "resize" \in Laid /\ StageOf("resize") = "resize"
  BY DEF Laid, Stages, StageOf, Planning
<1>10. QED
  BY <1>1, <1>2, <1>4, <1>6, <1>8, <1>9, GrantStep

\* PlanResize does, with a resize inode or without.
LEMMA ResizeStep ==
    ASSUME GeoInv, PlanInv, PlanResize
    PROVE  PlanInv'
<1>1. PICK g, at, m, q, r, pl, b :
         /\ g = geom /\ at = places /\ m = meta /\ q = p /\ r = runs /\ pl = plan
         /\ b = alloc(g, m \cup r, g.first_data_block, 1)
  OBVIOUS
<1>2. pc = "resize" /\ pc \in Laid /\ p' = p /\ geom' = geom /\ meta' = meta
  BY DEF PlanResize, Laid, Stages, layoutVars
<1>3. Grant({b}, [pl EXCEPT !.dind = b], "journal") \/ Grant({}, pl, "journal")
  BY <1>1 DEF PlanResize, taken, first_data
<1>4. Settled(g, at, m, q) /\ Planned(g, m, r, pl, "resize")
  BY <1>1, <1>2 DEF GeoInv, PlanInv, StageOf, Planning
<1>5. 0 \notin {b} => Planned(g, m, r \cup {b}, [pl EXCEPT !.dind = b], "journal")
  BY <1>1, <1>4, BlockGrants, ResizePlanned
<1>6. Planned(g, m, r \cup {}, pl, "journal")
  <2>1. r \cup {} = r
    OBVIOUS
  <2>2. Planned(g, m, r, pl, "journal")
    BY <1>4, PlanSkips
  <2>3. QED
    BY <2>1, <2>2
<1>7. [pl EXCEPT !.dind = b].orphan = pl.orphan
  BY <1>4 DEF Planned, PlanShape, Fields
<1>8. "orphan_file" \notin geom.features => pl.orphan = << >> /\ [pl EXCEPT !.dind = b].orphan = << >>
  BY <1>1, <1>2, <1>7 DEF PlanInv
<1>9. "journal" \in Laid /\ StageOf("journal") = "journal"
  BY DEF Laid, Stages, StageOf, Planning
<1>10. CASE Grant({b}, [pl EXCEPT !.dind = b], "journal")
  BY <1>1, <1>2, <1>5, <1>8, <1>9, <1>10, GrantStep
<1>11. CASE Grant({}, pl, "journal")
  BY <1>1, <1>2, <1>6, <1>8, <1>9, <1>11, GrantStep
<1>12. QED
  BY <1>3, <1>10, <1>11

\* PlanMmp does, with an MMP block or without.
LEMMA MmpStep ==
    ASSUME GeoInv, PlanInv, PlanMmp
    PROVE  PlanInv'
<1>1. PICK g, at, m, q, r, pl, b :
         /\ g = geom /\ at = places /\ m = meta /\ q = p /\ r = runs /\ pl = plan
         /\ b = alloc(g, m \cup r, g.blocks_count \div 2, 1)
  OBVIOUS
<1>2. pc = "mmp" /\ pc \in Laid /\ p' = p /\ geom' = geom /\ meta' = meta
  BY DEF PlanMmp, Laid, Stages, layoutVars
<1>3. Grant({b}, [pl EXCEPT !.mmp = b], "leaves") \/ Grant({}, pl, "leaves")
  BY <1>1 DEF PlanMmp, taken
<1>4. Settled(g, at, m, q) /\ Planned(g, m, r, pl, "mmp")
  BY <1>1, <1>2 DEF GeoInv, PlanInv, StageOf, Planning
<1>5. 0 \notin {b} => Planned(g, m, r \cup {b}, [pl EXCEPT !.mmp = b], "leaves")
  BY <1>1, <1>4, BlockGrants, MmpPlanned
<1>6. Planned(g, m, r \cup {}, pl, "leaves")
  <2>1. r \cup {} = r
    OBVIOUS
  <2>2. Planned(g, m, r, pl, "leaves")
    BY <1>4, PlanSkips
  <2>3. QED
    BY <2>1, <2>2
<1>7. [pl EXCEPT !.mmp = b].orphan = pl.orphan
  BY <1>4 DEF Planned, PlanShape, Fields
<1>8. "orphan_file" \notin geom.features => pl.orphan = << >> /\ [pl EXCEPT !.mmp = b].orphan = << >>
  BY <1>1, <1>2, <1>7 DEF PlanInv
<1>9. "leaves" \in Laid /\ StageOf("leaves") = "leaves"
  BY DEF Laid, Stages, StageOf, Planning
<1>10. CASE Grant({b}, [pl EXCEPT !.mmp = b], "leaves")
  BY <1>1, <1>2, <1>5, <1>8, <1>9, <1>10, GrantStep
<1>11. CASE Grant({}, pl, "leaves")
  BY <1>1, <1>2, <1>6, <1>8, <1>9, <1>11, GrantStep
<1>12. QED
  BY <1>3, <1>10, <1>11

\* PlanLeaves does.
LEMMA LeavesStep ==
    ASSUME GeoInv, PlanInv, PlanLeaves
    PROVE  PlanInv'
<1>1. PICK g, at, m, q, r, pl :
         g = geom /\ at = places /\ m = meta /\ q = p /\ r = runs /\ pl = plan
  OBVIOUS
<1>2. PICK jn, jb : jn = (Len(pl.journal_extents) > InlineMax) /\ jb = alloc(g, m \cup r, g.first_data_block, 1)
  OBVIOUS
<1>3. PICK j : j = IF jn THEN {jb} ELSE {}
  OBVIOUS
<1>4. PICK on, ob : on = (Len(pl.orphan_extents) > InlineMax) /\ ob = alloc(g, m \cup r \cup j, g.first_data_block, 1)
  OBVIOUS
<1>5. PICK o : o = IF on THEN {ob} ELSE {}
  OBVIOUS
<1>6. PICK jl, ol : jl = (IF jn THEN jb ELSE 0) /\ ol = (IF on THEN ob ELSE 0)
  OBVIOUS
<1>7. pc = "leaves" /\ pc \in Laid /\ p' = p /\ geom' = geom /\ meta' = meta
  BY DEF PlanLeaves, Laid, Stages, layoutVars
<1>8. Grant(j \cup o, [pl EXCEPT !.journal_leaf = IF j = {} THEN 0 ELSE CHOOSE b \in j : TRUE,
                                 !.orphan_leaf = IF o = {} THEN 0 ELSE CHOOSE b \in o : TRUE], "boot")
  BY <1>1, <1>2, <1>3, <1>4, <1>5 DEF PlanLeaves, taken, first_data
<1>9. jl = (IF j = {} THEN 0 ELSE CHOOSE b \in j : TRUE) /\ ol = (IF o = {} THEN 0 ELSE CHOOSE b \in o : TRUE)
  BY <1>3, <1>5, <1>6
<1>10. Grant(j \cup o, [pl EXCEPT !.journal_leaf = jl, !.orphan_leaf = ol], "boot")
  BY <1>8, <1>9
<1>11. Settled(g, at, m, q) /\ Planned(g, m, r, pl, "leaves")
  BY <1>1, <1>7 DEF GeoInv, PlanInv, StageOf, Planning
<1>12. ASSUME 0 \notin j \cup o
       PROVE  Planned(g, m, r \cup (j \cup o), [pl EXCEPT !.journal_leaf = jl, !.orphan_leaf = ol], "boot")
  <2>1. jl \in Nat /\ LeafSet(jl) = j /\ j \subseteq Left(g, m \cup r)
    <3>1. CASE jn
      <4>1. jb # 0 /\ j = {jb} /\ jl = jb
        BY <1>3, <1>6, <1>12, <3>1
      <4>2. jb \in Nat \ {0} /\ {jb} \subseteq Left(g, m \cup r)
        BY <1>2, <1>11, <4>1, BlockGrants
      <4>3. QED
        BY <4>1, <4>2 DEF LeafSet
    <3>2. CASE ~jn
      BY <1>3, <1>6, <3>2 DEF LeafSet
    <3>3. QED
      BY <3>1, <3>2
  <2>2. ol \in Nat /\ LeafSet(ol) = o /\ o \subseteq Left(g, m \cup (r \cup j))
    <3>1. CASE on
      <4>1. ob # 0 /\ o = {ob} /\ ol = ob
        BY <1>5, <1>6, <1>12, <3>1
      <4>2. m \cup r \cup j = m \cup (r \cup j)
        OBVIOUS
      <4>3. ob \in Nat \ {0} /\ {ob} \subseteq Left(g, m \cup (r \cup j))
        BY <1>4, <1>11, <4>1, <4>2, BlockGrants
      <4>4. QED
        BY <4>1, <4>3 DEF LeafSet
    <3>2. CASE ~on
      BY <1>5, <1>6, <3>2 DEF LeafSet
    <3>3. QED
      BY <3>1, <3>2
  <2>3. LeafSet(jl) \cup LeafSet(ol) \subseteq Left(g, m \cup r)
    BY <2>1, <2>2 DEF Left
  <2>4. jl = ol => jl = 0
    BY <2>1, <2>2 DEF LeafSet, Left
  <2>5. ~HasExtents(g) => jl = 0 /\ ol = 0
    <3>1. ~HasExtents(g) => pl.journal_extents = << >> /\ pl.orphan_extents = << >>
      BY <1>11 DEF Planned, PlanShape
    <3>2. ~(Len(<< >>) > InlineMax)
      BY Constants
    <3>3. QED
      BY <1>2, <1>4, <1>6, <3>1, <3>2
  <2>6. QED
    BY <1>11, <2>1, <2>2, <2>3, <2>4, <2>5, LeavesPlanned
<1>13. [pl EXCEPT !.journal_leaf = jl, !.orphan_leaf = ol].orphan = pl.orphan
  BY <1>11 DEF Planned, PlanShape, Fields
<1>14. "orphan_file" \notin geom.features => [pl EXCEPT !.journal_leaf = jl, !.orphan_leaf = ol].orphan = << >>
  BY <1>1, <1>7, <1>13 DEF PlanInv
<1>15. "boot" \in Laid /\ StageOf("boot") = "boot"
  BY DEF Laid, Stages, StageOf, Planning
<1>16. QED
  BY <1>1, <1>7, <1>10, <1>12, <1>14, <1>15, GrantStep

\* The journal's size is a number of blocks.
LEMMA JournalBlocks ==
    ASSUME NEW q, q \in Params, p = q
    PROVE  journal_blocks \in Nat
<1>1. q.journal \in Nat \/ q.journal = NoJournal
  BY ParamsAre DEF IsParams
<1>2. default_journal_blocks(geom.blocks_count) \in Nat
  BY Constants DEF default_journal_blocks
<1>3. QED
  BY <1>1, <1>2 DEF journal_blocks

\* The plan with a journal in it, mapped by extents.
LEMMA JournalByExtents ==
    ASSUME NEW g, NEW m, NEW r, NEW pl, Planned(g, m, r, pl, "journal"), HasExtents(g), NEW n \in Nat,
           NEW got, Granted(got, n, Left(g, m \cup r)), 0 \notin Range(got), NEW list
    PROVE  Planned(g, m, r \cup Range(got), [pl EXCEPT !.journal = got, !.journal_extents = list], "orphan")
<1>1. PICK q, S : q = [pl EXCEPT !.journal = got, !.journal_extents = list] /\ S = Range(got)
  OBVIOUS
<1>2. IsFiniteSet(S) /\ S \subseteq Left(g, m \cup r) /\ Cardinality(S) = n /\ got \in Seq(Nat) /\ Len(got) = n
  BY <1>1, GrantedBlocks DEF Granted
<1>3. DOMAIN pl = Fields
  BY DEF Planned, PlanShape
<1>4. /\ DOMAIN q = Fields /\ q.journal = got
      /\ q.root = pl.root /\ q.lost_found = pl.lost_found /\ q.dind = pl.dind /\ q.mmp = pl.mmp
      /\ q.journal_leaf = pl.journal_leaf /\ q.journal_indirect = pl.journal_indirect
      /\ q.orphan = pl.orphan /\ q.orphan_extents = pl.orphan_extents
      /\ q.orphan_leaf = pl.orphan_leaf /\ q.orphan_indirect = pl.orphan_indirect
  BY <1>1, <1>3 DEF Fields
<1>5. WithJournal(pl, q, S, HasExtents(g))
  BY <1>1, <1>2, <1>4 DEF WithJournal
<1>6. Planned(g, m, r \cup S, q, "orphan")
  BY <1>2, <1>5, JournalPlanned
<1>7. QED
  BY <1>1, <1>6

\* The plan with a journal in it, mapped by indirect blocks.
LEMMA JournalByPointers ==
    ASSUME NEW g, NEW m, NEW r, NEW pl, Planned(g, m, r, pl, "journal"), ~HasExtents(g), NEW n \in Nat,
           NEW got, Granted(got, n + Cardinality(MapNodes(n)), Left(g, m \cup r)), 0 \notin Range(got),
           NEW file, file = [i \in 1 .. n |-> got[i + Cardinality({y \in MapNodes(n) : y.base < i})]],
           NEW map, map = alloc_indirect_file(got, n)
    PROVE  Planned(g, m, r \cup Range(got), [pl EXCEPT !.journal = file, !.journal_indirect = map], "orphan")
<1>1. PICK q, S, c : /\ q = [pl EXCEPT !.journal = file, !.journal_indirect = map] /\ S = Range(got)
                     /\ c = Cardinality(MapNodes(n))
  OBVIOUS
<1>2. c \in Nat /\ n + c \in Nat /\ IsFiniteSet(MapNodes(n))
  BY <1>1, NodesAre
<1>3. IsFiniteSet(S) /\ S \subseteq Left(g, m \cup r) /\ Cardinality(S) = n + c
  BY <1>1, <1>2, GrantedBlocks
<1>4. /\ file \in Seq(Nat) /\ Len(file) = n /\ Range(file) \subseteq S
      /\ DOMAIN map.blocks = MapNodes(n) /\ NodeBlocks(map) \subseteq S
  BY <1>1, JournalMapped
<1>5. DOMAIN pl = Fields
  BY DEF Planned, PlanShape
<1>6. /\ DOMAIN q = Fields /\ q.journal = file /\ q.journal_indirect = map
      /\ q.root = pl.root /\ q.lost_found = pl.lost_found /\ q.dind = pl.dind /\ q.mmp = pl.mmp
      /\ q.journal_leaf = pl.journal_leaf /\ q.journal_extents = pl.journal_extents
      /\ q.orphan = pl.orphan /\ q.orphan_extents = pl.orphan_extents
      /\ q.orphan_leaf = pl.orphan_leaf /\ q.orphan_indirect = pl.orphan_indirect
  BY <1>1, <1>5 DEF Fields
<1>7. IsFiniteSet(DOMAIN q.journal_indirect.blocks)
  BY <1>2, <1>4, <1>6
<1>8. Cardinality(S) = Len(q.journal) + Cardinality(DOMAIN q.journal_indirect.blocks)
  BY <1>1, <1>3, <1>4, <1>6
<1>9. WithJournal(pl, q, S, HasExtents(g))
  BY <1>4, <1>6, <1>7, <1>8 DEF WithJournal
<1>10. Planned(g, m, r \cup S, q, "orphan")
  BY <1>3, <1>9, JournalPlanned
<1>11. QED
  BY <1>1, <1>10

\* PlanJournal keeps the plan in order.
LEMMA JournalStep ==
    ASSUME GeoInv, PlanInv, PlanJournal
    PROVE  PlanInv'
<1>1. PICK g, at, m, q, r, pl, n, ext :
         /\ g = geom /\ at = places /\ m = meta /\ q = p /\ r = runs /\ pl = plan
         /\ n = journal_blocks /\ ext = HasExtents(g)
  OBVIOUS
<1>2. pc = "journal" /\ pc \in Laid /\ p' = p /\ geom' = geom /\ meta' = meta
  BY DEF PlanJournal, Laid, Stages, layoutVars
<1>3. ext = Extents /\ ext \in BOOLEAN
  BY <1>1 DEF Extents, HasExtents
<1>4. PICK size, goal : /\ size = (IF ext THEN n ELSE n + Cardinality(MapNodes(n)))
                        /\ goal = (IF ext THEN midpoint_journal_block(g, m \cup r) ELSE g.first_data_block)
  OBVIOUS
<1>5. PICK got : got = alloc_runs(g, m \cup r, goal, size)
  OBVIOUS
<1>6. PICK list, file, map :
         /\ list = ExtentsOf(got, MaxExtent)
         /\ file = [i \in 1 .. n |-> got[i + Cardinality({y \in MapNodes(n) : y.base < i})]]
         /\ map = alloc_indirect_file(got, n)
  OBVIOUS
<1>7. Grant(IF ~ext /\ n > Behind(3) THEN {0} ELSE Range(got),
            IF ext THEN [pl EXCEPT !.journal = got, !.journal_extents = list]
            ELSE [pl EXCEPT !.journal = file, !.journal_indirect = map], "orphan")
  BY <1>1, <1>3, <1>4, <1>5, <1>6 DEF PlanJournal, taken, first_data
<1>8. Settled(g, at, m, q) /\ Planned(g, m, r, pl, "journal") /\ q \in Params
  BY <1>1, <1>2 DEF GeoInv, PlanInv, StageOf, Planning, SearchInv
<1>9. n \in Nat /\ size \in Nat
  BY <1>1, <1>4, <1>8, JournalBlocks, NodesAre
<1>10. Granted(got, size, Left(g, m \cup r))
  BY <1>5, <1>8, <1>9, NeverZero, RunsAreFree
<1>11. PICK X, pl2 : /\ X = (IF ~ext /\ n > Behind(3) THEN {0} ELSE Range(got))
                     /\ pl2 = IF ext THEN [pl EXCEPT !.journal = got, !.journal_extents = list]
                              ELSE [pl EXCEPT !.journal = file, !.journal_indirect = map]
  OBVIOUS
<1>12. ASSUME 0 \notin X PROVE Planned(g, m, r \cup X, pl2, "orphan") /\ pl2.orphan = pl.orphan
  <2>1. X = Range(got) /\ 0 \notin Range(got)
    BY <1>11, <1>12
  <2>2. DOMAIN pl = Fields
    BY <1>8 DEF Planned, PlanShape
  <2>3. CASE ext
    <3>1. size = n /\ pl2 = [pl EXCEPT !.journal = got, !.journal_extents = list] /\ HasExtents(g)
      BY <1>1, <1>4, <1>11, <2>3
    <3>2. Planned(g, m, r \cup Range(got), [pl EXCEPT !.journal = got, !.journal_extents = list], "orphan")
      BY <1>8, <1>9, <1>10, <2>1, <3>1, JournalByExtents
    <3>3. [pl EXCEPT !.journal = got, !.journal_extents = list].orphan = pl.orphan
      BY <2>2 DEF Fields
    <3>4. QED
      BY <2>1, <3>1, <3>2, <3>3
  <2>4. CASE ~ext
    <3>1. /\ size = n + Cardinality(MapNodes(n)) /\ ~HasExtents(g)
          /\ pl2 = [pl EXCEPT !.journal = file, !.journal_indirect = map]
      BY <1>1, <1>4, <1>11, <2>4
    <3>2. Planned(g, m, r \cup Range(got), [pl EXCEPT !.journal = file, !.journal_indirect = map], "orphan")
      BY <1>6, <1>8, <1>9, <1>10, <2>1, <3>1, JournalByPointers
    <3>3. [pl EXCEPT !.journal = file, !.journal_indirect = map].orphan = pl.orphan
      BY <2>2 DEF Fields
    <3>4. QED
      BY <2>1, <3>1, <3>2, <3>3
  <2>5. QED
    BY <1>3, <2>3, <2>4
<1>13. 0 \notin X => ("orphan_file" \notin geom.features => pl2.orphan = << >>)
  BY <1>1, <1>2, <1>12 DEF PlanInv
<1>14. "orphan" \in Laid /\ StageOf("orphan") = "orphan"
  BY DEF Laid, Stages, StageOf, Planning
<1>15. Grant(X, pl2, "orphan")
  BY <1>7, <1>11
<1>16. QED
  BY <1>1, <1>2, <1>12, <1>13, <1>14, <1>15, GrantStep

\* The orphan file's blocks, and those of its map taken after them.
LEMMA TwoGrants ==
    ASSUME NEW g, NEW S, NEW n \in Nat, NEW c \in Nat, NEW file, Granted(file, n, Left(g, S)), 0 \notin Range(file),
           NEW got, Granted(got, c, Left(g, S \cup Range(file))), 0 \notin Range(got),
           NEW X, X = Range(file) \cup Range(got)
    PROVE  X \subseteq Left(g, S) /\ IsFiniteSet(X) /\ Cardinality(X) = n + c
<1>1. PICK A, B : A = Range(file) /\ B = Range(got)
  OBVIOUS
<1>2. A \subseteq Left(g, S) /\ IsFiniteSet(A) /\ Cardinality(A) = n
  BY <1>1, GrantedBlocks
<1>3. B \subseteq Left(g, S \cup A) /\ IsFiniteSet(B) /\ Cardinality(B) = c
  BY <1>1, GrantedBlocks
<1>4. B \subseteq Left(g, S) /\ A \cap B = {}
  BY <1>3 DEF Left
<1>5. /\ IsFiniteSet(A \cup B)
      /\ Cardinality(A \cup B) = Cardinality(A) + Cardinality(B) - Cardinality(A \cap B)
  BY <1>2, <1>3, FS_Union
<1>6. Cardinality(A \cap B) = 0
  BY <1>4, FS_EmptySet, Zenon
<1>7. Cardinality(A \cup B) = n + c - 0
  BY <1>2, <1>3, <1>5, <1>6, Zenon
<1>8. Cardinality(A \cup B) = n + c
  BY <1>7
<1>9. A \cup B \subseteq Left(g, S)
  BY <1>2, <1>4
<1>10. QED
  BY <1>1, <1>5, <1>8, <1>9, Zenon

\* The plan with an orphan file in it, mapped by extents.
LEMMA OrphanByExtents ==
    ASSUME NEW g, NEW m, NEW r, NEW pl, Planned(g, m, r, pl, "orphan"), HasExtents(g), NEW n \in Nat,
           NEW file, Granted(file, n, Left(g, m \cup r)), 0 \notin Range(file),
           NEW S, Range(file) \subseteq S, S \subseteq Left(g, m \cup r), IsFiniteSet(S), Cardinality(S) = n, NEW list
    PROVE  Planned(g, m, r \cup S, [pl EXCEPT !.orphan = file, !.orphan_extents = list], "mmp")
<1>1. PICK q : q = [pl EXCEPT !.orphan = file, !.orphan_extents = list]
  OBVIOUS
<1>2. file \in Seq(Nat) /\ Len(file) = n
  BY DEF Granted
<1>3. DOMAIN pl = Fields
  BY DEF Planned, PlanShape
<1>4. /\ DOMAIN q = Fields /\ q.orphan = file
      /\ q.root = pl.root /\ q.lost_found = pl.lost_found /\ q.dind = pl.dind /\ q.mmp = pl.mmp
      /\ q.journal = pl.journal /\ q.journal_extents = pl.journal_extents
      /\ q.journal_leaf = pl.journal_leaf /\ q.journal_indirect = pl.journal_indirect
      /\ q.orphan_leaf = pl.orphan_leaf /\ q.orphan_indirect = pl.orphan_indirect
  BY <1>1, <1>3 DEF Fields
<1>5. WithOrphan(pl, q, S, HasExtents(g))
  BY <1>2, <1>4 DEF WithOrphan
<1>6. Planned(g, m, r \cup S, q, "mmp")
  BY <1>5, OrphanPlanned
<1>7. QED
  BY <1>1, <1>6

\* The plan with an orphan file in it, mapped by indirect blocks.
LEMMA OrphanByPointers ==
    ASSUME NEW g, NEW m, NEW r, NEW pl, Planned(g, m, r, pl, "orphan"), ~HasExtents(g), NEW n \in Nat,
           NEW file, Granted(file, n, Left(g, m \cup r)), NEW c, c = Cardinality(MapNodes(n)),
           NEW got, NEW U, Granted(got, c, U), 0 \notin Range(got), NEW map, map = build_indirect(file, got),
           NEW S, S = Range(file) \cup Range(got), S \subseteq Left(g, m \cup r), IsFiniteSet(S), Cardinality(S) = n + c
    PROVE  Planned(g, m, r \cup S, [pl EXCEPT !.orphan = file, !.orphan_indirect = map], "mmp")
<1>1. PICK q : q = [pl EXCEPT !.orphan = file, !.orphan_indirect = map]
  OBVIOUS
<1>2. file \in Seq(Nat) /\ Len(file) = n
  BY DEF Granted
<1>3. DOMAIN map.blocks = MapNodes(n) /\ NodeBlocks(map) \subseteq Range(got)
  BY <1>2, OrphanMapped
<1>4. IsFiniteSet(MapNodes(n))
  BY NodesAre
<1>5. DOMAIN pl = Fields
  BY DEF Planned, PlanShape
<1>6. /\ DOMAIN q = Fields /\ q.orphan = file /\ q.orphan_indirect = map
      /\ q.root = pl.root /\ q.lost_found = pl.lost_found /\ q.dind = pl.dind /\ q.mmp = pl.mmp
      /\ q.journal = pl.journal /\ q.journal_extents = pl.journal_extents
      /\ q.journal_leaf = pl.journal_leaf /\ q.journal_indirect = pl.journal_indirect
      /\ q.orphan_leaf = pl.orphan_leaf /\ q.orphan_extents = pl.orphan_extents
  BY <1>1, <1>5 DEF Fields
<1>7. IsFiniteSet(DOMAIN q.orphan_indirect.blocks)
  BY <1>3, <1>4, <1>6
<1>8. Cardinality(S) = Len(q.orphan) + Cardinality(DOMAIN q.orphan_indirect.blocks)
  BY <1>2, <1>3, <1>6
<1>9. NodeBlocks(map) \subseteq S /\ Range(file) \subseteq S
  BY <1>3
<1>10. WithOrphan(pl, q, S, HasExtents(g))
  BY <1>2, <1>6, <1>7, <1>8, <1>9 DEF WithOrphan
<1>11. Planned(g, m, r \cup S, q, "mmp")
  BY <1>10, OrphanPlanned
<1>12. QED
  BY <1>1, <1>11

\* PlanOrphan keeps the plan in order.
LEMMA OrphanStep ==
    ASSUME GeoInv, PlanInv, PlanOrphan
    PROVE  PlanInv'
<1>1. PICK g, at, m, q, r, pl, n, ext :
         /\ g = geom /\ at = places /\ m = meta /\ q = p /\ r = runs /\ pl = plan /\ ext = HasExtents(g)
         /\ n = IF "orphan_file" \in g.features THEN default_orphan_file_blocks(g.blocks_count) ELSE 0
  OBVIOUS
<1>2. pc = "orphan" /\ pc \in Laid /\ p' = p /\ geom' = geom /\ meta' = meta
  BY DEF PlanOrphan, Laid, Stages, layoutVars
<1>3. ext = Extents /\ ext \in BOOLEAN
  BY <1>1 DEF Extents, HasExtents
<1>4. PICK c, top : c = (IF ext THEN 0 ELSE Cardinality(MapNodes(n))) /\ top = Behind(3) + AddrPerBlock ^ 3
  OBVIOUS
<1>5. PICK file : file = alloc_runs(g, m \cup r, g.first_data_block, n)
  OBVIOUS
<1>6. PICK got : got = alloc_runs(g, m \cup r \cup Range(file), g.first_data_block, c)
  OBVIOUS
<1>7. PICK list, map : list = ExtentsOf(file, n) /\ map = build_indirect(file, got)
  OBVIOUS
<1>8. PICK X, pl2 : /\ X = (IF ~ext /\ n > top THEN {0} ELSE Range(file) \cup Range(got))
                    /\ pl2 = IF ext THEN [pl EXCEPT !.orphan = file, !.orphan_extents = list]
                             ELSE [pl EXCEPT !.orphan = file, !.orphan_indirect = map]
  OBVIOUS
<1>9. Grant(X, pl2, "mmp")
  <2>1. Grant(IF ~Extents /\ n > Behind(3) + AddrPerBlock ^ 3 THEN {0} ELSE Range(file) \cup Range(got),
              IF Extents THEN [plan EXCEPT !.orphan = file, !.orphan_extents = ExtentsOf(file, n)]
              ELSE [plan EXCEPT !.orphan = file, !.orphan_indirect = build_indirect(file, got)], "mmp")
    BY <1>1, <1>3, <1>4, <1>5, <1>6 DEF PlanOrphan, taken, first_data
  <2>2. X = IF ~Extents /\ n > Behind(3) + AddrPerBlock ^ 3 THEN {0} ELSE Range(file) \cup Range(got)
    BY <1>3, <1>4, <1>8
  <2>3. pl2 = IF Extents THEN [plan EXCEPT !.orphan = file, !.orphan_extents = ExtentsOf(file, n)]
              ELSE [plan EXCEPT !.orphan = file, !.orphan_indirect = build_indirect(file, got)]
    BY <1>1, <1>3, <1>7, <1>8
  <2>4. QED
    BY <2>1, <2>2, <2>3, Zenon
<1>10. Settled(g, at, m, q) /\ Planned(g, m, r, pl, "orphan")
  BY <1>1, <1>2 DEF GeoInv, PlanInv, StageOf, Planning
<1>11. n \in Nat /\ c \in Nat
  <2>1. n \in Nat
    BY <1>1, Constants DEF default_orphan_file_blocks
  <2>2. QED
    BY <1>4, <2>1, NodesAre
<1>12. Granted(file, n, Left(g, m \cup r))
  BY <1>5, <1>10, <1>11, NeverZero, RunsAreFree
<1>13. Granted(got, c, Left(g, m \cup r \cup Range(file)))
  <2>1. PICK T : T = r \cup Range(file)
    OBVIOUS
  <2>2. m \cup r \cup Range(file) = m \cup T
    BY <2>1
  <2>3. Usable(g, m \cup T)
    BY <1>10, NeverZero
  <2>4. QED
    BY <1>6, <1>11, <2>2, <2>3, RunsAreFree
<1>14. DOMAIN pl = Fields
  BY <1>10 DEF Planned, PlanShape
<1>15. pl2.orphan = file
  BY <1>8, <1>14 DEF Fields
<1>16. "orphan_file" \notin g.features => file = << >>
  <2>1. file \in Seq(Nat) /\ Len(file) = n
    BY <1>12 DEF Granted
  <2>2. QED
    BY <1>1, <2>1
<1>17. ASSUME 0 \notin X PROVE Planned(g, m, r \cup X, pl2, "mmp")
  <2>1. X = Range(file) \cup Range(got) /\ 0 \notin Range(file) /\ 0 \notin Range(got)
    BY <1>8, <1>17
  <2>2. X \subseteq Left(g, m \cup r)
    BY <1>11, <1>12, <1>13, <2>1, TwoGrants
  <2>3. IsFiniteSet(X)
    BY <1>11, <1>12, <1>13, <2>1, TwoGrants
  <2>4. Cardinality(X) = n + c
    BY <1>11, <1>12, <1>13, <2>1, TwoGrants
  <2>5. CASE ext
    <3>1. pl2 = [pl EXCEPT !.orphan = file, !.orphan_extents = list] /\ HasExtents(g) /\ c = 0
      BY <1>1, <1>4, <1>8, <2>5
    <3>2. Cardinality(X) = n
      BY <1>11, <2>4, <3>1
    <3>3. Range(file) \subseteq X
      BY <2>1
    <3>4. QED
      BY <1>10, <1>11, <1>12, <2>1, <2>2, <2>3, <3>1, <3>2, <3>3, OrphanByExtents
  <2>6. CASE ~ext
    <3>1. pl2 = [pl EXCEPT !.orphan = file, !.orphan_indirect = map] /\ ~HasExtents(g) /\ c = Cardinality(MapNodes(n))
      BY <1>1, <1>4, <1>8, <2>6
    <3>2. QED
      BY <1>7, <1>10, <1>11, <1>12, <1>13, <2>1, <2>2, <2>3, <2>4, <3>1, OrphanByPointers
  <2>7. QED
    BY <1>3, <2>5, <2>6
<1>18. "mmp" \in Laid /\ StageOf("mmp") = "mmp"
  BY DEF Laid, Stages, StageOf, Planning
<1>19. QED
  BY <1>1, <1>2, <1>9, <1>15, <1>16, <1>17, <1>18, GrantStep

-----------------------------------------------------------------------------
(* Nothing is shared *)

\* The stages that write, and the ones they end in.
Writing == Laid \ Planning

\* Once a plan is made nothing changes it, or the geometry.
LEMMA WritesKeep ==
    ASSUME WriteGroups \/ WriteContents \/ DeviceFails
    PROVE  /\ pc \in Writing /\ pc' \in Writing
           /\ UNCHANGED <<p, blocks, bpg, geom, places, meta, runs, plan>>
<1> USE DEF searchVars, layoutVars, planVars, Writing, Laid, Stages, Planning
<1>1. CASE WriteBoot \/ BeginChunk \/ ChunkDone \/ GroupsWritten
  BY <1>1 DEF WriteBoot, BeginChunk, ChunkDone, GroupsWritten
<1>2. CASE \E i \in DOMAIN pending : write_group(i) \/ GroupDone(i)
  BY <1>2 DEF write_group, GroupDone
<1>3. CASE write_root_and_lost_found \/ write_journal \/ write_resize_inode_blocks \/ write_orphan_file
  BY <1>3 DEF write_root_and_lost_found, write_journal, write_resize_inode_blocks, write_orphan_file
<1>4. CASE write_mmp \/ write_reserved_inodes \/ WritePrimary \/ WriteBackups \/ Flush
  BY <1>4 DEF write_mmp, write_reserved_inodes, WritePrimary, WriteBackups, Flush
<1>5. CASE DeviceFails
  BY <1>5 DEF DeviceFails
<1>6. QED
  BY <1>1, <1>2, <1>3, <1>4, <1>5 DEF WriteGroups, WriteContents

\* Planning changes the plan alone.
LEMMA PlansKeep ==
    ASSUME Plan
    PROVE  pc \in Planning /\ pc' \in Laid \cup {"refused"} /\ UNCHANGED <<p, blocks, bpg, geom, places, meta>>
<1> USE DEF searchVars, layoutVars, Laid, Stages, Planning, Grant
<1>1. CASE PlanRoot \/ PlanLostFound \/ PlanResize
  BY <1>1 DEF PlanRoot, PlanLostFound, PlanResize
<1>2. CASE PlanJournal
  BY <1>2 DEF PlanJournal
<1>3. CASE PlanOrphan
  BY <1>3 DEF PlanOrphan
<1>4. CASE PlanMmp \/ PlanLeaves
  BY <1>4 DEF PlanMmp, PlanLeaves
<1>5. QED
  BY <1>1, <1>2, <1>3, <1>4 DEF Plan

\* The geometry's part of the invariant holds throughout.
LEMMA GeoStep ==
    ASSUME GeoInv, [Next]_vars
    PROVE  GeoInv'
<1>1. CASE Compute
  BY <1>1, SearchSteps
<1>2. ASSUME pc \in Laid, pc' \in Laid \cup {"refused"}, UNCHANGED <<p, blocks, bpg, geom, places, meta>> PROVE GeoInv'
  BY <1>2 DEF GeoInv, SearchInv, Laid, Stages
<1>3. CASE Plan
  <2>1. pc \in Laid /\ pc' \in Laid \cup {"refused"} /\ UNCHANGED <<p, blocks, bpg, geom, places, meta>>
    BY <1>3, PlansKeep DEF Planning, Laid, Stages
  <2>2. QED
    BY <1>2, <2>1
<1>4. CASE WriteGroups \/ WriteContents \/ DeviceFails
  <2>1. pc \in Laid /\ pc' \in Laid \cup {"refused"} /\ UNCHANGED <<p, blocks, bpg, geom, places, meta>>
    BY <1>4, WritesKeep DEF Writing
  <2>2. QED
    BY <1>2, <2>1
<1>5. CASE UNCHANGED vars
  BY <1>5 DEF vars, GeoInv, SearchInv
<1>6. QED
  BY <1>1, <1>3, <1>4, <1>5 DEF Next, Step

\* The search plans nothing, and what it settles on starts with an empty plan.
LEMMA SearchPlans ==
    ASSUME PlanInv, Compute
    PROVE  PlanInv'
<1>1. /\ pc \in {"features", "compute"} /\ pc' \in {"features", "compute", "root", "refused"}
      /\ p' = p /\ runs' = runs /\ plan' = plan
  BY DEF Compute, CheckFeatures, TooSmall, ShrinkGroups, DropLastGroup, Settle, planVars
<1>2. runs = {} /\ plan = NoPlan
  BY <1>1 DEF PlanInv
<1>3. ASSUME NEW g, NEW m PROVE Planned(g, m, {}, NoPlan, "root")
  BY NothingPlanned
<1>4. StageOf("root") = "root" /\ NoPlan.orphan = << >>
  BY DEF StageOf, Planning, NoPlan
<1>5. pc' \in Laid => pc' = "root"
  BY <1>1 DEF Laid
<1>6. runs' \subseteq 0 .. p'.blocks - 1
  BY <1>1, <1>2
<1>7. QED
  BY <1>1, <1>2, <1>3, <1>4, <1>5, <1>6 DEF PlanInv

\* The plan's part of the invariant holds throughout.
LEMMA PlanStep ==
    ASSUME GeoInv, PlanInv, [Next]_vars
    PROVE  PlanInv'
<1>1. CASE Compute
  BY <1>1, SearchPlans
<1>2. CASE Plan
  BY <1>2, RootStep, LostFoundStep, ResizeStep, JournalStep, OrphanStep, MmpStep, LeavesStep DEF Plan
<1>3. CASE WriteGroups \/ WriteContents \/ DeviceFails
  <2>1. /\ pc \in Laid /\ pc' \in Laid /\ StageOf(pc) = "boot" /\ StageOf(pc') = "boot"
        /\ UNCHANGED <<p, geom, meta, runs, plan>>
    BY <1>3, WritesKeep DEF Writing, StageOf
  <2>2. pc' \notin {"features", "compute"}
    BY <2>1 DEF Laid
  <2>3. QED
    BY <2>1, <2>2 DEF PlanInv
<1>4. CASE UNCHANGED vars
  BY <1>4 DEF vars, PlanInv
<1>5. QED
  BY <1>1, <1>2, <1>3, <1>4 DEF Next, Step

\* Every format starts with neither.
LEMMA PlanBegins == Init => GeoInv /\ PlanInv
<1> SUFFICES ASSUME Init PROVE GeoInv /\ PlanInv
  OBVIOUS
<1>1. pc = "features" /\ runs = {} /\ plan = NoPlan
  BY DEF Init
<1>2. pc \notin Laid
  BY <1>1 DEF Laid
<1>3. QED
  BY <1>1, <1>2, SearchBegins DEF GeoInv, PlanInv

\* In a geometry with room, the metadata of all groups and the blocks of all files are apart, and are as
\* many as they seem.
LEMMA SharesNothing ==
    ASSUME GeoInv, PlanInv, pc = "boot", HasRoom(geom, places)
    PROVE  NothingShared
<1>1. PICK g, at, m, r, pl, ext : g = geom /\ at = places /\ m = meta /\ r = runs /\ pl = plan /\ ext = HasExtents(g)
  OBVIOUS
<1>2. pc \in Laid /\ StageOf(pc) = "boot"
  BY DEF Laid, Stages, StageOf, Planning
<1>3. /\ IsGeometry(g) /\ CopiesFit(g) /\ at = group(g, Clear(g)) /\ TablesFit(g, at) /\ m = metadata_probe(g, at)
  BY <1>1, <1>2 DEF GeoInv, Settled, HasRoom
<1>4. Planned(g, m, r, pl, "boot")
  BY <1>1, <1>2 DEF PlanInv
<1>5. Cardinality(Fixed(g, at)) = Total(g, GroupsOf(g))
  BY <1>3, FixedCount
<1>6. Fixed(g, at) \subseteq m /\ Fixed(g, at) \subseteq g.first_data_block .. g.blocks_count - 1
  BY <1>3, FixedCount
<1>7. r \cap m = {} /\ r \subseteq g.first_data_block .. g.blocks_count - 1
  BY <1>4 DEF Planned, Allocated, Device
<1>8. Cardinality(r) = PlanSize(pl, ext) /\ PlanShape(pl, "boot", ext)
  BY <1>1, <1>4 DEF Planned
<1>9. PICK jo, oo : /\ jo = map_overhead(plan.journal_leaf, plan.journal_indirect)
                    /\ oo = map_overhead(plan.orphan_leaf, plan.orphan_indirect)
  OBVIOUS
<1>10. PICK di, mm, jn, on : /\ di = (IF plan.dind = 0 THEN 0 ELSE 1) /\ mm = (IF plan.mmp = 0 THEN 0 ELSE 1)
                             /\ jn = Len(plan.journal) /\ on = Len(plan.orphan)
  OBVIOUS
<1>11. Cardinality(r) = 1 + LostFound + di + mm + jn + jo + on + oo
  <2>1. One(pl.root) = 1 /\ (IF pl.lost_found = 0 THEN 0 ELSE LostFound) = LostFound
    BY <1>8 DEF PlanShape, One
  <2>2. Overhead(ext, pl.journal_leaf, pl.journal_indirect) = jo /\ Overhead(ext, pl.orphan_leaf, pl.orphan_indirect) = oo
    BY <1>1, <1>9 DEF Overhead, One, map_overhead, Extents, HasExtents
  <2>3. PartsAre(pl, ext, 1, LostFound, di, mm, jn, jo, on, oo)
    BY <1>1, <1>10, <2>1, <2>2 DEF PartsAre, One
  <2>4. PlanSize(pl, ext) = 1 + LostFound + di + mm + jn + jo + on + oo
    BY <1>8, <2>3, SizeIs
  <2>5. QED
    BY <1>8, <2>4
<1>12. r \cap Fixed(g, at) = {} /\ r \cup Fixed(g, at) \subseteq g.first_data_block .. g.blocks_count - 1
  BY <1>6, <1>7
<1>13. Cardinality(Fixed(geom, places)) = MapThenSumSet(LAMBDA i : super_overhead(geom, i) + 2 + geom.itable, GroupsOf(geom))
  <2>1. Cardinality(Fixed(geom, places)) = Total(geom, GroupsOf(geom))
    BY <1>1, <1>5
  <2>2. QED
    BY <2>1, Zenon DEF Total
<1>14. /\ runs \cap Fixed(geom, places) = {}
       /\ runs \cup Fixed(geom, places) \subseteq first_data .. geom.blocks_count - 1
  BY <1>1, <1>12 DEF first_data
<1>15. Cardinality(runs) = 1 + LostFound + (IF plan.dind = 0 THEN 0 ELSE 1) + (IF plan.mmp = 0 THEN 0 ELSE 1)
                           + Len(plan.journal) + map_overhead(plan.journal_leaf, plan.journal_indirect)
                           + Len(plan.orphan) + map_overhead(plan.orphan_leaf, plan.orphan_indirect)
  BY <1>1, <1>9, <1>10, <1>11, Zenon
<1>16. QED
  BY <1>13, <1>14, <1>15, Zenon DEF NothingShared, Fixed

\* Every block has one owner, whatever the geometry, if the groups have room for their own metadata:
\* place_flex packs no table over a superblock copy, metadata_probe finds all it placed, and no two
\* allocations of the plan meet.
THEOREM OneOwner == Spec => [](Roomy => NothingShared)
<1>1. Init => GeoInv /\ PlanInv
  BY PlanBegins
<1>2. GeoInv /\ PlanInv /\ [Next]_vars => (GeoInv /\ PlanInv)'
  BY GeoStep, PlanStep
<1>3. GeoInv /\ PlanInv => (Roomy => NothingShared)
  <2> SUFFICES ASSUME GeoInv, PlanInv, Roomy PROVE NothingShared
    OBVIOUS
  <2>1. CASE pc = "boot"
    BY <2>1, SharesNothing DEF Roomy, Laid, Stages
  <2>2. CASE pc # "boot"
    BY <2>2 DEF NothingShared
  <2>3. QED
    BY <2>1, <2>2
<1>4. QED
  BY <1>1, <1>2, <1>3, PTL DEF Spec

-----------------------------------------------------------------------------
(* The groups in flight *)

\* The writes a group in flight may be at.
Kinds == {"blocks", "inodes", "itable", "ready"}

\* A group before todo is in flight or has left its descriptor, never both.
Flight(pend, tab, first, next) ==
    /\ DOMAIN pend \cup DOMAIN tab \subseteq first .. next - 1
    /\ DOMAIN pend \cap DOMAIN tab = {}
    /\ \A i \in DOMAIN pend : pend[i] \in Kinds

\* The third part: the groups of this chunk, in flight or done.
ChunkInv ==
    /\ chunk \in Nat
    /\ pc = "groups" => /\ chunk < geom.desc_blocks /\ todo \in Nat /\ todo <= ChunkEnd
                        /\ Flight(pending, table, chunk * geom.desc_per_block, todo)

\* A chunk lies within the descriptor table, and its groups are groups.
LEMMA ChunkIs ==
    ASSUME GeoInv, pc \in Laid, chunk \in Nat, chunk < geom.desc_blocks
    PROVE  /\ ChunkBlocks \in Nat /\ chunk + ChunkBlocks <= geom.desc_blocks
           /\ ChunkEnd \in Nat /\ ChunkEnd <= geom.group_count /\ chunk * geom.desc_per_block \in Nat
<1>1. PICK D, dpb, G, c, k : /\ D = geom.desc_blocks /\ dpb = geom.desc_per_block /\ G = geom.group_count /\ c = chunk
                             /\ k = p.chunk
  OBVIOUS
<1>2. D \in Nat /\ dpb \in Nat \ {0} /\ G \in Nat /\ k \in Nat
  BY <1>1, ParamsAre DEF GeoInv, SearchInv, Settled, IsGeometry, IsParams
<1>3. Max({k, 1}) = IF k >= 1 THEN k ELSE 1
  BY <1>2, MaxOfTwo
<1>4. PICK a, b : a = Max({k, 1}) /\ b = Min({a, D - c})
  OBVIOUS
<1>5. c \in Nat /\ c < D /\ a \in Nat \ {0}
  BY <1>1, <1>2, <1>3, <1>4
<1>6. b = IF a <= D - c THEN a ELSE D - c
  <2>1. a \in Int /\ D - c \in Int
    BY <1>2, <1>5
  <2>2. QED
    BY <1>4, <2>1, MinOfTwo
<1>7. b \in Nat /\ c + b <= D
  BY <1>2, <1>5, <1>6
<1>8. ChunkBlocks = b
  BY <1>1, <1>4 DEF ChunkBlocks
<1>9. PICK e : e = (c + b) * dpb
  OBVIOUS
<1>10. e \in Nat /\ c * dpb \in Nat
  BY <1>2, <1>5, <1>7, <1>9
<1>11. Min({e, G}) = IF e <= G THEN e ELSE G
  BY <1>2, <1>10, MinOfTwo
<1>12. ChunkEnd = Min({e, G})
  BY <1>1, <1>8, <1>9 DEF ChunkEnd
<1>13. ChunkEnd \in Nat /\ ChunkEnd <= G
  BY <1>2, <1>10, <1>11, <1>12
<1>14. QED
  BY <1>1, <1>7, <1>8, <1>10, <1>13

\* A group that starts takes a number nobody has; one that ends leaves its descriptor.
LEMMA FlightGoesOn ==
    ASSUME NEW pend, NEW tab, NEW first \in Nat, NEW next \in Nat, Flight(pend, tab, first, next), NEW i \in DOMAIN pend
    PROVE  /\ \A k \in Kinds : Flight([pend EXCEPT ![i] = k], tab, first, next)
           /\ \A d : Flight([j \in DOMAIN pend \ {i} |-> pend[j]], At(i, d) ++ tab, first, next)
           /\ \A d : Flight(At(next, "blocks") ++ [j \in DOMAIN pend \ {i} |-> pend[j]], At(i, d) ++ tab, first, next + 1)
<1>1. ASSUME NEW k \in Kinds PROVE Flight([pend EXCEPT ![i] = k], tab, first, next)
  BY DEF Flight
<1>2. ASSUME NEW d PROVE DOMAIN (At(i, d) ++ tab) = {i} \cup DOMAIN tab
  BY DEF At, ++
<1>3. PICK rest : rest = [j \in DOMAIN pend \ {i} |-> pend[j]]
  OBVIOUS
<1>4. DOMAIN rest = DOMAIN pend \ {i} /\ \A j \in DOMAIN rest : rest[j] \in Kinds
  BY <1>3 DEF Flight
<1>5. PICK more : more = At(next, "blocks") ++ rest
  OBVIOUS
<1>6. /\ DOMAIN more = {next} \cup DOMAIN rest /\ \A j \in DOMAIN more : more[j] \in Kinds
  BY <1>4, <1>5 DEF At, ++, Kinds
<1>7. i \in first .. next - 1 /\ DOMAIN pend \subseteq first .. next - 1 /\ DOMAIN tab \subseteq first .. next - 1
  BY DEF Flight
<1>8. \A x \in first .. next - 1 : x # next /\ x \in first .. (next + 1) - 1
  OBVIOUS
<1>9. first <= next
  BY <1>7
<1>10. next \in first .. (next + 1) - 1
  BY <1>9
<1>11. ASSUME NEW d PROVE Flight(rest, At(i, d) ++ tab, first, next)
  <2>1. PICK t : t = At(i, d) ++ tab
    OBVIOUS
  <2>2. DOMAIN t = {i} \cup DOMAIN tab
    BY <1>2, <2>1
  <2>3. Flight(rest, t, first, next)
    BY <1>4, <1>7, <2>2 DEF Flight
  <2>4. QED
    BY <2>1, <2>3
<1>12. ASSUME NEW d PROVE Flight(more, At(i, d) ++ tab, first, next + 1)
  <2>1. PICK t : t = At(i, d) ++ tab
    OBVIOUS
  <2>2. DOMAIN t = {i} \cup DOMAIN tab
    BY <1>2, <2>1
  <2>3. DOMAIN more \cap DOMAIN t = {}
    BY <1>4, <1>6, <1>7, <1>8, <2>2 DEF Flight
  <2>4. DOMAIN more \cup DOMAIN t \subseteq first .. (next + 1) - 1
    BY <1>4, <1>6, <1>7, <1>8, <1>10, <2>2
  <2>5. Flight(more, t, first, next + 1)
    BY <1>6, <2>3, <2>4 DEF Flight
  <2>6. QED
    BY <2>1, <2>5
<1>13. QED
  BY <1>1, <1>3, <1>5, <1>11, <1>12

\* What is in flight stays in order.
LEMMA ChunkStep ==
    ASSUME GeoInv, ChunkInv, [Next]_vars
    PROVE  ChunkInv'
<1>1. ASSUME pc' # "groups", chunk' = chunk PROVE ChunkInv'
  BY <1>1 DEF ChunkInv
<1>2. CASE Compute \/ Plan
  <2>1. chunk' = chunk
    BY <1>2 DEF Compute, CheckFeatures, TooSmall, ShrinkGroups, DropLastGroup, Settle, Plan, PlanRoot, PlanLostFound,
                PlanResize, PlanJournal, PlanOrphan, PlanMmp, PlanLeaves, groupVars
  <2>2. pc' # "groups"
    <3>1. CASE Compute
      BY <3>1 DEF Compute, CheckFeatures, TooSmall, ShrinkGroups, DropLastGroup, Settle
    <3>2. CASE Plan
      BY <3>2 DEF Plan, PlanRoot, PlanLostFound, PlanResize, PlanJournal, PlanOrphan, PlanMmp, PlanLeaves, Grant
    <3>3. QED
      BY <1>2, <3>1, <3>2
  <2>3. QED
    BY <1>1, <2>1, <2>2
<1>3. CASE WriteContents \/ DeviceFails \/ WriteBoot \/ GroupsWritten
  <2>1. chunk' = chunk /\ pc' # "groups"
    BY <1>3 DEF WriteContents, DeviceFails, WriteBoot, GroupsWritten, write_root_and_lost_found, write_journal,
                write_resize_inode_blocks, write_orphan_file, write_mmp, write_reserved_inodes, WritePrimary,
                WriteBackups, Flush, groupVars
  <2>2. QED
    BY <1>1, <2>1
<1>4. CASE BeginChunk
  <2>1. PICK first, until : first = chunk * geom.desc_per_block /\ until = Min({first + concurrency, ChunkEnd})
    OBVIOUS
  <2>2. /\ pc = "chunk" /\ pc' = "groups" /\ chunk < geom.desc_blocks /\ chunk' = chunk /\ geom' = geom /\ p' = p
        /\ pending' = [i \in first .. until - 1 |-> "blocks"] /\ todo' = until /\ table' = << >>
    BY <1>4, <2>1 DEF BeginChunk, layoutVars
  <2>3. pc \in Laid /\ chunk \in Nat
    BY <2>2 DEF Laid, Stages, ChunkInv
  <2>4. ChunkEnd \in Nat /\ first \in Nat
    BY <2>1, <2>2, <2>3, ChunkIs
  <2>5. concurrency \in Nat
    <3>1. PICK k : k = p.concurrency
      OBVIOUS
    <3>2. k \in Nat
      BY <3>1, ParamsAre DEF GeoInv, SearchInv, IsParams
    <3>3. Max({k, 1}) = IF k >= 1 THEN k ELSE 1
      BY <3>2, MaxOfTwo
    <3>4. QED
      BY <3>1, <3>2, <3>3 DEF concurrency
  <2>6. PICK a, e : a = first + concurrency /\ e = ChunkEnd
    OBVIOUS
  <2>7. a \in Nat /\ e \in Nat
    BY <2>4, <2>5, <2>6
  <2>8. until = IF a <= e THEN a ELSE e
    BY <2>1, <2>6, <2>7, MinOfTwo
  <2>9. until \in Nat /\ until <= e
    BY <2>7, <2>8
  <2>10. Flight(pending', table', first, until)
    BY <2>2 DEF Flight, Kinds
  <2>11. ChunkEnd' = e
    BY <2>2, <2>6 DEF ChunkEnd, ChunkBlocks
  <2>12. first = chunk' * geom'.desc_per_block
    BY <2>1, <2>2
  <2>13. QED
    BY <2>2, <2>3, <2>9, <2>10, <2>11, <2>12 DEF ChunkInv
<1>5. CASE \E i \in DOMAIN pending : write_group(i) \/ GroupDone(i)
  <2>1. PICK i \in DOMAIN pending : write_group(i) \/ GroupDone(i)
    BY <1>5
  <2>2. PICK first, next, pend, tab, e :
           first = chunk * geom.desc_per_block /\ next = todo /\ pend = pending /\ tab = table /\ e = ChunkEnd
    OBVIOUS
  <2>3. pc = "groups" /\ pc' = pc /\ chunk' = chunk /\ geom' = geom /\ p' = p
    BY <2>1 DEF write_group, GroupDone, layoutVars
  <2>4. pc \in Laid /\ chunk \in Nat /\ chunk < geom.desc_blocks /\ Flight(pend, tab, first, next)
    BY <2>2, <2>3 DEF Laid, Stages, ChunkInv
  <2>5. first \in Nat /\ next \in Nat /\ e \in Nat /\ next <= e
    BY <2>2, <2>3, <2>4, ChunkIs DEF ChunkInv
  <2>6. ChunkEnd' = e
    BY <2>2, <2>3 DEF ChunkEnd, ChunkBlocks
  <2>7. ASSUME todo' \in Nat, todo' <= e, Flight(pending', table', first, todo') PROVE ChunkInv'
    BY <2>2, <2>3, <2>4, <2>6, <2>7 DEF ChunkInv
  <2>8. CASE write_group(i)
    <3>1. todo' = next /\ table' = tab /\ \E k \in Kinds : pending' = [pend EXCEPT ![i] = k]
      BY <2>2, <2>8 DEF write_group, Kinds
    <3>2. Flight(pending', table', first, todo')
      <4>1. PICK k \in Kinds : pending' = [pend EXCEPT ![i] = k]
        BY <3>1
      <4>2. Flight([pend EXCEPT ![i] = k], tab, first, next)
        BY <2>2, <2>4, <2>5, FlightGoesOn
      <4>3. QED
        BY <3>1, <4>1, <4>2
    <3>3. QED
      BY <2>5, <2>7, <3>1, <3>2
  <2>9. CASE GroupDone(i)
    <3>1. PICK d : /\ table' = At(i, d) ++ tab
                   /\ IF next < e
                      THEN pending' = At(next, "blocks") ++ [j \in DOMAIN pend \ {i} |-> pend[j]] /\ todo' = next + 1
                      ELSE pending' = [j \in DOMAIN pend \ {i} |-> pend[j]] /\ todo' = next
      BY <2>2, <2>9 DEF GroupDone
    <3>2. CASE next < e
      <4>1. /\ pending' = At(next, "blocks") ++ [j \in DOMAIN pend \ {i} |-> pend[j]] /\ todo' = next + 1
        BY <3>1, <3>2
      <4>2. Flight(At(next, "blocks") ++ [j \in DOMAIN pend \ {i} |-> pend[j]], At(i, d) ++ tab, first, next + 1)
        BY <2>2, <2>4, <2>5, FlightGoesOn
      <4>3. Flight(pending', table', first, todo')
        BY <3>1, <4>1, <4>2
      <4>4. QED
        BY <2>5, <2>7, <3>2, <4>1, <4>3
    <3>3. CASE ~(next < e)
      <4>1. pending' = [j \in DOMAIN pend \ {i} |-> pend[j]] /\ todo' = next
        BY <3>1, <3>3
      <4>2. Flight([j \in DOMAIN pend \ {i} |-> pend[j]], At(i, d) ++ tab, first, next)
        BY <2>2, <2>4, <2>5, FlightGoesOn
      <4>3. Flight(pending', table', first, todo')
        BY <3>1, <4>1, <4>2
      <4>4. QED
        BY <2>5, <2>7, <4>1, <4>3
    <3>4. QED
      BY <3>2, <3>3
  <2>10. QED
    BY <2>1, <2>8, <2>9
<1>6. CASE ChunkDone
  <2>1. pc = "groups" /\ pc' = "chunk" /\ chunk' = chunk + ChunkBlocks
    BY <1>6 DEF ChunkDone
  <2>2. pc \in Laid /\ chunk \in Nat /\ chunk < geom.desc_blocks
    BY <2>1 DEF Laid, Stages, ChunkInv
  <2>3. ChunkBlocks \in Nat
    BY <2>2, ChunkIs
  <2>4. QED
    BY <2>1, <2>2, <2>3 DEF ChunkInv
<1>7. CASE UNCHANGED vars
  BY <1>7 DEF vars, ChunkInv, ChunkEnd, ChunkBlocks
<1>8. QED
  BY <1>2, <1>3, <1>4, <1>5, <1>6, <1>7 DEF Next, Step, WriteGroups

-----------------------------------------------------------------------------
(* What is written is on the device *)

\* The blocks of the device.
Disk(q) == 0 .. q.blocks - 1

\* The descriptors of a group that holds them lie in the front of it.
LEMMA DescsInFront ==
    ASSUME NEW g, IsGeometry(g), NEW i \in GroupsOf(g), group_has_desc(g, i)
    PROVE  /\ desc_block_location(g, i) \in SuperRegion(g, i)
           /\ Classic(g, i) => \A n \in 0 .. g.desc_blocks + g.reserved_gdt - 1 :
                                  desc_block_location(g, i) + n \in SuperRegion(g, i)
<1>1. PICK a, s, D, r : /\ a = group_first_block(g, i) /\ s = (IF has_super(g, i) THEN 1 ELSE 0)
                        /\ D = g.desc_blocks /\ r = g.reserved_gdt
  OBVIOUS
<1>2. a \in Nat /\ s \in {0, 1} /\ D \in Nat \ {0} /\ r \in Nat
  BY <1>1, GroupIs DEF IsGeometry
<1>3. super_overhead(g, i) = s + (IF Classic(g, i) THEN D + r ELSE 1)
  BY <1>1 DEF super_overhead, desc_blocks_in_group
<1>4. desc_block_location(g, i) = a + s
  BY <1>1 DEF desc_block_location
<1>5. SuperRegion(g, i) = a .. a + super_overhead(g, i) - 1
  BY <1>1 DEF SuperRegion
<1>6. CASE Classic(g, i)
  <2>1. SuperRegion(g, i) = a .. a + (s + (D + r)) - 1
    BY <1>3, <1>5, <1>6
  <2>2. ASSUME NEW n \in 0 .. D + r - 1 PROVE a + s + n \in a .. a + (s + (D + r)) - 1
    BY <1>2
  <2>3. a + s \in a .. a + (s + (D + r)) - 1
    BY <1>2
  <2>4. QED
    BY <1>1, <1>4, <2>1, <2>2, <2>3
<1>7. CASE ~Classic(g, i)
  <2>1. SuperRegion(g, i) = a .. a + (s + 1) - 1
    BY <1>3, <1>5, <1>7
  <2>2. a + s \in a .. a + (s + 1) - 1
    BY <1>2
  <2>3. QED
    BY <1>4, <1>7, <2>1, <2>2
<1>8. QED
  BY <1>6, <1>7

\* The first group holds the primary superblock, and the whole table where there are reserved blocks.
LEMMA PrimaryInFront ==
    ASSUME NEW g, NEW q, IsGeometry(g), IsSettled(g, q, g.blocks_count)
    PROVE  /\ 0 \in GroupsOf(g) /\ group_first_block(g, 0) = g.first_data_block
           /\ g.first_data_block \in SuperRegion(g, 0)
           /\ g.reserved_gdt > 0 => Classic(g, 0) /\ group_has_desc(g, 0)
           /\ desc_block_location(g, 0) = g.first_data_block + 1
<1>1. 0 \in GroupsOf(g) /\ g.blocks_per_group \in Nat /\ g.first_data_block \in Nat
  BY DEF IsGeometry, GroupsOf
<1>2. has_super(g, 0)
  BY DEF has_super, has_super_for
<1>3. group_first_block(g, 0) = g.first_data_block
  BY <1>1 DEF group_first_block
<1>4. PICK d : d = desc_blocks_in_group(g, 0)
  OBVIOUS
<1>5. d \in Nat /\ super_overhead(g, 0) = 1 + d
  BY <1>2, <1>4 DEF IsGeometry, desc_blocks_in_group, super_overhead
<1>6. g.first_data_block \in g.first_data_block .. g.first_data_block + (1 + d) - 1
  BY <1>1, <1>5
<1>7. g.first_data_block \in SuperRegion(g, 0)
  BY <1>3, <1>5, <1>6 DEF SuperRegion
<1>8. g.reserved_gdt > 0 => Classic(g, 0)
  BY DEF IsSettled, IsGeometry, Classic
<1>9. g.reserved_gdt > 0 => group_has_desc(g, 0)
  BY <1>2, <1>8 DEF group_has_desc
<1>10. QED
  BY <1>1, <1>2, <1>3, <1>7, <1>8, <1>9 DEF desc_block_location

\* Everything a group owns is on the device.
LEMMA OwnOnDisk ==
    ASSUME NEW g, NEW at, NEW m, NEW q \in Params, Settled(g, at, m, q), HasRoom(g, at)
    PROVE  /\ Device(g) \subseteq Disk(q)
           /\ \A i \in GroupsOf(g) : /\ SuperRegion(g, i) \subseteq Disk(q) /\ MetaBlocks(g, at[i]) \subseteq Disk(q)
                                     /\ group_first_block(g, i) \in Disk(q)
                                     /\ at[i].inode_table \in Nat
<1>1. /\ IsGeometry(g) /\ CopiesFit(g) /\ at = group(g, Clear(g)) /\ TablesFit(g, at) /\ g.blocks_count <= q.blocks
  BY DEF Settled, HasRoom
<1>2. g.first_data_block \in Nat /\ g.blocks_count \in Nat /\ q.blocks \in Nat
  BY <1>1, ParamsAre DEF IsGeometry, IsParams
<1>3. Device(g) \subseteq Disk(q)
  BY <1>1, <1>2 DEF Device, Disk
<1>4. ASSUME NEW i \in GroupsOf(g)
      PROVE  SuperRegion(g, i) \subseteq Disk(q) /\ MetaBlocks(g, at[i]) \subseteq Disk(q)
  <2>1. Own(g, at, i) \subseteq Device(g)
    BY <1>1, OwnBlocks DEF OwnIs, Device
  <2>2. QED
    BY <1>3, <2>1 DEF Own
<1>5. ASSUME NEW i \in GroupsOf(g) PROVE at[i].inode_table \in Nat
  BY <1>1, OwnBlocks DEF OwnIs
<1>6. ASSUME NEW i \in GroupsOf(g) PROVE group_first_block(g, i) \in Disk(q)
  <2>1. PICK a, z : a = group_first_block(g, i) /\ z = group_last_block(g, i)
    OBVIOUS
  <2>2. a \in Nat /\ z \in Nat /\ a <= z /\ z < g.blocks_count
    BY <1>1, <2>1, GroupIs
  <2>3. QED
    BY <1>1, <1>2, <2>1, <2>2 DEF Disk
<1>7. QED
  BY <1>3, <1>4, <1>5, <1>6

\* A stage at which the device is written, in a geometry with room.
Ready == GeoInv /\ PlanInv /\ ChunkInv /\ pc \in Writing /\ HasRoom(geom, places)

\* A step that writes blocks of the device and no others.
OnDisk == \E w : DOMAIN w \subseteq Disk(p) /\ image' = w ++ image /\ safe' = safe

\* Where the blocks written are.
LEMMA Domains ==
    ASSUME NEW v, NEW w, NEW b, NEW c, NEW S
    PROVE  /\ DOMAIN (v ++ w) = DOMAIN v \cup DOMAIN w /\ DOMAIN At(b, c) = {b}
           /\ DOMAIN Zeroes(S) = S /\ DOMAIN << >> = {}
  BY DEF ++, At, Zeroes

\* What is known of a plan being written.
LEMMA ReadyIs ==
    ASSUME Ready
    PROVE  /\ Settled(geom, places, meta, p) /\ IsGeometry(geom) /\ IsSettled(geom, p, geom.blocks_count) /\ p \in Params
           /\ PlanShape(plan, "boot", HasExtents(geom)) /\ PlanBlocks(plan, runs) /\ runs \subseteq Disk(p)
           /\ "orphan_file" \notin geom.features => plan.orphan = << >>
           /\ \A i \in GroupsOf(geom) : /\ SuperRegion(geom, i) \subseteq Disk(p)
                                        /\ MetaBlocks(geom, places[i]) \subseteq Disk(p)
                                        /\ group_first_block(geom, i) \in Disk(p) /\ places[i].inode_table \in Nat
<1>1. pc \in Laid /\ StageOf(pc) = "boot"
  BY DEF Ready, Writing, StageOf
<1>2. Settled(geom, places, meta, p) /\ p \in Params
  BY <1>1 DEF Ready, GeoInv, SearchInv
<1>3. PICK g, at, m, q : g = geom /\ at = places /\ m = meta /\ q = p
  OBVIOUS
<1>4. \A i \in GroupsOf(g) : /\ SuperRegion(g, i) \subseteq Disk(q)
                             /\ MetaBlocks(g, at[i]) \subseteq Disk(q)
                             /\ group_first_block(g, i) \in Disk(q) /\ at[i].inode_table \in Nat
  BY <1>2, <1>3, OwnOnDisk DEF Ready
<1>5. /\ Planned(geom, meta, runs, plan, "boot") /\ runs \subseteq Disk(p)
      /\ "orphan_file" \notin geom.features => plan.orphan = << >>
  BY <1>1 DEF Ready, PlanInv, Disk
<1>6. QED
  BY <1>2, <1>3, <1>4, <1>5 DEF Planned, Settled

\* The boot block, and the reserved descriptor blocks behind a whole copy of the table.
LEMMA BootOnDisk ==
    ASSUME Ready, WriteBoot
    PROVE  OnDisk
<1>1. PICK g, q, S : /\ g = geom /\ q = p
                     /\ S = (IF first_data = 1 THEN {0} ELSE {})
                            \cup (IF p.zeroed_medium \/ ClassicCopies = {} THEN {}
                                  ELSE Min(ClassicCopies) + geom.desc_blocks
                                       .. Min(ClassicCopies) + geom.desc_blocks + geom.reserved_gdt - 1)
  OBVIOUS
<1>2. image' = Zeroes(S) ++ image /\ safe' = safe
  BY <1>1 DEF WriteBoot, Put
<1>3. IsGeometry(g) /\ IsSettled(g, q, g.blocks_count) /\ \A i \in GroupsOf(g) : SuperRegion(g, i) \subseteq Disk(q)
  BY <1>1, ReadyIs
<1>4. 0 \in Disk(q)
  <2>1. g.first_data_block \in Disk(q)
    BY <1>3, PrimaryInFront
  <2>2. PICK n, f : n = q.blocks /\ f = g.first_data_block
    OBVIOUS
  <2>3. n \in Nat /\ q \in Params
    BY <1>1, <2>2, ReadyIs, ParamsAre DEF IsParams
  <2>4. f \in 0 .. n - 1 => 0 \in 0 .. n - 1
    BY <2>3
  <2>5. QED
    BY <1>1, <2>1, <2>2, <2>4 DEF Disk
<1>5. ASSUME ClassicCopies # {}, NEW b \in Min(ClassicCopies) + geom.desc_blocks
                                         .. Min(ClassicCopies) + geom.desc_blocks + geom.reserved_gdt - 1
      PROVE  b \in Disk(q)
  <2>1. ASSUME NEW i \in GroupsOf(g), Classic(g, i), group_has_desc(g, i)
        PROVE  desc_block_location(g, i) \in Nat
    <3>1. desc_block_location(g, i) \in Disk(q)
      BY <1>3, <2>1, DescsInFront
    <3>2. QED
      BY <3>1 DEF Disk
  <2>2. ClassicCopies \subseteq Nat
    BY <1>1, <2>1 DEF ClassicCopies
  <2>3. Min(ClassicCopies) \in ClassicCopies
    BY <1>5, <2>2, MinIs
  <2>4. PICK i \in GroupsOf(g) : Classic(g, i) /\ group_has_desc(g, i) /\ Min(ClassicCopies) = desc_block_location(g, i)
    BY <1>1, <2>3 DEF ClassicCopies
  <2>5. PICK loc, D, r : loc = desc_block_location(g, i) /\ D = g.desc_blocks /\ r = g.reserved_gdt
    OBVIOUS
  <2>6. \A n \in 0 .. D + r - 1 : loc + n \in Disk(q)
    BY <1>3, <2>4, <2>5, DescsInFront
  <2>7. loc \in Nat /\ D \in Nat /\ r \in Nat /\ b \in loc + D .. loc + D + r - 1
    BY <1>1, <1>3, <1>5, <2>1, <2>4, <2>5 DEF IsGeometry
  <2>8. b - loc \in 0 .. D + r - 1 /\ loc + (b - loc) = b
    BY <2>7
  <2>9. QED
    BY <2>6, <2>8
<1>6. S \subseteq Disk(q)
  BY <1>1, <1>4, <1>5
<1>7. DOMAIN Zeroes(S) \subseteq Disk(p)
  BY <1>1, <1>6, Domains
<1>8. QED
  BY <1>2, <1>7 DEF OnDisk

\* A bitmap or inode table of a group in flight.
LEMMA GroupOnDisk ==
    ASSUME Ready, NEW i \in DOMAIN pending, write_group(i)
    PROVE  OnDisk
<1>1. PICK d : d = build_group(i).desc
  OBVIOUS
<1>2. /\ d.block_bitmap = places[i].block_bitmap /\ d.inode_bitmap = places[i].inode_bitmap
      /\ d.inode_table = places[i].inode_table
  BY <1>1 DEF build_group
<1>3. i \in GroupsOf(geom)
  <2>1. PICK e, G, f, t : e = ChunkEnd /\ G = geom.group_count /\ f = chunk * geom.desc_per_block /\ t = todo
    OBVIOUS
  <2>2. pc = "groups" /\ pc \in Laid
    BY DEF write_group, Ready, Writing
  <2>3. chunk \in Nat /\ chunk < geom.desc_blocks /\ t \in Nat /\ t <= e /\ i \in f .. t - 1
    BY <2>1, <2>2 DEF Ready, ChunkInv, Flight
  <2>4. e \in Nat /\ e <= G /\ f \in Nat
    BY <2>1, <2>2, <2>3, ChunkIs DEF Ready
  <2>5. G \in Nat
    BY <2>1, ReadyIs DEF IsGeometry
  <2>6. i \in 0 .. G - 1
    BY <2>3, <2>4, <2>5
  <2>7. QED
    BY <2>1, <2>6 DEF GroupsOf
<1>4. MetaBlocks(geom, places[i]) \subseteq Disk(p)
  BY <1>3, ReadyIs
<1>5. {d.block_bitmap} \subseteq Disk(p) /\ {d.inode_bitmap} \subseteq Disk(p)
      /\ (d.inode_table .. d.inode_table + geom.itable - 1) \subseteq Disk(p)
  BY <1>2, <1>4 DEF MetaBlocks
<1>6. safe' = safe /\ \E w : image' = w ++ image /\
         \/ w = << >>
         \/ \E c : w = At(d.block_bitmap, c) \/ w = At(d.inode_bitmap, c)
         \/ w = Zeroes(d.inode_table .. d.inode_table + geom.itable - 1)
  BY <1>1 DEF write_group, Put
<1>7. PICK w : image' = w ++ image /\
         \/ w = << >>
         \/ \E c : w = At(d.block_bitmap, c) \/ w = At(d.inode_bitmap, c)
         \/ w = Zeroes(d.inode_table .. d.inode_table + geom.itable - 1)
  BY <1>6
<1>8. DOMAIN w \subseteq Disk(p)
  <2>1. CASE w = << >>
    BY <2>1, Domains
  <2>2. ASSUME NEW c, w = At(d.block_bitmap, c) \/ w = At(d.inode_bitmap, c) PROVE DOMAIN w \subseteq Disk(p)
    <3>1. DOMAIN At(d.block_bitmap, c) = {d.block_bitmap} /\ DOMAIN At(d.inode_bitmap, c) = {d.inode_bitmap}
      BY Domains
    <3>2. QED
      BY <1>5, <2>2, <3>1
  <2>3. CASE w = Zeroes(d.inode_table .. d.inode_table + geom.itable - 1)
    <3>1. DOMAIN w = d.inode_table .. d.inode_table + geom.itable - 1
      BY <2>3, Domains
    <3>2. QED
      BY <1>5, <3>1
  <2>4. QED
    BY <1>7, <2>1, <2>2, <2>3
<1>9. QED
  BY <1>6, <1>7, <1>8 DEF OnDisk

\* The descriptor blocks of a chunk, where the table is whole and where it is spread.
Copies(these) == [b \in {c + n : c \in ClassicCopies, n \in these} |->
                     DescBlock(CHOOSE n \in these : b - n \in ClassicCopies)]
Spread(held) == [b \in UNION {{desc_block_location(geom, i) : i \in Holders(n)} : n \in held} |->
                    DescBlock(CHOOSE n \in held : \E i \in Holders(n) : desc_block_location(geom, i) = b)]

\* The descriptors of a chunk, in every copy.
LEMMA DescsOnDisk ==
    ASSUME Ready, ChunkDone
    PROVE  OnDisk
<1>1. PICK g, q, these, held : /\ g = geom /\ q = p /\ these = chunk .. chunk + ChunkBlocks - 1
                               /\ held = {n \in these : geom.meta_bg /\ n >= geom.first_meta_bg}
  OBVIOUS
<1>2. PICK v, w : v = Spread(held) /\ w = Copies(these)
  OBVIOUS
<1>3. safe' = safe /\ image' = (v ++ w) ++ image
  <2>1. Put(Spread({n \in chunk .. chunk + ChunkBlocks - 1 : geom.meta_bg /\ n >= geom.first_meta_bg})
            ++ Copies(chunk .. chunk + ChunkBlocks - 1))
    BY DEF ChunkDone, Spread, Copies
  <2>2. QED
    BY <1>1, <1>2, <2>1 DEF Put
<1>4. IsGeometry(g) /\ \A i \in GroupsOf(g) : SuperRegion(g, i) \subseteq Disk(q)
  BY <1>1, ReadyIs
<1>5. pc = "groups" /\ pc \in Laid /\ chunk \in Nat /\ chunk < geom.desc_blocks
  BY DEF ChunkDone, Ready, Writing, ChunkInv
<1>6. PICK c0, k, D, r : c0 = chunk /\ k = ChunkBlocks /\ D = g.desc_blocks /\ r = g.reserved_gdt
  OBVIOUS
<1>7. c0 \in Nat /\ k \in Nat /\ c0 + k <= D /\ D \in Nat /\ r \in Nat
  BY <1>1, <1>4, <1>5, <1>6, ChunkIs DEF Ready, IsGeometry
<1>8. these \subseteq 0 .. D + r - 1 /\ these \subseteq Nat
  BY <1>1, <1>6, <1>7
<1>9. ASSUME NEW b \in DOMAIN w PROVE b \in Disk(q)
  <2>1. PICK c \in ClassicCopies, n \in these : b = c + n
    BY <1>2 DEF Copies
  <2>2. PICK i \in GroupsOf(g) : Classic(g, i) /\ group_has_desc(g, i) /\ c = desc_block_location(g, i)
    BY <1>1 DEF ClassicCopies
  <2>3. QED
    BY <1>4, <1>6, <1>8, <2>1, <2>2, DescsInFront
<1>10. ASSUME NEW b \in DOMAIN v PROVE b \in Disk(q)
  <2>1. PICK n \in held : \E i \in Holders(n) : b = desc_block_location(geom, i)
    BY <1>2 DEF Spread
  <2>2. PICK i \in Holders(n) : b = desc_block_location(geom, i)
    BY <2>1
  <2>3. PICK dpb, G, e : dpb = geom.desc_per_block /\ G = geom.group_count /\ e = n * dpb
    OBVIOUS
  <2>4. n \in Nat /\ dpb \in Nat \ {0} /\ G \in Nat
    BY <1>1, <1>4, <1>8, <2>3 DEF IsGeometry
  <2>5. e \in Nat
    BY <2>3, <2>4
  <2>6. i \in {e, e + 1, e + dpb - 1} /\ i < G /\ group_has_desc(geom, i)
    BY <2>3 DEF Holders
  <2>7. i \in 0 .. G - 1
    BY <2>4, <2>5, <2>6
  <2>8. i \in GroupsOf(g)
    BY <1>1, <2>3, <2>7 DEF GroupsOf
  <2>9. QED
    BY <1>1, <1>4, <2>2, <2>6, <2>8, DescsInFront
<1>11. DOMAIN (v ++ w) = DOMAIN v \cup DOMAIN w
  BY Domains
<1>12. DOMAIN (v ++ w) \subseteq Disk(p)
  BY <1>1, <1>9, <1>10, <1>11
<1>13. QED
  BY <1>3, <1>12 DEF OnDisk

\* Writes on the device, one set over another.
LEMMA OverIsOn ==
    ASSUME NEW v, NEW w, NEW D, DOMAIN v \subseteq D, DOMAIN w \subseteq D
    PROVE  DOMAIN (v ++ w) \subseteq D
<1>1. DOMAIN (v ++ w) = DOMAIN v \cup DOMAIN w
  BY Domains
<1>2. QED
  BY <1>1

\* A block of a file's map, where there is one.
LEMMA MapIsOn ==
    ASSUME NEW map, NEW leaf, NEW list, NEW D, NodeBlocks(map) \subseteq D, {leaf} \ {0} \subseteq D
    PROVE  DOMAIN MapContents(map) \subseteq D /\ DOMAIN LeafContents(leaf, list) \subseteq D
<1>1. DOMAIN MapContents(map) \subseteq D
  BY DEF MapContents
<1>2. DOMAIN LeafContents(leaf, list) \subseteq D
  <2>1. CASE leaf = 0
    BY <2>1, Domains DEF LeafContents
  <2>2. CASE leaf # 0
    <3>1. DOMAIN At(leaf, [is |-> "extents", extents |-> list]) = {leaf}
      BY Domains
    <3>2. QED
      BY <2>2, <3>1 DEF LeafContents
  <2>3. QED
    BY <2>1, <2>2
<1>3. QED
  BY <1>1, <1>2

\* What the plan holds is on the device.
LEMMA PlanOnDisk ==
    ASSUME Ready
    PROVE  /\ {plan.root, plan.dind, plan.mmp, plan.journal_leaf, plan.orphan_leaf} \ {0} \subseteq Disk(p)
           /\ plan.root # 0 /\ LostFoundBlocks \subseteq Disk(p)
           /\ plan.journal \in Seq(Nat) /\ Range(plan.journal) \subseteq Disk(p) /\ Range(plan.orphan) \subseteq Disk(p)
           /\ NodeBlocks(plan.journal_indirect) \subseteq Disk(p) /\ NodeBlocks(plan.orphan_indirect) \subseteq Disk(p)
<1>1. PICK pl, r, D : pl = plan /\ r = runs /\ D = Disk(p)
  OBVIOUS
<1>2. PlanShape(pl, "boot", HasExtents(geom)) /\ PlanBlocks(pl, r) /\ r \subseteq D
  BY <1>1, ReadyIs
<1>3. pl.root # 0 /\ pl.lost_found # 0 /\ pl.journal \in Seq(Nat)
  BY <1>2 DEF PlanShape
<1>4. /\ {pl.root, pl.dind, pl.mmp, pl.journal_leaf, pl.orphan_leaf} \ {0} \subseteq D
      /\ Range(pl.journal) \subseteq D /\ Range(pl.orphan) \subseteq D
      /\ NodeBlocks(pl.journal_indirect) \subseteq D /\ NodeBlocks(pl.orphan_indirect) \subseteq D
  BY <1>2 DEF PlanBlocks
<1>5. (pl.lost_found .. pl.lost_found + LostFound - 1) \subseteq D
  BY <1>2, <1>3 DEF PlanBlocks
<1>6. QED
  BY <1>1, <1>3, <1>4, <1>5 DEF LostFoundBlocks

\* The two directories.
LEMMA DirsOnDisk ==
    ASSUME Ready, write_root_and_lost_found
    PROVE  OnDisk
<1>1. PICK v, w : /\ v = At(plan.root, [is |-> "entries", names |-> {<<".", ROOT>>, <<"..", ROOT>>, <<"lost+found", FIRST_INO>>}])
                  /\ w = [b \in LostFoundBlocks |->
                            [is |-> "entries",
                             names |-> IF b = plan.lost_found THEN {<<".", FIRST_INO>>, <<"..", ROOT>>} ELSE {}]]
  OBVIOUS
<1>2. image' = (v ++ w) ++ image /\ safe' = safe
  BY <1>1 DEF write_root_and_lost_found, Put
<1>3. DOMAIN v = {plan.root} /\ DOMAIN w = LostFoundBlocks
  BY <1>1, Domains
<1>4. DOMAIN v \subseteq Disk(p) /\ DOMAIN w \subseteq Disk(p)
  BY <1>3, PlanOnDisk
<1>5. DOMAIN (v ++ w) \subseteq Disk(p)
  BY <1>4, OverIsOn
<1>6. QED
  BY <1>2, <1>5 DEF OnDisk

\* The journal: its map, its superblock, and every block of it cleared.
LEMMA JournalOnDisk ==
    ASSUME Ready, write_journal
    PROVE  OnDisk
<1>1. CASE plan.journal = << >>
  <2>1. image' = << >> ++ image /\ safe' = safe
    BY <1>1 DEF write_journal, Put
  <2>2. DOMAIN << >> \subseteq Disk(p)
    BY Domains
  <2>3. QED
    BY <2>1, <2>2 DEF OnDisk
<1>2. CASE plan.journal # << >>
  <2>1. PICK a, b, c, d, s : /\ a = MapContents(plan.journal_indirect)
                             /\ b = LeafContents(plan.journal_leaf, plan.journal_extents)
                             /\ c = (IF p.zeroed_medium THEN << >> ELSE Zeroes(Range(Tail(plan.journal))))
                             /\ d = At(Head(plan.journal), [is |-> "jsb", blocks |-> Len(plan.journal)])
                             /\ s = plan.journal
    OBVIOUS
  <2>2. image' = (((a ++ b) ++ c) ++ d) ++ image /\ safe' = safe
    BY <1>2, <2>1 DEF write_journal, Put
  <2>3. DOMAIN a \subseteq Disk(p) /\ DOMAIN b \subseteq Disk(p)
    BY <2>1, PlanOnDisk, MapIsOn
  <2>4. s \in Seq(Nat) /\ s # << >> /\ Range(s) \subseteq Disk(p)
    BY <1>2, <2>1, PlanOnDisk
  <2>5. Head(s) \in Range(s) /\ Range(Tail(s)) \subseteq Range(s)
    BY <2>4 DEF Range
  <2>6. DOMAIN c \subseteq Disk(p)
    <3>1. DOMAIN Zeroes(Range(Tail(s))) = Range(Tail(s)) /\ DOMAIN << >> = {}
      BY Domains
    <3>2. QED
      BY <2>1, <2>4, <2>5, <3>1
  <2>7. DOMAIN d \subseteq Disk(p)
    <3>1. DOMAIN d = {Head(s)}
      BY <2>1, Domains
    <3>2. QED
      BY <2>4, <2>5, <3>1
  <2>8. DOMAIN (a ++ b) \subseteq Disk(p)
    BY <2>3, OverIsOn
  <2>9. DOMAIN ((a ++ b) ++ c) \subseteq Disk(p)
    BY <2>6, <2>8, OverIsOn
  <2>10. DOMAIN (((a ++ b) ++ c) ++ d) \subseteq Disk(p)
    BY <2>7, <2>9, OverIsOn
  <2>11. QED
    BY <2>2, <2>10 DEF OnDisk
<1>3. QED
  BY <1>1, <1>2

\* The double indirect block of the resize inode, and the reserved descriptor blocks it lists.
Dindir ==
    LET gdt_blk(r) == first_data + 1 + geom.desc_blocks + r
        gdt_off(r) == (geom.desc_blocks + r) % AddrPerBlock
    IN  [is |-> "pointers",
         ptr |-> [j \in 0 .. AddrPerBlock - 1 |->
                     Max({0} \cup {gdt_blk(r) : r \in {x \in 0 .. geom.reserved_gdt - 1 : gdt_off(x) = j}})]]
ReservedLists ==
    LET backups == Ascending[backup_groups(geom)]
    IN  [b \in {first_data + 1 + geom.desc_blocks + r : r \in 0 .. geom.reserved_gdt - 1} |->
            [is |-> "pointers",
             ptr |-> [j \in 0 .. AddrPerBlock - 1 |->
                         IF j + 1 \in DOMAIN backups THEN b + backups[j + 1] * geom.blocks_per_group ELSE 0]]]

\* They are on the device.
LEMMA ResizeOnDisk ==
    ASSUME Ready, write_resize_inode_blocks
    PROVE  OnDisk
<1>1. CASE plan.dind = 0
  <2>1. image' = << >> ++ image /\ safe' = safe
    BY <1>1 DEF write_resize_inode_blocks, Put
  <2>2. DOMAIN << >> \subseteq Disk(p)
    BY Domains
  <2>3. QED
    BY <2>1, <2>2 DEF OnDisk
<1>2. CASE plan.dind # 0
  <2>0. PICK c, w : c = Dindir /\ w = ReservedLists
    OBVIOUS
  <2>1. safe' = safe /\ image' = (At(plan.dind, c) ++ w) ++ image
    <3>1. Put(IF plan.dind = 0 THEN << >> ELSE At(plan.dind, Dindir) ++ ReservedLists)
      BY DEF write_resize_inode_blocks, Dindir, ReservedLists
    <3>2. QED
      BY <1>2, <2>0, <3>1 DEF Put
  <2>2. DOMAIN w = {first_data + 1 + geom.desc_blocks + r : r \in 0 .. geom.reserved_gdt - 1}
    BY <2>0 DEF ReservedLists
  <2>3. DOMAIN At(plan.dind, c) = {plan.dind}
    BY Domains
  <2>4. DOMAIN At(plan.dind, c) \subseteq Disk(p)
    BY <1>2, <2>3, PlanOnDisk
  <2>5. PICK g, q : g = geom /\ q = p
    OBVIOUS
  <2>6. IsGeometry(g) /\ IsSettled(g, q, g.blocks_count) /\ \A i \in GroupsOf(g) : SuperRegion(g, i) \subseteq Disk(q)
    BY <2>5, ReadyIs
  <2>7. ASSUME NEW r \in 0 .. geom.reserved_gdt - 1 PROVE first_data + 1 + geom.desc_blocks + r \in Disk(q)
    <3>1. PICK f, D, k : f = g.first_data_block /\ D = g.desc_blocks /\ k = g.reserved_gdt
      OBVIOUS
    <3>2. f \in Nat /\ D \in Nat /\ k \in Nat /\ r \in 0 .. k - 1
      BY <2>5, <2>6, <3>1 DEF IsGeometry
    <3>3. k > 0 /\ D + r \in 0 .. D + k - 1 /\ f + 1 + D + r = (f + 1) + (D + r)
      BY <3>2
    <3>4. 0 \in GroupsOf(g) /\ Classic(g, 0) /\ group_has_desc(g, 0) /\ desc_block_location(g, 0) = f + 1
      BY <2>6, <3>1, <3>3, PrimaryInFront
    <3>5. (f + 1) + (D + r) \in SuperRegion(g, 0)
      BY <2>6, <3>1, <3>3, <3>4, DescsInFront
    <3>6. QED
      BY <2>5, <2>6, <3>1, <3>3, <3>4, <3>5 DEF first_data
  <2>8. DOMAIN w \subseteq Disk(p)
    BY <2>2, <2>5, <2>7
  <2>9. DOMAIN (At(plan.dind, c) ++ w) \subseteq Disk(p)
    BY <2>4, <2>8, OverIsOn
  <2>10. QED
    BY <2>1, <2>2, <2>9 DEF OnDisk
<1>3. QED
  BY <1>1, <1>2

\* The orphan file and its map.
LEMMA OrphanOnDisk ==
    ASSUME Ready, write_orphan_file
    PROVE  OnDisk
<1>1. PICK a, b, c : /\ a = MapContents(plan.orphan_indirect)
                     /\ b = LeafContents(plan.orphan_leaf, plan.orphan_extents)
                     /\ c = [x \in Range(plan.orphan) |-> [is |-> "orphans", at |-> x]]
  OBVIOUS
<1>2. image' = ((a ++ b) ++ c) ++ image /\ safe' = safe
  BY <1>1 DEF write_orphan_file, Put
<1>3. DOMAIN a \subseteq Disk(p) /\ DOMAIN b \subseteq Disk(p)
  BY <1>1, PlanOnDisk, MapIsOn
<1>4. DOMAIN c \subseteq Disk(p)
  BY <1>1, PlanOnDisk
<1>5. DOMAIN (a ++ b) \subseteq Disk(p)
  BY <1>3, OverIsOn
<1>6. DOMAIN ((a ++ b) ++ c) \subseteq Disk(p)
  BY <1>4, <1>5, OverIsOn
<1>7. QED
  BY <1>2, <1>6 DEF OnDisk

\* The MMP block, where there is one.
LEMMA MmpOnDisk ==
    ASSUME Ready, write_mmp
    PROVE  OnDisk
<1>1. PICK w : w = IF plan.mmp = 0 THEN << >> ELSE At(plan.mmp, [is |-> "mmp"])
  OBVIOUS
<1>2. image' = w ++ image /\ safe' = safe
  BY <1>1 DEF write_mmp, Put
<1>3. DOMAIN At(plan.mmp, [is |-> "mmp"]) = {plan.mmp} /\ DOMAIN << >> = {}
  BY Domains
<1>4. DOMAIN w \subseteq Disk(p)
  BY <1>1, <1>3, PlanOnDisk
<1>5. QED
  BY <1>2, <1>4 DEF OnDisk

\* The blocks of group 0's table that hold the reserved inodes, as they are written.
InodeTable ==
    LET start == places[0].inode_table
        held(b) == {n \in ReservedInodes : start + (n - 1) \div InodesPerBlock = b}
    IN  [b \in {start + (n - 1) \div InodesPerBlock : n \in ReservedInodes} |->
            [is |-> "inodes",
             inodes |-> [k \in {(n - 1) % InodesPerBlock : n \in held(b)} |->
                            ReservedInode((b - start) * InodesPerBlock + k + 1)]]]

\* The reserved inodes lie in that table.
LEMMA InodesOnDisk ==
    ASSUME Ready, write_reserved_inodes
    PROVE  OnDisk
<1>0. PICK w : w = InodeTable
  OBVIOUS
<1>1. safe' = safe /\ image' = w ++ image
  <2>1. Put(InodeTable)
    BY DEF write_reserved_inodes, InodeTable
  <2>2. QED
    BY <1>0, <2>1 DEF Put
<1>2. DOMAIN w = {places[0].inode_table + (n - 1) \div InodesPerBlock : n \in ReservedInodes}
  BY <1>0 DEF InodeTable
<1>3. PICK g, s, t, k, i : g = geom /\ s = places[0].inode_table /\ t = geom.itable /\ k = InodesPerBlock /\ i = geom.inodes_per_group
  OBVIOUS
<1>4. /\ IsGeometry(g) /\ IsSettled(g, p, g.blocks_count)
      /\ "orphan_file" \notin g.features => plan.orphan = << >>
      /\ \A j \in GroupsOf(g) : MetaBlocks(g, places[j]) \subseteq Disk(p) /\ places[j].inode_table \in Nat
  BY <1>3, ReadyIs
<1>5. 0 \in GroupsOf(g)
  BY <1>4, PrimaryInFront
<1>6. s \in Nat /\ (s .. s + t - 1) \subseteq Disk(p)
  BY <1>3, <1>4, <1>5 DEF MetaBlocks
<1>7. t \in Nat /\ i \in Nat /\ i <= t * k /\ k \in Nat \ {0}
  BY <1>3, <1>4, Constants DEF IsGeometry, IsSettled
<1>8. ReservedInodes \subseteq 1 .. i
  BY <1>3, <1>4, <1>7 DEF ReservedInodes, IsSettled, FIRST_INO
<1>9. ASSUME NEW n \in ReservedInodes PROVE s + (n - 1) \div k \in s .. s + t - 1
  <2>1. n - 1 \in Nat /\ n - 1 < t * k /\ t * k \in Nat
    BY <1>7, <1>8
  <2>2. PICK d : d = (n - 1) \div k
    OBVIOUS
  <2>3. d \in Nat /\ d * k <= n - 1
    BY <1>7, <2>1, <2>2, DivIs
  <2>4. d < t
    <3>1. d * k < t * k
      BY <1>7, <2>1, <2>3
    <3>2. ~(d >= t)
      <4> SUFFICES ASSUME d >= t PROVE FALSE
        OBVIOUS
      <4>1. d * k >= t * k
        BY <1>7, <2>3
      <4>2. d * k \in Nat
        BY <1>7, <2>3
      <4>3. QED
        BY <2>1, <3>1, <4>1, <4>2
    <3>3. QED
      BY <1>7, <2>3, <3>2
  <2>5. QED
    BY <1>6, <1>7, <2>2, <2>3, <2>4
<1>10. DOMAIN w \subseteq Disk(p)
  BY <1>2, <1>3, <1>6, <1>9
<1>11. QED
  BY <1>1, <1>2, <1>10 DEF OnDisk

\* The superblock and its backups.
LEMMA SuperOnDisk ==
    ASSUME Ready, WritePrimary \/ WriteBackups
    PROVE  OnDisk
<1>1. CASE WritePrimary
  <2>1. PICK c : c = build_superblock(0)
    OBVIOUS
  <2>2. image' = At(first_data, c) ++ image /\ safe' = safe
    BY <1>1, <2>1 DEF WritePrimary, Put
  <2>3. DOMAIN At(first_data, c) = {first_data}
    BY Domains
  <2>4. first_data \in Disk(p)
    <3>1. PICK g, q : g = geom /\ q = p
      OBVIOUS
    <3>2. IsGeometry(g) /\ IsSettled(g, q, g.blocks_count) /\ \A i \in GroupsOf(g) : SuperRegion(g, i) \subseteq Disk(q)
      BY <3>1, ReadyIs
    <3>3. g.first_data_block \in Disk(q)
      BY <3>2, PrimaryInFront
    <3>4. QED
      BY <3>1, <3>3 DEF first_data
  <2>5. QED
    BY <2>2, <2>3, <2>4 DEF OnDisk
<1>2. CASE WriteBackups
  <2>0. PICK w : w = [b \in {group_first_block(geom, i) : i \in backup_groups(geom)} |->
                         build_superblock(group_of_block(geom, b))]
    OBVIOUS
  <2>1. safe' = safe /\ image' = w ++ image
    BY <1>2, <2>0 DEF WriteBackups, Put
  <2>2. DOMAIN w = {group_first_block(geom, i) : i \in backup_groups(geom)}
    BY <2>0
  <2>3. \A i \in backup_groups(geom) : group_first_block(geom, i) \in Disk(p)
    BY ReadyIs DEF backup_groups
  <2>4. DOMAIN w \subseteq Disk(p)
    BY <2>2, <2>3
  <2>5. QED
    BY <2>1, <2>2, <2>4 DEF OnDisk
<1>3. QED
  BY <1>1, <1>2

\* What the device reads back, and what is safe, is the device: no write of a format that has room made it longer.
ImageInv ==
    (pc \in Writing => HasRoom(geom, places)) => DOMAIN image = Disk(p) /\ DOMAIN safe = Disk(p)

\* A write on the device does not make it longer.
LEMMA OnDiskKeeps ==
    ASSUME OnDisk, DOMAIN image = Disk(p), DOMAIN safe = Disk(p), p' = p
    PROVE  DOMAIN image' = Disk(p') /\ DOMAIN safe' = Disk(p')
<1>1. PICK w : DOMAIN w \subseteq Disk(p) /\ image' = w ++ image /\ safe' = safe
  BY DEF OnDisk
<1>2. PICK im : im = image
  OBVIOUS
<1>3. DOMAIN (w ++ im) = DOMAIN w \cup DOMAIN im
  BY Domains
<1>4. QED
  BY <1>1, <1>2, <1>3

\* Every write is on the device, and no other step touches it.
LEMMA WritesOnDisk ==
    ASSUME Ready, WriteGroups \/ WriteContents \/ DeviceFails
    PROVE  OnDisk \/ UNCHANGED devVars \/ (safe' = image /\ UNCHANGED image)
<1>1. CASE WriteBoot
  BY <1>1, BootOnDisk
<1>2. CASE BeginChunk \/ GroupsWritten \/ DeviceFails
  BY <1>2 DEF BeginChunk, GroupsWritten, DeviceFails
<1>3. CASE ChunkDone
  BY <1>3, DescsOnDisk
<1>4. CASE \E i \in DOMAIN pending : write_group(i)
  BY <1>4, GroupOnDisk
<1>5. CASE \E i \in DOMAIN pending : GroupDone(i)
  BY <1>5 DEF GroupDone
<1>6. CASE write_root_and_lost_found \/ write_journal \/ write_resize_inode_blocks
  BY <1>6, DirsOnDisk, JournalOnDisk, ResizeOnDisk
<1>7. CASE write_orphan_file \/ write_mmp \/ write_reserved_inodes
  BY <1>7, OrphanOnDisk, MmpOnDisk, InodesOnDisk
<1>8. CASE WritePrimary \/ WriteBackups
  BY <1>8, SuperOnDisk
<1>9. CASE Flush
  BY <1>9 DEF Flush
<1>10. QED
  BY <1>1, <1>2, <1>3, <1>4, <1>5, <1>6, <1>7, <1>8, <1>9 DEF WriteGroups, WriteContents

\* No step of a format that has room writes past the end of the device.
LEMMA ImageStep ==
    ASSUME GeoInv, PlanInv, ChunkInv, ImageInv, [Next]_vars
    PROVE  ImageInv'
<1>1. CASE Compute \/ Plan
  <2>1. p' = p /\ image' = image /\ safe' = safe /\ pc \notin Writing
    <3>1. CASE Compute
      BY <3>1 DEF Compute, CheckFeatures, TooSmall, ShrinkGroups, DropLastGroup, Settle, devVars, Writing, Laid
    <3>2. CASE Plan
      <4>1. p' = p /\ pc \in Planning
        BY <3>2, PlansKeep
      <4>2. image' = image /\ safe' = safe
        BY <3>2 DEF Plan, PlanRoot, PlanLostFound, PlanResize, PlanJournal, PlanOrphan, PlanMmp, PlanLeaves, devVars
      <4>3. QED
        BY <4>1, <4>2 DEF Writing
    <3>3. QED
      BY <1>1, <3>1, <3>2
  <2>2. DOMAIN image = Disk(p) /\ DOMAIN safe = Disk(p)
    BY <2>1 DEF ImageInv
  <2>3. QED
    BY <2>1, <2>2 DEF ImageInv
<1>2. CASE WriteGroups \/ WriteContents \/ DeviceFails
  <2>1. pc \in Writing /\ pc' \in Writing /\ UNCHANGED <<p, geom, places>>
    BY <1>2, WritesKeep
  <2> SUFFICES ASSUME HasRoom(geom, places)
               PROVE  DOMAIN image' = Disk(p') /\ DOMAIN safe' = Disk(p')
    BY <2>1 DEF ImageInv
  <2>2. Ready
    BY <2>1 DEF Ready
  <2>3. DOMAIN image = Disk(p) /\ DOMAIN safe = Disk(p)
    BY DEF ImageInv
  <2>4. OnDisk \/ UNCHANGED devVars \/ (safe' = image /\ UNCHANGED image)
    BY <1>2, <2>2, WritesOnDisk
  <2>5. QED
    BY <2>1, <2>3, <2>4, OnDiskKeeps DEF devVars
<1>3. CASE UNCHANGED vars
  BY <1>3 DEF vars, ImageInv
<1>4. QED
  BY <1>1, <1>2, <1>3 DEF Next, Step

\* The inductive invariant of a format.
FormatInv == GeoInv /\ PlanInv /\ ChunkInv /\ ImageInv

\* It holds of a device nothing was written to.
LEMMA FormatBegins == Init => FormatInv
<1> SUFFICES ASSUME Init PROVE FormatInv
  OBVIOUS
<1>1. GeoInv /\ PlanInv
  BY PlanBegins
<1>2. chunk = 0 /\ pc = "features"
  BY DEF Init
<1>3. ChunkInv
  BY <1>2 DEF ChunkInv
<1>4. DOMAIN image = Disk(p) /\ DOMAIN safe = Disk(p)
  BY DEF Init, Disk
<1>5. QED
  BY <1>1, <1>3, <1>4 DEF FormatInv, ImageInv

\* The groups of a chunk are below the end it was given.
LEMMA ChunkHolds ==
    ASSUME GeoInv, ChunkInv, pc = "groups"
    PROVE  /\ DOMAIN pending \cup DOMAIN table \subseteq chunk * geom.desc_per_block .. ChunkEnd - 1
           /\ DOMAIN pending \cap DOMAIN table = {}
           /\ \A i \in DOMAIN pending : pending[i] \in {"blocks", "inodes", "itable", "ready"}
<1>1. PICK e, f, t, S : e = ChunkEnd /\ f = chunk * geom.desc_per_block /\ t = todo /\ S = DOMAIN pending \cup DOMAIN table
  OBVIOUS
<1>2. /\ chunk \in Nat /\ chunk < geom.desc_blocks /\ t \in Nat /\ t <= e /\ S \subseteq f .. t - 1
      /\ DOMAIN pending \cap DOMAIN table = {} /\ \A i \in DOMAIN pending : pending[i] \in Kinds
  BY <1>1 DEF ChunkInv, Flight
<1>3. pc \in Laid
  BY DEF Laid, Stages
<1>4. e \in Nat /\ f \in Nat
  BY <1>1, <1>2, <1>3, ChunkIs
<1>5. S \subseteq f .. e - 1
  BY <1>2, <1>4
<1>6. QED
  BY <1>1, <1>2, <1>5 DEF Kinds

\* Nothing is written past the end of the device, whatever its size and the features asked for, if the groups
\* have room for their metadata: not a descriptor copy, a bitmap or a table (write_group), not a block of a file
\* or of its map, and not a reserved inode; and each group of a chunk is in flight once, or has left its descriptor.
THEOREM StaysOnDevice == Spec => [](Roomy => TypeOK)
<1>1. Init => FormatInv
  BY FormatBegins
<1>2. FormatInv /\ [Next]_vars => FormatInv'
  BY GeoStep, PlanStep, ChunkStep, ImageStep DEF FormatInv
<1>3. FormatInv => (Roomy => TypeOK)
  <2> SUFFICES ASSUME FormatInv, Roomy PROVE TypeOK
    OBVIOUS
  <2>1. p \in Params /\ pc \in Stages /\ runs \subseteq 0 .. p.blocks - 1
    BY DEF FormatInv, GeoInv, SearchInv, PlanInv
  <2>2. DOMAIN image = 0 .. p.blocks - 1 /\ DOMAIN safe = DOMAIN image
    BY DEF FormatInv, ImageInv, Roomy, Writing, Disk
  <2>3. pc = "groups" =>
          /\ DOMAIN pending \cup DOMAIN table \subseteq chunk * geom.desc_per_block .. ChunkEnd - 1
          /\ DOMAIN pending \cap DOMAIN table = {}
          /\ \A i \in DOMAIN pending : pending[i] \in {"blocks", "inodes", "itable", "ready"}
    BY ChunkHolds DEF FormatInv
  <2>4. QED
    BY <2>1, <2>2, <2>3 DEF TypeOK
<1>4. QED
  BY <1>1, <1>2, <1>3, PTL DEF Spec
=============================================================================
