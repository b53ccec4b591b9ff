------------------------------ MODULE Induction ------------------------------
(***************************************************************************)
(* Induction and recursion over numbers and finite sets, stated with sets  *)
(* and functions where the library has operators, so that the proofs about *)
(* loops (pass 1's walk of the inodes, BlockRuns' sums) can cite them.     *)
(***************************************************************************)
EXTENDS Integers, FiniteSetTheorems, WellFoundedInduction, TLAPS

\* A set of numbers that is not empty has a least one.
LEMMA LeastNumber ==
    ASSUME NEW T, T \subseteq Nat, T # {}
    PROVE  \E x \in T : \A y \in T : x <= y
<1> DEFINE Less == {ss \in Nat \X Nat : ss[1] < ss[2]}
<1>1. Less = OpToRel(<, Nat)
  BY DEF OpToRel
<1>2. IsWellFoundedOn(Less, Nat)
  BY <1>1, NatLessThanWellFounded
<1>3. \A x, y \in Nat : <<y, x>> \in Less <=> y < x
  OBVIOUS
<1> HIDE DEF Less
<1>4. \E x \in T : \A y \in T : ~(<<y, x>> \in Less)
  BY <1>2, WFMin, Zenon
<1>5. PICK x \in T : \A y \in T : ~(<<y, x>> \in Less)
  BY <1>4
<1>6. ASSUME NEW y \in T PROVE x <= y
  <2>1. x \in Nat /\ y \in Nat
    OBVIOUS
  <2>2. ~(y < x)
    BY <1>3, <1>5, <2>1
  <2>3. QED
    BY <2>1, <2>2
<1>7. QED
  BY <1>6

\* And one with a bound has a greatest one.
LEMMA GreatestNumber ==
    ASSUME NEW n \in Nat, NEW T, T \subseteq 0 .. n, T # {}
    PROVE  \E x \in T : \A y \in T : x >= y
<1> DEFINE U == {m \in Nat : n - m \in T}
<1>1. U \subseteq Nat /\ U # {}
  <2>1. PICK x \in T : TRUE
    OBVIOUS
  <2>2. n - x \in Nat /\ n - (n - x) = x
    OBVIOUS
  <2>3. n - x \in U
    BY <2>2
  <2>4. QED
    BY <2>3
<1>2. \E m \in U : \A k \in U : m <= k
  <2> HIDE DEF U
  <2>1. QED
    BY <1>1, LeastNumber, Zenon
<1>3. PICK m \in U : \A k \in U : m <= k
  BY <1>2
<1>4. ASSUME NEW y \in T PROVE n - m >= y
  <2>1. y \in Nat /\ y <= n /\ n - y \in Nat /\ n - (n - y) = y
    OBVIOUS
  <2>2. m <= n - y
    BY <1>3, <2>1
  <2>3. QED
    BY <1>3, <2>1, <2>2
<1>5. QED
  BY <1>3, <1>4

\* A set that holds 0 and, with every number, the next one holds them all: what a loop keeps, step by
\* step, it has at its end.
LEMMA NumberInduction ==
    ASSUME NEW S, 0 \in S, \A n \in Nat : n \in S => n + 1 \in S
    PROVE  Nat \subseteq S
<1> SUFFICES ASSUME Nat \ S # {} PROVE FALSE
  OBVIOUS
<1>1. PICK x \in Nat \ S : \A y \in Nat \ S : x <= y
  <2>1. Nat \ S \subseteq Nat
    OBVIOUS
  <2>2. QED
    BY <2>1, LeastNumber, Zenon
<1>2. x # 0
  BY <1>1
<1>3. x - 1 \in Nat /\ x - 1 \in S
  BY <1>1, <1>2
<1>4. (x - 1) + 1 \in S
  BY <1>3
<1>5. QED
  BY <1>1, <1>2, <1>4

\* A set of subsets that holds the empty one and every one it holds all the proper parts of holds them
\* all: what a loop over a finite set keeps, element by element.
LEMMA SubsetInduction ==
    ASSUME NEW S, IsFiniteSet(S), NEW T,
           \A s \in SUBSET S : (\A r \in SUBSET s : r # s => r \in T) => s \in T
    PROVE  SUBSET S \subseteq T
<1> SUFFICES ASSUME NEW bad \in SUBSET S, bad \notin T PROVE FALSE
  OBVIOUS
<1> DEFINE sizes == {n \in Nat : \E s \in SUBSET S : s \notin T /\ Cardinality(s) = n}
<1>1. \A s \in SUBSET S : IsFiniteSet(s) /\ Cardinality(s) \in Nat
  BY FS_Subset, FS_CardinalityType
<1>2. Cardinality(bad) \in sizes
  BY <1>1
<1>3. \E n \in sizes : \A m \in sizes : n <= m
  <2>1. sizes \subseteq Nat /\ sizes # {}
    BY <1>2
  <2> HIDE DEF sizes
  <2>2. QED
    BY <2>1, LeastNumber, Zenon
<1>4. PICK s \in SUBSET S : s \notin T /\ \A r \in SUBSET S : r \notin T => Cardinality(s) <= Cardinality(r)
  BY <1>1, <1>3
<1>5. ASSUME NEW r \in SUBSET s, r # s PROVE r \in T
  <2>1. Cardinality(r) <= Cardinality(s) /\ Cardinality(r) # Cardinality(s)
    BY <1>1, <1>5, FS_Subset
  <2>2. r \in SUBSET S /\ Cardinality(r) \in Nat /\ Cardinality(s) \in Nat
    BY <1>1
  <2>3. ~(Cardinality(s) <= Cardinality(r))
    BY <2>1, <2>2
  <2>4. QED
    BY <1>4, <2>2, <2>3
<1>6. QED
  BY <1>4, <1>5

\* The states of a loop that runs N times: state n is made of n and the state before it.
IsLoop(g, N, V, base, F) ==
    /\ g \in [0 .. N -> V]
    /\ g[0] = base
    /\ \A n \in 1 .. N : g[n] = F[<<n, g[n - 1]>>]

IsStep(F, S, V) == F \in [S \X V -> V]

\* A function by recursion on 0 .. N exists.
LEMMA NumberRecursion ==
    ASSUME NEW N \in Nat, NEW V, NEW base \in V, NEW F, IsStep(F, 1 .. N, V)
    PROVE  \E g : IsLoop(g, N, V, base, F)
<1> USE DEF IsStep
<1> DEFINE Up(g, m) == \A n \in 0 .. N : n <= m => g[n] = IF n = 0 THEN base ELSE F[<<n, g[n - 1]>>]
           S == {m \in Nat : \E g \in [0 .. N -> V] : Up(g, m)}
<1>1. 0 \in S
  <2> DEFINE g == [n \in 0 .. N |-> base]
  <2>1. g \in [0 .. N -> V]
    OBVIOUS
  <2>2. Up(g, 0)
    OBVIOUS
  <2> HIDE DEF g, Up
  <2>3. QED
    BY <2>1, <2>2
<1>2. ASSUME NEW m \in Nat, m \in S PROVE m + 1 \in S
  <2>1. PICK g \in [0 .. N -> V] : Up(g, m)
    BY <1>2
  <2> DEFINE h == [n \in 0 .. N |-> IF n = 0 THEN base ELSE F[<<n, g[n - 1]>>]]
  <2>2. h \in [0 .. N -> V]
    <3> SUFFICES ASSUME NEW n \in 0 .. N, n # 0 PROVE F[<<n, g[n - 1]>>] \in V
      OBVIOUS
    <3>1. n \in 1 .. N /\ n - 1 \in 0 .. N
      OBVIOUS
    <3>2. <<n, g[n - 1]>> \in (1 .. N) \X V
      BY <3>1
    <3>3. QED
      BY <3>2
  <2>3. \A n \in 0 .. N : n <= m => h[n] = g[n]
    BY <2>1
  <2>4. \A n \in 0 .. N : h[n] = IF n = 0 THEN base ELSE F[<<n, g[n - 1]>>]
    OBVIOUS
  <2> HIDE DEF h
  <2>5. ASSUME NEW n \in 0 .. N, n <= m + 1, n # 0 PROVE h[n] = F[<<n, h[n - 1]>>]
    <3>1. n - 1 \in 0 .. N /\ n - 1 <= m
      BY <2>5
    <3>2. h[n - 1] = g[n - 1]
      BY <2>3, <3>1
    <3>3. QED
      BY <2>4, <2>5, <3>2
  <2>6. Up(h, m + 1)
    BY <2>4, <2>5
  <2> HIDE DEF Up
  <2>7. QED
    BY <2>2, <2>6
<1>3. N \in S
  <2> HIDE DEF S
  <2>1. Nat \subseteq S
    BY <1>1, <1>2, NumberInduction, Zenon
  <2>2. QED
    BY <2>1
<1>4. PICK g \in [0 .. N -> V] : Up(g, N)
  BY <1>3
<1>5. \A n \in 1 .. N : n \in 0 .. N /\ n <= N /\ n # 0
  OBVIOUS
<1>6. \A n \in 1 .. N : g[n] = F[<<n, g[n - 1]>>]
  BY <1>4, <1>5
<1>7. g[0] = base
  <2>1. 0 \in 0 .. N /\ 0 <= N
    OBVIOUS
  <2>2. QED
    BY <1>4, <2>1
<1>8. QED
  BY <1>6, <1>7 DEF IsLoop

\* The states of a loop over S that has c[s] as its last element when it has been through s.
IsFold(g, S, V, base, F, c) ==
    /\ g \in [SUBSET S -> V]
    /\ g[{}] = base
    /\ \A s \in SUBSET S : s # {} => g[s] = F[<<c[s], g[s \ {c[s]}]>>]

IsChoice(c, S) == \A s \in SUBSET S : s # {} => c[s] \in s

\* A function by recursion on the subsets of a finite set exists.
LEMMA SubsetRecursion ==
    ASSUME NEW S, IsFiniteSet(S), NEW V, NEW base \in V, NEW F, IsStep(F, S, V), NEW c, IsChoice(c, S)
    PROVE  \E g : IsFold(g, S, V, base, F, c)
<1> USE DEF IsStep, IsChoice
<1> DEFINE Value(g, s) == IF s = {} THEN base ELSE F[<<c[s], g[s \ {c[s]}]>>]
           Up(g, m) == \A s \in SUBSET S : Cardinality(s) <= m => g[s] = Value(g, s)
           N == {m \in Nat : \E g \in [SUBSET S -> V] : Up(g, m)}
<1>1. \A s \in SUBSET S : IsFiniteSet(s) /\ Cardinality(s) \in Nat /\ (Cardinality(s) = 0 <=> s = {})
  BY FS_Subset, FS_CardinalityType, FS_EmptySet
<1>2. \A s \in SUBSET S : s # {} =>
         c[s] \in S /\ s \ {c[s]} \in SUBSET S /\ Cardinality(s \ {c[s]}) = Cardinality(s) - 1
  <2> SUFFICES ASSUME NEW s \in SUBSET S, s # {}
               PROVE  c[s] \in S /\ s \ {c[s]} \in SUBSET S /\ Cardinality(s \ {c[s]}) = Cardinality(s) - 1
    OBVIOUS
  <2>1. c[s] \in s /\ IsFiniteSet(s)
    BY <1>1
  <2>2. Cardinality(s \ {c[s]}) = Cardinality(s) - 1
    BY <2>1, FS_RemoveElement
  <2>3. QED
    BY <2>1, <2>2
<1>3. 0 \in N
  <2> DEFINE g == [s \in SUBSET S |-> base]
  <2>1. g \in [SUBSET S -> V]
    OBVIOUS
  <2>2. Up(g, 0)
    <3> SUFFICES ASSUME NEW s \in SUBSET S, Cardinality(s) <= 0 PROVE g[s] = Value(g, s)
      OBVIOUS
    <3>1. s = {}
      BY <1>1
    <3>2. QED
      BY <3>1
  <2> HIDE DEF g, Up
  <2>3. QED
    BY <2>1, <2>2
<1>4. ASSUME NEW m \in Nat, m \in N PROVE m + 1 \in N
  <2>1. PICK g \in [SUBSET S -> V] : Up(g, m)
    BY <1>4
  <2> DEFINE h == [s \in SUBSET S |-> Value(g, s)]
  <2>2. h \in [SUBSET S -> V]
    <3> SUFFICES ASSUME NEW s \in SUBSET S, s # {} PROVE F[<<c[s], g[s \ {c[s]}]>>] \in V
      OBVIOUS
    <3>1. <<c[s], g[s \ {c[s]}]>> \in S \X V
      BY <1>2
    <3>2. QED
      BY <3>1
  <2>3. \A s \in SUBSET S : h[s] = Value(g, s)
    OBVIOUS
  <2> HIDE DEF h
  <2>4. \A s \in SUBSET S : Cardinality(s) <= m => h[s] = g[s]
    BY <2>1, <2>3
  <2>5. ASSUME NEW s \in SUBSET S, Cardinality(s) <= m + 1 PROVE h[s] = Value(h, s)
    <3>1. CASE s = {}
      BY <2>3, <3>1
    <3>2. CASE s # {}
      <4>1. Cardinality(s \ {c[s]}) <= m /\ s \ {c[s]} \in SUBSET S
        BY <1>1, <1>2, <2>5, <3>2
      <4>2. h[s \ {c[s]}] = g[s \ {c[s]}]
        BY <2>4, <4>1
      <4>3. QED
        BY <2>3, <3>2, <4>2
    <3>3. QED
      BY <3>1, <3>2
  <2>6. Up(h, m + 1)
    BY <2>5
  <2> HIDE DEF Up
  <2>7. QED
    BY <2>2, <2>6
<1>5. Cardinality(S) \in N
  <2> HIDE DEF N
  <2>1. Nat \subseteq N
    BY <1>3, <1>4, NumberInduction, Zenon
  <2>2. Cardinality(S) \in Nat
    BY <1>1
  <2>3. QED
    BY <2>1, <2>2
<1>6. PICK g \in [SUBSET S -> V] : Up(g, Cardinality(S))
  BY <1>5
<1>7. \A s \in SUBSET S : Cardinality(s) <= Cardinality(S)
  BY FS_Subset
<1>8. g[{}] = base /\ \A s \in SUBSET S : s # {} => g[s] = F[<<c[s], g[s \ {c[s]}]>>]
  BY <1>6, <1>7
<1>9. QED
  BY <1>8 DEF IsFold
===============================================================================
