---------------------------- MODULE BoundsProofs ----------------------------
(***************************************************************************)
(* Proofs about the parts that count: the rate limiter, for any number of  *)
(* keys, any limit and any duration, the daily token budget, for any       *)
(* number of callers and any estimates, and the retry delay of an outbox   *)
(* row, for any number of attempts.  The sums are folds over finite sets;  *)
(* what they obey is proved first.                                         *)
(***************************************************************************)
EXTENDS FixedWindow, AIBudget, Backoff, FiniteSetTheorems, FunctionTheorems,
        WellFoundedInduction, TLAPS

-----------------------------------------------------------------------------
(* Induction, and sums over finite sets.                                   *)

\* A set of numbers with zero and the successor of each of its numbers has all of them.
LEMMA NumberInduction ==
  ASSUME NEW N, 0 \in N, \A n \in Nat : n \in N => n + 1 \in N
  PROVE  \A n \in Nat : n \in N
  <1> DEFINE out == {n \in Nat : n \notin N}
  <1> SUFFICES ASSUME out # {} PROVE FALSE
    OBVIOUS
  <1>1. PICK x \in out : \A y \in out : ~ (<<y, x>> \in OpToRel(<, Nat))
    <2>1. out \subseteq Nat OBVIOUS
    <2> HIDE DEF out
    <2> QED BY <2>1, NatLessThanWellFounded, WFMin, Zenon
  <1>2. \A y \in out : ~(y < x)
    BY <1>1 DEF OpToRel
  <1>3. x # 0 /\ x - 1 \in Nat /\ x - 1 < x /\ x - 1 + 1 = x
    OBVIOUS
  <1> QED BY <1>2, <1>3

\* What holds of a subset when it holds of those with one element less, holds of all.
LEMMA SubsetInduction ==
  ASSUME NEW S, IsFiniteSet(S), NEW T,
         \A s \in SUBSET S : (\A x \in s : s \ {x} \in T) => s \in T
  PROVE  \A s \in SUBSET S : s \in T
  <1> DEFINE N == {n \in Nat : \A s \in SUBSET S : Cardinality(s) = n => s \in T}
  <1>1. \A s \in SUBSET S : /\ IsFiniteSet(s) /\ Cardinality(s) \in Nat
                            /\ \A x \in s : Cardinality(s \ {x}) = Cardinality(s) - 1
                            /\ Cardinality(s) = 0 => s = {}
    BY FS_Subset, FS_CardinalityType, FS_RemoveElement, FS_EmptySet
  <1>2. 0 \in N
    BY <1>1
  <1>3. ASSUME NEW n \in Nat, n \in N
        PROVE  n + 1 \in N
    <2> SUFFICES ASSUME NEW s \in SUBSET S, Cardinality(s) = n + 1
                 PROVE  s \in T
      OBVIOUS
    <2>1. \A x \in s : s \ {x} \in SUBSET S /\ Cardinality(s \ {x}) = n
      BY <1>1
    <2> QED BY <1>3, <2>1
  <1> HIDE DEF N
  <1>4. \A n \in Nat : n \in N
    BY <1>2, <1>3, NumberInduction
  <1> QED BY <1>1, <1>4 DEF N

\* The sum of the values of f over S, and its recursion.
Sum(f, S) == MapThenSumSet(LAMBDA x : f[x], S)

Pick(s) == CHOOSE x \in s : TRUE
Iterated(f, g, s) == IF s = {} THEN 0 ELSE f[Pick(s)] + g[s \ {Pick(s)}]
Iteration(f, S) == CHOOSE g : g = [s \in SUBSET S |-> Iterated(f, g, s)]

LEMMA SumIsIterated == \A f, S : Sum(f, S) = Iteration(f, S)[S]
  BY DEF Sum, MapThenSumSet, MapThenFoldSet, Iteration, Iterated, Pick

\* The recursion over the subsets of a finite set has a solution.
LEMMA IterationExists ==
  ASSUME NEW f, NEW S, IsFiniteSet(S)
  PROVE  \A s \in SUBSET S : Iteration(f, S)[s] = Iterated(f, Iteration(f, S), s)
  <1> DEFINE Small(n) == {s \in SUBSET S : Cardinality(s) <= n}
             N == {n \in Nat : \E g : g = [s \in Small(n) |-> Iterated(f, g, s)]}
  <1>1. \A s \in SUBSET S : /\ IsFiniteSet(s) /\ Cardinality(s) \in 0..Cardinality(S)
                            /\ \A x \in s : Cardinality(s \ {x}) = Cardinality(s) - 1
                            /\ Cardinality(s) = 0 <=> s = {}
                            /\ s # {} => Pick(s) \in s
    BY FS_Subset, FS_CardinalityType, FS_RemoveElement, FS_EmptySet DEF Pick
  <1>2. 0 \in N
    <2> DEFINE g == [s \in Small(0) |-> 0]
    <2>1. \A s \in Small(0) : s = {}
      BY <1>1
    <2>2. g = [s \in Small(0) |-> Iterated(f, g, s)]
      BY <2>1 DEF Iterated
    <2> QED BY <2>2
  <1>3. ASSUME NEW n \in Nat, n \in N
        PROVE  n + 1 \in N
    <2>1. PICK g : g = [s \in Small(n) |-> Iterated(f, g, s)]
      BY <1>3
    <2> DEFINE h == [s \in Small(n + 1) |-> Iterated(f, g, s)]
    <2>2. \A s \in Small(n) : s \in Small(n + 1) /\ h[s] = g[s]
      BY <1>1, <2>1
    <2>3. \A s \in Small(n + 1) : s # {} => s \ {Pick(s)} \in Small(n)
      BY <1>1
    <2>4. \A s \in Small(n + 1) : Iterated(f, h, s) = Iterated(f, g, s)
      BY <2>2, <2>3 DEF Iterated
    <2>5. h = [s \in Small(n + 1) |-> Iterated(f, h, s)]
      BY <2>4
    <2> HIDE DEF h
    <2> QED BY <2>5
  <1>4. \A n \in Nat : n \in N
    <2> HIDE DEF N
    <2> QED BY <1>2, <1>3, NumberInduction
  <1>5. Cardinality(S) \in Nat /\ Small(Cardinality(S)) = SUBSET S
    BY <1>1, FS_CardinalityType
  <1>6. \E g : g = [s \in SUBSET S |-> Iterated(f, g, s)]
    BY <1>4, <1>5
  <1>7. Iteration(f, S) = [s \in SUBSET S |-> Iterated(f, Iteration(f, S), s)]
    BY <1>6 DEF Iteration
  <1> HIDE DEF Small, N
  <1> QED BY <1>7

\* A sum is that of one element and of the rest.
LEMMA SumRecurs ==
  ASSUME NEW f, NEW S, IsFiniteSet(S)
  PROVE  /\ Sum(f, {}) = 0
         /\ S # {} => Pick(S) \in S /\ Sum(f, S) = f[Pick(S)] + Sum(f, S \ {Pick(S)})
  <1> DEFINE g == Iteration(f, S)
  <1>1. \A s \in SUBSET S : g[s] = Iterated(f, g, s)
    BY IterationExists
  <1>2. Sum(f, {}) = 0
    <2>1. Iteration(f, {})[{}] = Iterated(f, Iteration(f, {}), {})
      BY FS_EmptySet, IterationExists
    <2> QED BY <2>1, SumIsIterated DEF Iterated
  <1>3. ASSUME NEW T \in SUBSET S
        PROVE  Sum(f, T) = g[T]
    <2> DEFINE h == Iteration(f, T)
               A == {s \in SUBSET T : h[s] = g[s]}
    <2>1. IsFiniteSet(T)
      BY FS_Subset
    <2>2. \A s \in SUBSET T : h[s] = Iterated(f, h, s)
      BY <2>1, IterationExists
    <2>3. ASSUME NEW s \in SUBSET T, \A x \in s : s \ {x} \in A
          PROVE  s \in A
      <3>1. s # {} => Pick(s) \in s
        BY DEF Pick
      <3>2. Iterated(f, h, s) = Iterated(f, g, s)
        BY <2>3, <3>1 DEF Iterated
      <3>3. h[s] = Iterated(f, h, s)
        BY <2>2
      <3>4. g[s] = Iterated(f, g, s)
        BY <1>1
      <3> QED BY <3>2, <3>3, <3>4
    <2>4. T \in A
      <3> HIDE DEF A
      <3>1. \A s \in SUBSET T : s \in A
        BY <2>1, <2>3, SubsetInduction
      <3> QED BY <3>1
    <2> QED BY <2>4, SumIsIterated
  <1>4. ASSUME S # {}
        PROVE  Pick(S) \in S /\ Sum(f, S) = f[Pick(S)] + Sum(f, S \ {Pick(S)})
    <2>1. Pick(S) \in S
      BY <1>4 DEF Pick
    <2>2. g[S] = f[Pick(S)] + g[S \ {Pick(S)}]
      BY <1>1, <1>4 DEF Iterated
    <2> QED BY <1>3, <2>1, <2>2
  <1> QED BY <1>2, <1>4

\* A sum of natural numbers is one.
LEMMA SumType ==
  ASSUME NEW f, NEW S, IsFiniteSet(S), \A x \in S : f[x] \in Nat
  PROVE  Sum(f, S) \in Nat
  <1> DEFINE T == {s \in SUBSET S : Sum(f, s) \in Nat}
  <1>1. ASSUME NEW s \in SUBSET S, \A x \in s : s \ {x} \in T
        PROVE  s \in T
    <2>1. IsFiniteSet(s)
      BY FS_Subset
    <2>2. CASE s = {}
      <3>1. Sum(f, s) = 0
        BY <2>1, <2>2, SumRecurs
      <3> QED BY <3>1
    <2>3. CASE s # {}
      <3>1. Pick(s) \in s /\ Sum(f, s) = f[Pick(s)] + Sum(f, s \ {Pick(s)})
        BY <2>1, <2>3, SumRecurs
      <3>2. Sum(f, s \ {Pick(s)}) \in Nat /\ f[Pick(s)] \in Nat
        BY <1>1, <3>1
      <3> QED BY <3>1, <3>2
    <2> QED BY <2>2, <2>3
  <1> HIDE DEF T
  <1>2. \A s \in SUBSET S : s \in T
    BY <1>1, SubsetInduction
  <1> QED BY <1>2 DEF T

\* The element that is taken out of a sum may be any.
LEMMA SumRemove ==
  ASSUME NEW f, NEW S, IsFiniteSet(S), \A x \in S : f[x] \in Nat, NEW x \in S
  PROVE  /\ Sum(f, S) = f[x] + Sum(f, S \ {x})
         /\ f[x] \in Nat /\ Sum(f, S) \in Nat /\ Sum(f, S \ {x}) \in Nat
  <1> DEFINE T == {s \in SUBSET S : \A y \in s : Sum(f, s) = f[y] + Sum(f, s \ {y})}
  <1>0. \A s \in SUBSET S : IsFiniteSet(s) /\ Sum(f, s) \in Nat
    BY FS_Subset, SumType
  <1>1. ASSUME NEW s \in SUBSET S, \A y \in s : s \ {y} \in T, NEW y \in s
        PROVE  Sum(f, s) = f[y] + Sum(f, s \ {y})
    <2> DEFINE p == Pick(s)
    <2>1. p \in s /\ Sum(f, s) = f[p] + Sum(f, s \ {p})
      BY <1>0, SumRecurs
    <2> HIDE DEF p
    <2>2. CASE y = p
      BY <2>1, <2>2
    <2>3. CASE y # p
      <3> DEFINE r == (s \ {p}) \ {y}
      <3>1. Sum(f, s \ {p}) = f[y] + Sum(f, r)
        BY <1>1, <2>1, <2>3
      <3>2. Sum(f, s \ {y}) = f[p] + Sum(f, r)
        <4>1. r = (s \ {y}) \ {p}
          OBVIOUS
        <4>2. Sum(f, s \ {y}) = f[p] + Sum(f, (s \ {y}) \ {p})
          BY <1>1, <2>1, <2>3
        <4> QED BY <4>1, <4>2
      <3>3. {f[p], f[y], Sum(f, r), Sum(f, s \ {p}), Sum(f, s \ {y})} \subseteq Nat
        BY <1>0, <2>1
      <3> HIDE DEF r
      <3> QED BY <2>1, <3>1, <3>2, <3>3
    <2> QED BY <2>2, <2>3
  <1> HIDE DEF T
  <1>2. \A s \in SUBSET S : s \in T
    <2>1. \A s \in SUBSET S : (\A y \in s : s \ {y} \in T) => s \in T
      BY <1>1 DEF T
    <2> QED BY <2>1, SubsetInduction
  <1>3. S \in T
    BY <1>2
  <1> QED BY <1>0, <1>3 DEF T

\* A sum depends on the values at its elements alone.
LEMMA SumAgree ==
  ASSUME NEW f, NEW g, NEW S, IsFiniteSet(S), \A x \in S : f[x] = g[x]
  PROVE  Sum(f, S) = Sum(g, S)
  <1> DEFINE T == {s \in SUBSET S : Sum(f, s) = Sum(g, s)}
  <1>1. ASSUME NEW s \in SUBSET S, \A x \in s : s \ {x} \in T
        PROVE  s \in T
    <2>1. IsFiniteSet(s)
      BY FS_Subset
    <2>2. CASE s = {}
      BY <2>1, <2>2, SumRecurs
    <2>3. CASE s # {}
      <3>1. /\ Pick(s) \in s /\ Sum(f, s) = f[Pick(s)] + Sum(f, s \ {Pick(s)})
            /\ Sum(g, s) = g[Pick(s)] + Sum(g, s \ {Pick(s)})
        BY <2>1, <2>3, SumRecurs
      <3> QED BY <1>1, <3>1
    <2> QED BY <2>2, <2>3
  <1> HIDE DEF T
  <1>2. \A s \in SUBSET S : s \in T
    BY <1>1, SubsetInduction
  <1> QED BY <1>2 DEF T

\* What one element more adds.
LEMMA SumAdd ==
  ASSUME NEW f, NEW S, IsFiniteSet(S), NEW x, x \notin S,
         \A y \in S \cup {x} : f[y] \in Nat
  PROVE  Sum(f, S \cup {x}) = f[x] + Sum(f, S) /\ Sum(f, S) \in Nat
  <1>1. IsFiniteSet(S \cup {x}) /\ (S \cup {x}) \ {x} = S /\ x \in S \cup {x}
    BY FS_AddElement
  <1> QED BY <1>1, SumRemove

\* A sum is that of a part and of the rest.
LEMMA SumSplit ==
  ASSUME NEW f, NEW S, IsFiniteSet(S), \A x \in S : f[x] \in Nat, NEW R \in SUBSET S
  PROVE  /\ Sum(f, S) = Sum(f, R) + Sum(f, S \ R)
         /\ Sum(f, S) \in Nat /\ Sum(f, R) \in Nat /\ Sum(f, S \ R) \in Nat
  <1> DEFINE T == {s \in SUBSET S : Sum(f, S) = Sum(f, s) + Sum(f, S \ s)}
  <1>0. \A s \in SUBSET S : IsFiniteSet(s) /\ Sum(f, s) \in Nat
    BY FS_Subset, SumType
  <1>1. ASSUME NEW s \in SUBSET S, \A x \in s : s \ {x} \in T
        PROVE  Sum(f, S) = Sum(f, s) + Sum(f, S \ s)
    <2>1. CASE s = {}
      <3>1. S \ s = S /\ Sum(f, s) = 0
        BY <1>0, <2>1, SumRecurs
      <3> QED BY <1>0, <3>1
    <2>2. CASE s # {}
      <3>1. PICK x : x \in s
        BY <2>2
      <3> DEFINE t == s \ {x}
      <3>2. Sum(f, S) = Sum(f, t) + Sum(f, S \ t)
        BY <1>1, <3>1
      <3>3. Sum(f, s) = f[x] + Sum(f, t)
        BY <1>0, <3>1, SumRemove
      <3>4. Sum(f, S \ t) = f[x] + Sum(f, S \ s)
        <4>1. S \ t \in SUBSET S /\ x \in S \ t /\ (S \ t) \ {x} = S \ s
          BY <3>1
        <4> HIDE DEF t
        <4> QED BY <1>0, <4>1, SumRemove
      <3>5. {f[x], Sum(f, S), Sum(f, s), Sum(f, t), Sum(f, S \ t), Sum(f, S \ s)} \subseteq Nat
        BY <1>0, <3>1
      <3> HIDE DEF t
      <3> QED BY <3>2, <3>3, <3>4, <3>5
    <2> QED BY <2>1, <2>2
  <1> HIDE DEF T
  <1>2. \A s \in SUBSET S : s \in T
    <2>1. \A s \in SUBSET S : (\A y \in s : s \ {y} \in T) => s \in T
      BY <1>1 DEF T
    <2> QED BY <2>1, SubsetInduction
  <1> QED BY <1>0, <1>2 DEF T

\* Where no share grows, neither does the sum.
LEMMA SumShrinks ==
  ASSUME NEW S, IsFiniteSet(S), NEW f, NEW g,
         \A y \in S : f[y] \in Nat /\ g[y] \in Nat /\ g[y] <= f[y]
  PROVE  Sum(g, S) <= Sum(f, S) /\ Sum(g, S) \in Nat /\ Sum(f, S) \in Nat
  <1> DEFINE T == {s \in SUBSET S : Sum(g, s) <= Sum(f, s)}
  <1>0. \A s \in SUBSET S : IsFiniteSet(s) /\ Sum(f, s) \in Nat /\ Sum(g, s) \in Nat
    BY FS_Subset, SumType
  <1>1. ASSUME NEW s \in SUBSET S, \A x \in s : s \ {x} \in T
        PROVE  s \in T
    <2>1. CASE s = {}
      <3>1. Sum(f, s) = 0 /\ Sum(g, s) = 0
        BY <1>0, <2>1, SumRecurs
      <3> QED BY <3>1
    <2>2. CASE s # {}
      <3>1. PICK x : x \in s
        BY <2>2
      <3>2. Sum(f, s) = f[x] + Sum(f, s \ {x}) /\ Sum(g, s) = g[x] + Sum(g, s \ {x})
        BY <1>0, <3>1, SumRemove
      <3>3. Sum(g, s \ {x}) <= Sum(f, s \ {x}) /\ g[x] <= f[x]
        BY <1>1, <3>1
      <3>4. {f[x], g[x], Sum(f, s \ {x}), Sum(g, s \ {x})} \subseteq Nat
        BY <1>0, <3>1
      <3>5. Sum(g, s) <= Sum(f, s)
        BY <3>2, <3>3, <3>4
      <3> QED BY <3>5
    <2> QED BY <2>1, <2>2
  <1> HIDE DEF T
  <1>2. \A s \in SUBSET S : s \in T
    BY <1>1, SubsetInduction
  <1>3. S \in T
    BY <1>2
  <1> QED BY <1>0, <1>3 DEF T

\* Where no other share grows, the sum grows by no more than one share does.
LEMMA SumMoves ==
  ASSUME NEW S, IsFiniteSet(S), NEW f, NEW g, NEW x \in S,
         \A y \in S : f[y] \in Nat /\ g[y] \in Nat,
         \A y \in S \ {x} : g[y] <= f[y]
  PROVE  /\ Sum(g, S) + f[x] <= Sum(f, S) + g[x]
         /\ Sum(g, S) \in Nat /\ Sum(f, S) \in Nat
  <1>1. IsFiniteSet(S \ {x})
    BY FS_Subset
  <1>2. Sum(g, S \ {x}) <= Sum(f, S \ {x})
    BY <1>1, SumShrinks
  <1>3. Sum(g, S) = g[x] + Sum(g, S \ {x}) /\ Sum(f, S) = f[x] + Sum(f, S \ {x})
    BY SumRemove
  <1>4. {f[x], g[x], Sum(f, S \ {x}), Sum(g, S \ {x}), Sum(f, S), Sum(g, S)} \subseteq Nat
    BY <1>1, SumType
  <1> QED BY <1>2, <1>3, <1>4

\* A sum of nothing but zeros.
LEMMA SumOfNone ==
  ASSUME NEW S, IsFiniteSet(S), NEW f, \A y \in S : f[y] = 0
  PROVE  Sum(f, S) = 0
  <1> DEFINE T == {s \in SUBSET S : Sum(f, s) = 0}
  <1>1. ASSUME NEW s \in SUBSET S, \A x \in s : s \ {x} \in T
        PROVE  s \in T
    <2>1. IsFiniteSet(s)
      BY FS_Subset
    <2>2. CASE s = {}
      <3>1. Sum(f, s) = 0
        BY <2>1, <2>2, SumRecurs
      <3> QED BY <3>1
    <2>3. CASE s # {}
      <3>1. Pick(s) \in s /\ Sum(f, s) = f[Pick(s)] + Sum(f, s \ {Pick(s)})
        BY <2>1, <2>3, SumRecurs
      <3> QED BY <1>1, <3>1
    <2> QED BY <2>2, <2>3
  <1> HIDE DEF T
  <1>2. \A s \in SUBSET S : s \in T
    BY <1>1, SubsetInduction
  <1>3. S \in T
    BY <1>2
  <1> QED BY <1>3 DEF T

-----------------------------------------------------------------------------
(* The rate limiter.                                                       *)

\* What was allowed in the last n ticks, of which the first is the present one.
Span(n) == 0..n - 1
Past(r, n) == Sum(r, Span(n))

Ticks == 0..Duration - 1
Recent == [Ticks -> Nat]
Window == [started : 0..MaxClock, count : 0..Limit]

\* What a window says of the requests that were allowed: those since it started are
\* counted, but for one limit for each time that the clock was set (extra), and
\* those before are within a limit more.
Covered(w, r, now, extra) ==
    /\ Past(r, Duration) <= w.count + Limit + extra
    /\ w.started <= now =>
          Past(r, IF now - w.started < Duration THEN now - w.started ELSE Duration)
              <= w.count + extra
    /\ now < w.started => Past(r, Duration) <= Limit + extra

WindowsAreCovered ==
    \A k \in Key : IF k \in DOMAIN windows
                   THEN Covered(windows[k], recent[k], clock, jumps * Limit)
                   ELSE Past(recent[k], Duration) <= Limit + jumps * Limit

\* The inductive invariant.
WindowInvariant == WindowTypeOK /\ IsFiniteSet(DOMAIN windows) /\ WindowsAreCovered

LEMMA WindowConstants ==
    /\ Limit \in Nat /\ Duration \in Nat /\ MaxEntries \in Nat
    /\ MaxClock \in Nat /\ MaxJumps \in Nat
    /\ Limit > 0 /\ Duration > 0 /\ MaxEntries > 0
  BY FixedWindowAssumption

LEMMA SpanFacts ==
  ASSUME NEW n \in 0..Duration
  PROVE  /\ IsFiniteSet(Span(n)) /\ Span(n) \subseteq Ticks
         /\ n \notin Span(n) /\ Span(n + 1) = Span(n) \cup {n}
         /\ \A m \in 0..n : Span(m) \subseteq Span(n)
         /\ n > 0 => 0 \in Span(n)
         /\ Span(0) = {}
  BY WindowConstants, FS_Interval DEF Span, Ticks

LEMMA RecentFacts ==
  ASSUME NEW r \in Recent
  PROVE  \A i \in Ticks : r[i] \in Nat
  BY DEF Recent

LEMMA PastIsNumber ==
  ASSUME NEW r \in Recent, NEW n \in 0..Duration
  PROVE  Past(r, n) \in Nat
  BY SpanFacts, RecentFacts, SumType DEF Past

LEMMA PastOfNoTicks == \A r \in Recent : Past(r, 0) = 0
  <1>1. Span(0) = {}
    BY DEF Span
  <1> QED BY <1>1, FS_EmptySet, SumRecurs DEF Past

LEMMA PastGrows ==
  ASSUME NEW r \in Recent, NEW n \in 0..Duration - 1
  PROVE  Past(r, n + 1) = Past(r, n) + r[n] /\ Past(r, n) \in Nat /\ r[n] \in Nat
  <1>1. n \in 0..Duration /\ n \in Ticks
    BY WindowConstants DEF Ticks
  <1>2. /\ IsFiniteSet(Span(n)) /\ n \notin Span(n) /\ Span(n + 1) = Span(n) \cup {n}
        /\ \A i \in Span(n) \cup {n} : r[i] \in Nat
    BY <1>1, SpanFacts, RecentFacts
  <1>3. Sum(r, Span(n) \cup {n}) = r[n] + Sum(r, Span(n)) /\ Sum(r, Span(n)) \in Nat
    BY <1>2, SumAdd
  <1>4. Past(r, n + 1) = Sum(r, Span(n) \cup {n})
    BY <1>2 DEF Past
  <1> QED BY <1>1, <1>2, <1>3, <1>4 DEF Past

LEMMA PastIsWithin ==
  ASSUME NEW r \in Recent, NEW n \in 0..Duration, NEW m \in 0..n
  PROVE  Past(r, m) <= Past(r, n) /\ Past(r, m) \in Nat /\ Past(r, n) \in Nat
  <1>1. /\ IsFiniteSet(Span(n)) /\ Span(m) \in SUBSET Span(n)
        /\ \A i \in Span(n) : r[i] \in Nat
    BY SpanFacts, RecentFacts
  <1>2. /\ Sum(r, Span(n)) = Sum(r, Span(m)) + Sum(r, Span(n) \ Span(m))
        /\ Sum(r, Span(n)) \in Nat /\ Sum(r, Span(m)) \in Nat
        /\ Sum(r, Span(n) \ Span(m)) \in Nat
    BY <1>1, SumSplit
  <1> QED BY <1>2 DEF Past

\* A tick later.
Shifted(r) == [n \in Ticks |-> IF n = 0 THEN 0 ELSE r[n - 1]]

\* A tick later, the last ticks but the present one are those of before.
LEMMA PastShifts ==
  ASSUME NEW r \in Recent
  PROVE  /\ Shifted(r) \in Recent
         /\ \A n \in 0..Duration - 1 : Past(Shifted(r), n + 1) = Past(r, n)
  <1> DEFINE s == Shifted(r)
             N == {n \in Nat : n + 1 <= Duration => Past(s, n + 1) = Past(r, n)}
  <1>1. /\ s \in Recent /\ s[0] = 0
        /\ \A n \in Nat : n + 1 < Duration => s[n + 1] = r[n]
    BY WindowConstants DEF Shifted, Recent, Ticks
  <1> HIDE DEF s
  <1>2. 0 \in N
    BY <1>1, WindowConstants, PastGrows, PastOfNoTicks
  <1>3. ASSUME NEW n \in Nat, n \in N
        PROVE  n + 1 \in N
    <2> SUFFICES ASSUME n + 2 <= Duration
                 PROVE  Past(s, (n + 1) + 1) = Past(r, n + 1)
      OBVIOUS
    <2>1. Past(s, (n + 1) + 1) = Past(s, n + 1) + s[n + 1]
      BY <1>1, WindowConstants, PastGrows
    <2>2. Past(r, n + 1) = Past(r, n) + r[n]
      BY WindowConstants, PastGrows
    <2>3. Past(s, n + 1) = Past(r, n) /\ s[n + 1] = r[n]
      BY <1>1, <1>3, WindowConstants
    <2> QED BY <2>1, <2>2, <2>3
  <1> HIDE DEF N
  <1>4. \A n \in Nat : n \in N
    BY <1>2, <1>3, NumberInduction
  <1>5. \A n \in 0..Duration - 1 : n \in Nat /\ n + 1 <= Duration
    BY WindowConstants
  <1> QED BY <1>1, <1>4, <1>5 DEF N, s

\* The present tick and the rest.
LEMMA PastOpens ==
  ASSUME NEW r \in Recent, NEW n \in 1..Duration
  PROVE  Past(r, n) = r[0] + Sum(r, Span(n) \ {0}) /\ Sum(r, Span(n) \ {0}) \in Nat
  <1>1. n \in 0..Duration /\ n > 0
    BY WindowConstants
  <1>2. IsFiniteSet(Span(n)) /\ 0 \in Span(n) /\ \A i \in Span(n) : r[i] \in Nat
    BY <1>1, SpanFacts, RecentFacts
  <1>3. \A i \in Span(n) : /\ Sum(r, Span(n)) = r[i] + Sum(r, Span(n) \ {i})
                           /\ Sum(r, Span(n) \ {i}) \in Nat
    BY <1>2, SumRemove
  <1> QED BY <1>2, <1>3 DEF Past

\* One more is allowed now.
LEMMA PastCounts ==
  ASSUME NEW r \in Recent, NEW added \in {0, 1}
  PROVE  /\ [r EXCEPT ![0] = @ + added] \in Recent
         /\ \A n \in 1..Duration : Past([r EXCEPT ![0] = @ + added], n) = Past(r, n) + added
  <1> DEFINE s == [r EXCEPT ![0] = @ + added]
  <1>1. /\ s \in Recent /\ s[0] = r[0] + added /\ r[0] \in Nat
        /\ \A n \in Ticks \ {0} : s[n] = r[n]
    BY WindowConstants DEF Recent, Ticks
  <1> HIDE DEF s
  <1>2. ASSUME NEW n \in 1..Duration
        PROVE  Past(s, n) = Past(r, n) + added
    <2> DEFINE before == Span(n) \ {0}
    <2>1. IsFiniteSet(before) /\ before \subseteq Ticks \ {0}
      <3>1. n \in 0..Duration
        BY WindowConstants
      <3> QED BY <3>1, SpanFacts, FS_Subset
    <2>2. /\ Past(s, n) = s[0] + Sum(s, before) /\ Past(r, n) = r[0] + Sum(r, before)
          /\ Sum(r, before) \in Nat
      BY <1>1, PastOpens
    <2>3. Sum(s, before) = Sum(r, before)
      <3> HIDE DEF before
      <3> QED BY <1>1, <2>1, SumAgree
    <2> HIDE DEF before
    <2> QED BY <1>1, <2>2, <2>3
  <1> QED BY <1>1, <1>2 DEF s

\* When a window has lapsed or the clock is before it, a limit covers all of the duration.
LEMMA LapsedIsCovered ==
  ASSUME NEW w \in Window, NEW r \in Recent, NEW now \in Nat, NEW extra \in Nat,
         Covered(w, r, now, extra), now < w.started \/ now - w.started >= Duration
  PROVE  Past(r, Duration) <= Limit + extra
  <1>1. Past(r, Duration) \in Nat
    BY WindowConstants, PastIsNumber
  <1>2. w.count \in Nat /\ w.count <= Limit /\ w.started \in Nat
    BY WindowConstants DEF Window
  <1> QED BY <1>1, <1>2, WindowConstants DEF Covered

\* A window that starts then covers it.
LEMMA FreshIsCovered ==
  ASSUME NEW r \in Recent, NEW now \in Nat, NEW extra \in Nat,
         Past(r, Duration) <= Limit + extra
  PROVE  Covered([started |-> now, count |-> 0], r, now, extra)
  <1>1. Past(r, Duration) \in Nat /\ Past(r, 0) = 0
    BY WindowConstants, PastIsNumber, PastOfNoTicks
  <1>2. now - now = 0 /\ now <= now
    OBVIOUS
  <1> QED BY <1>1, <1>2, WindowConstants DEF Covered

\* A request that is counted is covered.
LEMMA CountIsCovered ==
  ASSUME NEW w \in Window, NEW r \in Recent, NEW now \in Nat, NEW extra \in Nat,
         Covered(w, r, now, extra), w.started <= now, now - w.started < Duration,
         NEW added \in {0, 1}
  PROVE  Covered([w EXCEPT !.count = @ + added], [r EXCEPT ![0] = @ + added], now, extra)
  <1> DEFINE s == [r EXCEPT ![0] = @ + added]
             v == [w EXCEPT !.count = @ + added]
             age == now - w.started
  <1>1. v.count = w.count + added /\ v.started = w.started /\ w.count \in Nat /\ w.started \in Nat
    BY WindowConstants DEF Window
  <1>2. age \in 0..Duration /\ (age = 0 \/ age \in 1..Duration) /\ Duration \in 1..Duration
    BY <1>1, WindowConstants
  <1>3. s \in Recent /\ \A n \in 1..Duration : Past(s, n) = Past(r, n) + added
    BY PastCounts
  <1>4. Past(s, 0) = 0 /\ Past(r, 0) = 0
    BY <1>3, PastOfNoTicks
  <1>5. Past(r, Duration) \in Nat /\ Past(r, age) \in Nat
    BY <1>2, PastIsNumber, WindowConstants
  <1>6. Past(s, age) <= Past(r, age) + added /\ Past(s, Duration) = Past(r, Duration) + added
        /\ Past(s, age) \in Nat
    <2>1. Past(s, Duration) = Past(r, Duration) + added
      BY <1>2, <1>3
    <2>2. CASE age = 0
      BY <1>4, <2>1, <2>2
    <2>3. CASE age \in 1..Duration
      <3> HIDE DEF age
      <3>1. Past(s, age) = Past(r, age) + added
        BY <1>3, <2>3
      <3> QED BY <1>5, <2>1, <3>1
    <2> QED BY <1>2, <2>2, <2>3
  <1>7. Past(r, Duration) <= w.count + Limit + extra /\ Past(r, age) <= w.count + extra
    BY <1>1 DEF Covered
  <1> HIDE DEF s, v
  <1>8. Past(s, Duration) <= v.count + Limit + extra
    BY <1>1, <1>5, <1>6, <1>7, WindowConstants
  <1>9. Past(s, age) <= v.count + extra
    BY <1>1, <1>5, <1>6, <1>7, WindowConstants
  <1>10. Covered(v, s, now, extra)
    BY <1>1, <1>8, <1>9 DEF Covered
  <1> QED BY <1>10 DEF s, v

\* What was covered is covered a tick later.
LEMMA LaterIsCovered ==
  ASSUME NEW w \in Window, NEW r \in Recent, NEW now \in Nat, NEW extra \in Nat,
         Covered(w, r, now, extra)
  PROVE  Covered(w, Shifted(r), now + 1, extra)
  <1> DEFINE s == Shifted(r)
             age == now - w.started
             t == now + 1
  <1>1. w.count \in Nat /\ w.started \in Nat
    BY WindowConstants DEF Window
  <1>2. s \in Recent /\ \A n \in 0..Duration - 1 : Past(s, n + 1) = Past(r, n)
    BY PastShifts
  <1> HIDE DEF s
  <1>3. Past(s, 0) = 0
    BY <1>2, PastOfNoTicks
  <1>4. /\ Past(s, Duration) = Past(r, Duration - 1) /\ Past(r, Duration - 1) <= Past(r, Duration)
        /\ Past(r, Duration) \in Nat /\ Past(s, Duration) \in Nat
    <2>1. /\ Duration - 1 \in 0..Duration - 1 /\ Duration - 1 \in 0..Duration
          /\ Duration \in 0..Duration /\ Duration - 1 + 1 = Duration
      BY WindowConstants
    <2> QED BY <1>2, <2>1, PastIsWithin
  <1>5. ASSUME w.started <= t
        PROVE  Past(s, IF t - w.started < Duration THEN t - w.started ELSE Duration)
                   <= w.count + extra
    <2>1. CASE w.started = now + 1
      BY <1>1, <1>3, <2>1, WindowConstants
    <2>2. CASE w.started <= now /\ age + 1 < Duration
      <3>1. /\ age \in 0..Duration - 1 /\ age < Duration
            /\ t - w.started = age + 1 /\ age + 1 < Duration
        BY <1>1, <2>2, WindowConstants
      <3>2. Past(s, age + 1) = Past(r, age)
        BY <1>2, <3>1
      <3>3. Past(r, age) <= w.count + extra
        BY <2>2, <3>1 DEF Covered
      <3> HIDE DEF t, age
      <3> QED BY <3>1, <3>2, <3>3
    <2>3. CASE w.started <= now /\ age + 1 >= Duration
      <3> DEFINE n == IF age < Duration THEN age ELSE Duration
      <3>1. n \in 0..Duration /\ Duration - 1 \in 0..n
        BY <1>1, <2>3, WindowConstants
      <3>2. Past(r, n) <= w.count + extra
        BY <2>3 DEF Covered
      <3>3. Past(r, Duration - 1) <= Past(r, n) /\ Past(r, n) \in Nat
            /\ Past(r, Duration - 1) \in Nat
        BY <3>1, PastIsWithin
      <3>4. ~(t - w.started < Duration)
        BY <1>1, <2>3, WindowConstants
      <3> HIDE DEF n, t
      <3>5. Past(s, Duration) <= w.count + extra
        BY <1>1, <1>4, <3>2, <3>3
      <3> QED BY <3>4, <3>5
    <2> QED BY <1>1, <1>5, <2>1, <2>2, <2>3, WindowConstants
  <1>6. Past(s, Duration) <= w.count + Limit + extra
    BY <1>1, <1>4, WindowConstants DEF Covered
  <1>7. t < w.started => Past(s, Duration) <= Limit + extra
    BY <1>1, <1>4, WindowConstants DEF Covered
  <1> HIDE DEF t
  <1>8. Covered(w, s, t, extra)
    BY <1>5, <1>6, <1>7 DEF Covered
  <1> QED BY <1>8 DEF s, t

\* It is covered with one limit more wherever the clock is set to.
LEMMA SetIsCovered ==
  ASSUME NEW w \in Window, NEW r \in Recent, NEW now \in Nat, NEW then \in Nat, NEW extra \in Nat,
         Covered(w, r, now, extra)
  PROVE  Covered(w, r, then, extra + Limit)
  <1> DEFINE age == then - w.started
             n == IF age < Duration THEN age ELSE Duration
  <1>1. w.count \in Nat /\ w.count <= Limit /\ w.started \in Nat
    BY WindowConstants DEF Window
  <1>2. Past(r, Duration) \in Nat /\ Past(r, Duration) <= w.count + Limit + extra
    BY WindowConstants, PastIsNumber DEF Covered
  <1>3. w.started <= then => Past(r, n) <= w.count + (extra + Limit)
    <2> SUFFICES ASSUME w.started <= then PROVE Past(r, n) <= w.count + (extra + Limit)
      OBVIOUS
    <2>1. n \in 0..Duration /\ Duration \in 0..Duration
      BY <1>1, WindowConstants
    <2>2. Past(r, n) <= Past(r, Duration) /\ Past(r, n) \in Nat
      BY <2>1, PastIsWithin
    <2> HIDE DEF n
    <2> QED BY <1>1, <1>2, <2>2, WindowConstants
  <1>4. Past(r, Duration) <= w.count + Limit + (extra + Limit)
    BY <1>1, <1>2, WindowConstants
  <1>5. Past(r, Duration) <= Limit + (extra + Limit)
    BY <1>1, <1>2, WindowConstants
  <1> QED BY <1>3, <1>4, <1>5 DEF Covered

LEMMA WindowInvariantHolds == WindowInit => WindowInvariant
  <1> SUFFICES ASSUME WindowInit PROVE WindowInvariant
    OBVIOUS
  <1>1. DOMAIN windows = {} /\ clock = 0 /\ jumps = 0
    BY DEF WindowInit
  <1>2. IsFiniteSet({}) /\ Cardinality({}) = 0
    BY FS_EmptySet
  <1>3. recent \in [Key -> Recent] /\ \A k \in Key : recent[k] = [n \in Ticks |-> 0]
    BY DEF WindowInit, Recent, Ticks
  <1>4. WindowTypeOK
    BY <1>1, <1>2, <1>3, WindowConstants DEF WindowTypeOK, Recent, Ticks
  <1>5. \A k \in Key : Past(recent[k], Duration) = 0
    <2>1. IsFiniteSet(Span(Duration)) /\ Span(Duration) \subseteq Ticks
      BY SpanFacts, WindowConstants
    <2>2. \A k \in Key : \A i \in Span(Duration) : recent[k][i] = 0
      BY <1>3, <2>1
    <2> QED BY <2>1, <2>2, SumOfNone DEF Past
  <1>6. WindowsAreCovered
    BY <1>1, <1>5, WindowConstants DEF WindowsAreCovered
  <1> QED BY <1>1, <1>2, <1>4, <1>6 DEF WindowInvariant

\* The facts of a state that the steps need.
LEMMA WindowFacts ==
  ASSUME WindowInvariant
  PROVE  /\ clock \in Nat /\ clock \in 0..MaxClock /\ jumps \in Nat /\ jumps * Limit \in Nat
         /\ \A k \in DOMAIN windows : windows[k] \in Window
         /\ recent \in [Key -> Recent]
         /\ DOMAIN windows \subseteq Key
         /\ IsFiniteSet(DOMAIN windows) /\ Cardinality(DOMAIN windows) <= MaxEntries
         /\ \A k \in Key :
               IF k \in DOMAIN windows THEN Covered(windows[k], recent[k], clock, jumps * Limit)
               ELSE Past(recent[k], Duration) <= Limit + jumps * Limit
  <1>1. jumps * Limit \in Nat
    BY WindowConstants DEF WindowInvariant, WindowTypeOK
  <1> QED BY <1>1, WindowConstants
          DEF WindowInvariant, WindowTypeOK, WindowsAreCovered, Window, Recent, Ticks

LEMMA PassTimeKeeps == WindowInvariant /\ PassTime => WindowInvariant'
  <1> SUFFICES ASSUME WindowInvariant, PassTime PROVE WindowInvariant'
    OBVIOUS
  <1> DEFINE extra == jumps * Limit
  <1>1. /\ clock < MaxClock /\ clock' = clock + 1 /\ windows' = windows /\ jumps' = jumps
        /\ recent' = [k \in Key |-> Shifted(recent[k])]
    BY DEF PassTime, Shifted, Ticks
  <1>2. \A k \in Key : recent[k] \in Recent /\ Shifted(recent[k]) \in Recent
    BY WindowFacts, PastShifts
  <1>3. recent' \in [Key -> Recent]
    BY <1>1, <1>2
  <1>4. WindowTypeOK'
    BY <1>1, <1>3, WindowFacts, WindowConstants DEF WindowInvariant, WindowTypeOK, Recent, Ticks
  <1>5. ASSUME NEW k \in Key, k \in DOMAIN windows
        PROVE  Covered(windows[k], recent'[k], clock', extra)
    BY <1>1, <1>2, <1>5, WindowFacts, LaterIsCovered
  <1>6. ASSUME NEW k \in Key, k \notin DOMAIN windows
        PROVE  Past(recent'[k], Duration) <= Limit + extra
    <2>1. /\ Duration - 1 \in 0..Duration - 1 /\ Duration - 1 \in 0..Duration
          /\ Duration \in 0..Duration /\ Duration - 1 + 1 = Duration
      BY WindowConstants
    <2>2. Past(recent'[k], Duration) = Past(recent[k], Duration - 1)
      BY <1>1, <1>2, <2>1, PastShifts
    <2>3. /\ Past(recent[k], Duration - 1) <= Past(recent[k], Duration)
          /\ Past(recent[k], Duration - 1) \in Nat /\ Past(recent[k], Duration) \in Nat
      BY <1>2, <2>1, PastIsWithin
    <2>4. Past(recent[k], Duration) <= Limit + extra /\ extra \in Nat
      BY <1>6, WindowFacts
    <2> HIDE DEF extra
    <2> QED BY <2>2, <2>3, <2>4, WindowConstants
  <1>7. WindowsAreCovered'
    BY <1>1, <1>5, <1>6 DEF WindowsAreCovered
  <1>8. IsFiniteSet(DOMAIN windows)'
    BY <1>1, WindowFacts
  <1> QED BY <1>4, <1>7, <1>8 DEF WindowInvariant

LEMMA SetClockKeeps == WindowInvariant /\ SetClock => WindowInvariant'
  <1> SUFFICES ASSUME WindowInvariant, SetClock PROVE WindowInvariant'
    OBVIOUS
  <1> DEFINE extra == jumps * Limit
  <1>1. /\ jumps < MaxJumps /\ jumps' = jumps + 1 /\ clock' \in 0..MaxClock
        /\ windows' = windows /\ recent' = recent
    BY DEF SetClock
  <1>2. jumps' * Limit = extra + Limit /\ clock' \in Nat
    BY <1>1, WindowFacts, WindowConstants
  <1>3. WindowTypeOK'
    BY <1>1, WindowConstants DEF WindowInvariant, WindowTypeOK
  <1>4. ASSUME NEW k \in Key, k \in DOMAIN windows
        PROVE  Covered(windows[k], recent[k], clock', extra + Limit)
    BY <1>2, <1>4, WindowFacts, SetIsCovered
  <1>5. ASSUME NEW k \in Key, k \notin DOMAIN windows
        PROVE  Past(recent[k], Duration) <= Limit + (extra + Limit)
    <2>1. Past(recent[k], Duration) <= Limit + extra /\ extra \in Nat
      BY <1>5, WindowFacts
    <2>2. Past(recent[k], Duration) \in Nat
      BY WindowFacts, WindowConstants, PastIsNumber
    <2> HIDE DEF extra
    <2> QED BY <2>1, <2>2, WindowConstants
  <1>6. WindowsAreCovered'
    BY <1>1, <1>2, <1>4, <1>5 DEF WindowsAreCovered
  <1>7. IsFiniteSet(DOMAIN windows)'
    BY <1>1, WindowFacts
  <1> QED BY <1>3, <1>6, <1>7 DEF WindowInvariant

LEMMA AllowKeeps ==
  ASSUME WindowInvariant, NEW k \in Key, Allow(k)
  PROVE  WindowInvariant'
  <1> DEFINE extra == jumps * Limit
             map == IF k \in DOMAIN windows THEN windows ELSE Pruned
             window == IF k \in DOMAIN map /\ ~Elapsed(map[k]) THEN map[k]
                       ELSE [started |-> clock, count |-> 0]
             allowed == Fits(k, map) /\ window.count < Limit
             added == IF allowed THEN 1 ELSE 0
             counted == [window EXCEPT !.count = @ + added]
             r == [recent[k] EXCEPT ![0] = @ + added]
  <1>1. /\ windows' = IF ~Fits(k, map) THEN map
                      ELSE [j \in DOMAIN map \cup {k} |-> IF j = k THEN counted ELSE map[j]]
        /\ recent' = [recent EXCEPT ![k] = r]
        /\ clock' = clock /\ jumps' = jumps
    BY DEF Allow
  <1>2. /\ DOMAIN map \subseteq DOMAIN windows /\ \A j \in DOMAIN map : map[j] = windows[j]
        /\ \A j \in DOMAIN windows \ DOMAIN map : Elapsed(windows[j])
        /\ k \notin DOMAIN windows => k \notin DOMAIN map
    BY DEF Pruned, Restrict
  <1>3. IsFiniteSet(DOMAIN map) /\ Cardinality(DOMAIN map) <= MaxEntries
        /\ Cardinality(DOMAIN map) \in Nat
    BY <1>2, WindowFacts, FS_Subset, FS_CardinalityType, WindowConstants
  <1>4. \A j \in DOMAIN map : map[j] \in Window
    BY <1>2, WindowFacts
  <1>5. added \in {0, 1}
    OBVIOUS
  <1>6. \A j \in Key : j \notin DOMAIN map => Past(recent[j], Duration) <= Limit + extra
    BY <1>2, WindowFacts, LapsedIsCovered DEF Elapsed
  <1>7. \A j \in DOMAIN map : Covered(map[j], recent[j], clock, extra)
    BY <1>2, WindowFacts
  <1> HIDE DEF map
  <1>8. /\ window \in Window /\ Covered(window, recent[k], clock, extra)
        /\ window.started <= clock /\ clock - window.started < Duration
    <2>1. CASE k \in DOMAIN map /\ ~Elapsed(map[k])
      <3>1. map[k] \in Window /\ Covered(map[k], recent[k], clock, extra)
        BY <1>4, <1>7, <2>1
      <3>2. map[k].started \in Nat /\ clock \in Nat
        BY <3>1, WindowFacts DEF Window
      <3>3. map[k].started <= clock /\ clock - map[k].started < Duration
        BY <2>1, <3>2, WindowConstants DEF Elapsed
      <3> QED BY <2>1, <3>1, <3>3
    <2>2. CASE ~(k \in DOMAIN map /\ ~Elapsed(map[k]))
      <3>1. window = [started |-> clock, count |-> 0]
        BY <2>2
      <3>2. Past(recent[k], Duration) <= Limit + extra
        <4>1. CASE k \notin DOMAIN map
          BY <1>6, <4>1
        <4>2. CASE k \in DOMAIN map
          <5>1. map[k] \in Window /\ Covered(map[k], recent[k], clock, extra) /\ Elapsed(map[k])
            BY <1>4, <1>7, <2>2, <4>2
          <5> QED BY <5>1, WindowFacts, LapsedIsCovered DEF Elapsed
        <4> QED BY <4>1, <4>2
      <3>3. [started |-> clock, count |-> 0] \in Window
        BY WindowFacts, WindowConstants DEF Window
      <3>4. Covered([started |-> clock, count |-> 0], recent[k], clock, extra)
        BY <3>2, WindowFacts, FreshIsCovered
      <3>5. clock <= clock /\ clock - clock < Duration
        BY WindowFacts, WindowConstants
      <3> HIDE DEF window
      <3> QED BY <3>1, <3>3, <3>4, <3>5
    <2> QED BY <2>1, <2>2
  <1>9. window.count < Limit \/ added = 0
    OBVIOUS
  <1>10. ~Fits(k, map) => added = 0 /\ k \notin DOMAIN map
    BY DEF Fits
  <1> HIDE DEF window, allowed, added
  <1>11. counted \in Window
    BY <1>5, <1>8, <1>9, WindowConstants DEF Window
  <1>12. Covered(counted, r, clock, extra)
    BY <1>5, <1>8, WindowFacts, CountIsCovered
  <1>13. r \in Recent
    BY <1>5, WindowFacts, PastCounts
  <1>14. recent' \in [Key -> Recent] /\ recent'[k] = r /\ \A j \in Key \ {k} : recent'[j] = recent[j]
    BY <1>1, <1>13, WindowFacts
  <1> HIDE DEF counted, r
  <1>15. CASE ~Fits(k, map)
    <2>1. windows' = map
      BY <1>1, <1>15
    <2>2. r = recent[k] /\ recent' = recent
      <3>1. added = 0
        BY <1>10, <1>15
      <3>2. recent[k] \in Recent /\ recent[k][0] + 0 = recent[k][0]
        BY WindowFacts, WindowConstants DEF Recent, Ticks
      <3>3. r = recent[k]
        BY <3>1, <3>2 DEF r, Recent
      <3> QED BY <1>1, <3>3, WindowFacts
    <2>3. WindowTypeOK'
      BY <1>1, <1>2, <1>3, <1>4, <1>14, <2>1, WindowFacts
         DEF WindowInvariant, WindowTypeOK, Window, Recent, Ticks
    <2>4. WindowsAreCovered'
      BY <1>1, <1>6, <1>7, <2>1, <2>2 DEF WindowsAreCovered
    <2> QED BY <1>3, <2>1, <2>3, <2>4 DEF WindowInvariant
  <1>16. CASE Fits(k, map)
    <2>1. /\ windows' = [j \in DOMAIN map \cup {k} |-> IF j = k THEN counted ELSE map[j]]
          /\ DOMAIN windows' = DOMAIN map \cup {k}
      BY <1>1, <1>16
    <2>2. IsFiniteSet(DOMAIN windows') /\ Cardinality(DOMAIN windows') <= MaxEntries
      <3>1. /\ IsFiniteSet(DOMAIN map \cup {k})
            /\ Cardinality(DOMAIN map \cup {k}) =
                  IF k \in DOMAIN map THEN Cardinality(DOMAIN map) ELSE Cardinality(DOMAIN map) + 1
        BY <1>3, FS_AddElement
      <3>2. k \in DOMAIN map \/ Cardinality(DOMAIN map) < MaxEntries
        BY <1>16 DEF Fits
      <3>3. Cardinality(DOMAIN map \cup {k}) <= MaxEntries
        BY <1>3, <3>1, <3>2, WindowConstants
      <3> QED BY <2>1, <3>1, <3>3
    <2>3. DOMAIN windows' \subseteq Key /\ \A j \in DOMAIN windows' : windows'[j] \in Window
      BY <1>2, <1>4, <1>11, <2>1, WindowFacts
    <2>4. WindowTypeOK'
      BY <1>1, <1>14, <2>2, <2>3, WindowFacts
         DEF WindowInvariant, WindowTypeOK, Window, Recent, Ticks
    <2>5. WindowsAreCovered'
      <3> SUFFICES ASSUME NEW j \in Key
                   PROVE  IF j \in DOMAIN windows' THEN Covered(windows'[j], recent'[j], clock, extra)
                          ELSE Past(recent'[j], Duration) <= Limit + extra
        BY <1>1 DEF WindowsAreCovered
      <3>1. CASE j = k
        BY <1>12, <1>14, <2>1, <3>1
      <3>2. CASE j # k
        BY <1>6, <1>7, <1>14, <2>1, <3>2
      <3> QED BY <3>1, <3>2
    <2> QED BY <2>2, <2>4, <2>5 DEF WindowInvariant
  <1> QED BY <1>15, <1>16

LEMMA WindowStep == WindowInvariant /\ [WindowNext]_windowVars => WindowInvariant'
  <1>1. CASE UNCHANGED windowVars
    BY <1>1 DEF WindowInvariant, WindowTypeOK, WindowsAreCovered, windowVars
  <1> QED BY <1>1, AllowKeeps, PassTimeKeeps, SetClockKeeps DEF WindowNext

\* In every reachable state the windows of Allow cover what was allowed: the inductive
\* invariant, the types among it.
THEOREM WindowInvariance == WindowSpec => []WindowInvariant
  BY WindowInvariantHolds, WindowStep, PTL DEF WindowSpec

\* Whatever the limit and the duration, a key is allowed no more than twice its limit
\* within one duration, on the boundary of two windows too and when its window was
\* pruned from a full map, and once more for each time the clock was set (Allow,
\* pruneExpired).
THEOREM BurstsAreBounded == WindowSpec => []BoundaryBurst
  <1>1. ASSUME WindowInvariant, NEW k \in Key
        PROVE  MapThenSumSet(LAMBDA n : recent[k][n], 0..Duration - 1) <= (2 + jumps) * Limit
    <2>1. MapThenSumSet(LAMBDA n : recent[k][n], 0..Duration - 1) = Past(recent[k], Duration)
      BY DEF Past, Span, Sum
    <2>2. Past(recent[k], Duration) \in Nat
      BY <1>1, WindowFacts, WindowConstants, PastIsNumber
    <2>3. Past(recent[k], Duration) <= Limit + Limit + jumps * Limit
      <3>1. CASE k \in DOMAIN windows
        <4>1. windows[k].count \in Nat /\ windows[k].count <= Limit
          BY <1>1, <3>1, WindowFacts, WindowConstants DEF Window
        <4>2. Past(recent[k], Duration) <= windows[k].count + Limit + jumps * Limit
          BY <1>1, <3>1, WindowFacts DEF Covered
        <4> QED BY <1>1, <2>2, <4>1, <4>2, WindowFacts, WindowConstants
      <3>2. CASE k \notin DOMAIN windows
        BY <1>1, <2>2, <3>2, WindowFacts, WindowConstants
      <3> QED BY <3>1, <3>2
    <2>4. (2 + jumps) * Limit = Limit + Limit + jumps * Limit
      BY <1>1, WindowFacts, WindowConstants
    <2> QED BY <2>1, <2>3, <2>4
  <1>2. WindowInvariant => BoundaryBurst
    BY <1>1 DEF BoundaryBurst
  <1> QED BY <1>2, WindowInvariance, PTL

-----------------------------------------------------------------------------
(* The daily budget.                                                       *)

\* What the answer of a caller may still add to what the day has used without a
\* token of slack: its estimate, and after the answer what is left of it as long as
\* it is set aside.
Unanswered(c) ==
    IF call[c].pc = "calling" THEN call[c].estimate
    ELSE IF /\ call[c].pc = "answered" /\ call[c].id \in DOMAIN reservations
            /\ call[c].estimate > call[c].tokens
         THEN call[c].estimate - call[c].tokens ELSE 0

unanswered == [c \in Caller |-> Unanswered(c)]

\* A caller's reservation is for its estimate, and no later one has its number.
ReservationsAreOwn ==
    \A c \in Caller : call[c].pc \in {"calling", "answered"} =>
        /\ call[c].id \in 1..issued
        /\ call[c].id \in DOMAIN reservations => reservations[call[c].id] = call[c].estimate

\* All that was answered or may be is used, set aside or slack.
AnswersAreCovered ==
    spent + Sum(unanswered, Caller) <= used + Tokens(DOMAIN reservations) + slack

\* It is within the budget but for the slack.
AnswersAreKept == spent + Sum(unanswered, Caller) <= Budget + slack

\* The inductive invariant.
BudgetInvariant == BudgetTypeOK /\ ReservationsAreOwn /\ AnswersAreCovered /\ AnswersAreKept

LEMMA MaxWithZero == \A i \in Int : Max({0, i}) = IF i > 0 THEN i ELSE 0
  <1> SUFFICES ASSUME NEW i \in Int PROVE Max({0, i}) = IF i > 0 THEN i ELSE 0
    OBVIOUS
  <1>1. \E m \in {0, i} : \A j \in {0, i} : m >= j
    OBVIOUS
  <1> QED BY <1>1 DEF Max

\* Where a caller can be.
Calls == [pc : {"idle", "calling", "answered", "failed"}, id : 0..MaxReservations,
          estimate : Estimates \cup {0}, tokens : 0..MaxTokens]

LEMMA BudgetConstants ==
    /\ IsFiniteSet(Caller) /\ 0 \notin Estimates /\ \A e \in Estimates : e \in Nat
    /\ Budget \in Nat /\ MaxTokens \in Nat /\ MaxReservations \in Nat
  BY AIBudgetAssumption

LEMMA ReservedIsSum == Tokens(DOMAIN reservations) = Sum(reservations, DOMAIN reservations)
  BY DEF Tokens, Sum

LEMMA ReservedIsSame ==
  ASSUME reservations' = reservations
  PROVE  Tokens(DOMAIN reservations)' = Tokens(DOMAIN reservations)
  <1>1. Tokens(DOMAIN reservations) = Sum(reservations, DOMAIN reservations)
    BY ReservedIsSum
  <1>2. (Tokens(DOMAIN reservations) = Sum(reservations, DOMAIN reservations))'
    BY ReservedIsSum, PTL
  <1> QED BY <1>1, <1>2

LEMMA TokensAreSums == \A ids : Tokens(ids) = Sum(reservations, ids)
  BY DEF Tokens, Sum

\* The facts of a state that the steps need.
LEMMA BudgetFacts ==
  ASSUME BudgetTypeOK
  PROVE  /\ IsFiniteSet(DOMAIN reservations) /\ issued \in Nat
         /\ \A id \in DOMAIN reservations : id \in 1..issued /\ reservations[id] \in Nat
         /\ \A c \in Caller : Unanswered(c) \in Nat
         /\ \A c \in Caller : unanswered[c] = Unanswered(c)
         /\ Sum(unanswered, Caller) \in Nat
         /\ \A ids \in SUBSET DOMAIN reservations : Tokens(ids) \in Nat /\ IsFiniteSet(ids)
         /\ used \in Nat /\ spent \in Nat /\ slack \in Nat /\ Budget \in Nat
  <1>1. issued \in Nat /\ used \in Nat /\ spent \in Nat /\ slack \in Nat /\ Budget \in Nat
    BY AIBudgetAssumption DEF BudgetTypeOK
  <1>2. IsFiniteSet(DOMAIN reservations)
    BY <1>1, FS_Interval, FS_Subset DEF BudgetTypeOK
  <1>3. \A id \in DOMAIN reservations : id \in 1..issued /\ reservations[id] \in Nat
    BY AIBudgetAssumption DEF BudgetTypeOK
  <1>4. \A ids \in SUBSET DOMAIN reservations : Tokens(ids) \in Nat /\ IsFiniteSet(ids)
    BY <1>2, <1>3, FS_Subset, SumType, TokensAreSums
  <1>5. \A c \in Caller : Unanswered(c) \in Nat
    <2> SUFFICES ASSUME NEW c \in Caller PROVE Unanswered(c) \in Nat
      OBVIOUS
    <2>1. call[c] \in [pc : {"idle", "calling", "answered", "failed"}, id : 0..MaxReservations,
                       estimate : Estimates \cup {0}, tokens : 0..MaxTokens]
      BY DEF BudgetTypeOK
    <2>2. call[c].estimate \in Estimates \cup {0} /\ call[c].tokens \in 0..MaxTokens
      BY <2>1
    <2>3. call[c].estimate \in Nat /\ call[c].tokens \in Nat
      BY <2>2, BudgetConstants
    <2> QED BY <2>3 DEF Unanswered
  <1>6. \A c \in Caller : unanswered[c] = Unanswered(c)
    BY DEF unanswered
  <1>7. Sum(unanswered, Caller) \in Nat
    <2>1. \A c \in Caller : unanswered[c] \in Nat
      BY <1>5, <1>6
    <2> QED BY <2>1, AIBudgetAssumption, SumType
  <1> QED BY <1>1, <1>2, <1>3, <1>4, <1>5, <1>6, <1>7

LEMMA ReservedIsNumber == BudgetTypeOK => Tokens(DOMAIN reservations) \in Nat
  BY BudgetFacts

LEMMA SharesAreNumbers == BudgetTypeOK => \A x \in Caller : unanswered[x] \in Nat
  BY BudgetFacts

LEMMA BudgetInvariantHolds == BudgetInit => BudgetInvariant
  <1> SUFFICES ASSUME BudgetInit PROVE BudgetInvariant
    OBVIOUS
  <1>1. DOMAIN reservations = {} /\ expired = {} /\ used = 0 /\ issued = 0 /\ spent = 0 /\ slack = 0
    BY DEF BudgetInit
  <1>2. /\ call \in [Caller -> Calls]
        /\ \A c \in Caller : call[c].pc = "idle"
    BY AIBudgetAssumption DEF BudgetInit, Idle, Calls
  <1>3. BudgetTypeOK
    BY <1>1, <1>2, AIBudgetAssumption DEF BudgetTypeOK, Calls
  <1>4. Sum(unanswered, Caller) = 0
    <2>1. \A c \in Caller : unanswered[c] = 0
      BY <1>2 DEF unanswered, Unanswered
    <2> QED BY <2>1, AIBudgetAssumption, SumOfNone
  <1>5. AnswersAreCovered /\ AnswersAreKept
    BY <1>1, <1>3, <1>4, BudgetFacts DEF AnswersAreCovered, AnswersAreKept
  <1> QED BY <1>2, <1>3, <1>5 DEF BudgetInvariant, ReservationsAreOwn

\* Where one caller steps and no number is reserved again, the shares grow by no more
\* than that caller's.
LEMMA SharesMove ==
  ASSUME BudgetTypeOK, ReservationsAreOwn, BudgetTypeOK', NEW c \in Caller,
         \A x \in Caller \ {c} : call'[x] = call[x],
         \A id \in DOMAIN reservations' : id \in DOMAIN reservations \/ id \notin 1..issued
  PROVE  /\ Sum(unanswered', Caller) + unanswered[c] <= Sum(unanswered, Caller) + unanswered'[c]
         /\ Sum(unanswered', Caller) \in Nat /\ Sum(unanswered, Caller) \in Nat
         /\ unanswered[c] \in Nat /\ unanswered'[c] \in Nat
         /\ unanswered[c] = Unanswered(c) /\ unanswered'[c] = Unanswered(c)'
  <1>1. \A x \in Caller \ {c} : unanswered'[x] <= unanswered[x]
    <2> SUFFICES ASSUME NEW x \in Caller \ {c} PROVE unanswered'[x] <= unanswered[x]
      OBVIOUS
    <2>1. /\ unanswered'[x] = Unanswered(x)' /\ unanswered[x] = Unanswered(x)
          /\ Unanswered(x) \in Nat
      BY BudgetFacts DEF unanswered
    <2>2. call'[x] = call[x]
      OBVIOUS
    <2>3. call[x].pc = "answered" /\ call[x].id \in DOMAIN reservations' =>
              call[x].id \in DOMAIN reservations
      BY DEF ReservationsAreOwn
    <2> QED BY <2>1, <2>2, <2>3 DEF Unanswered
  <1>2. (\A x \in Caller : unanswered[x] \in Nat)'
    BY SharesAreNumbers, PTL
  <1>3. \A x \in Caller : unanswered[x] \in Nat
    BY SharesAreNumbers
  <1>4. unanswered[c] = Unanswered(c) /\ unanswered'[c] = Unanswered(c)'
    BY DEF unanswered
  <1> QED BY <1>1, <1>2, <1>3, <1>4, AIBudgetAssumption, SumMoves

\* A reservation is deleted where it has lapsed, and the estimate is added to the
\* ones that have not.
LEMMA ReserveKeeps ==
  ASSUME BudgetInvariant, NEW c \in Caller, Reserve(c)
  PROVE  BudgetInvariant'
  <1> DEFINE D == DOMAIN reservations
             live == D \ expired
  <1>1. PICK estimate \in Estimates :
          /\ call[c].pc \in {"idle", "failed"} /\ issued < MaxReservations
          /\ slack' = slack + Tokens(expired)
          /\ expired' = {}
          /\ IF Committed + estimate > Budget
             THEN /\ reservations' = Without(expired)
                  /\ call' = [call EXCEPT ![c] = Idle]
                  /\ UNCHANGED issued
             ELSE /\ issued' = issued + 1
                  /\ reservations' =
                        [id \in DOMAIN Without(expired) \cup {issued'} |->
                            IF id = issued' THEN estimate ELSE reservations[id]]
                  /\ call' = [call EXCEPT ![c] =
                          [pc |-> "calling", id |-> issued', estimate |-> estimate, tokens |-> 0]]
          /\ used' = used /\ spent' = spent
    BY DEF Reserve
  <1>2. estimate \in Nat
    BY AIBudgetAssumption
  <1>3. BudgetTypeOK /\ ReservationsAreOwn /\ AnswersAreCovered /\ AnswersAreKept
    BY DEF BudgetInvariant
  <1>4. /\ Tokens(D) = Tokens(expired) + Tokens(live)
        /\ {Tokens(D), Tokens(expired), Tokens(live)} \subseteq Nat
        /\ expired \subseteq D
    <2>1. expired \in SUBSET D /\ live \in SUBSET D
      BY <1>3 DEF BudgetTypeOK
    <2>2. Sum(reservations, D) = Sum(reservations, expired) + Sum(reservations, live)
      BY <1>3, <2>1, BudgetFacts, SumSplit
    <2> QED BY <1>3, <2>1, <2>2, TokensAreSums, BudgetFacts
  <1>5. DOMAIN Without(expired) = live /\ \A id \in live : Without(expired)[id] = reservations[id]
    BY DEF Without, Restrict
  <1>6. unanswered[c] = 0
    BY <1>1, <1>3, BudgetFacts DEF Unanswered
  <1>7. call \in [Caller -> Calls]
    BY <1>3 DEF BudgetTypeOK, Calls
  <1>8. \A x \in Caller \ {c} : call'[x] = call[x]
    BY <1>1, <1>7
  <1>9. (Tokens(DOMAIN reservations) = Sum(reservations, DOMAIN reservations))'
    BY ReservedIsSum, PTL
  <1>10. IsFiniteSet(live) /\ Committed = used + Tokens(live)
    BY <1>3, BudgetFacts, FS_Subset DEF Committed
  <1>11. CASE Committed + estimate > Budget
    <2>1. reservations' = Without(expired) /\ call' = [call EXCEPT ![c] = Idle] /\ issued' = issued
      BY <1>1, <1>11
    <2>2. call' \in [Caller -> Calls] /\ call'[c].pc = "idle"
      <3>1. Idle \in Calls
        BY AIBudgetAssumption DEF Idle, Calls
      <3> QED BY <1>7, <2>1, <3>1 DEF Idle
    <2>3. BudgetTypeOK'
      <3>1. /\ DOMAIN reservations' \subseteq 1..issued'
            /\ issued' \in 0..MaxReservations
            /\ \A id \in DOMAIN reservations' : reservations'[id] \in Estimates
        BY <1>3, <1>5, <2>1 DEF BudgetTypeOK
      <3>2. {used', spent', slack'} \subseteq Nat
        BY <1>1, <1>3, <1>4 DEF BudgetTypeOK
      <3> QED BY <1>1, <2>2, <3>1, <3>2 DEF BudgetTypeOK, Calls
    <2>4. ReservationsAreOwn'
      BY <1>3, <1>5, <1>8, <2>1, <2>2 DEF ReservationsAreOwn
    <2>5. Sum(unanswered', Caller) <= Sum(unanswered, Caller) /\ Sum(unanswered', Caller) \in Nat
      <3>1. Unanswered(c)' = 0
        BY <2>2 DEF Unanswered
      <3>2. \A id \in DOMAIN reservations' : id \in DOMAIN reservations
        BY <1>5, <2>1
      <3> QED BY <1>3, <1>6, <1>8, <2>3, <3>1, <3>2, SharesMove
    <2>6. Tokens(DOMAIN reservations)' = Tokens(live)
      BY <1>5, <1>9, <1>10, <2>1, SumAgree, TokensAreSums
    <2>7. AnswersAreCovered' /\ AnswersAreKept'
      BY <1>1, <1>3, <1>4, <2>5, <2>6, BudgetFacts DEF AnswersAreCovered, AnswersAreKept
    <2> QED BY <2>3, <2>4, <2>7 DEF BudgetInvariant
  <1>12. CASE ~(Committed + estimate > Budget)
    <2>1. /\ issued' = issued + 1
          /\ reservations' = [id \in live \cup {issued'} |->
                                 IF id = issued' THEN estimate ELSE reservations[id]]
          /\ call' = [call EXCEPT ![c] =
                        [pc |-> "calling", id |-> issued', estimate |-> estimate, tokens |-> 0]]
      BY <1>1, <1>5, <1>12
    <2>2. /\ call' \in [Caller -> Calls]
          /\ call'[c] = [pc |-> "calling", id |-> issued', estimate |-> estimate, tokens |-> 0]
          /\ issued \in 0..MaxReservations /\ issued' \in 1..MaxReservations
      <3>1. issued \in 0..MaxReservations /\ issued' \in 1..MaxReservations
        BY <1>1, <1>3, <2>1, BudgetConstants DEF BudgetTypeOK
      <3>2. [pc |-> "calling", id |-> issued', estimate |-> estimate, tokens |-> 0] \in Calls
        BY <3>1, BudgetConstants DEF Calls
      <3> QED BY <1>7, <2>1, <3>1, <3>2
    <2>3. issued' \notin live
      BY <1>3, <2>1, BudgetFacts
    <2>4. BudgetTypeOK'
      <3>1. /\ DOMAIN reservations' \subseteq 1..issued'
            /\ issued' \in 0..MaxReservations
        BY <1>3, <2>1, <2>2 DEF BudgetTypeOK
      <3>2. \A id \in DOMAIN reservations' : reservations'[id] \in Estimates
        BY <1>3, <2>1 DEF BudgetTypeOK
      <3>3. {used', spent', slack'} \subseteq Nat
        BY <1>1, <1>3, <1>4 DEF BudgetTypeOK
      <3> QED BY <1>1, <2>2, <3>1, <3>2, <3>3 DEF BudgetTypeOK, Calls
    <2>5. ReservationsAreOwn'
      <3> SUFFICES ASSUME NEW d \in Caller, call'[d].pc \in {"calling", "answered"}
                   PROVE  /\ call'[d].id \in 1..issued'
                          /\ call'[d].id \in DOMAIN reservations' =>
                                reservations'[call'[d].id] = call'[d].estimate
        BY DEF ReservationsAreOwn
      <3>1. CASE d = c
        BY <2>1, <2>2, <3>1
      <3>2. CASE d # c
        <4>1. /\ call'[d] = call[d] /\ call[d].id \in 1..issued
              /\ call[d].id \in DOMAIN reservations => reservations[call[d].id] = call[d].estimate
          BY <1>3, <1>8, <3>2 DEF ReservationsAreOwn
        <4>2. issued \in Nat /\ issued' = issued + 1
          BY <2>1, <1>3, BudgetFacts
        <4>3. call[d].id \in 1..issued' /\ call[d].id # issued'
          BY <4>1, <4>2
        <4>4. call[d].id \in DOMAIN reservations' =>
                  call[d].id \in live /\ reservations'[call[d].id] = reservations[call[d].id]
          BY <2>1, <4>3
        <4> QED BY <4>1, <4>3, <4>4
      <3> QED BY <3>1, <3>2
    <2>6. /\ Sum(unanswered', Caller) <= Sum(unanswered, Caller) + estimate
          /\ Sum(unanswered', Caller) \in Nat
      <3>1. Unanswered(c)' = estimate
        BY <2>2 DEF Unanswered
      <3>2. \A id \in DOMAIN reservations' : id \in DOMAIN reservations \/ id \notin 1..issued
        BY <1>3, <2>1, BudgetFacts
      <3> QED BY <1>3, <1>6, <1>8, <2>4, <3>1, <3>2, SharesMove
    <2>7. Tokens(DOMAIN reservations)' = Tokens(live) + estimate
      <3>1. DOMAIN reservations' = live \cup {issued'} /\ reservations'[issued'] = estimate
        BY <2>1
      <3>2. \A id \in live : reservations'[id] = reservations[id]
        BY <2>1, <2>3
      <3>3. Sum(reservations', live) = Sum(reservations, live)
        BY <1>10, <3>2, SumAgree
      <3>4. \A id \in live \cup {issued'} : reservations'[id] \in Nat
        BY <1>2, <1>3, <3>1, <3>2, BudgetFacts
      <3>5. Sum(reservations', live \cup {issued'}) = estimate + Sum(reservations', live)
        BY <1>10, <2>3, <3>1, <3>4, SumAdd
      <3> QED BY <1>2, <1>4, <1>9, <3>1, <3>3, <3>5, TokensAreSums
    <2>8. AnswersAreCovered' /\ AnswersAreKept'
      <3>2. spent' + Sum(unanswered', Caller) <= used' + (Tokens(live) + estimate) + slack'
        BY <1>1, <1>2, <1>3, <1>4, <2>6, BudgetFacts DEF AnswersAreCovered
      <3>3. spent' + Sum(unanswered', Caller) <= Budget + slack'
        BY <1>1, <1>2, <1>4, <1>10, <1>12, <2>6, <3>2, <1>3, BudgetFacts
      <3> QED BY <2>7, <3>2, <3>3 DEF AnswersAreCovered, AnswersAreKept
    <2> QED BY <2>4, <2>5, <2>8 DEF BudgetInvariant
  <1> QED BY <1>11, <1>12

\* An answer takes what its estimate was set aside for, and slack for the rest.
LEMMA AnswerCallKeeps ==
  ASSUME BudgetInvariant, NEW c \in Caller, AnswerCall(c)
  PROVE  BudgetInvariant'
  <1>1. PICK tokens \in 0..MaxTokens :
          /\ call[c].pc = "calling"
          /\ call' = [call EXCEPT ![c].pc = "answered", ![c].tokens = tokens]
          /\ spent' = spent + tokens
          /\ slack' = slack + Max({0, tokens - call[c].estimate})
          /\ UNCHANGED <<reservations, expired, used, issued>>
    BY DEF AnswerCall
  <1>2. BudgetTypeOK /\ ReservationsAreOwn /\ AnswersAreCovered /\ AnswersAreKept
    BY DEF BudgetInvariant
  <1>3. tokens \in Nat /\ tokens \in 0..MaxTokens
    BY BudgetConstants
  <1>4. call \in [Caller -> Calls] /\ call[c] \in Calls
    BY <1>2 DEF BudgetTypeOK, Calls
  <1>5. /\ call[c].estimate \in Nat /\ call[c].estimate \in Estimates \cup {0}
        /\ call[c].id \in 0..MaxReservations
    <2>1. call[c].estimate \in Estimates \cup {0} /\ call[c].id \in 0..MaxReservations
      BY <1>4 DEF Calls
    <2> QED BY <2>1, BudgetConstants
  <1>6. /\ call'[c].pc = "answered" /\ call'[c].id = call[c].id
        /\ call'[c].estimate = call[c].estimate /\ call'[c].tokens = tokens
        /\ call'[c] \in Calls
        /\ \A x \in Caller \ {c} : call'[x] = call[x]
        /\ call' \in [Caller -> Calls]
    BY <1>1, <1>2, <1>3, <1>4 DEF BudgetTypeOK, Calls
  <1>7. Max({0, tokens - call[c].estimate}) =
            IF tokens > call[c].estimate THEN tokens - call[c].estimate ELSE 0
    BY <1>3, <1>5, MaxWithZero
  <1>8. BudgetTypeOK'
    <2>1. {used', spent', slack'} \subseteq Nat
      BY <1>1, <1>2, <1>3, <1>5, <1>7, BudgetFacts
    <2> QED BY <1>1, <1>2, <1>6, <2>1 DEF BudgetTypeOK
  <1>9. ReservationsAreOwn'
    BY <1>1, <1>2, <1>6 DEF ReservationsAreOwn
  <1>10. Unanswered(c) = call[c].estimate
    BY <1>1 DEF Unanswered
  <1>11. Unanswered(c)' <= IF call[c].estimate > tokens THEN call[c].estimate - tokens ELSE 0
    BY <1>1, <1>3, <1>5, <1>6 DEF Unanswered
  <1>12. spent' + Sum(unanswered', Caller) + slack <= spent + Sum(unanswered, Caller) + slack'
    <2>1. /\ Sum(unanswered', Caller) + Unanswered(c) <= Sum(unanswered, Caller) + Unanswered(c)'
          /\ Sum(unanswered', Caller) \in Nat /\ Sum(unanswered, Caller) \in Nat
          /\ Unanswered(c)' \in Nat
      BY <1>1, <1>2, <1>6, <1>8, SharesMove
    <2> QED BY <1>1, <1>2, <1>3, <1>5, <1>7, <1>10, <1>11, <2>1, BudgetFacts
  <1>13. AnswersAreCovered' /\ AnswersAreKept'
    <2>1. Tokens(DOMAIN reservations)' = Tokens(DOMAIN reservations)
      BY <1>1, ReservedIsSame
    <2>2. Sum(unanswered', Caller) \in Nat /\ spent' \in Nat /\ slack' \in Nat /\ used' = used
      BY <1>1, <1>2, <1>6, <1>8, SharesMove DEF BudgetTypeOK
    <2> QED BY <1>2, <1>12, <2>1, <2>2, BudgetFacts DEF AnswersAreCovered, AnswersAreKept
  <1> QED BY <1>8, <1>9, <1>13 DEF BudgetInvariant

\* A caller that goes its way without a settlement leaves its reservation to lapse.
LEMMA LeavingKeeps ==
  ASSUME BudgetInvariant, NEW c \in Caller,
         NEW next \in {Idle, [Idle EXCEPT !.pc = "failed"]},
         call' = [call EXCEPT ![c] = next],
         UNCHANGED <<reservations, expired, used, issued, spent, slack>>
  PROVE  BudgetInvariant'
  <1>1. BudgetTypeOK /\ ReservationsAreOwn /\ AnswersAreCovered /\ AnswersAreKept
    BY DEF BudgetInvariant
  <1>2. next \in Calls /\ next.pc \notin {"calling", "answered"}
    BY BudgetConstants DEF Calls, Idle
  <1>3. /\ call' \in [Caller -> Calls] /\ call'[c] = next
        /\ \A x \in Caller \ {c} : call'[x] = call[x]
    BY <1>1, <1>2 DEF BudgetTypeOK, Calls
  <1>4. BudgetTypeOK'
    BY <1>1, <1>3 DEF BudgetTypeOK, Calls
  <1>5. ReservationsAreOwn'
    BY <1>1, <1>2, <1>3 DEF ReservationsAreOwn
  <1>6. Sum(unanswered', Caller) <= Sum(unanswered, Caller) /\ Sum(unanswered', Caller) \in Nat
    <2>1. Unanswered(c)' = 0
      BY <1>2, <1>3 DEF Unanswered
    <2> QED BY <1>1, <1>3, <1>4, <2>1, SharesMove
  <1>7. Tokens(DOMAIN reservations)' = Tokens(DOMAIN reservations)
    BY ReservedIsSame
  <1>8. AnswersAreCovered' /\ AnswersAreKept'
    BY <1>1, <1>6, <1>7, BudgetFacts DEF AnswersAreCovered, AnswersAreKept
  <1> QED BY <1>4, <1>5, <1>8 DEF BudgetInvariant

\* A settlement puts the tokens of the answer in the place of its estimate.
LEMMA SettleKeeps ==
  ASSUME BudgetInvariant, NEW c \in Caller, Settle(c)
  PROVE  BudgetInvariant'
  <1> DEFINE rest == DOMAIN reservations \ {call[c].id}
             left == IF call[c].estimate > call[c].tokens
                     THEN call[c].estimate - call[c].tokens ELSE 0
  <1>1. PICK next \in {Idle, [Idle EXCEPT !.pc = "failed"]} :
          /\ call[c].pc = "answered" /\ call[c].id \in DOMAIN reservations
          /\ reservations' = Without({call[c].id})
          /\ expired' = expired \ {call[c].id}
          /\ used' = used + call[c].tokens
          /\ call' = [call EXCEPT ![c] = next]
          /\ UNCHANGED <<issued, spent, slack>>
    BY DEF Settle, Returned
  <1>2. BudgetTypeOK /\ ReservationsAreOwn /\ AnswersAreCovered /\ AnswersAreKept
    BY DEF BudgetInvariant
  <1>3. next \in Calls /\ next.pc \notin {"calling", "answered"}
    BY BudgetConstants DEF Calls, Idle
  <1>4. /\ call' \in [Caller -> Calls] /\ call'[c] = next
        /\ \A x \in Caller \ {c} : call'[x] = call[x]
    BY <1>1, <1>2, <1>3 DEF BudgetTypeOK, Calls
  <1>5. DOMAIN reservations' = rest /\ \A id \in rest : reservations'[id] = reservations[id]
    BY <1>1 DEF Without, Restrict
  <1>6. call[c].tokens \in Nat /\ call[c].estimate \in Nat
    <2>1. call[c] \in Calls
      BY <1>2 DEF BudgetTypeOK, Calls
    <2>2. call[c].tokens \in 0..MaxTokens /\ call[c].estimate \in Estimates \cup {0}
      BY <2>1 DEF Calls
    <2> QED BY <2>2, BudgetConstants
  <1>7. BudgetTypeOK'
    <2>1. {used', spent', slack'} \subseteq Nat
      BY <1>1, <1>2, <1>6, BudgetFacts
    <2>2. /\ DOMAIN reservations' \subseteq 1..issued' /\ issued' \in 0..MaxReservations
          /\ \A id \in DOMAIN reservations' : reservations'[id] \in Estimates
          /\ expired' \subseteq DOMAIN reservations'
      BY <1>1, <1>2, <1>5 DEF BudgetTypeOK
    <2> QED BY <1>4, <2>1, <2>2 DEF BudgetTypeOK, Calls
  <1>8. ReservationsAreOwn'
    BY <1>1, <1>2, <1>3, <1>4, <1>5 DEF ReservationsAreOwn
  <1>9. /\ Sum(unanswered', Caller) + left <= Sum(unanswered, Caller)
        /\ Sum(unanswered', Caller) \in Nat
    <2>1. Unanswered(c)' = 0
      BY <1>3, <1>4 DEF Unanswered
    <2>2. Unanswered(c) = left
      BY <1>1 DEF Unanswered
    <2>3. \A id \in DOMAIN reservations' : id \in DOMAIN reservations
      BY <1>5
    <2> HIDE DEF left
    <2> QED BY <1>2, <1>4, <1>7, <2>1, <2>2, <2>3, SharesMove
  <1>10. Tokens(DOMAIN reservations) = call[c].estimate + Tokens(DOMAIN reservations)'
    <2>1. Sum(reservations, DOMAIN reservations) = reservations[call[c].id] + Sum(reservations, rest)
      BY <1>1, <1>2, BudgetFacts, SumRemove
    <2>2. reservations[call[c].id] = call[c].estimate
      BY <1>1, <1>2 DEF ReservationsAreOwn
    <2>3. IsFiniteSet(rest)
      BY <1>2, BudgetFacts, FS_Subset
    <2>4. Sum(reservations', rest) = Sum(reservations, rest)
      BY <1>5, <2>3, SumAgree
    <2>5. Tokens(DOMAIN reservations) = Sum(reservations, DOMAIN reservations)
      BY ReservedIsSum
    <2>6. (Tokens(DOMAIN reservations) = Sum(reservations, DOMAIN reservations))'
      BY ReservedIsSum, PTL
    <2> QED BY <1>5, <2>1, <2>2, <2>4, <2>5, <2>6
  <1>11. (Tokens(DOMAIN reservations) \in Nat)'
    BY <1>7, ReservedIsNumber, PTL
  <1>12. AnswersAreCovered' /\ AnswersAreKept'
    BY <1>1, <1>2, <1>6, <1>9, <1>10, <1>11, BudgetFacts DEF AnswersAreCovered, AnswersAreKept
  <1> QED BY <1>7, <1>8, <1>12 DEF BudgetInvariant

LEMMA BudgetStep == BudgetInvariant /\ [BudgetNext]_budgetVars => BudgetInvariant'
  <1> SUFFICES ASSUME BudgetInvariant, [BudgetNext]_budgetVars
               PROVE  BudgetInvariant'
    OBVIOUS
  <1>1. ASSUME NEW c \in Caller, Reserve(c)
        PROVE  BudgetInvariant'
    BY <1>1, ReserveKeeps
  <1>2. ASSUME NEW c \in Caller, AnswerCall(c)
        PROVE  BudgetInvariant'
    BY <1>2, AnswerCallKeeps
  <1>3. ASSUME NEW c \in Caller, Settle(c)
        PROVE  BudgetInvariant'
    BY <1>3, SettleKeeps
  <1>4. ASSUME NEW c \in Caller, SettleFails(c)
        PROVE  BudgetInvariant'
    <2>1. PICK next \in {Idle, [Idle EXCEPT !.pc = "failed"]} : call' = [call EXCEPT ![c] = next]
      BY <1>4 DEF SettleFails, Returned
    <2> QED BY <1>4, <2>1, LeavingKeeps DEF SettleFails
  <1>5. ASSUME NEW c \in Caller, GiveUp(c)
        PROVE  BudgetInvariant'
    BY <1>5, LeavingKeeps DEF GiveUp
  <1>6. ASSUME NEW id \in DOMAIN reservations, Expire(id)
        PROVE  BudgetInvariant'
    <2>1. BudgetTypeOK'
      BY <1>6 DEF BudgetInvariant, BudgetTypeOK, Expire
    <2>2. unanswered' = unanswered
      BY <1>6 DEF unanswered, Unanswered, Expire
    <2>3. Tokens(DOMAIN reservations)' = Tokens(DOMAIN reservations)
      BY <1>6, ReservedIsSame DEF Expire
    <2> QED BY <1>6, <2>1, <2>2, <2>3
            DEF BudgetInvariant, ReservationsAreOwn, AnswersAreCovered, AnswersAreKept, Expire
  <1>7. CASE UNCHANGED budgetVars
    <2>1. unanswered' = unanswered
      BY <1>7 DEF unanswered, Unanswered, budgetVars
    <2>2. Tokens(DOMAIN reservations)' = Tokens(DOMAIN reservations)
      BY <1>7, ReservedIsSame DEF budgetVars
    <2> QED BY <1>7, <2>1, <2>2 DEF BudgetInvariant, BudgetTypeOK, ReservationsAreOwn,
                                    AnswersAreCovered, AnswersAreKept, budgetVars
  <1> QED BY <1>1, <1>2, <1>3, <1>4, <1>5, <1>6, <1>7 DEF BudgetNext

\* In every reachable state what calls were answered, or may be, is covered by the day's
\* row and its reservations: the inductive invariant, the types among it.
THEOREM BudgetInvariance == BudgetSpec => []BudgetInvariant
  BY BudgetInvariantHolds, BudgetStep, PTL DEF BudgetSpec

\* Whatever the estimates and however many callers reserve, answer, settle, fail to and
\* die, the answers stay within the daily budget and the slack of overrun estimates and
\* deleted reservations (ReserveAIBudget, FinishAIUsage).
THEOREM BudgetsAreKept == BudgetSpec => []BudgetIsKept
  <1>1. BudgetInvariant => BudgetIsKept
    BY BudgetFacts DEF BudgetInvariant, AnswersAreKept, BudgetIsKept
  <1> QED BY <1>1, BudgetInvariance, PTL

-----------------------------------------------------------------------------
(* The retry delay.                                                        *)

\* after of LoopDelay, step by step, on the numbers of N.
Delays(base, cap, N) ==
    CHOOSE after : after = [n \in N |-> IF n = 0 THEN base ELSE Doubled(after[n - 1], cap)]

LEMMA LoopIsDelays ==
    \A base, cap, attempts :
        LoopDelay(base, cap, attempts) =
            Delays(base, cap, Nat)[IF attempts < 1 THEN 0 ELSE attempts - 1]
  BY DEF LoopDelay, Delays

\* A first number of steps has one course.
LEMMA DelaysStart ==
  ASSUME NEW base, NEW cap, NEW n \in Nat
  PROVE  LET d == Delays(base, cap, 0..n) IN
         \A m \in 0..n : d[m] = IF m = 0 THEN base ELSE Doubled(d[m - 1], cap)
  <1> DEFINE After(g, m) == IF m = 0 THEN base ELSE Doubled(g[m - 1], cap)
             N == {k \in Nat : \E g : g = [m \in 0..k |-> After(g, m)]}
  <1>1. 0 \in N
    <2> DEFINE g == [m \in 0..0 |-> base]
    <2>1. g = [m \in 0..0 |-> After(g, m)]
      OBVIOUS
    <2> HIDE DEF g
    <2> QED BY <2>1
  <1>2. ASSUME NEW k \in Nat, k \in N
        PROVE  k + 1 \in N
    <2>1. PICK g : g = [m \in 0..k |-> After(g, m)]
      BY <1>2
    <2> DEFINE h == [m \in 0..k + 1 |-> After(g, m)]
    <2>2. \A m \in 0..k : m \in 0..k + 1 /\ h[m] = g[m]
      BY <2>1
    <2>3. \A m \in 0..k + 1 : m # 0 => m - 1 \in 0..k
      OBVIOUS
    <2>4. \A m \in 0..k + 1 : After(h, m) = After(g, m)
      BY <2>2, <2>3
    <2>5. h = [m \in 0..k + 1 |-> After(h, m)]
      BY <2>4
    <2> HIDE DEF h
    <2> QED BY <2>5
  <1>3. n \in N
    <2> HIDE DEF N
    <2>1. \A k \in Nat : k \in N
      BY <1>1, <1>2, NumberInduction
    <2> QED BY <2>1
  <1>4. Delays(base, cap, 0..n) = [m \in 0..n |-> After(Delays(base, cap, 0..n), m)]
    BY <1>3 DEF Delays
  <1> QED BY <1>4

LEMMA DelaysGoOn ==
  ASSUME NEW base, NEW cap
  PROVE  LET d == Delays(base, cap, Nat) IN
         \A n \in Nat : d[n] = IF n = 0 THEN base ELSE Doubled(d[n - 1], cap)
  <1> DEFINE D(n) == Delays(base, cap, 0..n)
             f == [n \in Nat |-> D(n)[n]]
  <1>1. ASSUME NEW n \in Nat
        PROVE  \A m \in 0..n : D(n)[m] = IF m = 0 THEN base ELSE Doubled(D(n)[m - 1], cap)
    BY DelaysStart
  <1> HIDE DEF D
  <1>2. ASSUME NEW n \in Nat
        PROVE  D(n + 1)[n] = D(n)[n]
    <2> DEFINE N == {m \in Nat : m <= n => D(n + 1)[m] = D(n)[m]}
    <2>1. 0 \in N
      BY <1>1
    <2>2. ASSUME NEW m \in Nat, m \in N
          PROVE  m + 1 \in N
      <3> SUFFICES ASSUME m + 1 <= n
                   PROVE  D(n + 1)[m + 1] = D(n)[m + 1]
        OBVIOUS
      <3>1. m + 1 \in 0..n /\ m + 1 \in 0..n + 1 /\ m + 1 # 0 /\ (m + 1) - 1 = m /\ m <= n
            /\ n + 1 \in Nat
        OBVIOUS
      <3>2. D(n)[m + 1] = Doubled(D(n)[m], cap) /\ D(n + 1)[m + 1] = Doubled(D(n + 1)[m], cap)
        BY <1>1, <3>1
      <3> QED BY <2>2, <3>1, <3>2
    <2>3. n \in N
      <3> HIDE DEF N
      <3>1. \A m \in Nat : m \in N
        BY <2>1, <2>2, NumberInduction
      <3> QED BY <3>1
    <2> QED BY <2>3
  <1>3. \A n \in Nat : f[n] = IF n = 0 THEN base ELSE Doubled(f[n - 1], cap)
    <2> SUFFICES ASSUME NEW n \in Nat
                 PROVE  f[n] = IF n = 0 THEN base ELSE Doubled(f[n - 1], cap)
      OBVIOUS
    <2>1. CASE n = 0
      BY <1>1, <2>1
    <2>2. CASE n # 0
      <3>1. n - 1 \in Nat /\ (n - 1) + 1 = n /\ n \in 0..n
        BY <2>2
      <3>2. D(n)[n] = Doubled(D(n)[n - 1], cap)
        BY <1>1, <2>2, <3>1
      <3>3. D(n)[n - 1] = D(n - 1)[n - 1]
        BY <1>2, <3>1
      <3>4. f[n] = D(n)[n] /\ f[n - 1] = D(n - 1)[n - 1]
        BY <3>1
      <3> HIDE DEF f
      <3> QED BY <2>2, <3>2, <3>3, <3>4
    <2> QED BY <2>1, <2>2
  <1>4. f = [n \in Nat |-> IF n = 0 THEN base ELSE Doubled(f[n - 1], cap)]
    BY <1>3
  <1> HIDE DEF f
  <1>5. \E g : g = [n \in Nat |-> IF n = 0 THEN base ELSE Doubled(g[n - 1], cap)]
    BY <1>4
  <1>6. Delays(base, cap, Nat) =
            [n \in Nat |-> IF n = 0 THEN base ELSE Doubled(Delays(base, cap, Nat)[n - 1], cap)]
    BY <1>5 DEF Delays
  <1> QED BY <1>6

\* A set has twice as many subsets when it gets one more element.
LEMMA PowersOfTwo ==
  /\ 2 ^ 0 = 1
  /\ \A n \in Nat : 2 ^ (n + 1) = 2 * 2 ^ n /\ 2 ^ n \in Nat
  <1>1. 2 ^ 0 = 1
    OBVIOUS
  <1>2. ASSUME NEW n \in Nat
        PROVE  2 ^ (n + 1) = 2 * 2 ^ n /\ 2 ^ n \in Nat
    <2> DEFINE S == SUBSET (1..n)
               T == {s \cup {n + 1} : s \in S}
               f == [s \in S |-> s \cup {n + 1}]
    <2>1. /\ IsFiniteSet(1..n) /\ Cardinality(1..n) = n
          /\ IsFiniteSet(1..n + 1) /\ Cardinality(1..n + 1) = n + 1
      BY FS_Interval
    <2>2. /\ IsFiniteSet(S) /\ Cardinality(S) = 2 ^ n
          /\ Cardinality(SUBSET (1..n + 1)) = 2 ^ (n + 1)
      BY <2>1, FS_SUBSET
    <2>3. IsFiniteSet(T) /\ Cardinality(T) = Cardinality(S)
      <3>1. f \in [S -> T] /\ \A t \in T : \E s \in S : f[s] = t
        OBVIOUS
      <3>2. \A s, t \in S : f[s] = f[t] => s = t
        OBVIOUS
      <3>3. f \in Bijection(S, T)
        BY <3>1, <3>2 DEF Bijection, Injection, Surjection, IsInjective
      <3>4. ExistsBijection(S, T)
        BY <3>3 DEF ExistsBijection
      <3> QED BY <2>2, <3>4, FS_Bijection
    <2>4. SUBSET (1..n + 1) = S \cup T /\ S \cap T = {}
      <3>1. ASSUME NEW s \in SUBSET (1..n + 1)
            PROVE  s \in S \cup T
        <4>1. CASE n + 1 \in s
          <5>1. s = (s \ {n + 1}) \cup {n + 1} /\ s \ {n + 1} \in S
            BY <4>1
          <5> QED BY <5>1
        <4>2. CASE n + 1 \notin s
          BY <4>2
        <4> QED BY <4>1, <4>2
      <3>2. \A s \in S : s \in SUBSET (1..n + 1) /\ s \cup {n + 1} \in SUBSET (1..n + 1)
                         /\ n + 1 \notin s
        OBVIOUS
      <3>3. ASSUME NEW t \in T
            PROVE  t \in SUBSET (1..n + 1) /\ n + 1 \in t
        <4>1. PICK s \in S : t = s \cup {n + 1}
          OBVIOUS
        <4> HIDE DEF S
        <4> QED BY <3>2, <4>1
      <3> HIDE DEF T
      <3>4. S \cup T \subseteq SUBSET (1..n + 1) /\ S \cap T = {}
        BY <3>2, <3>3
      <3> HIDE DEF S
      <3> QED BY <3>1, <3>4
    <2>5. Cardinality(S \cup T) = Cardinality(S) + Cardinality(T) - Cardinality(S \cap T)
      BY <2>2, <2>3, FS_Union
    <2>6. Cardinality(S \cap T) = 0 /\ Cardinality(S) \in Nat
      BY <2>2, <2>4, FS_EmptySet, FS_CardinalityType
    <2>7. Cardinality(S \cup T) = 2 ^ (n + 1)
      BY <2>2, <2>4
    <2>8. \A a, b, c, d, e : a \in Nat /\ a = b /\ c = a /\ d = b + c - e /\ e = 0 => d = 2 * a
      OBVIOUS
    <2> HIDE DEF S, T
    <2>9. 2 ^ (n + 1) = 2 * 2 ^ n
      BY <2>2, <2>3, <2>5, <2>6, <2>7, <2>8
    <2> QED BY <2>2, <2>6, <2>9
  <1> QED BY <1>1, <1>2

LEMMA MinOfTwo == \A i, j \in Int : Min({i, j}) = IF i <= j THEN i ELSE j
  <1> SUFFICES ASSUME NEW i \in Int, NEW j \in Int
               PROVE  Min({i, j}) = IF i <= j THEN i ELSE j
    OBVIOUS
  <1>1. \E m \in {i, j} : \A k \in {i, j} : m =< k
    OBVIOUS
  <1> QED BY <1>1 DEF Min

LEMMA MaxOfTwo == \A i, j \in Int : Max({i, j}) = IF i >= j THEN i ELSE j
  <1> SUFFICES ASSUME NEW i \in Int, NEW j \in Int
               PROVE  Max({i, j}) = IF i >= j THEN i ELSE j
    OBVIOUS
  <1>1. \E m \in {i, j} : \A k \in {i, j} : m >= k
    OBVIOUS
  <1> QED BY <1>1 DEF Max

\* The loop doubles its delay until the cap, and no further.
LEMMA DoublingStops ==
  ASSUME NEW base \in Nat \ {0}, NEW cap \in Nat \ {0}, NEW n \in Nat
  PROVE  LET delay == Delays(base, cap, Nat)[n] IN
         /\ delay \in Nat /\ delay <= base * 2 ^ n /\ base * 2 ^ n \in Nat
         /\ delay = base * 2 ^ n \/ delay >= cap
         /\ delay <= Max({base, 2 * cap - 1})
  <1> DEFINE d == Delays(base, cap, Nat)
             top == Max({base, 2 * cap - 1})
             N == {k \in Nat : /\ d[k] \in Nat /\ d[k] <= base * 2 ^ k /\ base * 2 ^ k \in Nat
                               /\ d[k] = base * 2 ^ k \/ d[k] >= cap
                               /\ d[k] <= top}
  <1>1. \A k \in Nat : d[k] = IF k = 0 THEN base ELSE Doubled(d[k - 1], cap)
    BY DelaysGoOn
  <1>2. top \in Int /\ base <= top /\ 2 * cap - 1 <= top
    BY MaxOfTwo
  <1> HIDE DEF d, top
  <1>3. 0 \in N
    BY <1>1, <1>2, PowersOfTwo
  <1>4. ASSUME NEW k \in Nat, k \in N
        PROVE  k + 1 \in N
    <2> DEFINE p == base * 2 ^ k
    <2>1. p \in Nat /\ base * 2 ^ (k + 1) = 2 * p
      <3>1. \A i \in Nat : base * (2 * i) = 2 * (base * i)
        OBVIOUS
      <3> QED BY <1>4, <3>1, PowersOfTwo
    <2>2. d[k] \in Nat /\ d[k] <= p /\ d[k] <= top /\ (d[k] = p \/ d[k] >= cap)
      BY <1>4
    <2>3. d[k + 1] = Doubled(d[k], cap)
      BY <1>1
    <2> HIDE DEF p
    <2>4. /\ d[k + 1] \in Nat /\ d[k + 1] <= 2 * p /\ 2 * p \in Nat
          /\ d[k + 1] = 2 * p \/ d[k + 1] >= cap
          /\ d[k + 1] <= top
      <3>1. CASE d[k] < cap
        BY <1>2, <2>1, <2>2, <2>3, <3>1 DEF Doubled
      <3>2. CASE ~(d[k] < cap)
        BY <1>2, <2>1, <2>2, <2>3, <3>2 DEF Doubled
      <3> QED BY <3>1, <3>2
    <2> QED BY <2>1, <2>4
  <1>5. n \in N
    <2> HIDE DEF N
    <2>1. \A k \in Nat : k \in N
      BY <1>3, <1>4, NumberInduction
    <2> QED BY <2>1
  <1> QED BY <1>5 DEF d, top

LEMMA DelayIsCapped ==
  ASSUME NEW base \in Nat \ {0}, NEW cap \in Nat \ {0}, NEW attempts \in Nat
  PROVE  /\ BackoffDelay(base, cap, attempts) =
               Min({cap, base * 2 ^ (IF attempts < 1 THEN 0 ELSE attempts - 1)})
         /\ LoopDelay(base, cap, attempts) <= Max({base, 2 * cap - 1})
  <1> DEFINE n == IF attempts < 1 THEN 0 ELSE attempts - 1
             delay == Delays(base, cap, Nat)[n]
  <1>1. n \in Nat
    OBVIOUS
  <1>2. LoopDelay(base, cap, attempts) = delay
    BY LoopIsDelays
  <1> HIDE DEF n
  <1>3. /\ delay \in Nat /\ delay <= base * 2 ^ n /\ base * 2 ^ n \in Nat
        /\ delay = base * 2 ^ n \/ delay >= cap
        /\ delay <= Max({base, 2 * cap - 1})
    BY <1>1, DoublingStops
  <1>4. Min({cap, base * 2 ^ n}) = IF delay > cap THEN cap ELSE delay
    <2> HIDE DEF delay
    <2> QED BY <1>3, MinOfTwo
  <1> QED BY <1>2, <1>3, <1>4 DEF BackoffDelay, n
=============================================================================
