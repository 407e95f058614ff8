------------------------------ MODULE Induction ------------------------------
(***************************************************************************)
(* Induction over numbers and finite sets, with the set of those for which *)
(* the claim holds in the place of a predicate, and what follows from it   *)
(* for the recursive definitions and the sorted queries of the models.     *)
(***************************************************************************)
EXTENDS Integers, Sequences, FiniteSets, FiniteSetTheorems,
        WellFoundedInduction, TLAPS

\* A set of numbers that is not empty has a least one.
LEMMA LeastNumber ==
  ASSUME NEW S \in SUBSET Nat, S # {}
  PROVE  \E i \in S : \A h \in S : i <= h
<1> DEFINE R == OpToRel(<, Nat)
<1>1. IsWellFoundedOn(R, Nat)
  BY NatLessThanWellFounded DEF OpToRel
<1> HIDE DEF R
<1>2. PICK i \in S : \A h \in S : <<h, i>> \notin R
  BY <1>1, WFMin
<1>3. \A h \in S : ~(h < i)
  BY <1>2 DEF R, OpToRel
<1>4. QED
  BY <1>3

\* What holds of 0, and of i + 1 when it holds of i, holds up to n.
LEMMA UpTo ==
  ASSUME NEW n \in Nat, NEW G, 0 \in G, \A i \in 0..(n - 1) : i \in G => i + 1 \in G
  PROVE  \A i \in 0..n : i \in G
<1> DEFINE Bad == {i \in 0..n : i \notin G}
<1>1. SUFFICES ASSUME Bad # {} PROVE FALSE
  OBVIOUS
<1>2. PICK i \in Bad : \A h \in Bad : i <= h
  <2>1. Bad \in SUBSET Nat
    OBVIOUS
  <2> HIDE DEF Bad
  <2>2. QED
    BY <1>1, <2>1, LeastNumber
<1>3. i # 0 /\ i - 1 \in 0..(n - 1) /\ i - 1 \notin Bad
  BY <1>2
<1>4. QED
  BY <1>2, <1>3

\* What holds of the empty set, and of any other once it holds without some
\* element, holds of all parts of a finite set.
LEMMA AllPartsBut ==
  ASSUME NEW S, IsFiniteSet(S), NEW G, {} \in G,
         \A T \in SUBSET S : T # {} => \E x \in T : T \ {x} \in G => T \in G
  PROVE  \A T \in SUBSET S : T \in G
<1> DEFINE Bad == {T \in SUBSET S : T \notin G}
<1>1. SUFFICES ASSUME Bad # {} PROVE FALSE
  OBVIOUS
<1>2. PICK T \in Bad : \A U \in Bad : <<U, T>> \notin StrictSubsetOrdering(S)
  <2>1. Bad \subseteq FiniteSubsetsOf(S)
    BY FS_FiniteSubsetsOfFinite
  <2>2. QED
    BY <1>1, <2>1, WFMin, FS_StrictSubsetOrderingWellFounded
<1>3. PICK x \in T : T \ {x} \in G => T \in G
  BY <1>2
<1>4. T \ {x} \in G
  <2>1. T \ {x} \in SUBSET S /\ T \in SUBSET S /\ T \ {x} \subseteq T /\ T \ {x} # T
    BY <1>2, <1>3
  <2>2. <<T \ {x}, T>> \in StrictSubsetOrdering(S)
    BY <2>1 DEF StrictSubsetOrdering
  <2>3. QED
    BY <1>2, <2>1, <2>2
<1>5. QED
  BY <1>2, <1>3, <1>4

\* What holds of the empty set, and of a set with one element more, holds of
\* all parts of a finite set.
LEMMA AllParts ==
  ASSUME NEW S, IsFiniteSet(S), NEW G, {} \in G,
         \A T \in SUBSET S : \A x \in S \ T : T \in G => T \union {x} \in G
  PROVE  \A T \in SUBSET S : T \in G
<1>1. ASSUME NEW T \in SUBSET S, T # {} PROVE \E x \in T : T \ {x} \in G => T \in G
  <2>1. PICK x \in T : TRUE
    BY <1>1
  <2>2. T \ {x} \in SUBSET S /\ x \in S \ (T \ {x}) /\ (T \ {x}) \union {x} = T
    BY <2>1
  <2>3. QED
    BY <2>2
<1>2. QED
  BY <1>1, AllPartsBut

\* f is defined up to n by its value at 0 and a step.
Iterates(f, n, D, base, step) ==
  f \in [0..n -> D] /\ f[0] = base /\ \A i \in 1..n : f[i] = step[<<f[i - 1], i>>]

\* There is such a function.
LEMMA Iterate ==
  ASSUME NEW n \in Nat, NEW D, NEW base \in D, NEW step,
         \A d \in D : \A i \in 1..n : step[<<d, i>>] \in D
  PROVE  \E f : Iterates(f, n, D, base, step)
<1> DEFINE Upto(f, m) ==
             f[0] = base /\ \A i \in 1..m : f[i] = step[<<f[i - 1], i>>]
           G == {m \in 0..n : \E f \in [0..m -> D] : Upto(f, m)}
<1>1. 0 \in G
  <2> DEFINE g == [i \in 0..0 |-> base]
  <2>1. g \in [0..0 -> D] /\ g[0] = base /\ 1..0 = {}
    OBVIOUS
  <2> HIDE DEF g
  <2>2. QED
    BY <2>1
<1>2. ASSUME NEW m \in 0..(n - 1), m \in G PROVE m + 1 \in G
  <2>1. PICK f \in [0..m -> D] : Upto(f, m)
    BY <1>2
  <2> DEFINE next == step[<<f[m], m + 1>>]
             g == [i \in 0..(m + 1) |-> IF i = m + 1 THEN next ELSE f[i]]
  <2>2. f[m] \in D /\ next \in D
    OBVIOUS
  <2>3. g \in [0..(m + 1) -> D]
    BY <2>2
  <2>4. \A i \in 0..m : g[i] = f[i]
    OBVIOUS
  <2>5. g[m + 1] = next /\ g[m] = f[m]
    BY <2>4
  <2>6. \A i \in 1..m : g[i] = f[i] /\ g[i - 1] = f[i - 1]
    BY <2>4
  <2>7. \A i \in 1..(m + 1) : i \in 1..m \/ i = m + 1
    OBVIOUS
  <2> HIDE DEF g
  <2>8. \A i \in 1..(m + 1) : g[i] = step[<<g[i - 1], i>>]
    <3> SUFFICES ASSUME NEW i \in 1..(m + 1) PROVE g[i] = step[<<g[i - 1], i>>]
      OBVIOUS
    <3>1. CASE i \in 1..m
      BY <2>1, <2>6, <3>1
    <3>2. CASE i = m + 1
      <4>1. i - 1 = m
        BY <3>2
      <4>2. QED
        BY <2>5, <3>2, <4>1
    <3>3. QED
      BY <2>7, <3>1, <3>2
  <2>9. g[0] = base
    BY <2>1, <2>4
  <2>10. QED
    BY <2>3, <2>8, <2>9
<1> HIDE DEF G
<1>3. n \in G
  BY <1>1, <1>2, UpTo
<1>4. QED
  BY <1>3 DEF G, Iterates

-----------------------------------------------------------------------------

\* A finite set of numbers that is not empty has a greatest one.
LEMMA GreatestNumber ==
  ASSUME NEW S \in SUBSET Nat, IsFiniteSet(S), S # {}
  PROVE  \E i \in S : \A h \in S : h <= i
<1> DEFINE G == {T \in SUBSET S : T # {} => \E i \in T : \A h \in T : h <= i}
<1>1. {} \in G
  OBVIOUS
<1>2. ASSUME NEW T \in SUBSET S, NEW x \in S \ T, T \in G
      PROVE  T \union {x} \in G
  <2>1. CASE T = {}
    BY <2>1
  <2>2. CASE T # {}
    <3>1. PICK i \in T : \A h \in T : h <= i
      BY <1>2, <2>2
    <3>2. CASE x <= i
      BY <3>1, <3>2
    <3>3. CASE ~(x <= i)
      BY <3>1, <3>3
    <3>4. QED
      BY <3>2, <3>3
  <2>3. QED
    BY <2>1, <2>2
<1> HIDE DEF G
<1>3. S \in G
  BY <1>1, <1>2, AllParts
<1>4. QED
  BY <1>3 DEF G

\* The numbers of a finite set can be listed in ascending order.
LEMMA Sortable ==
  ASSUME NEW S \in SUBSET Nat, IsFiniteSet(S)
  PROVE  \E s \in [1..Cardinality(S) -> S] : \A i, j \in DOMAIN s : i < j => s[i] < s[j]
<1> DEFINE Sorts(s, T) ==
             /\ s \in [1..Cardinality(T) -> T]
             /\ \A i, j \in 1..Cardinality(T) : i < j => s[i] < s[j]
           G == {T \in SUBSET S : \E s : Sorts(s, T)}
<1>1. {} \in G
  <2> DEFINE s == [i \in 1..0 |-> 0]
  <2>1. s \in [1..0 -> {}] /\ 1..0 = {} /\ Cardinality({}) = 0
    BY FS_EmptySet
  <2> HIDE DEF s
  <2>2. QED
    BY <2>1
<1>2. ASSUME NEW T \in SUBSET S, T # {} PROVE \E x \in T : T \ {x} \in G => T \in G
  <2>1. IsFiniteSet(T)
    BY FS_Subset
  <2>2. PICK x \in T : \A h \in T : h <= x
    BY <1>2, <2>1, GreatestNumber
  <2> DEFINE U == T \ {x}
             n == Cardinality(U)
  <2>3. n \in Nat /\ Cardinality(T) = n + 1
    <3>1. IsFiniteSet(U) /\ Cardinality(U) = Cardinality(T) - 1
      BY <2>1, <2>2, FS_RemoveElement
    <3>2. Cardinality(U) \in Nat /\ Cardinality(T) \in Nat
      BY <2>1, <3>1, FS_CardinalityType
    <3>3. QED
      BY <3>1, <3>2
  <2> SUFFICES ASSUME U \in G PROVE T \in G
    OBVIOUS
  <2>4. PICK s : Sorts(s, U)
    OBVIOUS
  <2> HIDE DEF n
  <2> DEFINE t == [i \in 1..(n + 1) |-> IF i = n + 1 THEN x ELSE s[i]]
  <2>5. \A i \in 1..(n + 1) : i \in 1..n \/ i = n + 1
    BY <2>3
  <2>6. \A i \in 1..n : t[i] = s[i] /\ s[i] \in U /\ s[i] < x
    <3> SUFFICES ASSUME NEW i \in 1..n PROVE t[i] = s[i] /\ s[i] \in U /\ s[i] < x
      OBVIOUS
    <3>1. s[i] \in U
      BY <2>4 DEF n
    <3>2. s[i] < x
      <4>1. s[i] \in Nat /\ x \in Nat /\ s[i] <= x /\ s[i] # x
        BY <1>2, <2>2, <3>1
      <4>2. QED
        BY <4>1
    <3>3. QED
      BY <2>3, <3>1, <3>2
  <2>7. t[n + 1] = x
    BY <2>3
  <2>8. t \in [1..(n + 1) -> T]
    BY <2>3, <2>4, <2>5, <2>6
  <2>9. \A i, j \in 1..n : i < j => s[i] < s[j]
    BY <2>4 DEF n
  <2> HIDE DEF t
  <2>10. \A i, j \in 1..(n + 1) : i < j => t[i] < t[j]
    <3> SUFFICES ASSUME NEW i \in 1..(n + 1), NEW j \in 1..(n + 1), i < j
                 PROVE  t[i] < t[j]
      OBVIOUS
    <3>1. i \in 1..n
      BY <2>3
    <3>2. CASE j \in 1..n
      BY <2>6, <2>9, <3>1, <3>2
    <3>3. CASE j = n + 1
      BY <2>6, <2>7, <3>1, <3>3
    <3>4. QED
      BY <2>5, <3>2, <3>3
  <2>11. Sorts(t, T)
    BY <2>3, <2>8, <2>10
  <2>12. QED
    BY <2>11
<1> HIDE DEF G
<1>3. S \in G
  BY <1>1, <1>2, AllPartsBut
<1>4. PICK s : Sorts(s, S)
  BY <1>3 DEF G
<1>5. QED
  BY <1>4

\* Such a list leaves no number out.
LEMMA SortedIsComplete ==
  ASSUME NEW S \in SUBSET Nat, IsFiniteSet(S), NEW s \in [1..Cardinality(S) -> S],
         \A i, j \in DOMAIN s : i < j => s[i] < s[j]
  PROVE  \A x \in S : \E i \in DOMAIN s : s[i] = x
<1> DEFINE n == Cardinality(S)
<1>1. n \in Nat /\ IsFiniteSet(1..n) /\ Cardinality(1..n) = n
  BY FS_CardinalityType, FS_Interval
<1>2. s \in Injection(1..n, S)
  <2>1. \A i, j \in 1..n : i # j => s[i] # s[j]
    <3> SUFFICES ASSUME NEW i \in 1..n, NEW j \in 1..n, i # j PROVE s[i] # s[j]
      OBVIOUS
    <3>1. s[i] \in Nat /\ s[j] \in Nat
      OBVIOUS
    <3>2. i < j \/ j < i
      BY <1>1
    <3>3. QED
      BY <3>1, <3>2
  <2>2. QED
    BY <2>1 DEF Injection, IsInjective
<1>3. s \in Surjection(1..n, S)
  BY <1>1, <1>2, FS_Injection
<1>4. QED
  BY <1>3 DEF Surjection

-----------------------------------------------------------------------------
(* Sums over finite sets (SumFunctionOnSet of Functions).                  *)

SomeOf(S) == CHOOSE x \in S : TRUE

\* g[T] is the sum of f over T, for every part T of R.
Sums(g, f, R) ==
  /\ f \in [R -> Int]
  /\ g \in [SUBSET R -> Int]
  /\ \A T \in SUBSET R : g[T] = IF T = {} THEN 0 ELSE f[SomeOf(T)] + g[T \ {SomeOf(T)}]

LEMMA SomeOfType ==
  ASSUME NEW R, NEW T \in SUBSET R, T # {}
  PROVE  SomeOf(T) \in T /\ SomeOf(T) \in R /\ T \ {SomeOf(T)} \in SUBSET R
  BY DEF SomeOf

\* There is such a g: a hundred rounds of adding settle the sums of sets with
\* up to a hundred elements.
LEMMA SumsExist ==
  ASSUME NEW R, IsFiniteSet(R), NEW f \in [R -> Int]
  PROVE  \E g : Sums(g, f, R)
<1> DEFINE D == [SUBSET R -> Int]
           N == Cardinality(R)
           Round(g) ==
             [T \in SUBSET R |-> IF T = {} THEN 0 ELSE f[SomeOf(T)] + g[T \ {SomeOf(T)}]]
           step == [x \in D \X (1..(N + 1)) |-> Round(x[1])]
           zero == [T \in SUBSET R |-> 0]
<1>1. N \in Nat /\ \A T \in SUBSET R : IsFiniteSet(T) /\ Cardinality(T) \in 0..N
  <2>1. \A T \in SUBSET R : /\ IsFiniteSet(T) /\ Cardinality(T) \in Nat
                            /\ Cardinality(T) <= N
    BY FS_Subset, FS_CardinalityType
  <2>2. N \in Nat
    BY FS_CardinalityType
  <2>3. QED
    BY <2>1, <2>2
<1>2. \A g \in D : Round(g) \in D
  BY SomeOfType
<1>3. zero \in D
  OBVIOUS
<1>4. \A d \in D : \A i \in 1..(N + 1) : step[<<d, i>>] = Round(d) /\ step[<<d, i>>] \in D
  <2> HIDE DEF Round, D
  <2>1. QED
    BY <1>2
<1> HIDE DEF N
<1>5. PICK h \in [0..(N + 1) -> D] :
        h[0] = zero /\ \A i \in 1..(N + 1) : h[i] = step[<<h[i - 1], i>>]
  <2> HIDE DEF step, zero, D
  <2>1. N + 1 \in Nat
    BY <1>1
  <2>2. \E h : Iterates(h, N + 1, D, zero, step)
    BY <1>3, <1>4, <2>1, Iterate
  <2>3. QED
    BY <2>2 DEF Iterates
<1>6. \A i \in 0..N : h[i] \in D /\ h[i + 1] = Round(h[i])
  <2> SUFFICES ASSUME NEW i \in 0..N PROVE h[i] \in D /\ h[i + 1] = Round(h[i])
    OBVIOUS
  <2>1. i + 1 \in 1..(N + 1) /\ i \in 0..(N + 1) /\ i + 1 - 1 = i
    BY <1>1
  <2>2. h[i] \in D /\ h[i + 1] = step[<<h[i], i + 1>>]
    <3> HIDE DEF step, D
    <3>1. QED
      BY <1>5, <2>1
  <2> HIDE DEF Round, D
  <2>3. QED
    BY <2>1, <2>2
<1> HIDE DEF D, step
<1> DEFINE Same(i) == \A T \in SUBSET R : Cardinality(T) <= i => h[i + 1][T] = h[i][T]
           G == {i \in 0..N : Same(i)}
<1>7. 0 \in G
  <2>1. 0 \in 0..N
    BY <1>1
  <2>2. ASSUME NEW T \in SUBSET R, Cardinality(T) <= 0 PROVE h[0 + 1][T] = h[0][T]
    <3>1. T = {}
      BY <1>1, <2>2, FS_EmptySet
    <3>2. h[0 + 1] = Round(h[0]) /\ h[0] = zero
      BY <1>5, <1>6, <2>1
    <3>3. QED
      BY <3>1, <3>2
  <2>3. QED
    BY <2>1, <2>2
<1>8. ASSUME NEW i \in 0..(N - 1), i \in G PROVE i + 1 \in G
  <2>1. i \in 0..N /\ i + 1 \in 0..N
    BY <1>1
  <2>2. ASSUME NEW T \in SUBSET R, Cardinality(T) <= i + 1
        PROVE  h[i + 1 + 1][T] = h[i + 1][T]
    <3>1. h[i + 1 + 1] = Round(h[i + 1]) /\ h[i + 1] = Round(h[i])
      BY <1>6, <2>1
    <3>2. CASE T = {}
      BY <3>1, <3>2
    <3>3. CASE T # {}
      <4> DEFINE U == T \ {SomeOf(T)}
      <4>1. SomeOf(T) \in T /\ U \in SUBSET R
        BY <3>3, SomeOfType
      <4>2. Cardinality(U) = Cardinality(T) - 1
        BY <1>1, <4>1, FS_RemoveElement
      <4>3. Cardinality(U) <= i
        BY <1>1, <2>2, <4>1, <4>2
      <4>4. h[i + 1][U] = h[i][U]
        BY <1>8, <4>1, <4>3
      <4>5. QED
        BY <3>1, <3>3, <4>4
    <3>4. QED
      BY <3>2, <3>3
  <2>3. QED
    BY <2>1, <2>2
<1>9. N \in G
  <2> HIDE DEF G
  <2>1. \A i \in 0..N : i \in G
    BY <1>1, <1>7, <1>8, UpTo
  <2>2. QED
    BY <1>1, <2>1
<1>10. N \in 0..N /\ h[N] \in [SUBSET R -> Int] /\ h[N + 1] = Round(h[N])
  <2>1. N \in 0..N
    BY <1>1
  <2>2. QED
    BY <1>6, <2>1 DEF D
<1>11. Sums(h[N], f, R)
  <2> SUFFICES ASSUME NEW T \in SUBSET R
               PROVE  h[N][T] = IF T = {} THEN 0
                                ELSE f[SomeOf(T)] + h[N][T \ {SomeOf(T)}]
    BY <1>10 DEF Sums
  <2>1. h[N + 1][T] = h[N][T]
    BY <1>1, <1>9
  <2>2. QED
    BY <1>10, <2>1
<1>12. QED
  BY <1>10, <1>11

\* Whichever element is taken off first, the sum is the same.
LEMMA SumsSplit ==
  ASSUME NEW R, IsFiniteSet(R), NEW f, NEW g, Sums(g, f, R),
         NEW T \in SUBSET R, NEW x \in T
  PROVE  g[T] = f[x] + g[T \ {x}]
<1> USE DEF Sums
<1> DEFINE N == Cardinality(R)
           Splits(U) == \A y \in U : g[U] = f[y] + g[U \ {y}]
           G == {n \in 0..N : \A U \in SUBSET R : Cardinality(U) <= n => Splits(U)}
<1>1. N \in Nat /\ \A U \in SUBSET R : IsFiniteSet(U) /\ Cardinality(U) \in 0..N
  <2>1. \A U \in SUBSET R : /\ IsFiniteSet(U) /\ Cardinality(U) \in Nat
                            /\ Cardinality(U) <= N
    BY FS_Subset, FS_CardinalityType
  <2>2. N \in Nat
    BY FS_CardinalityType
  <2>3. QED
    BY <2>1, <2>2
<1> HIDE DEF N
<1>2. 0 \in G
  <2>1. \A U \in SUBSET R : Cardinality(U) <= 0 => U = {}
    BY <1>1, FS_EmptySet
  <2>2. QED
    BY <1>1, <2>1
<1>3. ASSUME NEW n \in 0..(N - 1), n \in G PROVE n + 1 \in G
  <2>1. n + 1 \in 0..N
    BY <1>1
  <2>2. ASSUME NEW W \in SUBSET R, Cardinality(W) <= n + 1, NEW y \in W
        PROVE  g[W] = f[y] + g[W \ {y}]
    <3> DEFINE c == SomeOf(W)
               U == W \ {c}
               V == W \ {y}
    <3>1. c \in W /\ U \in SUBSET R /\ V \in SUBSET R /\ y \in R /\ c \in R
      BY SomeOfType
    <3>2. g[W] = f[c] + g[U]
      BY DEF Sums
    <3>3. Cardinality(U) <= n /\ Cardinality(V) <= n
      <4>1. Cardinality(U) = Cardinality(W) - 1 /\ Cardinality(V) = Cardinality(W) - 1
        BY <1>1, <3>1, FS_RemoveElement
      <4>2. QED
        BY <1>1, <2>2, <4>1
    <3>4. CASE y = c
      BY <3>2, <3>4
    <3>5. CASE y # c
      <4> HIDE DEF c
      <4>1. y \in U /\ c \in V /\ U \ {y} = V \ {c} /\ U \ {y} \in SUBSET R
        BY <3>1, <3>5
      <4> HIDE DEF U, V
      <4>2. g[U] = f[y] + g[U \ {y}] /\ g[V] = f[c] + g[V \ {c}]
        BY <1>3, <3>1, <3>3, <4>1
      <4>3. f[y] \in Int /\ f[c] \in Int /\ g[U \ {y}] \in Int
        BY <3>1, <4>1
      <4>4. g[V \ {c}] = g[U \ {y}]
        BY <4>1
      <4>5. g[W] = f[y] + g[V]
        BY <3>2, <4>2, <4>3, <4>4
      <4>6. QED
        BY <4>5 DEF V
    <3>6. QED
      BY <3>4, <3>5
  <2>3. QED
    BY <2>1, <2>2
<1>4. N \in G
  <2> HIDE DEF G
  <2>1. \A n \in 0..N : n \in G
    BY <1>1, <1>2, <1>3, UpTo
  <2>2. QED
    BY <1>1, <2>1
<1>5. Cardinality(T) <= N
  BY <1>1
<1>6. QED
  BY <1>4, <1>5

\* SumFunctionOnSet is that sum.
LEMMA SumValue ==
  ASSUME NEW R, IsFiniteSet(R), NEW f, NEW g, Sums(g, f, R), NEW T \in SUBSET R
  PROVE  SumFunctionOnSet(f, T) = g[T]
<1> DEFINE Rec(h) ==
             h = [s \in SUBSET T |-> IF s = {} THEN 0 ELSE f[SomeOf(s)] + h[s \ {SomeOf(s)}]]
           it == CHOOSE h : Rec(h)
           G == {s \in SUBSET T : it[s] = g[s]}
<1>1. SumFunctionOnSet(f, T) = it[T]
  BY DEF SumFunctionOnSet, FoldFunctionOnSet, MapThenFoldSet, SomeOf
<1>2. \A s \in SUBSET T : s # {} => SomeOf(s) \in s /\ s \ {SomeOf(s)} \in SUBSET T
  BY SomeOfType
<1>3. Rec(it)
  <2> DEFINE k == [s \in SUBSET T |-> g[s]]
  <2>1. Rec(k)
    BY <1>2 DEF Sums
  <2> HIDE DEF k, Rec
  <2>2. QED
    BY <2>1
<1> HIDE DEF it
<1>4. {} \in G
  BY <1>3 DEF Sums
<1>5. ASSUME NEW s \in SUBSET T, s # {} PROVE \E x \in s : s \ {x} \in G => s \in G
  <2>1. it[s] = f[SomeOf(s)] + it[s \ {SomeOf(s)}]
    BY <1>3, <1>5
  <2>2. g[s] = f[SomeOf(s)] + g[s \ {SomeOf(s)}]
    BY <1>5 DEF Sums
  <2>3. QED
    BY <1>2, <1>5, <2>1, <2>2
<1> HIDE DEF G
<1>6. T \in G
  BY <1>4, <1>5, FS_Subset, AllPartsBut
<1>7. QED
  BY <1>1, <1>6 DEF G

\* The sum over no element is zero, another element adds its value.
LEMMA SumFacts ==
  ASSUME NEW R, IsFiniteSet(R), NEW f \in [R -> Int]
  PROVE  /\ SumFunctionOnSet(f, {}) = 0
         /\ \A T \in SUBSET R : SumFunctionOnSet(f, T) \in Int
         /\ \A T \in SUBSET R : \A x \in R \ T :
              SumFunctionOnSet(f, T \union {x}) = f[x] + SumFunctionOnSet(f, T)
<1>1. PICK g : Sums(g, f, R)
  BY SumsExist
<1>2. \A T \in SUBSET R : SumFunctionOnSet(f, T) = g[T] /\ g[T] \in Int
  <2>1. \A T \in SUBSET R : SumFunctionOnSet(f, T) = g[T]
    BY <1>1, SumValue
  <2>2. QED
    BY <1>1, <2>1 DEF Sums
<1>3. g[{}] = 0
  BY <1>1 DEF Sums
<1>4. ASSUME NEW U \in SUBSET R, NEW x \in U PROVE g[U] = f[x] + g[U \ {x}]
  <2>1. g[U] \in Int /\ g[U \ {x}] \in Int /\ f[x] \in Int
    BY <1>1 DEF Sums
  <2>2. QED
    BY <1>1, <2>1, SumsSplit
<1>5. ASSUME NEW T \in SUBSET R, NEW x \in R \ T PROVE g[T \union {x}] = f[x] + g[T]
  <2>1. T \union {x} \in SUBSET R /\ x \in T \union {x} /\ (T \union {x}) \ {x} = T
    OBVIOUS
  <2>2. QED
    BY <1>4, <2>1
<1>6. QED
  BY <1>2, <1>3, <1>5

\* A sum of amounts that are not negative is not negative.
LEMMA SumNat ==
  ASSUME NEW R, IsFiniteSet(R), NEW f \in [R -> Nat]
  PROVE  \A T \in SUBSET R : SumFunctionOnSet(f, T) \in Nat
<1> DEFINE G == {T \in SUBSET R : SumFunctionOnSet(f, T) \in Nat}
<1>1. f \in [R -> Int]
  OBVIOUS
<1>2. {} \in G
  BY <1>1, SumFacts
<1>3. ASSUME NEW T \in SUBSET R, NEW x \in R \ T, T \in G PROVE T \union {x} \in G
  <2>1. SumFunctionOnSet(f, T \union {x}) = f[x] + SumFunctionOnSet(f, T)
    BY <1>1, SumFacts
  <2>2. QED
    BY <1>3, <2>1
<1> HIDE DEF G
<1>4. \A T \in SUBSET R : T \in G
  BY <1>2, <1>3, AllParts
<1>5. QED
  BY <1>4 DEF G
=============================================================================
