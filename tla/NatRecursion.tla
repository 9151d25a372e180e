---------------------------- MODULE NatRecursion ----------------------------
(***************************************************************************)
(* Induction over the numbers, for sets instead of predicates, and what    *)
(* recursion over them defines: the lemmas behind the theorems about       *)
(* recursive functions of the models.                                      *)
(***************************************************************************)
EXTENDS Integers, FiniteSetTheorems, TLAPS

\* A set with 0 and every successor of its numbers holds every number.
LEMMA Induction ==
  ASSUME NEW S, 0 \in S, \A n \in Nat : n \in S => n + 1 \in S
  PROVE  Nat \subseteq S
<1> DEFINE R == StrictSubsetOrdering(Nat)
           T == {0..(n - 1) : n \in Nat \ S}
<1>1. IsWellFoundedOn(R, FiniteSubsetsOf(Nat))
  BY FS_StrictSubsetOrderingWellFounded
<1>2. SUFFICES ASSUME T # {} PROVE FALSE
  OBVIOUS
<1>3. PICK X \in T : \A Y \in T : <<Y, X>> \notin R
  <2>1. T \subseteq FiniteSubsetsOf(Nat)
    <3> SUFFICES ASSUME NEW n \in Nat PROVE 0..(n - 1) \in FiniteSubsetsOf(Nat)
      OBVIOUS
    <3>1. IsFiniteSet(0..(n - 1))
      BY FS_Interval
    <3> QED
      BY <3>1 DEF FiniteSubsetsOf
  <2> HIDE DEF R, T
  <2> QED
    BY <1>1, <1>2, <2>1, WFMin
<1>4. PICK n \in Nat \ S : X = 0..(n - 1)
  BY <1>3
<1>5. n # 0 /\ n - 1 \in Nat
  OBVIOUS
<1>6. n - 1 \notin S
  BY <1>5
<1>7. 0..(n - 2) \in T
  <2>1. 0..((n - 1) - 1) \in T
    BY <1>5, <1>6
  <2>2. (n - 1) - 1 = n - 2
    BY <1>5
  <2> QED
    BY <2>1, <2>2
<1>8. <<0..(n - 2), 0..(n - 1)>> \in R
  <2>1. 0..(n-2) \subseteq Nat /\ 0..(n-1) \subseteq Nat /\ 0..(n-2) \subseteq 0..(n-1)
    OBVIOUS
  <2>2. n - 1 \in 0..(n-1) /\ n - 1 \notin 0..(n-2)
    BY <1>5
  <2> QED
    BY <2>1, <2>2 DEF StrictSubsetOrdering
<1> QED
  BY <1>3, <1>4, <1>7, <1>8

\* f is what x becomes, step by step, up to n.
Steps(X, x, G, n) ==
  {f \in [0..n -> X] : f[0] = x /\ \A i \in 0..(n - 1) : f[i + 1] = G[<<i, f[i]>>]}

\* There is one for every n.
LEMMA StepsExist ==
  ASSUME NEW X, NEW x \in X, NEW G \in [Nat \X X -> X]
  PROVE  \A n \in Nat : Steps(X, x, G, n) # {}
<1> DEFINE S == {n \in Nat : Steps(X, x, G, n) # {}}
<1>1. 0 \in S
  <2>1. [i \in 0..0 |-> x] \in Steps(X, x, G, 0)
    BY DEF Steps
  <2> QED
    BY <2>1
<1>2. ASSUME NEW n \in Nat, n \in S
      PROVE  n + 1 \in S
  <2>1. PICK f : f \in Steps(X, x, G, n)
    BY <1>2
  <2>2. f \in [0..n -> X] /\ f[0] = x /\ \A i \in 0..(n - 1) : f[i + 1] = G[<<i, f[i]>>]
    BY <2>1 DEF Steps
  <2> DEFINE g == [i \in 0..(n + 1) |-> IF i = n + 1 THEN G[<<n, f[n]>>] ELSE f[i]]
  <2>3. f[n] \in X /\ G[<<n, f[n]>>] \in X
    BY <2>2
  <2>4. g \in [0..(n + 1) -> X]
    BY <2>2, <2>3
  <2>5. g[0] = x
    BY <2>2
  <2>6. ASSUME NEW i \in 0..((n + 1) - 1)
        PROVE  g[i + 1] = G[<<i, g[i]>>]
    <3>1. g[i] = f[i]
      OBVIOUS
    <3>2. CASE i = n
      <4>1. i + 1 = n + 1 /\ i + 1 \in 0..(n + 1)
        BY <3>2
      <4>2. g[i + 1] = G[<<n, f[n]>>]
        BY <4>1
      <4> QED
        BY <3>1, <3>2, <4>2
    <3>3. CASE i # n
      <4>1. i \in 0..(n - 1) /\ g[i + 1] = f[i + 1]
        BY <3>3
      <4> QED
        BY <2>2, <3>1, <4>1
    <3> QED
      BY <3>2, <3>3
  <2>7. g \in Steps(X, x, G, n + 1)
    BY <2>4, <2>5, <2>6 DEF Steps
  <2> QED
    BY <2>7
<1> HIDE DEF S
<1>3. Nat \subseteq S
  BY <1>1, <1>2, Induction
<1> QED
  BY <1>3 DEF S

\* Two of them agree as far as both go.
LEMMA StepsAgree ==
  ASSUME NEW X, NEW x, NEW G, NEW m \in Nat, NEW n \in Nat,
         NEW f \in Steps(X, x, G, m), NEW g \in Steps(X, x, G, n)
  PROVE  \A i \in Nat : i <= m /\ i <= n => f[i] = g[i]
<1> DEFINE S == {i \in Nat : i <= m /\ i <= n => f[i] = g[i]}
<1>1. f[0] = x /\ \A i \in 0..(m - 1) : f[i + 1] = G[<<i, f[i]>>]
  BY DEF Steps
<1>2. g[0] = x /\ \A i \in 0..(n - 1) : g[i + 1] = G[<<i, g[i]>>]
  BY DEF Steps
<1>3. 0 \in S
  BY <1>1, <1>2
<1>4. ASSUME NEW i \in Nat, i \in S
      PROVE  i + 1 \in S
  <2> SUFFICES ASSUME i + 1 <= m, i + 1 <= n
               PROVE  f[i + 1] = g[i + 1]
    OBVIOUS
  <2>1. i \in 0..(m - 1) /\ i \in 0..(n - 1) /\ f[i] = g[i]
    BY <1>4
  <2> QED
    BY <1>1, <1>2, <2>1
<1> HIDE DEF S
<1>5. Nat \subseteq S
  BY <1>3, <1>4, Induction
<1> QED
  BY <1>5 DEF S

\* f is what x becomes step by step, for ever.
IsIterated(f, X, x, G) ==
  f \in [Nat -> X] /\ f[0] = x /\ \A n \in Nat : f[n + 1] = G[<<n, f[n]>>]

\* A function of the numbers may be defined by its value at 0 and the step to the
\* next number.
LEMMA Recursion ==
  ASSUME NEW X, NEW x \in X, NEW G \in [Nat \X X -> X]
  PROVE  \E f : IsIterated(f, X, x, G)
<1> DEFINE s == [n \in Nat |-> CHOOSE f \in Steps(X, x, G, n) : TRUE]
           h == [n \in Nat |-> s[n][n]]
<1>1. \A n \in Nat : s[n] \in Steps(X, x, G, n)
  BY StepsExist
<1> HIDE DEF s
<1>2. \A n \in Nat : s[n] \in [0..n -> X] /\ s[n][0] = x
  BY <1>1 DEF Steps
<1>3. h \in [Nat -> X]
  BY <1>2
<1>4. h[0] = x
  BY <1>2
<1>5. ASSUME NEW n \in Nat
      PROVE  h[n + 1] = G[<<n, h[n]>>]
  <2>1. s[n + 1][n + 1] = G[<<n, s[n + 1][n]>>]
    <3>1. s[n + 1] \in Steps(X, x, G, n + 1)
      BY <1>1
    <3>2. n \in 0..((n + 1) - 1)
      OBVIOUS
    <3> QED
      BY <3>1, <3>2 DEF Steps
  <2>2. s[n + 1][n] = s[n][n]
    <3>1. s[n + 1] \in Steps(X, x, G, n + 1) /\ s[n] \in Steps(X, x, G, n)
      BY <1>1
    <3>2. n <= n /\ n <= n + 1 /\ n + 1 \in Nat
      OBVIOUS
    <3> QED
      BY <3>1, <3>2, StepsAgree
  <2> QED
    BY <2>1, <2>2
<1> HIDE DEF h
<1>6. IsIterated(h, X, x, G)
  BY <1>3, <1>4, <1>5 DEF IsIterated
<1> QED
  BY <1>6

\* h is what x becomes, step by step, from a to b.
IsStepwise(h, a, b, x, G) ==
  h = [k \in a..b |-> IF k = a THEN x ELSE G[<<k, h[k - 1]>>]]

\* The same for the numbers of an interval.
LEMMA IntervalRecursion ==
  ASSUME NEW X, NEW x \in X, NEW a \in Int, NEW b \in Int, NEW G \in [Int \X X -> X]
  PROVE  \E h : IsStepwise(h, a, b, x, G)
<1> DEFINE H == [p \in Nat \X X |-> G[<<a + p[1] + 1, p[2]>>]]
<1>1. H \in [Nat \X X -> X]
  OBVIOUS
<1>2. PICK f : IsIterated(f, X, x, H)
  <2> HIDE DEF H
  <2> QED
    BY <1>1, Recursion
<1> DEFINE h == [k \in a..b |-> f[k - a]]
<1>3. ASSUME NEW k \in a..b
      PROVE  f[k - a] = IF k = a THEN x ELSE G[<<k, h[k - 1]>>]
  <2>1. CASE k = a
    BY <1>2, <2>1 DEF IsIterated
  <2>2. CASE k # a
    <3>1. PICK n \in Nat : n = k - a - 1
      BY <2>2
    <3>2. f[n + 1] = H[<<n, f[n]>>] /\ f[n] \in X
      <4> HIDE DEF H
      <4> QED
        BY <1>2 DEF IsIterated
    <3>3. H[<<n, f[n]>>] = G[<<a + n + 1, f[n]>>]
      BY <3>2
    <3>4. n + 1 = k - a /\ a + n + 1 = k /\ k - 1 \in a..b /\ (k - 1) - a = n
      BY <2>2, <3>1
    <3>5. h[k - 1] = f[n]
      BY <3>4
    <3> HIDE DEF h, H
    <3>6. f[k - a] = G[<<k, h[k - 1]>>]
      BY <3>2, <3>3, <3>4, <3>5
    <3> QED
      BY <2>2, <3>6
  <2> QED
    BY <2>1, <2>2
<1>4. IsStepwise(h, a, b, x, G)
  BY <1>3 DEF IsStepwise
<1> QED
  BY <1>4

\* Induction over an interval.
LEMMA IntervalInduction ==
  ASSUME NEW a \in Int, NEW b \in Int, NEW S,
         a \in S, \A k \in (a + 1)..b : k - 1 \in S => k \in S
  PROVE  a..b \subseteq S
<1> DEFINE T == {n \in Nat : a + n <= b => a + n \in S}
<1>1. 0 \in T
  OBVIOUS
<1>2. ASSUME NEW n \in Nat, n \in T
      PROVE  n + 1 \in T
  <2> SUFFICES ASSUME a + (n + 1) <= b PROVE a + (n + 1) \in S
    OBVIOUS
  <2>1. PICK k \in (a + 1)..b : k = a + (n + 1)
    OBVIOUS
  <2>2. k - 1 = a + n /\ a + n <= b
    BY <2>1
  <2>3. k - 1 \in S
    BY <1>2, <2>2
  <2> QED
    BY <2>1, <2>3
<1> HIDE DEF T
<1>3. Nat \subseteq T
  BY <1>1, <1>2, Induction
<1> SUFFICES ASSUME NEW k \in a..b PROVE k \in S
  OBVIOUS
<1>4. PICK n \in Nat : n = k - a
  OBVIOUS
<1>5. n \in T /\ a + n = k /\ a + n <= b
  BY <1>3, <1>4
<1> QED
  BY <1>5 DEF T

\* What is made step by step stays where the steps stay.
LEMMA StepwiseType ==
  ASSUME NEW X, NEW x \in X, NEW a \in Int, NEW b \in Int, NEW G \in [Int \X X -> X],
         NEW h, IsStepwise(h, a, b, x, G)
  PROVE  \A k \in a..b : h[k] \in X
<1>1. \A k \in a..b : h[k] = IF k = a THEN x ELSE G[<<k, h[k - 1]>>]
  <2>1. PICK g : g = [k \in a..b |-> IF k = a THEN x ELSE G[<<k, h[k - 1]>>]]
    OBVIOUS
  <2>2. h = g
    BY <2>1, Zenon DEF IsStepwise
  <2>3. \A k \in a..b : g[k] = IF k = a THEN x ELSE G[<<k, h[k - 1]>>]
    BY <2>1
  <2> QED
    BY <2>2, <2>3, Zenon
<1> DEFINE S == {k \in Int : k \in a..b => h[k] \in X}
<1>2. a \in S
  BY <1>1
<1>3. ASSUME NEW k \in (a + 1)..b, k - 1 \in S
      PROVE  k \in S
  <2>1. k \in a..b /\ k - 1 \in a..b /\ k # a
    OBVIOUS
  <2>2. h[k - 1] \in X
    BY <1>3, <2>1
  <2>3. h[k] = G[<<k, h[k - 1]>>]
    BY <1>1, <2>1
  <2> QED
    BY <2>2, <2>3
<1> HIDE DEF S
<1>4. a..b \subseteq S
  BY <1>2, <1>3, IntervalInduction
<1> QED
  BY <1>4 DEF S
=============================================================================
