------------------------------ MODULE Induction ------------------------------
(***************************************************************************)
(* Induction over the natural numbers in the form the proofs use it, for   *)
(* sets and functions instead of operators: the smallest and the largest   *)
(* element of a set, and a set that holds 0 and every successor.           *)
(***************************************************************************)
EXTENDS Integers, Sequences, WellFoundedInduction, TLAPS

Below == {p \in Nat \X Nat : p[1] < p[2]}

LEMMA BelowIsWellFounded == IsWellFoundedOn(Below, Nat)
  BY NatLessThanWellFounded DEF OpToRel, Below

\* A set of natural numbers has a smallest element.
LEMMA Smallest ==
    ASSUME NEW S \in SUBSET Nat, S # {}
    PROVE  \E m \in S : \A k \in S : m <= k
<1>1. PICK m \in S : \A k \in S : ~ (<<k, m>> \in Below)
  BY BelowIsWellFounded, WFMin
<1>2. ASSUME NEW k \in S PROVE m <= k
  <2>1. k \in Nat /\ m \in Nat
    OBVIOUS
  <2>2. ~ (k < m)
    BY <1>1, <2>1 DEF Below
  <2>3. QED
    BY <2>1, <2>2
<1>3. QED
  BY <1>2

\* What is chosen as the smallest is the smallest.
LEMMA ChosenLeast ==
    ASSUME NEW S \in SUBSET Nat, S # {}
    PROVE  LET m == CHOOSE i \in S : \A j \in S : i <= j
           IN  m \in S /\ \A j \in S : m <= j
  BY Smallest

\* A bounded set of natural numbers has a largest element.
LEMMA Largest ==
    ASSUME NEW n \in Nat, NEW S \in SUBSET (0..n), S # {}
    PROVE  \E m \in S : \A k \in S : k <= m
<1> DEFINE T == {j \in Nat : n - j \in S}
<1>1. T \in SUBSET Nat /\ T # {}
  <2>1. PICK k \in S : TRUE
    OBVIOUS
  <2>2. k \in 0..n /\ n - (n - k) = k /\ n - k \in Nat
    OBVIOUS
  <2>3. QED
    BY <2>2
<1>2. PICK m \in T : \A k \in T : m <= k
  BY <1>1, Smallest
<1>3. n - m \in S /\ m \in Nat
  BY <1>2
<1>4. ASSUME NEW k \in S PROVE k <= n - m
  <2>1. n - k \in T /\ k \in 0..n
    <3>1. k \in 0..n /\ n - (n - k) = k /\ n - k \in Nat
      OBVIOUS
    <3>2. QED
      BY <3>1
  <2>2. m <= n - k
    BY <1>2, <2>1
  <2>3. QED
    BY <2>1, <2>2, <1>3
<1>5. QED
  BY <1>3, <1>4

\* Induction: a set that holds 0 and, with a number below n, the next one.
LEMMA Climb ==
    ASSUME NEW n \in Nat, NEW S, 0 \in S, \A k \in 0..n - 1 : k \in S => k + 1 \in S
    PROVE  \A k \in 0..n : k \in S
<1> DEFINE T == {k \in 0..n : k \notin S}
<1>1. SUFFICES ASSUME T # {} PROVE FALSE
  OBVIOUS
<1>2. PICK m \in T : \A k \in T : m <= k
  <2>1. T \in SUBSET Nat
    OBVIOUS
  <2>2. QED
    BY <1>1, <2>1, Smallest
<1>3. m - 1 \in 0..n - 1 /\ m - 1 \notin T /\ m - 1 + 1 = m
  BY <1>2
<1>4. QED
  BY <1>2, <1>3

\* Induction: a set that holds a number as soon as it holds all the smaller ones.
LEMMA Complete ==
    ASSUME NEW S, \A n \in Nat : (\A m \in 0..n - 1 : m \in S) => n \in S
    PROVE  Nat \subseteq S
<1> DEFINE T == {n \in Nat : n \notin S}
<1>1. SUFFICES ASSUME T # {} PROVE FALSE
  OBVIOUS
<1>2. PICK n \in T : \A m \in T : n <= m
  <2>1. T \in SUBSET Nat
    OBVIOUS
  <2>2. QED
    BY <1>1, <2>1, Smallest
<1>3. \A m \in 0..n - 1 : m \in Nat /\ ~(n <= m)
  OBVIOUS
<1>4. \A m \in 0..n - 1 : m \in S
  BY <1>2, <1>3
<1>5. QED
  BY <1>4

\* Induction: a set that holds the empty sequence and, with a sequence, all that
\* are one element longer.
LEMMA Lists ==
    ASSUME NEW D, NEW S, <<>> \in S,
           \A s \in Seq(D), d \in D : s \in S => Append(s, d) \in S
    PROVE  Seq(D) \subseteq S
<1> SUFFICES ASSUME NEW s \in Seq(D) PROVE s \in S
  OBVIOUS
<1> DEFINE n == Len(s)
           T == {k \in 0..n : SubSeq(s, 1, k) \in S}
<1>1. n \in Nat
  OBVIOUS
<1>2. 0 \in T
  <2>1. SubSeq(s, 1, 0) = <<>>
    OBVIOUS
  <2>2. SubSeq(s, 1, 0) \in S
    BY <2>1, Zenon
  <2>3. 0 \in 0..n
    BY <1>1
  <2>4. QED
    BY <2>2, <2>3, Zenon
<1>3. ASSUME NEW k \in 0..n - 1, k \in T PROVE k + 1 \in T
  <2>1. k + 1 \in 0..n /\ SubSeq(s, 1, k) \in Seq(D) /\ s[k + 1] \in D
    OBVIOUS
  <2>2. SubSeq(s, 1, k + 1) = Append(SubSeq(s, 1, k), s[k + 1])
    OBVIOUS
  <2>3. QED
    BY <1>3, <2>1, <2>2
<1>4. n \in T
  <2> HIDE DEF T
  <2>1. \A k \in 0..n : k \in T
    BY <1>1, <1>2, <1>3, Climb
  <2>2. QED
    BY <1>1, <2>1
<1>5. SubSeq(s, 1, n) = s
  OBVIOUS
<1>6. QED
  BY <1>4, <1>5

\* Recursion: each value of a function may be made from all the values before.
Steps(n, V, G) == \A k \in 0..n : \A h \in [0..k - 1 -> V] : G[k][h] \in V
Follows(f, n, V, G) ==
    f \in [0..n -> V] /\ \A k \in 0..n : f[k] = G[k][[j \in 0..k - 1 |-> f[j]]]

LEMMA Recursion ==
    ASSUME NEW n \in Nat, NEW V, NEW G, Steps(n, V, G)
    PROVE  \E f : Follows(f, n, V, G)
<1> DEFINE Made(f, k) == f[k] = G[k][[j \in 0..k - 1 |-> f[j]]]
           T == {m \in 0..n : \E f \in [0..m -> V] : \A k \in 0..m : Made(f, k)}
<1>1. 0 \in T
  <2> DEFINE f == [k \in 0..0 |-> G[0][[j \in 0..-1 |-> j]]]
  <2>1. [j \in 0..-1 |-> j] \in [0..-1 -> V] /\ 0 - 1 = -1 /\ 0 \in 0..n
    OBVIOUS
  <2>2. f \in [0..0 -> V]
    BY <2>1 DEF Steps
  <2>3. Made(f, 0)
    <3>1. [j \in 0..0 - 1 |-> f[j]] = [j \in 0..-1 |-> j]
      BY <2>1
    <3>2. QED
      BY <3>1
  <2> HIDE DEF f
  <2>4. QED
    BY <2>1, <2>2, <2>3
<1>2. ASSUME NEW m \in 0..n - 1, m \in T PROVE m + 1 \in T
  <2>1. PICK g \in [0..m -> V] : \A k \in 0..m : Made(g, k)
    BY <1>2
  <2> DEFINE f == [k \in 0..m + 1 |-> IF k = m + 1 THEN G[m + 1][g] ELSE g[k]]
  <2>2. m + 1 \in 0..n /\ m + 1 - 1 = m /\ \A k \in 0..m + 1 : k = m + 1 \/ k \in 0..m
    OBVIOUS
  <2>3. G[m + 1][g] \in V
    BY <2>2 DEF Steps
  <2>4. f \in [0..m + 1 -> V]
    BY <2>2, <2>3
  <2>5. ASSUME NEW k \in 0..m + 1 PROVE Made(f, k)
    <3>1. \A j \in 0..k - 1 : j \in 0..m + 1 /\ j # m + 1 /\ j \in 0..m
      OBVIOUS
    <3>2. [j \in 0..k - 1 |-> f[j]] = [j \in 0..k - 1 |-> g[j]]
      BY <3>1
    <3>3. CASE k = m + 1
      <4>1. [j \in 0..k - 1 |-> g[j]] = g
        BY <2>2, <3>3
      <4>2. QED
        BY <3>2, <3>3, <4>1
    <3>4. CASE k # m + 1
      <4>1. k \in 0..m /\ f[k] = g[k]
        BY <2>2, <3>4
      <4>2. QED
        BY <2>1, <3>2, <4>1
    <3>5. QED
      BY <3>3, <3>4
  <2> HIDE DEF f, Made
  <2>6. QED
    BY <2>2, <2>4, <2>5
<1>3. n \in T
  <2> HIDE DEF T
  <2>1. \A k \in 0..n : k \in T
    BY <1>1, <1>2, Climb
  <2>2. QED
    BY <2>1
<1>4. QED
  BY <1>3 DEF Follows
=============================================================================
