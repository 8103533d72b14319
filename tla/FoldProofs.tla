----------------------------- MODULE FoldProofs -----------------------------
(***************************************************************************)
(* Lemmas for what is computed by folding over a sequence: induction over  *)
(* the natural numbers, as a fact about sets, and the recursion that the   *)
(* folds of the community modules are defined by.                          *)
(***************************************************************************)
EXTENDS Integers, SequencesExt, FiniteSetTheorems, WellFoundedInduction, TLAPS

Less == { p \in Nat \X Nat : p[1] < p[2] }

\* A set of natural numbers has a least one.
LEMMA Smallest ==
  ASSUME NEW T, T \subseteq Nat, T # {}
  PROVE  \E x \in T : \A y \in T : x <= y
<1>1. IsWellFoundedOn(Less, Nat)
  BY NatLessThanWellFounded DEF OpToRel, Less
<1>2. PICK x \in T : \A y \in T : ~ (<<y, x>> \in Less)
  BY <1>1, WFMin
<1>3. \A y \in T : x <= y
  <2>1. x \in Nat /\ \A y \in T : y \in Nat
    OBVIOUS
  <2>2. \A y \in T : ~(y < x)
    BY <1>2, <2>1 DEF Less
  <2>3. QED BY <2>1, <2>2
<1>4. QED BY <1>3

\* Induction.
LEMMA SetInduction ==
  ASSUME NEW T, 0 \in T, \A n \in Nat : n \in T => n + 1 \in T
  PROVE  \A n \in Nat : n \in T
<1> SUFFICES ASSUME NEW m \in Nat, m \notin T PROVE FALSE
  OBVIOUS
<1>1. PICK x \in Nat \ T : \A y \in Nat \ T : x <= y
  BY Smallest
<1>2. x # 0 /\ x - 1 \in Nat
  BY <1>1
<1>3. x - 1 \in T
  BY <1>1, <1>2
<1>4. QED BY <1>1, <1>2, <1>3

\* The least of a set of natural numbers, and the greatest of one with a bound.
LEMMA MinFacts ==
  ASSUME NEW S, S \subseteq Nat, S # {}
  PROVE  Min(S) \in S /\ \A y \in S : Min(S) <= y
<1>1. \E x \in S : \A y \in S : x <= y
  BY Smallest
<1>2. QED BY <1>1 DEF Min

LEMMA MaxFacts ==
  ASSUME NEW n \in Nat, NEW S, S \subseteq 0 .. n, S # {}
  PROVE  Max(S) \in S /\ \A y \in S : Max(S) >= y
<1> DEFINE D == { n - y : y \in S }
<1>1. D \subseteq Nat /\ D # {}
  <2>1. \A y \in S : y \in 0 .. n /\ n - y \in Nat
    OBVIOUS
  <2>2. QED BY <2>1
<1>2. PICK d \in D : \A e \in D : d <= e
  BY <1>1, Smallest
<1>3. PICK x \in S : d = n - x
  OBVIOUS
<1>4. \A y \in S : x >= y
  <2> TAKE y \in S
  <2>1. n - y \in D
    OBVIOUS
  <2>2. n - x <= n - y
    BY <1>2, <1>3, <2>1
  <2>3. x \in 0 .. n /\ y \in 0 .. n
    OBVIOUS
  <2>4. QED BY <2>2, <2>3
<1>5. QED BY <1>4 DEF Max

\* The recursion of MapThenFoldSet, over the sets of places of a sequence.
Folds(it, n, b, G) ==
  it = [s \in SUBSET (1 .. n) |-> IF s = {} THEN b ELSE G[<<it[s \ {Max(s)}], Max(s)>>]]

LEMMA FoldStep ==
  ASSUME NEW X, NEW m \in Nat, NEW n \in Nat, m + 1 <= n, NEW b \in X, NEW G \in [X \X (1 .. n) -> X],
         NEW old \in [SUBSET (1 .. m) -> X], Folds(old, m, b, G)
  PROVE  \E it \in [SUBSET (1 .. m + 1) -> X] : Folds(it, m + 1, b, G)
<1> DEFINE it == [s \in SUBSET (1 .. m + 1) |-> IF m + 1 \in s THEN G[<<old[s \ {m + 1}], m + 1>>] ELSE old[s]]
<1>1. \A s \in SUBSET (1 .. m + 1) : m + 1 \in s => s # {} /\ Max(s) = m + 1 /\ s \ {m + 1} \in SUBSET (1 .. m)
  <2> SUFFICES ASSUME NEW s \in SUBSET (1 .. m + 1), m + 1 \in s
               PROVE  Max(s) = m + 1 /\ s \ {m + 1} \in SUBSET (1 .. m)
    OBVIOUS
  <2>1. s \subseteq 0 .. m + 1 /\ s # {} /\ m + 1 \in Nat
    OBVIOUS
  <2>2. Max(s) \in s /\ Max(s) >= m + 1
    BY <2>1, MaxFacts
  <2>3. Max(s) \in 1 .. m + 1
    BY <2>2
  <2>4. Max(s) = m + 1
    BY <2>2, <2>3
  <2>5. QED BY <2>4
<1>2. \A s \in SUBSET (1 .. m + 1) : m + 1 \notin s => s \in SUBSET (1 .. m)
  OBVIOUS
<1>3. it \in [SUBSET (1 .. m + 1) -> X]
  BY <1>1, <1>2
<1>4. \A s \in SUBSET (1 .. m) : s # {} => s \ {Max(s)} \in SUBSET (1 .. m)
  OBVIOUS
<1>5. \A s \in SUBSET (1 .. m) : it[s] = old[s]
  OBVIOUS
<1>6. ASSUME NEW s \in SUBSET (1 .. m + 1)
      PROVE  it[s] = IF s = {} THEN b ELSE G[<<it[s \ {Max(s)}], Max(s)>>]
  <2>1. CASE m + 1 \in s
    BY <1>1, <1>5, <2>1
  <2>2. CASE m + 1 \notin s
    <3>1. s \in SUBSET (1 .. m) /\ it[s] = old[s]
      BY <1>2, <1>5, <2>2
    <3>2. old[s] = IF s = {} THEN b ELSE G[<<old[s \ {Max(s)}], Max(s)>>]
      BY <3>1 DEF Folds
    <3>3. s # {} => it[s \ {Max(s)}] = old[s \ {Max(s)}]
      BY <1>4, <1>5, <3>1
    <3>4. QED BY <3>1, <3>2, <3>3
  <2>3. QED BY <2>1, <2>2
<1>7. it = [s \in SUBSET (1 .. m + 1) |-> it[s]]
  OBVIOUS
<1> HIDE DEF it
<1>8. Folds(it, m + 1, b, G)
  BY <1>6, <1>7 DEF Folds
<1>9. QED BY <1>3, <1>8

LEMMA FoldExists ==
  ASSUME NEW X, NEW n \in Nat, NEW b \in X, NEW G \in [X \X (1 .. n) -> X]
  PROVE  \E it \in [SUBSET (1 .. n) -> X] : Folds(it, n, b, G)
<1> DEFINE Upto(k) == k <= n => \E it \in [SUBSET (1 .. k) -> X] : Folds(it, k, b, G)
           T == { k \in Nat : Upto(k) }
<1>1. Upto(0)
  <2> DEFINE it == [s \in SUBSET (1 .. 0) |-> b]
  <2>1. \A s \in SUBSET (1 .. 0) : s = {}
    OBVIOUS
  <2>2. it \in [SUBSET (1 .. 0) -> X]
    OBVIOUS
  <2>3. Folds(it, 0, b, G)
    BY <2>1 DEF Folds
  <2>4. QED BY <2>2, <2>3
<1>2. ASSUME NEW k \in Nat, Upto(k) PROVE Upto(k + 1)
  <2> SUFFICES ASSUME k + 1 <= n PROVE \E it \in [SUBSET (1 .. k + 1) -> X] : Folds(it, k + 1, b, G)
    OBVIOUS
  <2>1. k <= n
    OBVIOUS
  <2>2. PICK old \in [SUBSET (1 .. k) -> X] : Folds(old, k, b, G)
    BY <1>2, <2>1
  <2>3. QED BY <2>2, FoldStep
<1>3. Upto(n)
  <2> HIDE DEF Upto
  <2>1. 0 \in T /\ \A k \in Nat : k \in T => k + 1 \in T
    BY <1>1, <1>2
  <2> HIDE DEF T
  <2>2. n \in T
    BY <2>1, SetInduction
  <2>3. QED BY <2>2 DEF T
<1>4. n <= n
  OBVIOUS
<1>5. QED BY <1>3, <1>4

\* The places up to one of a sequence.
LEMMA UpTo ==
  ASSUME NEW n \in Nat, NEW k \in 1 .. n
  PROVE  /\ 1 .. k \in SUBSET (1 .. n) /\ 1 .. k # {}
         /\ Max(1 .. k) = k /\ (1 .. k) \ {Max(1 .. k)} = 1 .. (k - 1)
<1>1. 1 .. k \in SUBSET (1 .. n) /\ 1 .. k # {} /\ 1 .. k \subseteq 0 .. n
  OBVIOUS
<1>2. Max(1 .. k) \in 1 .. k /\ \A y \in 1 .. k : Max(1 .. k) >= y
  BY <1>1, MaxFacts
<1>3. k \in 1 .. k
  OBVIOUS
<1>4. Max(1 .. k) = k
  BY <1>2, <1>3
<1>5. (1 .. k) \ {k} = 1 .. (k - 1)
  OBVIOUS
<1>6. QED BY <1>1, <1>4, <1>5

\* What a fold goes through, one place after the other.
Stages(X, n, it, b, G) ==
  it[{}] = b /\ \A k \in 1 .. n : it[1 .. (k - 1)] \in X => it[1 .. k] = G[<<it[1 .. (k - 1)], k>>]
Through(f, n, b, G, e) == f[0] = b /\ f[n] = e /\ \A k \in 1 .. n : f[k] = G[<<f[k - 1], k>>]

LEMMA FoldThrough ==
  ASSUME NEW X, NEW n \in Nat, NEW b \in X, NEW G \in [X \X (1 .. n) -> X], NEW it, Stages(X, n, it, b, G)
  PROVE  \E f \in [0 .. n -> X] : Through(f, n, b, G, it[1 .. n])
<1> DEFINE f == [k \in 0 .. n |-> it[1 .. k]]
           T == { k \in Nat : k <= n => f[k] \in X }
<1>1. f[0] = b
  <2>1. 1 .. 0 = {}
    OBVIOUS
  <2>2. QED BY <2>1 DEF Stages
<1>2. ASSUME NEW k \in 1 .. n, f[k - 1] \in X PROVE f[k] = G[<<f[k - 1], k>>]
  <2>1. f[k] = it[1 .. k] /\ f[k - 1] = it[1 .. (k - 1)]
    OBVIOUS
  <2>2. QED BY <1>2, <2>1 DEF Stages
<1>3. 0 \in T
  BY <1>1
<1>4. ASSUME NEW k \in Nat, k \in T PROVE k + 1 \in T
  <2> SUFFICES ASSUME k + 1 <= n PROVE f[k + 1] \in X
    OBVIOUS
  <2>1. k + 1 \in 1 .. n /\ (k + 1) - 1 = k /\ f[k] \in X
    BY <1>4
  <2> HIDE DEF f
  <2>2. f[k + 1] = G[<<f[k], k + 1>>]
    BY <1>2, <2>1
  <2>3. QED BY <2>1, <2>2
<1>5. \A k \in 0 .. n : f[k] \in X
  <2> HIDE DEF f
  <2>1. \A k \in Nat : k \in T
    BY <1>3, <1>4, SetInduction
  <2>2. QED BY <2>1
<1>6. f \in [0 .. n -> X] /\ f[n] = it[1 .. n]
  BY <1>5
<1> HIDE DEF f
<1>7. \A k \in 1 .. n : f[k] = G[<<f[k - 1], k>>]
  BY <1>2, <1>5
<1>8. Through(f, n, b, G, it[1 .. n])
  BY <1>1, <1>6, <1>7 DEF Through
<1>9. QED BY <1>6, <1>8
=============================================================================
