------------------------------ MODULE ViProofs ------------------------------
(***************************************************************************)
(* The editor's state is well-typed, the undo list is exact, and leaving   *)
(* loses nothing that was counted, for every file and every bound.         *)
(***************************************************************************)
EXTENDS Vi, FoldProofs

-----------------------------------------------------------------------------
(* Sequences of characters. *)

LEMMA CatFacts ==
  ASSUME NEW s \in Seq(Char), NEW t \in Seq(Char)
  PROVE  /\ s \o t \in Seq(Char) /\ Len(s \o t) = Len(s) + Len(t)
         /\ \A i \in 1 .. Len(s) + Len(t) : (s \o t)[i] = IF i <= Len(s) THEN s[i] ELSE t[i - Len(s)]
<1>1. \A x, y \in Seq(Char) : x \o y \in Seq(Char)
  OBVIOUS
<1>2. \A x, y \in Seq(Char) : Len(x \o y) = Len(x) + Len(y)
  OBVIOUS
<1>3. \A x, y \in Seq(Char) : \A i \in 1 .. Len(x) + Len(y) : (x \o y)[i] = IF i <= Len(x) THEN x[i] ELSE y[i - Len(x)]
  OBVIOUS
<1>4. QED BY ONLY <1>1, <1>2, <1>3, s \in Seq(Char), t \in Seq(Char)

LEMMA SubFacts ==
  ASSUME NEW t \in Seq(Char), NEW a \in Int, NEW b \in Int, a >= 1, b <= Len(t)
  PROVE  /\ SubSeq(t, a, b) \in Seq(Char) /\ Len(SubSeq(t, a, b)) = IF a <= b THEN b - a + 1 ELSE 0
         /\ \A i \in 1 .. b - a + 1 : SubSeq(t, a, b)[i] = t[a + i - 1]
<1>1. \A x \in Seq(Char) : \A m, n \in Int : m >= 1 /\ n <= Len(x) => SubSeq(x, m, n) \in Seq(Char)
  OBVIOUS
<1>2. \A x \in Seq(Char) : \A m, n \in Int :
        m >= 1 /\ n <= Len(x) => Len(SubSeq(x, m, n)) = IF m <= n THEN n - m + 1 ELSE 0
  OBVIOUS
<1>3. \A x \in Seq(Char) : \A m, n \in Int :
        m >= 1 /\ n <= Len(x) => \A i \in 1 .. n - m + 1 : SubSeq(x, m, n)[i] = x[m + i - 1]
  OBVIOUS
<1>4. QED BY ONLY <1>1, <1>2, <1>3, t \in Seq(Char), a \in Int, b \in Int, a >= 1, b <= Len(t)

LEMMA SameSequence ==
  ASSUME NEW s \in Seq(Char), NEW t \in Seq(Char), Len(s) = Len(t), \A i \in 1 .. Len(s) : s[i] = t[i]
  PROVE  s = t
OBVIOUS

\* What is cut out of a text, and what is put into one.
LEMMA CutFacts ==
  ASSUME NEW t \in Seq(Char), NEW p \in Int, NEW q \in Int, 1 <= p, p <= q + 1, q <= Len(t)
  PROVE  /\ Cut(t, p, q) \in Seq(Char) /\ Len(Cut(t, p, q)) = Len(t) - (q - p + 1)
         /\ \A i \in 1 .. Len(t) - (q - p + 1) : Cut(t, p, q)[i] = IF i < p THEN t[i] ELSE t[i + (q - p + 1)]
<1> DEFINE x == SubSeq(t, 1, p - 1)
           y == SubSeq(t, q + 1, Len(t))
<1>1. Len(t) \in Nat
  OBVIOUS
<1>2. x \in Seq(Char) /\ Len(x) = p - 1 /\ \A i \in 1 .. p - 1 : x[i] = t[i]
  <2>1. p - 1 \in Int /\ p - 1 <= Len(t)
    BY <1>1
  <2>2. /\ x \in Seq(Char) /\ Len(x) = IF 1 <= p - 1 THEN p - 1 - 1 + 1 ELSE 0
        /\ \A i \in 1 .. p - 1 - 1 + 1 : x[i] = t[1 + i - 1]
    BY <2>1, SubFacts
  <2> HIDE DEF x
  <2>3. QED BY <2>2
<1>3. /\ y \in Seq(Char) /\ Len(y) = Len(t) - q /\ \A i \in 1 .. Len(t) - q : y[i] = t[q + i]
  <2>1. q + 1 \in Int /\ q + 1 >= 1
    BY <1>1
  <2>2. /\ y \in Seq(Char) /\ Len(y) = IF q + 1 <= Len(t) THEN Len(t) - (q + 1) + 1 ELSE 0
        /\ \A i \in 1 .. Len(t) - (q + 1) + 1 : y[i] = t[q + 1 + i - 1]
    BY SMTT(40), <1>1, <2>1, SubFacts
  <2> HIDE DEF y
  <2>3. QED BY <1>1, <2>2
<1>4. Cut(t, p, q) = x \o y
  BY DEF Cut
<1> HIDE DEF x, y
<1>5. /\ x \o y \in Seq(Char) /\ Len(x \o y) = Len(x) + Len(y)
      /\ \A i \in 1 .. Len(x) + Len(y) : (x \o y)[i] = IF i <= Len(x) THEN x[i] ELSE y[i - Len(x)]
  BY <1>2, <1>3, CatFacts
<1>6. ASSUME NEW i \in 1 .. Len(t) - (q - p + 1)
      PROVE  Cut(t, p, q)[i] = IF i < p THEN t[i] ELSE t[i + (q - p + 1)]
  <2>1. i \in 1 .. Len(x) + Len(y)
    BY <1>1, <1>2, <1>3
  <2>2. CASE i < p
    BY <1>2, <1>4, <1>5, <2>1, <2>2
  <2>3. CASE ~(i < p)
    <3>1. i - (p - 1) \in 1 .. Len(t) - q /\ q + (i - (p - 1)) = i + (q - p + 1)
      BY <1>1, <2>3
    <3>2. Cut(t, p, q)[i] = y[i - (p - 1)]
      BY SMTT(40), <1>2, <1>4, <1>5, <2>1, <2>3
    <3>3. y[i - (p - 1)] = t[q + (i - (p - 1))]
      BY <1>3, <3>1
    <3>4. QED BY <2>3, <3>1, <3>2, <3>3
  <2>4. QED BY <2>2, <2>3
<1>7. Len(x) + Len(y) = Len(t) - (q - p + 1)
  BY SMTT(40), <1>1, <1>2, <1>3
<1>8. QED BY <1>4, <1>5, <1>6, <1>7

LEMMA PasteFacts ==
  ASSUME NEW t \in Seq(Char), NEW s \in Seq(Char), NEW p \in 1 .. Len(t) + 1
  PROVE  /\ Paste(t, p, s) \in Seq(Char) /\ Len(Paste(t, p, s)) = Len(t) + Len(s)
         /\ \A i \in 1 .. Len(t) + Len(s) :
              Paste(t, p, s)[i] = IF i < p THEN t[i] ELSE IF i < p + Len(s) THEN s[i - p + 1] ELSE t[i - Len(s)]
<1> DEFINE x == SubSeq(t, 1, p - 1)
           y == SubSeq(t, p, Len(t))
<1>1. Len(t) \in Nat /\ Len(s) \in Nat /\ p \in Int
  OBVIOUS
<1>2. x \in Seq(Char) /\ Len(x) = p - 1 /\ \A i \in 1 .. p - 1 : x[i] = t[i]
  <2>1. p - 1 \in Int /\ p - 1 <= Len(t)
    BY <1>1
  <2>2. /\ x \in Seq(Char) /\ Len(x) = IF 1 <= p - 1 THEN p - 1 - 1 + 1 ELSE 0
        /\ \A i \in 1 .. p - 1 - 1 + 1 : x[i] = t[1 + i - 1]
    BY <2>1, SubFacts
  <2> HIDE DEF x
  <2>3. QED BY <2>2
<1>3. /\ y \in Seq(Char) /\ Len(y) = Len(t) - p + 1 /\ \A i \in 1 .. Len(t) - p + 1 : y[i] = t[p + i - 1]
  <2>1. /\ y \in Seq(Char) /\ Len(y) = IF p <= Len(t) THEN Len(t) - p + 1 ELSE 0
        /\ \A i \in 1 .. Len(t) - p + 1 : y[i] = t[p + i - 1]
    BY <1>1, SubFacts
  <2> HIDE DEF y
  <2>3. QED BY <1>1, <2>1
<1>4. Paste(t, p, s) = (x \o s) \o y
  BY DEF Paste
<1> HIDE DEF x, y
<1>5. /\ x \o s \in Seq(Char) /\ Len(x \o s) = Len(x) + Len(s)
      /\ \A i \in 1 .. Len(x) + Len(s) : (x \o s)[i] = IF i <= Len(x) THEN x[i] ELSE s[i - Len(x)]
  BY <1>2, CatFacts
<1> DEFINE z == x \o s
<1> HIDE DEF z
<1>6. /\ z \o y \in Seq(Char) /\ Len(z \o y) = Len(z) + Len(y)
      /\ \A i \in 1 .. Len(z) + Len(y) : (z \o y)[i] = IF i <= Len(z) THEN z[i] ELSE y[i - Len(z)]
  BY <1>3, <1>5, CatFacts DEF z
<1>7. Len(z) = p - 1 + Len(s)
  BY <1>2, <1>5 DEF z
<1>8. ASSUME NEW i \in 1 .. Len(t) + Len(s)
      PROVE  Paste(t, p, s)[i] = IF i < p THEN t[i] ELSE IF i < p + Len(s) THEN s[i - p + 1] ELSE t[i - Len(s)]
  <2>1. i \in 1 .. Len(z) + Len(y)
    BY <1>1, <1>3, <1>7
  <2>2. CASE i < p
    <3>1. i <= Len(z) /\ i \in 1 .. Len(x) + Len(s) /\ i <= Len(x) /\ i \in 1 .. p - 1
      BY <1>1, <1>2, <1>7, <2>2
    <3>2. (z \o y)[i] = z[i] /\ z[i] = x[i] /\ x[i] = t[i]
      BY <1>2, <1>5, <1>6, <2>1, <3>1 DEF z
    <3>3. QED BY <1>4, <2>2, <3>2 DEF z
  <2>3. CASE ~(i < p) /\ i < p + Len(s)
    <3>1. i <= Len(z) /\ i \in 1 .. Len(x) + Len(s) /\ ~(i <= Len(x)) /\ i - Len(x) = i - p + 1
      <4> DEFINE a == Len(x)
                 b == Len(z)
                 n == Len(s)
      <4>1. n \in Nat /\ p \in Int /\ p >= 1 /\ a = p - 1 /\ b = p - 1 + n /\ i \in Int
        BY <1>1, <1>2, <1>7
      <4>2. ~(i < p) /\ i < p + n
        BY <2>3
      <4> HIDE DEF a, b, n
      <4>3. i <= b /\ i \in 1 .. a + n /\ ~(i <= a) /\ i - a = i - p + 1
        BY ONLY <4>1, <4>2
      <4>4. QED BY <4>3 DEF a, b, n
    <3>2. (z \o y)[i] = z[i] /\ z[i] = s[i - Len(x)]
      BY <1>5, <1>6, <2>1, <3>1 DEF z
    <3>3. QED BY <1>4, <2>3, <3>1, <3>2 DEF z
  <2>4. CASE ~(i < p) /\ ~(i < p + Len(s))
    <3>1. ~(i <= Len(z)) /\ i - Len(z) \in 1 .. Len(t) - p + 1 /\ p + (i - Len(z)) - 1 = i - Len(s)
      BY <1>1, <1>7, <2>4
    <3>2. (z \o y)[i] = y[i - Len(z)] /\ y[i - Len(z)] = t[p + (i - Len(z)) - 1]
      BY <1>3, <1>6, <2>1, <3>1
    <3>3. QED BY <1>4, <2>4, <3>1, <3>2 DEF z
  <2>5. QED BY <2>2, <2>3, <2>4
<1>9. Len(z) + Len(y) = Len(t) + Len(s)
  BY <1>1, <1>3, <1>7
<1>10. QED BY <1>4, <1>6, <1>8, <1>9 DEF z

\* What was put in and is cut out again, and what was cut out and is put back.
LEMMA CutOfPaste ==
  ASSUME NEW t \in Seq(Char), NEW s \in Seq(Char), NEW p \in 1 .. Len(t) + 1
  PROVE  Cut(Paste(t, p, s), p, p + Len(s) - 1) = t
<1> DEFINE u == Paste(t, p, s)
           q == p + Len(s) - 1
           v == Cut(u, p, q)
<1>1. Len(t) \in Nat /\ Len(s) \in Nat /\ p \in Int
  OBVIOUS
<1>2. /\ u \in Seq(Char) /\ Len(u) = Len(t) + Len(s)
      /\ \A i \in 1 .. Len(t) + Len(s) :
           u[i] = IF i < p THEN t[i] ELSE IF i < p + Len(s) THEN s[i - p + 1] ELSE t[i - Len(s)]
  BY PasteFacts
<1> HIDE DEF u
<1>3. q \in Int /\ 1 <= p /\ p <= q + 1 /\ q <= Len(u) /\ q - p + 1 = Len(s)
  BY <1>1, <1>2
<1> HIDE DEF q
<1>4. /\ v \in Seq(Char) /\ Len(v) = Len(u) - (q - p + 1)
      /\ \A i \in 1 .. Len(u) - (q - p + 1) : v[i] = IF i < p THEN u[i] ELSE u[i + (q - p + 1)]
  BY <1>1, <1>2, <1>3, CutFacts
<1> HIDE DEF v
<1>5. Len(v) = Len(t) /\ \A i \in 1 .. Len(t) : v[i] = IF i < p THEN u[i] ELSE u[i + Len(s)]
  <2>1. Len(u) - Len(s) = Len(t)
    BY <1>1, <1>2
  <2>2. QED BY <1>3, <1>4, <2>1
<1>6. ASSUME NEW i \in 1 .. Len(t) PROVE v[i] = t[i]
  <2>1. CASE i < p
    BY <1>1, <1>2, <1>5, <2>1
  <2>2. CASE ~(i < p)
    <3>1. i + Len(s) \in 1 .. Len(t) + Len(s) /\ ~(i + Len(s) < p + Len(s)) /\ ~(i + Len(s) < p) /\ i + Len(s) - Len(s) = i
      BY <1>1, <2>2
    <3>2. u[i + Len(s)] = t[i + Len(s) - Len(s)]
      BY <1>2, <3>1
    <3>3. QED BY <1>5, <2>2, <3>1, <3>2
  <2>3. QED BY <2>1, <2>2
<1>7. v = t
  BY <1>4, <1>5, <1>6, SameSequence
<1>8. QED BY <1>7 DEF u, q, v

LEMMA PasteOfCut ==
  ASSUME NEW t \in Seq(Char), NEW p \in Int, NEW q \in Int, 1 <= p, p <= q + 1, q <= Len(t),
         NEW s \in Seq(Char), Len(s) = q - p + 1, \A i \in 1 .. q - p + 1 : s[i] = t[p + i - 1]
  PROVE  Paste(Cut(t, p, q), p, s) = t
<1> DEFINE u == Cut(t, p, q)
           v == Paste(u, p, s)
<1>1. Len(t) \in Nat
  OBVIOUS
<1>2. /\ u \in Seq(Char) /\ Len(u) = Len(t) - (q - p + 1)
      /\ \A i \in 1 .. Len(t) - (q - p + 1) : u[i] = IF i < p THEN t[i] ELSE t[i + (q - p + 1)]
  BY CutFacts
<1> HIDE DEF u
<1>3. p \in 1 .. Len(u) + 1
  BY <1>1, <1>2
<1>4. /\ v \in Seq(Char) /\ Len(v) = Len(u) + Len(s)
      /\ \A i \in 1 .. Len(u) + Len(s) :
           v[i] = IF i < p THEN u[i] ELSE IF i < p + Len(s) THEN s[i - p + 1] ELSE u[i - Len(s)]
  BY <1>2, <1>3, PasteFacts
<1> HIDE DEF v
<1>5. Len(v) = Len(t)
  BY <1>1, <1>2, <1>4
<1>6. ASSUME NEW i \in 1 .. Len(t) PROVE v[i] = t[i]
  <2>0. v[i] = IF i < p THEN u[i] ELSE IF i < p + (q - p + 1) THEN s[i - p + 1] ELSE u[i - (q - p + 1)]
    BY <1>2, <1>4, <1>5
  <2>1. CASE i < p
    BY <1>1, <1>2, <2>0, <2>1
  <2>2. CASE ~(i < p) /\ i < p + (q - p + 1)
    <3>1. i - p + 1 \in 1 .. q - p + 1 /\ p + (i - p + 1) - 1 = i
      BY <1>1, <2>2
    <3>2. s[i - p + 1] = t[p + (i - p + 1) - 1]
      BY <3>1
    <3>3. QED BY <2>0, <2>2, <3>1, <3>2
  <2>3. CASE ~(i < p) /\ ~(i < p + (q - p + 1))
    <3>1. /\ i - (q - p + 1) \in 1 .. Len(t) - (q - p + 1) /\ ~(i - (q - p + 1) < p)
          /\ i - (q - p + 1) + (q - p + 1) = i
      BY <1>1, <2>3
    <3>2. u[i - (q - p + 1)] = t[i - (q - p + 1) + (q - p + 1)]
      BY <1>2, <3>1
    <3>3. QED BY <2>0, <2>3, <3>1, <3>2
  <2>4. QED BY <2>1, <2>2, <2>3
<1>7. v = t
  BY <1>4, <1>5, <1>6, SameSequence
<1>8. QED BY <1>7 DEF u, v

LEMMA PasteOfOne ==
  ASSUME NEW t \in Seq(Char), NEW p \in 1 .. Len(t), NEW s \in Seq(Char), Len(s) = 1, s[1] = t[p]
  PROVE  Paste(Cut(t, p, p), p, s) = t
<1>1. Len(t) \in Nat /\ p \in Int /\ 1 <= p /\ p <= p + 1 /\ p <= Len(t) /\ p - p + 1 = 1
  OBVIOUS
<1>2. Len(s) = p - p + 1 /\ \A i \in 1 .. p - p + 1 : s[i] = t[p + i - 1]
  <2>1. \A i \in 1 .. 1 : i = 1 /\ p + i - 1 = p
    BY <1>1
  <2>2. QED BY <1>1, <2>1
<1>3. QED BY <1>1, <1>2, PasteOfCut

\* An insertion that goes on behind the one before, and a deletion that goes on in front of it.
LEMMA CutOfMore ==
  ASSUME NEW t \in Seq(Char), NEW s \in Seq(Char), Len(s) = 1, NEW p \in Nat, NEW a \in Nat, p >= 1, p < a,
         a <= Len(t) + 1
  PROVE  Cut(Paste(t, a, s), p, a) = Cut(t, p, a - 1)
<1> DEFINE n == a - p
           u == Paste(t, a, s)
           b == a - 1
           v == Cut(u, p, a)
           w == Cut(t, p, b)
<1>1. /\ Len(t) \in Nat /\ p + n \in 1 .. Len(t) + 1 /\ s \in Seq(Char) /\ Len(s) = 1 /\ n \in Nat /\ n >= 1
      /\ p + n = a /\ p + n - 1 = b
  OBVIOUS
<1> HIDE DEF n
<1>2. /\ u \in Seq(Char) /\ Len(u) = Len(t) + Len(s)
      /\ \A i \in 1 .. Len(t) + Len(s) :
           u[i] = IF i < p + n THEN t[i] ELSE IF i < p + n + Len(s) THEN s[i - (p + n) + 1] ELSE t[i - Len(s)]
  <2>1. /\ u \in Seq(Char) /\ Len(u) = Len(t) + Len(s)
        /\ \A i \in 1 .. Len(t) + Len(s) :
             u[i] = IF i < a THEN t[i] ELSE IF i < a + Len(s) THEN s[i - a + 1] ELSE t[i - Len(s)]
    BY ZenonT(60), <1>1, PasteFacts
  <2> HIDE DEF u
  <2>2. QED BY <1>1, <2>1
<1> HIDE DEF u
<1>3. /\ Len(u) = Len(t) + 1 /\ \A i \in 1 .. p + n - 1 : u[i] = t[i]
      /\ \A i \in p + n + 1 .. Len(t) + 1 : u[i] = t[i - 1]
  BY <1>1, <1>2
<1>a. a \in Int /\ p <= a + 1 /\ a <= Len(u) /\ a - p + 1 = n + 1
  BY <1>1, <1>3
<1>b. b \in Int /\ p <= b + 1 /\ b <= Len(t) /\ b - p + 1 = n
  BY <1>1
<1> HIDE DEF b
<1>4. /\ v \in Seq(Char) /\ Len(v) = Len(u) - (n + 1)
      /\ \A i \in 1 .. Len(u) - (n + 1) : v[i] = IF i < p THEN u[i] ELSE u[i + (n + 1)]
  <2>1. /\ v \in Seq(Char) /\ Len(v) = Len(u) - (a - p + 1)
        /\ \A i \in 1 .. Len(u) - (a - p + 1) : v[i] = IF i < p THEN u[i] ELSE u[i + (a - p + 1)]
    <3>1. u \in Seq(Char) /\ p \in Int /\ a \in Int /\ 1 <= p /\ p <= a + 1 /\ a <= Len(u)
      BY <1>2, <1>a
    <3>2. QED BY ONLY <3>1, CutFacts
  <2> HIDE DEF v
  <2>2. QED BY <1>a, <2>1
<1>5. /\ w \in Seq(Char) /\ Len(w) = Len(t) - n
      /\ \A i \in 1 .. Len(t) - n : w[i] = IF i < p THEN t[i] ELSE t[i + n]
  <2>1. /\ w \in Seq(Char) /\ Len(w) = Len(t) - (b - p + 1)
        /\ \A i \in 1 .. Len(t) - (b - p + 1) : w[i] = IF i < p THEN t[i] ELSE t[i + (b - p + 1)]
    BY <1>b, CutFacts
  <2> HIDE DEF w
  <2>2. QED BY <1>b, <2>1
<1> HIDE DEF v, w
<1>6. Len(v) = Len(w) /\ Len(v) = Len(t) - n
  BY <1>1, <1>3, <1>4, <1>5
<1>7. ASSUME NEW i \in 1 .. Len(v) PROVE v[i] = w[i]
  <2>1. v[i] = (IF i < p THEN u[i] ELSE u[i + (n + 1)]) /\ w[i] = IF i < p THEN t[i] ELSE t[i + n]
    BY <1>1, <1>3, <1>4, <1>5, <1>6
  <2>2. CASE i < p
    <3>1. i \in 1 .. p + n - 1
      BY <1>1, <2>2
    <3>2. QED BY <1>3, <2>1, <2>2, <3>1
  <2>3. CASE ~(i < p)
    <3> DEFINE k == i + (n + 1)
    <3>1. k \in p + n + 1 .. Len(t) + 1 /\ k - 1 = i + n
      BY <1>1, <1>6, <2>3
    <3>2. v[i] = u[k] /\ w[i] = t[i + n]
      BY <2>1, <2>3
    <3> HIDE DEF k
    <3>3. u[k] = t[k - 1]
      BY <1>3, <3>1
    <3>4. QED BY <3>1, <3>2, <3>3
  <2>4. QED BY <2>2, <2>3
<1>8. v = w
  BY <1>4, <1>5, <1>6, <1>7, SameSequence
<1>9. QED BY <1>8 DEF u, v, w, b

LEMMA PasteOfMore ==
  ASSUME NEW t \in Seq(Char), NEW s \in Seq(Char), NEW p \in 1 .. Len(t)
  PROVE  Paste(Cut(t, p, p), p, <<t[p]>> \o s) = Paste(t, p + 1, s)
<1> DEFINE c == <<t[p]>>
           x == c \o s
           u == Cut(t, p, p)
           v == Paste(u, p, x)
           w == Paste(t, p + 1, s)
<1>1. Len(t) \in Nat /\ Len(s) \in Nat /\ p \in Int /\ p + 1 \in 1 .. Len(t) + 1 /\ c \in Seq(Char) /\ Len(c) = 1 /\ c[1] = t[p]
  OBVIOUS
<1> HIDE DEF c
<1>2. /\ x \in Seq(Char) /\ Len(x) = 1 + Len(s) /\ x[1] = t[p] /\ \A i \in 2 .. Len(s) + 1 : x[i] = s[i - 1]
  <2>1. /\ x \in Seq(Char) /\ Len(x) = Len(c) + Len(s)
        /\ \A i \in 1 .. Len(c) + Len(s) : x[i] = IF i <= Len(c) THEN c[i] ELSE s[i - Len(c)]
    BY <1>1, CatFacts
  <2> HIDE DEF x
  <2>2. QED BY <1>1, <2>1
<1> HIDE DEF x
<1>3. /\ u \in Seq(Char) /\ Len(u) = Len(t) - 1 /\ \A i \in 1 .. Len(t) - 1 : u[i] = IF i < p THEN t[i] ELSE t[i + 1]
  <2>1. /\ u \in Seq(Char) /\ Len(u) = Len(t) - (p - p + 1)
        /\ \A i \in 1 .. Len(t) - (p - p + 1) : u[i] = IF i < p THEN t[i] ELSE t[i + (p - p + 1)]
    <3>1. p \in Int /\ 1 <= p /\ p <= p + 1 /\ p <= Len(t)
      BY <1>1
    <3>2. QED BY ONLY <3>1, t \in Seq(Char), CutFacts DEF u
  <2>2. p - p + 1 = 1
    BY <1>1
  <2> HIDE DEF u
  <2>3. QED BY <2>1, <2>2
<1> HIDE DEF u
<1>4. /\ v \in Seq(Char) /\ Len(v) = Len(u) + Len(x)
      /\ \A i \in 1 .. Len(u) + Len(x) :
           v[i] = IF i < p THEN u[i] ELSE IF i < p + Len(x) THEN x[i - p + 1] ELSE u[i - Len(x)]
  <2>1. p \in 1 .. Len(u) + 1
    BY <1>1, <1>3
  <2>2. QED BY <1>2, <1>3, <2>1, PasteFacts
<1>5. /\ w \in Seq(Char) /\ Len(w) = Len(t) + Len(s)
      /\ \A i \in 1 .. Len(t) + Len(s) :
           w[i] = IF i < p + 1 THEN t[i] ELSE IF i < p + 1 + Len(s) THEN s[i - (p + 1) + 1] ELSE t[i - Len(s)]
  BY <1>1, PasteFacts
<1> HIDE DEF v, w
<1>6. Len(v) = Len(w) /\ Len(v) = Len(t) + Len(s)
  BY <1>1, <1>2, <1>3, <1>4, <1>5
<1>7. ASSUME NEW i \in 1 .. Len(v) PROVE v[i] = w[i]
  <2>1. /\ v[i] = IF i < p THEN u[i] ELSE IF i < p + (1 + Len(s)) THEN x[i - p + 1] ELSE u[i - (1 + Len(s))]
        /\ w[i] = IF i < p + 1 THEN t[i] ELSE IF i < p + 1 + Len(s) THEN s[i - (p + 1) + 1] ELSE t[i - Len(s)]
    BY <1>2, <1>3, <1>4, <1>5, <1>6
  <2>2. CASE i < p
    <3> DEFINE k == Len(t)
    <3>1. k \in Nat /\ p \in 1 .. k /\ i \in Nat /\ i >= 1
      BY <1>1
    <3> HIDE DEF k
    <3>2. i \in 1 .. k - 1 /\ i < p + 1
      BY ONLY <2>2, <3>1
    <3>3. u[i] = t[i]
      BY <1>3, <2>2, <3>2 DEF k
    <3>4. QED BY <2>1, <2>2, <3>2, <3>3
  <2>a. Len(s) \in Nat /\ p \in Int
    BY <1>1
  <2>3. CASE i = p
    <3>1. i - p + 1 = 1 /\ i < p + (1 + Len(s)) /\ ~(i < p) /\ i < p + 1
      BY <2>a, <2>3
    <3>2. QED BY <1>2, <2>1, <2>3, <3>1
  <2>4. CASE p < i /\ i < p + (1 + Len(s))
    <3>1. i - p + 1 \in 2 .. Len(s) + 1 /\ i - p + 1 - 1 = i - (p + 1) + 1 /\ ~(i < p) /\ ~(i < p + 1) /\ i < p + 1 + Len(s)
      BY <2>a, <2>4
    <3>2. QED BY SMTT(40), <1>2, <2>1, <3>1
  <2>5. CASE ~(i < p + (1 + Len(s)))
    <3>1. /\ i - (1 + Len(s)) \in 1 .. Len(t) - 1 /\ ~(i - (1 + Len(s)) < p) /\ i - (1 + Len(s)) + 1 = i - Len(s)
          /\ ~(i < p) /\ ~(i < p + 1) /\ ~(i < p + 1 + Len(s))
      BY <1>1, <1>6, <2>5
    <3>2. QED BY <1>3, <2>1, <2>5, <3>1
  <2>6. QED BY <1>1, <2>2, <2>3, <2>4, <2>5
<1>8. v = w
  BY <1>4, <1>5, <1>6, <1>7, SameSequence
<1>9. QED BY <1>8 DEF c, x, u, v, w

\* A character in the place of another.
LEMMA CutChanged ==
  ASSUME NEW t \in Seq(Char), NEW p \in 1 .. Len(t), NEW d \in Char
  PROVE  /\ [t EXCEPT ![p] = d] \in Seq(Char) /\ Len([t EXCEPT ![p] = d]) = Len(t)
         /\ Cut([t EXCEPT ![p] = d], p, p) = Cut(t, p, p)
<1> DEFINE r == [t EXCEPT ![p] = d]
           v == Cut(r, p, p)
           w == Cut(t, p, p)
<1>1. Len(t) \in Nat /\ p \in Int /\ p - p + 1 = 1
  OBVIOUS
<1>2. r \in Seq(Char) /\ Len(r) = Len(t) /\ \A i \in 1 .. Len(t) : i # p => r[i] = t[i]
  OBVIOUS
<1> HIDE DEF r
<1>3. /\ v \in Seq(Char) /\ Len(v) = Len(r) - 1 /\ \A i \in 1 .. Len(r) - 1 : v[i] = IF i < p THEN r[i] ELSE r[i + 1]
  <2>1. /\ v \in Seq(Char) /\ Len(v) = Len(r) - (p - p + 1)
        /\ \A i \in 1 .. Len(r) - (p - p + 1) : v[i] = IF i < p THEN r[i] ELSE r[i + (p - p + 1)]
    BY <1>1, <1>2, CutFacts
  <2> HIDE DEF v
  <2>2. QED BY <1>1, <2>1
<1>4. /\ w \in Seq(Char) /\ Len(w) = Len(t) - 1 /\ \A i \in 1 .. Len(t) - 1 : w[i] = IF i < p THEN t[i] ELSE t[i + 1]
  <2>1. /\ w \in Seq(Char) /\ Len(w) = Len(t) - (p - p + 1)
        /\ \A i \in 1 .. Len(t) - (p - p + 1) : w[i] = IF i < p THEN t[i] ELSE t[i + (p - p + 1)]
    BY <1>1, CutFacts
  <2> HIDE DEF w
  <2>2. QED BY <1>1, <2>1
<1> HIDE DEF v, w
<1>5. \A i \in 1 .. Len(v) : v[i] = w[i]
  BY SMTT(40), <1>1, <1>2, <1>3, <1>4
<1>6. v = w
  BY <1>2, <1>3, <1>4, <1>5, SameSequence
<1>7. QED BY <1>2, <1>6 DEF r, v, w

-----------------------------------------------------------------------------
(* The texts the undo list leads through. *)

\* The state of the editor while a command is on its way: the queue may be full, and the cursor anywhere.
GoodQueue(q) == (q.len = 0 => q = NoQueue) /\ (q.len # 0 => q.kind # "none")
Wide == { e \in [text : Seq(Char), dot : Int, undo : Seq(Entry),
                 queue : [kind : {"none", "ins", "del"}, at : Nat, len : Nat, chars : Seq(Char)],
                 reg : [chars : Seq(Char), whole : BOOLEAN], modified : Int, slips : SUBSET Slip] :
          GoodQueue(e.queue) }
Sound == { e \in Wide : e.queue.len < QueueMax }

Texts == Seq(Char) \ {<< >>}

\* An entry taken back from t leads to u.
Leads(entry, t, u) == HasPlace(entry, t) /\ u = Undone(entry, t)
Waiting(q) == [kind |-> q.kind, chain |-> FALSE, at |-> q.at, len |-> q.len, chars |-> q.chars]
FromTop(q, t, h) == IF q.len = 0 THEN h = Shown(t) ELSE Leads(Waiting(q), Shown(t), h)

\* H[i] is the text when the list had i entries.
Path(H, e) ==
  /\ H \in [0 .. Len(e.undo) -> Texts]
  /\ \A i \in 1 .. Len(e.undo) : Leads(e.undo[i], H[i], H[i - 1])
  /\ FromTop(e.queue, e.text, H[Len(e.undo)])

Agree(G, H, n) == \A i \in 0 .. n : G[i] = H[i]

\* Nothing has happened that the list does not tell.
Clean(e) == e.slips \subseteq {"negative", "spoilt"}

\* f comes after e: the entries of e are kept, those added lead back to the text of e, and each counts.
Follows(e, f) ==
  /\ e.slips \subseteq f.slips
  /\ Clean(f) => /\ Len(e.undo) <= Len(f.undo) /\ f.modified - Len(f.undo) = e.modified - Len(e.undo)
                 /\ \A H : Path(H, e) => \E G : Path(G, f) /\ Agree(G, H, Len(e.undo))

\* Nothing is left waiting that did not wait before.
Quiet(e, f) == e.queue = NoQueue => f.queue = NoQueue

LEMMA NoQueueGood == NoQueue \in [kind : {"none", "ins", "del"}, at : Nat, len : Nat, chars : Seq(Char)]
                     /\ GoodQueue(NoQueue) /\ NoQueue.len = 0 /\ NoQueue.kind = "none"
BY DEF NoQueue, GoodQueue

LEMMA WideFields ==
  ASSUME NEW e \in Wide
  PROVE  /\ e.text \in Seq(Char) /\ e.dot \in Int /\ e.undo \in Seq(Entry) /\ e.modified \in Int /\ e.slips \in SUBSET Slip
         /\ e.queue \in [kind : {"none", "ins", "del"}, at : Nat, len : Nat, chars : Seq(Char)]
         /\ e.queue.kind \in {"none", "ins", "del"} /\ e.queue.at \in Nat /\ e.queue.len \in Nat /\ e.queue.chars \in Seq(Char)
         /\ e.reg \in [chars : Seq(Char), whole : BOOLEAN] /\ Len(e.undo) \in Nat /\ Len(e.text) \in Nat
         /\ (e.queue.len = 0 => e.queue = NoQueue) /\ (e.queue.len # 0 => e.queue.kind # "none")
BY DEF Wide, GoodQueue

LEMMA StateFacts == Limits => Sound \subseteq State
<1> SUFFICES ASSUME Limits, NEW e \in Sound PROVE e \in State
  OBVIOUS
<1>1. e \in Wide /\ e.queue.len < QueueMax /\ QueueMax \in Nat
  BY DEF Sound, Limits
<1>2. e.queue \in [kind : {"none", "ins", "del"}, at : Nat, len : Nat, chars : Seq(Char)]
  BY <1>1, WideFields
<1>3. e.queue \in Queue
  BY <1>1, <1>2 DEF Queue
<1>4. e \in [text : Seq(Char), dot : Int, undo : Seq(Entry),
             queue : [kind : {"none", "ins", "del"}, at : Nat, len : Nat, chars : Seq(Char)],
             reg : [chars : Seq(Char), whole : BOOLEAN], modified : Int, slips : SUBSET Slip]
  BY <1>1 DEF Wide
<1>5. QED BY <1>3, <1>4 DEF State

LEMMA CleanFacts ==
  ASSUME NEW e, NEW f, e.slips = f.slips, Clean(e)
  PROVE  \A name \in {"typed", "moved", "trimmed", "beyond"} : name \notin f.slips
BY DEF Clean

LEMMA NothingFollows ==
  ASSUME NEW e, NEW f, e.slips \subseteq f.slips, ~Clean(f)
  PROVE  Follows(e, f)
BY DEF Follows

\* What the list leads through depends on the text, the list and the queue.
LEMMA SameFollows ==
  ASSUME NEW e \in Wide, NEW f, f.undo = e.undo, f.queue = e.queue, Shown(f.text) = Shown(e.text), f.modified = e.modified,
         e.slips \subseteq f.slips
  PROVE  Follows(e, f) /\ Quiet(e, f)
<1>1. \A H : Path(H, e) => Path(H, f) /\ Agree(H, H, Len(e.undo))
  BY DEF Path, Agree, FromTop
<1>2. Len(e.undo) \in Nat /\ e.modified \in Int
  BY WideFields
<1>3. QED BY <1>1, <1>2 DEF Follows, Quiet

LEMMA FollowsThrough ==
  ASSUME NEW e \in Wide, NEW f \in Wide, NEW g \in Wide, Follows(e, f), Follows(f, g)
  PROVE  Follows(e, g)
<1> USE DEF Follows
<1>1. e.slips \subseteq g.slips
  OBVIOUS
<1> SUFFICES ASSUME Clean(g)
             PROVE  /\ Len(e.undo) <= Len(g.undo) /\ g.modified - Len(g.undo) = e.modified - Len(e.undo)
                    /\ \A H : Path(H, e) => \E G : Path(G, g) /\ Agree(G, H, Len(e.undo))
  BY <1>1
<1>2. Clean(f)
  BY DEF Clean
<1>3. /\ Len(e.undo) \in Nat /\ Len(f.undo) \in Nat /\ Len(g.undo) \in Nat
      /\ e.modified \in Int /\ f.modified \in Int /\ g.modified \in Int
  BY WideFields
<1>4. Len(e.undo) <= Len(f.undo) /\ f.modified - Len(f.undo) = e.modified - Len(e.undo)
  BY <1>2
<1>5. Len(f.undo) <= Len(g.undo) /\ g.modified - Len(g.undo) = f.modified - Len(f.undo)
  OBVIOUS
<1>6. ASSUME NEW H, Path(H, e) PROVE \E G : Path(G, g) /\ Agree(G, H, Len(e.undo))
  <2>1. PICK F : Path(F, f) /\ Agree(F, H, Len(e.undo))
    BY <1>2, <1>6
  <2>2. PICK G : Path(G, g) /\ Agree(G, F, Len(f.undo))
    BY <2>1
  <2>3. Agree(G, H, Len(e.undo))
    BY <1>3, <1>4, <2>1, <2>2 DEF Agree
  <2>4. QED BY <2>2, <2>3
<1>7. QED BY <1>3, <1>4, <1>5, <1>6

LEMMA AppendFacts ==
  ASSUME NEW u \in Seq(Entry), NEW x \in Entry
  PROVE  /\ Append(u, x) \in Seq(Entry) /\ Len(Append(u, x)) = Len(u) + 1 /\ Append(u, x)[Len(u) + 1] = x
         /\ \A i \in 1 .. Len(u) : Append(u, x)[i] = u[i]
OBVIOUS

\* One more entry, which leads from the text there is to where the list led before.
LEMMA OneMore ==
  ASSUME NEW e \in Wide, NEW f \in Wide, NEW entry \in Entry, f.undo = Append(e.undo, entry),
         f.modified = e.modified + 1, e.slips \subseteq f.slips, f.queue = NoQueue,
         Clean(f) => \A h \in Texts : FromTop(e.queue, e.text, h) => Leads(entry, Shown(f.text), h)
  PROVE  Follows(e, f) /\ Quiet(e, f)
<1> DEFINE n == Len(e.undo)
<1>1. n \in Nat /\ e.modified \in Int /\ e.undo \in Seq(Entry)
  BY WideFields
<1>2. Len(f.undo) = n + 1 /\ f.undo[n + 1] = entry /\ \A i \in 1 .. n : f.undo[i] = e.undo[i]
  BY <1>1, AppendFacts
<1>3. ASSUME Clean(f), NEW H, Path(H, e) PROVE \E G : Path(G, f) /\ Agree(G, H, n)
  <2> DEFINE G == [i \in 0 .. n + 1 |-> IF i <= n THEN H[i] ELSE Shown(f.text)]
  <2>1. H \in [0 .. n -> Texts] /\ (\A i \in 1 .. n : Leads(e.undo[i], H[i], H[i - 1])) /\ FromTop(e.queue, e.text, H[n])
    BY <1>3 DEF Path
  <2>2. Shown(f.text) \in Texts
    <3>1. f.text \in Seq(Char)
      BY WideFields
    <3>2. <<"nl">> \in Seq(Char) /\ <<"nl">> # << >>
      BY DEF Char
    <3>3. QED BY <3>1, <3>2 DEF Shown, Texts
  <2>3. G \in [0 .. n + 1 -> Texts]
    BY <1>1, <2>1, <2>2
  <2>4. (\A i \in 0 .. n : G[i] = H[i]) /\ G[n + 1] = Shown(f.text)
    BY <1>1
  <2> HIDE DEF G
  <2>5. Leads(entry, Shown(f.text), H[n])
    <3>1. H[n] \in Texts
      BY <1>1, <2>1
    <3>2. QED BY <1>3, <2>1, <3>1
  <2>6. ASSUME NEW i \in 1 .. n + 1 PROVE Leads(f.undo[i], G[i], G[i - 1])
    <3>1. CASE i = n + 1
      <4>1. i - 1 = n /\ n \in 0 .. n
        BY <1>1, <3>1
      <4>2. G[i - 1] = H[n] /\ G[i] = Shown(f.text) /\ f.undo[i] = entry
        BY <1>2, <2>4, <3>1, <4>1
      <4>3. QED BY <2>5, <4>2
    <3>2. CASE i # n + 1
      <4>1. i \in 1 .. n /\ i \in 0 .. n /\ i - 1 \in 0 .. n
        BY <1>1, <3>2
      <4>2. G[i - 1] = H[i - 1] /\ G[i] = H[i] /\ f.undo[i] = e.undo[i]
        BY <1>2, <2>4, <4>1
      <4>3. QED BY <2>1, <4>1, <4>2
    <3>3. QED BY <3>1, <3>2
  <2>7. FromTop(f.queue, f.text, G[n + 1])
    BY <2>4, NoQueueGood DEF FromTop
  <2>8. Path(G, f)
    BY <1>2, <2>3, <2>6, <2>7 DEF Path
  <2>9. Agree(G, H, n)
    BY <2>4 DEF Agree
  <2>10. QED BY <2>8, <2>9
<1>4. f.modified - Len(f.undo) = e.modified - n /\ n <= Len(f.undo)
  <2> HIDE DEF n
  <2>1. QED BY <1>1, <1>2
<1>5. QED BY <1>3, <1>4 DEF Follows, Quiet

\* The queue grows.
LEMMA QueueMore ==
  ASSUME NEW e \in Wide, NEW f \in Wide, f.undo = e.undo, f.modified = e.modified, e.slips \subseteq f.slips,
         Clean(f) => \A h \in Texts : FromTop(e.queue, e.text, h) => FromTop(f.queue, f.text, h)
  PROVE  Follows(e, f)
<1> DEFINE n == Len(e.undo)
<1>1. n \in Nat /\ e.modified \in Int
  BY WideFields
<1>2. ASSUME Clean(f), NEW H, Path(H, e) PROVE Path(H, f) /\ Agree(H, H, n)
  <2>1. H \in [0 .. n -> Texts] /\ (\A i \in 1 .. n : Leads(e.undo[i], H[i], H[i - 1])) /\ FromTop(e.queue, e.text, H[n])
    BY <1>2 DEF Path
  <2>2. H[n] \in Texts
    BY <1>1, <2>1
  <2>3. QED BY <1>2, <2>1, <2>2 DEF Path, Agree
<1>3. QED BY <1>1, <1>2 DEF Follows

-----------------------------------------------------------------------------
(* Entries and the queue. *)

EntryOf(e, kind, chain, at, len, chars) ==
  [kind |-> kind, chain |-> chain, at |-> at, len |-> IF Trims(e, kind, len) THEN len - 1 ELSE len,
   chars |-> IF Trims(e, kind, len) THEN Front(chars) ELSE chars]

\* The parts of the state no entry touches.
SameElse(e, f) == f.text = e.text /\ f.dot = e.dot /\ f.reg = e.reg

LEMMA FrontFacts ==
  ASSUME NEW s \in Seq(Char)
  PROVE  /\ Front(s) \in Seq(Char)
         /\ s # << >> => Len(Front(s)) = Len(s) - 1 /\ \A i \in 1 .. Len(s) - 1 : Front(s)[i] = s[i]
<1>1. Len(s) \in Nat /\ Len(s) - 1 \in Int /\ Len(s) - 1 <= Len(s) /\ (s # << >> => Len(s) >= 1) /\ 1 \in Int
  OBVIOUS
<1>2. /\ SubSeq(s, 1, Len(s) - 1) \in Seq(Char)
      /\ Len(SubSeq(s, 1, Len(s) - 1)) = IF 1 <= Len(s) - 1 THEN Len(s) - 1 - 1 + 1 ELSE 0
      /\ \A i \in 1 .. Len(s) - 1 - 1 + 1 : SubSeq(s, 1, Len(s) - 1)[i] = s[1 + i - 1]
  BY <1>1, SubFacts
<1> DEFINE f == SubSeq(s, 1, Len(s) - 1)
<1>3. Front(s) = f
  BY DEF Front
<1> HIDE DEF f
<1>4. Len(s) - 1 - 1 + 1 = Len(s) - 1 /\ \A i \in 1 .. Len(s) - 1 : 1 + i - 1 = i
  BY <1>1
<1>5. f \in Seq(Char) /\ (Len(f) = IF 1 <= Len(s) - 1 THEN Len(s) - 1 ELSE 0) /\ \A i \in 1 .. Len(s) - 1 : f[i] = s[i]
  BY <1>2, <1>4 DEF f
<1>6. s # << >> => Len(f) = Len(s) - 1
  <2>1. Len(f) = IF 1 <= Len(s) - 1 THEN Len(s) - 1 ELSE 0
    BY <1>5
  <2>2. CASE 1 <= Len(s) - 1
    BY ONLY <2>1, <2>2
  <2>3. CASE ~(1 <= Len(s) - 1)
    <3>1. Len(f) = 0
      BY ONLY <2>1, <2>3
    <3> DEFINE n == Len(s)
    <3>2. n \in Nat /\ (s # << >> => n >= 1) /\ ~(1 <= n - 1)
      BY <1>1, <2>3
    <3> HIDE DEF n
    <3>3. s # << >> => n = 1
      BY ONLY <3>2
    <3>4. s # << >> => n - 1 = 0
      BY ONLY <3>3
    <3>5. QED BY <3>1, <3>4 DEF n
  <2>4. QED BY <2>2, <2>3
<1>7. QED BY <1>3, <1>5, <1>6

LEMMA SlippedFacts ==
  ASSUME NEW e \in Wide, NEW b \in BOOLEAN, NEW name \in Slip
  PROVE  LET f == Slipped(e, b, name)
         IN /\ f \in Wide /\ f.undo = e.undo /\ f.queue = e.queue /\ f.modified = e.modified /\ SameElse(e, f)
            /\ f.slips = (IF b THEN e.slips \cup {name} ELSE e.slips) /\ Follows(e, f) /\ Quiet(e, f)
<1> DEFINE f == Slipped(e, b, name)
<1>1. /\ f \in Wide /\ f.undo = e.undo /\ f.queue = e.queue /\ f.modified = e.modified /\ SameElse(e, f)
      /\ f.slips = (IF b THEN e.slips \cup {name} ELSE e.slips)
  BY DEF Slipped, Wide, SameElse
<1> HIDE DEF f
<1>2. e.slips \subseteq f.slips /\ f.text = e.text
  BY <1>1 DEF SameElse
<1>3. Follows(e, f) /\ Quiet(e, f)
  BY <1>1, <1>2, SameFollows
<1>4. QED BY <1>1, <1>3 DEF f

PushedTo(e, f, entry) ==
  /\ entry \in Entry /\ f \in Wide /\ f.undo = Append(e.undo, entry) /\ f.modified = e.modified + 1
  /\ f.queue = e.queue /\ f.slips = e.slips /\ SameElse(e, f)

LEMMA PushFacts ==
  ASSUME NEW e \in Wide, NEW kind \in {"ins", "del"}, NEW chain \in BOOLEAN, NEW at \in Int, NEW len \in Nat,
         NEW chars \in Seq(Char), Trims(e, kind, len) => len >= 1
  PROVE  PushedTo(e, Push(e, kind, chain, at, len, chars), EntryOf(e, kind, chain, at, len, chars))
<1> DEFINE entry == EntryOf(e, kind, chain, at, len, chars)
<1>1. entry \in Entry
  <2>1. Front(chars) \in Seq(Char)
    BY FrontFacts
  <2>2. Trims(e, kind, len) => len - 1 \in Nat
    OBVIOUS
  <2>3. QED BY <2>1, <2>2 DEF EntryOf, Entry
<1>2. Push(e, kind, chain, at, len, chars) = [e EXCEPT !.undo = Append(@, entry), !.modified = @ + 1]
  BY DEF Push, EntryOf
<1> HIDE DEF entry
<1> DEFINE u == Append(e.undo, entry)
           n == e.modified + 1
           f == [e EXCEPT !.undo = u, !.modified = n]
<1>3. u \in Seq(Entry) /\ n \in Int
  BY <1>1, WideFields, AppendFacts
<1>4. f = Push(e, kind, chain, at, len, chars)
  BY <1>2
<1> HIDE DEF u, n
<1>5. f.undo = u /\ f.modified = n /\ f.queue = e.queue /\ f.slips = e.slips /\ SameElse(e, f)
  BY DEF Wide, SameElse
<1>6. f \in Wide
  BY <1>3 DEF Wide
<1> HIDE DEF f
<1>7. PushedTo(e, f, entry)
  BY <1>1, <1>5, <1>6 DEF PushedTo, u, n
<1>8. QED BY <1>4, <1>7 DEF entry

\* A queue that is not empty becomes an entry.
Committed(e, f, entry) ==
  /\ f \in Wide /\ entry \in Entry /\ f.undo = Append(e.undo, entry) /\ f.modified = e.modified + 1
  /\ f.queue = NoQueue /\ SameElse(e, f) /\ e.slips \subseteq f.slips
  /\ Clean(f) => entry = Waiting(e.queue)

LEMMA CommitEntry ==
  ASSUME NEW e \in Wide, e.queue.len # 0
  PROVE  \E entry : Committed(e, Commit(e), entry)
<1> DEFINE q == e.queue
           d == [e EXCEPT !.queue = NoQueue]
           l == Slipped(d, Trims(e, q.kind, q.len), "trimmed")
           ch == FALSE
           f == Push(l, q.kind, ch, q.at, q.len, q.chars)
           entry == EntryOf(l, q.kind, ch, q.at, q.len, q.chars)
<1>1. /\ q.kind \in {"none", "ins", "del"} /\ q.at \in Nat /\ q.len \in Nat /\ q.chars \in Seq(Char)
      /\ q.len # 0 /\ q.kind # "none"
  BY WideFields
<1>2. Commit(e) = f
  BY <1>1 DEF Commit
<1>3. /\ d \in Wide /\ d.queue = NoQueue /\ d.undo = e.undo /\ d.modified = e.modified /\ SameElse(e, d) /\ d.slips = e.slips
  BY NoQueueGood DEF Wide, SameElse
<1> HIDE DEF d
<1>4. /\ l \in Wide /\ l.undo = e.undo /\ l.queue = NoQueue /\ l.modified = e.modified /\ SameElse(e, l)
      /\ l.slips = (IF Trims(e, q.kind, q.len) THEN e.slips \cup {"trimmed"} ELSE e.slips)
  <2>1. Trims(e, q.kind, q.len) \in BOOLEAN /\ "trimmed" \in Slip
    BY DEF Trims, Slip
  <2>2. /\ l \in Wide /\ l.undo = d.undo /\ l.queue = d.queue /\ l.modified = d.modified /\ SameElse(d, l)
        /\ l.slips = (IF Trims(e, q.kind, q.len) THEN d.slips \cup {"trimmed"} ELSE d.slips)
    BY ZenonT(60), <1>3, <2>1, SlippedFacts
  <2> HIDE DEF l
  <2>3. QED BY <1>3, <2>2 DEF SameElse
<1> HIDE DEF l
<1>5. PushedTo(l, f, entry)
  <2>1. q.kind \in {"ins", "del"} /\ q.len >= 1 /\ ch \in BOOLEAN /\ q.at \in Int /\ q.len \in Nat /\ q.chars \in Seq(Char)
    BY <1>1
  <2>2. l \in Wide /\ (Trims(l, q.kind, q.len) => q.len >= 1)
    BY <1>4, <2>1
  <2> HIDE DEF q, ch
  <2>3. QED BY <2>1, <2>2, PushFacts
<1> HIDE DEF f
<1>6. ASSUME Clean(f) PROVE entry = Waiting(e.queue)
  <2>1. "trimmed" \notin l.slips
    BY <1>5, <1>6, CleanFacts DEF PushedTo
  <2>2. ~Trims(l, q.kind, q.len)
    BY <1>4, <2>1 DEF Trims, SameElse
  <2>3. QED BY <2>2 DEF EntryOf, Waiting
<1> HIDE DEF entry
<1>7. /\ f \in Wide /\ entry \in Entry /\ f.undo = Append(e.undo, entry) /\ f.modified = e.modified + 1
      /\ f.queue = NoQueue /\ SameElse(e, f) /\ e.slips \subseteq f.slips
  BY <1>4, <1>5 DEF PushedTo, SameElse
<1>8. Committed(e, f, entry)
  BY <1>6, <1>7 DEF Committed
<1>9. QED BY <1>2, <1>8

LEMMA CommitFacts ==
  ASSUME NEW e \in Wide
  PROVE  LET f == Commit(e)
         IN /\ f \in Wide /\ f.queue = NoQueue /\ SameElse(e, f) /\ Follows(e, f) /\ Quiet(e, f)
<1> DEFINE f == Commit(e)
<1>1. CASE e.queue.len = 0
  <2>1. f = e /\ e.queue = NoQueue
    BY <1>1, WideFields DEF Commit
  <2>2. Shown(e.text) = Shown(e.text) /\ e.slips \subseteq e.slips
    OBVIOUS
  <2>3. Follows(e, e) /\ Quiet(e, e)
    BY <2>2, SameFollows
  <2>4. QED BY <2>1, <2>3 DEF SameElse
<1>2. CASE e.queue.len # 0
  <2>1. PICK entry : Committed(e, f, entry)
    BY <1>2, CommitEntry
  <2> HIDE DEF f
  <2>2. /\ f \in Wide /\ entry \in Entry /\ f.undo = Append(e.undo, entry) /\ f.modified = e.modified + 1
        /\ f.queue = NoQueue /\ SameElse(e, f) /\ e.slips \subseteq f.slips /\ f.text = e.text
    BY <2>1 DEF Committed, SameElse
  <2>3. ASSUME Clean(f), NEW h \in Texts, FromTop(e.queue, e.text, h) PROVE Leads(entry, Shown(f.text), h)
    BY <1>2, <2>1, <2>2, <2>3 DEF Committed, FromTop
  <2>4. Follows(e, f) /\ Quiet(e, f)
    BY <2>2, <2>3, OneMore
  <2>5. QED BY <2>2, <2>4 DEF f
<1>3. QED BY <1>1, <1>2

\* An entry made at once.
Recorded(e, l, entry, kind, at, len, chars) ==
  /\ l \in Wide /\ entry \in Entry /\ l.undo = Append(e.undo, entry) /\ l.modified = e.modified + 1
  /\ l.queue = e.queue /\ SameElse(e, l) /\ e.slips \subseteq l.slips
  /\ Clean(l) => /\ e.queue.len = 0 /\ entry.kind = kind /\ entry.at = at
                 /\ IF Trims(e, kind, len) THEN chars = e.text /\ Last(chars) = "nl" /\ entry.chars = Front(chars)
                    ELSE entry.len = len /\ entry.chars = chars

LEMMA RecordFacts ==
  ASSUME NEW e \in Wide, NEW how \in {"new", "chain"}, NEW kind \in {"ins", "del"}, NEW at \in Int, NEW len \in Nat,
         NEW chars \in Seq(Char), Trims(e, kind, len) => len >= 1
  PROVE  \E entry : Recorded(e, Record(e, how, kind, at, len, chars), entry, kind, at, len, chars)
<1> DEFINE whole == chars = e.text /\ Last(chars) = "nl"
           l == Slipped(e, e.queue.len > 0, "moved")
           m == Slipped(l, Trims(e, kind, len) /\ ~whole, "trimmed")
           ch == (how = "chain")
           f == Push(m, kind, ch, at, len, chars)
           entry == EntryOf(m, kind, ch, at, len, chars)
<1>1. Record(e, how, kind, at, len, chars) = f
  BY DEF Record
<1>2. "moved" \in Slip /\ "trimmed" \in Slip /\ (e.queue.len > 0) \in BOOLEAN /\ (Trims(e, kind, len) /\ ~whole) \in BOOLEAN
  BY DEF Slip
<1>3. /\ l \in Wide /\ l.undo = e.undo /\ l.queue = e.queue /\ l.modified = e.modified /\ SameElse(e, l)
      /\ l.slips = (IF e.queue.len > 0 THEN e.slips \cup {"moved"} ELSE e.slips)
  BY ZenonT(60), <1>2, SlippedFacts
<1> HIDE DEF l, whole
<1>4. /\ m \in Wide /\ m.undo = l.undo /\ m.queue = l.queue /\ m.modified = l.modified /\ SameElse(l, m)
      /\ m.slips = (IF Trims(e, kind, len) /\ ~whole THEN l.slips \cup {"trimmed"} ELSE l.slips)
  BY ZenonT(60), <1>2, <1>3, SlippedFacts
<1> HIDE DEF m
<1>5. Trims(m, kind, len) <=> Trims(e, kind, len)
  BY <1>3, <1>4 DEF Trims, SameElse
<1>6. /\ entry \in Entry /\ f \in Wide /\ f.undo = Append(m.undo, entry) /\ f.modified = m.modified + 1
      /\ f.queue = m.queue /\ f.slips = m.slips /\ SameElse(m, f)
  <2>1. ch \in BOOLEAN
    OBVIOUS
  <2>2. Trims(m, kind, len) => len >= 1
    BY <1>5
  <2> HIDE DEF ch
  <2>3. PushedTo(m, f, entry)
    BY <1>4, <2>1, <2>2, PushFacts
  <2> HIDE DEF f, entry
  <2>4. QED BY <2>3 DEF PushedTo
<1> HIDE DEF f
<1>7. ASSUME Clean(f)
      PROVE  /\ e.queue.len = 0 /\ entry.kind = kind /\ entry.at = at
             /\ IF Trims(e, kind, len) THEN chars = e.text /\ Last(chars) = "nl" /\ entry.chars = Front(chars)
                ELSE entry.len = len /\ entry.chars = chars
  <2>a. "moved" \notin m.slips /\ "trimmed" \notin m.slips
    BY <1>6, <1>7, CleanFacts
  <2>1. ~(e.queue.len > 0) /\ (Trims(e, kind, len) => whole)
    BY <1>3, <1>4, <2>a
  <2>2. e.queue.len = 0
    BY <2>1, WideFields
  <2>3. QED BY <1>5, <2>1, <2>2 DEF EntryOf, whole
<1>8. SameElse(e, f) /\ e.slips \subseteq f.slips /\ f.queue = e.queue /\ f.modified = e.modified + 1 /\ f.undo = Append(e.undo, entry)
  BY <1>3, <1>4, <1>6 DEF SameElse
<1>9. Recorded(e, f, entry, kind, at, len, chars)
  BY <1>6, <1>7, <1>8 DEF Recorded
<1>10. QED BY <1>1, <1>9

-----------------------------------------------------------------------------
(* Deletions and insertions. *)

LEMMA MinTwo ==
  ASSUME NEW a \in Int, NEW b \in Int
  PROVE  Min({a, b}) = IF a <= b THEN a ELSE b
<1> DEFINE m == IF a <= b THEN a ELSE b
<1>1. m \in {a, b} /\ m <= a /\ m <= b
  OBVIOUS
<1>2. \A x \in {a, b} : x <= a /\ x <= b => x = m
  OBVIOUS
<1> HIDE DEF m
<1>3. \E x \in {a, b} : \A y \in {a, b} : x <= y
  BY <1>1
<1>4. Min({a, b}) \in {a, b} /\ \A y \in {a, b} : Min({a, b}) <= y
  BY <1>3 DEF Min
<1>5. Min({a, b}) = m
  BY <1>2, <1>4
<1>6. QED BY <1>5 DEF m

LEMMA MaxTwo ==
  ASSUME NEW a \in Int, NEW b \in Int
  PROVE  Max({a, b}) = IF a <= b THEN b ELSE a
<1> DEFINE m == IF a <= b THEN b ELSE a
<1>1. m \in {a, b} /\ m >= a /\ m >= b
  OBVIOUS
<1>2. \A x \in {a, b} : x >= a /\ x >= b => x = m
  OBVIOUS
<1> HIDE DEF m
<1>3. \E x \in {a, b} : \A y \in {a, b} : x >= y
  BY <1>1
<1>4. Max({a, b}) \in {a, b} /\ \A y \in {a, b} : Max({a, b}) >= y
  BY <1>3 DEF Max
<1>5. Max({a, b}) = m
  BY <1>2, <1>4
<1>6. QED BY <1>5 DEF m

\* f is a state a command can go on from after e.
After(e, f) == f \in Sound /\ Follows(e, f) /\ Quiet(e, f)

LEMMA SoundIsWide ==
  ASSUME NEW e \in Sound
  PROVE  e \in Wide /\ e.queue.len < QueueMax
BY DEF Sound

LEMMA AfterThrough ==
  ASSUME NEW e \in Sound, NEW f, NEW g, After(e, f), After(f, g)
  PROVE  After(e, g)
<1>1. e \in Wide /\ f \in Wide /\ g \in Wide
  BY SoundIsWide DEF After
<1>2. Follows(e, g)
  BY <1>1, FollowsThrough DEF After
<1>3. QED BY <1>2 DEF After, Quiet

\* A state that differs in the cursor or in the register.
LEMMA AfterSame ==
  ASSUME NEW e \in Sound, NEW f \in Wide, f.undo = e.undo, f.queue = e.queue, Shown(f.text) = Shown(e.text),
         f.modified = e.modified, e.slips \subseteq f.slips
  PROVE  After(e, f)
<1>1. e \in Wide /\ f \in Sound
  BY SoundIsWide DEF Sound
<1>2. QED BY <1>1, SameFollows DEF After

LEMMA AfterDot ==
  ASSUME NEW e \in Sound, NEW d \in Int
  PROVE  LET f == [e EXCEPT !.dot = d]
         IN /\ After(e, f) /\ f.dot = d /\ f.undo = e.undo /\ f.queue = e.queue /\ f.text = e.text
            /\ f.modified = e.modified /\ f.slips = e.slips /\ f.reg = e.reg
<1> DEFINE f == [e EXCEPT !.dot = d]
<1>1. e \in Wide
  BY SoundIsWide
<1>2. /\ f \in Wide /\ f.dot = d /\ f.undo = e.undo /\ f.queue = e.queue /\ f.text = e.text
      /\ f.modified = e.modified /\ f.slips = e.slips /\ f.reg = e.reg
  BY <1>1 DEF Wide
<1> HIDE DEF f
<1>3. After(e, f)
  BY <1>2, AfterSame
<1>4. QED BY <1>2, <1>3 DEF f

LEMMA AfterReg ==
  ASSUME NEW e \in Sound, NEW r \in [chars : Seq(Char), whole : BOOLEAN]
  PROVE  After(e, [e EXCEPT !.reg = r])
<1> DEFINE f == [e EXCEPT !.reg = r]
<1>1. e \in Wide
  BY SoundIsWide
<1>2. /\ f \in Wide /\ f.undo = e.undo /\ f.queue = e.queue /\ f.text = e.text
      /\ f.modified = e.modified /\ f.slips = e.slips
  BY <1>1 DEF Wide
<1> HIDE DEF f
<1>3. After(e, f)
  BY <1>2, AfterSame
<1>4. QED BY <1>3 DEF f

LEMMA SeenFacts ==
  ASSUME NEW e \in Wide, NEW p \in Int, NEW g \in Char
  PROVE  Seen(e, p, g) \in Char
BY WideFields DEF Seen

LEMMA SeenRange ==
  ASSUME NEW e \in Wide, NEW p \in Int, NEW q \in Int, p <= q + 1, NEW g \in Char
  PROVE  LET s == Stretch(e, p, q, g)
         IN /\ s \in Seq(Char) /\ Len(s) = q - p + 1
            /\ 1 <= p /\ q <= Len(e.text) => \A i \in 1 .. q - p + 1 : s[i] = e.text[p + i - 1]
<1> DEFINE n == q - p + 1
           s == [i \in 1 .. n |-> Seen(e, p + i - 1, g)]
<1>1. n \in Nat
  OBVIOUS
<1>2. \A i \in 1 .. n : Seen(e, p + i - 1, g) \in Char
  BY SeenFacts
<1>3. 1 <= p /\ q <= Len(e.text) => \A i \in 1 .. n : s[i] = e.text[p + i - 1]
  <2> SUFFICES ASSUME 1 <= p, q <= Len(e.text), NEW i \in 1 .. n PROVE s[i] = e.text[p + i - 1]
    OBVIOUS
  <2>1. Len(e.text) \in Nat
    BY WideFields
  <2>2. p + i - 1 \in 1 .. Len(e.text)
    BY <2>1
  <2>3. QED BY <2>2 DEF Seen
<1>4. s \in [1 .. n -> Char]
  BY <1>2
<1> HIDE DEF s
<1>5. s \in Seq(Char) /\ Len(s) = n
  <2> HIDE DEF n
  <2>1. \A k \in Nat : \A x \in [1 .. k -> Char] : x \in Seq(Char) /\ Len(x) = k
    OBVIOUS
  <2>2. QED BY ONLY <1>1, <1>4, <2>1
<1>6. QED BY <1>3, <1>5 DEF s, Stretch

Holed(e, f, p, q) ==
  /\ After(e, f) /\ f.reg = e.reg
  /\ Clean(f) => /\ 1 <= p /\ q <= Len(e.text) /\ f.text = Cut(e.text, p, q) /\ f.dot \in 1 .. Len(f.text) + 1
                 /\ f.text = << >> => e.text # << >> /\ Last(e.text) = "nl" /\ p = 1 /\ q = Len(e.text)
  /\ f.text = e.text \/ (1 <= p /\ q <= Len(e.text) /\ f.text = Cut(e.text, p, q))
  /\ p \in 1 .. Len(e.text) + 1 => f.dot \in 1 .. Len(f.text) + 1

\* text_hole_delete, recorded at once.
LEMMA HoleFacts ==
  ASSUME NEW e \in Sound, NEW p \in Int, NEW q \in Int, p <= q, NEW how \in {"new", "chain"}, NEW g \in Char
  PROVE  Holed(e, HoleDelete(e, p, q, how, g), p, q)
<1> DEFINE s == Stretch(e, p, q, g)
           l == Record(e, how, "del", p, q - p + 1, s)
           t == Cut(e.text, p, q)
           d == Max({1, Min({p, Len(t)})})
           f == HoleDelete(e, p, q, how, g)
           b == [l EXCEPT !.dot = p, !.modified = @ - 1]
<1>1. e \in Wide /\ e.queue.len < QueueMax /\ e.text \in Seq(Char) /\ Len(e.text) \in Nat
  BY SoundIsWide, WideFields
<1>2. /\ s \in Seq(Char) /\ Len(s) = q - p + 1
      /\ 1 <= p /\ q <= Len(e.text) => \A i \in 1 .. q - p + 1 : s[i] = e.text[p + i - 1]
  <2>1. p <= q + 1
    OBVIOUS
  <2>2. QED BY <1>1, <2>1, SeenRange
<1>3. f = IF p < 1 \/ q > Len(e.text) THEN Slipped(b, TRUE, "beyond") ELSE [l EXCEPT !.text = t, !.dot = d]
  BY DEF HoleDelete
<1> HIDE DEF s
<1>4. PICK entry : Recorded(e, l, entry, "del", p, q - p + 1, s)
  <2>1. q - p + 1 \in Nat /\ q - p + 1 >= 1
    OBVIOUS
  <2>2. QED BY <1>1, <1>2, <2>1, RecordFacts
<1> HIDE DEF l, f
<1>5. /\ l \in Wide /\ entry \in Entry /\ l.undo = Append(e.undo, entry) /\ l.modified = e.modified + 1
      /\ l.queue = e.queue /\ l.text = e.text /\ l.reg = e.reg /\ e.slips \subseteq l.slips
  BY <1>4 DEF Recorded, SameElse
<1>6. CASE p < 1 \/ q > Len(e.text)
  <2>1. b \in Wide /\ b.queue = l.queue /\ b.slips = l.slips /\ b.dot = p /\ b.reg = l.reg /\ b.text = l.text
    <3>1. l.modified - 1 \in Int
      BY <1>5, WideFields
    <3>2. QED BY <1>5, <3>1 DEF Wide
  <2> HIDE DEF b
  <2>2. f.slips = l.slips \cup {"beyond"} /\ f \in Wide /\ f.queue = e.queue /\ f.dot = p /\ f.reg = e.reg /\ f.text = e.text
    <3>1. "beyond" \in Slip /\ TRUE \in BOOLEAN
      BY DEF Slip
    <3>2. f = Slipped(b, TRUE, "beyond")
      BY <1>3, <1>6
    <3>3. /\ f \in Wide /\ f.queue = b.queue /\ SameElse(b, f) /\ f.slips = b.slips \cup {"beyond"}
      BY <2>1, <3>1, <3>2, SlippedFacts
    <3>4. QED BY <1>5, <2>1, <3>3 DEF SameElse
  <2>3. ~Clean(f) /\ e.slips \subseteq f.slips
    <3>1. "beyond" \in f.slips /\ e.slips \subseteq f.slips
      BY <1>5, <2>2
    <3>2. QED BY <3>1, CleanFacts
  <2>4. After(e, f)
    <3>1. f \in Sound
      BY <1>1, <2>2 DEF Sound
    <3>2. QED BY <2>2, <2>3, <3>1, NothingFollows DEF After, Quiet
  <2>5. p \in 1 .. Len(e.text) + 1 => f.dot \in 1 .. Len(f.text) + 1
    BY <2>2
  <2>6. QED BY <2>2, <2>3, <2>4, <2>5 DEF f, Holed
<1>7. CASE ~(p < 1 \/ q > Len(e.text))
  <2>1. 1 <= p /\ q <= Len(e.text)
    BY <1>1, <1>7
  <2>2. t \in Seq(Char) /\ Len(t) = Len(e.text) - (q - p + 1)
    <3>1. p <= q + 1
      OBVIOUS
    <3>2. QED BY <1>1, <2>1, <3>1, CutFacts
  <2>3. d \in 1 .. Len(t) + 1
    <3>1. p \in Int /\ Len(t) \in Int /\ 1 \in Int /\ Len(t) \in Nat
      BY <2>2
    <3>2. Min({p, Len(t)}) = IF p <= Len(t) THEN p ELSE Len(t)
      BY <3>1, MinTwo
    <3>3. Min({p, Len(t)}) \in Int /\ Min({p, Len(t)}) <= Len(t)
      BY <3>1, <3>2
    <3>4. d = IF 1 <= Min({p, Len(t)}) THEN Min({p, Len(t)}) ELSE 1
      BY <3>1, <3>3, MaxTwo
    <3>5. QED BY <3>1, <3>3, <3>4
  <2> HIDE DEF t, d
  <2>4. /\ f \in Wide /\ f.undo = Append(e.undo, entry) /\ f.modified = e.modified + 1 /\ f.queue = e.queue
        /\ f.text = t /\ f.dot = d /\ f.slips = l.slips /\ f.reg = e.reg
    <3>1. f = [l EXCEPT !.text = t, !.dot = d]
      BY <1>3, <1>7
    <3>2. d \in Int
      BY <2>3
    <3>3. QED BY <1>5, <2>2, <3>1, <3>2 DEF Wide
  <2>5. ASSUME Clean(f)
        PROVE  /\ e.queue.len = 0 /\ entry.kind = "del" /\ entry.at = p
               /\ IF Trims(e, "del", q - p + 1) THEN s = e.text /\ Last(s) = "nl" /\ entry.chars = Front(s)
                  ELSE entry.chars = s
    <3>1. Clean(l)
      BY <2>4, <2>5 DEF Clean
    <3>2. QED BY <1>4, <3>1 DEF Recorded
  <2>6. Trims(e, "del", q - p + 1) <=> Len(t) = 0
    BY <1>1, <2>2 DEF Trims
  <2>7. Len(t) = 0 <=> t = << >>
    BY <2>2
  <2>8. Len(t) = 0 => p = 1 /\ q = Len(e.text) /\ e.text # << >>
    BY <1>1, <2>1, <2>2
  <2>9. ASSUME Clean(f), NEW h \in Texts, FromTop(e.queue, e.text, h) PROVE Leads(entry, Shown(f.text), h)
    <3>1. h = e.text
      <4>1. e.text # << >>
        BY <1>1, <2>1
      <4>2. QED BY <2>5, <2>9, <4>1 DEF FromTop, Shown
    <3>2. CASE Len(t) = 0
      <4>1. s = e.text /\ Last(s) = "nl" /\ entry.chars = Front(s) /\ entry.kind = "del" /\ entry.at = 1 /\ s # << >>
        BY <2>5, <2>6, <2>8, <2>9, <3>2
      <4>2. Shown(f.text) = <<"nl">>
        BY <2>4, <2>7, <3>2 DEF Shown
      <4>3. HasPlace(entry, <<"nl">>)
        BY <4>1 DEF HasPlace
      <4>4. Undone(entry, <<"nl">>) = s
        <5>1. Undone(entry, <<"nl">>) = Paste(<<"nl">>, 1, Front(s))
          BY <4>1 DEF Undone
        <5>2. Front(s) \in Seq(Char) /\ Len(Front(s)) = Len(s) - 1 /\ \A i \in 1 .. Len(s) - 1 : Front(s)[i] = s[i]
          BY <1>2, <4>1, FrontFacts
        <5> DEFINE o == <<"nl">>
                   fr == Front(s)
                   u == Paste(o, 1, fr)
        <5>3. o \in Seq(Char) /\ Len(o) = 1 /\ o[1] = "nl" /\ 1 \in 1 .. Len(o) + 1
          BY DEF Char
        <5> HIDE DEF o, fr
        <5>4. /\ u \in Seq(Char) /\ Len(u) = Len(o) + Len(fr)
              /\ \A i \in 1 .. Len(o) + Len(fr) :
                   u[i] = IF i < 1 THEN o[i] ELSE IF i < 1 + Len(fr) THEN fr[i - 1 + 1] ELSE o[i - Len(fr)]
          BY <5>2, <5>3, PasteFacts DEF fr
        <5> HIDE DEF u
        <5>5. Len(fr) = Len(s) - 1 /\ Len(s) \in Nat /\ Len(s) >= 1 /\ s[Len(s)] = "nl"
          BY <1>2, <4>1, <5>2 DEF Last, fr
        <5>6. Len(u) = Len(s)
          BY <5>3, <5>4, <5>5
        <5>7. ASSUME NEW i \in 1 .. Len(u) PROVE u[i] = s[i]
          <6>1. i \in 1 .. Len(o) + Len(fr)
            BY <5>4
          <6>2. CASE i < 1 + Len(fr)
            <7>1. i - 1 + 1 = i /\ ~(i < 1) /\ i \in 1 .. Len(s) - 1
              BY <5>5, <6>2
            <7>2. u[i] = fr[i]
              BY <5>4, <6>1, <6>2, <7>1
            <7>3. QED BY <5>2, <7>1, <7>2 DEF fr
          <6>3. CASE ~(i < 1 + Len(fr))
            <7>1. i = Len(s) /\ i - Len(fr) = 1 /\ ~(i < 1)
              BY <5>5, <5>6, <6>3
            <7>2. u[i] = o[1]
              BY <5>4, <6>1, <6>3, <7>1
            <7>3. QED BY <5>3, <5>5, <7>1, <7>2
          <6>4. QED BY <6>2, <6>3
        <5>8. u = s
          BY <1>2, <5>4, <5>6, <5>7, SameSequence
        <5>9. QED BY <5>1, <5>8 DEF u, o, fr
      <4>5. QED BY <3>1, <4>1, <4>2, <4>3, <4>4 DEF Leads
    <3>3. CASE Len(t) # 0
      <4>1. entry.chars = s /\ entry.kind = "del" /\ entry.at = p
        BY <2>5, <2>6, <2>9, <3>3
      <4>2. Shown(f.text) = t
        BY <2>4, <2>7, <3>3 DEF Shown
      <4>3. HasPlace(entry, t)
        BY <1>1, <2>1, <2>2, <4>1 DEF HasPlace
      <4>4. Undone(entry, t) = Paste(t, p, s)
        BY <4>1 DEF Undone
      <4>5. Paste(t, p, s) = e.text
        <5>1. p <= q + 1
          OBVIOUS
        <5>2. QED BY <1>1, <1>2, <2>1, <5>1, PasteOfCut DEF t
      <4>6. QED BY <3>1, <4>2, <4>3, <4>4, <4>5 DEF Leads
    <3>4. QED BY <3>2, <3>3
  <2>10. After(e, f)
    <3>1. f \in Sound
      BY <1>1, <2>4 DEF Sound
    <3>2. CASE e.queue = NoQueue
      <4>1. f.queue = NoQueue /\ e.slips \subseteq f.slips
        BY <1>5, <2>4, <3>2
      <4>2. Follows(e, f) /\ Quiet(e, f)
        BY <1>1, <1>5, <2>4, <2>9, <4>1, OneMore
      <4>3. QED BY <3>1, <4>2 DEF After
    <3>3. CASE e.queue # NoQueue
      <4>1. ~Clean(f)
        BY <1>1, <2>5, <3>3, WideFields
      <4>2. e.slips \subseteq f.slips
        BY <1>5, <2>4
      <4>3. QED BY <3>1, <3>3, <4>1, <4>2, NothingFollows DEF After, Quiet
    <3>4. QED BY <3>2, <3>3
  <2>11. f.dot \in 1 .. Len(f.text) + 1 /\ f.text = Cut(e.text, p, q)
    BY <2>3, <2>4 DEF t
  <2>12. Clean(f) /\ f.text = << >> => e.text # << >> /\ Last(e.text) = "nl" /\ p = 1 /\ q = Len(e.text)
    BY <2>4, <2>5, <2>6, <2>7, <2>8
  <2>13. QED BY <2>1, <2>4, <2>10, <2>11, <2>12 DEF f, Holed
<1>8. QED BY <1>6, <1>7

\* yank_delete.
LEMMA YankFacts ==
  ASSUME NEW e \in Sound, NEW start \in Int, NEW stop \in Int, NEW whole \in BOOLEAN, NEW how \in {"new", "chain"}, NEW g \in Char
  PROVE  LET f == YankDelete(e, start, stop, whole, how, g)
         IN /\ After(e, f)
            /\ start \in 1 .. Len(e.text) + 1 /\ stop \in 1 .. Len(e.text) + 1 => f.dot \in 1 .. Len(f.text) + 1
            /\ Clean(f) /\ start = stop /\ ~whole /\ e.text # << >> => f.text # << >>
<1> DEFINE p == Min({start, stop})
           q == Max({start, stop})
           s == Stretch(e, p, q, g)
           r == [chars |-> s, whole |-> whole]
           y == [e EXCEPT !.reg = r]
           f == YankDelete(e, start, stop, whole, how, g)
<1>1. e \in Wide /\ Len(e.text) \in Nat /\ e.text \in Seq(Char) /\ e.dot \in Int
  BY SoundIsWide, WideFields
<1>2. p \in {start, stop} /\ q \in {start, stop} /\ p <= q /\ (start = stop => p = start /\ q = start)
  BY MinTwo, MaxTwo
<1>3. f = IF ~whole /\ Seen(e, p, g) = "nl" THEN [e EXCEPT !.dot = p] ELSE HoleDelete(y, p, q, how, g)
  BY DEF YankDelete
<1> HIDE DEF f
<1>4. p \in Int /\ q \in Int /\ p <= q + 1
  <2> HIDE DEF p, q
  <2>1. p \in Int /\ q \in Int
    BY <1>2
  <2>2. QED BY <1>2, <2>1
<1> HIDE DEF p, q
<1>5. After(e, y) /\ y.text = e.text
  <2>1. s \in Seq(Char)
    BY <1>1, <1>4, SeenRange
  <2> HIDE DEF s
  <2>2. r \in [chars : Seq(Char), whole : BOOLEAN]
    BY <2>1
  <2> HIDE DEF r
  <2>3. After(e, y)
    BY <2>2, AfterReg
  <2>4. y.text = e.text
    BY <1>1 DEF Wide
  <2>5. QED BY <2>3, <2>4
<1> HIDE DEF y
<1>6. CASE ~whole /\ Seen(e, p, g) = "nl"
  <2>1. f = [e EXCEPT !.dot = p]
    BY <1>3, <1>6
  <2>2. After(e, f)
    BY <1>4, <2>1, AfterDot
  <2>3. f.dot = p /\ f.text = e.text
    BY <1>4, <2>1, AfterDot
  <2>4. QED BY <1>1, <1>2, <2>2, <2>3 DEF f
<1>7. CASE ~(~whole /\ Seen(e, p, g) = "nl")
  <2>1. f = HoleDelete(y, p, q, how, g)
    BY <1>3, <1>7
  <2>2. y \in Sound
    BY <1>5 DEF After
  <2>3. /\ After(y, f)
        /\ Clean(f) => /\ 1 <= p /\ q <= Len(y.text)
                       /\ f.text = << >> => Last(y.text) = "nl" /\ p = 1 /\ q = Len(y.text)
        /\ p \in 1 .. Len(y.text) + 1 => f.dot \in 1 .. Len(f.text) + 1
    <3>1. Holed(y, f, p, q)
      BY <1>2, <1>4, <2>1, <2>2, HoleFacts
    <3>2. QED BY <3>1 DEF Holed
  <2>4. After(e, f)
    BY <1>5, <2>3, AfterThrough
  <2>5. ASSUME Clean(f), start = stop, ~whole, e.text # << >>, f.text = << >> PROVE FALSE
    <3>1. p = 1 /\ q = Len(e.text) /\ Last(e.text) = "nl" /\ p = q
      BY <1>2, <1>5, <2>3, <2>5
    <3>2. Seen(e, p, g) = "nl"
      <4>1. Len(e.text) = 1 /\ p = 1
        BY <3>1
      <4>2. e.text[1] = "nl"
        BY <3>1, <4>1 DEF Last
      <4>3. QED BY <4>1, <4>2 DEF Seen
    <3>3. QED BY <1>7, <2>5, <3>2
  <2>6. start \in 1 .. Len(e.text) + 1 /\ stop \in 1 .. Len(e.text) + 1 => f.dot \in 1 .. Len(f.text) + 1
    BY <1>2, <1>5, <2>3
  <2>7. QED BY <2>4, <2>5, <2>6 DEF f
<1>8. QED BY <1>6, <1>7

\* string_insert, recorded at once.
LEMMA InsertFacts ==
  ASSUME NEW e \in Sound, NEW s \in Seq(Char), e.dot \in 1 .. Len(e.text) + 1, NEW how \in {"new", "chain"},
         Clean(e) => e.text # << >>
  PROVE  LET f == StringInsert(e, s, how)
         IN After(e, f) /\ f.dot = e.dot /\ Len(f.text) = Len(e.text) + Len(s)
<1> DEFINE p == e.dot
           l == Record(e, how, "ins", p, Len(s), << >>)
           t == Paste(e.text, p, s)
           f == StringInsert(e, s, how)
<1>1. e \in Wide /\ e.queue.len < QueueMax /\ e.text \in Seq(Char) /\ Len(e.text) \in Nat /\ Len(s) \in Nat /\ p \in Int
  BY SoundIsWide, WideFields
<1>2. f = [l EXCEPT !.text = Paste(@, p, s)]
  BY DEF StringInsert
<1>3. PICK entry : Recorded(e, l, entry, "ins", p, Len(s), << >>)
  <2>1. ~Trims(e, "ins", Len(s)) /\ << >> \in Seq(Char)
    BY DEF Trims
  <2>2. QED BY <1>1, <2>1, RecordFacts
<1> HIDE DEF l, f
<1>4. /\ l \in Wide /\ entry \in Entry /\ l.undo = Append(e.undo, entry) /\ l.modified = e.modified + 1
      /\ l.queue = e.queue /\ l.text = e.text /\ l.dot = p /\ e.slips \subseteq l.slips
  BY <1>3 DEF Recorded, SameElse
<1>5. t \in Seq(Char) /\ Len(t) = Len(e.text) + Len(s)
  BY <1>1, PasteFacts
<1> HIDE DEF t
<1>6. /\ f \in Wide /\ f.undo = Append(e.undo, entry) /\ f.modified = e.modified + 1 /\ f.queue = e.queue
      /\ f.text = t /\ f.dot = p /\ f.slips = l.slips
  <2>1. f = [l EXCEPT !.text = t]
    BY <1>2, <1>4 DEF t, Wide
  <2>2. QED BY <1>4, <1>5, <2>1 DEF Wide
<1>7. f \in Sound /\ Quiet(e, f)
  BY <1>1, <1>6 DEF Sound, Quiet
<1>8. Follows(e, f)
  <2>1. ASSUME Clean(f)
        PROVE  e.queue.len = 0 /\ entry.kind = "ins" /\ entry.at = p /\ entry.len = Len(s) /\ e.text # << >>
    <3>1. Clean(l) /\ Clean(e)
      BY <1>4, <1>6, <2>1 DEF Clean
    <3>2. QED BY <1>3, <2>1, <3>1 DEF Recorded, Trims
  <2>2. ASSUME Clean(f), NEW h \in Texts, FromTop(e.queue, e.text, h) PROVE Leads(entry, Shown(f.text), h)
    <3>1. h = e.text
      BY <2>1, <2>2 DEF FromTop, Shown
    <3>2. Shown(f.text) = t
      <4>1. Len(t) # 0
        BY <1>1, <1>5, <2>1, <2>2
      <4>2. QED BY <1>5, <1>6, <4>1 DEF Shown
    <3>3. HasPlace(entry, t)
      BY SMTT(40), <1>1, <1>5, <2>1, <2>2 DEF HasPlace
    <3>4. Undone(entry, t) = Cut(t, p, p + Len(s) - 1)
      BY <2>1, <2>2 DEF Undone
    <3>5. Cut(t, p, p + Len(s) - 1) = e.text
      BY <1>1, CutOfPaste DEF t
    <3>6. QED BY <3>1, <3>2, <3>3, <3>4, <3>5 DEF Leads
  <2>3. CASE e.queue = NoQueue
    <3>1. f.queue = NoQueue /\ e.slips \subseteq f.slips
      BY <1>4, <1>6, <2>3
    <3>2. QED BY <1>1, <1>4, <1>6, <2>2, <3>1, OneMore
  <2>4. CASE e.queue # NoQueue
    <3>1. ~Clean(f)
      BY <1>1, <2>1, <2>4, WideFields
    <3>2. e.slips \subseteq f.slips
      BY <1>4, <1>6
    <3>3. QED BY <3>1, <3>2, NothingFollows
  <2>5. QED BY <2>3, <2>4
<1>9. QED BY <1>5, <1>6, <1>7, <1>8 DEF f, After

\* A character that takes the place of another is recorded as a deletion and an insertion chained to it.
LEMMA ChangeFacts ==
  ASSUME NEW e \in Sound, NEW p \in 1 .. Len(e.text), NEW d \in Char, NEW how \in {"new", "chain"}, NEW c,
         c = e.text[p], Len(e.text) = 1 => c # "nl",
         NEW x \in Wide,
         LET l == Record(e, how, "del", p, 1, <<c>>)
         IN x.undo = l.undo /\ x.queue = l.queue /\ x.modified = l.modified /\ x.slips = l.slips,
         x.text = [e.text EXCEPT ![p] = d]
  PROVE  LET f == Record(x, "chain", "ins", p, 1, << >>)
         IN After(e, f) /\ f.text = x.text /\ f.dot = x.dot
<1> DEFINE s == <<c>>
           l == Record(e, how, "del", p, 1, s)
           f == Record(x, "chain", "ins", p, 1, << >>)
           t == Cut(e.text, p, p)
           m == [l EXCEPT !.text = t]
<1>1. e \in Wide /\ e.queue.len < QueueMax /\ e.text \in Seq(Char) /\ Len(e.text) \in Nat /\ p \in Int
  BY SoundIsWide, WideFields
<1>2. c \in Char /\ s \in Seq(Char) /\ Len(s) = 1 /\ s[1] = c
  BY <1>1
<1>a. x.undo = l.undo /\ x.queue = l.queue /\ x.modified = l.modified /\ x.slips = l.slips
  OBVIOUS
<1> HIDE DEF s
<1>3. PICK out : Recorded(e, l, out, "del", p, 1, s)
  BY <1>1, <1>2, RecordFacts
<1>4. PICK in : Recorded(x, f, in, "ins", p, 1, << >>)
  <2>1. ~Trims(x, "ins", 1) /\ << >> \in Seq(Char)
    BY DEF Trims
  <2>2. QED BY <1>1, <2>1, RecordFacts
<1> HIDE DEF l, f
<1>5. /\ l \in Wide /\ out \in Entry /\ l.undo = Append(e.undo, out) /\ l.modified = e.modified + 1
      /\ l.queue = e.queue /\ l.text = e.text /\ e.slips \subseteq l.slips
  BY <1>3 DEF Recorded, SameElse
<1>6. /\ f \in Wide /\ in \in Entry /\ f.undo = Append(x.undo, in) /\ f.modified = x.modified + 1
      /\ f.queue = x.queue /\ f.text = x.text /\ f.dot = x.dot /\ x.slips \subseteq f.slips
  BY <1>4 DEF Recorded, SameElse
<1>7. /\ x.text \in Seq(Char) /\ Len(x.text) = Len(e.text) /\ Cut(x.text, p, p) = t
  BY <1>1, CutChanged
<1>8. t \in Seq(Char) /\ Len(t) = Len(e.text) - 1
  <2>1. 1 <= p /\ p <= p + 1 /\ p <= Len(e.text) /\ p - p + 1 = 1
    BY <1>1
  <2>2. t \in Seq(Char) /\ Len(t) = Len(e.text) - (p - p + 1)
    BY <1>1, <2>1, CutFacts
  <2> HIDE DEF t
  <2>3. QED BY <2>1, <2>2
<1> HIDE DEF t
<1>9. m \in Wide /\ m.undo = l.undo /\ m.queue = l.queue /\ m.modified = l.modified /\ m.slips = l.slips /\ m.text = t
  BY <1>5, <1>8 DEF Wide
<1> HIDE DEF m
<1>10. e.slips \subseteq f.slips /\ (Clean(f) => Clean(l) /\ Clean(m) /\ Clean(x))
  BY <1>5, <1>6, <1>9, <1>a DEF Clean
<1>11. ASSUME Clean(f)
       PROVE  /\ e.queue = NoQueue /\ Len(e.text) # 1
              /\ out.kind = "del" /\ out.at = p /\ out.chars = s /\ in.kind = "ins" /\ in.at = p /\ in.len = 1
  <2>1. /\ e.queue.len = 0 /\ out.kind = "del" /\ out.at = p
        /\ IF Trims(e, "del", 1) THEN s = e.text /\ Last(s) = "nl" ELSE out.chars = s
    BY <1>3, <1>10, <1>11 DEF Recorded
  <2>2. in.kind = "ins" /\ in.at = p /\ in.len = 1
    BY <1>4, <1>11 DEF Recorded, Trims
  <2>3. Len(e.text) # 1
    <3> SUFFICES ASSUME Len(e.text) = 1 PROVE FALSE
      OBVIOUS
    <3>1. Trims(e, "del", 1)
      BY DEF Trims
    <3>2. Last(s) = "nl" /\ c # "nl"
      BY <2>1, <3>1
    <3>3. QED BY <1>2, <3>2 DEF Last
  <2>4. ~Trims(e, "del", 1)
    BY <2>3 DEF Trims
  <2>5. e.queue = NoQueue
    BY <1>1, <2>1, WideFields
  <2>6. QED BY <2>1, <2>2, <2>3, <2>4, <2>5
<1>12. ASSUME Clean(f), NEW h \in Texts, FromTop(e.queue, e.text, h) PROVE Leads(out, Shown(m.text), h)
  <2>1. h = e.text /\ Shown(m.text) = t
    <3>1. Len(t) # 0 /\ Len(e.text) # 0
      BY <1>1, <1>8, <1>11, <1>12
    <3>2. QED BY <1>1, <1>8, <1>9, <1>11, <1>12, <3>1, NoQueueGood DEF FromTop, Shown
  <2>2. HasPlace(out, t)
    BY <1>1, <1>8, <1>11, <1>12 DEF HasPlace
  <2>3. Undone(out, t) = Paste(t, p, s)
    BY <1>11, <1>12 DEF Undone
  <2>4. Paste(t, p, s) = e.text
    <3>1. Len(s) = 1 /\ s[1] = e.text[p]
      BY <1>1, <1>2
    <3>2. p \in 1 .. Len(e.text) /\ e.text \in Seq(Char) /\ s \in Seq(Char)
      BY <1>1, <1>2
    <3>3. QED BY ONLY <3>1, <3>2, PasteOfOne DEF t
  <2>5. QED BY <2>1, <2>2, <2>3, <2>4 DEF Leads
<1>13. ASSUME Clean(f), NEW h \in Texts, FromTop(m.queue, m.text, h) PROVE Leads(in, Shown(f.text), h)
  <2>1. h = t /\ Shown(f.text) = x.text
    <3>1. Len(t) # 0 /\ Len(x.text) # 0
      BY <1>1, <1>7, <1>8, <1>11, <1>13
    <3>2. m.queue = NoQueue
      BY <1>5, <1>9, <1>11, <1>13
    <3>3. t # << >> /\ x.text # << >>
      BY <1>7, <1>8, <3>1
    <3>4. QED BY <1>6, <1>9, <1>13, <3>2, <3>3, NoQueueGood DEF FromTop, Shown
  <2>2. HasPlace(in, x.text)
    BY <1>1, <1>7, <1>11, <1>13 DEF HasPlace
  <2>3. Undone(in, x.text) = Cut(x.text, p, p)
    <3>1. p + 1 - 1 = p
      BY <1>1
    <3>2. QED BY <1>11, <1>13, <3>1 DEF Undone
  <2>4. QED BY <1>7, <2>1, <2>2, <2>3 DEF Leads
<1>14. f \in Sound /\ Quiet(e, f)
  BY <1>1, <1>5, <1>6, <1>a DEF Sound, Quiet
<1>15. CASE Clean(f)
  <2>1. e.queue = NoQueue /\ m.queue = NoQueue /\ f.queue = NoQueue
    BY <1>5, <1>6, <1>9, <1>11, <1>15, <1>a
  <2>2. m.undo = Append(e.undo, out) /\ m.modified = e.modified + 1 /\ e.slips \subseteq m.slips
    BY <1>5, <1>9
  <2>3. Follows(e, m)
    BY <1>1, <1>5, <1>9, <1>12, <1>15, <2>1, <2>2, OneMore
  <2>4. f.undo = Append(m.undo, in) /\ f.modified = m.modified + 1 /\ m.slips \subseteq f.slips
    BY <1>6, <1>9, <1>a
  <2>5. Follows(m, f)
    BY <1>6, <1>9, <1>13, <1>15, <2>1, <2>4, OneMore
  <2>6. Follows(e, f)
    BY <1>1, <1>6, <1>9, <2>3, <2>5, FollowsThrough
  <2>7. QED BY <1>6, <1>14, <2>6 DEF After, f, s
<1>16. CASE ~Clean(f)
  BY <1>6, <1>10, <1>14, <1>16, NothingFollows DEF After, f, s
<1>17. QED BY <1>15, <1>16

\* char_insert of an ordinary character.
LEMMA CharFacts ==
  ASSUME NEW e \in Sound, NEW c \in Char, e.dot \in 1 .. Len(e.text) + 1
  PROVE  LET f == CharInsert(e, c)
         IN After(e, f) /\ f.dot = e.dot + 1 /\ Len(f.text) = Len(e.text) + 1
<1> DEFINE l == IF c = "nl" THEN Commit(e) ELSE e
           s == <<c>>
           t == Paste(e.text, e.dot, s)
           m == [l EXCEPT !.text = Paste(@, e.dot, s), !.dot = @ + 1]
           f == Slipped(m, TRUE, "typed")
<1>1. CharInsert(e, c) = f
  BY DEF CharInsert
<1>2. e \in Wide /\ e.queue.len < QueueMax /\ e.text \in Seq(Char) /\ Len(e.text) \in Nat /\ QueueMax \in Nat /\ QueueMax > 0
  BY SoundIsWide, WideFields, Limits
<1>3. /\ l \in Wide /\ l.text = e.text /\ l.dot = e.dot /\ e.slips \subseteq l.slips /\ Quiet(e, l) /\ l.queue.len < QueueMax
  <2>1. CASE c = "nl"
    <3>1. l = Commit(e)
      BY <2>1
    <3>2. l \in Wide /\ l.queue = NoQueue /\ SameElse(e, l) /\ Follows(e, l) /\ Quiet(e, l)
      BY <1>2, <3>1, CommitFacts
    <3> HIDE DEF l
    <3>3. QED BY <1>2, <3>2, NoQueueGood DEF SameElse, Follows
  <2>2. CASE c # "nl"
    BY <1>2, <2>2 DEF Quiet
  <2>3. QED BY <2>1, <2>2
<1> HIDE DEF l
<1>4. t \in Seq(Char) /\ Len(t) = Len(e.text) + 1
  <2>1. s \in Seq(Char) /\ Len(s) = 1
    OBVIOUS
  <2> HIDE DEF s
  <2>2. t \in Seq(Char) /\ Len(t) = Len(e.text) + Len(s)
    BY ZenonT(60), <1>2, <2>1, PasteFacts
  <2> HIDE DEF t
  <2>3. QED BY <2>1, <2>2
<1>5. m \in Wide /\ m.text = t /\ m.dot = e.dot + 1 /\ m.queue = l.queue /\ m.slips = l.slips
  <2>1. m = [l EXCEPT !.text = t, !.dot = e.dot + 1]
    BY <1>3 DEF Wide
  <2> HIDE DEF t
  <2>2. e.dot + 1 \in Int
    BY <1>2
  <2>3. QED BY ZenonT(60), <1>3, <1>4, <2>1, <2>2 DEF Wide
<1> HIDE DEF m, t
<1>6. /\ f \in Wide /\ f.text = t /\ f.dot = e.dot + 1 /\ f.queue = l.queue /\ f.slips = l.slips \cup {"typed"}
  <2>1. TRUE \in BOOLEAN /\ "typed" \in Slip
    BY DEF Slip
  <2>2. f \in Wide /\ f.queue = m.queue /\ SameElse(m, f) /\ f.slips = m.slips \cup {"typed"}
    BY <1>5, <2>1, SlippedFacts
  <2> HIDE DEF f
  <2>3. QED BY <1>5, <2>2 DEF SameElse
<1> HIDE DEF f
<1>7. "typed" \in f.slips /\ e.slips \subseteq f.slips
  BY <1>3, <1>6
<1>8. ~Clean(f)
  BY <1>7, CleanFacts
<1>9. After(e, f)
  BY <1>3, <1>6, <1>7, <1>8, NothingFollows DEF After, Sound, Quiet
<1>10. QED BY <1>1, <1>4, <1>6, <1>9

\* The cursor moved, and the queue committed.
LEMMA DotToFacts ==
  ASSUME NEW e \in Sound, NEW p \in Int
  PROVE  LET f == DotTo(e, p)
         IN After(e, f) /\ f.queue = NoQueue /\ f.text = e.text /\ f.dot = p
<1> DEFINE c == Commit(e)
<1>1. c \in Wide /\ c.queue = NoQueue /\ SameElse(e, c) /\ Follows(e, c) /\ Quiet(e, c)
  BY SoundIsWide, CommitFacts
<1>2. DotTo(e, p) = [c EXCEPT !.dot = p]
  BY DEF DotTo
<1> HIDE DEF c
<1>3. c \in Sound /\ After(e, c)
  BY <1>1, Limits, NoQueueGood DEF Sound, After
<1> DEFINE f == [c EXCEPT !.dot = p]
<1>4. After(c, f) /\ f.dot = p /\ f.queue = c.queue /\ f.text = c.text
  BY <1>3, AfterDot
<1> HIDE DEF f
<1>5. After(e, f)
  BY <1>3, <1>4, AfterThrough
<1>6. QED BY <1>1, <1>2, <1>4, <1>5 DEF SameElse, f

LEMMA CommitAfter ==
  ASSUME NEW e \in Sound
  PROVE  After(e, Commit(e)) /\ Commit(e).queue = NoQueue /\ Commit(e).text = e.text /\ Commit(e).dot = e.dot
<1> DEFINE c == Commit(e)
<1>1. c \in Wide /\ c.queue = NoQueue /\ SameElse(e, c) /\ Follows(e, c) /\ Quiet(e, c)
  BY SoundIsWide, CommitFacts
<1> HIDE DEF c
<1>2. c \in Sound
  BY <1>1, Limits, NoQueueGood DEF Sound
<1>3. QED BY <1>1, <1>2 DEF After, SameElse, c

\* A single character gathers in the queue, and the text becomes t.
Joins(q, kind, at) == q.len = 0 \/ at = (IF kind = "del" THEN q.at - 1 ELSE q.at + q.len)
NextQueue(q, kind, at, chars) ==
  IF kind = "del" THEN [kind |-> kind, at |-> at, len |-> q.len + 1, chars |-> chars \o q.chars]
  ELSE [kind |-> kind, at |-> IF q.len = 0 THEN at ELSE q.at, len |-> q.len + 1, chars |-> << >>]

Grows(kind, at, chars, u, t) ==
  \A q \in [kind : {"none", "ins", "del"}, at : Nat, len : Nat, chars : Seq(Char)] : \A h \in Texts :
    GoodQueue(q) /\ q.kind \in {kind, "none"} /\ Joins(q, kind, at) /\ FromTop(q, u, h)
      => FromTop(NextQueue(q, kind, at, chars), t, h)

Enqueued(e, l, t, d) ==
  /\ l \in Wide /\ l.text = e.text /\ l.dot = e.dot
  /\ LET f == [l EXCEPT !.text = t, !.dot = d] IN f \in Sound /\ Follows(e, f) /\ f.text = t /\ f.dot = d

LEMMA EnqueueFacts ==
  ASSUME NEW e \in Sound, NEW kind \in {"ins", "del"}, NEW at \in Nat, NEW chars \in Seq(Char),
         NEW t \in Seq(Char), NEW d \in Int, Clean(e) => Grows(kind, at, chars, e.text, t)
  PROVE  Enqueued(e, Enqueue(e, kind, at, chars), t, d)
<1> DEFINE e1 == IF e.queue.kind \notin {kind, "none"} THEN Commit(e) ELSE e
           q == e1.queue
           nq == NextQueue(q, kind, at, chars)
           s == Slipped(e1, ~Joins(q, kind, at), "moved")
           e2 == [s EXCEPT !.queue = nq]
           l == IF q.len + 1 = QueueMax THEN Commit(e2) ELSE e2
           f == [l EXCEPT !.text = t, !.dot = d]
           m == [e2 EXCEPT !.text = t]
<1>1. Enqueue(e, kind, at, chars) = l
  BY DEF Enqueue, Joins, NextQueue
<1>2. e \in Wide /\ QueueMax \in Nat /\ QueueMax > 0
  BY SoundIsWide, Limits
<1>3. After(e, e1) /\ e1.text = e.text /\ e1.dot = e.dot /\ q.kind \in {kind, "none"}
  <2>1. CASE e.queue.kind \notin {kind, "none"}
    <3>1. e1 = Commit(e)
      BY <2>1
    <3>2. After(e, e1) /\ q = NoQueue /\ e1.text = e.text /\ e1.dot = e.dot
      BY <3>1, CommitAfter
    <3> HIDE DEF e1
    <3>3. QED BY <3>2, NoQueueGood
  <2>2. CASE e.queue.kind \in {kind, "none"}
    <3>1. e1 = e
      BY <2>2
    <3>2. Shown(e.text) = Shown(e.text) /\ e.slips \subseteq e.slips
      OBVIOUS
    <3>3. After(e, e)
      BY <1>2, <3>2, AfterSame
    <3> HIDE DEF e1
    <3>4. QED BY <2>2, <3>1, <3>3
  <2>3. QED BY <2>1, <2>2
<1> HIDE DEF e1
<1>4. e1 \in Sound /\ e1 \in Wide /\ e.slips \subseteq e1.slips /\ q.len < QueueMax
  BY <1>3, SoundIsWide DEF After, Follows
<1>5. /\ q \in [kind : {"none", "ins", "del"}, at : Nat, len : Nat, chars : Seq(Char)] /\ GoodQueue(q)
      /\ q.len \in Nat /\ q.at \in Nat /\ q.chars \in Seq(Char)
  BY <1>4, WideFields DEF GoodQueue
<1> HIDE DEF q
<1>6. nq \in [kind : {"none", "ins", "del"}, at : Nat, len : Nat, chars : Seq(Char)] /\ GoodQueue(nq) /\ nq.len = q.len + 1
  <2>1. chars \o q.chars \in Seq(Char)
    BY <1>5, CatFacts
  <2>2. q.len + 1 \in Nat /\ q.len + 1 # 0
    BY <1>5
  <2>3. << >> \in Seq(Char)
    OBVIOUS
  <2>4. CASE kind = "del"
    BY <2>1, <2>2, <2>4 DEF NextQueue, GoodQueue
  <2>5. CASE kind = "ins"
    BY <1>5, <2>2, <2>3, <2>5 DEF NextQueue, GoodQueue
  <2>6. QED BY <2>4, <2>5
<1> HIDE DEF nq
<1>7. /\ s \in Wide /\ s.undo = e1.undo /\ s.queue = q /\ s.modified = e1.modified /\ s.text = e.text /\ s.dot = e.dot
      /\ s.slips = (IF ~Joins(q, kind, at) THEN e1.slips \cup {"moved"} ELSE e1.slips)
  <2>1. (~Joins(q, kind, at)) \in BOOLEAN /\ "moved" \in Slip
    BY DEF Joins, Slip
  <2>2. /\ s \in Wide /\ s.undo = e1.undo /\ s.queue = e1.queue /\ s.modified = e1.modified /\ SameElse(e1, s)
        /\ s.slips = (IF ~Joins(q, kind, at) THEN e1.slips \cup {"moved"} ELSE e1.slips)
    BY <1>4, <2>1, SlippedFacts
  <2> HIDE DEF s
  <2>3. QED BY <1>3, <2>2 DEF SameElse, q
<1> HIDE DEF s
<1>8. /\ e2 \in Wide /\ e2.undo = s.undo /\ e2.queue = nq /\ e2.modified = s.modified /\ e2.text = e.text /\ e2.dot = e.dot
      /\ e2.slips = s.slips
  BY <1>6, <1>7 DEF Wide
<1> HIDE DEF e2
<1>9. /\ m \in Wide /\ m.undo = e1.undo /\ m.queue = nq /\ m.modified = e1.modified /\ m.text = t /\ m.slips = s.slips
  BY <1>7, <1>8 DEF Wide
<1> HIDE DEF m
<1>10. Follows(e1, m)
  <2>1. e1.slips \subseteq m.slips
    BY <1>7, <1>9
  <2>2. ASSUME Clean(m), NEW h \in Texts, FromTop(e1.queue, e1.text, h) PROVE FromTop(m.queue, m.text, h)
    <3>1. "moved" \notin m.slips
      BY <2>2, CleanFacts
    <3>2. Joins(q, kind, at)
      BY <1>7, <1>9, <3>1
    <3>3. Clean(e)
      BY <1>4, <2>1, <2>2 DEF Clean
    <3>4. Grows(kind, at, chars, e.text, t)
      BY <3>3
    <3>5. FromTop(q, e.text, h)
      BY <1>3, <2>2 DEF q
    <3>6. FromTop(nq, t, h)
      BY <1>3, <1>5, <2>2, <3>2, <3>4, <3>5 DEF Grows, nq
    <3>7. QED BY <1>9, <3>6
  <2>3. QED BY <1>4, <1>9, <2>1, <2>2, QueueMore
<1>11. Follows(e, m)
  BY <1>2, <1>3, <1>4, <1>9, <1>10, FollowsThrough DEF After
<1>12. CASE q.len + 1 = QueueMax
  <2>1. l = Commit(e2)
    BY <1>12
  <2>2. e2.queue.len # 0
    BY <1>5, <1>6, <1>8
  <2>3. PICK entry : Committed(e2, l, entry)
    BY <1>8, <2>1, <2>2, CommitEntry
  <2> HIDE DEF l
  <2>4. /\ l \in Wide /\ entry \in Entry /\ l.undo = Append(e2.undo, entry) /\ l.modified = e2.modified + 1
        /\ l.queue = NoQueue /\ l.text = e.text /\ l.dot = e.dot /\ e2.slips \subseteq l.slips
    BY <1>8, <2>3 DEF Committed, SameElse
  <2>5. /\ f \in Wide /\ f.undo = l.undo /\ f.modified = l.modified /\ f.queue = NoQueue /\ f.text = t /\ f.dot = d /\ f.slips = l.slips
    BY <2>4 DEF Wide
  <2> HIDE DEF f
  <2>6. f.undo = Append(m.undo, entry) /\ f.modified = m.modified + 1 /\ m.slips \subseteq f.slips
    BY <1>7, <1>8, <1>9, <2>4, <2>5
  <2>7. ASSUME Clean(f), NEW h \in Texts, FromTop(m.queue, m.text, h) PROVE Leads(entry, Shown(f.text), h)
    <3>1. Clean(l)
      BY <2>5, <2>7 DEF Clean
    <3>2. entry = Waiting(m.queue)
      BY <1>8, <1>9, <2>3, <3>1 DEF Committed
    <3>3. m.queue.len # 0
      BY <1>8, <1>9, <2>2
    <3>4. QED BY <1>9, <2>5, <2>7, <3>2, <3>3 DEF FromTop
  <2>8. Follows(m, f)
    BY <1>9, <2>4, <2>5, <2>6, <2>7, OneMore
  <2>9. Follows(e, f)
    BY <1>2, <1>9, <1>11, <2>5, <2>8, FollowsThrough
  <2>10. f \in Sound
    BY <1>2, <2>5, NoQueueGood DEF Sound
  <2>11. QED BY <1>1, <2>4, <2>5, <2>9, <2>10 DEF f, l, Enqueued
<1>13. CASE q.len + 1 # QueueMax
  <2>1. l = e2
    BY <1>13
  <2> HIDE DEF l
  <2>2. /\ f \in Wide /\ f.undo = m.undo /\ f.modified = m.modified /\ f.queue = m.queue /\ f.text = t /\ f.dot = d /\ f.slips = m.slips
    BY <1>7, <1>8, <1>9, <2>1 DEF Wide
  <2> HIDE DEF f
  <2>3. Follows(m, f)
    <3>1. Shown(f.text) = Shown(m.text) /\ m.slips \subseteq f.slips
      BY <1>9, <2>2
    <3>2. QED BY <1>9, <2>2, <3>1, SameFollows
  <2>4. Follows(e, f)
    BY <1>2, <1>9, <1>11, <2>2, <2>3, FollowsThrough
  <2>5. f \in Sound
    BY <1>2, <1>4, <1>5, <1>6, <1>9, <1>13, <2>2 DEF Sound
  <2>6. QED BY <1>1, <1>8, <2>1, <2>2, <2>4, <2>5 DEF f, l, Enqueued
<1>14. QED BY <1>12, <1>13

\* Backspace.
LEMMA BackspaceFacts ==
  ASSUME NEW e \in Sound, e.dot \in 1 .. Len(e.text) + 1
  PROVE  Backspace(e) \in Sound /\ Follows(e, Backspace(e))
<1>1. e \in Wide /\ e.text \in Seq(Char) /\ Len(e.text) \in Nat /\ e.queue.len < QueueMax
  BY SoundIsWide, WideFields
<1>2. CASE e.dot = 1
  <2>1. Backspace(e) = e
    BY <1>2 DEF Backspace
  <2>2. Shown(e.text) = Shown(e.text) /\ e.slips \subseteq e.slips
    OBVIOUS
  <2>3. Follows(e, e)
    BY <1>1, <2>2, SameFollows
  <2>4. QED BY <2>1, <2>3
<1>3. CASE e.dot # 1
  <2> DEFINE p == e.dot - 1
             b == Slipped(e, Len(e.text) = 1, "trimmed")
             s == Stretch(b, p, p, "nl")
             l == Record(b, "queued", "del", p, p - p + 1, s)
             t == Cut(e.text, p, p)
             d == Max({1, Min({p, Len(t)})})
             f == [l EXCEPT !.text = t, !.dot = d]
  <2>a. p \in 1 .. Len(e.text)
    BY <1>1, <1>3
  <2> HIDE DEF p
  <2>1. p \in 1 .. Len(e.text) /\ p \in Int /\ p \in Nat /\ 1 <= p /\ p <= p + 1 /\ p <= Len(e.text) /\ p - p + 1 = 1
    BY <1>1, <2>a
  <2>2. /\ b \in Wide /\ b.undo = e.undo /\ b.queue = e.queue /\ b.modified = e.modified /\ b.text = e.text
        /\ b.slips = (IF Len(e.text) = 1 THEN e.slips \cup {"trimmed"} ELSE e.slips) /\ Follows(e, b)
    <3>1. (Len(e.text) = 1) \in BOOLEAN /\ "trimmed" \in Slip
      BY DEF Slip
    <3>2. /\ b \in Wide /\ b.undo = e.undo /\ b.queue = e.queue /\ b.modified = e.modified /\ SameElse(e, b)
          /\ b.slips = (IF Len(e.text) = 1 THEN e.slips \cup {"trimmed"} ELSE e.slips) /\ Follows(e, b)
      BY <1>1, <3>1, SlippedFacts
    <3>3. QED BY <3>2 DEF SameElse
  <2>3. Backspace(e) = HoleDelete(b, p, p, "queued", "nl")
    BY <1>3 DEF Backspace, p
  <2> HIDE DEF b
  <2>4. b \in Sound
    BY <1>1, <2>2 DEF Sound
  <2>5. s \in Seq(Char) /\ Len(s) = 1 /\ s[1] = e.text[p]
    <3>1. "nl" \in Char
      BY DEF Char
    <3>2. /\ s \in Seq(Char) /\ Len(s) = p - p + 1
          /\ 1 <= p /\ p <= Len(b.text) => \A i \in 1 .. p - p + 1 : s[i] = b.text[p + i - 1]
      BY <2>1, <2>2, <3>1, SeenRange
    <3> HIDE DEF s
    <3>3. p + 1 - 1 = p /\ 1 \in 1 .. p - p + 1
      BY <2>1
    <3>4. QED BY <2>1, <2>2, <3>2, <3>3
  <2> HIDE DEF s
  <2>6. s = <<e.text[p]>>
    BY <2>5
  <2>7. /\ t \in Seq(Char) /\ Len(t) = Len(e.text) - 1
    <3>1. t \in Seq(Char) /\ Len(t) = Len(e.text) - (p - p + 1)
      BY <1>1, <2>1, CutFacts
    <3> HIDE DEF t
    <3>2. QED BY <2>1, <3>1
  <2>8. d \in Int
    <3> HIDE DEF t
    <3>1. Len(t) \in Int
      BY <2>7
    <3>2. Min({p, Len(t)}) \in Int
      BY <2>1, <3>1, MinTwo
    <3> DEFINE n == Min({p, Len(t)})
    <3> HIDE DEF n
    <3>3. n \in Int /\ d = Max({1, n})
      BY <3>2 DEF n
    <3> HIDE DEF d
    <3>4. 1 \in Int
      OBVIOUS
    <3>5. Max({1, n}) = IF 1 <= n THEN n ELSE 1
      BY <3>3, <3>4, MaxTwo
    <3>6. QED BY <3>3, <3>5
  <2>9. l = Enqueue(b, "del", p, s)
    BY DEF Record
  <2>10. ASSUME Clean(b) PROVE Grows("del", p, s, b.text, t)
    <3>1. Len(e.text) # 1
      <4>1. "trimmed" \notin b.slips
        BY <2>10, CleanFacts
      <4>2. QED BY <2>2, <4>1
    <3>2. Len(t) # 0 /\ Len(e.text) # 0
      BY <1>1, <2>1, <2>7, <3>1
    <3>3. Shown(t) = t /\ Shown(b.text) = e.text
      BY <1>1, <2>2, <2>7, <3>2 DEF Shown
    <3> SUFFICES ASSUME NEW q \in [kind : {"none", "ins", "del"}, at : Nat, len : Nat, chars : Seq(Char)], NEW h \in Texts,
                        GoodQueue(q), q.kind \in {"del", "none"}, Joins(q, "del", p), FromTop(q, b.text, h)
                 PROVE  FromTop(NextQueue(q, "del", p, s), t, h)
      BY DEF Grows
    <3> DEFINE nq == NextQueue(q, "del", p, s)
               w == Waiting(nq)
    <3>4. q.len \in Nat /\ q.at \in Nat /\ q.chars \in Seq(Char)
      OBVIOUS
    <3>5. nq.len # 0 /\ w.kind = "del" /\ w.at = p /\ w.chars = s \o q.chars
      BY <3>4 DEF NextQueue, Waiting
    <3> HIDE DEF w
    <3>6. HasPlace(w, t)
      BY <1>1, <2>1, <2>7, <3>5 DEF HasPlace
    <3>7. Undone(w, t) = Paste(t, p, s \o q.chars)
      BY <3>5 DEF Undone
    <3>8. Paste(t, p, s \o q.chars) = Paste(e.text, p + 1, q.chars)
      BY <1>1, <2>1, <2>6, <3>4, PasteOfMore DEF t
    <3>9. Paste(e.text, p + 1, q.chars) = h
      <4>1. CASE q.len = 0
        <5>1. q.chars = << >> /\ h = e.text
          BY <3>3, <4>1 DEF GoodQueue, NoQueue, FromTop
        <5>2. Paste(t, p, s) = e.text
          <6>1. Paste(Cut(e.text, p, p), p, s) = e.text
            BY <1>1, <2>1, <2>5, PasteOfOne
          <6>2. QED BY <6>1 DEF t
        <5>3. s \o << >> = s
          BY <2>5
        <5>4. QED BY <3>8, <5>1, <5>2, <5>3
      <4>2. CASE q.len # 0
        <5>1. Leads(Waiting(q), e.text, h)
          BY <3>3, <4>2 DEF FromTop
        <5>2. q.kind = "del" /\ q.at = p + 1
          BY <2>1, <3>4, <4>2 DEF GoodQueue, Joins
        <5>3. QED BY <5>1, <5>2 DEF Leads, Undone, Waiting
      <4>3. QED BY <4>1, <4>2
    <3>10. Leads(w, t, h)
      BY <3>6, <3>7, <3>8, <3>9 DEF Leads
    <3>11. QED BY <3>3, <3>5, <3>10 DEF FromTop, w
  <2>11. /\ l \in Wide /\ l.text = b.text /\ l.dot = b.dot /\ f \in Sound /\ Follows(b, f)
    <3> HIDE DEF t, d
    <3>1. "del" \in {"ins", "del"}
      OBVIOUS
    <3>2. Enqueued(b, Enqueue(b, "del", p, s), t, d)
      BY <2>1, <2>4, <2>5, <2>7, <2>8, <2>10, <3>1, EnqueueFacts
    <3> HIDE DEF l
    <3>3. QED BY <2>9, <3>2 DEF Enqueued
  <2>12. HoleDelete(b, p, p, "queued", "nl") = f
    <3>1. ~(p < 1 \/ p > Len(b.text))
      BY <1>1, <2>1, <2>2
    <3>2. QED BY <2>2, <3>1 DEF HoleDelete, s
  <2> HIDE DEF f
  <2>13. Follows(e, f)
    BY <1>1, <2>2, <2>11, SoundIsWide, FollowsThrough
  <2>14. QED BY <2>3, <2>11, <2>12, <2>13
<1>4. QED BY <1>2, <1>3

\* ^V and a character, which gathers in the queue.
LEMMA LiteralFacts ==
  ASSUME NEW e \in Sound, NEW c \in Char, e.dot \in 1 .. Len(e.text) + 1, Clean(e) => e.text # << >>
  PROVE  LET f == LiteralInsert(e, c, "queued")
         IN f \in Sound /\ Follows(e, f)
<1> DEFINE p == e.dot
           s == <<c>>
           l == Record(e, "queued", "ins", p, Len(s), << >>)
           t == Paste(e.text, p, s)
           f == [l EXCEPT !.text = t, !.dot = p + 1]
<1>1. e \in Wide /\ e.text \in Seq(Char) /\ Len(e.text) \in Nat /\ p \in Nat /\ p \in 1 .. Len(e.text) + 1
  BY SoundIsWide, WideFields
<1>2. s \in Seq(Char) /\ Len(s) = 1
  OBVIOUS
<1>3. LiteralInsert(e, c, "queued") = [[l EXCEPT !.text = Paste(@, p, s)] EXCEPT !.dot = @ + 1]
  BY DEF LiteralInsert, StringInsert
<1> HIDE DEF s
<1>4. t \in Seq(Char) /\ Len(t) = Len(e.text) + 1
  <2>1. t \in Seq(Char) /\ Len(t) = Len(e.text) + Len(s)
    BY <1>1, <1>2, PasteFacts
  <2> HIDE DEF t
  <2>2. QED BY <1>2, <2>1
<1>5. l = Enqueue(e, "ins", p, << >>)
  BY DEF Record
<1>6. ASSUME Clean(e) PROVE Grows("ins", p, << >>, e.text, t)
  <2>1. Shown(t) = t /\ Shown(e.text) = e.text
    <3>1. Len(t) # 0
      BY <1>1, <1>4
    <3>2. QED BY <1>4, <1>6, <3>1 DEF Shown
  <2> SUFFICES ASSUME NEW q \in [kind : {"none", "ins", "del"}, at : Nat, len : Nat, chars : Seq(Char)], NEW h \in Texts,
                      GoodQueue(q), q.kind \in {"ins", "none"}, Joins(q, "ins", p), FromTop(q, e.text, h)
               PROVE  FromTop(NextQueue(q, "ins", p, << >>), t, h)
    BY DEF Grows
  <2> DEFINE nq == NextQueue(q, "ins", p, << >>)
             w == Waiting(nq)
  <2>2. q.len \in Nat /\ q.at \in Nat
    OBVIOUS
  <2>3. nq.len # 0 /\ w.kind = "ins" /\ w.at = (IF q.len = 0 THEN p ELSE q.at) /\ w.len = q.len + 1
    BY <2>2 DEF NextQueue, Waiting
  <2> HIDE DEF w
  <2>4. Leads(w, t, h)
    <3>1. CASE q.len = 0
      <4>1. h = e.text /\ w.at = p /\ w.len = 1
        BY <2>1, <2>3, <3>1 DEF FromTop
      <4>2. HasPlace(w, t)
        BY <1>1, <1>4, <2>3, <4>1 DEF HasPlace
      <4>3. Undone(w, t) = Cut(t, p, p + Len(s) - 1)
        BY <1>2, <2>3, <4>1 DEF Undone
      <4>4. Cut(t, p, p + Len(s) - 1) = e.text
        BY <1>1, <1>2, CutOfPaste DEF t
      <4>5. QED BY <4>1, <4>2, <4>3, <4>4 DEF Leads
    <3>2. CASE q.len # 0
      <4>1. q.kind = "ins" /\ p = q.at + q.len /\ w.at = q.at
        BY <2>3, <3>2 DEF GoodQueue, Joins
      <4>2. Leads(Waiting(q), e.text, h)
        BY <2>1, <3>2 DEF FromTop
      <4>3. q.at >= 1 /\ q.at + q.len <= Len(e.text) + 1 /\ h = Cut(e.text, q.at, q.at + q.len - 1)
        BY <4>1, <4>2 DEF Leads, HasPlace, Undone, Waiting
      <4>4. HasPlace(w, t)
        <5> DEFINE a == q.at
                   n == q.len
                   k == Len(e.text)
        <5>1. a \in Nat /\ n \in Nat /\ k \in Nat /\ a >= 1 /\ a + n <= k + 1
          BY <1>1, <2>2, <4>3
        <5>2. w.kind # "del" /\ w.at = a /\ w.len = n + 1 /\ Len(t) = k + 1
          BY <1>4, <2>3, <4>1
        <5> HIDE DEF a, n, k
        <5>3. a + (n + 1) <= k + 1 + 1
          BY ONLY <5>1
        <5>4. QED BY <5>1, <5>2, <5>3 DEF HasPlace
      <4>5. Undone(w, t) = Cut(t, q.at, q.at + q.len)
        <5>1. q.at + (q.len + 1) - 1 = q.at + q.len
          BY <2>2
        <5>2. QED BY <2>3, <4>1, <5>1 DEF Undone
      <4>6. Cut(t, q.at, q.at + q.len) = Cut(e.text, q.at, q.at + q.len - 1)
        <5>1. q.len >= 1
          BY <2>2, <3>2
        <5>2. Cut(Paste(e.text, q.at + q.len, s), q.at, q.at + q.len) = Cut(e.text, q.at, q.at + q.len - 1)
          <6> DEFINE u == e.text
                     a == q.at
                     n == q.at + q.len
          <6>1. /\ u \in Seq(Char) /\ s \in Seq(Char) /\ Len(s) = 1 /\ a \in Nat /\ n \in Nat /\ a >= 1 /\ a < n
                /\ n <= Len(u) + 1
            BY <1>1, <1>2, <2>2, <4>3, <5>1
          <6> HIDE DEF u, a, n
          <6>2. Cut(Paste(u, n, s), a, n) = Cut(u, a, n - 1)
            BY <6>1, CutOfMore
          <6>3. QED BY <6>2 DEF u, a, n
        <5>3. t = Paste(e.text, q.at + q.len, s)
          BY <4>1 DEF t
        <5>4. QED BY <5>2, <5>3
      <4>7. QED BY <4>3, <4>4, <4>5, <4>6 DEF Leads
    <3>3. QED BY <3>1, <3>2
  <2>5. QED BY <2>1, <2>3, <2>4 DEF FromTop, w
<1>7. l \in Wide /\ l.text = e.text /\ l.dot = e.dot /\ f \in Sound /\ Follows(e, f)
  <2> HIDE DEF t
  <2>1. "ins" \in {"ins", "del"} /\ << >> \in Seq(Char) /\ p + 1 \in Int
    BY <1>1
  <2> DEFINE d == p + 1
  <2> HIDE DEF d
  <2>2. Enqueued(e, Enqueue(e, "ins", p, << >>), t, d)
    BY <1>1, <1>4, <1>6, <2>1, EnqueueFacts DEF d
  <2> HIDE DEF l
  <2>3. QED BY <1>5, <2>2 DEF Enqueued, d
<1> HIDE DEF l
<1>8. LiteralInsert(e, c, "queued") = f
  BY <1>3, <1>7 DEF Wide
<1>9. QED BY <1>7, <1>8

-----------------------------------------------------------------------------
(* Lines, and where a command leaves the cursor. *)

LEMMA LineStartFacts ==
  ASSUME NEW t \in Seq(Char), NEW p \in Int
  PROVE  LineStart(t, p) \in Nat /\ LineStart(t, p) >= 1 /\ (p >= 1 => LineStart(t, p) <= p)
<1> DEFINE S == {1} \cup { i \in 2 .. p : t[i - 1] = "nl" }
           n == IF p >= 1 THEN p ELSE 1
<1>1. n \in Nat /\ S \subseteq 0 .. n /\ S # {} /\ \A y \in S : y \in Nat /\ y >= 1 /\ y <= n
  OBVIOUS
<1>2. LineStart(t, p) = Max(S)
  BY DEF LineStart
<1> HIDE DEF S
<1>3. Max(S) \in S
  BY <1>1, MaxFacts
<1>4. QED BY <1>1, <1>2, <1>3

LEMMA LineEndFacts ==
  ASSUME NEW t \in Seq(Char), NEW p \in Nat, p >= 1
  PROVE  /\ LineEnd(t, p) \in Nat /\ LineEnd(t, p) >= p /\ (LineEnd(t, p) <= Len(t) \/ LineEnd(t, p) = p)
         /\ LineEnd(t, p) < Len(t) => t[LineEnd(t, p)] = "nl"
<1>1. Len(t) \in Nat
  OBVIOUS
<1>2. CASE p >= Len(t)
  <2>1. LineEnd(t, p) = p
    BY <1>2 DEF LineEnd
  <2>2. QED BY <1>1, <1>2, <2>1
<1>3. CASE ~(p >= Len(t))
  <2> DEFINE n == Len(t)
             S == {n} \cup { i \in p .. n : t[i] = "nl" }
  <2>1. LineEnd(t, p) = Min(S)
    BY <1>3 DEF LineEnd
  <2>2. n \in Nat /\ p < n
    BY <1>1, <1>3
  <2> HIDE DEF n
  <2>3. S \subseteq Nat /\ S # {} /\ \A y \in S : y \in Nat /\ y >= p /\ y <= n /\ (y < n => t[y] = "nl")
    BY <2>2
  <2> HIDE DEF S
  <2>4. Min(S) \in S
    BY <2>3, MinFacts
  <2>5. QED BY <2>1, <2>2, <2>3, <2>4 DEF n
<1>4. QED BY <1>2, <1>3

LEMMA LineMoves ==
  ASSUME NEW t \in Seq(Char), NEW p \in 1 .. Len(t) + 1
  PROVE  NextLine(t, p) \in 1 .. Len(t) + 1 /\ PrevLine(t, p) \in Int
<1>1. Len(t) \in Nat /\ p \in Nat /\ p >= 1 /\ p \in Int
  OBVIOUS
<1>2. LineEnd(t, p) \in Nat /\ LineEnd(t, p) >= p /\ (LineEnd(t, p) <= Len(t) \/ LineEnd(t, p) = p)
  BY <1>1, LineEndFacts
<1>3. NextLine(t, p) \in 1 .. Len(t) + 1
  BY <1>1, <1>2 DEF NextLine
<1>4. LineStart(t, p) \in Nat
  BY <1>1, LineStartFacts
<1>5. LineStart(t, LineStart(t, p) - 1) \in Nat
  <2>1. LineStart(t, p) - 1 \in Int
    BY <1>4
  <2>2. QED BY <2>1, LineStartFacts
<1>6. PrevLine(t, p) \in Int
  BY <1>5 DEF PrevLine
<1>7. QED BY <1>3, <1>6

LEMMA DollarFacts ==
  ASSUME NEW e \in Sound, e.dot \in 1 .. Len(e.text) + 1, NEW g \in Char
  PROVE  DollarLine(e, g) \in Int
<1>1. e.text \in Seq(Char) /\ Len(e.text) \in Nat /\ e.dot \in Nat /\ e.dot >= 1
  BY SoundIsWide, WideFields
<1>2. LineEnd(e.text, e.dot) \in Nat
  BY <1>1, LineEndFacts
<1>3. QED BY <1>2 DEF DollarLine

LEMMA BlanksFacts ==
  ASSUME NEW e \in Sound, e.dot \in Nat
  PROVE  LET f == SkipBlanks(e)
         IN After(e, f) /\ f.queue = e.queue /\ f.text = e.text /\ f.dot \in Nat /\ f.dot >= e.dot
<1> DEFINE ends == { p \in e.dot .. Len(e.text) : e.text[p] # "sp" }
           n == Len(e.text)
           d == IF ends # {} THEN Min(ends) ELSE Max({e.dot, n})
           f == [e EXCEPT !.dot = d]
<1>1. SkipBlanks(e) = f
  BY DEF SkipBlanks
<1>2. n \in Nat
  BY SoundIsWide, WideFields
<1> HIDE DEF n
<1>3. ends \subseteq Nat /\ \A y \in ends : y >= e.dot
  BY <1>2 DEF n
<1> HIDE DEF ends
<1>4. d \in Nat /\ d >= e.dot
  <2>1. CASE ends # {}
    <3>1. Min(ends) \in ends
      BY <1>3, <2>1, MinFacts
    <3>2. QED BY <1>3, <2>1, <3>1
  <2>2. CASE ends = {}
    <3>1. e.dot \in Int /\ n \in Int
      BY <1>2
    <3>2. Max({e.dot, n}) = IF e.dot <= n THEN n ELSE e.dot
      BY <3>1, MaxTwo
    <3>3. QED BY <1>2, <2>2, <3>2
  <2>3. QED BY <2>1, <2>2
<1> HIDE DEF d
<1>5. d \in Int
  BY <1>4
<1>6. After(e, f) /\ f.dot = d /\ f.queue = e.queue /\ f.text = e.text
  BY <1>5, AfterDot
<1>7. QED BY <1>1, <1>4, <1>6

\* What every command ends with.
LEMMA SettledFacts ==
  ASSUME NEW e \in Sound, NEW m, NEW g \in Char
  PROVE  LET f == Settled(e, m, g)
         IN After(e, f) /\ f.text # << >> /\ f.dot \in 1 .. Len(f.text) + 1
<1> DEFINE c == Commit(e)
           w == <<"nl">>
           o == [c EXCEPT !.text = w, !.dot = 1]
           b == Max({1, Min({e.dot, Len(e.text)})})
           l == IF e.text = << >> THEN o
                ELSE IF e.dot = Len(e.text) + 1 THEN e ELSE [e EXCEPT !.dot = b]
           f == IF m = "command" /\ Seen(l, l.dot, g) = "nl" /\ l.dot > LineStart(l.text, l.dot)
                THEN [l EXCEPT !.dot = @ - 1] ELSE l
<1>1. Settled(e, m, g) = f
  <2>1. [e EXCEPT !.dot = Max({1, Min({@, Len(e.text)})})] = [e EXCEPT !.dot = b]
    OBVIOUS
  <2>2. QED BY <2>1 DEF Settled
<1>2. e \in Wide /\ e.text \in Seq(Char) /\ Len(e.text) \in Nat /\ e.dot \in Int
  BY SoundIsWide, WideFields
<1>3. After(e, l) /\ l.text # << >> /\ l.dot \in 1 .. Len(l.text) + 1
  <2>1. CASE e.text = << >>
    <3>1. c \in Sound /\ After(e, c) /\ c.text = e.text
      BY CommitAfter DEF After
    <3> HIDE DEF c
    <3>2. w \in Seq(Char) /\ w # << >> /\ Len(w) = 1
      BY DEF Char
    <3>a. Shown(w) = Shown(<< >>)
      BY DEF Shown
    <3> HIDE DEF w
    <3>b. c \in Wide
      BY <3>1, SoundIsWide
    <3>3. /\ o \in Wide /\ o.undo = c.undo /\ o.queue = c.queue /\ o.modified = c.modified /\ o.slips = c.slips
          /\ o.text = w /\ o.dot = 1
      <4>1. w \in Seq(Char) /\ 1 \in Int
        BY <3>2
      <4>2. QED BY ONLY <3>b, <4>1 DEF Wide
    <3> HIDE DEF o
    <3>4. Shown(o.text) = Shown(c.text) /\ c.slips \subseteq o.slips
      BY <2>1, <3>1, <3>3, <3>a
    <3>5. After(c, o)
      BY <3>1, <3>3, <3>4, AfterSame
    <3>6. After(e, o)
      BY <3>1, <3>5, AfterThrough
    <3>7. l = o
      BY <2>1
    <3> HIDE DEF l
    <3>8. QED BY <3>2, <3>3, <3>6, <3>7
  <2>2. CASE e.text # << >> /\ e.dot = Len(e.text) + 1
    <3>1. l = e
      BY <2>2
    <3> HIDE DEF l
    <3>2. Shown(e.text) = Shown(e.text) /\ e.slips \subseteq e.slips
      OBVIOUS
    <3>3. After(e, e)
      BY <1>2, <3>2, AfterSame
    <3>4. QED BY <1>2, <2>2, <3>1, <3>3
  <2>3. CASE e.text # << >> /\ e.dot # Len(e.text) + 1
    <3> DEFINE n == Len(e.text)
               k == Min({e.dot, n})
    <3>1. n \in Nat /\ n # 0 /\ n \in Int /\ 1 \in Int
      BY <1>2, <2>3
    <3> HIDE DEF n
    <3>2. k = IF e.dot <= n THEN e.dot ELSE n
      BY <1>2, <3>1, MinTwo
    <3> HIDE DEF k
    <3>3. k \in Int /\ k <= n
      BY <1>2, <3>1, <3>2
    <3>4. Max({1, k}) = IF 1 <= k THEN k ELSE 1
      BY <3>1, <3>3, MaxTwo
    <3>5. b = Max({1, k})
      BY DEF k, n
    <3>6. b \in 1 .. n /\ b \in Int
      BY <3>1, <3>3, <3>4, <3>5
    <3> HIDE DEF b
    <3>7. l = [e EXCEPT !.dot = b]
      BY <2>3
    <3> HIDE DEF l
    <3>8. After(e, l) /\ l.dot = b /\ l.text = e.text
      BY <3>6, <3>7, AfterDot
    <3>9. QED BY <2>3, <3>1, <3>6, <3>8 DEF n
  <2>4. QED BY <2>1, <2>2, <2>3
<1> HIDE DEF l
<1>4. l \in Sound /\ l.text \in Seq(Char) /\ Len(l.text) \in Nat /\ l.dot \in Int
  BY <1>3, SoundIsWide, WideFields DEF After
<1>5. CASE l.dot > LineStart(l.text, l.dot)
  <2>1. LineStart(l.text, l.dot) \in Nat /\ LineStart(l.text, l.dot) >= 1
    BY <1>4, LineStartFacts
  <2> DEFINE d == l.dot - 1
             r == [l EXCEPT !.dot = d]
  <2>2. d \in Int /\ d \in 1 .. Len(l.text) + 1
    BY <1>3, <1>4, <1>5, <2>1
  <2>3. [l EXCEPT !.dot = @ - 1] = r
    OBVIOUS
  <2> HIDE DEF d
  <2>4. After(l, r) /\ r.dot = d /\ r.text = l.text
    BY <1>4, <2>2, AfterDot
  <2> HIDE DEF r
  <2>5. After(e, r)
    BY <1>3, <2>4, AfterThrough
  <2>6. f = r \/ f = l
    BY <2>3
  <2> HIDE DEF f
  <2>7. QED BY <1>1, <1>3, <2>2, <2>4, <2>5, <2>6
<1>6. CASE ~(l.dot > LineStart(l.text, l.dot))
  <2>1. f = l
    BY <1>6
  <2>2. QED BY <1>1, <1>3, <2>1
<1>7. QED BY <1>5, <1>6
-----------------------------------------------------------------------------
(* Commands that repeat a step. *)

IsRun(after, n, step, e) == after = [i \in 0 .. n |-> IF i = 0 THEN e ELSE step[after[i - 1]]]

LEMMA TimesExist ==
  ASSUME NEW n \in Nat, NEW step, NEW e
  PROVE  \E after : IsRun(after, n, step, e)
<1> DEFINE Has(k) == \E after : IsRun(after, k, step, e)
           T == { k \in Nat : Has(k) }
<1>1. Has(0)
  <2> DEFINE after == [i \in 0 .. 0 |-> e]
  <2>1. after = [i \in 0 .. 0 |-> IF i = 0 THEN e ELSE step[after[i - 1]]]
    OBVIOUS
  <2>2. QED BY <2>1 DEF IsRun
<1>2. ASSUME NEW k \in Nat, Has(k) PROVE Has(k + 1)
  <2>1. PICK old : old = [i \in 0 .. k |-> IF i = 0 THEN e ELSE step[old[i - 1]]]
    BY <1>2 DEF IsRun
  <2> DEFINE after == [i \in 0 .. k + 1 |-> IF i <= k THEN old[i] ELSE step[old[k]]]
  <2>2. ASSUME NEW i \in 0 .. k + 1 PROVE after[i] = IF i = 0 THEN e ELSE step[after[i - 1]]
    <3>1. CASE i = 0
      <4>1. i \in 0 .. k /\ i <= k
        BY <3>1
      <4>2. old[i] = e
        BY <2>1, <3>1, <4>1
      <4>3. QED BY <3>1, <4>1, <4>2
    <3>2. CASE i # 0 /\ i <= k
      <4>1. i \in 0 .. k /\ i - 1 \in 0 .. k + 1 /\ i - 1 <= k
        BY <3>2
      <4>2. old[i] = step[old[i - 1]]
        BY <2>1, <3>2, <4>1
      <4>3. after[i] = old[i] /\ after[i - 1] = old[i - 1]
        BY <3>2, <4>1
      <4>4. QED BY <3>2, <4>2, <4>3
    <3>3. CASE i = k + 1
      <4>1. i - 1 = k /\ k \in 0 .. k + 1 /\ k <= k /\ ~(i <= k) /\ i # 0
        BY <3>3
      <4>2. after[k] = old[k] /\ after[i] = step[old[k]]
        BY <4>1
      <4>3. QED BY <4>1, <4>2
    <3>4. QED BY <3>1, <3>2, <3>3
  <2>3. after = [i \in 0 .. k + 1 |-> after[i]]
    OBVIOUS
  <2> HIDE DEF after
  <2>4. after = [i \in 0 .. k + 1 |-> IF i = 0 THEN e ELSE step[after[i - 1]]]
    BY <2>2, <2>3
  <2>5. QED BY <2>4 DEF IsRun
<1> HIDE DEF Has
<1>3. 0 \in T /\ \A k \in Nat : k \in T => k + 1 \in T
  BY <1>1, <1>2
<1> HIDE DEF T
<1>4. n \in T
  BY <1>3, SetInduction
<1>5. Has(n)
  BY <1>4 DEF T
<1>6. QED BY <1>5 DEF Has

\* What every step keeps, the repeated command keeps.
LEMMA TimesKeep ==
  ASSUME NEW n \in Nat, NEW step, NEW P, NEW e \in P, \A x \in P : step[x] \in P
  PROVE  Times(n, step, e) \in P
<1> DEFINE after == CHOOSE f : IsRun(f, n, step, e)
           T == { k \in Nat : k <= n => after[k] \in P }
<1>1. Times(n, step, e) = after[n]
  BY DEF Times, IsRun
<1>2. IsRun(after, n, step, e)
  <2>1. \E f : IsRun(f, n, step, e)
    BY TimesExist
  <2>2. QED BY <2>1
<1>3. \A i \in 0 .. n : after[i] = IF i = 0 THEN e ELSE step[after[i - 1]]
  <2> HIDE DEF after
  <2>1. QED BY <1>2 DEF IsRun
<1> HIDE DEF after
<1>4. 0 \in T
  BY <1>3
<1>5. ASSUME NEW k \in Nat, k \in T PROVE k + 1 \in T
  <2> SUFFICES ASSUME k + 1 <= n PROVE after[k + 1] \in P
    OBVIOUS
  <2>1. k + 1 \in 0 .. n /\ (k + 1) - 1 = k /\ k + 1 # 0 /\ after[k] \in P
    BY <1>5
  <2>2. after[k + 1] = step[after[k]]
    BY <1>3, <2>1
  <2>3. QED BY <2>1, <2>2
<1> HIDE DEF T
<1>6. n \in T
  BY <1>4, <1>5, SetInduction
<1>7. after[n] \in P
  BY <1>6 DEF T
<1>8. QED BY <1>1, <1>7

\* One step of x and X.
LEMMA DeleteCharFacts ==
  ASSUME NEW e \in Sound, NEW back \in BOOLEAN, NEW how \in {"new", "chain"}, NEW g \in Char
  PROVE  After(e, DeleteChar(e, back, how, g))
<1> DEFINE p == IF back THEN e.dot - 1 ELSE e.dot
<1>1. p \in Int /\ FALSE \in BOOLEAN
  BY SoundIsWide, WideFields
<1>2. DeleteChar(e, back, how, g) = IF Seen(e, p, g) = "nl" THEN e ELSE YankDelete(e, p, p, FALSE, how, g)
  BY DEF DeleteChar
<1>3. After(e, e)
  <2>1. Shown(e.text) = Shown(e.text) /\ e.slips \subseteq e.slips /\ e \in Wide
    BY SoundIsWide
  <2>2. QED BY <2>1, AfterSame
<1> HIDE DEF p
<1> DEFINE whole == FALSE
<1>4. whole \in BOOLEAN
  OBVIOUS
<1>5. YankDelete(e, p, p, FALSE, how, g) = YankDelete(e, p, p, whole, how, g)
  OBVIOUS
<1> HIDE DEF whole
<1>6. After(e, YankDelete(e, p, p, whole, how, g))
  BY <1>1, <1>4, YankFacts
<1>7. QED BY <1>2, <1>3, <1>5, <1>6

LEMMA HowFacts ==
  ASSUME NEW e, NEW f
  PROVE  How(e, f) \in {"new", "chain"}
BY DEF How

\* One step of J.
LEMMA JoinFacts ==
  ASSUME NEW e \in Sound, e.dot \in 1 .. Len(e.text) + 1
  PROVE  LET f == JoinOne(e) IN After(e, f) /\ f.dot \in 1 .. Len(f.text) + 1
<1> DEFINE at == DotTo(e, LineEnd(e.text, e.dot))
           p == at.dot
           c == "nl"
           l == Record(at, "new", "del", p, 1, <<c>>)
           sp == [l EXCEPT !.text[p] = "sp", !.dot = p + 1]
           joined == Record(sp, "chain", "ins", p, 1, << >>)
           n == SkipBlanks(joined).dot - (p + 1)
           drop == [x \in State |-> [HoleDelete(x, p + 1, p + 1, "chain", "nl") EXCEPT !.dot = p + 1]]
<1>1. JoinOne(e) = IF p >= Len(e.text) THEN at ELSE Times(n, drop, joined)
  BY DEF JoinOne
<1>2. e \in Wide /\ e.text \in Seq(Char) /\ Len(e.text) \in Nat /\ e.dot \in Nat /\ e.dot >= 1
  BY SoundIsWide, WideFields
<1>3. /\ LineEnd(e.text, e.dot) \in Nat /\ LineEnd(e.text, e.dot) >= e.dot
      /\ (LineEnd(e.text, e.dot) <= Len(e.text) \/ LineEnd(e.text, e.dot) = e.dot)
      /\ LineEnd(e.text, e.dot) < Len(e.text) => e.text[LineEnd(e.text, e.dot)] = "nl"
  BY <1>2, LineEndFacts
<1>4. After(e, at) /\ at.text = e.text /\ p = LineEnd(e.text, e.dot)
  <2>1. LineEnd(e.text, e.dot) \in Int
    BY <1>3
  <2>2. QED BY <2>1, DotToFacts
<1> HIDE DEF at
<1>5. p \in Nat /\ p >= 1 /\ p \in 1 .. Len(e.text) + 1 /\ (p < Len(e.text) => e.text[p] = "nl")
  BY <1>2, <1>3, <1>4
<1> HIDE DEF p
<1>6. at \in Sound /\ at \in Wide
  BY <1>4, SoundIsWide DEF After
<1>7. CASE p >= Len(e.text)
  <2>1. JoinOne(e) = at
    BY <1>1, <1>7
  <2>2. QED BY <1>4, <1>5, <2>1 DEF p
<1>8. CASE ~(p >= Len(e.text))
  <2>1. p \in 1 .. Len(at.text) /\ p < Len(at.text) /\ Len(at.text) # 1 /\ c = at.text[p] /\ c \in Char
    <3> DEFINE k == Len(e.text)
    <3>0. k \in Nat /\ p \in Nat /\ p >= 1 /\ ~(p >= k)
      BY <1>2, <1>5, <1>8
    <3> HIDE DEF k
    <3>4. p \in 1 .. k /\ p < k /\ k # 1
      BY ONLY <3>0
    <3>1. p \in 1 .. Len(e.text) /\ p < Len(e.text) /\ Len(e.text) # 1
      BY <3>4 DEF k
    <3>2. c = e.text[p] /\ c \in Char
      BY <1>5, <3>1 DEF Char
    <3>3. QED BY <1>4, <3>1, <3>2
  <2>2. \E entry : Recorded(at, l, entry, "del", p, 1, <<c>>)
    <3> DEFINE s == <<c>>
    <3>1. s \in Seq(Char) /\ p \in Int /\ 1 \in Nat /\ 1 >= 1
      BY <2>1
    <3> HIDE DEF s
    <3>2. \E entry : Recorded(at, Record(at, "new", "del", p, 1, s), entry, "del", p, 1, s)
      BY <1>6, <3>1, RecordFacts
    <3>3. QED BY <3>2 DEF s
  <2>3. l \in Wide /\ l.text = at.text
    BY <2>2 DEF Recorded, SameElse
  <2>4. /\ sp \in Wide /\ sp.undo = l.undo /\ sp.queue = l.queue /\ sp.modified = l.modified /\ sp.slips = l.slips
        /\ sp.text = [at.text EXCEPT ![p] = "sp"] /\ sp.dot = p + 1
    <3> HIDE DEF l
    <3> DEFINE t == [l.text EXCEPT ![p] = "sp"]
               d == p + 1
    <3>1. "sp" \in Char
      BY DEF Char
    <3>2. t \in Seq(Char)
      BY <1>4, <1>2, <2>1, <2>3, <3>1, CutChanged
    <3>3. d \in Int
      BY <1>5
    <3>4. sp = [l EXCEPT !.text = t, !.dot = d]
      OBVIOUS
    <3>5. t = [at.text EXCEPT ![p] = "sp"]
      BY <2>3
    <3> HIDE DEF t, d
    <3>6. /\ sp \in Wide /\ sp.undo = l.undo /\ sp.queue = l.queue /\ sp.modified = l.modified /\ sp.slips = l.slips
          /\ sp.text = t /\ sp.dot = d
      <4> DEFINE x == [l EXCEPT !.text = t, !.dot = d]
      <4>1. x.undo = l.undo /\ x.queue = l.queue /\ x.modified = l.modified /\ x.slips = l.slips /\ x.text = t /\ x.dot = d
        BY <2>3 DEF Wide
      <4>2. x \in Wide
        BY <2>3, <3>2, <3>3 DEF Wide
      <4> HIDE DEF x
      <4>3. sp = x
        BY <3>4 DEF x
      <4>4. QED BY <4>1, <4>2, <4>3
    <3>7. QED BY <3>5, <3>6 DEF d
  <2> HIDE DEF sp
  <2>5. After(at, joined) /\ joined.text = sp.text /\ joined.dot = p + 1
    <3>1. "sp" \in Char
      BY DEF Char
    <3>2. After(at, joined) /\ joined.text = sp.text /\ joined.dot = sp.dot
      BY <1>6, <2>1, <2>4, <3>1, ChangeFacts
    <3>3. QED BY <2>4, <3>2
  <2> HIDE DEF joined
  <2>6. Len(joined.text) = Len(e.text)
    <3>1. "sp" \in Char
      BY DEF Char
    <3>2. QED BY <1>4, <1>2, <2>1, <2>4, <2>5, <3>1, CutChanged
  <2>7. joined \in Sound /\ joined.dot \in Nat
    BY <1>5, <2>5 DEF After
  <2>8. n \in Nat
    <3>1. SkipBlanks(joined).dot \in Nat /\ SkipBlanks(joined).dot >= joined.dot
      BY <2>7, BlanksFacts
    <3>2. QED BY <1>5, <2>5, <3>1
  <2> HIDE DEF n
  <2> DEFINE P == { x \in Sound : After(joined, x) /\ Len(x.text) >= p /\ x.dot = p + 1 }
  <2>9. joined \in P
    <3>1. Shown(joined.text) = Shown(joined.text) /\ joined.slips \subseteq joined.slips /\ joined \in Wide
      BY <2>7, SoundIsWide
    <3>2. After(joined, joined)
      BY <2>7, <3>1, AfterSame
    <3>3. QED BY <1>2, <1>5, <1>8, <2>5, <2>6, <2>7, <3>2
  <2>10. ASSUME NEW x \in P PROVE drop[x] \in P
    <3> DEFINE k == p + 1
               h == HoleDelete(x, k, k, "chain", "nl")
               f == [h EXCEPT !.dot = k]
    <3>1. x \in Sound /\ x \in State /\ After(joined, x) /\ Len(x.text) >= p /\ Len(x.text) \in Nat
      BY Limits, StateFacts, SoundIsWide, WideFields
    <3>2. drop[x] = f
      BY <3>1
    <3>3. k \in Int /\ k <= k /\ "nl" \in Char
      BY <1>5 DEF Char
    <3> HIDE DEF k
    <3>4. Holed(x, h, k, k)
      BY <3>1, <3>3, HoleFacts
    <3>5. After(x, h) /\ (h.text = x.text \/ (k <= Len(x.text) /\ h.text = Cut(x.text, k, k)))
      BY <3>4 DEF Holed
    <3> HIDE DEF h
    <3>6. Len(h.text) >= p
      <4>1. CASE h.text = x.text
        BY <3>1, <4>1
      <4>2. CASE h.text # x.text
        <5>1. x.text \in Seq(Char) /\ 1 <= k /\ k <= k + 1 /\ k <= Len(x.text) /\ k - k + 1 = 1 /\ k = p + 1
          BY <1>5, <3>1, <3>3, <3>5, <4>2, SoundIsWide, WideFields DEF k
        <5>2. Len(Cut(x.text, k, k)) = Len(x.text) - (k - k + 1)
          BY <3>3, <5>1, CutFacts
        <5>3. Len(h.text) = Len(x.text) - 1
          BY <3>5, <4>2, <5>1, <5>2
        <5>4. QED BY <1>5, <3>1, <5>1, <5>3
      <4>3. QED BY <4>1, <4>2
    <3>7. After(h, f) /\ f.dot = k /\ f.text = h.text
      BY <3>3, <3>5, AfterDot DEF After
    <3> HIDE DEF f
    <3>8. After(x, f) /\ x \in Sound
      BY <3>1, <3>5, <3>7, AfterThrough
    <3>9. After(joined, f)
      BY <2>7, <3>1, <3>8, AfterThrough
    <3>10. QED BY <3>2, <3>6, <3>7, <3>9 DEF After, k
  <2>11. Times(n, drop, joined) \in P
    BY <2>8, <2>9, <2>10, TimesKeep
  <2> DEFINE f == Times(n, drop, joined)
  <2> HIDE DEF f
  <2>12. After(joined, f) /\ Len(f.text) >= p /\ f.dot = p + 1 /\ f \in Sound
    BY <2>11 DEF f
  <2> HIDE DEF P
  <2>13. After(at, f)
    BY <1>6, <2>5, <2>12, AfterThrough
  <2>14. After(e, f)
    BY <1>4, <2>13, AfterThrough
  <2>15. f.dot \in 1 .. Len(f.text) + 1
    <3>1. Len(f.text) \in Nat
      BY <2>12, SoundIsWide, WideFields
    <3>2. QED BY <1>5, <2>12, <3>1
  <2>16. JoinOne(e) = f
    BY <1>1, <1>8 DEF f
  <2>17. QED BY <2>14, <2>15, <2>16
<1>9. QED BY <1>7, <1>8

\* One step of ~.
LEMMA FlipFacts ==
  ASSUME NEW e \in Sound, e.dot \in 1 .. Len(e.text), NEW how \in {"new", "chain"}
  PROVE  LET f == FlipOne(e, how)
         IN After(e, f) /\ f.dot \in 1 .. Len(f.text)
<1> DEFINE p == e.dot
           c == e.text[p]
           l == Record(e, how, "del", p, 1, <<c>>)
           x == [l EXCEPT !.text[p] = Flipped(@)]
           in == Record(x, "chain", "ins", p, 1, << >>)
           r == IF c \in {"a", "A"} THEN in ELSE e
           k == IF r.dot < Len(r.text) /\ r.text[r.dot] # "nl" THEN r.dot + 1 ELSE r.dot
<1>1. FlipOne(e, how) = DotTo(r, k)
  BY DEF FlipOne, DotRight
<1>2. e \in Wide /\ e.text \in Seq(Char) /\ Len(e.text) \in Nat /\ p \in Nat /\ p \in 1 .. Len(e.text) /\ c \in Char
  BY SoundIsWide, WideFields
<1> HIDE DEF k
<1>3. After(e, r) /\ r.dot = p /\ Len(r.text) = Len(e.text)
  <2>1. CASE c \in {"a", "A"}
    <3> DEFINE fl == Flipped(c)
               t == [e.text EXCEPT ![p] = fl]
               s == <<c>>
    <3>1. fl \in Char /\ c # "nl"
      BY <2>1 DEF Flipped, Char
    <3> HIDE DEF fl
    <3>2. t \in Seq(Char) /\ Len(t) = Len(e.text)
      BY <1>2, <3>1, CutChanged
    <3>3. \E entry : Recorded(e, l, entry, "del", p, 1, s)
      <4>1. s \in Seq(Char) /\ p \in Int /\ 1 \in Nat /\ 1 >= 1
        BY <1>2
      <4> HIDE DEF s, c
      <4>2. \E entry : Recorded(e, Record(e, how, "del", p, 1, s), entry, "del", p, 1, s)
        BY <1>2, <4>1, RecordFacts
      <4>3. QED BY <4>2 DEF s
    <3>4. l \in Wide /\ l.text = e.text /\ l.dot = e.dot
      BY <3>3 DEF Recorded, SameElse
    <3>5. x = [l EXCEPT !.text = t]
      <4> HIDE DEF l
      <4>1. x = [l EXCEPT !.text = [l.text EXCEPT ![p] = Flipped(l.text[p])]]
        BY <3>4, <1>2 DEF Wide
      <4>2. QED BY <3>4, <4>1 DEF fl
    <3>6. /\ x \in Wide /\ x.undo = l.undo /\ x.queue = l.queue /\ x.modified = l.modified /\ x.slips = l.slips
          /\ x.text = t /\ x.dot = p
      <4> HIDE DEF l, t, x
      <4>1. QED BY <3>2, <3>4, <3>5 DEF Wide
    <3> HIDE DEF x
    <3>7. After(e, in) /\ in.text = x.text /\ in.dot = x.dot
      <4>1. Len(e.text) = 1 => c # "nl"
        BY <3>1
      <4>2. x.text = [e.text EXCEPT ![p] = fl]
        BY <3>6
      <4>3. c = e.text[p]
        OBVIOUS
      <4> HIDE DEF c
      <4>4. /\ e \in Sound /\ p \in 1 .. Len(e.text) /\ fl \in Char /\ how \in {"new", "chain"} /\ x \in Wide
            /\ LET a == Record(e, how, "del", p, 1, <<c>>)
               IN x.undo = a.undo /\ x.queue = a.queue /\ x.modified = a.modified /\ x.slips = a.slips
        BY <1>2, <3>1, <3>6
      <4> HIDE DEF fl, l
      <4>5. After(e, Record(x, "chain", "ins", p, 1, << >>))
            /\ Record(x, "chain", "ins", p, 1, << >>).text = x.text /\ Record(x, "chain", "ins", p, 1, << >>).dot = x.dot
        BY ONLY <4>1, <4>2, <4>3, <4>4, ChangeFacts
      <4>6. QED BY <4>5
    <3>8. r = in
      BY <2>1
    <3> HIDE DEF in, r, t
    <3>9. QED BY <3>2, <3>6, <3>7, <3>8
  <2>2. CASE c \notin {"a", "A"}
    <3>1. r = e
      BY <2>2
    <3>2. Shown(e.text) = Shown(e.text) /\ e.slips \subseteq e.slips
      OBVIOUS
    <3>3. After(e, e)
      BY <1>2, <3>2, AfterSame
    <3> HIDE DEF r
    <3>4. QED BY <3>1, <3>3
  <2>3. QED BY <2>1, <2>2
<1> HIDE DEF r
<1>4. k \in 1 .. Len(r.text) /\ k \in Int
  BY <1>2, <1>3 DEF k
<1>5. r \in Sound
  BY <1>3 DEF After
<1>6. After(r, DotTo(r, k)) /\ DotTo(r, k).text = r.text /\ DotTo(r, k).dot = k
  BY <1>4, <1>5, DotToFacts
<1>7. After(e, DotTo(r, k))
  BY <1>3, <1>6, AfterThrough
<1>8. QED BY <1>1, <1>4, <1>6, <1>7

-----------------------------------------------------------------------------
(* The inductive invariant. *)

\* While nothing has happened that the list does not tell, there is a path of texts from the text as it was
\* loaded; and while nothing has happened that the count does not tell, what the file holds is the text on that
\* path as many entries back as are counted.
OnPath(H, e, saved) ==
  /\ Path(H, e) /\ H[0] = Shown(loaded)
  /\ e.slips = {} /\ status = "editing" =>
       e.modified \in 0 .. Len(e.undo) /\ H[Len(e.undo) - e.modified] = Shown(saved)
IInv ==
  /\ TypeOK /\ ed \in Sound
  /\ mode = "command" => ed.queue = NoQueue
  /\ Clean(ed) => \E H : OnPath(H, ed, file)
  /\ status = "quit" /\ ed.slips = {} => Shown(file) = Shown(ed.text)

\* What goes on from a state with such a path, and may write the file, ends where the invariant holds.
LEMMA SettlesFrom ==
  ASSUME TypeOK, status = "editing", file' \in Seq(Char), NEW e \in Sound, Clean(e) => \E H : OnPath(H, e, file'),
         NEW f \in Sound, Follows(e, f), NEW m \in {"command", "insert", "replace"}, m = "command" => f.queue = NoQueue,
         NEW g \in Char, ed' = Settled(f, m, g), mode' = m, status' = status, loaded' = loaded
  PROVE  IInv'
<1>1. ed' = Settled(f, m, g)
  OBVIOUS
<1>2. mode' = m /\ status' = status /\ file' \in Seq(Char) /\ loaded' = loaded
  OBVIOUS
<1>3. After(f, ed') /\ ed'.text # << >> /\ ed'.dot \in 1 .. Len(ed'.text) + 1
  BY <1>1, SettledFacts
<1>4. e \in Wide /\ f \in Wide /\ ed' \in Sound /\ ed' \in Wide
  BY <1>3, SoundIsWide DEF After
<1>5. Follows(e, ed')
  BY <1>3, <1>4, FollowsThrough DEF After
<1>6. TypeOK'
  BY <1>2, <1>3, <1>4, StateFacts, Limits DEF TypeOK
<1>7. mode' = "command" => ed'.queue = NoQueue
  BY <1>2, <1>3 DEF After, Quiet
<1>8. ASSUME Clean(ed') PROVE \E H : OnPath(H, ed, file)'
  <2>1. Clean(e) /\ e.slips \subseteq ed'.slips
    BY <1>5, <1>8 DEF Follows, Clean
  <2>2. PICK H : OnPath(H, e, file')
    BY <2>1
  <2>3. /\ Len(e.undo) <= Len(ed'.undo) /\ ed'.modified - Len(ed'.undo) = e.modified - Len(e.undo)
        /\ \E G : Path(G, ed') /\ Agree(G, H, Len(e.undo))
    BY <1>5, <1>8, <2>2 DEF Follows, OnPath
  <2>4. PICK G : Path(G, ed') /\ Agree(G, H, Len(e.undo))
    BY <2>3
  <2> DEFINE j == Len(e.undo)
             k == Len(ed'.undo)
             v == e.modified
             w == ed'.modified
  <2>5. j \in Nat /\ k \in Nat /\ v \in Int /\ w \in Int /\ j <= k /\ w - k = v - j
    BY <1>4, <2>3, WideFields
  <2>6. \A i \in 0 .. j : G[i] = H[i]
    BY <2>4 DEF Agree
  <2>7. ASSUME ed'.slips = {}, status' = "editing"
        PROVE  w \in 0 .. k /\ G[k - w] = Shown(file')
    <3>1. v \in 0 .. j /\ H[j - v] = Shown(file')
      <4>1. e.slips = {}
        BY <2>1, <2>7
      <4>2. QED BY <1>2, <2>2, <2>7, <4>1 DEF OnPath
    <3> HIDE DEF j, k, v, w
    <3>2. w \in 0 .. k /\ k - w = j - v /\ j - v \in 0 .. j
      BY ONLY <2>5, <3>1
    <3>3. QED BY <1>2, <2>6, <3>1, <3>2
  <2>8. G[0] = Shown(loaded)'
    <3>1. 0 \in 0 .. j
      BY <2>5
    <3>2. QED BY <1>2, <2>2, <2>6, <3>1 DEF OnPath
  <2>9. OnPath(G, ed, file)'
    BY <2>4, <2>7, <2>8 DEF OnPath
  <2>10. QED BY <2>9
<1>9. status' # "quit"
  BY <1>2
<1>10. QED BY <1>4, <1>6, <1>7, <1>8, <1>9 DEF IInv

LEMMA LandsFrom ==
  ASSUME TypeOK, status = "editing", NEW e \in Sound, Clean(e) => \E H : OnPath(H, e, file), NEW f \in Sound, Follows(e, f),
         NEW m \in {"command", "insert", "replace"}, m = "command" => f.queue = NoQueue, Ends(f, m)
  PROVE  IInv'
<1>1. PICK g \in Char : ed' = Settled(f, m, g)
  BY DEF Ends, Char
<1>2. mode' = m /\ status' = status /\ file' = file /\ loaded' = loaded
  BY DEF Ends
<1>3. file' \in Seq(Char) /\ (Clean(e) => \E H : OnPath(H, e, file'))
  BY <1>2 DEF TypeOK
<1>4. QED BY <1>1, <1>2, <1>3, SettlesFrom

LEMMA Lands ==
  ASSUME IInv, status = "editing", NEW f \in Sound, Follows(ed, f), NEW m \in {"command", "insert", "replace"},
         m = "command" => f.queue = NoQueue, Ends(f, m)
  PROVE  IInv'
<1>1. TypeOK /\ ed \in Sound /\ (Clean(ed) => \E H : OnPath(H, ed, file))
  BY DEF IInv
<1>2. QED BY <1>1, LandsFrom

\* What the invariant gives a command and a key.
LEMMA AtHand ==
  ASSUME IInv
  PROVE  /\ ed \in Sound /\ ed \in Wide /\ ed.dot \in 1 .. Len(ed.text) + 1 /\ ed.dot \in Nat /\ ed.dot >= 1
         /\ ed.text \in Seq(Char) /\ Len(ed.text) \in Nat
         /\ (mode # "command" \/ ed.undo # << >> \/ ed.reg.chars # << >> => ed.text # << >>)
         /\ mode \in {"command", "insert", "replace"} /\ (mode = "command" => ed.queue = NoQueue)
         /\ Garbage \subseteq Char /\ Typed \subseteq Char /\ MaxCount \in Nat
<1>1. ed \in Sound /\ ed.dot \in 1 .. Len(ed.text) + 1
      /\ (mode # "command" \/ ed.undo # << >> \/ ed.reg.chars # << >> => ed.text # << >>)
      /\ mode \in {"command", "insert", "replace"} /\ (mode = "command" => ed.queue = NoQueue)
  <2>1. ed.text = << >> => ed = Opened(<< >>, ed.slips) /\ mode = "command"
    BY DEF IInv, TypeOK
  <2>2. \A s : Opened(<< >>, s).undo = << >> /\ Opened(<< >>, s).reg.chars = << >>
    BY DEF Opened
  <2>3. (mode # "command" \/ ed.undo # << >> \/ ed.reg.chars # << >> => ed.text # << >>)
    BY <2>1, <2>2
  <2>4. QED BY <2>3 DEF IInv, TypeOK
<1>2. ed \in Wide /\ ed.text \in Seq(Char) /\ Len(ed.text) \in Nat
  BY <1>1, SoundIsWide, WideFields
<1>3. ed.dot \in Nat /\ ed.dot >= 1
  <2> DEFINE k == Len(ed.text)
             d == ed.dot
  <2>1. k \in Nat /\ d \in 1 .. k + 1
    BY <1>1, <1>2
  <2> HIDE DEF k, d
  <2>2. d \in Nat /\ d >= 1
    BY ONLY <2>1
  <2>3. QED BY <2>2 DEF d
<1>4. Garbage \subseteq Char /\ Typed \subseteq Char /\ MaxCount \in Nat
  BY Limits DEF Garbage, Char
<1>5. QED BY <1>1, <1>2, <1>3, <1>4

\* A command in command mode that ends in command mode or in insert mode.
LEMMA LandsAfter ==
  ASSUME IInv, Command, NEW f, After(ed, f), NEW m \in {"command", "insert", "replace"}, Ends(f, m)
  PROVE  IInv'
<1>1. status = "editing" /\ ed.queue = NoQueue
  BY AtHand DEF Command
<1>2. f \in Sound /\ Follows(ed, f) /\ f.queue = NoQueue
  BY <1>1 DEF After, Quiet
<1>3. QED BY <1>1, <1>2, Lands

LEMMA AfterAgain ==
  ASSUME NEW e \in Sound
  PROVE  After(e, e)
BY SoundIsWide, AfterSame

-----------------------------------------------------------------------------
(* Every command keeps the invariant. *)

LEMMA MoveKeeps == ASSUME IInv, Move PROVE IInv'
<1>1. PICK p \in 1 .. Max({1, Len(ed.text)}) : Ends(DotTo(ed, p), mode)
  BY DEF Move
<1>2. After(ed, DotTo(ed, p))
  <2>1. p \in Int
    OBVIOUS
  <2>2. QED BY <2>1, AtHand, DotToFacts
<1>3. Command
  BY DEF Move
<1>4. QED BY <1>1, <1>2, <1>3, AtHand, LandsAfter

LEMMA DeleteCharsKeeps == ASSUME IInv, DeleteChars PROVE IInv'
<1>1. Command
  BY DEF DeleteChars
<1> DEFINE step(back, g) == [e \in State |-> DeleteChar(e, back, How(ed, e), g)]
<1>2. PICK back \in BOOLEAN, n \in 1 .. MaxCount, m \in {"command", "insert"}, g \in Garbage \cup {"a"} :
        Ends(IF m = "insert" THEN Commit(Times(n, step(back, g), ed)) ELSE Times(n, step(back, g), ed), m)
  BY DEF DeleteChars
<1> DEFINE P == { x \in Sound : After(ed, x) }
           s == step(back, g)
<1>3. n \in Nat /\ g \in Char
  BY AtHand DEF Char
<1>4. ed \in P
  BY AtHand, AfterAgain
<1>5. ASSUME NEW x \in P PROVE s[x] \in P
  <2>1. x \in Sound /\ x \in State /\ After(ed, x)
    BY StateFacts, Limits
  <2>2. s[x] = DeleteChar(x, back, How(ed, x), g)
    BY <2>1
  <2>3. After(x, DeleteChar(x, back, How(ed, x), g))
    BY <1>3, <2>1, HowFacts, DeleteCharFacts
  <2> HIDE DEF s
  <2>4. After(ed, s[x])
    BY <2>1, <2>2, <2>3, AtHand, AfterThrough
  <2>5. QED BY <2>4 DEF After
<1> DEFINE done == Times(n, s, ed)
<1>6. done \in P
  <2> HIDE DEF P, s
  <2>1. QED BY <1>3, <1>4, <1>5, TimesKeep
<1>7. Ends(IF m = "insert" THEN Commit(done) ELSE done, m)
  BY <1>2
<1> HIDE DEF done
<1>8. After(ed, done) /\ done \in Sound
  BY <1>6
<1>9. After(ed, Commit(done))
  BY <1>8, AtHand, CommitAfter, AfterThrough
<1>10. After(ed, IF m = "insert" THEN Commit(done) ELSE done)
  BY <1>8, <1>9
<1>11. m \in {"command", "insert", "replace"}
  OBVIOUS
<1>12. QED BY <1>1, <1>7, <1>10, <1>11, LandsAfter

LEMMA DeleteToEndKeeps == ASSUME IInv, DeleteToEnd PROVE IInv'
<1>1. Command
  BY DEF DeleteToEnd
<1> DEFINE no == FALSE
<1>2. PICK m \in {"command", "insert"}, g \in Garbage :
        Ends(YankDelete(ed, ed.dot, DollarLine(ed, g), no, "new", g), m)
  BY DEF DeleteToEnd
<1>3. no \in BOOLEAN
  OBVIOUS
<1> HIDE DEF no
<1> DEFINE d == ed.dot
           q == DollarLine(ed, g)
<1>4. ed \in Sound /\ g \in Char /\ d \in Int /\ q \in Int
  BY AtHand, DollarFacts
<1> HIDE DEF d, q
<1>5. After(ed, YankDelete(ed, d, q, no, "new", g))
  BY <1>3, <1>4, YankFacts
<1>6. m \in {"command", "insert", "replace"}
  OBVIOUS
<1> USE DEF d, q
<1>7. QED BY <1>1, <1>2, <1>5, <1>6, LandsAfter

LEMMA YankLineFacts ==
  ASSUME IInv, NEW g \in Garbage
  PROVE  LET f == YankLine("new", g) IN After(ed, f) /\ f.dot \in 1 .. Len(f.text) + 1
<1>0. ed.dot \in Int /\ ed.dot >= 1 /\ ed.dot \in Nat /\ ed.text \in Seq(Char)
  BY AtHand
<1> DEFINE yes == TRUE
           a == LineStart(ed.text, ed.dot)
           b == LineEnd(ed.text, ed.dot)
           f == YankDelete(ed, a, b, yes, "new", g)
<1>1. YankLine("new", g) = f
  BY DEF YankLine
<1>2. a \in Nat /\ a >= 1 /\ a <= ed.dot
  BY <1>0, LineStartFacts
<1>3. b \in Nat /\ b >= ed.dot /\ (b <= Len(ed.text) \/ b = ed.dot)
  BY <1>0, LineEndFacts
<1>4. yes \in BOOLEAN /\ g \in Char
  BY AtHand
<1> HIDE DEF a, b, yes
<1>5. a \in 1 .. Len(ed.text) + 1 /\ b \in 1 .. Len(ed.text) + 1 /\ a \in Int /\ b \in Int
  <2> DEFINE k == Len(ed.text)
             d == ed.dot
  <2>1. k \in Nat /\ d \in 1 .. k + 1 /\ a \in Nat /\ a >= 1 /\ a <= d /\ b \in Nat /\ b >= d /\ (b <= k \/ b = d)
    BY <1>2, <1>3, AtHand
  <2> HIDE DEF k, d
  <2>2. a \in 1 .. k + 1 /\ b \in 1 .. k + 1
    BY ONLY <2>1
  <2>3. QED BY <1>2, <1>3, <2>2 DEF k
<1>6. After(ed, f) /\ f.dot \in 1 .. Len(f.text) + 1
  BY <1>4, <1>5, AtHand, YankFacts
<1>7. QED BY <1>1, <1>6

LEMMA DeleteLineKeeps == ASSUME IInv, DeleteLine PROVE IInv'
<1>1. Command
  BY DEF DeleteLine
<1>2. PICK g \in Garbage :
        LET e == YankLine("new", g) IN Ends(SkipBlanks(DotTo(e, LineStart(e.text, e.dot))), mode)
  BY DEF DeleteLine
<1> DEFINE e == YankLine("new", g)
           p == LineStart(e.text, e.dot)
<1>3. After(ed, e)
  BY YankLineFacts
<1>4. Ends(SkipBlanks(DotTo(e, p)), mode)
  BY <1>2
<1> HIDE DEF e
<1>5. e \in Sound /\ e.text \in Seq(Char) /\ e.dot \in Int
  BY <1>3, SoundIsWide, WideFields DEF After
<1>6. p \in Nat
  BY <1>5, LineStartFacts
<1> HIDE DEF p
<1>7. After(e, DotTo(e, p)) /\ DotTo(e, p).dot \in Nat /\ DotTo(e, p) \in Sound
  <2>1. p \in Int
    BY <1>6
  <2>2. After(e, DotTo(e, p)) /\ DotTo(e, p).dot = p
    BY <1>5, <2>1, DotToFacts
  <2>3. QED BY <1>6, <2>2 DEF After
<1>8. After(DotTo(e, p), SkipBlanks(DotTo(e, p)))
  BY <1>7, BlanksFacts
<1>9. After(ed, SkipBlanks(DotTo(e, p)))
  BY <1>3, <1>5, <1>7, <1>8, AtHand, AfterThrough
<1>10. QED BY <1>1, <1>4, <1>9, AtHand, LandsAfter

LEMMA ChangeLineKeeps == ASSUME IInv, ChangeLine PROVE IInv'
<1>1. Command
  BY DEF ChangeLine
<1>2. PICK g \in Garbage :
        LET e == CharInsert(YankLine("new", g), "nl")
        IN Ends(IF e.dot = Len(e.text) THEN e ELSE DotTo(e, PrevLine(e.text, e.dot)), "insert")
  BY DEF ChangeLine
<1> DEFINE y == YankLine("new", g)
           e == CharInsert(y, "nl")
           f == IF e.dot = Len(e.text) THEN e ELSE DotTo(e, PrevLine(e.text, e.dot))
<1>3. Ends(f, "insert")
  BY <1>2
<1>4. After(ed, y) /\ y.dot \in 1 .. Len(y.text) + 1
  BY YankLineFacts
<1> HIDE DEF y
<1>5. y \in Sound /\ Len(y.text) \in Nat /\ "nl" \in Char
  BY <1>4, SoundIsWide, WideFields DEF After, Char
<1>6. After(y, e) /\ e.dot = y.dot + 1 /\ Len(e.text) = Len(y.text) + 1
  BY <1>4, <1>5, CharFacts
<1> HIDE DEF e
<1>7. e \in Sound /\ e.text \in Seq(Char)
  BY <1>6, SoundIsWide, WideFields DEF After
<1>8. e.dot \in 1 .. Len(e.text) + 1
  BY <1>4, <1>5, <1>6
<1>9. PrevLine(e.text, e.dot) \in Int
  BY <1>7, <1>8, LineMoves
<1>10. After(e, f)
  BY <1>7, <1>9, AfterAgain, DotToFacts
<1> HIDE DEF f
<1>11. After(ed, f)
  BY <1>4, <1>5, <1>6, <1>7, <1>10, AtHand, AfterThrough
<1>12. QED BY <1>1, <1>3, <1>11, LandsAfter
LEMMA DotSideFacts ==
  ASSUME NEW e \in Sound, e.dot \in 1 .. Len(e.text) + 1
  PROVE  /\ After(e, DotRight(e)) /\ DotRight(e).text = e.text /\ DotRight(e).dot \in 1 .. Len(e.text) + 1
         /\ After(e, DotLeft(e)) /\ DotLeft(e).queue = NoQueue /\ DotRight(e).queue = NoQueue
<1> DEFINE k == Len(e.text)
           d == e.dot
           r == IF d < k /\ e.text[d] # "nl" THEN d + 1 ELSE d
           l == IF d > 1 /\ e.text[d - 1] # "nl" THEN d - 1 ELSE d
<1>1. k \in Nat /\ d \in 1 .. k + 1
  BY SoundIsWide, WideFields
<1>2. DotRight(e) = DotTo(e, r) /\ DotLeft(e) = DotTo(e, l)
  BY DEF DotRight, DotLeft
<1>3. r \in 1 .. k + 1 /\ r \in Int /\ l \in Int
  <2> HIDE DEF k, d
  <2>1. (d < k => d + 1 \in 1 .. k + 1) /\ d \in Int /\ d + 1 \in Int /\ d - 1 \in Int
    BY ONLY <1>1
  <2>2. QED BY <1>1, <2>1
<1> HIDE DEF r, l
<1>4. QED BY <1>2, <1>3, DotToFacts

LEMMA PutKeeps == ASSUME IInv, Put PROVE IInv'
<1>1. Command
  BY DEF Put
<1> DEFINE s == ed.reg.chars
           last == LineEnd(ed.text, ed.dot) = Len(ed.text)
           place(before) ==
             CASE ed.reg.whole /\ before  -> DotTo(ed, LineStart(ed.text, ed.dot))
               [] ed.reg.whole /\ ~before -> IF last THEN [ed EXCEPT !.dot = Len(ed.text) + 1]
                                             ELSE DotTo(ed, NextLine(ed.text, ed.dot))
               [] ~ed.reg.whole          -> IF before THEN ed ELSE DotRight(ed)
           onward == IF ed.reg.whole \/ \E i \in DOMAIN s : s[i] = "nl" THEN 0 ELSE Len(s) - 1
<1>2. PICK before \in BOOLEAN :
        Ends(SkipBlanks([StringInsert(place(before), s, "new") EXCEPT !.dot = @ + onward]), mode)
  BY DEF Put
<1>3. s \in Seq(Char) /\ s # << >>
  BY AtHand, WideFields DEF Put
<1>4. onward \in Nat
  <2>1. Len(s) \in Nat /\ Len(s) # 0
    BY <1>3
  <2>2. QED BY <2>1
<1> DEFINE e == place(before)
           put == StringInsert(e, s, "new")
           f == [put EXCEPT !.dot = @ + onward]
<1>5. Ends(SkipBlanks(f), mode)
  BY <1>2
<1>6. After(ed, e) /\ e.text = ed.text /\ e.dot \in 1 .. Len(ed.text) + 1
  <2> DEFINE a == LineStart(ed.text, ed.dot)
             b == NextLine(ed.text, ed.dot)
             c == Len(ed.text) + 1
  <2>1. /\ ed.text \in Seq(Char) /\ Len(ed.text) \in Nat /\ ed.dot \in 1 .. Len(ed.text) + 1 /\ ed.dot \in Int
        /\ ed.dot >= 1 /\ ed \in Sound
    BY AtHand
  <2>2. a \in Nat /\ a >= 1 /\ a <= ed.dot /\ b \in 1 .. Len(ed.text) + 1
    BY <2>1, LineStartFacts, LineMoves
  <2>3. a \in 1 .. c /\ b \in 1 .. c /\ c \in 1 .. c /\ a \in Int /\ b \in Int /\ c \in Int
    <3> DEFINE k == Len(ed.text)
               d == ed.dot
    <3>1. k \in Nat /\ d \in 1 .. k + 1 /\ a \in Nat /\ a >= 1 /\ a <= d /\ b \in 1 .. k + 1
      BY <2>1, <2>2
    <3> HIDE DEF k, d, a, b
    <3>2. a \in 1 .. k + 1 /\ b \in 1 .. k + 1 /\ k + 1 \in 1 .. k + 1 /\ a \in Int /\ b \in Int /\ k + 1 \in Int
      BY ONLY <3>1
    <3>3. QED BY <3>2 DEF k
  <2> HIDE DEF a, b, c
  <2>4. After(ed, DotTo(ed, a)) /\ DotTo(ed, a).text = ed.text /\ DotTo(ed, a).dot \in 1 .. c
    BY <2>1, <2>3, DotToFacts
  <2>5. After(ed, DotTo(ed, b)) /\ DotTo(ed, b).text = ed.text /\ DotTo(ed, b).dot \in 1 .. c
    BY <2>1, <2>3, DotToFacts
  <2>6. LET h == [ed EXCEPT !.dot = c] IN After(ed, h) /\ h.text = ed.text /\ h.dot \in 1 .. c
    BY <2>1, <2>3, AfterDot
  <2>7. After(ed, ed) /\ ed.dot \in 1 .. c
    BY <2>1, AfterAgain DEF c
  <2>8. After(ed, DotRight(ed)) /\ DotRight(ed).text = ed.text /\ DotRight(ed).dot \in 1 .. c
    BY <2>1, DotSideFacts DEF c
  <2>9. ed.reg.whole \in BOOLEAN
    BY AtHand, WideFields
  <2>10. CASE ed.reg.whole
    <3>1. e = IF before THEN DotTo(ed, a) ELSE IF last THEN [ed EXCEPT !.dot = c] ELSE DotTo(ed, b)
      BY <2>10 DEF a, b, c
    <3>2. QED BY <2>4, <2>5, <2>6, <3>1 DEF c
  <2>11. CASE ~ed.reg.whole
    <3>1. e = IF before THEN ed ELSE DotRight(ed)
      BY <2>11
    <3>2. QED BY <2>7, <2>8, <3>1 DEF c
  <2>12. QED BY <2>10, <2>11
<1> HIDE DEF e, s, onward
<1>7. e \in Sound /\ e.text # << >> /\ e.dot \in 1 .. Len(e.text) + 1 /\ e.dot \in Nat
  <2>1. e.dot \in Nat
    BY <1>6, AtHand
  <2>2. ed.text # << >>
    BY AtHand DEF Put
  <2>3. QED BY <1>6, <2>1, <2>2 DEF After
<1>8. After(e, put) /\ put.dot = e.dot
  BY <1>3, <1>7, InsertFacts
<1> HIDE DEF put
<1>9. put \in Sound
  BY <1>8 DEF After
<1>10. After(put, f) /\ f.dot \in Nat
  <2> DEFINE d == put.dot + onward
  <2>1. d \in Int /\ d \in Nat
    BY <1>4, <1>7, <1>8
  <2>2. f = [put EXCEPT !.dot = d]
    OBVIOUS
  <2> HIDE DEF d, f
  <2>3. QED BY <1>9, <2>1, <2>2, AfterDot
<1> HIDE DEF f
<1>11. f \in Sound
  BY <1>10 DEF After
<1>12. After(f, SkipBlanks(f))
  BY <1>10, <1>11, BlanksFacts
<1>13. After(ed, SkipBlanks(f))
  BY <1>6, <1>7, <1>8, <1>9, <1>10, <1>11, <1>12, AtHand, AfterThrough
<1>14. QED BY <1>1, <1>5, <1>13, AtHand, LandsAfter

LEMMA JoinKeeps == ASSUME IInv, Join PROVE IInv'
<1>1. Command
  BY DEF Join
<1> DEFINE step == [e \in State |-> JoinOne(e)]
           P == { x \in Sound : After(ed, x) /\ x.dot \in 1 .. Len(x.text) + 1 }
<1>2. PICK n \in 1 .. MaxCount : Ends(Times(n, step, ed), mode)
  BY DEF Join
<1>3. n \in Nat
  BY AtHand
<1>4. ed \in P
  BY AtHand, AfterAgain
<1>5. ASSUME NEW x \in P PROVE step[x] \in P
  <2>1. x \in Sound /\ x \in State /\ After(ed, x) /\ x.dot \in 1 .. Len(x.text) + 1
    BY StateFacts, Limits
  <2>2. step[x] = JoinOne(x)
    BY <2>1
  <2> HIDE DEF step
  <2>3. After(x, step[x]) /\ step[x].dot \in 1 .. Len(step[x].text) + 1
    BY <2>1, <2>2, JoinFacts
  <2>4. After(ed, step[x]) /\ step[x] \in Sound
    BY <2>1, <2>3, AtHand, AfterThrough DEF After
  <2>5. QED BY <2>3, <2>4
<1>6. Times(n, step, ed) \in P
  <2> HIDE DEF P, step
  <2>1. QED BY <1>3, <1>4, <1>5, TimesKeep
<1>7. After(ed, Times(n, step, ed))
  BY <1>6
<1> HIDE DEF step
<1>8. QED BY <1>1, <1>2, <1>7, AtHand, LandsAfter

LEMMA FlipCaseKeeps == ASSUME IInv, FlipCase PROVE IInv'
<1>1. Command /\ ed.dot <= Len(ed.text)
  BY DEF FlipCase
<1> DEFINE step == [e \in State |-> FlipOne(e, How(ed, e))]
           P == { x \in Sound : After(ed, x) /\ x.dot \in 1 .. Len(x.text) }
<1>2. PICK n \in 1 .. MaxCount : Ends(Times(n, step, ed), mode)
  BY DEF FlipCase
<1>3. n \in Nat
  BY AtHand
<1>4. ed \in P
  <2>1. ed.dot \in 1 .. Len(ed.text)
    BY <1>1, AtHand
  <2>2. QED BY <2>1, AtHand, AfterAgain
<1>5. ASSUME NEW x \in P PROVE step[x] \in P
  <2>1. x \in Sound /\ x \in State /\ After(ed, x) /\ x.dot \in 1 .. Len(x.text)
    BY StateFacts, Limits
  <2>2. step[x] = FlipOne(x, How(ed, x))
    BY <2>1
  <2> HIDE DEF step
  <2>3. After(x, step[x]) /\ step[x].dot \in 1 .. Len(step[x].text)
    BY <2>1, <2>2, HowFacts, FlipFacts
  <2>4. After(ed, step[x]) /\ step[x] \in Sound
    BY <2>1, <2>3, AtHand, AfterThrough DEF After
  <2>5. QED BY <2>3, <2>4
<1>6. Times(n, step, ed) \in P
  <2> HIDE DEF P, step
  <2>1. QED BY <1>3, <1>4, <1>5, TimesKeep
<1>7. After(ed, Times(n, step, ed))
  BY <1>6
<1> HIDE DEF step
<1>8. QED BY <1>1, <1>2, <1>7, AtHand, LandsAfter

LEMMA ReplaceKeeps == ASSUME IInv, Replace PROVE IInv'
<1>1. Command
  BY DEF Replace
<1> DEFINE d == ed.dot
           h == HoleDelete(ed, d, d, "new", "nl")
<1>2. PICK c \in Typed : Ends(DotLeft(CharInsert(h, c)), mode)
  BY DEF Replace
<1>3. ed \in Sound /\ d \in Int /\ d <= d /\ "nl" \in Char /\ c \in Char /\ d \in 1 .. Len(ed.text) + 1
  BY AtHand DEF Char
<1> HIDE DEF d
<1>4. Holed(ed, h, d, d)
  BY <1>3, HoleFacts
<1> HIDE DEF h
<1>5. After(ed, h) /\ h \in Sound /\ h.dot \in 1 .. Len(h.text) + 1 /\ Len(h.text) \in Nat
  <2>1. After(ed, h) /\ h \in Sound /\ h.dot \in 1 .. Len(h.text) + 1
    BY <1>3, <1>4 DEF Holed, After
  <2>2. QED BY <2>1, SoundIsWide, WideFields
<1> DEFINE e == CharInsert(h, c)
<1>6. After(h, e) /\ e.dot = h.dot + 1 /\ Len(e.text) = Len(h.text) + 1
  BY <1>3, <1>5, CharFacts
<1>7. Ends(DotLeft(e), mode)
  BY <1>2
<1> HIDE DEF e
<1>8. e \in Sound /\ e.dot \in 1 .. Len(e.text) + 1
  BY <1>5, <1>6 DEF After
<1>9. After(e, DotLeft(e))
  BY <1>8, DotSideFacts
<1>10. After(ed, DotLeft(e))
  BY <1>5, <1>6, <1>8, <1>9, AtHand, AfterThrough
<1>11. QED BY <1>1, <1>7, <1>10, AtHand, LandsAfter
LEMMA StartInsertingKeeps == ASSUME IInv, StartInserting PROVE IInv'
<1>1. Command
  BY DEF StartInserting
<1> DEFINE a == LineStart(ed.text, ed.dot)
           b == LineEnd(ed.text, ed.dot)
<1>2. PICK from \in {DotTo(ed, ed.dot), DotTo(ed, b), SkipBlanks(DotTo(ed, a))}, m \in {"insert", "replace"},
           after \in BOOLEAN, g \in Garbage :
        Ends(IF after /\ Seen(from, from.dot, g) # "nl" THEN [from EXCEPT !.dot = @ + 1] ELSE from, m)
  BY DEF StartInserting
<1>3. /\ ed \in Sound /\ ed.dot \in Int /\ ed.dot \in Nat /\ ed.dot >= 1 /\ ed.text \in Seq(Char)
  BY AtHand
<1>4. a \in Nat /\ b \in Nat /\ a \in Int /\ b \in Int
  <2>1. a \in Nat /\ b \in Nat
    BY <1>3, LineStartFacts, LineEndFacts
  <2> HIDE DEF a, b
  <2>2. QED BY <2>1
<1> HIDE DEF a, b
<1>5. After(ed, from) /\ from.dot \in Int
  <2>1. CASE from = DotTo(ed, ed.dot)
    BY <1>3, <2>1, DotToFacts
  <2>2. CASE from = DotTo(ed, b)
    BY <1>3, <1>4, <2>2, DotToFacts
  <2>3. CASE from = SkipBlanks(DotTo(ed, a))
    <3>1. After(ed, DotTo(ed, a)) /\ DotTo(ed, a).dot \in Nat /\ DotTo(ed, a) \in Sound
      BY <1>3, <1>4, DotToFacts DEF After
    <3>2. After(DotTo(ed, a), from)
      BY <2>3, <3>1, BlanksFacts
    <3>3. After(ed, from)
      BY <1>3, <3>1, <3>2, AfterThrough
    <3>4. from \in Wide
      BY <3>3, SoundIsWide DEF After
    <3>5. QED BY <3>3, <3>4, WideFields
  <2>4. QED BY <2>1, <2>2, <2>3
<1> DEFINE d == from.dot + 1
           next == [from EXCEPT !.dot = d]
           f == IF after /\ Seen(from, from.dot, g) # "nl" THEN next ELSE from
<1>6. Ends(f, m)
  BY <1>2
<1>7. d \in Int /\ from \in Sound
  BY <1>5 DEF After
<1> HIDE DEF d
<1>8. After(from, next)
  BY <1>7, AfterDot
<1>9. After(ed, next)
  BY <1>3, <1>5, <1>7, <1>8, AfterThrough
<1> HIDE DEF next
<1>10. After(ed, f)
  BY <1>5, <1>9
<1>11. m \in {"command", "insert", "replace"}
  OBVIOUS
<1> HIDE DEF f
<1>12. QED BY <1>1, <1>6, <1>10, <1>11, LandsAfter

LEMMA OpenLineKeeps == ASSUME IInv, OpenLine PROVE IInv'
<1>1. Command
  BY DEF OpenLine
<1> DEFINE a == LineStart(ed.text, ed.dot)
           b == LineEnd(ed.text, ed.dot)
           opened(p) == CharInsert(DotTo(ed, p), "nl")
<1>2. ASSUME NEW p \in Int, p \in 1 .. Len(ed.text) + 1
      PROVE  /\ After(ed, opened(p)) /\ opened(p) \in Sound /\ opened(p).dot \in 1 .. Len(opened(p).text) + 1
             /\ opened(p).text \in Seq(Char)
  <2> DEFINE e == DotTo(ed, p)
  <2>1. After(ed, e) /\ e.text = ed.text /\ e.dot = p
    BY <1>2, AtHand, DotToFacts
  <2> HIDE DEF e
  <2>2. e \in Sound /\ e.dot \in 1 .. Len(e.text) + 1 /\ Len(e.text) \in Nat /\ "nl" \in Char
    BY <1>2, <2>1, AtHand DEF After, Char
  <2> DEFINE f == CharInsert(e, "nl")
  <2>3. After(e, f) /\ f.dot = e.dot + 1 /\ Len(f.text) = Len(e.text) + 1
    BY <2>2, CharFacts
  <2>4. f = opened(p)
    BY DEF e
  <2> HIDE DEF f, opened
  <2>5. After(ed, f) /\ f \in Sound /\ f.dot \in 1 .. Len(f.text) + 1
    BY <2>1, <2>2, <2>3, AtHand, AfterThrough DEF After
  <2>6. f.text \in Seq(Char)
    BY <2>5, SoundIsWide, WideFields
  <2>7. QED BY <2>4, <2>5, <2>6
<1>3. a \in 1 .. Len(ed.text) + 1 /\ b \in 1 .. Len(ed.text) + 1 /\ a \in Int /\ b \in Int
  <2>1. ed.dot \in Int /\ ed.dot >= 1 /\ ed.dot \in Nat /\ ed.text \in Seq(Char) /\ Len(ed.text) \in Nat
    BY AtHand
  <2>2. a \in Nat /\ a >= 1 /\ a <= ed.dot
    BY <2>1, LineStartFacts
  <2>3. b \in Nat /\ b >= ed.dot /\ (b <= Len(ed.text) \/ b = ed.dot)
    BY <2>1, LineEndFacts
  <2> DEFINE k == Len(ed.text)
             d == ed.dot
  <2>4. k \in Nat /\ d \in 1 .. k + 1 /\ a \in Nat /\ a >= 1 /\ a <= d /\ b \in Nat /\ b >= d /\ (b <= k \/ b = d)
    BY <2>1, <2>2, <2>3, AtHand
  <2> HIDE DEF k, d, a, b
  <2>5. a \in 1 .. k + 1 /\ b \in 1 .. k + 1 /\ a \in Int /\ b \in Int
    BY ONLY <2>4
  <2>6. QED BY <2>5 DEF k
<1>4. \/ Ends(opened(b), "insert")
      \/ Ends(DotTo(opened(a), PrevLine(opened(a).text, opened(a).dot)), "insert")
  BY DEF OpenLine
<1> HIDE DEF a, b, opened
<1>5. CASE Ends(opened(b), "insert")
  BY <1>1, <1>2, <1>3, <1>5, LandsAfter
<1>6. CASE Ends(DotTo(opened(a), PrevLine(opened(a).text, opened(a).dot)), "insert")
  <2> DEFINE p == PrevLine(opened(a).text, opened(a).dot)
             f == DotTo(opened(a), p)
  <2>1. After(ed, opened(a)) /\ opened(a) \in Sound /\ p \in Int
    BY <1>2, <1>3, LineMoves
  <2> HIDE DEF p
  <2>2. After(opened(a), f)
    BY <2>1, DotToFacts
  <2>3. After(ed, f)
    BY <2>1, <2>2, AtHand, AfterThrough
  <2>4. Ends(f, "insert")
    BY <1>6 DEF p
  <2> HIDE DEF f
  <2>5. QED BY <1>1, <2>3, <2>4, LandsAfter
<1>7. QED BY <1>4, <1>5, <1>6
-----------------------------------------------------------------------------
(* Every key keeps the invariant. *)

\* What R does before the key itself.
LEMMA ReadyFacts ==
  ASSUME IInv, Inserting, NEW g \in Garbage
  PROVE  /\ After(ed, Ready(g)) /\ Ready(g) \in Sound /\ Ready(g).dot \in 1 .. Len(Ready(g).text) + 1
         /\ Clean(Ready(g)) => Ready(g).text # << >>
         /\ NextMode(g) \in {"insert", "replace"} /\ status = "editing"
<1> DEFINE d == ed.dot
           no == FALSE
           y == YankDelete(ed, d, d, no, "new", g)
<1>1. /\ ed \in Sound /\ d \in Int /\ d \in 1 .. Len(ed.text) + 1 /\ g \in Char /\ no \in BOOLEAN /\ ~no
      /\ mode \in {"insert", "replace"} /\ status = "editing" /\ ed.text # << >>
  BY AtHand DEF Inserting
<1>2. Overtyped(g) = IF mode = "replace" THEN y ELSE ed
  BY DEF Overtyped
<1>3. NextMode(g) \in {"insert", "replace"}
  BY <1>1 DEF NextMode
<1>4. d \in 1 .. Len(ed.text) + 1
  BY <1>1
<1>5. After(ed, ed) /\ ed.dot \in 1 .. Len(ed.text) + 1
  BY AtHand, AfterAgain
<1> HIDE DEF d, no
<1>6. After(ed, y) /\ y.dot \in 1 .. Len(y.text) + 1 /\ (Clean(y) => y.text # << >>)
  BY <1>1, YankFacts
<1> HIDE DEF y
<1>7. /\ After(ed, Commit(ed)) /\ Commit(ed).dot \in 1 .. Len(Commit(ed).text) + 1 /\ Commit(ed).text # << >>
  BY <1>1, <1>5, CommitAfter
<1>8. Ready(g) \in {ed, y, Commit(ed)}
  BY <1>2 DEF Ready
<1>9. /\ After(ed, Ready(g)) /\ Ready(g).dot \in 1 .. Len(Ready(g).text) + 1
      /\ Clean(Ready(g)) => Ready(g).text # << >>
  BY <1>1, <1>5, <1>6, <1>7, <1>8
<1>10. QED BY <1>1, <1>3, <1>9 DEF After

LEMMA TypeKeeps == ASSUME IInv, Type PROVE IInv'
<1>1. PICK c \in Typed, g \in Garbage : Ends(CharInsert(Ready(g), c), NextMode(g))
  BY DEF Type
<1> DEFINE e == Ready(g)
           m == NextMode(g)
           f == CharInsert(e, c)
<1>2. Ends(f, m)
  BY <1>1
<1>3. /\ After(ed, e) /\ e \in Sound /\ e.dot \in 1 .. Len(e.text) + 1 /\ m \in {"insert", "replace"}
      /\ status = "editing" /\ c \in Char
  BY AtHand, ReadyFacts DEF Type
<1> HIDE DEF e, m
<1>4. After(e, f)
  BY <1>3, CharFacts
<1>5. After(ed, f)
  BY <1>3, <1>4, AtHand, AfterThrough
<1> HIDE DEF f
<1>6. f \in Sound /\ Follows(ed, f) /\ m \in {"command", "insert", "replace"} /\ m # "command"
  BY <1>3, <1>5 DEF After
<1>7. QED BY <1>2, <1>3, <1>6, Lands

LEMMA TypeLiteralKeeps == ASSUME IInv, TypeLiteral PROVE IInv'
<1>1. PICK g \in Garbage :
        Ends(LiteralInsert(Ready(g), "a", IF NextMode(g) = "replace" THEN "chain" ELSE "queued"), NextMode(g))
  BY DEF TypeLiteral
<1> DEFINE e == Ready(g)
           m == NextMode(g)
           c == "a"
<1>2. /\ After(ed, e) /\ e \in Sound /\ e.dot \in 1 .. Len(e.text) + 1 /\ m \in {"insert", "replace"}
      /\ status = "editing" /\ c \in Char /\ (Clean(e) => e.text # << >>)
  BY ReadyFacts DEF TypeLiteral, Char
<1>3. \/ m = "replace" /\ Ends(LiteralInsert(e, c, "chain"), m)
      \/ Ends(LiteralInsert(e, c, "queued"), m)
  BY <1>1
<1> HIDE DEF e, m, c
<1>4. ed \in Wide /\ e \in Wide /\ Follows(ed, e)
  BY <1>2, AtHand, SoundIsWide DEF After
<1>5. LiteralInsert(e, c, "queued") \in Sound /\ Follows(e, LiteralInsert(e, c, "queued"))
  BY <1>2, LiteralFacts
<1>6. LiteralInsert(e, c, "chain") \in Sound /\ Follows(e, LiteralInsert(e, c, "chain"))
  <2> DEFINE s == <<c>>
             l == StringInsert(e, s, "chain")
             d == l.dot + 1
             f == [l EXCEPT !.dot = d]
  <2>1. LiteralInsert(e, c, "chain") = f
    BY DEF LiteralInsert
  <2>2. s \in Seq(Char)
    BY <1>2
  <2> HIDE DEF s
  <2>3. After(e, l) /\ l.dot = e.dot
    BY <1>2, <2>2, InsertFacts
  <2> HIDE DEF l
  <2>4. l \in Sound
    BY <2>3 DEF After
  <2>5. d \in Int
    BY <1>4, <2>3, WideFields
  <2> HIDE DEF d
  <2>6. After(l, f)
    BY <2>4, <2>5, AfterDot
  <2> HIDE DEF f
  <2>7. After(e, f)
    BY <1>2, <2>3, <2>6, AfterThrough
  <2>8. QED BY <2>1, <2>7 DEF After
<1>7. m \in {"command", "insert", "replace"} /\ m # "command"
  BY <1>2
<1>8. ASSUME NEW f \in Sound, Follows(e, f), Ends(f, m) PROVE IInv'
  <2>1. f \in Wide
    BY SoundIsWide
  <2>2. Follows(ed, f)
    BY <1>4, <1>8, <2>1, FollowsThrough
  <2>3. QED BY <1>2, <1>7, <1>8, <2>2, Lands
<1>9. QED BY <1>3, <1>5, <1>6, <1>8

LEMMA TypeBackspaceKeeps == ASSUME IInv, TypeBackspace PROVE IInv'
<1>1. PICK g \in Garbage : Ends(Backspace(Ready(g)), NextMode(g))
  BY DEF TypeBackspace
<1> DEFINE e == Ready(g)
           m == NextMode(g)
           f == Backspace(e)
<1>2. Ends(f, m)
  BY <1>1
<1>3. /\ After(ed, e) /\ e \in Sound /\ e.dot \in 1 .. Len(e.text) + 1 /\ m \in {"insert", "replace"}
      /\ status = "editing"
  BY ReadyFacts DEF TypeBackspace
<1> HIDE DEF e, m
<1>4. f \in Sound /\ Follows(e, f)
  BY <1>3, BackspaceFacts
<1> HIDE DEF f
<1>5. ed \in Wide /\ e \in Wide /\ f \in Wide /\ Follows(ed, e)
  BY <1>3, <1>4, AtHand, SoundIsWide DEF After
<1>6. Follows(ed, f) /\ m \in {"command", "insert", "replace"} /\ m # "command"
  BY <1>3, <1>4, <1>5, FollowsThrough
<1>7. QED BY <1>2, <1>3, <1>4, <1>6, Lands

LEMMA TypeEscapeKeeps == ASSUME IInv, TypeEscape PROVE IInv'
<1>1. Ends(Escape(ed), "command") /\ status = "editing"
  BY DEF TypeEscape, Inserting
<1> DEFINE l == Commit(ed)
           d == l.dot - 1
           f == [l EXCEPT !.dot = d]
<1>2. After(ed, l) /\ l.queue = NoQueue /\ l.dot = ed.dot
  BY AtHand, CommitAfter
<1>3. Escape(ed) \in {l, f}
  BY DEF Escape
<1> HIDE DEF l
<1>4. l \in Sound /\ d \in Int
  BY <1>2, AtHand DEF After
<1> HIDE DEF d
<1>5. After(l, f) /\ f.queue = NoQueue
  BY <1>2, <1>4, AfterDot
<1>6. After(ed, f)
  BY <1>2, <1>4, <1>5, AtHand, AfterThrough
<1> HIDE DEF f
<1>7. Escape(ed) \in Sound /\ Follows(ed, Escape(ed)) /\ Escape(ed).queue = NoQueue
  BY <1>2, <1>3, <1>5, <1>6 DEF After
<1>8. QED BY <1>1, <1>7, Lands

LEMMA CursorCommitsKeeps == ASSUME IInv, CursorCommits PROVE IInv'
<1>1. PICK e \in {DotLeft(ed), DotRight(ed), DotTo(ed, LineStart(ed.text, ed.dot))} : Ends(e, mode)
  BY DEF CursorCommits
<1>2. status = "editing" /\ ed \in Sound /\ ed.dot \in 1 .. Len(ed.text) + 1 /\ ed.text \in Seq(Char) /\ ed.dot \in Int
  BY AtHand DEF CursorCommits, Inserting
<1>3. LineStart(ed.text, ed.dot) \in Int
  <2>1. LineStart(ed.text, ed.dot) \in Nat
    BY <1>2, LineStartFacts
  <2>2. QED BY <2>1
<1>4. After(ed, e) /\ e.queue = NoQueue
  BY <1>2, <1>3, DotSideFacts, DotToFacts
<1>5. e \in Sound /\ Follows(ed, e)
  BY <1>4 DEF After
<1>6. QED BY <1>1, <1>2, <1>4, <1>5, AtHand, Lands

LEMMA CursorMovesKeeps == ASSUME IInv, CursorMoves PROVE IInv'
<1>1. PICK p \in 1 .. Len(ed.text) : Ends([ed EXCEPT !.dot = p], mode)
  BY DEF CursorMoves
<1> DEFINE f == [ed EXCEPT !.dot = p]
<1>2. status = "editing" /\ ed \in Sound /\ mode # "command"
  BY AtHand DEF CursorMoves, Inserting
<1>3. After(ed, f)
  BY <1>2, AtHand, AfterDot
<1>4. f \in Sound /\ Follows(ed, f)
  BY <1>3 DEF After
<1>5. Ends(f, mode)
  BY <1>1
<1> HIDE DEF f
<1>6. QED BY <1>2, <1>4, <1>5, AtHand, Lands

LEMMA KeyDeleteKeeps == ASSUME IInv, KeyDelete PROVE IInv'
<1> DEFINE d == ed.dot
           no == FALSE
           f == YankDelete(ed, d, d, no, "new", "nl")
<1>1. status = "editing" /\ Ends(f, mode)
  BY DEF KeyDelete
<1>2. ed \in Sound /\ d \in Int /\ no \in BOOLEAN /\ "nl" \in Char
  BY AtHand DEF Char
<1> HIDE DEF d, no
<1>3. After(ed, f)
  BY <1>2, YankFacts
<1> HIDE DEF f
<1>4. f \in Sound /\ Follows(ed, f) /\ (mode = "command" => f.queue = NoQueue)
  BY <1>3, AtHand DEF After, Quiet
<1>5. QED BY <1>1, <1>4, AtHand, Lands

LEMMA KeyInsertKeeps == ASSUME IInv, KeyInsert PROVE IInv'
<1> DEFINE m == IF mode = "insert" THEN "replace" ELSE "insert"
<1>1. status = "editing" /\ Ends(Commit(ed), m)
  BY DEF KeyInsert, Inserting
<1>2. Commit(ed) \in Sound /\ Follows(ed, Commit(ed))
  BY AtHand, CommitAfter DEF After
<1>3. m \in {"command", "insert", "replace"} /\ m # "command"
  OBVIOUS
<1> HIDE DEF m
<1>4. QED BY <1>1, <1>2, <1>3, Lands

-----------------------------------------------------------------------------
(* Taking back. *)

Result == [ok : BOOLEAN, text : Seq(Char)]
IsBack(back, s, t, n) ==
  back = [i \in 0 .. n |-> IF i = 0 THEN [ok |-> TRUE, text |-> t] ELSE Revert(s[Len(s) - i + 1], back[i - 1])]

LEMMA BackExists ==
  ASSUME NEW s, NEW t, NEW n \in Nat
  PROVE  \E back : IsBack(back, s, t, n)
<1> DEFINE e == [ok |-> TRUE, text |-> t]
           rev(i, r) == Revert(s[Len(s) - i + 1], r)
           Has(k) == \E back : back = [i \in 0 .. k |-> IF i = 0 THEN e ELSE rev(i, back[i - 1])]
           T == { k \in Nat : Has(k) }
<1> HIDE DEF e, rev
<1>1. Has(0)
  <2> DEFINE back == [i \in 0 .. 0 |-> e]
  <2>1. back = [i \in 0 .. 0 |-> IF i = 0 THEN e ELSE rev(i, back[i - 1])]
    OBVIOUS
  <2>2. QED BY <2>1
<1>2. ASSUME NEW k \in Nat, Has(k) PROVE Has(k + 1)
  <2>1. PICK old : old = [i \in 0 .. k |-> IF i = 0 THEN e ELSE rev(i, old[i - 1])]
    BY <1>2
  <2> DEFINE back == [i \in 0 .. k + 1 |-> IF i <= k THEN old[i] ELSE rev(i, old[k])]
  <2>2. ASSUME NEW i \in 0 .. k + 1 PROVE back[i] = IF i = 0 THEN e ELSE rev(i, back[i - 1])
    <3>1. CASE i = 0
      <4>1. i \in 0 .. k /\ i <= k
        BY <3>1
      <4>2. old[i] = e
        BY <2>1, <3>1, <4>1
      <4>3. QED BY <3>1, <4>1, <4>2
    <3>2. CASE i # 0 /\ i <= k
      <4>1. i \in 0 .. k /\ i - 1 \in 0 .. k + 1 /\ i - 1 <= k
        BY <3>2
      <4>2. old[i] = rev(i, old[i - 1])
        BY <2>1, <3>2, <4>1
      <4>3. back[i] = old[i] /\ back[i - 1] = old[i - 1]
        BY <3>2, <4>1
      <4>4. QED BY <3>2, <4>2, <4>3
    <3>3. CASE i = k + 1
      <4>1. i - 1 = k /\ k \in 0 .. k + 1 /\ k <= k /\ ~(i <= k) /\ i # 0
        BY <3>3
      <4>2. back[k] = old[k] /\ back[i] = rev(i, old[k])
        BY <4>1
      <4>3. QED BY <4>1, <4>2
    <3>4. QED BY <3>1, <3>2, <3>3
  <2>3. back = [i \in 0 .. k + 1 |-> back[i]]
    OBVIOUS
  <2> HIDE DEF back
  <2>4. back = [i \in 0 .. k + 1 |-> IF i = 0 THEN e ELSE rev(i, back[i - 1])]
    BY <2>2, <2>3
  <2>5. QED BY <2>4
<1> HIDE DEF Has
<1>3. 0 \in T /\ \A k \in Nat : k \in T => k + 1 \in T
  BY <1>1, <1>2
<1> HIDE DEF T
<1>4. n \in T
  BY <1>3, SetInduction
<1>5. QED BY <1>4 DEF T, Has, IsBack, e, rev

\* Taking back runs through the entries from the last.
LEMMA BackSteps ==
  ASSUME NEW s \in Seq(Entry), NEW t
  PROVE  \E back : /\ TakenBack(s, t) = back[Len(s)] /\ back[0] = [ok |-> TRUE, text |-> t]
                   /\ \A i \in 1 .. Len(s) : back[i] = Revert(s[Len(s) - i + 1], back[i - 1])
<1> DEFINE n == Len(s)
           back == CHOOSE f : IsBack(f, s, t, n)
<1>1. TakenBack(s, t) = back[n]
  BY DEF TakenBack, IsBack
<1>2. n \in Nat
  OBVIOUS
<1>3. IsBack(back, s, t, n)
  <2> HIDE DEF n
  <2>1. \E f : IsBack(f, s, t, n)
    BY <1>2, BackExists
  <2>2. QED BY <2>1
<1> HIDE DEF back
<1>4. \A i \in 0 .. n : back[i] = IF i = 0 THEN [ok |-> TRUE, text |-> t] ELSE Revert(s[Len(s) - i + 1], back[i - 1])
  BY <1>3 DEF IsBack
<1>5. 0 \in 0 .. n /\ \A i \in 1 .. n : i \in 0 .. n /\ i # 0
  BY <1>2
<1>6. back[0] = [ok |-> TRUE, text |-> t] /\ \A i \in 1 .. n : back[i] = Revert(s[Len(s) - i + 1], back[i - 1])
  <2> HIDE DEF n
  <2>1. QED BY <1>4, <1>5
<1>7. QED BY <1>1, <1>6

LEMMA RevertFacts ==
  ASSUME NEW entry \in Entry, NEW r \in Result
  PROVE  Revert(entry, r) \in Result
<1>1. CASE r.ok /\ HasPlace(entry, r.text)
  <2>1. entry.at \in Int /\ entry.len \in Nat /\ entry.chars \in Seq(Char) /\ entry.kind \in {"ins", "del"}
    BY DEF Entry
  <2>2. r.text \in Seq(Char) /\ Len(r.text) \in Nat
    BY DEF Result
  <2>3. Undone(entry, r.text) \in Seq(Char)
    <3>1. CASE entry.kind = "del"
      <4>1. entry.at \in 1 .. Len(r.text) + 1
        BY <1>1, <2>1, <2>2, <3>1 DEF HasPlace
      <4>2. Paste(r.text, entry.at, entry.chars) \in Seq(Char)
        BY <2>1, <2>2, <4>1, PasteFacts
      <4>3. QED BY <3>1, <4>2 DEF Undone
    <3>2. CASE entry.kind # "del"
      <4> DEFINE p == entry.at
                 q == p + entry.len - 1
      <4>1. p >= 1 /\ p + entry.len <= Len(r.text) + 1
        BY <1>1, <3>2 DEF HasPlace
      <4>2. p \in Int /\ q \in Int /\ 1 <= p /\ p <= q + 1 /\ q <= Len(r.text)
        <5> DEFINE k == Len(r.text)
                   l == entry.len
        <5>1. p \in Int /\ l \in Nat /\ k \in Nat /\ p >= 1 /\ p + l <= k + 1
          BY <2>1, <2>2, <4>1
        <5> HIDE DEF k, l, p
        <5>2. p + l - 1 \in Int /\ 1 <= p /\ p <= p + l - 1 + 1 /\ p + l - 1 <= k
          BY ONLY <5>1
        <5>3. QED BY <5>1, <5>2 DEF k, l
      <4>3. Undone(entry, r.text) = Cut(r.text, p, q)
        BY <3>2 DEF Undone
      <4> HIDE DEF p, q
      <4>4. QED BY <2>2, <4>2, <4>3, CutFacts
    <3>3. QED BY <3>1, <3>2
  <2>4. Revert(entry, r) = [r EXCEPT !.text = Undone(entry, r.text)]
    BY <1>1 DEF Revert
  <2>5. QED BY <2>3, <2>4 DEF Result
<1>2. CASE ~(r.ok /\ HasPlace(entry, r.text))
  <2>1. Revert(entry, r) = [r EXCEPT !.ok = FALSE]
    BY <1>2 DEF Revert
  <2>2. QED BY <2>1 DEF Result
<1>3. QED BY <1>1, <1>2

LEMMA BackTypes ==
  ASSUME NEW s \in Seq(Entry), NEW t \in Seq(Char)
  PROVE  TakenBack(s, t) \in Result
<1>8. \A x : \E back : /\ TakenBack(s, x) = back[Len(s)] /\ back[0] = [ok |-> TRUE, text |-> x]
                       /\ \A i \in 1 .. Len(s) : back[i] = Revert(s[Len(s) - i + 1], back[i - 1])
  BY BackSteps
<1>9. \E back : /\ TakenBack(s, t) = back[Len(s)] /\ back[0] = [ok |-> TRUE, text |-> t]
                /\ \A i \in 1 .. Len(s) : back[i] = Revert(s[Len(s) - i + 1], back[i - 1])
  BY <1>8
<1> DEFINE n == Len(s)
           first == [ok |-> TRUE, text |-> t]
<1>0. first \in Result
  BY DEF Result
<1>1. PICK back : /\ TakenBack(s, t) = back[n] /\ back[0] = first
                  /\ \A i \in 1 .. n : back[i] = Revert(s[n - i + 1], back[i - 1])
  BY <1>9
<1> HIDE DEF first
<1>2. n \in Nat /\ \A i \in 1 .. n : s[i] \in Entry
  OBVIOUS
<1> HIDE DEF n
<1> DEFINE T == { k \in Nat : k <= n => back[k] \in Result }
<1>3. 0 \in T
  BY <1>0, <1>1
<1>4. ASSUME NEW k \in Nat, k \in T PROVE k + 1 \in T
  <2> SUFFICES ASSUME k + 1 <= n PROVE back[k + 1] \in Result
    OBVIOUS
  <2>1. k + 1 \in 1 .. n /\ (k + 1) - 1 = k /\ n - (k + 1) + 1 \in 1 .. n /\ k <= n
    BY <1>2
  <2>2. back[k + 1] = Revert(s[n - (k + 1) + 1], back[k])
    BY <1>1, <2>1
  <2>3. back[k] \in Result /\ s[n - (k + 1) + 1] \in Entry
    BY <1>2, <1>4, <2>1
  <2>4. QED BY <2>2, <2>3, RevertFacts
<1> HIDE DEF T
<1>5. n \in T
  BY <1>2, <1>3, <1>4, SetInduction
<1>6. QED BY <1>1, <1>2, <1>5 DEF T

\* Along a path of texts, every entry has its place, and the first text comes back.
LEMMA BackAlong ==
  ASSUME NEW s \in Seq(Entry), NEW H, \A i \in 1 .. Len(s) : Leads(s[i], H[i], H[i - 1])
  PROVE  TakenBack(s, H[Len(s)]) = [ok |-> TRUE, text |-> H[0]]
<1> DEFINE n == Len(s)
           won(i) == [ok |-> TRUE, text |-> H[i]]
<1>1. PICK back : /\ TakenBack(s, H[n]) = back[n] /\ back[0] = [ok |-> TRUE, text |-> H[n]]
                  /\ \A i \in 1 .. n : back[i] = Revert(s[n - i + 1], back[i - 1])
  BY BackSteps
<1>2. n \in Nat /\ \A i \in 1 .. n : Leads(s[i], H[i], H[i - 1])
  OBVIOUS
<1> HIDE DEF n
<1> DEFINE T == { k \in Nat : k <= n => back[k] = won(n - k) }
<1>3. 0 \in T
  BY <1>1, <1>2
<1>4. ASSUME NEW k \in Nat, k \in T PROVE k + 1 \in T
  <2> SUFFICES ASSUME k + 1 <= n PROVE back[k + 1] = won(n - (k + 1))
    OBVIOUS
  <2> DEFINE j == n - k
  <2>1. k + 1 \in 1 .. n /\ (k + 1) - 1 = k /\ n - (k + 1) + 1 = j /\ j \in 1 .. n /\ k <= n /\ n - (k + 1) = j - 1
    BY <1>2
  <2>2. back[k + 1] = Revert(s[j], back[k])
    BY <1>1, <2>1
  <2>3. back[k] = won(j)
    BY <1>4, <2>1
  <2>4. HasPlace(s[j], H[j]) /\ H[j - 1] = Undone(s[j], H[j])
    BY <1>2, <2>1 DEF Leads
  <2>5. Revert(s[j], won(j)) = won(j - 1)
    BY <2>4 DEF Revert
  <2> HIDE DEF won
  <2>6. QED BY <2>1, <2>2, <2>3, <2>5
<1> HIDE DEF T
<1>5. n \in T
  BY <1>2, <1>3, <1>4, SetInduction
<1>6. back[n] = won(n - n) /\ n - n = 0
  BY <1>2, <1>5 DEF T
<1>7. QED BY <1>1, <1>6 DEF n

-----------------------------------------------------------------------------
(* Undoing, saving and leaving keep the invariant. *)

LEMMA PartOfUndo ==
  ASSUME NEW u \in Seq(Entry), NEW a \in Int, NEW b \in Int, a >= 1, b <= Len(u)
  PROVE  /\ SubSeq(u, a, b) \in Seq(Entry) /\ Len(SubSeq(u, a, b)) = IF a <= b THEN b - a + 1 ELSE 0
         /\ \A i \in 1 .. b - a + 1 : SubSeq(u, a, b)[i] = u[a + i - 1]
<1>1. \A x \in Seq(Entry) : \A m, n \in Int : m >= 1 /\ n <= Len(x) => SubSeq(x, m, n) \in Seq(Entry)
  OBVIOUS
<1>2. \A x \in Seq(Entry) : \A m, n \in Int :
        m >= 1 /\ n <= Len(x) => Len(SubSeq(x, m, n)) = IF m <= n THEN n - m + 1 ELSE 0
  OBVIOUS
<1>3. \A x \in Seq(Entry) : \A m, n \in Int :
        m >= 1 /\ n <= Len(x) => \A i \in 1 .. n - m + 1 : SubSeq(x, m, n)[i] = x[m + i - 1]
  OBVIOUS
<1>4. QED BY ONLY <1>1, <1>2, <1>3, u \in Seq(Entry), a \in Int, b \in Int, a >= 1, b <= Len(u)

LEMMA UndoKeeps == ASSUME IInv, Undo PROVE IInv'
<1> DEFINE u == ed.undo
           n == Len(u)
           k == Max({1} \cup { i \in 1 .. n : ~u[i].chain })
           s == SubSeq(u, k, n)
           r == TakenBack(s, ed.text)
           t == r.text
           d == u[k].at
           w == SubSeq(u, 1, k - 1)
           v == ed.modified - (n - k + 1)
           e == [ed EXCEPT !.text = t, !.dot = d, !.undo = w, !.modified = v]
           neg == e.modified < 0
           f == Slipped(e, neg, "negative")
<1>1. Command /\ status = "editing" /\ mode = "command" /\ u # << >> /\ r.ok /\ Ends(f, mode)
  BY DEF Undo, Command
<1>2. ed \in Sound /\ ed \in Wide /\ ed.queue = NoQueue /\ ed.text \in Seq(Char) /\ ed.text # << >> /\ TypeOK
  BY <1>1, AtHand DEF IInv
<1>3. u \in Seq(Entry) /\ ed.modified \in Int /\ ed.slips \in SUBSET Slip
  BY <1>2, WideFields
<1>4. n \in Nat /\ n >= 1
  <2>1. n \in Nat /\ n # 0
    BY <1>1, <1>3
  <2>2. QED BY <2>1
<1> HIDE DEF n
<1>5. k \in 1 .. n
  <2> DEFINE S == {1} \cup { i \in 1 .. n : ~u[i].chain }
  <2>1. S \subseteq 1 .. n /\ S # {}
    BY <1>4
  <2>2. S \subseteq 0 .. n
    BY <2>1
  <2> HIDE DEF S
  <2>3. Max(S) \in S
    BY <1>4, <2>1, <2>2, MaxFacts
  <2>4. k = Max(S)
    BY DEF S
  <2>5. QED BY <2>1, <2>3, <2>4
<1> HIDE DEF k
<1>6. u[k] \in Entry /\ d \in Int
  <2>1. u[k] \in Entry
    BY <1>3, <1>5 DEF n
  <2>2. QED BY <2>1 DEF Entry
<1>7. /\ s \in Seq(Entry) /\ Len(s) = n - k + 1 /\ w \in Seq(Entry) /\ Len(w) = k - 1 /\ Len(s) \in Nat
      /\ \A i \in 1 .. n - k + 1 : s[i] = u[k + i - 1]
      /\ \A i \in 1 .. k - 1 : w[i] = u[i]
  <2>1. /\ s \in Seq(Entry) /\ Len(s) = (IF k <= n THEN n - k + 1 ELSE 0)
        /\ \A i \in 1 .. n - k + 1 : s[i] = u[k + i - 1]
    <3>1. k \in Int /\ n \in Int /\ k >= 1 /\ n <= Len(u)
      BY <1>4, <1>5 DEF n
    <3>2. QED BY <1>3, <3>1, PartOfUndo
  <2> DEFINE j == k - 1
  <2>2. j \in Int /\ j >= 0 /\ j <= n /\ 1 \in Int /\ j - 1 + 1 = j
    BY <1>4, <1>5
  <2>3. /\ w \in Seq(Entry) /\ Len(w) = (IF 1 <= j THEN j - 1 + 1 ELSE 0)
        /\ \A i \in 1 .. j - 1 + 1 : w[i] = u[1 + i - 1]
    <3>1. w = SubSeq(u, 1, j) /\ j <= Len(u)
      BY <2>2 DEF n
    <3> HIDE DEF j, w
    <3>2. QED BY <1>3, <2>2, <3>1, PartOfUndo
  <2>4. \A i \in Int : 1 + i - 1 = i
    OBVIOUS
  <2> HIDE DEF w, s
  <2>5. Len(w) = j /\ Len(s) = n - k + 1 /\ n - k + 1 \in Nat
    BY <1>4, <1>5, <2>1, <2>2, <2>3
  <2>6. \A i \in 1 .. j : w[i] = u[i]
    BY <2>2, <2>3, <2>4
  <2>7. QED BY <2>1, <2>3, <2>5, <2>6
<1> HIDE DEF s, w, d
<1>8. r \in Result /\ t \in Seq(Char)
  <2>1. r \in Result
    BY <1>2, <1>7, BackTypes
  <2> HIDE DEF r
  <2>2. QED BY <2>1 DEF Result
<1> HIDE DEF t
<1>9. v \in Int
  BY <1>3, <1>4, <1>5
<1> HIDE DEF v, u
<1>10. /\ e \in Wide /\ e.text = t /\ e.undo = w /\ e.queue = NoQueue /\ e.modified = v /\ e.slips = ed.slips
  BY <1>2, <1>6, <1>7, <1>8, <1>9 DEF Wide
<1> HIDE DEF e
<1>11. /\ f \in Wide /\ f.undo = w /\ f.queue = NoQueue /\ f.modified = v /\ f.text = t
       /\ f.slips = IF neg THEN ed.slips \cup {"negative"} ELSE ed.slips
  <2>1. neg \in BOOLEAN /\ "negative" \in Slip
    BY DEF Slip
  <2> HIDE DEF neg
  <2>2. QED BY <1>10, <2>1, SlippedFacts DEF SameElse
<1>12. neg <=> v < 0
  BY <1>10
<1> HIDE DEF f, neg
<1>13. f \in Sound
  <2>1. 0 < QueueMax
    BY Limits
  <2>2. QED BY <1>11, <2>1, NoQueueGood DEF Sound
<1>14. ASSUME Clean(f) PROVE \E H : OnPath(H, f, file)
  <2>1. Clean(ed)
    BY <1>11, <1>14 DEF Clean
  <2>2. PICK H : OnPath(H, ed, file)
    BY <2>1 DEF IInv
  <2>3. /\ H \in [0 .. n -> Texts] /\ \A i \in 1 .. n : Leads(u[i], H[i], H[i - 1])
        /\ FromTop(ed.queue, ed.text, H[n]) /\ H[0] = Shown(loaded)
        /\ ed.slips = {} => ed.modified \in 0 .. n /\ H[n - ed.modified] = Shown(file)
    BY <1>1, <2>2 DEF OnPath, Path, n, u
  <2>4. H[n] = ed.text
    BY <1>2, <2>3, NoQueueGood DEF FromTop, Shown
  <2> DEFINE G == [i \in 0 .. k - 1 |-> H[i]]
             J == [i \in 0 .. n - k + 1 |-> H[k - 1 + i]]
  <2>5. r = [ok |-> TRUE, text |-> H[k - 1]]
    <3>1. \A i \in 1 .. Len(s) : Leads(s[i], J[i], J[i - 1])
      <4> TAKE i \in 1 .. Len(s)
      <4>1. /\ i \in 1 .. n - k + 1 /\ i \in 0 .. n - k + 1 /\ i - 1 \in 0 .. n - k + 1 /\ k + i - 1 \in 1 .. n
            /\ k - 1 + i = k + i - 1 /\ k - 1 + (i - 1) = (k + i - 1) - 1
        BY <1>4, <1>5, <1>7
      <4>2. s[i] = u[k + i - 1] /\ J[i] = H[k + i - 1] /\ J[i - 1] = H[(k + i - 1) - 1]
        BY <1>7, <4>1
      <4>3. QED BY <2>3, <4>1, <4>2
    <3>2. J[Len(s)] = H[n] /\ J[0] = H[k - 1]
      <4>1. /\ n - k + 1 \in 0 .. n - k + 1 /\ k - 1 + (n - k + 1) = n /\ 0 \in 0 .. n - k + 1
            /\ k - 1 + 0 = k - 1
        BY <1>4, <1>5
      <4>2. QED BY <1>7, <4>1
    <3> HIDE DEF J
    <3>3. TakenBack(s, J[Len(s)]) = [ok |-> TRUE, text |-> J[0]]
      BY <1>7, <3>1, BackAlong
    <3>4. QED BY <2>4, <3>2, <3>3
  <2>6. t = H[k - 1]
    <3> HIDE DEF r
    <3>1. QED BY <2>5 DEF t
  <2>7. G \in [0 .. k - 1 -> Texts] /\ (\A i \in 0 .. k - 1 : G[i] = H[i]) /\ H[k - 1] \in Texts
    <3>1. 0 .. k - 1 \subseteq 0 .. n /\ k - 1 \in 0 .. n
      BY <1>4, <1>5
    <3>2. QED BY <2>3, <3>1
  <2> HIDE DEF G
  <2>8. Path(G, f)
    <3>1. \A i \in 1 .. k - 1 : Leads(w[i], G[i], G[i - 1])
      <4> TAKE i \in 1 .. k - 1
      <4>1. i \in 1 .. n /\ i \in 0 .. k - 1 /\ i - 1 \in 0 .. k - 1
        BY <1>4, <1>5
      <4>2. w[i] = u[i] /\ G[i] = H[i] /\ G[i - 1] = H[i - 1]
        BY <1>7, <2>7, <4>1
      <4>3. QED BY <2>3, <4>1, <4>2
    <3>2. FromTop(f.queue, f.text, G[k - 1])
      <4>1. k - 1 \in 0 .. k - 1
        BY <1>5
      <4>2. G[k - 1] = t /\ t # << >>
        BY <2>6, <2>7, <4>1 DEF Texts
      <4>3. QED BY <1>11, <4>2, NoQueueGood DEF FromTop, Shown
    <3>3. Len(f.undo) = k - 1
      BY <1>7, <1>11
    <3>4. QED BY <1>11, <2>7, <3>1, <3>2, <3>3 DEF Path
  <2>9. G[0] = Shown(loaded)
    <3>1. 0 \in 0 .. k - 1
      BY <1>5
    <3>2. QED BY <2>3, <2>7, <3>1
  <2>10. ASSUME f.slips = {} PROVE v \in 0 .. k - 1 /\ G[(k - 1) - v] = Shown(file)
    <3>1. ed.slips = {} /\ ~neg
      BY <1>11, <2>10
    <3>2. ed.modified \in 0 .. n /\ H[n - ed.modified] = Shown(file) /\ ~(v < 0)
      BY <1>12, <2>3, <3>1
    <3> DEFINE m == ed.modified
    <3>3. v = m - (n - k + 1) /\ m \in 0 .. n /\ n \in Nat /\ k \in 1 .. n /\ v \in Int /\ ~(v < 0)
      BY <1>4, <1>5, <1>9, <3>2 DEF v
    <3> HIDE DEF m
    <3>4. v \in 0 .. k - 1 /\ (k - 1) - v = n - m /\ n - m \in 0 .. k - 1
      BY ONLY <3>3
    <3>5. G[n - m] = H[n - m]
      BY <2>7, <3>4
    <3>6. QED BY <3>2, <3>4, <3>5 DEF m
  <2>11. OnPath(G, f, file)
    <3>1. Len(f.undo) = k - 1 /\ f.modified = v
      BY <1>7, <1>11
    <3>2. QED BY <2>8, <2>9, <2>10, <3>1 DEF OnPath
  <2>12. QED BY <2>11
<1>15. Follows(f, f)
  BY <1>13, AfterAgain DEF After
<1>16. QED BY <1>1, <1>2, <1>11, <1>13, <1>14, <1>15, LandsFrom

LEMMA SaveFailsKeeps == ASSUME IInv, SaveFails PROVE IInv'
<1> DEFINE yes == TRUE
           e == Slipped(ed, yes, "spoilt")
<1>1. /\ status' = status /\ mode' = mode /\ loaded' = loaded /\ status = "editing"
      /\ file' \in {file} \cup { SubSeq(ed.text, 1, n) : n \in 0 .. Len(ed.text) - 1 }
  BY DEF SaveFails, Command
<1>2. /\ ed \in Sound /\ ed \in Wide /\ ed.text \in Seq(Char) /\ Len(ed.text) \in Nat /\ ed.slips \in SUBSET Slip /\ TypeOK
      /\ mode \in {"command", "insert", "replace"} /\ (mode = "command" => ed.queue = NoQueue) /\ Garbage \subseteq Char
  BY AtHand, WideFields DEF IInv
<1>3. file' \in Seq(Char)
  <2>1. \A n \in 0 .. Len(ed.text) - 1 : SubSeq(ed.text, 1, n) \in Seq(Char)
    <3> TAKE n \in 0 .. Len(ed.text) - 1
    <3>1. n \in Int /\ 1 \in Int /\ 1 >= 1 /\ n <= Len(ed.text)
      BY <1>2
    <3>2. QED BY <1>2, <3>1, SubFacts
  <2>2. file \in Seq(Char)
    BY <1>2 DEF TypeOK
  <2>3. QED BY <1>1, <2>1, <2>2
<1>4. PICK g \in Char : ed' = Settled(e, mode, g)
  BY <1>2 DEF SaveFails
<1>5. /\ e.text = ed.text /\ e.undo = ed.undo /\ e.queue = ed.queue
      /\ e.slips = ed.slips \cup {"spoilt"} /\ e \in Wide
  <2>1. yes \in BOOLEAN /\ yes /\ "spoilt" \in Slip
    BY DEF Slip
  <2> HIDE DEF yes
  <2>2. QED BY <1>2, <2>1, SlippedFacts DEF SameElse
<1> HIDE DEF e
<1>6. e \in Sound
  BY <1>2, <1>5 DEF Sound
<1>7. ASSUME Clean(e) PROVE \E H : OnPath(H, e, file')
  <2>1. Clean(ed)
    BY <1>5, <1>7 DEF Clean
  <2>2. PICK H : OnPath(H, ed, file)
    BY <2>1 DEF IInv
  <2>3. Path(H, e) /\ H[0] = Shown(loaded) /\ e.slips # {}
    BY <1>5, <2>2 DEF OnPath, Path
  <2>4. QED BY <2>3 DEF OnPath
<1>8. Follows(e, e)
  BY <1>6, AfterAgain DEF After
<1>9. mode = "command" => e.queue = NoQueue
  BY <1>2, <1>5
<1>10. QED BY <1>1, <1>2, <1>3, <1>4, <1>6, <1>7, <1>8, <1>9, SettlesFrom

LEMMA SaveKeeps == ASSUME IInv, Save PROVE IInv'
<1> DEFINE told == ed.slips \ {"negative", "spoilt"}
           none == 0
           e == [ed EXCEPT !.modified = none, !.slips = told]
<1>1. /\ status' = status /\ mode' = mode /\ loaded' = loaded /\ file' = ed.text /\ status = "editing" /\ mode = "command"
  BY DEF Save, Command
<1>2. /\ ed \in Sound /\ ed \in Wide /\ ed.text \in Seq(Char) /\ ed.slips \in SUBSET Slip /\ TypeOK /\ ed.queue = NoQueue
      /\ Len(ed.undo) \in Nat /\ Garbage \subseteq Char
  BY <1>1, AtHand, WideFields DEF IInv
<1>3. PICK g \in Char : ed' = Settled(e, mode, g)
  <2>1. \E g \in Garbage : ed' = Settled([ed EXCEPT !.modified = 0, !.slips = @ \ {"negative", "spoilt"}], mode, g)
    BY DEF Save
  <2>2. QED BY <1>2, <2>1
<1>4. told \in SUBSET Slip /\ none \in Int /\ none = 0
  BY <1>2
<1>5. told = ed.slips \ {"negative", "spoilt"}
  OBVIOUS
<1> HIDE DEF told, none
<1>6. /\ e.text = ed.text /\ e.undo = ed.undo /\ e.queue = ed.queue /\ e.modified = none
      /\ e.slips = told /\ e \in Wide
  <2>1. /\ e.text = ed.text /\ e.undo = ed.undo /\ e.queue = ed.queue /\ e.modified = none
        /\ e.slips = told
    BY <1>2 DEF Wide
  <2>2. e \in Wide
    BY <1>2, <1>4 DEF Wide
  <2> HIDE DEF e
  <2>3. QED BY <2>1, <2>2
<1> HIDE DEF e
<1>7. e \in Sound /\ e.queue = NoQueue
  BY <1>2, <1>6 DEF Sound
<1>8. ASSUME Clean(e) PROVE \E H : OnPath(H, e, file')
  <2>1. Clean(ed)
    BY <1>5, <1>6, <1>8 DEF Clean
  <2>2. PICK H : OnPath(H, ed, file)
    BY <2>1 DEF IInv
  <2>3. Path(H, e) /\ H[0] = Shown(loaded)
    BY <1>6, <2>2 DEF OnPath, Path
  <2>4. H[Len(ed.undo)] = Shown(ed.text)
    BY <1>2, <2>2, NoQueueGood DEF OnPath, Path, FromTop
  <2>5. e.modified \in 0 .. Len(e.undo) /\ Len(e.undo) - e.modified = Len(ed.undo)
    BY <1>2, <1>4, <1>6
  <2>6. OnPath(H, e, file')
    BY <1>1, <2>3, <2>4, <2>5 DEF OnPath
  <2>7. QED BY <2>6
<1>9. Follows(e, e)
  BY <1>7, AfterAgain DEF After
<1>10. mode \in {"command", "insert", "replace"} /\ file' \in Seq(Char)
  BY <1>1, <1>2
<1>11. QED BY <1>1, <1>2, <1>3, <1>7, <1>8, <1>9, <1>10, SettlesFrom

\* Whoever leaves leaves the editor as it was.
LEMMA LeavingKeeps ==
  ASSUME IInv, SaveAndQuit \/ Quit \/ QuitForced
  PROVE  IInv'
<1>1. ed' = ed /\ mode' = mode /\ loaded' = loaded /\ status' \in {"quit", "forced"} /\ status = "editing" /\ mode = "command"
  BY DEF SaveAndQuit, Quit, QuitForced, Command
<1>2. TypeOK /\ ed \in Sound /\ ed.queue = NoQueue /\ ed.text \in Seq(Char)
  BY <1>1, AtHand DEF IInv
<1>3. Len(ed.undo) \in Nat
  BY <1>2, SoundIsWide, WideFields
<1>4. file' \in Seq(Char)
  BY <1>2 DEF TypeOK, SaveAndQuit, Quit, QuitForced
<1>5. TypeOK'
  BY <1>1, <1>2, <1>4 DEF TypeOK
<1>6. ASSUME Clean(ed') PROVE \E H : OnPath(H, ed, file)'
  <2>1. PICK H : OnPath(H, ed, file)
    BY <1>1, <1>6 DEF IInv
  <2>2. Path(H, ed') /\ H[0] = Shown(loaded') /\ status' # "editing"
    BY <1>1, <2>1 DEF OnPath
  <2>3. OnPath(H, ed, file)'
    BY <2>2 DEF OnPath
  <2>4. QED BY <2>3
<1>7. ASSUME status' = "quit", ed.slips = {} PROVE Shown(file') = Shown(ed.text)
  <2>1. CASE ed.modified # 0 /\ SaveAndQuit
    BY <2>1 DEF SaveAndQuit
  <2>2. CASE QuitForced
    BY <1>7, <2>2 DEF QuitForced
  <2>3. CASE ed.modified = 0 /\ ~QuitForced
    <3>1. file' = file
      BY <2>3 DEF SaveAndQuit, Quit
    <3>2. Clean(ed)
      BY <1>7 DEF Clean
    <3>3. PICK H : OnPath(H, ed, file)
      BY <3>2 DEF IInv
    <3>4. H[Len(ed.undo) - ed.modified] = Shown(file)
      BY <1>1, <1>7, <3>3 DEF OnPath
    <3>5. Len(ed.undo) - ed.modified = Len(ed.undo)
      BY <1>3, <2>3
    <3>6. H[Len(ed.undo)] = Shown(ed.text)
      BY <1>2, <3>3, NoQueueGood DEF OnPath, Path, FromTop
    <3>7. QED BY <3>1, <3>4, <3>5, <3>6
  <2>4. QED BY <2>1, <2>2, <2>3 DEF Quit
<1>8. QED BY <1>1, <1>2, <1>5, <1>6, <1>7 DEF IInv

-----------------------------------------------------------------------------
(* The theorems. *)

\* Whatever a read that fails leaves is a text.
LEMMA LoadedIsText == ASSUME Init PROVE loaded \in Seq(Char)
<1>1. file \in Seq(Char) /\ <<"nl">> \in Seq(Char)
  BY Limits DEF Init, Char
<1>2. CASE loaded \in {file, <<"nl">>}
  BY <1>1, <1>2
<1>3. CASE loaded \in HalfRead(file)
  <2> DEFINE k == Len(file)
             hole == [i \in 1 .. k + 1 |-> IF i = 1 THEN "nl" ELSE "sp"]
  <2>1. k \in Nat
    BY <1>1
  <2>2. hole \in Seq(Char)
    <3> HIDE DEF k
    <3>1. k + 1 \in Nat
      BY <2>1
    <3>2. \A i \in 1 .. k + 1 : (IF i = 1 THEN "nl" ELSE "sp") \in Char
      BY DEF Char
    <3>3. hole \in [1 .. k + 1 -> Char]
      BY <3>2
    <3>4. QED BY <3>1, <3>3
  <2>3. \A n \in 0 .. k - 1 : SubSeq(file, 1, n) \in Seq(Char)
    <3> TAKE n \in 0 .. k - 1
    <3>1. n \in Int /\ 1 \in Int /\ 1 >= 1 /\ n <= Len(file)
      BY <2>1
    <3>2. QED BY <1>1, <3>1, SubFacts
  <2>4. loaded \in {<<"nl">>, hole} \cup { SubSeq(file, 1, n) : n \in 0 .. k - 1 }
    BY <1>3 DEF HalfRead
  <2> HIDE DEF hole, k
  <2>5. QED BY <1>1, <2>2, <2>3, <2>4
<1>4. QED BY <1>2, <1>3 DEF Init

LEMMA Starts == ASSUME Init PROVE IInv
<1> DEFINE t == Shown(loaded)
           H == [i \in 0 .. 0 |-> t]
           r == [chars |-> << >>, whole |-> FALSE]
<1>1. file \in Files /\ mode = "command" /\ status = "editing"
  BY DEF Init
<1>2. PICK slips \in {{}, {"spoilt"}} : ed = Opened(loaded, slips) /\ (slips = {} => t = Shown(file))
  BY DEF Init, Shown
<1>3. loaded \in Seq(Char) /\ Len(loaded) \in Nat /\ file \in Seq(Char) /\ t \in Texts
  BY <1>1, LoadedIsText, Limits DEF Shown, Texts, Char
<1> HIDE DEF t
<1>4. ed = [text |-> loaded, dot |-> 1, undo |-> << >>, queue |-> NoQueue, reg |-> r, modified |-> 0, slips |-> slips]
  BY <1>2 DEF Opened
<1>5. r \in [chars : Seq(Char), whole : BOOLEAN]
  <2>1. << >> \in Seq(Char) /\ FALSE \in BOOLEAN
    OBVIOUS
  <2>2. QED BY <2>1
<1> HIDE DEF r
<1>6. /\ ed.text = loaded /\ ed.dot = 1 /\ ed.undo = << >> /\ ed.queue = NoQueue /\ ed.modified = 0 /\ ed.slips = slips
      /\ Len(ed.undo) = 0
  BY <1>4
<1>7. ed \in Sound
  <2>1. ed \in Wide
    <3>1. << >> \in Seq(Entry) /\ slips \in SUBSET Slip /\ 0 \in Int /\ 1 \in Int
      BY DEF Slip
    <3>2. QED BY <1>3, <1>4, <1>5, <3>1, NoQueueGood DEF Wide
  <2>2. 0 < QueueMax
    BY Limits
  <2>3. QED BY <1>6, <2>1, <2>2, NoQueueGood DEF Sound
<1>8. ed \in State
  BY <1>7, StateFacts, Limits
<1>9. ed.dot \in 1 .. Len(ed.text) + 1
  BY <1>3, <1>6
<1>10. ed.text = << >> => ed = Opened(<< >>, ed.slips)
  BY <1>2, <1>6
<1>11. TypeOK
  BY <1>1, <1>3, <1>8, <1>9, <1>10 DEF TypeOK
<1>12. OnPath(H, ed, file)
  <2>1. H \in [0 .. 0 -> Texts] /\ H[0] = t
    BY <1>3
  <2>2. FromTop(ed.queue, ed.text, t)
    BY <1>6, NoQueueGood DEF FromTop, t
  <2> HIDE DEF H
  <2>3. Path(H, ed)
    BY <1>6, <2>1, <2>2 DEF Path
  <2>4. 0 \in 0 .. 0 /\ 0 - 0 = 0
    OBVIOUS
  <2>5. ed.slips = {} => H[0] = Shown(file)
    BY <1>2, <1>6, <2>1
  <2>6. H[0] = Shown(loaded)
    BY <2>1 DEF t
  <2>7. QED BY <1>6, <2>3, <2>4, <2>5, <2>6 DEF OnPath
<1>13. \E G : OnPath(G, ed, file)
  BY <1>12
<1>14. QED BY <1>1, <1>6, <1>7, <1>11, <1>13 DEF IInv

LEMMA Keeps == ASSUME IInv, [Next]_vars PROVE IInv'
<1>1. CASE Edit
  BY <1>1, MoveKeeps, DeleteCharsKeeps, DeleteToEndKeeps, DeleteLineKeeps, ChangeLineKeeps, PutKeeps, JoinKeeps,
     FlipCaseKeeps, ReplaceKeeps, StartInsertingKeeps, OpenLineKeeps, UndoKeeps, TypeKeeps, TypeLiteralKeeps,
     TypeBackspaceKeeps, TypeEscapeKeeps, CursorCommitsKeeps, CursorMovesKeeps, KeyDeleteKeeps, KeyInsertKeeps DEF Edit
<1>2. CASE SaveFails
  BY <1>2, SaveFailsKeeps
<1>3. CASE Save
  BY <1>3, SaveKeeps
<1>4. CASE SaveAndQuit \/ Quit \/ QuitForced
  BY <1>4, LeavingKeeps
<1>5. CASE UNCHANGED vars
  <2>1. ed' = ed /\ mode' = mode /\ status' = status /\ file' = file /\ loaded' = loaded
    BY <1>5 DEF vars
  <2>2. TypeOK'
    BY <2>1 DEF TypeOK, IInv
  <2>3. \A H : OnPath(H, ed, file) => OnPath(H, ed, file)'
    BY <2>1 DEF OnPath
  <2>4. QED BY <2>1, <2>2, <2>3 DEF IInv
<1>6. QED BY <1>1, <1>2, <1>3, <1>4, <1>5 DEF Next

LEMMA Inductive == Spec => []IInv
<1>1. Init => IInv
  BY Starts
<1>2. IInv /\ [Next]_vars => IInv'
  BY Keeps
<1>3. QED BY <1>1, <1>2, PTL DEF Spec

\* From the first command on the text is never empty, and the cursor is in it or right behind it, whatever file
\* vi.c is given to edit: empty, without a newline at its end, or one that cannot be read.
THEOREM TypeCorrect == Spec => []TypeOK
<1>1. IInv => TypeOK
  BY DEF IInv
<1>2. QED BY <1>1, Inductive, PTL

\* Along the path the invariant tells of, the list and its queue lead back to the text as it was loaded.
LEMMA ExactFromPath == ASSUME IInv PROVE UndoIsExact
<1> SUFFICES ASSUME Clean(ed) PROVE Exact
  BY DEF UndoIsExact, Clean
<1>1. PICK H : OnPath(H, ed, file)
  BY DEF IInv
<1> DEFINE u == ed.undo
           n == Len(u)
           q == ed.queue
           t == Shown(ed.text)
<1>2. ed \in Wide /\ u \in Seq(Entry) /\ n \in Nat /\ ed.text \in Seq(Char)
  BY AtHand, WideFields
<1>3. /\ H \in [0 .. n -> Texts] /\ \A i \in 1 .. n : Leads(u[i], H[i], H[i - 1])
      /\ FromTop(q, ed.text, H[n]) /\ H[0] = Shown(loaded)
  BY <1>1 DEF OnPath, Path
<1> HIDE DEF t
<1>5. CASE q.len = 0
  <2>1. Queued = << >>
    BY <1>5 DEF Queued
  <2>2. u \o << >> = u
    <3> HIDE DEF u
    <3>1. QED BY <1>2
  <2>3. t = H[n]
    BY <1>3, <1>5 DEF FromTop, t
  <2>4. TakenBack(u, H[Len(u)]) = [ok |-> TRUE, text |-> H[0]]
    <3> HIDE DEF u
    <3>1. QED BY <1>2, <1>3, BackAlong DEF n
  <2>5. QED BY <1>3, <2>1, <2>2, <2>3, <2>4 DEF Exact, t
<1>6. CASE q.len # 0
  <2> DEFINE x == Waiting(q)
             s == u \o <<x>>
             G == [i \in 0 .. n + 1 |-> IF i <= n THEN H[i] ELSE t]
  <2>1. Queued = <<x>>
    BY <1>6 DEF Queued, Waiting
  <2>2. x \in Entry
    <3>1. q.kind \in {"none", "ins", "del"} /\ q.kind # "none" /\ q.at \in Nat /\ q.len \in Nat /\ q.chars \in Seq(Char)
      BY <1>2, <1>6, WideFields
    <3>2. QED BY <3>1 DEF Entry, Waiting
  <2>3. Leads(x, t, H[n])
    BY <1>3, <1>6 DEF FromTop, t
  <2> HIDE DEF x, u, n
  <2>4. /\ s \in Seq(Entry) /\ Len(s) = n + 1 /\ s[n + 1] = x
        /\ \A i \in 1 .. n : s[i] = u[i]
    <3>1. s = Append(u, x)
      BY <1>2, <2>2
    <3> HIDE DEF s
    <3>2. QED BY <1>2, <2>2, <3>1, AppendFacts DEF n
  <2> HIDE DEF s
  <2>5. \A i \in 1 .. Len(s) : Leads(s[i], G[i], G[i - 1])
    <3> TAKE i \in 1 .. Len(s)
    <3>1. i \in 1 .. n + 1
      BY <2>4
    <3>2. CASE i <= n
      <4>1. i \in 1 .. n /\ i \in 0 .. n + 1 /\ i - 1 \in 0 .. n + 1 /\ i - 1 <= n
        BY <1>2, <3>1, <3>2
      <4>2. G[i] = H[i] /\ G[i - 1] = H[i - 1] /\ s[i] = u[i]
        BY <2>4, <3>2, <4>1
      <4>3. QED BY <1>3, <4>1, <4>2
    <3>3. CASE ~(i <= n)
      <4>1. i = n + 1 /\ i \in 0 .. n + 1 /\ i - 1 \in 0 .. n + 1 /\ i - 1 <= n /\ i - 1 = n
        BY <1>2, <3>1, <3>3
      <4>2. G[i] = t /\ G[i - 1] = H[n] /\ s[i] = x
        BY <2>4, <3>3, <4>1
      <4>3. QED BY <2>3, <4>2
    <3>4. QED BY <3>2, <3>3
  <2>6. G[Len(s)] = t /\ G[0] = Shown(loaded)
    <3>1. n + 1 \in 0 .. n + 1 /\ ~(n + 1 <= n) /\ 0 \in 0 .. n + 1 /\ 0 <= n
      BY <1>2
    <3>2. QED BY <1>3, <2>4, <3>1
  <2> HIDE DEF G
  <2>7. TakenBack(s, G[Len(s)]) = [ok |-> TRUE, text |-> G[0]]
    BY <2>4, <2>5, BackAlong
  <2>8. Exact <=> TakenBack(s, t) = [ok |-> TRUE, text |-> Shown(loaded)]
    BY <2>1 DEF Exact, s, u, t
  <2>9. QED BY <2>6, <2>7, <2>8
<1>7. QED BY <1>5, <1>6

\* Everything undo_push recorded and everything the queue still holds, taken back one by one as undo_pop does,
\* gives the text file_insert loaded, as long as nothing was typed and none of the rarer slips occurred.
THEOREM UndoCorrect == Spec => []UndoIsExact
<1>1. IInv => UndoIsExact
  BY ExactFromPath
<1>2. QED BY <1>1, Inductive, PTL

\* Whoever colon or ZZ lets go without a "!" leaves on the disk what the screen showed, as long as modified_count
\* was told of everything.
THEOREM QuitCorrect == Spec => []QuitLosesNothingCounted
<1>1. IInv => QuitLosesNothingCounted
  BY DEF IInv, QuitLosesNothingCounted, QuitLosesNothing
<1>2. QED BY <1>1, Inductive, PTL
=============================================================================
