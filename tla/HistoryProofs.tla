--------------------------- MODULE HistoryProofs ---------------------------
(***************************************************************************)
(* The command history: the ring and the file hold the newest lines, the   *)
(* search finds them all, and little is lost with the power.               *)
(***************************************************************************)
EXTENDS History, FoldProofs

(* Going round the ring. *)

LEMMA SizeFacts == HSTSIZE \in Nat \ {0, 1} /\ CMDFULL \in Nat \ {0} /\ CMDFULL <= HSTSIZE - 1
BY Sizes

LEMMA ModIs ==
  ASSUME NEW P \in Nat \ {0}, NEW q \in Int, NEW r \in 0 .. P - 1
  PROVE  (P * q + r) % P = r
OBVIOUS

\* A number a little outside the range of the ring's cells.
LEMMA Wrap ==
  ASSUME NEW x \in Int
  PROVE  /\ 0 <= x /\ x < HSTSIZE => x % HSTSIZE = x
         /\ HSTSIZE <= x /\ x < HSTSIZE + HSTSIZE => x % HSTSIZE = x - HSTSIZE
         /\ x = HSTSIZE + HSTSIZE => x % HSTSIZE = 0
         /\ -HSTSIZE <= x /\ x < 0 => x % HSTSIZE = x + HSTSIZE
<1>1. HSTSIZE \in Nat \ {0}
  BY SizeFacts
<1>2. ASSUME 0 <= x, x < HSTSIZE PROVE x % HSTSIZE = x
  <2>1. x \in 0 .. HSTSIZE - 1
    BY <1>1, <1>2
  <2>2. (HSTSIZE * 0 + x) % HSTSIZE = x
    BY <1>1, <2>1, ModIs
  <2>3. HSTSIZE * 0 + x = x
    BY <1>1
  <2>4. QED BY <2>2, <2>3
<1>3. ASSUME HSTSIZE <= x, x < HSTSIZE + HSTSIZE PROVE x % HSTSIZE = x - HSTSIZE
  <2>1. x - HSTSIZE \in 0 .. HSTSIZE - 1
    BY <1>1, <1>3
  <2>2. (HSTSIZE * 1 + (x - HSTSIZE)) % HSTSIZE = x - HSTSIZE
    BY <1>1, <2>1, ModIs
  <2>3. HSTSIZE * 1 + (x - HSTSIZE) = x
    BY <1>1
  <2>4. QED BY <2>2, <2>3
<1>4. ASSUME x = HSTSIZE + HSTSIZE PROVE x % HSTSIZE = 0
  <2>1. 0 \in 0 .. HSTSIZE - 1
    BY <1>1
  <2>2. (HSTSIZE * 2 + 0) % HSTSIZE = 0
    BY <1>1, <2>1, ModIs
  <2>3. HSTSIZE * 2 + 0 = x
    BY <1>1, <1>4
  <2>4. QED BY <2>2, <2>3
<1>5. ASSUME -HSTSIZE <= x, x < 0 PROVE x % HSTSIZE = x + HSTSIZE
  <2>1. x + HSTSIZE \in 0 .. HSTSIZE - 1
    BY <1>1, <1>5
  <2>2. (HSTSIZE * (-1) + (x + HSTSIZE)) % HSTSIZE = x + HSTSIZE
    BY <1>1, <2>1, ModIs
  <2>3. HSTSIZE * (-1) + (x + HSTSIZE) = x
    BY <1>1
  <2>4. QED BY <2>2, <2>3
<1>6. QED BY <1>2, <1>3, <1>4, <1>5

\* The cell d cells after a.
Round(a, d) == IF a + d < HSTSIZE THEN a + d ELSE a + d - HSTSIZE

LEMMA RoundIs ==
  ASSUME NEW a \in Cell, NEW d \in Cell
  PROVE  (a + d) % HSTSIZE = Round(a, d) /\ Round(a, d) \in Cell
<1>1. a + d \in Int /\ 0 <= a + d /\ a + d < HSTSIZE + HSTSIZE
  BY SizeFacts DEF Cell
<1>2. QED BY <1>1, Wrap, SizeFacts DEF Cell, Round

LEMMA RoundOnce ==
  ASSUME NEW a \in Cell, NEW d \in Cell, NEW e \in Cell
  PROVE  /\ Round(a, d) = Round(a, e) => d = e
         /\ d + e < HSTSIZE => Round(Round(a, d), e) = Round(a, d + e) /\ d + e \in Cell
         /\ d + e = HSTSIZE => Round(Round(a, d), e) = a
BY SizeFacts DEF Round, Cell

LEMMA RoundInj ==
  ASSUME NEW a \in Cell, NEW d \in Cell, NEW e \in Cell, Round(a, d) = Round(a, e)
  PROVE  d = e
BY RoundOnce

LEMMA RoundTwice ==
  ASSUME NEW a \in Cell, NEW d \in Cell, NEW e \in Cell, d + e < HSTSIZE
  PROVE  Round(Round(a, d), e) = Round(a, d + e)
BY RoundOnce

LEMMA RoundType ==
  ASSUME NEW a \in Cell, NEW d \in Cell
  PROVE  Round(a, d) \in Cell
BY SizeFacts DEF Round, Cell

LEMMA RoundSum ==
  ASSUME NEW a \in Cell, NEW d \in Nat
  PROVE  a + (d + 1) = a + 1 + d
BY DEF Cell

LEMMA UsedIs ==
  ASSUME NEW r \in Ring
  PROVE  /\ Used(r) \in Cell /\ Round(r.hista, Used(r)) = r.histb
         /\ \A u \in Cell : Round(r.hista, u) = r.histb => Used(r) = u
<1>1. r.hista \in Cell /\ r.histb \in Cell
  BY DEF Ring
<1>2. r.histb - r.hista \in Int /\ -HSTSIZE <= r.histb - r.hista /\ r.histb - r.hista < HSTSIZE
  BY <1>1, SizeFacts DEF Cell
<1>3. Used(r) = IF r.histb >= r.hista THEN r.histb - r.hista ELSE r.histb - r.hista + HSTSIZE
  BY <1>1, <1>2, Wrap, SizeFacts DEF Cell, Used
<1>4. Used(r) \in Cell /\ Round(r.hista, Used(r)) = r.histb
  BY <1>1, <1>3, SizeFacts DEF Cell, Round
<1>5. QED BY <1>1, <1>4, RoundOnce

LEMMA CharAtIs ==
  ASSUME NEW r \in Ring, NEW d \in Cell
  PROVE  CharAt(r, d) = r.history[Round(r.hista, d)] /\ CharAt(r, d) \in Stored
<1>1. r.hista \in Cell /\ r.history \in [Cell -> Stored]
  BY DEF Ring
<1>2. QED BY <1>1, RoundIs DEF CharAt

LEMMA HeldIs ==
  ASSUME NEW r \in Ring
  PROVE  /\ Held(r) \in Seq(Stored) /\ Len(Held(r)) = Used(r) /\ Used(r) \in Nat
         /\ \A i \in 1 .. Used(r) : Held(r)[i] = CharAt(r, i - 1)
<1>1. Used(r) \in Nat /\ Used(r) < HSTSIZE
  BY UsedIs, SizeFacts DEF Cell
<1>2. ASSUME NEW i \in 1 .. Used(r) PROVE CharAt(r, i - 1) \in Stored
  <2>1. i - 1 \in Cell
    BY <1>1, SizeFacts DEF Cell
  <2>2. QED BY <2>1, CharAtIs
<1>3. Held(r) \in [1 .. Used(r) -> Stored]
  BY <1>2 DEF Held
<1>4. QED BY <1>1, <1>3 DEF Held

\* The search for the end of the line at a ends at the first zero byte, d cells on.
EndsAfter(h, a, d) ==
  /\ NextStart(h, a) = (a + 1 + d) % HSTSIZE /\ h[Round(a, d)] = "nul"
  /\ \A i \in 0 .. d - 1 : h[Round(a, i)] # "nul"

LEMMA NextStartIs ==
  ASSUME NEW h \in [Cell -> Stored], NEW a \in Cell
  PROVE  /\ NextStart(h, a) \in Cell
         /\ \A e \in Cell : h[Round(a, e)] = "nul" => \E d \in 0 .. e : EndsAfter(h, a, d)
<1> DEFINE Ends == { d \in 0 .. HSTSIZE : d = HSTSIZE \/ h[(a + d) % HSTSIZE] = "nul" }
           m == Min(Ends)
<1>1. Ends \subseteq Nat /\ Ends # {} /\ Ends \subseteq 0 .. HSTSIZE
  BY SizeFacts
<1>2. m \in Ends /\ \A y \in Ends : m <= y
  BY <1>1, MinFacts
<1>3. \A d \in Cell : d \in Ends <=> h[Round(a, d)] = "nul"
  <2> TAKE d \in Cell
  <2>1. d \in 0 .. HSTSIZE /\ d # HSTSIZE
    BY SizeFacts DEF Cell
  <2>2. (a + d) % HSTSIZE = Round(a, d)
    BY RoundIs
  <2>3. QED BY <2>1, <2>2
<1>4. NextStart(h, a) = (a + 1 + m) % HSTSIZE
  BY DEF NextStart
<1> HIDE DEF Ends, m
<1>5. m \in 0 .. HSTSIZE
  BY <1>1, <1>2
<1>6. NextStart(h, a) \in Cell
  <2>1. a + 1 + m \in Int /\ 0 <= a + 1 + m /\ a + 1 + m <= HSTSIZE + HSTSIZE
    BY <1>5, SizeFacts DEF Cell
  <2>2. QED BY <1>4, <2>1, Wrap, SizeFacts DEF Cell
<1>7. ASSUME NEW e \in Cell, h[Round(a, e)] = "nul"
      PROVE  \E d \in 0 .. e : EndsAfter(h, a, d)
  <2>1. e \in Ends
    BY <1>3, <1>7
  <2>2. m <= e /\ m \in 0 .. e
    BY <1>2, <1>5, <2>1, SizeFacts DEF Cell
  <2>3. m \in Cell /\ h[Round(a, m)] = "nul"
    BY <1>2, <1>3, <2>2, SizeFacts DEF Cell
  <2>4. ASSUME NEW i \in 0 .. m - 1 PROVE h[Round(a, i)] # "nul"
    <3>1. i \in Cell /\ ~(m <= i)
      BY <1>5, SizeFacts DEF Cell
    <3>2. QED BY <1>2, <1>3, <3>1
  <2>5. QED BY <1>4, <2>2, <2>3, <2>4 DEF EndsAfter
<1>8. QED BY <1>6, <1>7

LEMMA PutCharType ==
  ASSUME NEW r \in Ring, NEW c \in Stored
  PROVE  PutChar(r, c) \in Ring /\ PutChar(r, c).histb = Round(r.histb, 1)
<1>1. r.history \in [Cell -> Stored] /\ r.hista \in Cell /\ r.histb \in Cell /\ 1 \in Cell
  BY SizeFacts DEF Ring, Cell
<1>2. (r.histb + 1) % HSTSIZE = Round(r.histb, 1) /\ Round(r.histb, 1) \in Cell
  BY <1>1, RoundIs
<1>3. NextStart(r.history, r.hista) \in Cell
  BY <1>1, NextStartIs
<1>4. [r.history EXCEPT ![r.histb] = c] \in [Cell -> Stored]
  BY <1>1
<1>5. QED BY <1>1, <1>2, <1>3, <1>4 DEF PutChar, Ring

(* The text entered, and what is kept of it. *)

\* No CMDFULL characters in a row are without an end of a line.
Broken(T) == \A i \in 0 .. Len(T) - CMDFULL : \E j \in i + 1 .. i + CMDFULL : T[j] = "nul"

\* A character put into the ring is added to the text.
LEMMA PutKeeps ==
  ASSUME NEW r \in Ring, NEW c \in Stored, NEW T \in Seq(Stored), KeptOf(Held(r), T), Broken(T)
  PROVE  KeptOf(Held(PutChar(r, c)), Append(T, c))
<1> DEFINE r2 == PutChar(r, c)
           u == Used(r)
           N == Len(T)
           T2 == Append(T, c)
<1>1. r2 \in Ring /\ r2.histb = Round(r.histb, 1)
  BY PutCharType
<1>2. /\ u \in Nat /\ u < HSTSIZE /\ N \in Nat /\ u <= N
      /\ \A i \in 1 .. u : CharAt(r, i - 1) = T[N - u + i]
      /\ Boundary(T, N - u)
      /\ \A q \in 0 .. N - u - 1 : Boundary(T, q) => N - q >= HSTSIZE
  <2>1. Len(Held(r)) = u /\ u \in Nat /\ N \in Nat /\ \A i \in 1 .. u : Held(r)[i] = CharAt(r, i - 1)
    BY HeldIs
  <2> HIDE DEF u, N
  <2>2. u < HSTSIZE /\ u <= N /\ Boundary(T, N - u) /\ \A q \in 0 .. N - u - 1 : Boundary(T, q) => N - q >= HSTSIZE
    BY <2>1 DEF KeptOf, N
  <2>3. \A i \in 1 .. u : Held(r)[i] = T[N - u + i]
    BY <2>1 DEF KeptOf, N
  <2>4. QED BY <2>1, <2>2, <2>3
<1>3. T2 \in Seq(Stored) /\ Len(T2) = N + 1 /\ T2[N + 1] = c /\ \A i \in 1 .. N : T2[i] = T[i]
  BY <1>2
<1>4. \A q \in 0 .. N : Boundary(T2, q) <=> Boundary(T, q)
  BY <1>2, <1>3 DEF Boundary
<1>5. /\ r.hista \in Cell /\ r.histb \in Cell /\ r.history \in [Cell -> Stored]
      /\ r2.hista \in Cell /\ r2.history = [r.history EXCEPT ![r.histb] = c]
  BY <1>1 DEF Ring, PutChar
<1>6. r.histb = Round(r.hista, u)
  BY UsedIs
<1>0. u = Used(r) /\ N = Len(T)
  OBVIOUS
<1>10. HSTSIZE \in Nat /\ HSTSIZE > 1 /\ CMDFULL \in Nat /\ CMDFULL > 0 /\ CMDFULL <= HSTSIZE - 1
  BY SizeFacts
<1>11. \A i \in Nat : i < HSTSIZE <=> i \in Cell
  BY <1>10 DEF Cell
<1>12. u \in Cell /\ 1 \in Cell /\ (r.histb + 1) % HSTSIZE = Round(r.histb, 1)
  BY <1>2, <1>5, <1>10, <1>11, RoundIs
<1>13. /\ Len(Held(r2)) = Used(r2)
       /\ \A i \in 1 .. Used(r2) : Held(r2)[i] = CharAt(r2, i - 1)
  BY <1>1, HeldIs
<1>14. r2.hista = IF (r.histb + 1) % HSTSIZE = r.hista THEN NextStart(r.history, r.hista) ELSE r.hista
  BY DEF PutChar
<1>15. u \in Nat /\ u < HSTSIZE /\ N \in Nat /\ u <= N
  BY <1>2
<1> HIDE DEF T2, u, N, r2
<1>7. CASE u < HSTSIZE - 1
  <2>1. Round(r.histb, 1) # r.hista
    <3>1. u + 1 \in Cell /\ 0 \in Cell /\ u + 1 # 0 /\ u + 1 < HSTSIZE
      BY <1>7, <1>10, <1>11, <1>15
    <3>2. Round(r.histb, 1) = Round(r.hista, u + 1)
      BY <1>5, <1>6, <1>12, <3>1, RoundOnce
    <3>3. Round(r.hista, 0) = r.hista
      BY <1>5, <1>10, SizeFacts DEF Round, Cell
    <3>4. QED BY <1>5, <3>1, <3>2, <3>3, RoundOnce
  <2>2. r2.hista = r.hista
    <3>1. (r.histb + 1) % HSTSIZE = Round(r.histb, 1)
      BY <1>12
    <3>2. QED BY <1>14, <2>1, <3>1
  <2>3. Used(r2) = u + 1
    <3>1. u + 1 \in Cell /\ u + 1 < HSTSIZE
      BY <1>7, <1>10, <1>11, <1>15
    <3>2. r2.histb = Round(r2.hista, u + 1)
      BY <1>1, <1>5, <1>6, <1>12, <2>2, <3>1, RoundOnce
    <3>3. QED BY <1>1, <3>1, <3>2, UsedIs
  <2>4. \A i \in 1 .. u : CharAt(r2, i - 1) = CharAt(r, i - 1)
    <3> TAKE i \in 1 .. u
    <3>1. i - 1 \in Cell /\ Round(r.hista, i - 1) # r.histb /\ Round(r.hista, i - 1) \in Cell
      <4>1. i - 1 \in Nat /\ i - 1 < HSTSIZE /\ i - 1 # u
        BY <1>10, <1>15
      <4>2. i - 1 \in Cell
        BY <1>11, <4>1
      <4> DEFINE x == i - 1
      <4>3. x \in Cell /\ x # u
        BY <4>1, <4>2
      <4> HIDE DEF x
      <4>4. Round(r.hista, x) # Round(r.hista, u)
        BY <1>5, <1>12, <4>3, RoundInj
      <4>5. Round(r.hista, x) \in Cell
        BY <1>5, <4>3, RoundType
      <4>6. QED BY <1>6, <4>3, <4>4, <4>5 DEF x
    <3>2. CharAt(r2, i - 1) = r2.history[Round(r.hista, i - 1)] /\ CharAt(r, i - 1) = r.history[Round(r.hista, i - 1)]
      BY <1>1, <2>2, <3>1, CharAtIs
    <3>3. QED BY <1>5, <3>1, <3>2
  <2>5. CharAt(r2, u) = c
    <3>1. u \in Cell
      BY <1>12
    <3>2. CharAt(r2, u) = r2.history[r.histb]
      BY <1>1, <1>6, <2>2, <3>1, CharAtIs
    <3>3. QED BY <1>5, <3>2
  <2>6. \A i \in 1 .. u + 1 : CharAt(r2, i - 1) = T2[(N + 1) - (u + 1) + i]
    <3> TAKE i \in 1 .. u + 1
    <3>1. CASE i = u + 1
      BY <1>2, <1>3, <2>5, <3>1
    <3>2. CASE i # u + 1
      <4>1. i \in 1 .. u /\ N - u + i \in 1 .. N /\ (N + 1) - (u + 1) + i = N - u + i
        BY <1>2, <3>2
      <4>2. QED BY <1>2, <1>3, <2>4, <4>1
    <3>3. QED BY <3>1, <3>2
  <2>7. (N + 1) - (u + 1) = N - u /\ N - u \in 0 .. N
    BY <1>2
  <2>8. Boundary(T2, N - u)
    BY <1>2, <1>4, <2>7
  <2>9. \A q \in 0 .. N - u - 1 : Boundary(T2, q) => (N + 1) - q >= HSTSIZE
    <3> TAKE q \in 0 .. N - u - 1
    <3>1. q \in 0 .. N
      BY <1>2
    <3>2. Boundary(T2, q) => N - q >= HSTSIZE
      BY <1>2, <1>4, <3>1
    <3>3. QED BY <1>15, <3>2, <1>10
  <2>10. KeptOf(Held(r2), T2)
    BY <1>2, <1>3, <1>7, <1>10, <1>13, <2>3, <2>6, <2>7, <2>8, <2>9 DEF KeptOf
  <2>11. QED BY <2>10 DEF r2, T2
<1>8. CASE u = HSTSIZE - 1
  <2>1. PICK e \in 0 .. CMDFULL - 1 : T[N - u + 1 + e] = "nul"
    <3>1. N - u \in 0 .. N - CMDFULL
      BY <1>15, <1>8, <1>10
    <3>2. PICK j \in N - u + 1 .. N - u + CMDFULL : T[j] = "nul"
      BY <1>0, <3>1 DEF Broken
    <3>3. j - (N - u + 1) \in 0 .. CMDFULL - 1 /\ N - u + 1 + (j - (N - u + 1)) = j
      BY <1>15, <1>10
    <3>4. QED BY <3>2, <3>3
  <2>2. e \in Cell /\ e + 1 \in 1 .. u /\ (e + 1) - 1 = e /\ N - u + (e + 1) = N - u + 1 + e
    <3>1. e \in Nat /\ e < HSTSIZE /\ e + 1 <= u
      BY <1>8, <1>10, <1>15
    <3>2. QED BY <1>11, <1>15, <3>1
  <2>3. r.history[Round(r.hista, e)] = "nul"
    <3>1. CharAt(r, e) = "nul"
      BY <1>2, <2>1, <2>2
    <3>2. QED BY <2>2, <3>1, CharAtIs
  <2>4. PICK d \in 0 .. e : /\ NextStart(r.history, r.hista) = (r.hista + 1 + d) % HSTSIZE
                             /\ r.history[Round(r.hista, d)] = "nul"
                             /\ \A i \in 0 .. d - 1 : r.history[Round(r.hista, i)] # "nul"
    <3>1. \E d \in 0 .. e : EndsAfter(r.history, r.hista, d)
      BY <1>5, <2>2, <2>3, NextStartIs
    <3>2. QED BY <3>1 DEF EndsAfter
  <2>5. d \in Nat /\ d + 1 <= u
    BY <1>15, <2>2
  <2>6. r2.hista = Round(r.hista, d + 1)
    <3>1. (r.histb + 1) % HSTSIZE = r.hista
      <4>2. (r.histb + 1) % HSTSIZE = Round(r.histb, 1)
        BY <1>12
      <4>3. Round(r.histb, 1) = r.hista
        <5>1. u + 1 = HSTSIZE
          BY <1>8, <1>10
        <5>2. QED BY <1>5, <1>6, <1>12, <5>1, RoundOnce
      <4>4. QED BY <4>2, <4>3
    <3>2. r2.hista = (r.hista + 1 + d) % HSTSIZE
      BY <1>14, <2>4, <3>1
    <3>3. d + 1 \in Cell /\ d \in Cell
      <4>1. d + 1 \in Nat /\ d + 1 < HSTSIZE /\ d < HSTSIZE
        BY <1>10, <1>15, <2>5
      <4>2. QED BY <1>11, <2>5, <4>1
    <3>4. (r.hista + (d + 1)) % HSTSIZE = Round(r.hista, d + 1)
      BY <1>5, <3>3, RoundIs
    <3>5. r.hista + (d + 1) = r.hista + 1 + d
      BY <1>5, <2>5, RoundSum
    <3>6. QED BY <3>2, <3>4, <3>5
  <2>7. Used(r2) = u - d
    <3>1. u - d \in Nat /\ u - d < HSTSIZE /\ d + 1 \in Nat /\ d + 1 < HSTSIZE /\ (d + 1) + (u - d) = HSTSIZE
      BY <1>8, <1>10, <1>15, <2>5
    <3>2. u - d \in Cell /\ d + 1 \in Cell
      BY <1>11, <3>1
    <3>3. Round(r2.hista, u - d) = r.hista
      BY <1>5, <2>6, <3>1, <3>2, RoundOnce
    <3>4. Round(r.histb, 1) = r.hista
      <4>1. u + 1 = HSTSIZE
        BY <1>8, <1>10
      <4>2. QED BY <1>5, <1>6, <1>12, <4>1, RoundOnce
    <3>5. QED BY <1>1, <3>2, <3>3, <3>4, UsedIs
  <2>8. \A i \in 1 .. u - d : CharAt(r2, i - 1) = T2[(N + 1) - (u - d) + i]
    <3> TAKE i \in 1 .. u - d
    <3>1. i - 1 \in Cell /\ Round(r2.hista, i - 1) = Round(r.hista, d + i) /\ d + i \in Cell
      <4>1. i - 1 \in Nat /\ i - 1 < HSTSIZE /\ d + i \in Nat /\ d + i < HSTSIZE
            /\ d + 1 \in Nat /\ d + 1 < HSTSIZE /\ (d + 1) + (i - 1) = d + i
        BY <1>10, <1>15, <2>5
      <4>2. i - 1 \in Cell /\ d + i \in Cell /\ d + 1 \in Cell
        BY <1>11, <4>1
      <4>3. QED BY <1>5, <2>6, <4>1, <4>2, RoundOnce
    <3>2. CharAt(r2, i - 1) = r2.history[Round(r.hista, d + i)]
      BY <1>1, <3>1, CharAtIs
    <3>3. CASE d + i = u
      <4>1. (N + 1) - (u - d) + i = N + 1
        BY <1>2, <2>5, <3>3
      <4>2. QED BY <1>3, <1>5, <1>6, <3>2, <3>3, <4>1
    <3>4. CASE d + i # u
      <4>1. Round(r.hista, d + i) # r.histb /\ Round(r.hista, d + i) \in Cell
        <5> DEFINE x == d + i
        <5>1. x \in Cell /\ x # u
          BY <3>1, <3>4
        <5> HIDE DEF x
        <5>2. Round(r.hista, x) # Round(r.hista, u)
          BY <1>5, <1>12, <5>1, RoundInj
        <5>3. Round(r.hista, x) \in Cell
          BY <1>5, <5>1, RoundType
        <5>4. QED BY <1>6, <5>2, <5>3 DEF x
      <4>2. CharAt(r2, i - 1) = CharAt(r, d + i)
        BY <1>5, <3>1, <3>2, <4>1, CharAtIs
      <4>3. d + i + 1 \in 1 .. u /\ (d + i + 1) - 1 = d + i
        BY <1>2, <2>5, <3>4
      <4>4. CharAt(r, d + i) = T[N - u + (d + i + 1)]
        BY <1>2, <4>3
      <4>5. N - u + (d + i + 1) \in 1 .. N /\ (N + 1) - (u - d) + i = N - u + (d + i + 1)
        BY <1>2, <2>5, <4>3
      <4>6. QED BY <1>3, <4>2, <4>4, <4>5
    <3>5. QED BY <3>3, <3>4
  <2>9. \A i \in 0 .. d : CharAt(r, i) = r.history[Round(r.hista, i)] /\ CharAt(r, i) = T[N - u + (i + 1)]
    <3> TAKE i \in 0 .. d
    <3>1. i \in Cell /\ i + 1 \in 1 .. u /\ (i + 1) - 1 = i
      <4>1. i \in Nat /\ i < HSTSIZE /\ i + 1 <= u
        BY <1>10, <1>15, <2>5
      <4>2. QED BY <1>11, <4>1
    <3>2. QED BY <1>2, <3>1, CharAtIs
  <2>10. (N + 1) - (u - d) \in 1 .. N /\ T[(N + 1) - (u - d)] = "nul"
    <3>1. (N + 1) - (u - d) = N - u + (d + 1) /\ d \in 0 .. d /\ (N + 1) - (u - d) \in 1 .. N
      BY <1>2, <2>5
    <3>2. QED BY <2>4, <2>9, <3>1
  <2>11. Boundary(T2, (N + 1) - (u - d))
    BY <1>3, <2>10 DEF Boundary
  <2>12. \A q \in 0 .. (N + 1) - (u - d) - 1 : Boundary(T2, q) => (N + 1) - q >= HSTSIZE
    <3> TAKE q \in 0 .. (N + 1) - (u - d) - 1
    <3> HAVE Boundary(T2, q)
    <3>1. q \in 0 .. N /\ Boundary(T, q)
      BY <1>2, <1>4, <2>5
    <3>2. CASE q < N - u
      BY <1>2, <1>15, <3>1, <3>2, <1>10
    <3>3. CASE q = N - u
      BY <1>15, <1>8, <3>3, <1>10
    <3>4. CASE q > N - u
      <4>1. q - (N - u) - 1 \in 0 .. d - 1 /\ N - u + ((q - (N - u) - 1) + 1) = q /\ q # 0
        BY <1>2, <2>5, <3>4
      <4>2. T[q] # "nul"
        <5> DEFINE i == q - (N - u) - 1
        <5>1. i \in 0 .. d - 1 /\ i \in 0 .. d /\ N - u + (i + 1) = q
          BY <2>5, <4>1
        <5> HIDE DEF i
        <5>2. r.history[Round(r.hista, i)] # "nul"
          BY <2>4, <5>1
        <5>3. r.history[Round(r.hista, i)] = T[N - u + (i + 1)]
          BY <2>9, <5>1
        <5>4. QED BY <5>1, <5>2, <5>3
      <4>3. QED BY <3>1, <4>1, <4>2 DEF Boundary
    <3>5. QED BY <1>2, <3>1, <3>2, <3>3, <3>4
  <2>13. u - d <= N + 1 /\ u - d < HSTSIZE
    BY <1>15, <2>5, <1>10
  <2>14. KeptOf(Held(r2), T2)
    BY <1>2, <1>3, <1>10, <1>13, <2>5, <2>7, <2>8, <2>11, <2>12, <2>13 DEF KeptOf
  <2>15. QED BY <2>14 DEF r2, T2
<1>9. QED BY <1>15, <1>7, <1>8, <1>10

\* A line is put into the ring one character after the other.
LEMMA PutFolds ==
  ASSUME NEW r \in Ring, NEW s \in Seq(Stored)
  PROVE  \E f \in [0 .. Len(s) -> Ring] : /\ f[0] = r /\ f[Len(s)] = FoldLeft(PutChar, r, s)
                                          /\ \A k \in 1 .. Len(s) : f[k] = PutChar(f[k - 1], s[k])
<1> DEFINE n == Len(s)
           G == [p \in Ring \X (1 .. n) |-> PutChar(p[1], s[p[2]])]
           Step(it) == it = [z \in SUBSET (1 .. n) |-> IF z = {} THEN r ELSE PutChar(it[z \ {Max(z)}], s[Max(z)])]
           it0 == CHOOSE it : Step(it)
<1>1. n \in Nat /\ DOMAIN s = 1 .. n /\ \A k \in 1 .. n : s[k] \in Stored
  OBVIOUS
<1>2. \A x \in Ring, k \in 1 .. n : G[<<x, k>>] = PutChar(x, s[k]) /\ PutChar(x, s[k]) \in Ring
  BY <1>1, PutCharType
<1>3. G \in [Ring \X (1 .. n) -> Ring]
  BY <1>1, PutCharType
<1>4. FoldLeft(PutChar, r, s) = it0[1 .. n]
  BY <1>1 DEF FoldLeft, MapThenFoldSet
<1> HIDE DEF G, n
<1>5. \A z \in SUBSET (1 .. n) : z # {} => Max(z) \in 1 .. n
  <2> TAKE z \in SUBSET (1 .. n)
  <2>1. z \subseteq 0 .. n
    BY <1>1
  <2>2. z # {} => Max(z) \in z
    BY <1>1, <2>1, MaxFacts
  <2>3. QED BY <2>2
<1>6. PICK it \in [SUBSET (1 .. n) -> Ring] : Folds(it, n, r, G)
  BY <1>1, <1>3, FoldExists
<1>7. \A z \in SUBSET (1 .. n) : z # {} => G[<<it[z \ {Max(z)}], Max(z)>>] = PutChar(it[z \ {Max(z)}], s[Max(z)])
  BY <1>2, <1>5
<1>8. Step(it)
  BY <1>6, <1>7 DEF Folds
<1>9. Step(it0)
  <2> HIDE DEF Step
  <2>1. \E x : Step(x)
    BY <1>8
  <2>2. QED BY <2>1, Zenon
<1>10. it0[{}] = r
  <2> HIDE DEF it0
  <2>1. {} \in SUBSET (1 .. n)
    OBVIOUS
  <2>2. QED BY <1>9, <2>1
<1>11. ASSUME NEW k \in 1 .. n, it0[1 .. (k - 1)] \in Ring
       PROVE  it0[1 .. k] = G[<<it0[1 .. (k - 1)], k>>]
  <2> HIDE DEF it0
  <2>1. it0[1 .. k] = PutChar(it0[(1 .. k) \ {Max(1 .. k)}], s[Max(1 .. k)])
    BY ZenonT(60), <1>1, <1>9, UpTo
  <2>2. it0[1 .. k] = PutChar(it0[1 .. (k - 1)], s[k])
    BY <1>1, <2>1, UpTo
  <2>3. QED BY <1>2, <1>11, <2>2
<1> HIDE DEF it0
<1>12. Stages(Ring, n, it0, r, G)
  BY <1>10, <1>11 DEF Stages
<1>13. PICK f \in [0 .. n -> Ring] : Through(f, n, r, G, it0[1 .. n])
  BY <1>1, <1>3, <1>12, FoldThrough
<1>14. f[0] = r /\ f[n] = it0[1 .. n] /\ \A k \in 1 .. n : f[k] = PutChar(f[k - 1], s[k])
  <2>1. \A k \in 1 .. n : f[k - 1] \in Ring
    BY <1>1
  <2>2. QED BY <1>2, <1>13, <2>1 DEF Through
<1>15. QED BY <1>4, <1>13, <1>14 DEF n

\* A text with the beginning of another one after it.
LEMMA Beginning ==
  ASSUME NEW T \in Seq(Stored), NEW s \in Seq(Stored), NEW k \in 0 .. Len(s)
  PROVE  LET U == T \o SubSeq(s, 1, k)
         IN /\ U \in Seq(Stored) /\ Len(U) = Len(T) + k
            /\ \A i \in 1 .. Len(T) : U[i] = T[i]
            /\ \A j \in 1 .. k : U[Len(T) + j] = s[j]
            /\ k = 0 => U = T
            /\ k = Len(s) => U = T \o s
            /\ k < Len(s) => T \o SubSeq(s, 1, k + 1) = Append(U, s[k + 1])
<1> DEFINE b == SubSeq(s, 1, k)
           U == T \o b
<1>1. b \in Seq(Stored) /\ Len(b) = k /\ \A j \in 1 .. k : b[j] = s[j]
  OBVIOUS
<1>2. k = Len(s) => b = s
  OBVIOUS
<1>3. k = 0 => b = << >>
  OBVIOUS
<1>4. k < Len(s) => SubSeq(s, 1, k + 1) = Append(b, s[k + 1])
  OBVIOUS
<1> HIDE DEF b
<1>5. U \in Seq(Stored) /\ Len(U) = Len(T) + k
  BY <1>1
<1>6. (\A i \in 1 .. Len(T) : U[i] = T[i]) /\ \A j \in 1 .. k : U[Len(T) + j] = s[j]
  BY <1>1
<1>7. k = 0 => U = T
  BY <1>3
<1>8. k = Len(s) => U = T \o s
  BY <1>2
<1>9. ASSUME k < Len(s) PROVE T \o SubSeq(s, 1, k + 1) = Append(U, s[k + 1])
  <2>1. s[k + 1] \in Stored
    BY <1>9
  <2>2. \A x \in Stored : T \o Append(b, x) = Append(T \o b, x)
    BY <1>1
  <2>3. QED BY <1>4, <1>9, <2>1, <2>2
<1>10. QED BY <1>5, <1>6, <1>7, <1>8, <1>9 DEF b

\* A line added leaves no long run without an end of a line.
LEMMA StaysBroken ==
  ASSUME NEW T \in Seq(Stored), Broken(T), Boundary(T, Len(T)),
         NEW s \in Seq(Stored), Len(s) <= CMDFULL, s # << >>, s[Len(s)] = "nul", NEW k \in 0 .. Len(s)
  PROVE  Broken(T \o SubSeq(s, 1, k))
<1> DEFINE U == T \o SubSeq(s, 1, k)
           N == Len(T)
<1>1. /\ Len(U) = N + k /\ N \in Nat
      /\ \A i \in 1 .. N : U[i] = T[i]
      /\ \A j \in 1 .. k : U[N + j] = s[j]
  BY Beginning
<1>2. CMDFULL \in Nat /\ CMDFULL > 0 /\ Len(s) \in Nat /\ Len(s) > 0 /\ Len(s) <= CMDFULL
  BY SizeFacts
<1>3. \A i \in 0 .. N - CMDFULL : \E j \in i + 1 .. i + CMDFULL : T[j] = "nul"
  BY DEF Broken
<1>4. N > 0 => T[N] = "nul"
  BY <1>1 DEF Boundary
<1> HIDE DEF U, N
<1>5. ASSUME NEW i \in 0 .. Len(U) - CMDFULL PROVE \E j \in i + 1 .. i + CMDFULL : U[j] = "nul"
  <2>1. i \in Nat /\ i + CMDFULL <= N + k
    BY <1>1, <1>2
  <2>2. CASE i + CMDFULL <= N
    <3>1. i \in 0 .. N - CMDFULL
      BY <1>1, <1>2, <2>1, <2>2
    <3>2. PICK j \in i + 1 .. i + CMDFULL : T[j] = "nul"
      BY <1>3, <3>1
    <3>3. j \in 1 .. N
      BY <1>1, <1>2, <2>1, <2>2
    <3>4. QED BY <1>1, <3>2, <3>3
  <2>3. CASE i < N /\ N < i + CMDFULL
    <3>1. N \in i + 1 .. i + CMDFULL /\ N \in 1 .. N /\ N > 0
      BY <1>1, <1>2, <2>1, <2>3
    <3>2. QED BY <1>1, <1>4, <3>1
  <2>4. CASE N <= i
    <3>1. i = N /\ k = CMDFULL /\ k = Len(s) /\ k \in 1 .. k /\ N + k \in i + 1 .. i + CMDFULL
      BY <1>1, <1>2, <2>1, <2>4
    <3>2. U[N + k] = "nul"
      BY <1>1, <3>1
    <3>3. QED BY <3>1, <3>2
  <2>5. QED BY <1>1, <1>2, <2>1, <2>2, <2>3, <2>4
<1>6. QED BY <1>5 DEF Broken, U

LEMMA LineFacts ==
  ASSUME NEW line \in Line
  PROVE  /\ line \in Seq(Char) /\ line \in Seq(Stored) /\ Len(line) \in Nat /\ Len(line) < CMDFULL
         /\ \A i \in 1 .. Len(line) : line[i] \in Char /\ line[i] # "nul" /\ line[i] # "nl"
<1>1. PICK m \in 0 .. CMDFULL - 1 : line \in [1 .. m -> Char]
  BY DEF Line, SeqOf
<1>2. m \in Nat /\ m < CMDFULL
  BY SizeFacts
<1>3. line \in Seq(Char) /\ Len(line) = m
  BY <1>1, <1>2
<1>4. line \in [1 .. m -> Stored]
  BY <1>1 DEF Stored
<1>5. line \in Seq(Stored)
  BY <1>2, <1>4
<1>6. \A i \in 1 .. m : line[i] \in Char
  BY <1>1
<1>7. "nul" \notin Char /\ "nl" \notin Char
  BY Sizes
<1>8. QED BY <1>2, <1>3, <1>5, <1>6, <1>7

LEMMA CodeFacts ==
  ASSUME NEW line \in Line
  PROVE  LET s == Append(line, "nul")
         IN /\ s \in Seq(Stored) /\ Len(s) = Len(line) + 1 /\ s[Len(s)] = "nul" /\ Len(s) <= CMDFULL /\ s # << >>
            /\ Len(s) \in Cell
            /\ \A i \in 1 .. Len(line) : s[i] = line[i] /\ s[i] # "nul"
<1> DEFINE s == Append(line, "nul")
<1>1. /\ line \in Seq(Stored) /\ Len(line) \in Nat /\ Len(line) < CMDFULL
      /\ \A i \in 1 .. Len(line) : line[i] # "nul"
  BY LineFacts
<1>2. "nul" \in Stored
  BY DEF Stored
<1>3. s \in Seq(Stored) /\ Len(s) = Len(line) + 1 /\ s[Len(line) + 1] = "nul" /\ \A i \in 1 .. Len(line) : s[i] = line[i]
  BY <1>1, <1>2
<1> HIDE DEF s
<1>4. Len(s) <= CMDFULL /\ s # << >>
  BY <1>1, <1>3, SizeFacts
<1>5. Len(s) \in Cell
  BY <1>1, <1>3, SizeFacts DEF Cell
<1>6. QED BY <1>1, <1>3, <1>4, <1>5 DEF s

\* A line added to the ring is added to the text.
LEMMA AddLineKeeps ==
  ASSUME NEW r \in Ring, NEW T \in Seq(Stored), KeptOf(Held(r), T), Broken(T), Boundary(T, Len(T)), NEW line \in Line
  PROVE  /\ AddLine(r, line) \in Ring
         /\ KeptOf(Held(AddLine(r, line)), T \o Append(line, "nul"))
         /\ Broken(T \o Append(line, "nul")) /\ Boundary(T \o Append(line, "nul"), Len(T \o Append(line, "nul")))
         /\ T \o Append(line, "nul") \in Seq(Stored)
         /\ AddLine(r, line).histb = Round(r.histb, Len(line) + 1)
<1> DEFINE s == Append(line, "nul")
           n == Len(s)
<1>1. s \in Seq(Stored) /\ n \in Nat /\ n = Len(line) + 1 /\ s[n] = "nul" /\ n <= CMDFULL /\ s # << >> /\ n \in Cell
  BY CodeFacts
<1>2. PICK f \in [0 .. n -> Ring] : /\ f[0] = r /\ f[n] = AddLine(r, line)
                                    /\ \A k \in 1 .. n : f[k] = PutChar(f[k - 1], s[k])
  BY <1>1, PutFolds DEF AddLine
<1> HIDE DEF s
<1> DEFINE P(k) == KeptOf(Held(f[k]), T \o SubSeq(s, 1, k)) /\ f[k].histb = Round(r.histb, k)
           K == { k \in Nat : k <= n => P(k) }
<1>3. r.histb \in Cell /\ 1 \in Cell /\ 0 \in Cell
  BY SizeFacts DEF Ring, Cell
<1>4. P(0)
  <2>1. T \o SubSeq(s, 1, 0) = T
    BY <1>1, Beginning
  <2>2. Round(r.histb, 0) = r.histb
    BY <1>3, SizeFacts DEF Round, Cell
  <2>3. QED BY <1>2, <2>1, <2>2
<1>5. ASSUME NEW k \in Nat, k + 1 <= n, P(k) PROVE P(k + 1)
  <2>1. k \in 0 .. n /\ k < n /\ k + 1 \in 1 .. n /\ (k + 1) - 1 = k
    BY <1>1, <1>5
  <2>2. f[k] \in Ring /\ f[k + 1] = PutChar(f[k], s[k + 1])
    BY <1>2, <2>1
  <2>3. s[k + 1] \in Stored
    BY <1>1, <2>1
  <2>4. T \o SubSeq(s, 1, k) \in Seq(Stored) /\ T \o SubSeq(s, 1, k + 1) = Append(T \o SubSeq(s, 1, k), s[k + 1])
    <3>1. s \in Seq(Stored) /\ k \in 0 .. Len(s) - 1
      BY <1>1, <2>1
    <3> HIDE DEF s
    <3>2. SubSeq(s, 1, k) \in Seq(Stored) /\ SubSeq(s, 1, k + 1) = Append(SubSeq(s, 1, k), s[k + 1])
      BY <3>1
    <3>3. \A x, y \in Seq(Stored) : x \o y \in Seq(Stored)
      OBVIOUS
    <3>4. \A x, y \in Seq(Stored), c \in Stored : x \o Append(y, c) = Append(x \o y, c)
      OBVIOUS
    <3>5. QED BY ONLY T \in Seq(Stored), <2>3, <3>2, <3>3, <3>4
  <2>5. Broken(T \o SubSeq(s, 1, k))
    BY <1>1, <2>1, StaysBroken
  <2>6. KeptOf(Held(f[k + 1]), T \o SubSeq(s, 1, k + 1))
    BY <1>5, <2>2, <2>3, <2>4, <2>5, PutKeeps
  <2>7. f[k + 1].histb = Round(Round(r.histb, k), 1)
    BY <1>5, <2>2, <2>3, PutCharType
  <2>8. k \in Cell /\ k + 1 < HSTSIZE
    BY <1>1, <2>1, SizeFacts DEF Cell
  <2>9. Round(Round(r.histb, k), 1) = Round(r.histb, k + 1)
    BY <1>3, <2>8, RoundTwice
  <2>10. QED BY <2>6, <2>7, <2>9
<1>6. P(n)
  <2> HIDE DEF P
  <2>1. 0 \in K
    BY <1>4
  <2>2. \A k \in Nat : k \in K => k + 1 \in K
    <3> SUFFICES ASSUME NEW k \in Nat, k \in K, k + 1 <= n PROVE P(k + 1)
      OBVIOUS
    <3>1. k <= n
      BY <1>1
    <3>2. QED BY <1>5, <3>1
  <2> HIDE DEF K
  <2>3. n \in K
    BY <1>1, <2>1, <2>2, SetInduction
  <2>4. QED BY <1>1, <2>3 DEF K
<1>7. T \o SubSeq(s, 1, n) = T \o s /\ T \o s \in Seq(Stored) /\ Len(T \o s) = Len(T) + n /\ (T \o s)[Len(T) + n] = s[n]
  <2>1. n \in 0 .. Len(s) /\ n \in 1 .. n /\ n = Len(s)
    BY <1>1, CodeFacts DEF s
  <2>2. QED BY SMTT(40), <1>1, <2>1, Beginning
<1>8. Broken(T \o s)
  <2>1. n \in 0 .. Len(s) /\ n = Len(s)
    BY <1>1, CodeFacts DEF s
  <2>2. Broken(T \o SubSeq(s, 1, n))
    BY <1>1, <2>1, StaysBroken
  <2>3. QED BY <1>7, <2>2
<1>9. AddLine(r, line) \in Ring
  BY <1>1, <1>2
<1>10. Boundary(T \o s, Len(T \o s))
  BY <1>1, <1>7 DEF Boundary
<1>11. KeptOf(Held(AddLine(r, line)), T \o s) /\ AddLine(r, line).histb = Round(r.histb, Len(line) + 1)
  BY <1>1, <1>2, <1>6, <1>7
<1>12. QED BY <1>7, <1>8, <1>9, <1>10, <1>11 DEF s

(* The text of some lines. *)

Code(line) == Append(line, "nul")

\* The lines are encoded one after the other.
LEMMA EncodedFolds ==
  ASSUME NEW s \in Seq(Line)
  PROVE  \E f \in [0 .. Len(s) -> Seq(Stored)] : /\ f[0] = << >> /\ f[Len(s)] = Encoded(s)
                                               /\ \A k \in 1 .. Len(s) : f[k] = f[k - 1] \o Code(s[k])
<1> DEFINE n == Len(s)
           X == Seq(Stored)
           G == [p \in X \X (1 .. n) |-> p[1] \o Code(s[p[2]])]
           Step(it) == it = [z \in SUBSET (1 .. n) |-> IF z = {} THEN << >> ELSE it[z \ {Max(z)}] \o Code(s[Max(z)])]
           it0 == CHOOSE it : Step(it)
<1>1. n \in Nat /\ DOMAIN s = 1 .. n /\ \A k \in 1 .. n : s[k] \in Line
  OBVIOUS
<1>2. \A k \in 1 .. n : Code(s[k]) \in X
  BY <1>1, CodeFacts DEF Code
<1>3. \A x \in X, k \in 1 .. n : G[<<x, k>>] = x \o Code(s[k]) /\ x \o Code(s[k]) \in X
  <2> TAKE x \in X, k \in 1 .. n
  <2>1. \A y \in X : x \o y \in X
    OBVIOUS
  <2>2. x \o Code(s[k]) \in X
    BY <1>2, <2>1
  <2> HIDE DEF X
  <2>3. <<x, k>> \in X \X (1 .. n) /\ <<x, k>>[1] = x /\ <<x, k>>[2] = k
    OBVIOUS
  <2>4. G[<<x, k>>] = <<x, k>>[1] \o Code(s[<<x, k>>[2]])
    BY <2>3
  <2>5. QED BY <2>2, <2>3, <2>4
<1>4. G \in [X \X (1 .. n) -> X]
  <2>1. \A p \in X \X (1 .. n) : p[1] \o Code(s[p[2]]) \in X
    BY <1>3
  <2>2. QED BY <2>1
<1>5. Encoded(s) = it0[1 .. n]
  BY <1>1 DEF Encoded, FoldLeft, MapThenFoldSet, Code
<1>6. << >> \in X
  OBVIOUS
<1> HIDE DEF G, n, X
<1>7. \A z \in SUBSET (1 .. n) : z # {} => Max(z) \in 1 .. n
  <2> TAKE z \in SUBSET (1 .. n)
  <2>1. z \subseteq 0 .. n
    BY <1>1
  <2>2. z # {} => Max(z) \in z
    BY <1>1, <2>1, MaxFacts
  <2>3. QED BY <2>2
<1>8. PICK it \in [SUBSET (1 .. n) -> X] : Folds(it, n, << >>, G)
  BY <1>1, <1>4, <1>6, FoldExists
<1>9. \A z \in SUBSET (1 .. n) : z # {} => G[<<it[z \ {Max(z)}], Max(z)>>] = it[z \ {Max(z)}] \o Code(s[Max(z)])
  BY <1>3, <1>7
<1>10. Step(it)
  BY <1>8, <1>9 DEF Folds
<1>11. Step(it0)
  <2> HIDE DEF Step
  <2>1. \E x : Step(x)
    BY <1>10
  <2>2. QED BY <2>1, Zenon
<1>12. it0[{}] = << >>
  <2> HIDE DEF it0
  <2>1. {} \in SUBSET (1 .. n)
    OBVIOUS
  <2>2. QED BY <1>11, <2>1
<1>13. ASSUME NEW k \in 1 .. n, it0[1 .. (k - 1)] \in X
       PROVE  it0[1 .. k] = G[<<it0[1 .. (k - 1)], k>>]
  <2> HIDE DEF it0
  <2>1. it0[1 .. k] = it0[(1 .. k) \ {Max(1 .. k)}] \o Code(s[Max(1 .. k)])
    BY ZenonT(60), <1>1, <1>11, UpTo
  <2>2. it0[1 .. k] = it0[1 .. (k - 1)] \o Code(s[k])
    BY <1>1, <2>1, UpTo
  <2>3. QED BY <1>3, <1>13, <2>2
<1> HIDE DEF it0
<1>14. Stages(X, n, it0, << >>, G)
  BY <1>12, <1>13 DEF Stages
<1>15. PICK f \in [0 .. n -> X] : Through(f, n, << >>, G, it0[1 .. n])
  BY <1>1, <1>4, <1>6, <1>14, FoldThrough
<1>16. f[0] = << >> /\ f[n] = it0[1 .. n] /\ \A k \in 1 .. n : f[k] = f[k - 1] \o Code(s[k])
  <2>1. \A k \in 1 .. n : f[k - 1] \in X
    BY <1>1
  <2>2. QED BY <1>3, <1>15, <2>1 DEF Through
<1>17. QED BY <1>5, <1>15, <1>16 DEF n, X

\* The text of no lines, and of one line more.
LEMMA EncodedNone == Encoded(<< >>) = << >>
<1>1. << >> \in Seq(Line) /\ Len(<< >>) = 0
  OBVIOUS
<1>2. QED BY <1>1, EncodedFolds

LEMMA EncodedMore ==
  ASSUME NEW s \in Seq(Line), NEW line \in Line
  PROVE  /\ Encoded(s) \in Seq(Stored)
         /\ Encoded(Append(s, line)) = Encoded(s) \o Code(line)
<1> DEFINE n == Len(s)
           t == Append(s, line)
<1>1. n \in Nat /\ t \in Seq(Line) /\ Len(t) = n + 1 /\ t[n + 1] = line /\ \A k \in 1 .. n : t[k] = s[k]
  OBVIOUS
<1> HIDE DEF t
<1>2. PICK f \in [0 .. n -> Seq(Stored)] : /\ f[0] = << >> /\ f[n] = Encoded(s)
                                          /\ \A k \in 1 .. n : f[k] = f[k - 1] \o Code(s[k])
  BY EncodedFolds
<1>3. PICK g \in [0 .. n + 1 -> Seq(Stored)] : /\ g[0] = << >> /\ g[n + 1] = Encoded(t)
                                              /\ \A k \in 1 .. n + 1 : g[k] = g[k - 1] \o Code(t[k])
  <2>1. \E g \in [0 .. Len(t) -> Seq(Stored)] : /\ g[0] = << >> /\ g[Len(t)] = Encoded(t)
                                                /\ \A k \in 1 .. Len(t) : g[k] = g[k - 1] \o Code(t[k])
    BY <1>1, EncodedFolds, Zenon
  <2>2. Len(t) = n + 1
    BY <1>1
  <2>3. QED BY ONLY <2>1, <2>2, Zenon
<1> DEFINE K == { k \in Nat : k <= n => f[k] = g[k] }
<1>4. 0 \in K
  BY <1>2, <1>3
<1>5. ASSUME NEW k \in Nat, k \in K PROVE k + 1 \in K
  <2> SUFFICES ASSUME k + 1 <= n PROVE f[k + 1] = g[k + 1]
    OBVIOUS
  <2>1. k + 1 \in 1 .. n /\ k + 1 \in 1 .. n + 1 /\ (k + 1) - 1 = k /\ f[k] = g[k]
    BY <1>1, <1>5
  <2>2. f[k + 1] = f[k] \o Code(s[k + 1]) /\ g[k + 1] = g[k] \o Code(t[k + 1])
    BY <1>2, <1>3, <2>1
  <2>3. QED BY <1>1, <2>1, <2>2
<1>6. f[n] = g[n]
  <2> HIDE DEF K
  <2>1. n \in K
    BY <1>1, <1>4, <1>5, SetInduction
  <2>2. QED BY <1>1, <2>1 DEF K
<1>7. n + 1 \in 1 .. n + 1 /\ (n + 1) - 1 = n /\ n \in 0 .. n
  BY <1>1
<1>8. g[n + 1] = g[n] \o Code(t[n + 1])
  BY <1>3, <1>7
<1>9. QED BY <1>1, <1>2, <1>3, <1>6, <1>7, <1>8 DEF t

LEMMA EncodedType ==
  ASSUME NEW s \in Seq(Line)
  PROVE  Encoded(s) \in Seq(Stored) /\ Len(Encoded(s)) \in Nat
<1>1. PICK f \in [0 .. Len(s) -> Seq(Stored)] : f[Len(s)] = Encoded(s)
  BY EncodedFolds
<1>2. Len(s) \in 0 .. Len(s)
  OBVIOUS
<1>3. QED BY <1>1, <1>2

\* The text of lines after others.
LEMMA EncodedCat ==
  ASSUME NEW s \in Seq(Line), NEW t \in Seq(Line)
  PROVE  Encoded(s \o t) = Encoded(s) \o Encoded(t)
<1> DEFINE n == Len(t)
           P(k) == Encoded(s \o SubSeq(t, 1, k)) = Encoded(s) \o Encoded(SubSeq(t, 1, k))
           K == { k \in Nat : k <= n => P(k) }
<1>0. n \in Nat /\ s \o t \in Seq(Line)
  OBVIOUS
<1>1. P(0)
  <2>1. SubSeq(t, 1, 0) = << >> /\ s \o << >> = s
    OBVIOUS
  <2>2. Encoded(s) \in Seq(Stored)
    BY EncodedType
  <2>3. Encoded(s) \o << >> = Encoded(s)
    BY <2>2
  <2>4. QED BY <2>1, <2>3, EncodedNone
<1>2. ASSUME NEW k \in Nat, k + 1 <= n, P(k) PROVE P(k + 1)
  <2> DEFINE b == SubSeq(t, 1, k)
             x == t[k + 1]
  <2>1. b \in Seq(Line) /\ SubSeq(t, 1, k + 1) = Append(b, x) /\ x \in Line
    BY <1>2
  <2> HIDE DEF b, x
  <2>2. s \o Append(b, x) = Append(s \o b, x) /\ s \o b \in Seq(Line)
    BY <2>1
  <2>3. Encoded(Append(s \o b, x)) = Encoded(s \o b) \o Code(x)
    BY <2>1, <2>2, EncodedMore
  <2>4. Encoded(s \o b) = Encoded(s) \o Encoded(b)
    BY <1>2 DEF b
  <2>5. Encoded(Append(b, x)) = Encoded(b) \o Code(x)
    BY <2>1, EncodedMore
  <2>6. Encoded(s) \in Seq(Stored) /\ Encoded(b) \in Seq(Stored) /\ Code(x) \in Seq(Stored)
    BY <2>1, EncodedType, CodeFacts DEF Code
  <2>7. (Encoded(s) \o Encoded(b)) \o Code(x) = Encoded(s) \o (Encoded(b) \o Code(x))
    BY <2>6
  <2>8. QED BY <2>1, <2>2, <2>3, <2>4, <2>5, <2>7
<1>3. P(n)
  <2> HIDE DEF P
  <2>1. 0 \in K
    BY <1>1
  <2>2. \A k \in Nat : k \in K => k + 1 \in K
    <3> SUFFICES ASSUME NEW k \in Nat, k \in K, k + 1 <= n PROVE P(k + 1)
      OBVIOUS
    <3>1. k <= n
      BY <1>0
    <3>2. QED BY <1>2, <3>1
  <2> HIDE DEF K
  <2>3. n \in K
    BY <1>0, <2>1, <2>2, SetInduction
  <2>4. QED BY <1>0, <2>3 DEF K
<1>4. SubSeq(t, 1, n) = t
  OBVIOUS
<1>5. QED BY <1>3, <1>4

\* Where the lines of a text begin: after the first of them.
LEMMA BoundaryIs ==
  ASSUME NEW s \in Seq(Line), NEW p \in 0 .. Len(Encoded(s)), Boundary(Encoded(s), p)
  PROVE  \E k \in 0 .. Len(s) : p = Len(Encoded(SubSeq(s, 1, k)))
<1> DEFINE n == Len(s)
           E(k) == Encoded(SubSeq(s, 1, k))
           P(k) == \A q \in 0 .. Len(E(k)) : Boundary(E(k), q) => \E j \in 0 .. k : q = Len(E(j))
           K == { k \in Nat : k <= n => P(k) }
<1>1. n \in Nat /\ SubSeq(s, 1, n) = s /\ \A k \in 0 .. n : SubSeq(s, 1, k) \in Seq(Line)
  OBVIOUS
<1>2. P(0)
  <2>1. SubSeq(s, 1, 0) = << >> /\ Len(<< >>) = 0
    OBVIOUS
  <2>2. E(0) = << >>
    BY <2>1, EncodedNone
  <2>3. QED BY <2>1, <2>2
<1>3. ASSUME NEW k \in Nat, k + 1 <= n, P(k) PROVE P(k + 1)
  <2> DEFINE b == SubSeq(s, 1, k)
             x == s[k + 1]
             A == Encoded(b)
             B == Encoded(Append(b, x))
  <2>1. b \in Seq(Line) /\ SubSeq(s, 1, k + 1) = Append(b, x) /\ x \in Line
    BY <1>3
  <2>2. E(k) = A /\ E(k + 1) = B
    BY <2>1
  <2>3. B = A \o Code(x) /\ A \in Seq(Stored)
    BY <2>1, EncodedMore
  <2>4. /\ Code(x) \in Seq(Stored) /\ Len(Code(x)) = Len(x) + 1 /\ Len(x) \in Nat
        /\ \A i \in 1 .. Len(x) : Code(x)[i] # "nul"
    BY <2>1, CodeFacts, LineFacts DEF Code
  <2>5. /\ Len(B) = Len(A) + (Len(x) + 1) /\ Len(A) \in Nat
        /\ \A i \in 1 .. Len(A) : B[i] = A[i]
        /\ \A i \in 1 .. Len(x) : B[Len(A) + i] # "nul"
    <3> HIDE DEF A, B, x
    <3>1. Len(B) = Len(A) + (Len(x) + 1) /\ Len(A) \in Nat /\ \A i \in 1 .. Len(A) : B[i] = A[i]
      <4>1. \A c \in Seq(Stored) : /\ Len(A \o c) = Len(A) + Len(c) /\ Len(A) \in Nat
                                  /\ \A i \in 1 .. Len(A) : (A \o c)[i] = A[i]
        BY <2>3
      <4>2. QED BY <2>3, <2>4, <4>1
    <3>2. \A i \in 1 .. Len(Code(x)) : B[Len(A) + i] = Code(x)[i]
      BY <2>3, <2>4
    <3>3. \A i \in 1 .. Len(x) : i \in 1 .. Len(Code(x))
      BY <2>4
    <3>4. QED BY <2>4, <3>1, <3>2, <3>3
  <2>6. \A q \in 0 .. Len(A) : Boundary(A, q) => \E j \in 0 .. k : q = Len(E(j))
    BY <1>3, <2>2
  <2> HIDE DEF A, B, E, x
  <2>7. ASSUME NEW q \in 0 .. Len(B), Boundary(B, q) PROVE \E j \in 0 .. k + 1 : q = Len(E(j))
    <3>1. CASE q <= Len(A)
      <4>1. q \in 0 .. Len(A) /\ Boundary(A, q)
        BY <2>5, <2>7, <3>1 DEF Boundary
      <4>2. PICK j \in 0 .. k : q = Len(E(j))
        BY <2>6, <4>1
      <4>3. j \in 0 .. k + 1
        OBVIOUS
      <4>4. QED BY <4>2, <4>3
    <3>2. CASE q > Len(A) /\ q < Len(B)
      <4>1. q - Len(A) \in 1 .. Len(x) /\ q = Len(A) + (q - Len(A)) /\ q # 0
        BY <2>4, <2>5, <3>2
      <4>2. QED BY <2>5, <2>7, <4>1 DEF Boundary
    <3>3. CASE q = Len(B)
      <4>1. k + 1 \in 0 .. k + 1
        OBVIOUS
      <4>2. QED BY <2>2, <3>3, <4>1
    <3>4. q <= Len(A) \/ (q > Len(A) /\ q < Len(B)) \/ q = Len(B)
      <4>1. Len(A) \in Nat /\ Len(B) \in Nat
        BY <2>4, <2>5
      <4>2. QED BY <4>1
    <3>5. QED BY <3>1, <3>2, <3>3, <3>4
  <2>8. QED BY <2>2, <2>7
<1>4. P(n)
  <2> HIDE DEF P
  <2>1. 0 \in K
    BY <1>2
  <2>2. \A k \in Nat : k \in K => k + 1 \in K
    <3> SUFFICES ASSUME NEW k \in Nat, k \in K, k + 1 <= n PROVE P(k + 1)
      OBVIOUS
    <3>1. k <= n
      BY <1>1
    <3>2. QED BY <1>3, <3>1
  <2> HIDE DEF K
  <2>3. n \in K
    BY <1>1, <2>1, <2>2, SetInduction
  <2>4. QED BY <1>1, <2>3 DEF K
<1>5. QED BY <1>1, <1>4

(* Reading the file. *)

FileChars == Char \cup {"nl"}
Reads     == [ring : Ring, cmdline : Seq(Char)]
NoneRead  == [ring |-> NoLines, cmdline |-> << >>]

LEMMA NoneReadType == NoneRead \in Reads /\ NoLines \in Ring /\ Held(NoLines) = << >> /\ KeptOf(Held(NoLines), << >>)
<1>1. 0 \in Cell
  BY SizeFacts DEF Cell
<1>2. NoLines \in Ring /\ NoLines.hista = 0 /\ NoLines.histb = 0
  BY <1>1 DEF NoLines, Ring, Stored
<1>3. Round(0, 0) = 0
  BY SizeFacts DEF Round
<1>4. Used(NoLines) = 0
  BY <1>1, <1>2, <1>3, UsedIs
<1>5. Held(NoLines) \in Seq(Stored) /\ Len(Held(NoLines)) = 0
  BY <1>2, <1>4, HeldIs
<1>6. Held(NoLines) = << >>
  BY <1>5
<1>7. KeptOf(<< >>, << >>)
  <2>1. Len(<< >>) = 0
    OBVIOUS
  <2>2. QED BY <2>1, SizeFacts DEF KeptOf, Boundary
<1>8. QED BY <1>2, <1>6, <1>7 DEF NoneRead, Reads

LEMMA ReadCharType ==
  ASSUME NEW read \in Reads, NEW c \in FileChars
  PROVE  ReadChar(read, c) \in Reads
<1> DEFINE line == IF c = "nl" THEN read.cmdline ELSE Append(read.cmdline, c)
<1>1. read.ring \in Ring /\ read.cmdline \in Seq(Char)
  BY DEF Reads
<1>2. line \in Seq(Char)
  <2>1. CASE c = "nl"
    BY <1>1, <2>1
  <2>2. CASE c # "nl"
    <3>1. c \in Char
      BY <2>2 DEF FileChars
    <3>2. QED BY <1>1, <2>2, <3>1
  <2>3. QED BY <2>1, <2>2
<1> HIDE DEF line
<1>3. Append(line, "nul") \in Seq(Stored)
  <2>1. line \in Seq(Stored)
    BY <1>2 DEF Stored
  <2>2. "nul" \in Stored
    BY DEF Stored
  <2>3. QED BY <2>1, <2>2
<1>4. AddLine(read.ring, line) \in Ring
  <2> DEFINE s == Append(line, "nul")
  <2>1. PICK f \in [0 .. Len(s) -> Ring] : f[Len(s)] = FoldLeft(PutChar, read.ring, s)
    BY <1>1, <1>3, PutFolds
  <2>2. Len(s) \in 0 .. Len(s)
    BY <1>3
  <2>3. QED BY <2>1, <2>2 DEF AddLine
<1>5. << >> \in Seq(Char)
  OBVIOUS
<1>6. [ring |-> AddLine(read.ring, line), cmdline |-> << >>] \in Reads
  BY <1>4, <1>5 DEF Reads
<1>7. [read EXCEPT !.cmdline = line] \in Reads
  BY <1>2 DEF Reads
<1>8. ReadChar(read, c) = IF c = "nl" \/ Len(line) >= CMDFULL THEN [ring |-> AddLine(read.ring, line), cmdline |-> << >>]
                          ELSE [read EXCEPT !.cmdline = line]
  BY DEF ReadChar, line
<1>9. QED BY <1>6, <1>7, <1>8

\* The file is read one character after the other.
LEMMA ReadFolds ==
  ASSUME NEW s \in Seq(FileChars)
  PROVE  \E f \in [0 .. Len(s) -> Reads] : /\ f[0] = NoneRead /\ f[Len(s)].ring = Restored(s)
                                           /\ \A k \in 1 .. Len(s) : f[k] = ReadChar(f[k - 1], s[k])
<1> DEFINE n == Len(s)
           G == [p \in Reads \X (1 .. n) |-> ReadChar(p[1], s[p[2]])]
           Step(it) == it = [z \in SUBSET (1 .. n) |-> IF z = {} THEN NoneRead ELSE ReadChar(it[z \ {Max(z)}], s[Max(z)])]
           it0 == CHOOSE it : Step(it)
<1>1. n \in Nat /\ DOMAIN s = 1 .. n /\ \A k \in 1 .. n : s[k] \in FileChars
  OBVIOUS
<1>2. \A x \in Reads, k \in 1 .. n : G[<<x, k>>] = ReadChar(x, s[k]) /\ ReadChar(x, s[k]) \in Reads
  BY <1>1, ReadCharType
<1>3. G \in [Reads \X (1 .. n) -> Reads]
  BY <1>1, ReadCharType
<1>4. Restored(s) = it0[1 .. n].ring
  BY <1>1 DEF Restored, FoldLeft, MapThenFoldSet, NoneRead
<1> HIDE DEF G, n
<1>5. \A z \in SUBSET (1 .. n) : z # {} => Max(z) \in 1 .. n
  <2> TAKE z \in SUBSET (1 .. n)
  <2>1. z \subseteq 0 .. n
    BY <1>1
  <2>2. z # {} => Max(z) \in z
    BY <1>1, <2>1, MaxFacts
  <2>3. QED BY <2>2
<1>6. PICK it \in [SUBSET (1 .. n) -> Reads] : Folds(it, n, NoneRead, G)
  BY <1>1, <1>3, NoneReadType, FoldExists
<1>7. \A z \in SUBSET (1 .. n) : z # {} => G[<<it[z \ {Max(z)}], Max(z)>>] = ReadChar(it[z \ {Max(z)}], s[Max(z)])
  BY <1>2, <1>5
<1>8. Step(it)
  BY <1>6, <1>7 DEF Folds
<1>9. Step(it0)
  <2> HIDE DEF Step
  <2>1. \E x : Step(x)
    BY <1>8
  <2>2. QED BY <2>1, Zenon
<1>10. it0[{}] = NoneRead
  <2> HIDE DEF it0
  <2>1. {} \in SUBSET (1 .. n)
    OBVIOUS
  <2>2. QED BY <1>9, <2>1
<1>11. ASSUME NEW k \in 1 .. n, it0[1 .. (k - 1)] \in Reads
       PROVE  it0[1 .. k] = G[<<it0[1 .. (k - 1)], k>>]
  <2> HIDE DEF it0
  <2>1. it0[1 .. k] = ReadChar(it0[(1 .. k) \ {Max(1 .. k)}], s[Max(1 .. k)])
    BY ZenonT(60), <1>1, <1>9, UpTo
  <2>2. it0[1 .. k] = ReadChar(it0[1 .. (k - 1)], s[k])
    BY <1>1, <2>1, UpTo
  <2>3. QED BY <1>2, <1>11, <2>2
<1> HIDE DEF it0
<1>12. Stages(Reads, n, it0, NoneRead, G)
  BY <1>10, <1>11 DEF Stages
<1>13. PICK f \in [0 .. n -> Reads] : Through(f, n, NoneRead, G, it0[1 .. n])
  BY <1>1, <1>3, <1>12, NoneReadType, FoldThrough
<1>14. f[0] = NoneRead /\ f[n] = it0[1 .. n] /\ \A k \in 1 .. n : f[k] = ReadChar(f[k - 1], s[k])
  <2>1. \A k \in 1 .. n : f[k - 1] \in Reads
    BY <1>1
  <2>2. QED BY <1>2, <1>13, <2>1 DEF Through
<1>15. QED BY <1>4, <1>13, <1>14 DEF n

LEMMA AsTextIs ==
  ASSUME NEW content \in Seq(FileChars)
  PROVE  /\ AsText(content) \in Seq(Stored) /\ Len(AsText(content)) = Len(content)
         /\ \A i \in 1 .. Len(content) :
              /\ content[i] = "nl" => AsText(content)[i] = "nul"
              /\ content[i] # "nl" => AsText(content)[i] = content[i] /\ content[i] \in Char /\ content[i] # "nul"
<1>1. Len(content) \in Nat /\ \A i \in 1 .. Len(content) : content[i] \in Char \cup {"nl"}
  BY DEF FileChars
<1>2. AsText(content) \in [1 .. Len(content) -> Stored]
  BY <1>1 DEF AsText, Stored
<1>3. "nul" \notin Char
  BY Sizes
<1>4. \A i \in 1 .. Len(content) : AsText(content)[i] = IF content[i] = "nl" THEN "nul" ELSE content[i]
  BY DEF AsText
<1>5. QED BY <1>1, <1>2, <1>3, <1>4

\* A text that is small enough is read into the ring as it is.
LEMMA PartsOfPart ==
  ASSUME NEW X, NEW s \in Seq(X), NEW k \in 0 .. Len(s), NEW b \in 0 .. k
  PROVE  SubSeq(s, 1, b) \o SubSeq(s, b + 1, k) = SubSeq(s, 1, k)
<1> DEFINE u == SubSeq(s, 1, b)
           v == SubSeq(s, b + 1, k)
           w == SubSeq(s, 1, k)
<1>1. u \in Seq(X) /\ Len(u) = b /\ \A i \in 1 .. b : u[i] = s[i]
  OBVIOUS
<1>2. v \in Seq(X) /\ Len(v) = k - b /\ \A i \in 1 .. k - b : v[i] = s[b + i]
  OBVIOUS
<1>3. w \in Seq(X) /\ Len(w) = k /\ \A i \in 1 .. k : w[i] = s[i]
  OBVIOUS
<1>4. k \in Nat /\ b \in Nat /\ b <= k
  OBVIOUS
<1> HIDE DEF u, v, w
<1>5. u \o v \in Seq(X) /\ Len(u \o v) = k
  <2>1. \A y, z \in Seq(X) : y \o z \in Seq(X)
    OBVIOUS
  <2>2. \A y, z \in Seq(X) : Len(y \o z) = Len(y) + Len(z)
    OBVIOUS
  <2>3. b + (k - b) = k
    BY <1>4
  <2>4. QED BY ONLY <1>1, <1>2, <2>1, <2>2, <2>3
<1>6. \A i \in 1 .. k : (u \o v)[i] = w[i]
  <2> TAKE i \in 1 .. k
  <2>1. CASE i <= b
    <3>1. i \in 1 .. b
      BY <1>4, <2>1
    <3>2. (u \o v)[i] = u[i]
      BY <1>1, <1>2, <3>1
    <3>3. QED BY <1>1, <1>3, <3>1, <3>2
  <2>2. CASE i > b
    <3>1. i - b \in 1 .. k - b /\ b + (i - b) = i
      BY <1>4, <2>2
    <3>2. (u \o v)[i] = v[i - b]
      BY <1>1, <1>2, <2>2, <3>1
    <3>3. QED BY <1>2, <1>3, <3>1, <3>2
  <2>3. i <= b \/ i > b
    BY <1>4
  <2>4. QED BY <2>1, <2>2, <2>3
<1>7. u \o v = w
  BY SMTT(40), <1>3, <1>5, <1>6
<1>8. QED BY <1>7 DEF u, v, w

LEMMA RestoredIs ==
  ASSUME NEW s \in Seq(FileChars), Broken(AsText(s)), Boundary(AsText(s), Len(AsText(s))), Len(AsText(s)) < HSTSIZE
  PROVE  Restored(s) \in Ring /\ Held(Restored(s)) = AsText(s)
<1> DEFINE n == Len(s)
           U == AsText(s)
<1>1. /\ n \in Nat /\ U \in Seq(Stored) /\ Len(U) = n
      /\ \A i \in 1 .. n : /\ s[i] \in FileChars
                           /\ s[i] = "nl" => U[i] = "nul"
                           /\ s[i] # "nl" => U[i] = s[i] /\ s[i] \in Char /\ s[i] # "nul"
  <2>1. n \in Nat /\ \A i \in 1 .. n : s[i] \in FileChars
    OBVIOUS
  <2>2. QED BY <2>1, AsTextIs
<1>2. PICK f \in [0 .. n -> Reads] : /\ f[0] = NoneRead /\ f[n].ring = Restored(s)
                                     /\ \A k \in 1 .. n : f[k] = ReadChar(f[k - 1], s[k])
  BY ReadFolds
<1>3. Broken(U) /\ Boundary(U, n) /\ n < HSTSIZE
  BY <1>1
<1> HIDE DEF U, n
<1> DEFINE Good(k, b) == /\ Boundary(U, b) /\ \A i \in b + 1 .. k : U[i] # "nul"
                         /\ f[k].cmdline = SubSeq(U, b + 1, k)
                         /\ KeptOf(Held(f[k].ring), SubSeq(U, 1, b))
           P(k) == \E b \in 0 .. k : Good(k, b)
           K == { k \in Nat : k <= n => P(k) }
<1>4. P(0)
  <2>1. SubSeq(U, 1, 0) = << >>
    BY <1>1
  <2>2. f[0].ring = NoLines /\ f[0].cmdline = << >>
    BY <1>2 DEF NoneRead
  <2>3. Good(0, 0)
    <3>1. Boundary(U, 0) /\ 0 + 1 = 1 /\ \A i \in 0 + 1 .. 0 : U[i] # "nul"
      BY DEF Boundary
    <3>2. QED BY <2>1, <2>2, <3>1, NoneReadType
  <2>4. QED BY <2>3
<1>5. \A b \in 0 .. n : /\ SubSeq(U, 1, b) \in Seq(Stored) /\ Len(SubSeq(U, 1, b)) = b
                        /\ \A i \in 1 .. b : SubSeq(U, 1, b)[i] = U[i]
  BY <1>1
<1>6. \A b \in 0 .. n : Broken(SubSeq(U, 1, b))
  <2> TAKE b \in 0 .. n
  <2>1. ASSUME NEW i \in 0 .. b - CMDFULL PROVE \E j \in i + 1 .. i + CMDFULL : SubSeq(U, 1, b)[j] = "nul"
    <3>1. CMDFULL \in Nat /\ i \in 0 .. n - CMDFULL
      BY <1>1, SizeFacts
    <3>2. PICK j \in i + 1 .. i + CMDFULL : U[j] = "nul"
      BY <1>1, <1>3, <3>1 DEF Broken
    <3>3. j \in 1 .. b
      BY <1>1, <3>1
    <3>4. QED BY <1>5, <3>2, <3>3
  <2>2. QED BY <1>5, <2>1 DEF Broken
<1>7. ASSUME NEW k \in Nat, k + 1 <= n, P(k) PROVE P(k + 1)
  <2>1. PICK b \in 0 .. k : Good(k, b)
    BY <1>7
  <2>2. k \in 0 .. n /\ k + 1 \in 1 .. n /\ (k + 1) - 1 = k /\ k + 1 \in 0 .. n /\ b \in 0 .. n /\ b <= k /\ b \in Nat
    BY <1>1, <1>7
  <2> DEFINE x == f[k]
             c == s[k + 1]
             l == IF c = "nl" THEN x.cmdline ELSE Append(x.cmdline, c)
  <2>3. x \in Reads /\ f[k + 1] = ReadChar(x, c)
    BY <1>2, <2>2
  <2>4. f[k + 1] = IF c = "nl" \/ Len(l) >= CMDFULL THEN [ring |-> AddLine(x.ring, l), cmdline |-> << >>]
                   ELSE [x EXCEPT !.cmdline = l]
    BY <2>3 DEF ReadChar
  <2>5. x.cmdline \in Seq(Char) /\ x.cmdline = SubSeq(U, b + 1, k) /\ Len(x.cmdline) = k - b /\ x.ring \in Ring
    <3>1. x.cmdline \in Seq(Char) /\ x.cmdline = SubSeq(U, b + 1, k) /\ x.ring \in Ring
      BY <2>1, <2>3 DEF Reads
    <3>2. Len(SubSeq(U, b + 1, k)) = k - b
      BY <1>1, <2>2
    <3>3. QED BY <3>1, <3>2
  <2> HIDE DEF x, c, l
  <2>6. CASE c = "nl"
    <3>1. U[k + 1] = "nul" /\ l = x.cmdline
      BY <1>1, <2>2, <2>6 DEF c, l
    <3>2. k - b < CMDFULL
      <4> SUFFICES ASSUME k - b >= CMDFULL PROVE FALSE
        BY <2>2, SizeFacts
      <4>1. b \in 0 .. n - CMDFULL /\ CMDFULL \in Nat
        BY <1>1, <2>2, SizeFacts
      <4>2. PICK j \in b + 1 .. b + CMDFULL : U[j] = "nul"
        BY <1>1, <1>3, <4>1 DEF Broken
      <4>3. j \in b + 1 .. k
        BY <2>2, <4>1
      <4>4. QED BY <2>1, <4>2, <4>3
    <3>3. l \in Line
      <4>1. l \in [1 .. k - b -> Char] /\ k - b \in 0 .. CMDFULL - 1
        <5>1. l \in Seq(Char) /\ Len(l) = k - b
          BY <2>5, <3>1
        <5>2. k - b \in 0 .. CMDFULL - 1
          BY <2>2, <3>2, SizeFacts
        <5>3. QED BY <5>1, <5>2
      <4>2. QED BY <4>1 DEF Line, SeqOf
    <3>4. Boundary(SubSeq(U, 1, b), Len(SubSeq(U, 1, b)))
      BY <1>5, <2>1, <2>2 DEF Boundary
    <3>5. KeptOf(Held(AddLine(x.ring, l)), SubSeq(U, 1, b) \o Append(l, "nul")) /\ AddLine(x.ring, l) \in Ring
      <4>1. KeptOf(Held(x.ring), SubSeq(U, 1, b))
        BY <2>1 DEF x
      <4>2. QED BY <1>5, <1>6, <2>2, <2>5, <3>3, <3>4, <4>1, AddLineKeeps
    <3>6. SubSeq(U, 1, b) \o Append(l, "nul") = SubSeq(U, 1, k + 1)
      <4>1. l = SubSeq(U, b + 1, k)
        BY <2>5, <3>1
      <4>2. Append(SubSeq(U, b + 1, k), U[k + 1]) = SubSeq(U, b + 1, k + 1)
        BY <1>1, <2>2
      <4>3. SubSeq(U, 1, b) \o SubSeq(U, b + 1, k + 1) = SubSeq(U, 1, k + 1)
        <5>1. U \in Seq(Stored) /\ k + 1 \in 0 .. Len(U) /\ b \in 0 .. k + 1
          BY <1>1, <2>2
        <5>2. QED BY <5>1, PartsOfPart
      <4>4. QED BY <3>1, <4>1, <4>2, <4>3
    <3>7. f[k + 1].ring = AddLine(x.ring, l) /\ f[k + 1].cmdline = << >>
      BY <2>4, <2>6
    <3>8. SubSeq(U, k + 1 + 1, k + 1) = << >>
      BY <1>1, <2>2
    <3>9. Good(k + 1, k + 1)
      <4>1. Boundary(U, k + 1) /\ \A i \in k + 1 + 1 .. k + 1 : U[i] # "nul"
        BY <3>1 DEF Boundary
      <4>2. f[k + 1].cmdline = SubSeq(U, k + 1 + 1, k + 1)
        BY <3>7, <3>8
      <4>3. KeptOf(Held(f[k + 1].ring), SubSeq(U, 1, k + 1))
        BY <3>5, <3>6, <3>7
      <4>4. QED BY <4>1, <4>2, <4>3
    <3>10. k + 1 \in 0 .. k + 1
      OBVIOUS
    <3>11. QED BY <3>9, <3>10
  <2>7. CASE c # "nl"
    <3>1. U[k + 1] = c /\ c \in Char /\ c # "nul" /\ l = Append(x.cmdline, c)
      BY <1>1, <2>2, <2>7 DEF c, l
    <3>2. Len(l) = k - b + 1
      BY <2>2, <2>5, <3>1
    <3>3. \A i \in b + 1 .. k + 1 : U[i] # "nul"
      <4> TAKE i \in b + 1 .. k + 1
      <4>1. i \in b + 1 .. k \/ i = k + 1
        BY <2>2
      <4>2. QED BY <2>1, <3>1, <4>1
    <3>4. Len(l) < CMDFULL
      <4> SUFFICES ASSUME k - b + 1 >= CMDFULL PROVE FALSE
        BY <2>2, <3>2, SizeFacts
      <4>1. b \in 0 .. n - CMDFULL /\ CMDFULL \in Nat
        BY <1>1, <2>2, SizeFacts
      <4>2. PICK j \in b + 1 .. b + CMDFULL : U[j] = "nul"
        BY <1>1, <1>3, <4>1 DEF Broken
      <4>3. j \in b + 1 .. k + 1
        BY <2>2, <4>1
      <4>4. QED BY <3>3, <4>2, <4>3
    <3>5. ~(Len(l) >= CMDFULL)
      BY <2>2, <3>2, <3>4, SizeFacts
    <3>6. f[k + 1].ring = x.ring /\ f[k + 1].cmdline = l
      BY <2>3, <2>4, <2>7, <3>5 DEF Reads
    <3>7. l = SubSeq(U, b + 1, k + 1)
      <4>1. Append(SubSeq(U, b + 1, k), U[k + 1]) = SubSeq(U, b + 1, k + 1)
        BY <1>1, <2>2
      <4>2. QED BY <2>5, <3>1, <4>1
    <3>8. Good(k + 1, b)
      BY <2>1, <3>3, <3>6, <3>7 DEF x
    <3>9. b \in 0 .. k + 1
      BY <2>2
    <3>10. QED BY <3>8, <3>9
  <2>8. QED BY <2>6, <2>7
<1>8. P(n)
  <2> HIDE DEF P
  <2>1. 0 \in K
    BY <1>4
  <2>2. \A k \in Nat : k \in K => k + 1 \in K
    <3> SUFFICES ASSUME NEW k \in Nat, k \in K, k + 1 <= n PROVE P(k + 1)
      OBVIOUS
    <3>1. k <= n
      BY <1>1
    <3>2. QED BY <1>7, <3>1
  <2> HIDE DEF K
  <2>3. n \in K
    BY <1>1, <2>1, <2>2, SetInduction
  <2>4. QED BY <1>1, <2>3 DEF K
<1>9. PICK b \in 0 .. n : Good(n, b)
  BY <1>8
<1>10. b = n
  <2> SUFFICES ASSUME b # n PROVE FALSE
    OBVIOUS
  <2>1. n \in b + 1 .. n /\ n # 0
    BY <1>1
  <2>2. QED BY <1>3, <1>9, <2>1 DEF Boundary
<1>11. SubSeq(U, 1, n) = U
  BY <1>1
<1> DEFINE r == Restored(s)
<1>12. r \in Ring /\ KeptOf(Held(r), U)
  <2>1. f[n].ring \in Ring
    <3>1. n \in 0 .. n
      BY <1>1
    <3>2. QED BY <1>2, <3>1 DEF Reads
  <2>2. QED BY <1>2, <1>9, <1>10, <1>11, <2>1
<1> HIDE DEF r
<1>13. Held(r) \in Seq(Stored) /\ Len(Held(r)) \in Nat
  BY <1>12, HeldIs
<1>14. Len(Held(r)) = n
  <2> SUFFICES ASSUME Len(Held(r)) # n PROVE FALSE
    OBVIOUS
  <2>1. 0 \in 0 .. n - Len(Held(r)) - 1
    BY <1>1, <1>12, <1>13 DEF KeptOf
  <2>2. n - 0 >= HSTSIZE
    BY <1>1, <1>12, <2>1 DEF KeptOf, Boundary
  <2>3. QED BY <1>1, <1>3, <2>2, SizeFacts
<1>15. \A i \in 1 .. n : Held(r)[i] = U[i]
  <2>1. \A i \in 1 .. n : Held(r)[i] = U[n - n + i]
    BY <1>1, <1>12, <1>14 DEF KeptOf
  <2>2. QED BY <1>1, <2>1
<1>16. Held(r) = U
  BY <1>1, <1>13, <1>14, <1>15
<1>17. QED BY <1>12, <1>16 DEF r, U

(* Where the lines are in their text. *)

LEMMA CatFacts ==
  ASSUME NEW s \in Seq(Stored), NEW t \in Seq(Stored)
  PROVE  /\ s \o t \in Seq(Stored) /\ Len(s \o t) = Len(s) + Len(t) /\ Len(s) \in Nat /\ Len(t) \in Nat
         /\ \A i \in 1 .. Len(s) : (s \o t)[i] = s[i]
         /\ \A i \in 1 .. Len(t) : (s \o t)[Len(s) + i] = t[i]
OBVIOUS

\* A sequence of lines in two parts.
LEMMA TwoParts ==
  ASSUME NEW X, NEW s \in Seq(X), NEW k \in 0 .. Len(s)
  PROVE  /\ SubSeq(s, 1, k) \in Seq(X) /\ SubSeq(s, k + 1, Len(s)) \in Seq(X)
         /\ s = SubSeq(s, 1, k) \o SubSeq(s, k + 1, Len(s))
         /\ k < Len(s) => SubSeq(s, 1, k + 1) = Append(SubSeq(s, 1, k), s[k + 1]) /\ s[k + 1] \in X
<1> DEFINE a == SubSeq(s, 1, k)
           b == SubSeq(s, k + 1, Len(s))
<1>1. a \in Seq(X) /\ Len(a) = k /\ \A i \in 1 .. k : a[i] = s[i]
  OBVIOUS
<1>2. b \in Seq(X) /\ Len(b) = Len(s) - k /\ \A i \in 1 .. Len(s) - k : b[i] = s[k + i]
  OBVIOUS
<1>3. k < Len(s) => SubSeq(s, 1, k + 1) = Append(a, s[k + 1]) /\ s[k + 1] \in X
  OBVIOUS
<1> HIDE DEF a, b
<1>4. s = a \o b
  <2>1. a \o b \in Seq(X) /\ Len(a \o b) = Len(a) + Len(b)
    <3>1. \A y, z \in Seq(X) : y \o z \in Seq(X)
      OBVIOUS
    <3>2. \A y, z \in Seq(X) : Len(y \o z) = Len(y) + Len(z)
      OBVIOUS
    <3>3. a \in Seq(X) /\ b \in Seq(X)
      BY <1>1, <1>2
    <3>4. QED BY ONLY <3>1, <3>2, <3>3, Zenon
  <2>2. \A i \in 1 .. Len(s) : (a \o b)[i] = s[i]
    <3> TAKE i \in 1 .. Len(s)
    <3>1. CASE i <= k
      <4>1. i \in 1 .. Len(a)
        BY <1>1, <3>1
      <4>2. (a \o b)[i] = a[i]
        BY <1>1, <1>2, <4>1
      <4>3. QED BY <1>1, <4>1, <4>2
    <3>2. CASE i > k
      <4>1. i - k \in 1 .. Len(b) /\ i = Len(a) + (i - k) /\ i = k + (i - k)
        BY <1>1, <1>2, <3>2
      <4>2. (a \o b)[Len(a) + (i - k)] = b[i - k]
        BY <1>1, <1>2, <4>1
      <4>3. b[i - k] = s[k + (i - k)]
        BY <1>2, <4>1
      <4>4. QED BY <4>1, <4>2, <4>3
    <3>3. i <= k \/ i > k
      OBVIOUS
    <3>4. QED BY <3>1, <3>2, <3>3
  <2> DEFINE c == a \o b
  <2> HIDE DEF c
  <2>3. c \in Seq(X) /\ Len(c) = Len(s) /\ \A i \in 1 .. Len(s) : c[i] = s[i]
    BY <1>1, <1>2, <2>1, <2>2 DEF c
  <2>4. s = c
    BY <2>3
  <2>5. QED BY <2>4 DEF c
<1>5. QED BY <1>1, <1>2, <1>3, <1>4 DEF a, b

Off(s, k) == Len(Encoded(SubSeq(s, 1, k)))

\* The line after the first k.
LEMMA OffStep ==
  ASSUME NEW s \in Seq(Line), NEW k \in 0 .. Len(s) - 1
  PROVE  /\ s[k + 1] \in Line /\ Len(s[k + 1]) \in Nat /\ Off(s, k) \in Nat
         /\ Off(s, k + 1) = Off(s, k) + Len(s[k + 1]) + 1
         /\ Off(s, k + 1) <= Len(Encoded(s))
         /\ \A i \in 1 .. Len(s[k + 1]) + 1 : Encoded(s)[Off(s, k) + i] = Code(s[k + 1])[i]
<1> DEFINE a == SubSeq(s, 1, k)
           x == s[k + 1]
           b == SubSeq(s, k + 2, Len(s))
           A == Encoded(a)
           X == Code(x)
           B == Encoded(b)
<1>1. Len(s) \in Nat /\ k \in Nat /\ k < Len(s)
  OBVIOUS
<1>2. a \in Seq(Line) /\ x \in Line /\ b \in Seq(Line) /\ SubSeq(s, 1, k + 1) = Append(a, x) /\ s = Append(a, x) \o b
  <2>1. k \in 0 .. Len(s) /\ k + 1 \in 0 .. Len(s) /\ (k + 1) + 1 = k + 2
    BY <1>1
  <2>2. a \in Seq(Line) /\ x \in Line /\ SubSeq(s, 1, k + 1) = Append(a, x)
    BY <1>1, <2>1, TwoParts
  <2>3. b \in Seq(Line) /\ s = SubSeq(s, 1, k + 1) \o b
    BY <2>1, TwoParts
  <2>4. QED BY <2>2, <2>3
<1>3. Off(s, k) = Len(A)
  BY DEF Off
<1> HIDE DEF a, x, b
<1>4. /\ A \in Seq(Stored) /\ X \in Seq(Stored) /\ B \in Seq(Stored)
      /\ Len(X) = Len(x) + 1 /\ Len(x) \in Nat
  BY <1>2, EncodedType, CodeFacts, LineFacts DEF Code
<1>5. Encoded(Append(a, x)) = A \o X
  BY <1>2, EncodedMore
<1>6. Encoded(s) = (A \o X) \o B
  <2>1. Append(a, x) \in Seq(Line)
    BY <1>2
  <2>2. Encoded(Append(a, x) \o b) = Encoded(Append(a, x)) \o B
    BY <1>2, <2>1, EncodedCat
  <2>3. QED BY <1>2, <1>5, <2>2
<1>7. Off(s, k + 1) = Len(A \o X)
  BY <1>2, <1>5 DEF Off
<1> HIDE DEF A, X, B
<1>8. Len(A \o X) = Len(A) + Len(X) /\ Len(A) \in Nat /\ A \o X \in Seq(Stored)
  BY <1>4, CatFacts
<1>9. \A i \in 1 .. Len(X) : (A \o X)[Len(A) + i] = X[i]
  BY <1>4, CatFacts
<1>10. Len(Encoded(s)) = Len(A \o X) + Len(B) /\ Len(B) \in Nat
       /\ \A i \in 1 .. Len(A \o X) : Encoded(s)[i] = (A \o X)[i]
  <2> DEFINE C == A \o X
  <2>1. C \in Seq(Stored) /\ Encoded(s) = C \o B
    BY <1>6, <1>8
  <2> HIDE DEF C
  <2>2. QED BY <1>4, <2>1, CatFacts DEF C
<1>11. ASSUME NEW i \in 1 .. Len(x) + 1 PROVE Encoded(s)[Len(A) + i] = X[i]
  <2>1. i \in 1 .. Len(X) /\ Len(A) + i \in 1 .. Len(A \o X)
    BY <1>4, <1>8
  <2>2. QED BY <1>9, <1>10, <2>1
<1>12. Off(s, k + 1) = Off(s, k) + Len(x) + 1 /\ Off(s, k + 1) <= Len(Encoded(s)) /\ Off(s, k) \in Nat
  BY <1>3, <1>4, <1>7, <1>8, <1>10
<1>13. QED BY <1>2, <1>3, <1>4, <1>11, <1>12 DEF x, X

LEMMA OffFacts ==
  ASSUME NEW s \in Seq(Line)
  PROVE  /\ Off(s, 0) = 0 /\ Off(s, Len(s)) = Len(Encoded(s)) /\ Len(s) \in Nat
         /\ \A k \in 0 .. Len(s) : Off(s, k) \in Nat /\ Off(s, k) <= Len(Encoded(s)) /\ Boundary(Encoded(s), Off(s, k))
<1>1. SubSeq(s, 1, 0) = << >> /\ SubSeq(s, 1, Len(s)) = s /\ Len(s) \in Nat /\ Len(<< >>) = 0
  OBVIOUS
<1>2. Off(s, 0) = 0 /\ Off(s, Len(s)) = Len(Encoded(s))
  BY <1>1, EncodedNone DEF Off
<1>3. ASSUME NEW k \in 0 .. Len(s)
      PROVE  Off(s, k) \in Nat /\ Off(s, k) <= Len(Encoded(s)) /\ Boundary(Encoded(s), Off(s, k))
  <2>1. CASE k = 0
    BY <1>2, <2>1, EncodedType DEF Boundary
  <2>2. CASE k # 0
    <3> DEFINE j == k - 1
    <3>1. j \in 0 .. Len(s) - 1 /\ j + 1 = k
      BY <1>1, <2>2
    <3> HIDE DEF j
    <3>2. /\ s[j + 1] \in Line /\ Len(s[j + 1]) \in Nat /\ Off(s, j) \in Nat
          /\ Off(s, j + 1) = Off(s, j) + Len(s[j + 1]) + 1
          /\ Off(s, j + 1) <= Len(Encoded(s))
          /\ \A i \in 1 .. Len(s[j + 1]) + 1 : Encoded(s)[Off(s, j) + i] = Code(s[j + 1])[i]
      BY <3>1, OffStep
    <3>3. Code(s[j + 1])[Len(s[j + 1]) + 1] = "nul"
      BY <3>2, CodeFacts DEF Code
    <3>4. Len(s[j + 1]) + 1 \in 1 .. Len(s[j + 1]) + 1 /\ Off(s, j) + (Len(s[j + 1]) + 1) = Off(s, j + 1)
      BY <3>2
    <3>5. Encoded(s)[Off(s, j + 1)] = "nul"
      BY <3>2, <3>3, <3>4
    <3>6. QED BY <3>1, <3>2, <3>5 DEF Boundary
  <2>3. QED BY <2>1, <2>2
<1>4. QED BY <1>1, <1>2, <1>3

LEMMA OffUp ==
  ASSUME NEW s \in Seq(Line), NEW j \in 0 .. Len(s), NEW k \in 0 .. Len(s), j < k
  PROVE  Off(s, j) < Off(s, k)
<1> DEFINE K == { d \in Nat : j + d <= Len(s) => Off(s, j) + d <= Off(s, j + d) }
<1>1. Len(s) \in Nat /\ Off(s, j) \in Nat
  BY OffFacts
<1>2. 0 \in K
  BY <1>1
<1>3. ASSUME NEW d \in Nat, d \in K PROVE d + 1 \in K
  <2> SUFFICES ASSUME j + (d + 1) <= Len(s) PROVE Off(s, j) + (d + 1) <= Off(s, j + (d + 1))
    OBVIOUS
  <2>1. j + d \in 0 .. Len(s) - 1 /\ j + (d + 1) = (j + d) + 1 /\ Off(s, j) + d <= Off(s, j + d)
    BY <1>1, <1>3
  <2>2. Len(s[(j + d) + 1]) \in Nat /\ Off(s, j + d) \in Nat /\ Off(s, (j + d) + 1) = Off(s, j + d) + Len(s[(j + d) + 1]) + 1
    BY <2>1, OffStep
  <2>3. QED BY SMTT(40), <1>1, <2>1, <2>2
<1> HIDE DEF K
<1>4. k - j \in Nat /\ k - j > 0 /\ j + (k - j) = k
  OBVIOUS
<1>5. k - j \in K
  BY <1>2, <1>3, <1>4, SetInduction
<1>6. Off(s, j) + (k - j) <= Off(s, k) /\ Off(s, k) \in Nat
  BY <1>4, <1>5, OffFacts DEF K
<1>7. QED BY <1>1, <1>4, <1>6

\* The text of lines has no long run without an end of a line, and ends with one.
LEMMA EncodedBroken ==
  ASSUME NEW s \in Seq(Line)
  PROVE  Broken(Encoded(s)) /\ Boundary(Encoded(s), Len(Encoded(s)))
<1> DEFINE n == Len(s)
           E(k) == Encoded(SubSeq(s, 1, k))
           P(k) == Broken(E(k)) /\ Boundary(E(k), Len(E(k)))
           K == { k \in Nat : k <= n => P(k) }
<1>1. n \in Nat /\ SubSeq(s, 1, n) = s
  OBVIOUS
<1>2. P(0)
  <2>1. SubSeq(s, 1, 0) = << >> /\ Len(<< >>) = 0
    OBVIOUS
  <2>2. Broken(<< >>) /\ Boundary(<< >>, 0)
    BY <2>1, SizeFacts DEF Broken, Boundary
  <2>3. QED BY <2>1, <2>2, EncodedNone
<1>3. ASSUME NEW k \in Nat, k + 1 <= n, P(k) PROVE P(k + 1)
  <2> DEFINE b == SubSeq(s, 1, k)
             x == s[k + 1]
  <2>1. b \in Seq(Line) /\ SubSeq(s, 1, k + 1) = Append(b, x) /\ x \in Line
    BY <1>3
  <2> HIDE DEF b, x
  <2>2. E(k + 1) = Encoded(b) \o Code(x)
    BY <2>1, EncodedMore
  <2>3. Broken(Encoded(b)) /\ Boundary(Encoded(b), Len(Encoded(b)))
    BY <1>3 DEF b
  <2>4. /\ Encoded(b) \in Seq(Stored) /\ Code(x) \in Seq(Stored) /\ Len(Code(x)) <= CMDFULL /\ Code(x) # << >>
        /\ Code(x)[Len(Code(x))] = "nul" /\ Len(Code(x)) = Len(x) + 1 /\ Len(x) \in Nat
    BY <2>1, EncodedType, CodeFacts, LineFacts DEF Code
  <2> DEFINE m == Len(Code(x))
  <2>5. m \in 0 .. Len(Code(x)) /\ m = Len(Code(x)) /\ m \in 1 .. m
    BY <2>4
  <2>6. Broken(Encoded(b) \o SubSeq(Code(x), 1, m))
    BY <2>3, <2>4, <2>5, StaysBroken
  <2>7. /\ Encoded(b) \o SubSeq(Code(x), 1, m) = Encoded(b) \o Code(x)
        /\ Len(Encoded(b) \o Code(x)) = Len(Encoded(b)) + m
        /\ (Encoded(b) \o Code(x))[Len(Encoded(b)) + m] = Code(x)[m]
    BY SMTT(40), <2>4, <2>5, Beginning
  <2>8. QED BY <2>2, <2>4, <2>6, <2>7 DEF Boundary
<1>4. P(n)
  <2> HIDE DEF P
  <2>1. 0 \in K
    BY <1>2
  <2>2. \A k \in Nat : k \in K => k + 1 \in K
    <3> SUFFICES ASSUME NEW k \in Nat, k \in K, k + 1 <= n PROVE P(k + 1)
      OBVIOUS
    <3>1. k <= n
      BY <1>1
    <3>2. QED BY <1>3, <3>1
  <2> HIDE DEF K
  <2>3. n \in K
    BY <1>1, <2>1, <2>2, SetInduction
  <2>4. QED BY <1>1, <2>3 DEF K
<1>5. QED BY <1>1, <1>4

\* So it is with what is kept of it.
LEMMA KeptBroken ==
  ASSUME NEW T \in Seq(Stored), NEW u \in Seq(Stored), KeptOf(u, T), Broken(T), Boundary(T, Len(T))
  PROVE  Broken(u) /\ Boundary(u, Len(u))
<1> DEFINE p == Len(T) - Len(u)
           m == Len(u)
<1>1. m \in Nat /\ p \in Nat /\ Len(T) = p + m /\ Len(T) \in Nat /\ \A i \in 1 .. m : u[i] = T[p + i]
  BY DEF KeptOf
<1> HIDE DEF p, m
<1>2. ASSUME NEW i \in 0 .. m - CMDFULL PROVE \E j \in i + 1 .. i + CMDFULL : u[j] = "nul"
  <2>1. p + i \in 0 .. Len(T) - CMDFULL /\ CMDFULL \in Nat /\ i \in Nat /\ i + CMDFULL <= m
    BY <1>1, SizeFacts
  <2>2. PICK j \in p + i + 1 .. p + i + CMDFULL : T[j] = "nul"
    BY <2>1 DEF Broken
  <2>3. j - p \in i + 1 .. i + CMDFULL /\ j - p \in 1 .. m /\ p + (j - p) = j
    BY <1>1, <2>1
  <2>4. QED BY <1>1, <2>2, <2>3
<1>3. Boundary(u, m)
  <2>1. CASE m = 0
    BY <2>1 DEF Boundary
  <2>2. CASE m # 0
    <3>1. m \in 1 .. m /\ p + m # 0
      BY <1>1, <2>2
    <3>2. T[p + m] = "nul"
      BY <1>1, <3>1 DEF Boundary
    <3>3. QED BY <1>1, <3>1, <3>2 DEF Boundary
  <2>3. QED BY <2>1, <2>2
<1>4. QED BY <1>2, <1>3 DEF Broken, m

\* What is kept is the text of the newest lines.
LEMMA KeptLines ==
  ASSUME NEW s \in Seq(Line), NEW u \in Seq(Stored), KeptOf(u, Encoded(s))
  PROVE  \E m \in 0 .. Len(s) :
           /\ Len(u) = Len(Encoded(s)) - Off(s, m)
           /\ u = Encoded(SubSeq(s, m + 1, Len(s)))
           /\ m > 0 => Len(Encoded(SubSeq(s, m, Len(s)))) >= HSTSIZE
<1> DEFINE T == Encoded(s)
           n == Len(s)
<1>1. T \in Seq(Stored) /\ Len(T) \in Nat /\ n \in Nat /\ Len(u) \in Nat /\ HSTSIZE \in Nat
  BY EncodedType, SizeFacts
<1>2. \A m \in 0 .. n : /\ Encoded(SubSeq(s, m + 1, n)) \in Seq(Stored)
                        /\ Len(Encoded(SubSeq(s, m + 1, n))) = Len(T) - Off(s, m)
                        /\ \A i \in 1 .. Len(T) - Off(s, m) : Encoded(SubSeq(s, m + 1, n))[i] = T[Off(s, m) + i]
  <2> TAKE m \in 0 .. n
  <2> DEFINE a == SubSeq(s, 1, m)
             b == SubSeq(s, m + 1, n)
             A == Encoded(a)
             B == Encoded(b)
  <2>1. a \in Seq(Line) /\ b \in Seq(Line) /\ s = a \o b
    BY TwoParts
  <2> HIDE DEF a, b
  <2>2. T = A \o B /\ A \in Seq(Stored) /\ B \in Seq(Stored)
    BY <2>1, EncodedCat, EncodedType
  <2>3. Off(s, m) = Len(A)
    BY DEF Off, a
  <2> HIDE DEF A, B, T
  <2>4. Len(A) \in Nat /\ Len(B) \in Nat /\ Len(T) = Len(A) + Len(B) /\ \A i \in 1 .. Len(B) : T[Len(A) + i] = B[i]
    BY <2>2
  <2>5. Len(T) - Off(s, m) = Len(B)
    BY <2>3, <2>4
  <2>6. QED BY <2>2, <2>3, <2>4, <2>5 DEF B, b
<1> HIDE DEF T, n
<1>3. Len(T) - Len(u) \in 0 .. Len(T) /\ Boundary(T, Len(T) - Len(u))
  BY <1>1 DEF KeptOf, T
<1>4. PICK m \in 0 .. n : Len(T) - Len(u) = Off(s, m)
  BY <1>3, BoundaryIs DEF T, n, Off
<1>5. Off(s, m) \in Nat /\ Len(u) = Len(T) - Off(s, m)
  BY <1>1, <1>4, OffFacts DEF n
<1>6. \A i \in 1 .. Len(u) : u[i] = T[Off(s, m) + i]
  BY <1>1, <1>4 DEF KeptOf, T
<1>7. u = Encoded(SubSeq(s, m + 1, n))
  <2> DEFINE B == Encoded(SubSeq(s, m + 1, n))
  <2>1. B \in Seq(Stored) /\ Len(B) = Len(u) /\ \A i \in 1 .. Len(u) : B[i] = u[i]
    BY <1>2, <1>5, <1>6
  <2> HIDE DEF B
  <2>2. u = B
    BY <2>1
  <2>3. QED BY <2>2 DEF B
<1>8. ASSUME m > 0 PROVE Len(Encoded(SubSeq(s, m, n))) >= HSTSIZE
  <2>1. m - 1 \in 0 .. n /\ (m - 1) + 1 = m /\ m - 1 < m
    BY <1>1, <1>8
  <2>2. Off(s, m - 1) < Off(s, m) /\ Off(s, m - 1) \in Nat /\ Boundary(T, Off(s, m - 1))
    BY <2>1, OffUp, OffFacts DEF n, T
  <2>3. Off(s, m - 1) \in 0 .. Len(T) - Len(u) - 1
    BY <1>1, <1>4, <1>5, <2>2
  <2>4. Len(T) - Off(s, m - 1) >= HSTSIZE
    BY <2>2, <2>3 DEF KeptOf, T
  <2>5. QED BY <1>2, <2>1, <2>4
<1>9. QED BY <1>5, <1>7, <1>8 DEF n, T

(* Where the lines are in the ring, which holds those after the first m. *)

Holds(r, s, m) ==
  /\ r \in Ring /\ s \in Seq(Line) /\ m \in 0 .. Len(s)
  /\ KeptOf(Held(r), Encoded(s)) /\ Used(r) = Len(Encoded(s)) - Off(s, m)

Place(s, m, k) == Off(s, k) - Off(s, m)

LEMMA HoldsSome ==
  ASSUME NEW r \in Ring, NEW s \in Seq(Line), KeptOf(Held(r), Encoded(s))
  PROVE  \E m \in 0 .. Len(s) : Holds(r, s, m)
<1>1. Held(r) \in Seq(Stored) /\ Len(Held(r)) = Used(r)
  BY HeldIs
<1>2. PICK m \in 0 .. Len(s) : Len(Held(r)) = Len(Encoded(s)) - Off(s, m)
  BY <1>1, KeptLines
<1>3. QED BY <1>1, <1>2 DEF Holds

\* The characters of a line.
LEMMA PlaceChars ==
  ASSUME NEW r, NEW s, NEW m, Holds(r, s, m), NEW k \in m .. Len(s) - 1
  PROVE  /\ Place(s, m, k) \in Nat /\ Place(s, m, k) + Len(s[k + 1]) < Used(r) /\ s[k + 1] \in Line
         /\ \A i \in 1 .. Len(s[k + 1]) + 1 : CharAt(r, Place(s, m, k) + i - 1) = Code(s[k + 1])[i]
<1> DEFINE d == Place(s, m, k)
           x == s[k + 1]
           T == Encoded(s)
<1>1. r \in Ring /\ s \in Seq(Line) /\ m \in 0 .. Len(s) /\ Used(r) = Len(T) - Off(s, m) /\ Len(s) \in Nat
  BY DEF Holds
<1>2. k \in 0 .. Len(s) - 1 /\ k \in 0 .. Len(s) /\ m <= k /\ k \in Int /\ m \in Int
  BY <1>1
<1>3. /\ x \in Line /\ Len(x) \in Nat /\ Off(s, k) \in Nat
      /\ Off(s, k + 1) = Off(s, k) + Len(x) + 1 /\ Off(s, k + 1) <= Len(T)
      /\ \A i \in 1 .. Len(x) + 1 : T[Off(s, k) + i] = Code(x)[i]
  BY <1>1, <1>2, OffStep
<1>4. Off(s, m) \in Nat /\ Off(s, m) <= Off(s, k) /\ Len(T) \in Nat
  <2>1. Off(s, m) \in Nat /\ Len(T) \in Nat
    BY <1>1, OffFacts, EncodedType
  <2>2. m < k => Off(s, m) < Off(s, k)
    BY <1>1, <1>2, OffUp
  <2>3. m = k \/ m < k
    BY <1>2
  <2>4. QED BY <1>3, <2>1, <2>2, <2>3
<1>5. \A i \in 1 .. Used(r) : CharAt(r, i - 1) = T[Off(s, m) + i]
  <2>1. Len(Held(r)) = Used(r) /\ \A i \in 1 .. Used(r) : Held(r)[i] = CharAt(r, i - 1)
    BY <1>1, HeldIs
  <2>2. \A i \in 1 .. Len(Held(r)) : Held(r)[i] = T[Len(T) - Len(Held(r)) + i]
    BY DEF Holds, KeptOf
  <2>3. Len(T) - Used(r) = Off(s, m)
    BY <1>1, <1>4
  <2>4. QED BY <2>1, <2>2, <2>3
<1>6. d = Off(s, k) - Off(s, m)
  BY DEF Place
<1> HIDE DEF d, x, T
<1>7. d \in Nat /\ d + Len(x) < Used(r) /\ Used(r) \in Nat
  BY SMTT(40), <1>1, <1>3, <1>4, <1>6
<1>8. ASSUME NEW i \in 1 .. Len(x) + 1 PROVE CharAt(r, d + i - 1) = Code(x)[i]
  <2>1. d + i \in 1 .. Used(r)
    <3>1. Len(x) \in Nat
      BY <1>3
    <3>2. QED BY <1>7, <3>1
  <2>2. Off(s, m) + (d + i) = Off(s, k) + i
    <3>1. Off(s, m) \in Nat /\ Off(s, k) \in Nat
      BY <1>3, <1>4
    <3>2. QED BY <1>6, <3>1
  <2>3. CharAt(r, d + i - 1) = T[Off(s, m) + (d + i)]
    <3> DEFINE j == d + i
    <3> HIDE DEF j
    <3>1. j \in 1 .. Used(r)
      BY <2>1 DEF j
    <3>2. CharAt(r, j - 1) = T[Off(s, m) + j]
      BY <1>5, <3>1
    <3>3. j - 1 = d + i - 1
      BY <1>7 DEF j
    <3>4. QED BY <3>2, <3>3 DEF j
  <2>4. QED BY <1>3, <2>2, <2>3
<1>9. QED BY <1>3, <1>7, <1>8 DEF d, x

\* A line begins where LineAt reads it.
LEMMA PlaceLine ==
  ASSUME NEW r, NEW s, NEW m, Holds(r, s, m), NEW k \in m .. Len(s) - 1
  PROVE  /\ (r.hista + Place(s, m, k)) % HSTSIZE \in Cell
         /\ LineAt(r, (r.hista + Place(s, m, k)) % HSTSIZE) = s[k + 1]
<1> DEFINE d == Place(s, m, k)
           x == s[k + 1]
           a == (r.hista + d) % HSTSIZE
           Ends == { e \in Cell : r.history[(a + e) % HSTSIZE] = "nul" }
<1>1. /\ d \in Nat /\ d + Len(x) < Used(r) /\ x \in Line
      /\ \A i \in 1 .. Len(x) + 1 : CharAt(r, d + i - 1) = Code(x)[i]
  BY PlaceChars
<1>2. r \in Ring /\ r.hista \in Cell /\ Used(r) \in Cell /\ Cell = 0 .. HSTSIZE - 1 /\ HSTSIZE \in Nat
  <2>1. r \in Ring
    BY DEF Holds
  <2>2. QED BY <2>1, UsedIs, SizeFacts DEF Ring, Cell
<1>3. x \in Seq(Char) /\ Len(x) \in Nat /\ \A i \in 1 .. Len(x) : x[i] # "nul"
  BY <1>1, LineFacts
<1>4. \A i \in 1 .. Len(x) : Code(x)[i] = x[i]
  BY <1>1, CodeFacts DEF Code
<1>5. Code(x)[Len(x) + 1] = "nul"
  BY <1>1, <1>3, CodeFacts DEF Code
<1> HIDE DEF d, x
<1>6. d \in Cell /\ \A e \in 0 .. Len(x) : e \in Cell /\ d + e \in Cell /\ d + e < HSTSIZE
  BY <1>1, <1>2, <1>3
<1>7. a = Round(r.hista, d) /\ a \in Cell
  BY <1>2, <1>6, RoundIs
<1> HIDE DEF a
<1>8. ASSUME NEW e \in 0 .. Len(x) PROVE r.history[(a + e) % HSTSIZE] = Code(x)[e + 1]
  <2>1. e \in Cell /\ d + e \in Cell /\ d + e < HSTSIZE
    BY <1>6
  <2>2. (a + e) % HSTSIZE = Round(a, e)
    BY <1>7, <2>1, RoundIs
  <2>3. Round(a, e) = Round(r.hista, d + e)
    BY <1>2, <1>6, <1>7, <2>1, RoundTwice
  <2>4. CharAt(r, d + e) = r.history[Round(r.hista, d + e)]
    BY <1>2, <2>1, CharAtIs
  <2>5. e + 1 \in 1 .. Len(x) + 1 /\ d + (e + 1) - 1 = d + e
    BY <1>1, <1>3
  <2>6. CharAt(r, d + (e + 1) - 1) = Code(x)[e + 1]
    BY <1>1, <2>5
  <2>7. QED BY <2>2, <2>3, <2>4, <2>5, <2>6
<1>9. Len(x) \in Ends
  <2>1. Len(x) \in 0 .. Len(x)
    BY <1>3
  <2>2. QED BY <1>5, <1>6, <1>8, <2>1
<1>10. \A e \in 0 .. Len(x) - 1 : e \notin Ends
  <2> TAKE e \in 0 .. Len(x) - 1
  <2>1. e \in 0 .. Len(x) /\ e + 1 \in 1 .. Len(x)
    BY <1>3
  <2>2. r.history[(a + e) % HSTSIZE] # "nul"
    BY <1>3, <1>4, <1>8, <2>1
  <2>3. QED BY <2>2
<1>11. Ends \subseteq Nat
  BY <1>2
<1> HIDE DEF Ends
<1>12. Min(Ends) \in Ends /\ Min(Ends) <= Len(x)
  BY <1>9, <1>11, MinFacts
<1>13. Min(Ends) = Len(x)
  <2>1. Min(Ends) \in Nat
    BY <1>11, <1>12
  <2>2. ~(Min(Ends) \in 0 .. Len(x) - 1)
    BY <1>10, <1>12
  <2>3. QED BY <1>3, <1>12, <2>1, <2>2
<1>14. LineAt(r, a) = [i \in 1 .. Len(x) |-> r.history[(a + i - 1) % HSTSIZE]]
  BY <1>13 DEF LineAt, Ends
<1>15. \A i \in 1 .. Len(x) : r.history[(a + i - 1) % HSTSIZE] = x[i]
  <2> TAKE i \in 1 .. Len(x)
  <2>1. i - 1 \in 0 .. Len(x) /\ (i - 1) + 1 = i /\ a + (i - 1) = a + i - 1
    BY <1>2, <1>3, <1>7
  <2>2. r.history[(a + (i - 1)) % HSTSIZE] = Code(x)[(i - 1) + 1]
    BY <1>8, <2>1
  <2>3. QED BY <1>4, <2>1, <2>2
<1>16. LineAt(r, a) = x
  <2>1. x = [i \in 1 .. Len(x) |-> x[i]]
    BY <1>3
  <2>2. QED BY <1>14, <1>15, <2>1
<1>17. QED BY <1>7, <1>16 DEF a, d, x

\* The lines begin where Starts says.
LEMMA PlaceStarts ==
  ASSUME NEW r, NEW s, NEW m, Holds(r, s, m)
  PROVE  Starts(r) = { Place(s, m, k) : k \in m .. Len(s) - 1 }
<1> DEFINE T == Encoded(s)
           p == Off(s, m)
<1>1. r \in Ring /\ s \in Seq(Line) /\ m \in 0 .. Len(s) /\ Used(r) = Len(T) - p /\ Len(s) \in Nat
  BY DEF Holds
<1>2. p \in Nat /\ p <= Len(T) /\ Len(T) \in Nat
  BY <1>1, OffFacts, EncodedType
<1>3. \A i \in 1 .. Used(r) : CharAt(r, i - 1) = T[p + i]
  <2>1. Len(Held(r)) = Used(r) /\ \A i \in 1 .. Used(r) : Held(r)[i] = CharAt(r, i - 1)
    BY <1>1, HeldIs
  <2>2. \A i \in 1 .. Len(Held(r)) : Held(r)[i] = T[Len(T) - Len(Held(r)) + i]
    BY DEF Holds, KeptOf
  <2>3. Len(T) - Used(r) = p
    BY <1>1, <1>2
  <2>4. QED BY <2>1, <2>2, <2>3
<1>4. \A k \in 0 .. Len(s) : Off(s, k) \in Nat /\ Off(s, k) <= Len(T) /\ Boundary(T, Off(s, k))
  BY <1>1, OffFacts
<1>5. \A j, k \in 0 .. Len(s) : j < k => Off(s, j) < Off(s, k)
  BY <1>1, OffUp
<1>6. Off(s, Len(s)) = Len(T)
  BY <1>1, OffFacts
<1>7. \A q \in 0 .. Len(T) : Boundary(T, q) => \E k \in 0 .. Len(s) : q = Off(s, k)
  BY <1>1, BoundaryIs DEF Off
<1> HIDE DEF T, p
<1>8. ASSUME NEW d \in Starts(r) PROVE \E k \in m .. Len(s) - 1 : d = Place(s, m, k)
  <2>1. d \in 0 .. Used(r) - 1 /\ (d = 0 \/ CharAt(r, d - 1) = "nul")
    BY DEF Starts
  <2>2. d \in Nat /\ p + d \in 0 .. Len(T) /\ p + d < Len(T)
    BY <1>1, <1>2, <2>1
  <2>3. Boundary(T, p + d)
    <3>1. CASE d = 0
      BY <1>1, <1>2, <1>4, <3>1 DEF p
    <3>2. CASE d # 0
      <4>1. d \in 1 .. Used(r) /\ p + d # 0
        BY <1>1, <1>2, <2>1, <2>2, <3>2
      <4>2. QED BY <1>3, <2>1, <3>2, <4>1 DEF Boundary
    <3>3. QED BY <3>1, <3>2
  <2>4. PICK k \in 0 .. Len(s) : p + d = Off(s, k)
    BY <1>7, <2>2, <2>3
  <2>5. k < Len(s)
    <3>1. k # Len(s)
      BY <1>2, <1>6, <2>2, <2>4
    <3>2. QED BY <1>1, <3>1
  <2>6. m <= k
    <3> SUFFICES ASSUME k < m PROVE FALSE
      BY <1>1
    <3>1. Off(s, k) < p
      BY <1>1, <1>5 DEF p
    <3>2. QED BY <1>2, <2>2, <2>4, <3>1
  <2>7. k \in m .. Len(s) - 1 /\ d = Place(s, m, k)
    <3>1. k \in m .. Len(s) - 1
      BY <1>1, <2>5, <2>6
    <3>2. d = Off(s, k) - p
      BY <1>2, <2>2, <2>4
    <3>3. QED BY <3>1, <3>2 DEF Place, p
  <2>8. QED BY <2>7
<1>9. ASSUME NEW k \in m .. Len(s) - 1 PROVE Place(s, m, k) \in Starts(r)
  <2> DEFINE d == Place(s, m, k)
  <2>1. d = Off(s, k) - p /\ k \in 0 .. Len(s) /\ k < Len(s) /\ m <= k /\ Len(s) \in 0 .. Len(s)
    BY <1>1 DEF Place, p
  <2> HIDE DEF d
  <2>2. Off(s, k) \in Nat /\ Off(s, k) < Len(T) /\ Boundary(T, Off(s, k))
    BY <1>4, <1>5, <1>6, <2>1
  <2>3. p <= Off(s, k)
    <3>1. m < k => p < Off(s, k)
      BY <1>1, <1>5, <2>1 DEF p
    <3>2. m = k \/ m < k
      BY <1>1, <2>1
    <3>3. QED BY <1>2, <2>2, <3>1, <3>2 DEF p
  <2>4. d \in 0 .. Used(r) - 1 /\ p + d = Off(s, k)
    BY <1>1, <1>2, <2>1, <2>2, <2>3
  <2>5. d = 0 \/ CharAt(r, d - 1) = "nul"
    <3> SUFFICES ASSUME d # 0 PROVE CharAt(r, d - 1) = "nul"
      OBVIOUS
    <3>1. d \in 1 .. Used(r) /\ p + d # 0
      BY <1>1, <1>2, <2>4
    <3>2. QED BY <1>3, <2>2, <2>4, <3>1 DEF Boundary
  <2>6. QED BY <2>4, <2>5 DEF Starts, d
<1>10. QED BY <1>8, <1>9

(* The n-th line from the newest. *)

LEMMA ModRange ==
  ASSUME NEW x \in Int, NEW P \in Nat \ {0}
  PROVE  x % P \in 0 .. P - 1
OBVIOUS

LEMMA NumbersFinite ==
  ASSUME NEW N \in Nat, NEW S, S \subseteq 0 .. N
  PROVE  IsFiniteSet(S) /\ Cardinality(S) \in Nat
<1>1. IsFiniteSet(0 .. N)
  BY FS_Interval
<1>2. IsFiniteSet(S)
  BY <1>1, FS_Subset
<1>3. QED BY <1>2, FS_CardinalityType

After(S, d) == { e \in S : e > d }

LEMMA BelowExists ==
  ASSUME NEW N \in Nat, NEW S, S \subseteq 0 .. N, NEW c \in 0 .. Cardinality(S) - 1
  PROVE  \E d \in S : Cardinality(After(S, d)) = c
<1> DEFINE P(k) == \E d \in S : Cardinality(After(S, d)) = k
           K == { k \in Nat : k < Cardinality(S) => P(k) }
<1>1. IsFiniteSet(S) /\ Cardinality(S) \in Nat
  BY NumbersFinite
<1>0. \A y \in S : y \in Int
  OBVIOUS
<1>2. \A d : IsFiniteSet(After(S, d)) /\ Cardinality(After(S, d)) \in Nat
  <2> TAKE d
  <2>1. After(S, d) \subseteq 0 .. N
    BY DEF After
  <2>2. QED BY <2>1, NumbersFinite
<1>3. 0 \in K
  <2> SUFFICES ASSUME 0 < Cardinality(S) PROVE P(0)
    OBVIOUS
  <2>1. S # {}
    BY FS_EmptySet
  <2>2. Max(S) \in S /\ \A y \in S : Max(S) >= y
    BY <2>1, MaxFacts
  <2>3. \A y \in S : y \in Int /\ ~(y > Max(S))
    <3>1. Max(S) \in Int
      BY <1>0, <2>2
    <3>2. \A y \in S : y \in Int /\ Max(S) >= y
      BY <1>0, <2>2
    <3> DEFINE x == Max(S)
    <3> HIDE DEF x
    <3>3. x \in Int /\ \A y \in S : y \in Int /\ x >= y
      BY <3>1, <3>2 DEF x
    <3>4. \A y \in S : y \in Int /\ ~(y > x)
      BY <3>3
    <3>5. QED BY <3>4 DEF x
  <2>4. After(S, Max(S)) = {}
    BY <2>3 DEF After
  <2>5. Cardinality(After(S, Max(S))) = 0
    BY <2>4, FS_EmptySet
  <2>6. QED BY <2>2, <2>5
<1>4. ASSUME NEW k \in Nat, k \in K PROVE k + 1 \in K
  <2> SUFFICES ASSUME k + 1 < Cardinality(S) PROVE P(k + 1)
    OBVIOUS
  <2>1. PICK d \in S : Cardinality(After(S, d)) = k
    BY <1>1, <1>4
  <2> DEFINE W == { e \in S : e < d }
  <2>2. W # {}
    <3> SUFFICES ASSUME W = {} PROVE FALSE
      OBVIOUS
    <3>1. \A e \in S : e \in Int /\ ~(e < d) /\ d \in Int
      BY <1>0
    <3>2. S = After(S, d) \cup {d}
      <4>1. \A e \in S : e = d \/ e > d
        BY <3>1
      <4>2. QED BY <4>1 DEF After
    <3>3. Cardinality(S) <= k + 1
      <4>1. Cardinality(After(S, d) \cup {d}) \in {k, k + 1}
        BY <1>2, <2>1, FS_AddElement
      <4>2. QED BY <3>2, <4>1
    <3>4. QED BY <1>1, <3>3
  <2>3. W \subseteq 0 .. N
    OBVIOUS
  <2> HIDE DEF W
  <2>4. Max(W) \in W /\ \A y \in W : Max(W) >= y
    BY <2>2, <2>3, MaxFacts
  <2>5. Max(W) \in S /\ Max(W) < d
    BY <2>4 DEF W
  <2>6. After(S, Max(W)) = After(S, d) \cup {d}
    <3>1. \A e \in S : e \in Int /\ d \in Int /\ Max(W) \in Int
      BY <1>0, <2>5
    <3>2. \A e \in S : e > Max(W) => e = d \/ e > d
      <4> TAKE e \in S
      <4>1. e < d => Max(W) >= e
        BY <2>4 DEF W
      <4>2. QED BY <3>1, <4>1
    <3>3. \A e \in S : e > d => e > Max(W)
      BY <2>5, <3>1
    <3>4. QED BY <2>5, <3>1, <3>2, <3>3 DEF After
  <2>7. d \notin After(S, d)
    BY DEF After
  <2>8. Cardinality(After(S, Max(W))) = k + 1
    BY <1>2, <2>1, <2>6, <2>7, FS_AddElement
  <2>9. QED BY <2>5, <2>8
<1> HIDE DEF K
<1>5. c \in Nat /\ c < Cardinality(S)
  BY <1>1
<1>6. c \in K
  BY <1>3, <1>4, <1>5, SetInduction
<1>7. QED BY <1>5, <1>6 DEF K

LEMMA BelowIs ==
  ASSUME NEW N \in Nat, NEW S, S \subseteq 0 .. N, NEW c \in 0 .. Cardinality(S) - 1
  PROVE  /\ Below(S, c) \in S /\ Cardinality(After(S, Below(S, c))) = c
         /\ \A d \in S : Cardinality(After(S, d)) = c => d = Below(S, c)
<1>1. \E d \in S : Cardinality(After(S, d)) = c
  BY BelowExists
<1>2. Below(S, c) \in S /\ Cardinality(After(S, Below(S, c))) = c
  BY <1>1 DEF Below, After
<1>3. ASSUME NEW d \in S, NEW e \in S, d < e PROVE Cardinality(After(S, d)) # Cardinality(After(S, e))
  <2>1. \A x \in S : x \in Int /\ (x > e => x > d) /\ ~(e > e)
    <3>1. \A x \in S : x \in Int
      OBVIOUS
    <3>2. QED BY <1>3, <3>1
  <2>2. After(S, e) \subseteq After(S, d) /\ e \in After(S, d) /\ e \notin After(S, e) /\ After(S, d) \subseteq 0 .. N
    <3>1. d \in Int /\ e \in Int /\ e > d
      BY <1>3, <2>1
    <3>2. QED BY <2>1, <3>1 DEF After
  <2>3. IsFiniteSet(After(S, d))
    BY <2>2, NumbersFinite
  <2>4. Cardinality(After(S, d)) = Cardinality(After(S, e)) => After(S, d) = After(S, e)
    BY <2>2, <2>3, FS_Subset
  <2>5. QED BY <2>2, <2>4
<1>4. ASSUME NEW d \in S, Cardinality(After(S, d)) = c PROVE d = Below(S, c)
  <2>1. d \in Int /\ Below(S, c) \in Int
    <3>1. \A x \in S : x \in Int
      OBVIOUS
    <3>2. QED BY <1>2, <3>1
  <2>2. ~(d < Below(S, c)) /\ ~(Below(S, c) < d)
    BY <1>2, <1>3, <1>4
  <2>3. QED BY <2>1, <2>2
<1>5. QED BY <1>2, <1>4

\* Numbers counted through an increasing function.
LEMMA Counted ==
  ASSUME NEW n \in Nat, NEW f \in [1 .. n -> Nat], \A i, j \in 1 .. n : i < j => f[i] < f[j],
         NEW S, S \subseteq 1 .. n
  PROVE  Cardinality({ f[j] : j \in S }) = Cardinality(S)
<1> DEFINE T == { f[j] : j \in S }
           g == [j \in S |-> f[j]]
<1>1. \A i, j \in S : f[i] = f[j] => i = j
  <2> TAKE i, j \in S
  <2>1. i \in 1 .. n /\ j \in 1 .. n /\ i \in Int /\ j \in Int
    OBVIOUS
  <2>2. f[i] \in Nat /\ f[j] \in Nat
    BY <2>1
  <2>3. QED BY <2>1, <2>2
<1>2. g \in [S -> T]
  OBVIOUS
<1>3. g \in Bijection(S, T)
  <2>1. \A i, j \in S : g[i] = g[j] => i = j
    BY <1>1
  <2>2. \A t \in T : \E j \in S : g[j] = t
    OBVIOUS
  <2> HIDE DEF g, T
  <2>3. QED BY <1>2, <2>1, <2>2 DEF Bijection, Injection, Surjection, IsInjective
<1>4. IsFiniteSet(S)
  <2>1. S \subseteq 0 .. n
    OBVIOUS
  <2>2. QED BY <2>1, NumbersFinite
<1>5. QED BY <1>3, <1>4, FS_Bijection DEF ExistsBijection

LEMMA BelowThrough ==
  ASSUME NEW n \in Nat, NEW f \in [1 .. n -> Nat], \A i, j \in 1 .. n : i < j => f[i] < f[j],
         NEW S, S \subseteq 1 .. n, NEW c \in 0 .. Cardinality(S) - 1
  PROVE  Below({ f[j] : j \in S }, c) = f[Below(S, c)] /\ Below(S, c) \in S
<1> DEFINE T == { f[j] : j \in S }
           b == Below(S, c)
<1>1. S \subseteq 0 .. n
  OBVIOUS
<1>2. b \in S /\ Cardinality(After(S, b)) = c
  BY <1>1, BelowIs
<1> HIDE DEF b
<1>3. b \in 1 .. n /\ n \in 1 .. n
  BY <1>2
<1>4. T \subseteq 0 .. f[n] /\ f[n] \in Nat
  <2>1. f[n] \in Nat
    BY <1>3
  <2>2. ASSUME NEW j \in S PROVE f[j] \in 0 .. f[n]
    <3>1. j \in 1 .. n /\ (j = n \/ j < n)
      OBVIOUS
    <3>2. f[j] \in Nat /\ f[j] <= f[n]
      BY <1>3, <2>1, <3>1
    <3>3. QED BY <2>1, <3>2
  <2>3. QED BY <2>1, <2>2
<1>5. After(T, f[b]) = { f[j] : j \in After(S, b) }
  <2>1. \A j \in S : f[j] > f[b] <=> j > b
    <3> TAKE j \in S
    <3>1. j \in 1 .. n /\ j \in Int /\ b \in Int /\ f[j] \in Nat /\ f[b] \in Nat
      BY <1>3
    <3>2. (j > b => f[j] > f[b]) /\ (b > j => f[b] > f[j]) /\ (b = j => f[b] = f[j])
      BY <1>3, <3>1
    <3>3. QED BY <3>1, <3>2
  <2>2. \A x : x \in After(T, f[b]) <=> \E j \in S : x = f[j] /\ x > f[b]
    BY DEF After
  <2>3. \A j : j \in After(S, b) <=> j \in S /\ j > b
    BY DEF After
  <2>4. \A x : x \in After(T, f[b]) <=> \E j \in After(S, b) : x = f[j]
    BY <2>1, <2>2, <2>3, Zenon
  <2>5. QED BY <2>4, Zenon
<1>6. After(S, b) \subseteq 1 .. n
  BY DEF After
<1>7. Cardinality(After(T, f[b])) = c
  <2> DEFINE A == After(S, b)
  <2>1. A \subseteq 1 .. n /\ Cardinality(A) = c
    BY <1>2, <1>6
  <2>2. After(T, f[b]) = { f[j] : j \in A }
    BY <1>5
  <2> HIDE DEF A, T
  <2>3. Cardinality({ f[j] : j \in A }) = Cardinality(A)
    BY <2>1, Counted
  <2>4. QED BY <2>1, <2>2, <2>3
<1>8. Cardinality(T) = Cardinality(S)
  BY Counted
<1>9. f[b] \in T
  BY <1>2
<1> HIDE DEF T
<1>10. f[b] = Below(T, c)
  BY <1>4, <1>7, <1>8, <1>9, BelowIs
<1>11. QED BY <1>2, <1>10 DEF T, b

-----------------------------------------------------------------------------
(* The walk of findhist. *)

Walks == [k : Nat, at : Int]
Pass(found, n, walk, d) ==
  IF d \notin found THEN walk ELSE [k |-> walk.k + 1, at |-> IF walk.k = n THEN d ELSE walk.at]

\* It passes one place after the other.
LEMMA OnceFolds ==
  ASSUME NEW u \in Nat, NEW S, S \subseteq 0 .. u, NEW n \in Int
  PROVE  \E f \in [0 .. u -> Walks] : /\ f[0] = [k |-> 0, at |-> -1] /\ f[u] = Once(S, u, n)
                                      /\ \A i \in 1 .. u : f[i] = Pass(S, n, f[i - 1], u - i)
<1> DEFINE X == Walks
           b == [k |-> 0, at |-> -1]
           s == [i \in 1 .. u |-> u - i]
           G == [p \in X \X (1 .. u) |-> Pass(S, n, p[1], u - p[2])]
           Step(it) == it = [z \in SUBSET (1 .. u) |-> IF z = {} THEN b ELSE Pass(S, n, it[z \ {Max(z)}], s[Max(z)])]
           it0 == CHOOSE it : Step(it)
<1>1. \A x \in X, d \in Int : Pass(S, n, x, d) \in X
  BY DEF Pass, Walks
<1>2. \A i \in 1 .. u : u - i \in Int /\ s[i] = u - i
  OBVIOUS
<1>3. \A x \in X, i \in 1 .. u : G[<<x, i>>] = Pass(S, n, x, u - i) /\ Pass(S, n, x, u - i) \in X
  <2> TAKE x \in X, i \in 1 .. u
  <2>1. Pass(S, n, x, u - i) \in X
    BY <1>1, <1>2
  <2> HIDE DEF X
  <2>2. <<x, i>> \in X \X (1 .. u) /\ <<x, i>>[1] = x /\ <<x, i>>[2] = i
    OBVIOUS
  <2>3. G[<<x, i>>] = Pass(S, n, <<x, i>>[1], u - <<x, i>>[2])
    BY <2>2
  <2>4. QED BY <2>1, <2>2, <2>3
<1>4. G \in [X \X (1 .. u) -> X]
  <2>1. \A p \in X \X (1 .. u) : Pass(S, n, p[1], u - p[2]) \in X
    BY <1>3
  <2> HIDE DEF X
  <2>2. QED BY <2>1
<1>5. Once(S, u, n) = it0[1 .. u]
  <2>1. DOMAIN s = 1 .. u
    OBVIOUS
  <2>2. Once(S, u, n) = FoldLeft(LAMBDA walk, d : Pass(S, n, walk, d), b, s)
    BY DEF Once, Pass
  <2> HIDE DEF s
  <2>3. FoldLeft(LAMBDA walk, d : Pass(S, n, walk, d), b, s) = it0[1 .. u]
    BY <2>1 DEF FoldLeft, MapThenFoldSet
  <2>4. QED BY <2>2, <2>3
<1>6. b \in X
  BY DEF Walks
<1> HIDE DEF G, X, s, b
<1>7. \A z \in SUBSET (1 .. u) : z # {} => Max(z) \in 1 .. u
  <2> TAKE z \in SUBSET (1 .. u)
  <2>1. z \subseteq 0 .. u
    OBVIOUS
  <2>2. z # {} => Max(z) \in z
    BY <2>1, MaxFacts
  <2>3. QED BY <2>2
<1>8. PICK it \in [SUBSET (1 .. u) -> X] : Folds(it, u, b, G)
  BY <1>4, <1>6, FoldExists
<1>9. \A z \in SUBSET (1 .. u) : z # {} => G[<<it[z \ {Max(z)}], Max(z)>>] = Pass(S, n, it[z \ {Max(z)}], s[Max(z)])
  <2> TAKE z \in SUBSET (1 .. u)
  <2> SUFFICES ASSUME z # {} PROVE G[<<it[z \ {Max(z)}], Max(z)>>] = Pass(S, n, it[z \ {Max(z)}], s[Max(z)])
    OBVIOUS
  <2>1. z \ {Max(z)} \in SUBSET (1 .. u) /\ Max(z) \in 1 .. u
    BY <1>7
  <2>2. it[z \ {Max(z)}] \in X
    BY <2>1
  <2>3. QED BY <1>2, <1>3, <2>1, <2>2
<1>10. Step(it)
  BY <1>8, <1>9 DEF Folds
<1>11. Step(it0)
  <2> HIDE DEF Step
  <2>1. \E x : Step(x)
    BY <1>10
  <2>2. QED BY <2>1, Zenon
<1>12. it0[{}] = b
  <2> HIDE DEF it0
  <2>1. {} \in SUBSET (1 .. u)
    OBVIOUS
  <2>2. QED BY <1>11, <2>1
<1>13. ASSUME NEW i \in 1 .. u, it0[1 .. (i - 1)] \in X
       PROVE  it0[1 .. i] = G[<<it0[1 .. (i - 1)], i>>]
  <2> HIDE DEF it0
  <2>1. it0[1 .. i] = Pass(S, n, it0[(1 .. i) \ {Max(1 .. i)}], s[Max(1 .. i)])
    BY ZenonT(60), <1>11, UpTo
  <2>2. it0[1 .. i] = Pass(S, n, it0[1 .. (i - 1)], s[i])
    BY <2>1, UpTo
  <2>3. QED BY <1>2, <1>3, <1>13, <2>2
<1> HIDE DEF it0
<1>14. Stages(X, u, it0, b, G)
  BY <1>12, <1>13 DEF Stages
<1>15. PICK f \in [0 .. u -> X] : Through(f, u, b, G, it0[1 .. u])
  BY <1>4, <1>6, <1>14, FoldThrough
<1>16. f[0] = b /\ f[u] = it0[1 .. u] /\ \A i \in 1 .. u : f[i] = Pass(S, n, f[i - 1], u - i)
  <2>1. \A i \in 1 .. u : f[i - 1] \in X
    OBVIOUS
  <2>2. QED BY <1>3, <1>15, <2>1 DEF Through
<1>17. QED BY <1>5, <1>15, <1>16 DEF b, X

Since(S, d) == { e \in S : e >= d }

\* What has been counted and found when the places from q on have been passed.
Passed(S, n, walk, q) ==
  /\ walk.k = Cardinality(Since(S, q))
  /\ \/ walk.at = -1 /\ \A d \in Since(S, q) : Cardinality(After(S, d)) # n
     \/ walk.at \in Since(S, q) /\ Cardinality(After(S, walk.at)) = n

LEMMA PassOne ==
  ASSUME NEW u \in Nat, NEW S, S \subseteq 0 .. u, NEW n \in Int, NEW q \in 0 .. u, NEW walk \in Walks,
         Passed(S, n, walk, q + 1)
  PROVE  Passed(S, n, Pass(S, n, walk, q), q)
<1>1. \A e \in S : e \in Int
  OBVIOUS
<1>2. Since(S, q + 1) = After(S, q)
  <2>1. \A e \in S : e >= q + 1 <=> e > q
    BY <1>1
  <2>2. QED BY <2>1 DEF Since, After
<1>3. IsFiniteSet(After(S, q)) /\ Cardinality(After(S, q)) \in Nat
  <2>1. After(S, q) \subseteq 0 .. u
    BY DEF After
  <2>2. QED BY <2>1, NumbersFinite
<1>4. CASE q \notin S
  <2>1. Since(S, q) = Since(S, q + 1)
    <3>1. \A e \in S : e >= q <=> e >= q + 1
      BY <1>1, <1>4
    <3>2. QED BY <3>1 DEF Since
  <2>2. QED BY <1>4, <2>1 DEF Pass, Passed
<1>5. CASE q \in S
  <2>1. Since(S, q) = Since(S, q + 1) \cup {q} /\ q \notin Since(S, q + 1)
    <3>1. \A e \in S : (e >= q <=> e = q \/ e >= q + 1) /\ ~(q >= q + 1)
      BY <1>1
    <3>2. QED BY <1>5, <3>1 DEF Since
  <2>2. Cardinality(Since(S, q)) = walk.k + 1 /\ walk.k = Cardinality(After(S, q))
    <3>1. Cardinality(Since(S, q + 1) \cup {q}) = Cardinality(Since(S, q + 1)) + 1
      BY <1>2, <1>3, <2>1, FS_AddElement
    <3>2. QED BY <1>2, <2>1, <3>1 DEF Passed
  <2> DEFINE w == Pass(S, n, walk, q)
  <2>3. w.k = walk.k + 1 /\ w.at = IF walk.k = n THEN q ELSE walk.at
    BY <1>5 DEF Pass
  <2> HIDE DEF w
  <2>4. CASE walk.k = n
    <3>1. w.at = q /\ q \in Since(S, q) /\ Cardinality(After(S, w.at)) = n
      BY <2>1, <2>2, <2>3, <2>4
    <3>2. QED BY <2>2, <2>3, <3>1 DEF Passed, w
  <2>5. CASE walk.k # n
    <3>1. w.at = walk.at /\ Cardinality(After(S, q)) # n
      BY <2>2, <2>3, <2>5
    <3>2. CASE walk.at = -1 /\ \A d \in Since(S, q + 1) : Cardinality(After(S, d)) # n
      <4>1. w.at = -1 /\ \A d \in Since(S, q) : Cardinality(After(S, d)) # n
        BY <2>1, <3>1, <3>2
      <4>2. QED BY <2>2, <2>3, <4>1 DEF Passed, w
    <3>3. CASE walk.at \in Since(S, q + 1) /\ Cardinality(After(S, walk.at)) = n
      <4>1. w.at \in Since(S, q) /\ Cardinality(After(S, w.at)) = n
        BY <2>1, <3>1, <3>3
      <4>2. QED BY <2>2, <2>3, <4>1 DEF Passed, w
    <3>4. QED BY <3>2, <3>3 DEF Passed
  <2>6. QED BY <2>4, <2>5
<1>6. QED BY <1>4, <1>5

\* Once round, all are counted, and the n-th is found if there is one.
LEMMA OnceIs ==
  ASSUME NEW u \in Nat, NEW S, S \subseteq 0 .. u - 1, NEW n \in Int
  PROVE  /\ Once(S, u, n).k = Cardinality(S)
         /\ \/ Once(S, u, n).at = -1 /\ \A d \in S : Cardinality(After(S, d)) # n
            \/ Once(S, u, n).at \in S /\ Cardinality(After(S, Once(S, u, n).at)) = n
<1>1. S \subseteq 0 .. u
  OBVIOUS
<1>2. PICK f \in [0 .. u -> Walks] : /\ f[0] = [k |-> 0, at |-> -1] /\ f[u] = Once(S, u, n)
                                     /\ \A i \in 1 .. u : f[i] = Pass(S, n, f[i - 1], u - i)
  BY <1>1, OnceFolds
<1> DEFINE T == { i \in Nat : i <= u => Passed(S, n, f[i], u - i) }
<1>3. 0 \in T
  <2>1. Since(S, u) = {}
    <3>1. \A e \in S : e \in Int /\ ~(e >= u)
      OBVIOUS
    <3>2. QED BY <3>1 DEF Since
  <2>2. Passed(S, n, f[0], u)
    BY <1>2, <2>1, FS_EmptySet DEF Passed
  <2>3. QED BY <2>2
<1>4. ASSUME NEW i \in Nat, i \in T PROVE i + 1 \in T
  <2> SUFFICES ASSUME i + 1 <= u PROVE Passed(S, n, f[i + 1], u - (i + 1))
    OBVIOUS
  <2> DEFINE q == u - (i + 1)
  <2>1. q \in 0 .. u /\ q + 1 = u - i /\ i + 1 \in 1 .. u /\ (i + 1) - 1 = i /\ i \in 0 .. u
    OBVIOUS
  <2>2. Passed(S, n, f[i], q + 1) /\ f[i] \in Walks
    BY <1>4, <2>1
  <2>3. f[i + 1] = Pass(S, n, f[i], q)
    BY <1>2, <2>1
  <2> HIDE DEF q
  <2>4. Passed(S, n, f[i + 1], q)
    BY <1>1, <2>1, <2>2, <2>3, PassOne
  <2>5. QED BY <2>4 DEF q
<1> HIDE DEF T
<1>5. u \in T
  BY <1>3, <1>4, SetInduction
<1>6. Passed(S, n, Once(S, u, n), 0)
  BY <1>2, <1>5 DEF T
<1>7. Since(S, 0) = S
  <2>1. \A e \in S : e >= 0
    OBVIOUS
  <2>2. QED BY <2>1 DEF Since
<1>8. QED BY <1>6, <1>7 DEF Passed

\* findhist finds the line that as many are newer than as it is asked to pass.
LEMMA WalkFinds ==
  ASSUME NEW r, NEW t, NEW c \in Int, Used(r) \in Nat, Matches(r, t) \subseteq 0 .. Used(r) - 1
  PROVE  FindHist(r, t, c) =
           IF Matches(r, t) = {} THEN -1
           ELSE (r.hista + Below(Matches(r, t), c % Cardinality(Matches(r, t)))) % HSTSIZE
<1> DEFINE S == Matches(r, t)
           u == Used(r)
           C == Cardinality(S)
           first == Once(S, u, c)
           again == Once(S, u, c % C)
           d == IF first.at >= 0 \/ first.k = 0 THEN first.at ELSE again.at
<1>1. FindHist(r, t, c) = (IF d < 0 THEN -1 ELSE (r.hista + d) % HSTSIZE) \/ first.k # C
  BY DEF FindHist
<1>2. S \subseteq 0 .. u - 1 /\ u \in Nat /\ S \subseteq 0 .. u /\ \A e \in S : e >= 0 /\ e \in Int
  OBVIOUS
<1> HIDE DEF S, u
<1> DEFINE Finding(m) ==
             \/ Once(S, u, m).at = -1 /\ \A e \in S : Cardinality(After(S, e)) # m
             \/ Once(S, u, m).at \in S /\ Cardinality(After(S, Once(S, u, m).at)) = m
<1>8. \A m \in Int : Once(S, u, m).k = C /\ Finding(m)
  BY <1>2, OnceIs
<1>3. /\ first.k = C
      /\ \/ first.at = -1 /\ \A e \in S : Cardinality(After(S, e)) # c
         \/ first.at \in S /\ Cardinality(After(S, first.at)) = c
  BY <1>8
<1>4. IsFiniteSet(S) /\ C \in Nat
  BY <1>2, NumbersFinite
<1>5. CASE S = {}
  <2>1. first.k = 0 /\ first.at = -1
    BY <1>3, <1>5, FS_EmptySet
  <2> HIDE DEF first
  <2>2. d = -1
    BY <2>1
  <2>3. QED BY <1>1, <1>3, <1>5, <2>2 DEF S
<1>6. CASE S # {}
  <2>1. C \in Nat \ {0}
    BY <1>4, <1>6, FS_EmptySet
  <2>2. c % C \in 0 .. C - 1
    BY <2>1, ModRange
  <2>3. d = Below(S, c % C) /\ d >= 0
    <3>1. CASE first.at \in S /\ Cardinality(After(S, first.at)) = c
      <4>1. After(S, first.at) \subseteq S /\ first.at \notin After(S, first.at)
        <5> DEFINE a == first.at
        <5>1. a \in S
          BY <3>1
        <5> HIDE DEF a
        <5>2. After(S, a) \subseteq S /\ a \notin After(S, a)
          BY <1>2, <5>1 DEF After
        <5>3. QED BY <5>2 DEF a
      <4>2. c \in 0 .. C - 1
        <5>1. c \in Nat /\ c <= C /\ (c = C => After(S, first.at) = S)
          BY <1>4, <3>1, <4>1, FS_Subset, FS_CardinalityType
        <5>2. c # C
          BY <3>1, <4>1, <5>1
        <5>3. QED BY <1>4, <5>1, <5>2
      <4>3. c % C = c
        <5> DEFINE P == C
        <5>1. P \in Nat \ {0} /\ c \in 0 .. P - 1
          BY <2>1, <4>2
        <5> HIDE DEF P
        <5>2. (P * 0 + c) % P = c
          BY <5>1, ModIs
        <5>3. QED BY <5>1, <5>2 DEF P
      <4>4. first.at = Below(S, c)
        BY <1>2, <3>1, <4>2, BelowIs
      <4>5. first.at >= 0
        BY <1>2, <3>1
      <4>6. QED BY <4>3, <4>4, <4>5
    <3>2. CASE first.at = -1
      <4>1. \/ again.at = -1 /\ \A e \in S : Cardinality(After(S, e)) # c % C
            \/ again.at \in S /\ Cardinality(After(S, again.at)) = c % C
        <5> DEFINE m == c % C
        <5>1. m \in Int
          BY <2>2
        <5> HIDE DEF m
        <5>2. Finding(m)
          BY <1>8, <5>1
        <5>3. QED BY <5>2 DEF m
      <4>2. \E e \in S : Cardinality(After(S, e)) = c % C
        BY <1>2, <2>2, BelowExists
      <4>3. again.at \in S /\ Cardinality(After(S, again.at)) = c % C
        BY <4>1, <4>2
      <4> HIDE DEF again, first
      <4>4. d = again.at
        BY <1>3, <2>1, <3>2
      <4>5. again.at = Below(S, c % C)
        BY <1>2, <2>2, <4>3, BelowIs
      <4>6. again.at >= 0
        BY <1>2, <4>3
      <4>7. QED BY <4>4, <4>5, <4>6
    <3>3. QED BY <1>3, <3>1, <3>2
  <2> HIDE DEF d
  <2>4. ~(d < 0)
    <3>1. d \in Int
      <4>1. Below(S, c % C) \in S
        BY <1>2, <2>2, BelowIs
      <4>2. QED BY <1>2, <2>3, <4>1
    <3>2. QED BY <2>3, <3>1
  <2>5. QED BY <1>1, <1>3, <1>6, <2>3, <2>4 DEF S
<1>7. QED BY <1>5, <1>6

(* The lines found in the ring. *)

\* A line in the ring begins with what the line itself begins with.
LEMMA PlacePrefix ==
  ASSUME NEW r, NEW s, NEW m, Holds(r, s, m), NEW k \in m .. Len(s) - 1, NEW t \in Seq(Char)
  PROVE  HasPrefix(r, Place(s, m, k), t) <=> IsPrefix(t, s[k + 1])
<1> DEFINE d == Place(s, m, k)
           x == s[k + 1]
<1>1. /\ x \in Line /\ d \in Nat
      /\ \A i \in 1 .. Len(x) + 1 : CharAt(r, d + i - 1) = Code(x)[i]
  BY PlaceChars
<1> HIDE DEF d, x
<1>2. /\ x \in Seq(Char) /\ Len(x) \in Nat /\ t \in Seq(Char) /\ Len(t) \in Nat /\ DOMAIN t = 1 .. Len(t)
      /\ \A i \in 1 .. Len(t) : t[i] \in Char /\ t[i] # "nul"
  <2>1. "nul" \notin Char
    BY Sizes
  <2>2. \A i \in 1 .. Len(t) : t[i] \in Char
    OBVIOUS
  <2>3. QED BY <1>1, <2>1, <2>2, LineFacts
<1>3. \A i \in 1 .. Len(x) : CharAt(r, d + i - 1) = x[i]
  <2> TAKE i \in 1 .. Len(x)
  <2>1. i \in 1 .. Len(x) + 1
    BY <1>2
  <2>2. Code(x)[i] = x[i]
    BY <1>1, CodeFacts DEF Code
  <2>3. QED BY <1>1, <2>1, <2>2
<1>4. CharAt(r, d + (Len(x) + 1) - 1) = "nul"
  <2>1. Len(x) + 1 \in 1 .. Len(x) + 1
    BY <1>2
  <2>2. Code(x)[Len(x) + 1] = "nul"
    BY <1>1, <1>2, CodeFacts DEF Code
  <2>3. QED BY <1>1, <2>1, <2>2
<1>5. ASSUME IsPrefix(t, x) PROVE HasPrefix(r, d, t)
  <2>1. Len(t) <= Len(x) /\ SubSeq(t, 1, Len(t)) = SubSeq(x, 1, Len(t))
    BY <1>5 DEF IsPrefix
  <2>2. ASSUME NEW i \in 1 .. Len(t) PROVE CharAt(r, d + i - 1) = t[i]
    <3>1. i \in 1 .. Len(x)
      BY <1>2, <2>1
    <3>2. SubSeq(t, 1, Len(t))[i] = t[i] /\ SubSeq(x, 1, Len(t))[i] = x[i]
      BY <1>2, <2>1, <3>1
    <3>3. QED BY <1>3, <2>1, <3>1, <3>2
  <2>3. QED BY <1>2, <2>2 DEF HasPrefix
<1>6. ASSUME HasPrefix(r, d, t) PROVE IsPrefix(t, x)
  <2>1. \A i \in 1 .. Len(t) : CharAt(r, d + i - 1) = t[i]
    BY <1>2, <1>6 DEF HasPrefix
  <2>2. Len(t) <= Len(x)
    <3> SUFFICES ASSUME Len(t) > Len(x) PROVE FALSE
      BY <1>2
    <3>1. Len(x) + 1 \in 1 .. Len(t)
      BY <1>2
    <3>2. QED BY <1>2, <1>4, <2>1, <3>1
  <2>3. \A i \in 1 .. Len(t) : t[i] = x[i]
    <3> TAKE i \in 1 .. Len(t)
    <3>1. i \in 1 .. Len(x)
      BY <1>2, <2>2
    <3>2. QED BY <1>3, <2>1, <3>1
  <2>4. SubSeq(t, 1, Len(t)) = SubSeq(x, 1, Len(t))
    <3> DEFINE A == SubSeq(t, 1, Len(t))
               B == SubSeq(x, 1, Len(t))
    <3>1. A \in Seq(Char) /\ Len(A) = Len(t) /\ \A i \in 1 .. Len(t) : A[i] = t[i]
      BY <1>2
    <3>2. B \in Seq(Char) /\ Len(B) = Len(t) /\ \A i \in 1 .. Len(t) : B[i] = x[i]
      BY <1>2, <2>2
    <3>3. \A i \in 1 .. Len(t) : A[i] = B[i]
      BY <2>3, <3>1, <3>2
    <3> HIDE DEF A, B
    <3>4. A = B
      BY <1>2, <3>1, <3>2, <3>3
    <3>5. QED BY <3>4 DEF A, B
  <2>5. QED BY <2>2, <2>4 DEF IsPrefix
<1>7. QED BY <1>5, <1>6 DEF d, x

\* The places of the lines kept, oldest first.
Places(s, m) == [j \in 1 .. Len(s) - m |-> Place(s, m, m + j - 1)]

LEMMA PlacesFacts ==
  ASSUME NEW r, NEW s, NEW m, Holds(r, s, m)
  PROVE  /\ Len(s) - m \in Nat /\ Places(s, m) \in [1 .. Len(s) - m -> Nat]
         /\ \A i, j \in 1 .. Len(s) - m : i < j => Places(s, m)[i] < Places(s, m)[j]
         /\ Starts(r) = { Places(s, m)[j] : j \in 1 .. Len(s) - m }
         /\ Cardinality(Starts(r)) = Len(s) - m
<1> DEFINE n == Len(s) - m
           f == Places(s, m)
<1>1. s \in Seq(Line) /\ m \in 0 .. Len(s) /\ Len(s) \in Nat /\ m \in Nat /\ n \in Nat
  BY DEF Holds
<1>2. \A j \in 1 .. n : m + j - 1 \in m .. Len(s) - 1 /\ m + j - 1 \in 0 .. Len(s)
  BY <1>1
<1>3. \A j \in 1 .. n : f[j] = Place(s, m, m + j - 1)
  BY DEF Places
<1>4. f \in [1 .. n -> Nat]
  <2>1. \A j \in 1 .. n : Place(s, m, m + j - 1) \in Nat
    BY <1>2, PlaceChars
  <2>2. QED BY <2>1 DEF Places
<1> HIDE DEF f
<1>5. \A i, j \in 1 .. n : i < j => f[i] < f[j]
  <2> TAKE i, j \in 1 .. n
  <2> HAVE i < j
  <2>1. m + i - 1 \in 0 .. Len(s) /\ m + j - 1 \in 0 .. Len(s) /\ m + i - 1 < m + j - 1
    BY <1>1, <1>2
  <2>2. Off(s, m + i - 1) < Off(s, m + j - 1)
    BY <1>1, <2>1, OffUp
  <2>3. Off(s, m + i - 1) \in Nat /\ Off(s, m + j - 1) \in Nat /\ Off(s, m) \in Nat
    BY <1>1, <2>1, OffFacts
  <2>4. f[i] = Off(s, m + i - 1) - Off(s, m) /\ f[j] = Off(s, m + j - 1) - Off(s, m)
    BY <1>3 DEF Place
  <2>5. QED BY <2>2, <2>3, <2>4
<1>6. Starts(r) = { f[j] : j \in 1 .. n }
  <2>1. Starts(r) = { Place(s, m, k) : k \in m .. Len(s) - 1 }
    BY PlaceStarts
  <2>2. \A j \in 1 .. n : f[j] \in Starts(r)
    BY <1>2, <1>3, <2>1
  <2>3. \A k \in m .. Len(s) - 1 : \E j \in 1 .. n : f[j] = Place(s, m, k)
    <3> TAKE k \in m .. Len(s) - 1
    <3>1. k - m + 1 \in 1 .. n /\ m + (k - m + 1) - 1 = k
      BY <1>1
    <3>2. QED BY <1>3, <3>1
  <2>4. QED BY <2>1, <2>2, <2>3
<1>7. Cardinality(Starts(r)) = n
  <2>1. Cardinality({ f[j] : j \in 1 .. n }) = Cardinality(1 .. n)
    BY ZenonT(60), <1>1, <1>4, <1>5, Counted
  <2>2. Cardinality(1 .. n) = n
    BY <1>1, FS_Interval
  <2>3. QED BY <1>6, <2>1, <2>2
<1>8. QED BY <1>1, <1>4, <1>5, <1>6, <1>7 DEF f

\* FindHist finds the line it should, of the lines after the first m.
Finds(r, s, m, t, c) ==
  LET found == { j \in 1 .. Len(s) - m : IsPrefix(t, s[m + j]) }
      b == Below(found, c % Cardinality(found))
      at == FindHist(r, t, c)
  IN IF found = {} THEN at = -1
     ELSE b \in found /\ at \in Cell /\ LineAt(r, at) = s[m + b]

LEMMA FoundIs ==
  ASSUME NEW r, NEW s, NEW m, Holds(r, s, m), NEW t \in Seq(Char), NEW c \in Int
  PROVE  Finds(r, s, m, t, c)
<1> DEFINE n == Len(s) - m
           f == Places(s, m)
           found == { j \in 1 .. n : IsPrefix(t, s[m + j]) }
           b == Below(found, c % Cardinality(found))
<1>1. /\ n \in Nat /\ f \in [1 .. n -> Nat]
      /\ \A i, j \in 1 .. n : i < j => f[i] < f[j]
      /\ Starts(r) = { f[j] : j \in 1 .. n }
  BY PlacesFacts
<1>2. s \in Seq(Line) /\ m \in 0 .. Len(s) /\ Len(s) \in Nat /\ m \in Nat
  BY DEF Holds
<1>3. \A j \in 1 .. n : m + j - 1 \in m .. Len(s) - 1 /\ (m + j - 1) + 1 = m + j /\ f[j] = Place(s, m, m + j - 1)
  BY <1>2 DEF Places
<1>4. \A j \in 1 .. n : HasPrefix(r, f[j], t) <=> IsPrefix(t, s[m + j])
  <2> TAKE j \in 1 .. n
  <2>1. HasPrefix(r, Place(s, m, m + j - 1), t) <=> IsPrefix(t, s[(m + j - 1) + 1])
    BY <1>3, PlacePrefix
  <2>2. QED BY <1>3, <2>1
<1> HIDE DEF f, n
<1>5. Matches(r, t) = { f[j] : j \in found }
  BY <1>1, <1>4 DEF Matches
<1>6. found \subseteq 1 .. n
  OBVIOUS
<1> HIDE DEF found
<1>0. FindHist(r, t, c) =
        IF Matches(r, t) = {} THEN -1
        ELSE (r.hista + Below(Matches(r, t), c % Cardinality(Matches(r, t)))) % HSTSIZE
  <2>1. Used(r) \in Nat
    <3>1. r \in Ring
      BY DEF Holds
    <3>2. QED BY <3>1, UsedIs, SizeFacts DEF Cell
  <2>2. Matches(r, t) \subseteq 0 .. Used(r) - 1
    BY DEF Matches, Starts
  <2>3. QED BY <2>1, <2>2, WalkFinds
<1>7. CASE found = {}
  <2>1. Matches(r, t) = {}
    BY <1>5, <1>7
  <2>2. FindHist(r, t, c) = -1
    BY <1>0, <2>1
  <2>3. QED BY <1>7, <2>2 DEF found, n, Finds
<1>8. CASE found # {}
  <2> DEFINE C == Cardinality(found)
  <2>1. C \in Nat \ {0}
    <3>1. found \subseteq 0 .. n
      BY <1>1, <1>6
    <3>2. IsFiniteSet(found) /\ C \in Nat
      BY <1>1, <3>1, NumbersFinite
    <3>3. QED BY <1>8, <3>2, FS_EmptySet
  <2>2. c % C \in 0 .. C - 1
    BY <2>1, ModRange
  <2>3. Below(Matches(r, t), c % C) = f[b] /\ b \in found
    <3> DEFINE e == c % C
    <3>1. e \in 0 .. Cardinality(found) - 1
      BY <2>2
    <3> HIDE DEF e
    <3>2. Below({ f[j] : j \in found }, e) = f[Below(found, e)] /\ Below(found, e) \in found
      BY <1>1, <1>6, <3>1, BelowThrough
    <3>3. QED BY <1>5, <3>2 DEF e
  <2>4. Cardinality(Matches(r, t)) = C
    <3>1. Cardinality({ f[j] : j \in found }) = C
      BY <1>1, <1>6, Counted
    <3>2. QED BY <1>5, <3>1
  <2>5. Matches(r, t) # {}
    BY <1>5, <1>8
  <2>6. FindHist(r, t, c) = (r.hista + f[b]) % HSTSIZE
    BY <1>0, <2>3, <2>4, <2>5
  <2> HIDE DEF b
  <2>7. b \in 1 .. n
    BY <1>6, <2>3
  <2>8. f[b] = Place(s, m, m + b - 1) /\ m + b - 1 \in m .. Len(s) - 1 /\ (m + b - 1) + 1 = m + b
    BY <1>3, <2>7
  <2>9. FindHist(r, t, c) \in Cell /\ LineAt(r, FindHist(r, t, c)) = s[m + b]
    BY <2>6, <2>8, PlaceLine
  <2>10. QED BY <1>8, <2>3, <2>9 DEF found, n, b, Finds
<1>9. QED BY <1>7, <1>8
-----------------------------------------------------------------------------
(* The line edited. *)

LEMMA LineIs ==
  ASSUME NEW s \in Seq(Char), Len(s) < CMDFULL
  PROVE  s \in Line
<1>1. Len(s) \in 0 .. CMDFULL - 1 /\ s \in [1 .. Len(s) -> Char]
  BY SizeFacts
<1>2. QED BY <1>1 DEF Line, SeqOf

LEMMA EditedType ==
  ASSUME IInv
  PROVE  Edited \in Line /\ Edited \in Seq(Char) /\ Len(Edited) \in Nat /\ Len(Edited) < CMDFULL
<1>1. Edited \in Line
  BY DEF Edited, IInv, TypeOK
<1>2. QED BY <1>1, LineFacts

\* Parts of a line.
LEMMA PartType ==
  ASSUME NEW s \in Line, NEW i \in 0 .. Len(s)
  PROVE  /\ SubSeq(s, 1, i) \in Seq(Char) /\ Len(SubSeq(s, 1, i)) = i
         /\ SubSeq(s, i + 1, Len(s)) \in Seq(Char) /\ Len(SubSeq(s, i + 1, Len(s))) = Len(s) - i
<1>1. s \in Seq(Char) /\ Len(s) \in Nat
  BY LineFacts
<1>2. SubSeq(s, 1, i) \in Seq(Char) /\ SubSeq(s, i + 1, Len(s)) \in Seq(Char)
  BY <1>1
<1>3. Len(SubSeq(s, 1, i)) = i /\ Len(SubSeq(s, i + 1, Len(s))) = Len(s) - i
  BY <1>1
<1>4. QED BY <1>2, <1>3

LEMMA EmptyLine == << >> \in Line
<1>1. << >> \in Seq(Char) /\ Len(<< >>) < CMDFULL
  BY SizeFacts
<1>2. QED BY <1>1, LineIs

LEMMA TypedLine ==
  ASSUME NEW s \in Line, NEW i \in 0 .. Len(s), NEW c \in Char
  PROVE  InsertAt(s, i + 1, c) \in Seq(Char) /\ Len(InsertAt(s, i + 1, c)) \in Nat
<1> DEFINE a == SubSeq(s, 1, i)
           b == SubSeq(s, i + 1, Len(s))
<1>1. a \in Seq(Char) /\ b \in Seq(Char)
  BY PartType
<1>2. i \in Nat /\ (i + 1) - 1 = i
  OBVIOUS
<1>3. InsertAt(s, i + 1, c) = a \o <<c>> \o b
  BY <1>2 DEF InsertAt
<1> HIDE DEF a, b
<1>4. a \o <<c>> \o b \in Seq(Char)
  BY <1>1
<1>5. InsertAt(s, i + 1, c) \in Seq(Char)
  BY <1>3, <1>4
<1>6. \A x \in Seq(Char) : Len(x) \in Nat
  OBVIOUS
<1>7. QED BY <1>5, <1>6

LEMMA RemovedLine ==
  ASSUME NEW s \in Line, NEW i \in DOMAIN s
  PROVE  RemoveAt(s, i) \in Line
<1> DEFINE a == SubSeq(s, 1, i - 1)
           b == SubSeq(s, i + 1, Len(s))
<1>1. s \in Seq(Char) /\ Len(s) \in Nat /\ Len(s) < CMDFULL
  BY LineFacts
<1>2. i \in 1 .. Len(s) /\ i - 1 \in 0 .. Len(s) /\ i \in 0 .. Len(s)
  BY <1>1
<1>3. a \in Seq(Char) /\ Len(a) = i - 1 /\ b \in Seq(Char) /\ Len(b) = Len(s) - i
  BY <1>2, PartType
<1>4. RemoveAt(s, i) = a \o b
  BY DEF RemoveAt
<1> HIDE DEF a, b
<1>5. a \o b \in Seq(Char)
  BY <1>3
<1>6. Len(a \o b) = Len(a) + Len(b)
  <2>1. \A x, y \in Seq(Char) : Len(x \o y) = Len(x) + Len(y)
    OBVIOUS
  <2>2. QED BY <1>3, <2>1
<1> DEFINE n == Len(s)
<1>7. n \in Nat /\ n < CMDFULL /\ i \in 1 .. n /\ Len(a \o b) = (i - 1) + (n - i)
  BY <1>1, <1>2, <1>3, <1>6
<1> HIDE DEF n
<1>8. Len(a \o b) < CMDFULL
  BY <1>7, SizeFacts
<1>9. QED BY <1>4, <1>5, <1>8, LineIs

LEMMA PartLine ==
  ASSUME NEW s \in Line, NEW i \in 0 .. Len(s)
  PROVE  SubSeq(s, 1, i) \in Line /\ SubSeq(s, i + 1, Len(s)) \in Line
<1>1. Len(s) \in Nat /\ Len(s) < CMDFULL
  BY LineFacts
<1>2. Len(SubSeq(s, 1, i)) < CMDFULL /\ Len(SubSeq(s, i + 1, Len(s))) < CMDFULL
  <2>1. Len(SubSeq(s, 1, i)) = i /\ Len(SubSeq(s, i + 1, Len(s))) = Len(s) - i
    BY PartType
  <2>2. i <= Len(s) /\ Len(s) - i <= Len(s) /\ i \in Int
    BY <1>1
  <2>3. QED BY <1>1, <2>1, <2>2, SizeFacts
<1>3. QED BY <1>2, PartType, LineIs

\* A line that findhist finds is one of those entered.
LEMMA FoundLine ==
  ASSUME NEW r \in Ring, NEW s \in Seq(Line), KeptOf(Held(r), Encoded(s)),
         NEW t \in Line, NEW c \in Int, FindHist(r, t, c) >= 0
  PROVE  FindHist(r, t, c) \in Cell /\ LineAt(r, FindHist(r, t, c)) \in Line
<1>1. PICK m \in 0 .. Len(s) : Holds(r, s, m)
  BY HoldsSome
<1>2. t \in Seq(Char)
  BY LineFacts
<1>3. Finds(r, s, m, t, c)
  BY <1>1, <1>2, FoundIs
<1> DEFINE found == { j \in 1 .. Len(s) - m : IsPrefix(t, s[m + j]) }
           b == Below(found, c % Cardinality(found))
           at == FindHist(r, t, c)
<1>4. b \in found /\ at \in Cell /\ LineAt(r, at) = s[m + b]
  <2>1. IF found = {} THEN at = -1 ELSE b \in found /\ at \in Cell /\ LineAt(r, at) = s[m + b]
    BY <1>3 DEF Finds
  <2> HIDE DEF found, b, at
  <2>2. at >= 0
    BY DEF at
  <2>3. QED BY <2>1, <2>2
<1> HIDE DEF b, at
<1>5. b \in 1 .. Len(s) - m
  BY <1>4
<1> HIDE DEF found
<1>6. m + b \in 1 .. Len(s)
  BY <1>5
<1>7. s[m + b] \in Line
  BY <1>6
<1>8. QED BY <1>4, <1>7 DEF at
-----------------------------------------------------------------------------
(* Saving and restarting. *)

LEMMA ContentIs ==
  ASSUME NEW r \in Ring
  PROVE  Content(r) \in Seq(FileChars) /\ AsText(Content(r)) = Held(r)
<1> DEFINE n == Used(r)
           h == Held(r)
           s == Content(r)
<1>1. h \in Seq(Stored) /\ Len(h) = n /\ n \in Nat
  BY HeldIs
<1>2. \A i \in 1 .. n : h[i] \in Stored
  BY <1>1
<1>3. "nl" \notin Stored
  BY Sizes DEF Stored
<1> HIDE DEF h
<1>4. s = [i \in 1 .. n |-> IF h[i] = "nul" THEN "nl" ELSE h[i]]
  BY DEF Content, h
<1> HIDE DEF n, s
<1>5. \A i \in 1 .. n : (IF h[i] = "nul" THEN "nl" ELSE h[i]) \in FileChars
  BY <1>2 DEF FileChars, Stored
<1>6. s \in Seq(FileChars) /\ Len(s) = n
  BY <1>1, <1>4, <1>5
<1>7. \A i \in 1 .. n : (IF s[i] = "nl" THEN "nul" ELSE s[i]) = h[i]
  BY <1>2, <1>3, <1>4
<1>8. AsText(s) \in Seq(Stored) /\ Len(AsText(s)) = n /\ \A i \in 1 .. n : AsText(s)[i] = h[i]
  <2>1. AsText(s) = [i \in 1 .. n |-> IF s[i] = "nl" THEN "nul" ELSE s[i]]
    BY <1>6 DEF AsText
  <2>2. AsText(s) \in Seq(Stored) /\ Len(AsText(s)) = n
    BY <1>6, AsTextIs
  <2>3. QED BY <1>7, <2>1, <2>2
<1>9. AsText(s) = h
  <2> DEFINE a == AsText(s)
  <2>1. a \in Seq(Stored) /\ Len(a) = n /\ \A i \in 1 .. n : a[i] = h[i]
    BY <1>8
  <2> HIDE DEF a
  <2>2. a = h
    BY <1>1, <2>1
  <2>3. QED BY <2>2 DEF a
<1>10. QED BY <1>6, <1>9 DEF s, h

\* The file after savehist.
LEMMA SavesKeeps ==
  ASSUME NEW r \in Ring, NEW l \in Seq(Line), KeptOf(Held(r), Encoded(l)),
         file \in Seq(FileChars), kept \in Seq(Line), KeptOf(AsText(file), Encoded(kept)),
         Saves(r, l)
  PROVE  /\ file' \in Seq(FileChars) /\ kept' \in Seq(Line) /\ missed' \in BOOLEAN
         /\ KeptOf(AsText(file'), Encoded(kept'))
<1>1. CASE file' = Content(r) /\ kept' = l /\ missed' = FALSE
  <2>1. file' \in Seq(FileChars) /\ AsText(file') = Held(r)
    BY <1>1, ContentIs
  <2>2. KeptOf(AsText(file'), Encoded(kept'))
    BY <1>1, <2>1
  <2>3. QED BY <1>1, <2>1, <2>2
<1>2. CASE missed' = TRUE /\ UNCHANGED <<file, kept>>
  BY <1>2
<1>3. QED BY <1>1, <1>2 DEF Saves

\* A restart that reads the file: the ring is what the file holds.
LEMMA BootsKeeps ==
  ASSUME file' \in Seq(FileChars), kept' \in Seq(Line), missed' \in BOOLEAN,
         KeptOf(AsText(file'), Encoded(kept')), FreshLine(<< >>),
         ring' = Restored(file'), lines' = kept', saved' = Len(kept')
  PROVE  IInv'
<1> DEFINE l == kept'
           n == Len(l)
           u == AsText(file')
<1>1. l \in Seq(Line) /\ Len(l) = n /\ n \in Nat
  OBVIOUS
<1>2. SubSeq(l, n + 1, n) = << >>
  BY <1>1
<1>3. KeptOf(u, Encoded(l))
  OBVIOUS
<1>4. u \in Seq(Stored)
  BY AsTextIs
<1>5. ring' = Restored(file') /\ cmd' = << >> /\ hp' = -1 /\ hi' = 0 /\ lines' = l /\ kept' = l /\ saved' = n
  BY DEF FreshLine
<1> HIDE DEF l, u, n
<1>6. Broken(Encoded(l)) /\ Boundary(Encoded(l), Len(Encoded(l))) /\ Encoded(l) \in Seq(Stored)
  BY <1>1, EncodedBroken, EncodedType
<1>7. Broken(u) /\ Boundary(u, Len(u))
  BY <1>3, <1>4, <1>6, KeptBroken
<1>8. Len(u) < HSTSIZE
  BY <1>3 DEF KeptOf
<1>9. Restored(file') \in Ring /\ Held(Restored(file')) = u
  BY <1>7, <1>8, RestoredIs DEF u
<1>10. TypeOK'
  <2>1. n \in 0 .. Len(l)
    BY <1>1
  <2>2. QED BY <1>1, <1>5, <1>9, <2>1, EmptyLine DEF TypeOK, FileChars
<1>11. KeptOf(Held(ring'), Encoded(lines'))
  BY <1>3, <1>5, <1>9
<1>12. KeptOf(AsText(file'), Encoded(kept'))
  BY <1>3, <1>5 DEF u
<1>13. Len(Encoded(SubSeq(lines', saved' + 1, Len(lines')))) <= ring'.histb
  <2>1. SubSeq(lines', saved' + 1, Len(lines')) = << >>
    BY <1>1, <1>2, <1>5
  <2>2. Len(Encoded(<< >>)) = 0
    BY EncodedNone
  <2>3. ring'.histb \in Nat
    BY <1>5, <1>9 DEF Ring, Cell
  <2>4. Len(Encoded(SubSeq(lines', saved' + 1, Len(lines')))) = 0
    BY ONLY <2>1, <2>2
  <2>5. \A x \in Nat : 0 <= x
    OBVIOUS
  <2>6. QED BY ONLY <2>3, <2>4, <2>5
<1>14. ~(hp' >= 0)
  BY <1>5
<1>15. QED BY <1>10, <1>11, <1>12, <1>13, <1>14 DEF IInv
\* A restart that cannot open the file.
LEMMA StartsEmpty ==
  ASSUME file' \in Seq(FileChars), kept' \in Seq(Line), missed' \in BOOLEAN,
         KeptOf(AsText(file'), Encoded(kept')), FreshLine(<< >>),
         ring' = NoLines, lines' = << >>, saved' = 0
  PROVE  IInv'
<1>1. NoLines \in Ring /\ KeptOf(Held(NoLines), << >>)
  BY NoneReadType
<1>2. lines' \in Seq(Line) /\ Len(lines') = 0 /\ SubSeq(lines', saved' + 1, Len(lines')) = << >>
  OBVIOUS
<1>3. Encoded(<< >>) = << >> /\ Len(Encoded(<< >>)) = 0
  BY EncodedNone
<1>4. cmd' \in Line /\ hp' = -1 /\ hi' = 0
  BY EmptyLine DEF FreshLine
<1>5. saved' \in 0 .. Len(lines')
  BY <1>2
<1>6. TypeOK'
  BY <1>1, <1>2, <1>4, <1>5 DEF TypeOK, FileChars
<1>7. KeptOf(Held(ring'), Encoded(lines'))
  BY <1>1, <1>3
<1>8. Len(Encoded(SubSeq(lines', saved' + 1, Len(lines')))) = 0
  BY ONLY <1>2, <1>3
<1>9. ring'.histb \in Nat
  BY <1>1 DEF Ring, Cell
<1>10. Len(Encoded(SubSeq(lines', saved' + 1, Len(lines')))) <= ring'.histb
  BY ONLY <1>8, <1>9
<1>11. ~(hp' >= 0)
  BY <1>4
<1>12. QED BY <1>6, <1>7, <1>10, <1>11 DEF IInv

\* A restart, after what was saved or not.
LEMMA StartKeeps ==
  ASSUME file' \in Seq(FileChars), kept' \in Seq(Line), missed' \in BOOLEAN,
         KeptOf(AsText(file'), Encoded(kept')), Boots(file', kept')
  PROVE  IInv'
<1>1. FreshLine(<< >>)
  BY DEF Boots
<1>2. CASE ring' = Restored(file') /\ lines' = kept' /\ saved' = Len(kept')
  BY <1>1, <1>2, BootsKeeps
<1>3. CASE ring' = NoLines /\ lines' = << >> /\ saved' = 0
  BY <1>1, <1>3, StartsEmpty
<1>4. QED BY <1>2, <1>3 DEF Boots
-----------------------------------------------------------------------------
(* Each step keeps the invariant. *)

LEMMA EndOfMore ==
  ASSUME NEW X, NEW s \in Seq(X), NEW e \in X, NEW k \in 0 .. Len(s)
  PROVE  SubSeq(Append(s, e), k + 1, Len(s) + 1) = Append(SubSeq(s, k + 1, Len(s)), e)
<1> DEFINE n == Len(s)
           a == Append(s, e)
           b == SubSeq(s, k + 1, n)
           u == SubSeq(a, k + 1, n + 1)
           v == Append(b, e)
<1>1. n \in Nat /\ k \in Nat /\ k <= n
  OBVIOUS
<1>2. a \in Seq(X) /\ Len(a) = n + 1 /\ a[n + 1] = e /\ \A i \in 1 .. n : a[i] = s[i]
  OBVIOUS
<1>3. b \in Seq(X) /\ Len(b) = n - k /\ \A i \in 1 .. n - k : b[i] = s[k + i]
  OBVIOUS
<1> HIDE DEF n, a, b
<1>4. u \in Seq(X) /\ Len(u) = n + 1 - k /\ \A i \in 1 .. n + 1 - k : u[i] = a[k + i]
  BY <1>1, <1>2
<1>5. v \in Seq(X) /\ Len(v) = n - k + 1 /\ v[n - k + 1] = e /\ \A i \in 1 .. n - k : v[i] = b[i]
  BY <1>1, <1>3
<1> HIDE DEF u, v
<1>6. \A i \in 1 .. n + 1 - k : u[i] = v[i]
  <2> TAKE i \in 1 .. n + 1 - k
  <2>1. CASE i = n - k + 1
    BY <1>1, <1>2, <1>4, <1>5, <2>1
  <2>2. CASE i # n - k + 1
    <3>1. i \in 1 .. n - k /\ k + i \in 1 .. n
      BY <1>1, <2>2
    <3>2. QED BY <1>2, <1>3, <1>4, <1>5, <3>1
  <2>3. QED BY <2>1, <2>2
<1>7. u = v
  BY <1>1, <1>4, <1>5, <1>6
<1>8. QED BY <1>7 DEF u, v, a, b, n

LEMMA RememberKeeps ==
  ASSUME IInv, NEW line \in Line, Remember(line), FreshLine(<< >>)
  PROVE  IInv'
<1> DEFINE r == AddLine(ring, line)
           l == Append(lines, line)
           N == Len(lines)
           T == Encoded(lines)
           x == Code(line)
<1>1. /\ ring \in Ring /\ lines \in Seq(Line) /\ file \in Seq(FileChars) /\ saved \in 0 .. N /\ kept \in Seq(Line)
      /\ missed \in BOOLEAN /\ N \in Nat /\ KeptOf(Held(ring), T) /\ KeptOf(AsText(file), Encoded(kept))
  BY DEF IInv, TypeOK, FileChars
<1>2. T \in Seq(Stored) /\ Broken(T) /\ Boundary(T, Len(T))
  BY <1>1, EncodedType, EncodedBroken
<1>3. r \in Ring /\ KeptOf(Held(r), T \o x) /\ r.histb = Round(ring.histb, Len(line) + 1)
  BY <1>1, <1>2, AddLineKeeps DEF Code
<1>4. l \in Seq(Line) /\ Len(l) = N + 1 /\ Encoded(l) = T \o x
  BY <1>1, EncodedMore
<1>5. Len(l) \in Nat /\ saved \in 0 .. Len(l) /\ Len(l) \in 0 .. Len(l)
  BY <1>1, <1>4
<1>6. ring' = r /\ lines' = l /\ cmd' = << >> /\ hp' = -1 /\ hi' = 0
  BY DEF Remember, FreshLine
<1>7. IF r.histb < ring.histb THEN Saves(r, l) /\ saved' = IF missed' THEN saved ELSE Len(l)
      ELSE UNCHANGED <<file, saved, kept, missed>>
  BY DEF Remember
<1> HIDE DEF r, l
<1>8. KeptOf(Held(r), Encoded(l))
  BY <1>3, <1>4
<1>9. /\ file' \in Seq(FileChars) /\ saved' \in 0 .. Len(l) /\ kept' \in Seq(Line) /\ missed' \in BOOLEAN
      /\ KeptOf(AsText(file'), Encoded(kept'))
  <2>1. CASE r.histb < ring.histb
    <3>1. Saves(r, l) /\ saved' = IF missed' THEN saved ELSE Len(l)
      BY <1>7, <2>1
    <3>2. saved' \in 0 .. Len(l)
      BY <1>5, <3>1
    <3>3. QED BY <1>1, <1>3, <1>4, <1>8, <3>1, <3>2, SavesKeeps
  <2>2. CASE ~(r.histb < ring.histb)
    BY <1>1, <1>5, <1>7, <2>2
  <2>3. QED BY <2>1, <2>2
<1>10. ~missed' => Len(Encoded(SubSeq(l, saved' + 1, Len(l)))) <= r.histb
  <2> SUFFICES ASSUME ~missed' PROVE Len(Encoded(SubSeq(l, saved' + 1, Len(l)))) <= r.histb
    OBVIOUS
  <2>1. r.histb \in Cell /\ ring.histb \in Cell
    BY <1>1, <1>3 DEF Ring
  <2>2. CASE r.histb < ring.histb
    <3>1. saved' = Len(l)
      BY <1>7, <2>2
    <3>2. SubSeq(l, Len(l) + 1, Len(l)) = << >>
      BY <1>4
    <3>3. Len(Encoded(SubSeq(l, saved' + 1, Len(l)))) = 0
      <4>1. Len(<< >>) = 0
        OBVIOUS
      <4>2. QED BY ONLY <3>1, <3>2, <4>1, EncodedNone
    <3>4. QED BY ONLY <2>1, <3>3 DEF Cell
  <2>3. CASE ~(r.histb < ring.histb)
    <3> DEFINE s == SubSeq(lines, saved + 1, N)
    <3>1. saved' = saved /\ missed' = missed
      BY <1>7, <2>3
    <3>2. s \in Seq(Line)
      BY <1>1, TwoParts
    <3>3. SubSeq(l, saved + 1, N + 1) = Append(s, line)
      BY <1>1, EndOfMore DEF l
    <3>4. Len(Encoded(s)) <= ring.histb
      BY <3>1 DEF IInv
    <3> HIDE DEF s
    <3>5. Encoded(SubSeq(l, saved' + 1, Len(l))) = Encoded(s) \o x
      BY <1>4, <3>1, <3>2, <3>3, EncodedMore
    <3>6. Len(Encoded(s) \o x) = Len(Encoded(s)) + (Len(line) + 1) /\ Len(Encoded(s)) \in Nat
      BY <3>2, EncodedType, CodeFacts, CatFacts DEF Code
    <3>7. Len(line) + 1 \in Cell /\ Len(line) \in Nat
      <4>1. Len(Append(line, "nul")) = Len(line) + 1 /\ Len(Append(line, "nul")) \in Cell
        BY CodeFacts
      <4>2. QED BY <4>1, LineFacts
    <3>8. r.histb = ring.histb + (Len(line) + 1)
      <4> DEFINE b == ring.histb
                 d == Len(line) + 1
      <4>1. b \in Cell /\ d \in Cell /\ r.histb = Round(b, d) /\ ~(r.histb < b)
        BY <1>3, <2>1, <2>3, <3>7
      <4> HIDE DEF b, d
      <4>2. r.histb = b + d
        BY <4>1, SizeFacts DEF Round, Cell
      <4>3. QED BY <4>2 DEF b, d
    <3> DEFINE e == Len(Encoded(s))
               b == ring.histb
               d == Len(line) + 1
    <3>9. e \in Nat /\ b \in Int /\ d \in Nat /\ e <= b
      BY <2>1, <3>4, <3>6, <3>7, SizeFacts DEF Cell
    <3>10. e + d <= b + d
      <4> HIDE DEF e, b, d
      <4>1. QED BY <3>9
    <3>11. QED BY ONLY <3>5, <3>6, <3>8, <3>10
  <2>4. QED BY <2>2, <2>3
<1>11. TypeOK'
  BY <1>3, <1>4, <1>6, <1>9, EmptyLine DEF TypeOK, FileChars
<1>12. ~(hp' >= 0)
  BY <1>6
<1>13. QED BY <1>3, <1>4, <1>6, <1>9, <1>10, <1>11, <1>12 DEF IInv

\* A step that only edits the line.
LEMMA EditKeeps ==
  ASSUME IInv, cmd' \in Line, hp' = -1, hi' = 0, UNCHANGED <<ring, file, lines, saved, kept, missed>>
  PROVE  IInv'
<1>1. TypeOK'
  BY DEF IInv, TypeOK
<1>2. ~(hp' >= 0)
  OBVIOUS
<1>3. QED BY <1>1, <1>2 DEF IInv

LEMMA RecallKeeps ==
  ASSUME IInv, NEW step \in {-1, 1}, Recall(step)
  PROVE  IInv'
<1>1. ring \in Ring /\ lines \in Seq(Line) /\ cmd \in Line /\ hi \in Int /\ KeptOf(Held(ring), Encoded(lines))
  BY DEF IInv, TypeOK
<1>2. FindHist(ring, cmd, hi) >= 0 /\ hp' = FindHist(ring, cmd, hi) /\ hi' = hi + step
      /\ UNCHANGED <<ring, cmd, file, lines, saved, kept, missed>>
  BY DEF Recall
<1>3. hp' \in Cell /\ LineAt(ring, hp') \in Line
  BY <1>1, <1>2, FoundLine
<1>4. TypeOK'
  BY <1>1, <1>2, <1>3 DEF IInv, TypeOK
<1>5. QED BY <1>2, <1>3, <1>4 DEF IInv

LEMMA PromptKeeps ==
  ASSUME IInv, Prompt
  PROVE  IInv'
<1>1. /\ file \in Seq(FileChars) /\ kept \in Seq(Line) /\ missed \in BOOLEAN /\ KeptOf(AsText(file), Encoded(kept))
  BY DEF IInv, TypeOK, FileChars
<1>2. CASE Boots(file, kept) /\ UNCHANGED <<file, kept, missed>>
  <2>1. Boots(file', kept')
    BY <1>2
  <2>2. QED BY <1>1, <1>2, <2>1, StartKeeps
<1>3. CASE FreshLine(<< >>) /\ UNCHANGED <<ring, file, lines, saved, kept, missed>>
  <2>1. cmd' = << >> /\ hp' = -1 /\ hi' = 0
    BY <1>3 DEF FreshLine
  <2>2. QED BY <1>3, <2>1, EmptyLine, EditKeeps
<1>4. QED BY <1>2, <1>3 DEF Prompt

LEMMA InitIInv == Init => IInv
<1> SUFFICES ASSUME Init PROVE IInv
  OBVIOUS
<1>1. NoLines \in Ring /\ KeptOf(Held(NoLines), << >>) /\ Held(NoLines) = << >>
  BY NoneReadType
<1>2. lines = << >> /\ saved = 0 /\ kept = << >> /\ file = << >> /\ ring = NoLines /\ hp = -1 /\ hi = 0 /\ cmd = << >> /\ missed = FALSE
  BY DEF Init
<1>3. TypeOK
  <2>1. file \in Seq(Char \cup {"nl"}) /\ lines \in Seq(Line) /\ kept \in Seq(Line) /\ Len(lines) = 0
    BY <1>2
  <2>2. saved \in 0 .. Len(lines)
    BY <1>2, <2>1
  <2>3. hp \in Cell \cup {-1} /\ hi \in Int
    BY <1>2
  <2>4. cmd \in Line /\ missed \in BOOLEAN
    BY <1>2, EmptyLine, Zenon
  <2>5. QED BY <1>1, <1>2, <2>1, <2>2, <2>3, <2>4 DEF TypeOK
<1>4. SubSeq(lines, saved + 1, Len(lines)) = << >>
  BY <1>2
<1>5. AsText(file) = << >>
  BY <1>2 DEF AsText
<1>6. Len(Encoded(<< >>)) = 0
  BY EncodedNone
<1>7. ring.histb \in Nat
  BY <1>1, <1>2 DEF Ring, Cell
<1>8. Len(Encoded(SubSeq(lines, saved + 1, Len(lines)))) <= ring.histb
  <2>1. Len(Encoded(SubSeq(lines, saved + 1, Len(lines)))) = 0
    BY ONLY <1>4, <1>6
  <2>2. QED BY ONLY <1>7, <2>1
<1>9. KeptOf(AsText(file), Encoded(kept))
  BY <1>1, <1>2, <1>5, EncodedNone
<1>10. QED BY <1>1, <1>2, <1>3, <1>8, <1>9, EncodedNone DEF IInv

LEMMA NextIInv == IInv /\ [Next]_vars => IInv'
<1> SUFFICES ASSUME IInv, [Next]_vars PROVE IInv'
  OBVIOUS
<1>1. Edited \in Line /\ Len(Edited) \in Nat
  BY EditedType
<1>2. /\ lines \in Seq(Line) /\ ring \in Ring /\ file \in Seq(FileChars) /\ saved \in 0 .. Len(lines)
      /\ kept \in Seq(Line) /\ missed \in BOOLEAN /\ KeptOf(Held(ring), Encoded(lines)) /\ KeptOf(AsText(file), Encoded(kept))
  BY DEF IInv, TypeOK, FileChars
<1>3. CASE Type
  <2>1. PICK c \in Char, i \in 0 .. Len(Edited) :
          IF Len(InsertAt(Edited, i + 1, c)) >= CMDFULL THEN Prompt
          ELSE FreshLine(InsertAt(Edited, i + 1, c)) /\ UNCHANGED <<ring, file, lines, saved, kept, missed>>
    BY <1>3 DEF Type
  <2> DEFINE s == InsertAt(Edited, i + 1, c)
  <2>2. s \in Seq(Char) /\ Len(s) \in Nat
    BY <1>1, TypedLine
  <2>3. IF Len(s) >= CMDFULL THEN Prompt
        ELSE FreshLine(s) /\ UNCHANGED <<ring, file, lines, saved, kept, missed>>
    BY <2>1
  <2> HIDE DEF s
  <2>4. CASE Len(s) >= CMDFULL
    BY <2>3, <2>4, PromptKeeps
  <2>5. CASE ~(Len(s) >= CMDFULL)
    <3>1. cmd' = s /\ hp' = -1 /\ hi' = 0 /\ UNCHANGED <<ring, file, lines, saved, kept, missed>>
      BY <2>3, <2>5 DEF FreshLine
    <3>2. Len(s) < CMDFULL
      BY <2>2, <2>5, SizeFacts
    <3>3. cmd' \in Line
      BY <2>2, <3>1, <3>2, LineIs
    <3>4. QED BY <3>1, <3>3, EditKeeps
  <2>6. QED BY <2>4, <2>5
<1>4. CASE Erase
  <2>1. UNCHANGED <<ring, file, lines, saved, kept, missed>>
    BY <1>4 DEF Erase
  <2>2. cmd' \in Line /\ hp' = -1 /\ hi' = 0
    <3>1. CASE \E i \in DOMAIN Edited : FreshLine(RemoveAt(Edited, i))
      BY <1>1, <3>1, RemovedLine DEF FreshLine
    <3>2. CASE \E i \in 0 .. Len(Edited) :
                 FreshLine(SubSeq(Edited, 1, i)) \/ FreshLine(SubSeq(Edited, i + 1, Len(Edited)))
      BY <1>1, <3>2, PartLine DEF FreshLine
    <3>3. QED BY <1>4, <3>1, <3>2 DEF Erase
  <2>3. QED BY <2>1, <2>2, EditKeeps
<1>5. CASE Up
  BY <1>5, RecallKeeps DEF Up
<1>6. CASE Down
  BY <1>6, RecallKeeps DEF Down
<1>7. CASE Enter
  <2>1. CASE Edited = << >> /\ Prompt
    BY <2>1, PromptKeeps
  <2>2. CASE Edited # << >> /\ FreshLine(<< >>) /\ Remember(Edited)
    BY <1>1, <2>2, RememberKeeps
  <2>3. QED BY <1>7, <2>1, <2>2 DEF Enter
<1>8. CASE Leave
  <2>1. Saves(ring, lines) /\ Boots(file', kept')
    BY <1>8 DEF Leave
  <2>2. file' \in Seq(FileChars) /\ kept' \in Seq(Line) /\ missed' \in BOOLEAN /\ KeptOf(AsText(file'), Encoded(kept'))
    BY <1>2, <2>1, SavesKeeps
  <2>3. QED BY <2>1, <2>2, StartKeeps
<1>9. CASE PowerOff
  <2>1. Boots(file, kept) /\ UNCHANGED <<file, kept, missed>>
    BY <1>9 DEF PowerOff
  <2>2. Boots(file', kept')
    BY <2>1
  <2>3. QED BY <1>2, <2>1, <2>2, StartKeeps
<1>10. CASE UNCHANGED vars
  BY <1>10 DEF vars, IInv, TypeOK
<1>11. QED BY <1>3, <1>4, <1>5, <1>6, <1>7, <1>8, <1>9, <1>10 DEF Next
-----------------------------------------------------------------------------
(* What the ring and the file hold. *)

\* The lines after the first m are the newest.
LEMMA NewestIs ==
  ASSUME NEW s \in Seq(Line), NEW m \in 0 .. Len(s)
  PROVE  /\ Len(s) - m \in 0 .. Len(s)
         /\ Newest(s, Len(s) - m) = SubSeq(s, m + 1, Len(s))
         /\ m > 0 => Newest(s, Len(s) - m + 1) = SubSeq(s, m, Len(s))
         /\ Len(SubSeq(s, m + 1, Len(s))) = Len(s) - m
         /\ \A j \in 1 .. Len(s) - m : SubSeq(s, m + 1, Len(s))[j] = s[m + j]
<1> DEFINE n == Len(s)
<1>1. n \in Nat /\ m \in 0 .. n
  OBVIOUS
<1>2. Len(SubSeq(s, m + 1, n)) = n - m /\ \A j \in 1 .. n - m : SubSeq(s, m + 1, n)[j] = s[m + j]
  OBVIOUS
<1> HIDE DEF n
<1>3. n - m \in 0 .. n /\ n - (n - m) + 1 = m + 1 /\ n - (n - m + 1) + 1 = m
  BY <1>1
<1>4. Newest(s, n - m) = SubSeq(s, m + 1, n) /\ Newest(s, n - m + 1) = SubSeq(s, m, n)
  BY <1>3 DEF Newest, n
<1>5. QED BY <1>2, <1>3, <1>4 DEF n

LEMMA RingIs == IInv => RingHoldsNewest
<1> SUFFICES ASSUME IInv PROVE RingHoldsNewest
  OBVIOUS
<1>1. lines \in Seq(Line) /\ ring \in Ring /\ KeptOf(Held(ring), Encoded(lines)) /\ Len(lines) \in Nat
  BY DEF IInv, TypeOK
<1>2. Held(ring) \in Seq(Stored)
  BY <1>1, HeldIs
<1>3. PICK m \in 0 .. Len(lines) : /\ Held(ring) = Encoded(SubSeq(lines, m + 1, Len(lines)))
                                   /\ m > 0 => Len(Encoded(SubSeq(lines, m, Len(lines)))) >= HSTSIZE
  BY <1>1, <1>2, KeptLines
<1> DEFINE n == Len(lines) - m
<1>4. /\ n \in 0 .. Len(lines) /\ Newest(lines, n) = SubSeq(lines, m + 1, Len(lines))
      /\ m > 0 => Newest(lines, n + 1) = SubSeq(lines, m, Len(lines))
  BY <1>1, NewestIs
<1>5. n < Len(lines) => m > 0
  BY <1>1
<1> HIDE DEF n
<1>6. Held(ring) = Encoded(Newest(lines, n))
  BY <1>3, <1>4
<1>7. n < Len(lines) => Len(Encoded(Newest(lines, n + 1))) >= HSTSIZE
  BY <1>3, <1>4, <1>5
<1>8. QED BY <1>4, <1>6, <1>7 DEF RingHoldsNewest

LEMMA LossIs == IInv => LossIsBounded
<1> SUFFICES ASSUME IInv, ~missed PROVE Len(Encoded(SubSeq(lines, saved + 1, Len(lines)))) < HSTSIZE
  BY DEF LossIsBounded
<1> DEFINE s == SubSeq(lines, saved + 1, Len(lines))
<1>1. ring.histb \in Cell /\ lines \in Seq(Line) /\ saved \in 0 .. Len(lines)
  BY DEF IInv, TypeOK, Ring
<1>2. Len(Encoded(s)) <= ring.histb
  BY DEF IInv
<1>3. s \in Seq(Line)
  BY <1>1, TwoParts
<1> HIDE DEF s
<1>4. Len(Encoded(s)) \in Nat
  BY <1>3, EncodedType
<1>5. Len(Encoded(s)) < HSTSIZE
  BY <1>1, <1>2, <1>4, SizeFacts DEF Cell
<1>6. QED BY <1>5 DEF s

LEMMA RecallIs == IInv => RecallFindsAll
<1> SUFFICES ASSUME IInv PROVE RecallFindsAll
  OBVIOUS
<1>1. lines \in Seq(Line) /\ ring \in Ring /\ KeptOf(Held(ring), Encoded(lines)) /\ Len(lines) \in Nat
  BY DEF IInv, TypeOK
<1>2. PICK m \in 0 .. Len(lines) : Holds(ring, lines, m)
  BY <1>1, HoldsSome
<1> DEFINE held == Newest(lines, Cardinality(Starts(ring)))
           n == Len(lines) - m
<1>3. Cardinality(Starts(ring)) = n
  BY <1>2, PlacesFacts
<1>4. n \in Nat /\ Len(held) = n /\ \A j \in 1 .. n : held[j] = lines[m + j]
  <2>1. held = SubSeq(lines, m + 1, Len(lines))
    BY <1>1, <1>3, NewestIs
  <2>2. n \in Nat
    BY <1>1
  <2>3. Len(SubSeq(lines, m + 1, Len(lines))) = n /\ \A j \in 1 .. n : SubSeq(lines, m + 1, Len(lines))[j] = lines[m + j]
    BY <1>1, NewestIs
  <2> HIDE DEF held, n
  <2>4. QED BY <2>1, <2>2, <2>3
<1>5. DOMAIN held = 1 .. n
  <2>1. held \in Seq(Line)
    <3>1. held = SubSeq(lines, m + 1, Len(lines))
      BY <1>1, <1>3, NewestIs
    <3>2. SubSeq(lines, m + 1, Len(lines)) \in Seq(Line)
      BY <1>1, TwoParts
    <3>3. QED BY <3>1, <3>2
  <2> HIDE DEF held, n
  <2>2. QED BY <1>4, <2>1
<1> SUFFICES ASSUME NEW t \in Line, NEW c \in -MaxHi .. MaxHi
             PROVE  LET found == { k \in DOMAIN held : IsPrefix(t, held[k]) }
                        at == FindHist(ring, t, c)
                    IN IF found = {} THEN at = -1
                       ELSE at >= 0 /\ LineAt(ring, at) = held[Below(found, c % Cardinality(found))]
  BY DEF RecallFindsAll
<1>6. t \in Seq(Char)
  BY LineFacts
<1>7. c \in Int
  OBVIOUS
<1>8. Finds(ring, lines, m, t, c)
  BY <1>2, <1>6, <1>7, FoundIs
<1> DEFINE found == { k \in DOMAIN held : IsPrefix(t, held[k]) }
           same == { j \in 1 .. n : IsPrefix(t, lines[m + j]) }
           at == FindHist(ring, t, c)
<1>9. IF same = {} THEN at = -1
      ELSE Below(same, c % Cardinality(same)) \in same /\ at \in Cell /\ LineAt(ring, at) = lines[m + Below(same, c % Cardinality(same))]
  BY <1>8 DEF Finds
<1>10. found = same
  <2> HIDE DEF held, n
  <2>1. QED BY <1>4, <1>5
<1> DEFINE b == Below(same, c % Cardinality(same))
<1> HIDE DEF held, n, found, at
<1>11. CASE same = {}
  BY <1>9, <1>10, <1>11 DEF found, at
<1>12. CASE same # {}
  <2>1. b \in same /\ at \in Cell /\ LineAt(ring, at) = lines[m + b]
    BY <1>9, <1>12
  <2>2. b \in 1 .. n
    BY <2>1
  <2>3. at >= 0
    BY <2>1, SizeFacts DEF Cell
  <2>4. held[b] = lines[m + b]
    BY <1>4, <2>2
  <2>5. Below(found, c % Cardinality(found)) = b
    BY <1>10
  <2> HIDE DEF b
  <2>6. found # {} /\ at >= 0 /\ LineAt(ring, at) = held[Below(found, c % Cardinality(found))]
    BY <1>10, <1>12, <2>1, <2>3, <2>4, <2>5
  <2>7. QED BY <2>6 DEF found, at
<1>13. QED BY <1>11, <1>12
-----------------------------------------------------------------------------
LEMMA Correct == Spec => []IInv
<1>1. QED BY InitIInv, NextIInv, PTL DEF Spec

\* The ring of addhistw, the line, the file and the history always have their
\* types: the line edited is shorter than CMDFULL, also one that was recalled.
THEOREM TypeCorrect == Spec => []TypeOK
<1>1. IInv => TypeOK
  BY DEF IInv
<1>2. QED BY <1>1, Correct, PTL

\* Whatever is typed, recalled, saved and lost, the ring of addhist holds the
\* newest lines, whole and in order, and leaves out only what does not fit.
THEOREM RingCorrect == Spec => []RingHoldsNewest
BY RingIs, Correct, PTL

\* findhist visits every line with the typed beginning that the ring holds, in
\* the order of their age and each once before any comes again.
THEOREM RecallCorrect == Spec => []RecallFindsAll
BY RecallIs, Correct, PTL

\* As addhist saves the history each time the ring has been gone round, a power
\* loss takes less than a ring of it, unless saving failed.
THEOREM LossCorrect == Spec => []LossIsBounded
BY LossIs, Correct, PTL
=============================================================================
