---------------------------- MODULE XModemProofs ----------------------------
(***************************************************************************)
(* Proofs about XModem for every value of its constants.                   *)
(***************************************************************************)
EXTENDS XModem, FiniteSetTheorems, TLAPS

(* Sequences that only grow at the end, with elements of X, up to a limit. *)
Grown(new, old, cap, X) ==
  /\ Len(new) <= cap /\ Len(old) <= Len(new)
  /\ \A i \in 1 .. Len(old) : new[i] = old[i]
  /\ \A i \in Len(old) + 1 .. Len(new) : new[i] \in X

LEMMA TailFacts ==
  ASSUME NEW S, NEW s \in Seq(S), s # << >>
  PROVE  /\ Tail(s) \in Seq(S) /\ Len(Tail(s)) = Len(s) - 1 /\ Len(s) >= 1 /\ Len(s) \in Nat
         /\ \A i \in 1 .. Len(s) - 1 : Tail(s)[i] = s[i + 1]
         /\ Head(s) = s[1] /\ Head(s) \in S
  OBVIOUS

LEMMA PushGrows ==
  ASSUME NEW S, NEW ch \in Seq(S), NEW cap \in Nat, Len(ch) <= cap,
         NEW X \in SUBSET S, NEW t \in X
  PROVE  Push(ch, cap, t) \in Seq(S) /\ Grown(Push(ch, cap, t), ch, cap, X)
<1>1. CASE Len(ch) < cap
  <2>1. Push(ch, cap, t) = Append(ch, t)
    BY <1>1 DEF Push
  <2>2. Append(ch, t) \in Seq(S) /\ Len(Append(ch, t)) = Len(ch) + 1
        /\ Append(ch, t)[Len(ch) + 1] = t
    OBVIOUS
  <2>3. \A i \in 1 .. Len(ch) : Append(ch, t)[i] = ch[i]
    OBVIOUS
  <2>. QED  BY <1>1, <2>1, <2>2, <2>3 DEF Grown
<1>2. CASE ~(Len(ch) < cap)
  BY <1>2 DEF Push, Grown
<1>. QED  BY <1>1, <1>2

LEMMA PushManyGrows ==
  ASSUME NEW S, NEW ch \in Seq(S), NEW cap \in Nat, Len(ch) <= cap,
         NEW X \in SUBSET S, NEW t \in X, NEW n \in Nat
  PROVE  PushMany(ch, cap, t, n) \in Seq(S) /\ Grown(PushMany(ch, cap, t, n), ch, cap, X)
<1>. DEFINE k == IF Len(ch) + n <= cap THEN n ELSE cap - Len(ch)
            tail == [i \in 1 .. k |-> t]
<1>1. k \in Nat /\ Len(ch) + k <= cap
  OBVIOUS
<1>2. tail \in Seq(S) /\ Len(tail) = k
  BY <1>1
<1>3. PushMany(ch, cap, t, n) = ch \o tail
  BY DEF PushMany
<1>. HIDE DEF k
<1>4. ch \o tail \in Seq(S) /\ Len(ch \o tail) = Len(ch) + k
  BY <1>1, <1>2
<1>5. \A i \in 1 .. Len(ch) : (ch \o tail)[i] = ch[i]
  BY <1>1, <1>2
<1>6. \A i \in Len(ch) + 1 .. Len(ch) + k : (ch \o tail)[i] = t
  BY <1>1, <1>2
<1>. QED  BY <1>1, <1>3, <1>4, <1>5, <1>6 DEF Grown
-----------------------------------------------------------------------------
(* Counting the ACKs of a sequence of bytes. *)

LEMMA AcksType ==
  ASSUME NEW ch \in Seq(Byte)
  PROVE  AcksIn(ch) \in Nat /\ AcksIn(ch) <= Len(ch)
<1>. DEFINE A == {i \in 1 .. Len(ch) : ch[i] = "ACK"}
<1>1. IsFiniteSet(1 .. Len(ch)) /\ Cardinality(1 .. Len(ch)) = Len(ch)
  <2>1. 1 \in Int /\ Len(ch) \in Int /\ Len(ch) >= 0
    OBVIOUS
  <2>2. Cardinality(1 .. Len(ch)) = IF 1 > Len(ch) THEN 0 ELSE Len(ch) - 1 + 1
    BY <2>1, FS_Interval
  <2>3. IsFiniteSet(1 .. Len(ch))
    BY <2>1, FS_Interval
  <2>. QED  BY <2>1, <2>2, <2>3
<1>2. A \in SUBSET (1 .. Len(ch))
  OBVIOUS
<1>3. IsFiniteSet(A) /\ Cardinality(A) <= Cardinality(1 .. Len(ch))
  BY <1>1, <1>2, FS_Subset
<1>4. Cardinality(A) \in Nat
  BY <1>3, FS_CardinalityType
<1>. QED  BY <1>1, <1>3, <1>4 DEF AcksIn

LEMMA AcksAppend ==
  ASSUME NEW ch \in Seq(Byte), NEW b \in Byte
  PROVE  AcksIn(Append(ch, b)) = AcksIn(ch) + (IF b = "ACK" THEN 1 ELSE 0)
<1>. DEFINE A == {i \in 1 .. Len(ch) : ch[i] = "ACK"}
            B == {i \in 1 .. Len(Append(ch, b)) : Append(ch, b)[i] = "ACK"}
<1>1. IsFiniteSet(A) /\ Cardinality(A) \in Nat
  <2>1. IsFiniteSet(1 .. Len(ch))
    BY FS_Interval
  <2>2. A \in SUBSET (1 .. Len(ch))
    OBVIOUS
  <2>. QED  BY <2>1, <2>2, FS_Subset, FS_CardinalityType
<1>2. CASE b = "ACK"
  <2>1. B = A \cup {Len(ch) + 1}
    BY <1>2
  <2>2. Len(ch) + 1 \notin A
    OBVIOUS
  <2>3. Cardinality(B) = Cardinality(A) + 1
    BY <1>1, <2>1, <2>2, FS_AddElement
  <2>. QED  BY <1>2, <2>3 DEF AcksIn
<1>3. CASE b # "ACK"
  <2>1. B = A
    BY <1>3
  <2>2. AcksIn(Append(ch, b)) = AcksIn(ch)
    BY <2>1, Zenon DEF AcksIn
  <2>3. AcksIn(ch) \in Nat
    BY AcksType
  <2>. QED  BY <1>3, <2>2, <2>3
<1>. QED  BY <1>2, <1>3

LEMMA AcksTail ==
  ASSUME NEW ch \in Seq(Byte), ch # << >>
  PROVE  AcksIn(Tail(ch)) + (IF Head(ch) = "ACK" THEN 1 ELSE 0) = AcksIn(ch)
<1>. DEFINE A == {i \in 1 .. Len(ch) : ch[i] = "ACK"}
            R == A \ {1}
            T == {i \in 1 .. Len(Tail(ch)) : Tail(ch)[i] = "ACK"}
            f == [i \in T |-> i + 1]
<1>1. IsFiniteSet(A) /\ Cardinality(A) \in Nat
  <2>1. IsFiniteSet(1 .. Len(ch))
    BY FS_Interval
  <2>2. A \in SUBSET (1 .. Len(ch))
    OBVIOUS
  <2>. QED  BY <2>1, <2>2, FS_Subset, FS_CardinalityType
<1>2. IsFiniteSet(T) /\ Cardinality(T) \in Nat
  <2>1. IsFiniteSet(1 .. Len(Tail(ch)))
    BY FS_Interval
  <2>2. T \in SUBSET (1 .. Len(Tail(ch)))
    OBVIOUS
  <2>. QED  BY <2>1, <2>2, FS_Subset, FS_CardinalityType
<1>3. Len(Tail(ch)) = Len(ch) - 1 /\ \A i \in 1 .. Len(Tail(ch)) : Tail(ch)[i] = ch[i + 1]
  OBVIOUS
<1>4. f \in Bijection(T, R)
  <2>1. f \in [T -> R]
    BY <1>3
  <2>2. \A r \in R : \E i \in T : f[i] = r
    <3>. SUFFICES ASSUME NEW r \in R PROVE \E i \in T : f[i] = r
      OBVIOUS
    <3>1. r - 1 \in 1 .. Len(Tail(ch)) /\ Tail(ch)[r - 1] = ch[r]
      BY <1>3
    <3>2. r - 1 \in T /\ f[r - 1] = r
      BY <3>1
    <3>. QED  BY <3>2
  <2>3. \A a, b \in T : f[a] = f[b] => a = b
    OBVIOUS
  <2>. QED  BY <2>1, <2>2, <2>3 DEF Bijection, Injection, Surjection, IsInjective
<1>5. ExistsBijection(T, R)
  BY <1>4 DEF ExistsBijection
<1>6. IsFiniteSet(R) /\ Cardinality(R) = Cardinality(T)
  BY <1>2, <1>5, FS_Bijection
<1>7. Head(ch) = ch[1] /\ 1 \in 1 .. Len(ch)
  OBVIOUS
<1>8. CASE Head(ch) = "ACK"
  <2>1. A = R \cup {1} /\ 1 \notin R
    BY <1>7, <1>8
  <2>2. Cardinality(A) = Cardinality(R) + 1
    BY <1>6, <2>1, FS_AddElement
  <2>. QED  BY <1>6, <1>8, <2>2 DEF AcksIn
<1>9. CASE Head(ch) # "ACK"
  <2>1. A = R
    BY <1>7, <1>9
  <2>2. Cardinality(A) = Cardinality(T)
    <3>. HIDE DEF A, R, T
    <3>. QED  BY <1>6, <2>1
  <2>3. AcksIn(ch) = AcksIn(Tail(ch))
    <3>1. AcksIn(ch) = Cardinality(A) /\ AcksIn(Tail(ch)) = Cardinality(T)
      BY DEF AcksIn
    <3>. QED  BY <2>2, <3>1
  <2>. QED  BY <1>9, <2>3, AcksType
<1>. QED  BY <1>8, <1>9
-----------------------------------------------------------------------------
(* Packet numbers: the positions of blocks modulo P. *)

LEMMA ModIs ==
  ASSUME NEW P \in Nat \ {0}, NEW q \in Int, NEW r \in 0 .. P - 1
  PROVE  (P * q + r) % P = r
  OBVIOUS

LEMMA ModSplit ==
  ASSUME NEW x \in Nat, NEW P \in Nat \ {0}
  PROVE  \E q \in Int, r \in 0 .. P - 1 : x = P * q + r /\ x % P = r
<1>1. x = P * (x \div P) + (x % P)
  OBVIOUS
<1>2. x \div P \in Int
  OBVIOUS
<1>3. x % P \in 0 .. P - 1
  OBVIOUS
<1>. QED  BY <1>1, <1>2, <1>3

LEMMA ModRange ==
  ASSUME NEW x \in Nat, NEW P \in Nat \ {0}
  PROVE  x % P \in 0 .. P - 1
  OBVIOUS

LEMMA PModPositive == PMod \in Nat \ {0}
  BY NumbersSuffice, Sizes

LEMMA ModSucc ==
  ASSUME NEW x \in Nat, NEW P \in Nat \ {0}
  PROVE  ((x % P) + 1) % P = (x + 1) % P
<1>1. PICK q \in Int, r \in 0 .. P - 1 : x = P * q + r /\ x % P = r
  BY ModSplit
<1>2. CASE r + 1 = P
  <2>1. (P * (q + 1) + 0) % P = 0 /\ (P * 1 + 0) % P = 0
    BY ModIs
  <2>2. P * (q + 1) + 0 = x + 1 /\ P * 1 + 0 = P
    BY <1>1, <1>2
  <2>3. (x + 1) % P = 0 /\ P % P = 0
    BY <2>1, <2>2
  <2>. QED  BY <1>1, <1>2, <2>3
<1>3. CASE r + 1 < P
  <2>1. (P * q + (r + 1)) % P = r + 1 /\ (P * 0 + (r + 1)) % P = r + 1
    <3>1. r + 1 \in 0 .. P - 1
      BY <1>3
    <3>. QED BY <3>1, ModIs
  <2>2. P * q + (r + 1) = x + 1 /\ P * 0 + (r + 1) = r + 1
    BY <1>1
  <2>3. (x + 1) % P = r + 1 /\ (r + 1) % P = r + 1
    BY <2>1, <2>2
  <2>. QED  BY <1>1, <2>3
<1>. QED  BY <1>2, <1>3

\* Unless the numbers wrap there, the number before that of x + 1 is that of x.
LEMMA ModPred ==
  ASSUME NEW x \in Nat, NEW P \in Nat \ {0}, (x + 1) % P # 0
  PROVE  ((x + 1) % P) - 1 = x % P
<1>1. PICK q \in Int, r \in 0 .. P - 1 : x = P * q + r /\ x % P = r
  BY ModSplit
<1>2. CASE r + 1 = P
  <2>1. (P * (q + 1) + 0) % P = 0
    BY ModIs
  <2>2. P * (q + 1) + 0 = x + 1
    BY <1>1, <1>2
  <2>. QED  BY <2>1, <2>2
<1>3. CASE r + 1 < P
  <2>1. (P * q + (r + 1)) % P = r + 1
    <3>1. r + 1 \in 0 .. P - 1
      BY <1>3
    <3>. QED BY <3>1, ModIs
  <2>2. P * q + (r + 1) = x + 1
    BY <1>1
  <2>3. (x + 1) % P = r + 1
    BY <2>1, <2>2
  <2>. QED  BY <1>1, <2>3
<1>. QED  BY <1>2, <1>3

\* Two blocks with the same number that are less than P apart are the same block.
LEMMA ModUnique ==
  ASSUME NEW x \in Nat, NEW y \in Nat, NEW P \in Nat \ {0},
         x % P = y % P, x - y < P, y - x < P
  PROVE  x = y
<1>1. PICK q \in Int, r \in 0 .. P - 1 : x = P * q + r /\ x % P = r
  BY ModSplit
<1>2. PICK k \in Int, s \in 0 .. P - 1 : y = P * k + s /\ y % P = s
  BY ModSplit
<1>3. r = s /\ P * q - P * k < P /\ P * k - P * q < P
  <2>1. P * q \in Int /\ P * k \in Int
    OBVIOUS
  <2>. QED  BY <1>1, <1>2, <2>1
<1>4. CASE q >= k + 1
  <2>1. P * (q - k) >= P
    BY <1>4
  <2>. QED  BY <1>3, <2>1
<1>5. CASE k >= q + 1
  <2>1. P * (k - q) >= P
    BY <1>5
  <2>. QED  BY <1>3, <2>1
<1>6. CASE q = k
  <2>1. P * q = P * k
    BY <1>6
  <2>. QED  BY <1>1, <1>2, <1>3, <2>1
<1>. QED  BY <1>4, <1>5, <1>6
-----------------------------------------------------------------------------
(* What a step of the sender may do to the link and to its own counters. *)

Fresh(b, p) == {u \in Token : u.blk = b /\ u.pkt = p /\ (u.kind = "frame" => b <= NBlocks)}

TxWithin ==
  /\ tx.blk >= 1 /\ tx.blk <= NBlocks + 1
  /\ tx.pc \in {"wait", "waitCan"} => tx.blk <= NBlocks
  /\ tx.pc = "eot" \/ (tx.pc \in {"flush", "done"} /\ tx.res = "ok")
       => tx.blk = NBlocks + 1 \/ ReadErrors > 0

\* The channel after a send from block b, numbered p, and what is left of the faults.
Sent(b, p) ==
  /\ fwd' \in Seq(Token) /\ Grown(fwd', fwd, FwdCap, Fresh(b, p))
  /\ env' \in Budgets /\ env'.write = env.write /\ env'.read <= env.read

LEMMA SpentBudgets ==
  ASSUME NEW e \in Budgets, NEW b \in {"damage", "slow", "write", "read"}, e[b] > 0
  PROVE  /\ Spent(e, b) \in Budgets
         /\ b # "write" => Spent(e, b).write = e.write
         /\ b # "read" => Spent(e, b).read = e.read
         /\ b = "read" => Spent(e, b).read = e.read - 1
         /\ b = "write" => Spent(e, b).write = e.write - 1
  BY DEF Spent, Budgets

LEMMA NothingSent ==
  ASSUME TypeOK, UNCHANGED <<fwd, env>>, NEW b, NEW p
  PROVE  Sent(b, p)
  BY DEF TypeOK, Sent, Grown, Budgets

LEMMA ToReceiverSends ==
  ASSUME TypeOK, NEW t \in Token, NEW ways \in SUBSET Mangled, NEW e \in Budgets,
         e.write = env.write, e.read <= env.read,
         t.kind = "frame" => t.blk <= NBlocks,
         ToReceiver(t, ways, e)
  PROVE  Sent(t.blk, t.pkt)
<1>. DEFINE X == Fresh(t.blk, t.pkt)
<1>1. X \in SUBSET Token /\ t \in X
  BY DEF Fresh
<1>2. \A w \in ways : [t EXCEPT !.kind = w] \in X
  BY DEF Fresh, Token, Mangled
<1>3. FwdCap \in Nat /\ fwd \in Seq(Token) /\ Len(fwd) <= FwdCap
  BY Sizes DEF TypeOK
<1>4. CASE fwd' = Push(fwd, FwdCap, t) /\ env' = e
  BY <1>1, <1>3, <1>4, PushGrows DEF Sent
<1>5. CASE e.damage > 0 /\ env' = Spent(e, "damage")
  <2>1. env' \in Budgets /\ env'.write = env.write /\ env'.read <= env.read
    BY <1>5, SpentBudgets
  <2>2. CASE fwd' = fwd
    BY <1>3, <2>1, <2>2 DEF Sent, Grown
  <2>3. ASSUME NEW w \in ways, fwd' = Push(fwd, FwdCap, [t EXCEPT !.kind = w])
        PROVE  Sent(t.blk, t.pkt)
    BY <1>1, <1>2, <1>3, <2>1, <2>3, PushGrows DEF Sent
  <2>4. fwd' = fwd \/ \E w \in ways : fwd' = Push(fwd, FwdCap, [t EXCEPT !.kind = w])
    <3>1. e.damage > 0 /\ env' = Spent(e, "damage") =>
            env' # e
      BY DEF Spent, Budgets
    <3>. QED  BY <1>5, <3>1 DEF ToReceiver
  <2>. QED  BY <2>2, <2>3, <2>4
<1>. QED  BY <1>4, <1>5 DEF ToReceiver

LEMMA TokenOfSender ==
  ASSUME NEW t \in Sender, NEW k \in Whole \cup Mangled
  PROVE  TokenOf(t, k) \in Token /\ TokenOf(t, k).kind = k
         /\ TokenOf(t, k).blk = t.blk /\ TokenOf(t, k).pkt = t.pkt
  BY DEF TokenOf, Sender, Token

\* What every way of going on has in common.
Onward(t) == tx' \in Sender /\ tx'.blk = t.blk /\ tx'.pkt = t.pkt /\ TxWithin' /\ Sent(t.blk, t.pkt)

LEMMA SendFrameOn ==
  ASSUME TypeOK, NEW t \in Sender, 1 <= t.blk, t.blk <= NBlocks, SendFrame(t)
  PROVE  Onward(t)
<1>1. tx' = [t EXCEPT !.pc = "wait", !.timer = TxWait]
      /\ ToReceiver(TokenOf(t, "frame"), FrameFaults, env)
  BY DEF SendFrame
<1>2. tx' \in Sender /\ tx'.blk = t.blk /\ tx'.pkt = t.pkt /\ tx'.pc = "wait"
  BY <1>1, Sizes DEF Sender
<1>3. TxWithin'
  BY <1>2, Sizes DEF TxWithin, Sender
<1>4. Sent(t.blk, t.pkt)
  <2>1. FrameFaults \in SUBSET Mangled /\ env \in Budgets /\ "frame" \in Whole
    BY Sizes DEF Mangled, TypeOK, Whole
  <2>2. env.write = env.write /\ env.read <= env.read
    BY <2>1 DEF Budgets
  <2>. QED  BY <1>1, <2>1, <2>2, TokenOfSender, ToReceiverSends
<1>. QED  BY <1>2, <1>3, <1>4 DEF Onward

LEMMA SendEotOn ==
  ASSUME TypeOK, NEW t \in Sender, 1 <= t.blk, t.blk <= NBlocks + 1,
         t.blk = NBlocks + 1 \/ ReadErrors > 0,
         NEW e \in Budgets, e.write = env.write, e.read <= env.read, SendEot(t, e)
  PROVE  Onward(t)
<1>1. tx' = [t EXCEPT !.pc = "eot", !.timer = SyncWait]
      /\ ToReceiver(TokenOf(t, "eot"), {"junk"}, e)
  BY DEF SendEot
<1>2. tx' \in Sender /\ tx'.blk = t.blk /\ tx'.pkt = t.pkt /\ tx'.pc = "eot"
  BY <1>1 DEF Sender, SyncWait
<1>3. TxWithin'
  BY <1>2, Sizes DEF TxWithin, Sender
<1>4. Sent(t.blk, t.pkt)
  <2>1. {"junk"} \in SUBSET Mangled /\ "eot" \in Whole /\ "eot" # "frame"
    BY DEF Mangled, Whole
  <2>. QED  BY <1>1, <2>1, TokenOfSender, ToReceiverSends
<1>. QED  BY <1>2, <1>3, <1>4 DEF Onward

LEMMA CancelReceiverSends ==
  ASSUME TypeOK, NEW t \in Token, t.kind # "frame", CancelReceiver(t)
  PROVE  Sent(t.blk, t.pkt)
<1>. DEFINE X == Fresh(t.blk, t.pkt)
<1>1. X \in SUBSET Token /\ t \in X
  BY DEF Fresh
<1>2. PICK n \in 0 .. 3 :
        /\ fwd' = PushMany(fwd, FwdCap, t, n)
        /\ IF n = 3 THEN env' = env ELSE env.damage > 0 /\ env' = Spent(env, "damage")
  BY DEF CancelReceiver
<1>3. fwd' \in Seq(Token) /\ Grown(fwd', fwd, FwdCap, X)
  BY <1>1, <1>2, PushManyGrows, Sizes DEF TypeOK
<1>4. env \in Budgets /\ env.read <= env.read
  BY DEF TypeOK, Budgets
<1>5. env' \in Budgets /\ env'.write = env.write /\ env'.read <= env.read
  BY <1>2, <1>4, SpentBudgets
<1>. QED  BY <1>3, <1>5 DEF Sent

\* The sender keeps its place while it waits again, gives up or is cancelled.
Stays == tx' \in Sender /\ tx'.blk = tx.blk /\ tx'.pkt = tx.pkt /\ TxWithin'

LEMMA TxEndStays ==
  ASSUME TypeOK, TxWithin, NEW r \in TxResult, TxEnd(r),
         r = "ok" => tx.blk = NBlocks + 1 \/ ReadErrors > 0
  PROVE  Stays
  BY Sizes DEF TypeOK, TxWithin, TxEnd, Stays, Sender, FlushWait

LEMMA GiveUpOn ==
  ASSUME TypeOK, TxWithin, NEW r \in TxResult \ {"ok"}, GiveUp(r)
  PROVE  Onward(tx)
<1>1. TxEnd(r) /\ CancelReceiver(TokenOf(tx, "can"))
  BY DEF GiveUp
<1>2. Stays
  BY <1>1, TxEndStays
<1>3. Sent(tx.blk, tx.pkt)
  <2>1. tx \in Sender /\ "can" \in Whole /\ "can" # "frame"
    BY DEF TypeOK, Whole
  <2>. QED  BY <1>1, <2>1, TokenOfSender, CancelReceiverSends
<1>. QED  BY <1>2, <1>3 DEF Stays, Onward

LEMMA StartTransOn ==
  ASSUME TypeOK, env.read <= ReadErrors, NEW t \in Sender, 1 <= t.blk, t.blk <= NBlocks + 1,
         StartTrans(t)
  PROVE  Onward(t)
<1>. DEFINE t0 == [t EXCEPT !.retry = 0]
<1>1. t0 \in Sender /\ t0.blk = t.blk /\ t0.pkt = t.pkt
  BY DEF Sender
<1>2. CASE t.blk <= NBlocks /\ SendFrame(t0)
  <2>1. Onward(t0)
    BY <1>1, <1>2, SendFrameOn
  <2>. QED  BY <1>1, <2>1 DEF Onward
<1>3. ASSUME NEW e \in AtEnd(t.blk), SendEot(t0, e)
      PROVE  Onward(t)
  <2>1. /\ e \in Budgets /\ e.write = env.write /\ e.read <= env.read
        /\ t.blk = NBlocks + 1 \/ ReadErrors > 0
    <3>1. env \in Budgets /\ t.blk \in Nat
      BY DEF TypeOK, Sender
    <3>2. CASE t.blk > NBlocks
      BY <3>1, <3>2, Sizes, <1>3 DEF AtEnd, Budgets
    <3>3. CASE ~(t.blk > NBlocks)
      <4>1. env.read > 0 /\ e = Spent(env, "read")
        BY <3>3, <1>3 DEF AtEnd
      <4>2. e \in Budgets /\ e.write = env.write /\ e.read = env.read - 1
        BY <3>1, <4>1, SpentBudgets
      <4>. QED  BY <3>1, <4>1, <4>2, Sizes DEF Budgets
    <3>. QED  BY <3>2, <3>3
  <2>2. Onward(t0)
    BY <1>1, <1>3, <2>1, SendEotOn
  <2>. QED  BY <1>1, <2>2 DEF Onward
<1>. QED  BY <1>2, <1>3 DEF StartTrans

LEMMA RetriedSender ==
  ASSUME NEW t \in Sender
  PROVE  [t EXCEPT !.retry = @ + 1] \in Sender
         /\ [t EXCEPT !.retry = @ + 1].blk = t.blk /\ [t EXCEPT !.retry = @ + 1].pkt = t.pkt
<1>1. t.retry + 1 \in Nat
  BY DEF Sender
<1>2. [t EXCEPT !.retry = @ + 1] = [t EXCEPT !.retry = t.retry + 1]
  OBVIOUS
<1>3. ASSUME NEW n \in Nat
      PROVE  [t EXCEPT !.retry = n] \in Sender
             /\ [t EXCEPT !.retry = n].blk = t.blk /\ [t EXCEPT !.retry = n].pkt = t.pkt
  BY DEF Sender
<1>. QED  BY <1>1, <1>2, <1>3

LEMMA FrameRetryOn ==
  ASSUME TypeOK, TxWithin, tx.pc \in {"wait", "waitCan"}, FrameRetry
  PROVE  Onward(tx)
<1>. DEFINE t == [tx EXCEPT !.retry = @ + 1]
<1>1. t \in Sender /\ t.blk = tx.blk /\ t.pkt = tx.pkt
  BY RetriedSender DEF TypeOK
<1>2. CASE SendFrame(t)
  <2>1. Onward(t)
    BY <1>1, <1>2, SendFrameOn DEF TxWithin
  <2>. QED  BY <1>1, <2>1 DEF Onward
<1>3. CASE GiveUp("failed")
  BY <1>3, GiveUpOn DEF TxResult
<1>. QED  BY <1>2, <1>3 DEF FrameRetry

LEMMA SyncRetryOn ==
  ASSUME TypeOK, TxWithin, tx.pc \in {"sync", "syncCan"}, SyncRetry
  PROVE  Onward(tx)
<1>1. CASE /\ tx' = [tx EXCEPT !.pc = "sync", !.retry = @ + 1, !.timer = SyncWait]
           /\ UNCHANGED <<fwd, env>>
  <2>. DEFINE t == [tx EXCEPT !.retry = @ + 1]
  <2>1. t \in Sender /\ t.blk = tx.blk /\ t.pkt = tx.pkt
    BY RetriedSender DEF TypeOK
  <2>2. tx' = [t EXCEPT !.pc = "sync", !.timer = SyncWait]
    BY <1>1
  <2>3. Stays
    BY <2>1, <2>2 DEF Sender, SyncWait, TxWithin, Stays
  <2>. QED  BY <1>1, <2>3, NothingSent DEF Stays, Onward
<1>2. CASE GiveUp("nosync")
  BY <1>2, GiveUpOn DEF TxResult
<1>. QED  BY <1>1, <1>2 DEF SyncRetry

LEMMA EotRetryOn ==
  ASSUME TypeOK, TxWithin, tx.pc = "eot", EotRetry
  PROVE  Onward(tx)
<1>. DEFINE t == [tx EXCEPT !.retry = @ + 1]
<1>1. t \in Sender /\ t.blk = tx.blk /\ t.pkt = tx.pkt /\ env \in Budgets
  BY RetriedSender DEF TypeOK
<1>2. CASE SendEot(t, env)
  <2>1. env.read <= env.read
    BY <1>1 DEF Budgets
  <2>2. Onward(t)
    BY <1>1, <1>2, <2>1, SendEotOn DEF TxWithin
  <2>. QED  BY <1>1, <2>2 DEF Onward
<1>3. CASE TxEnd("noack") /\ UNCHANGED <<fwd, env>>
  <2>1. Stays
    BY <1>3, TxEndStays DEF TxResult
  <2>. QED  BY <1>3, <2>1, NothingSent DEF Stays, Onward
<1>. QED  BY <1>2, <1>3 DEF EotRetry

LEMMA TxCancelledOn ==
  ASSUME TypeOK, TxWithin, TxCancelled
  PROVE  Onward(tx)
<1>1. TxEnd("cancelled") /\ ToReceiver(TokenOf(tx, "junk"), {}, env)
  BY DEF TxCancelled
<1>2. Stays
  BY <1>1, TxEndStays DEF TxResult
<1>3. Sent(tx.blk, tx.pkt)
  <2>1. tx \in Sender /\ env \in Budgets /\ "junk" \in Mangled /\ "junk" # "frame" /\ {} \in SUBSET Mangled
    BY DEF TypeOK, Mangled
  <2>2. env.write = env.write /\ env.read <= env.read
    BY <2>1 DEF Budgets
  <2>. QED  BY <1>1, <2>1, <2>2, TokenOfSender, ToReceiverSends
<1>. QED  BY <1>2, <1>3 DEF Stays, Onward
-----------------------------------------------------------------------------
TxShape ==
  /\ tx' \in Sender /\ TxWithin' /\ UNCHANGED <<rx, stored, reacked>>
  /\ Sent(tx'.blk, tx'.pkt)
  /\ \/ /\ tx'.blk = tx.blk /\ tx'.pkt = tx.pkt
        /\ rev' = rev \/ (rev # << >> /\ rev' = Tail(rev))
     \/ /\ tx'.blk = tx.blk + 1 /\ tx'.pkt = (tx.pkt + 1) % PMod
        /\ rev # << >> /\ Head(rev) = "ACK" /\ rev' = Tail(rev)

LEMMA TxShapes ==
  ASSUME TypeOK, TxWithin, env.read <= ReadErrors, TxStart \/ TxStep
  PROVE  TxShape
<1>. USE DEF TxAlone
<1>1. CASE TxStart
  <2>1. Stays
    BY <1>1 DEF TxStart, TypeOK, TxWithin, Stays, Sender, SyncWait
  <2>. QED  BY <1>1, <2>1, NothingSent DEF TxStart, Stays, TxShape
<1>2. ASSUME Onward(tx), TxAlone, rev' = rev \/ (rev # << >> /\ rev' = Tail(rev))
      PROVE  TxShape
  BY <1>2 DEF Onward, TxShape
<1>3. ASSUME Stays, UNCHANGED <<fwd, env>>, TxAlone,
             rev' = rev \/ (rev # << >> /\ rev' = Tail(rev))
      PROVE  TxShape
  BY <1>3, NothingSent DEF Stays, TxShape
<1>4. CASE TxSyncByte
  <2>1. CASE StartTrans([tx EXCEPT !.crc = Head(rev) = "C"])
    <3>. DEFINE t == [tx EXCEPT !.crc = Head(rev) = "C"]
    <3>1. t \in Sender /\ t.blk = tx.blk /\ t.pkt = tx.pkt
      BY DEF TypeOK, Sender
    <3>2. Onward(t)
      BY <2>1, <3>1, StartTransOn DEF TxWithin
    <3>3. Onward(tx)
      BY <3>1, <3>2 DEF Onward
    <3>. QED  BY <1>2, <1>4, <3>3 DEF TxSyncByte
  <2>2. CASE tx' = [tx EXCEPT !.pc = "syncCan", !.timer = ByteWait] /\ UNCHANGED <<fwd, env>>
    <3>1. Stays
      BY <1>4, <2>2 DEF TxSyncByte, TypeOK, TxWithin, Stays, Sender, ByteWait
    <3>. QED  BY <1>3, <1>4, <2>2, <3>1 DEF TxSyncByte
  <2>3. CASE SyncRetry
    BY <1>2, <1>4, <2>3, SyncRetryOn DEF TxSyncByte
  <2>. QED  BY <1>4, <2>1, <2>2, <2>3 DEF TxSyncByte
<1>5. CASE TxAnswer
  <2>1. CASE Head(rev) = "ACK" /\ StartTrans([tx EXCEPT !.blk = @ + 1, !.pkt = (@ + 1) % PMod])
    <3>. DEFINE t == [tx EXCEPT !.blk = @ + 1, !.pkt = (@ + 1) % PMod]
    <3>1. t \in Sender /\ t.blk = tx.blk + 1 /\ t.pkt = (tx.pkt + 1) % PMod
      <4>1. tx \in Sender /\ tx.blk + 1 \in Nat /\ tx.pkt \in Nat
        BY DEF TypeOK, Sender
      <4>2. (tx.pkt + 1) % PMod \in 0 .. PMod - 1
        <5>1. tx.pkt + 1 \in Nat
          BY <4>1
        <5>. QED  BY <5>1, ModRange, PModPositive
      <4>3. t = [tx EXCEPT !.blk = tx.blk + 1, !.pkt = (tx.pkt + 1) % PMod]
        OBVIOUS
      <4>. QED  BY <4>1, <4>2, <4>3 DEF Sender
    <3>2. tx.blk <= NBlocks /\ tx.blk \in Nat
      BY <1>5 DEF TxAnswer, TxWithin, TypeOK, Sender
    <3>3. Onward(t)
      <4>1. 1 <= t.blk /\ t.blk <= NBlocks + 1
        BY <3>1, <3>2, Sizes
      <4>. HIDE DEF t
      <4>. QED  BY <2>1, <3>1, <4>1, StartTransOn DEF t
    <3>. QED  BY <1>5, <2>1, <3>1, <3>3 DEF TxAnswer, Onward, TxShape
  <2>2. CASE tx' = [tx EXCEPT !.pc = "waitCan", !.timer = ByteWait] /\ UNCHANGED <<fwd, env>>
    <3>1. Stays
      BY <1>5, <2>2 DEF TxAnswer, TypeOK, TxWithin, Stays, Sender, ByteWait
    <3>. QED  BY <1>3, <1>5, <2>2, <3>1 DEF TxAnswer
  <2>3. CASE FrameRetry
    BY <1>2, <1>5, <2>3, FrameRetryOn DEF TxAnswer
  <2>. QED  BY <1>5, <2>1, <2>2, <2>3 DEF TxAnswer
<1>6. CASE TxEotAnswer
  <2>1. CASE TxEnd("ok") /\ UNCHANGED <<fwd, env>>
    BY <1>3, <1>6, <2>1, TxEndStays DEF TxEotAnswer, TxWithin, TxResult
  <2>2. CASE EotRetry
    BY <1>2, <1>6, <2>2, EotRetryOn DEF TxEotAnswer
  <2>. QED  BY <1>6, <2>1, <2>2 DEF TxEotAnswer
<1>7. CASE TxCanByte
  <2>1. TxCancelled \/ (tx.pc = "syncCan" /\ SyncRetry) \/ (tx.pc = "waitCan" /\ FrameRetry)
    BY <1>7 DEF TxCanByte
  <2>2. Onward(tx)
    BY <2>1, TxCancelledOn, SyncRetryOn, FrameRetryOn
  <2>. QED  BY <1>2, <1>7, <2>2 DEF TxCanByte
<1>8. CASE TxTimeout
  <2>1. CASE tx.pc \in {"sync", "syncCan"} /\ SyncRetry
    BY <1>2, <1>8, <2>1, SyncRetryOn DEF TxTimeout
  <2>2. CASE tx.pc \in {"wait", "waitCan"} /\ FrameRetry
    BY <1>2, <1>8, <2>2, FrameRetryOn DEF TxTimeout
  <2>3. CASE tx.pc = "eot" /\ EotRetry
    BY <1>2, <1>8, <2>3, EotRetryOn DEF TxTimeout
  <2>4. CASE tx.pc = "flush" /\ tx' = [tx EXCEPT !.pc = "done"] /\ UNCHANGED <<fwd, env>>
    <3>1. Stays
      BY <2>4 DEF TypeOK, TxWithin, Stays, Sender
    <3>. QED  BY <1>3, <1>8, <2>4, <3>1 DEF TxTimeout
  <2>. QED  BY <1>8, <2>1, <2>2, <2>3, <2>4 DEF TxTimeout
<1>9. CASE TxFlushByte
  <2>1. Stays
    BY <1>9 DEF TxFlushByte, TypeOK, TxWithin, Stays, Sender, FlushWait
  <2>. QED  BY <1>3, <1>9, <2>1 DEF TxFlushByte
<1>. QED  BY <1>1, <1>4, <1>5, <1>6, <1>7, <1>8, <1>9 DEF TxStep
-----------------------------------------------------------------------------
(* What a step of the receiver may do. *)

\* Growing by other bytes leaves the number of ACKs as it is.
LEMMA GrownQuietly ==
  ASSUME NEW ch \in Seq(Byte), NEW new \in Seq(Byte), NEW cap \in Nat,
         Grown(new, ch, cap, Byte \ {"ACK"})
  PROVE  AcksIn(new) = AcksIn(ch)
<1>. DEFINE A == {i \in 1 .. Len(ch) : ch[i] = "ACK"}
            B == {i \in 1 .. Len(new) : new[i] = "ACK"}
<1>1. A = B
  BY DEF Grown
<1>2. AcksIn(ch) = Cardinality(A) /\ AcksIn(new) = Cardinality(B)
  BY DEF AcksIn
<1>. HIDE DEF A, B
<1>. QED  BY <1>1, <1>2

\* The channel after an answer with at most k ACKs, and what is left of the faults.
Answered(k) ==
  /\ rev' \in Seq(Byte) /\ Len(rev') <= RevCap
  /\ AcksIn(rev') <= AcksIn(rev) + k
  /\ env' \in Budgets /\ env'.write = env.write /\ env'.read <= env.read

LEMMA NothingAnswered ==
  ASSUME TypeOK, UNCHANGED <<rev, env>>
  PROVE  Answered(0)
<1>1. AcksIn(rev) \in Nat
  BY AcksType DEF TypeOK
<1>. QED  BY <1>1 DEF TypeOK, Answered, Budgets

LEMMA ToSenderAnswers ==
  ASSUME TypeOK, NEW b \in Byte, ToSender(b)
  PROVE  Answered(IF b = "ACK" THEN 1 ELSE 0)
<1>1. rev \in Seq(Byte) /\ Len(rev) <= RevCap /\ RevCap \in Nat /\ env \in Budgets
      /\ AcksIn(rev) \in Nat /\ "junk" \in Byte
  BY AcksType, Sizes DEF TypeOK, Byte
<1>2. ASSUME NEW c \in Byte
      PROVE  /\ Push(rev, RevCap, c) \in Seq(Byte) /\ Len(Push(rev, RevCap, c)) <= RevCap
             /\ AcksIn(Push(rev, RevCap, c)) <= AcksIn(rev) + (IF c = "ACK" THEN 1 ELSE 0)
  <2>1. Push(rev, RevCap, c) \in Seq(Byte) /\ Len(Push(rev, RevCap, c)) <= RevCap
    <3>1. Byte \in SUBSET Byte
      OBVIOUS
    <3>. QED  BY <1>1, <3>1, PushGrows DEF Grown
  <2>2. CASE Push(rev, RevCap, c) = rev
    BY <1>1, <2>1, <2>2
  <2>3. CASE Push(rev, RevCap, c) = Append(rev, c)
    BY <1>1, <2>1, <2>3, AcksAppend
  <2>. QED  BY <2>2, <2>3 DEF Push
<1>3. env' \in Budgets /\ env'.write = env.write /\ env'.read <= env.read
  BY <1>1, SpentBudgets DEF ToSender, Budgets
<1>4. rev' \in {Push(rev, RevCap, b), Push(rev, RevCap, "junk"), rev}
  BY DEF ToSender
<1>5. /\ rev' \in Seq(Byte) /\ Len(rev') <= RevCap
      /\ AcksIn(rev') <= AcksIn(rev) + (IF b = "ACK" THEN 1 ELSE 0)
  <2>1. CASE rev' = Push(rev, RevCap, b)
    BY <1>2, <2>1
  <2>2. CASE rev' = Push(rev, RevCap, "junk")
    <3>1. /\ rev' \in Seq(Byte) /\ Len(rev') <= RevCap
          /\ AcksIn(rev') <= AcksIn(rev) + (IF "junk" = "ACK" THEN 1 ELSE 0)
      BY <1>1, <1>2, <2>2
    <3>2. AcksIn(rev') \in Nat
      BY <3>1, AcksType
    <3>. QED  BY <1>1, <3>1, <3>2
  <2>3. CASE rev' = rev
    BY <1>1, <2>3
  <2>. QED  BY <1>4, <2>1, <2>2, <2>3
<1>. QED  BY <1>3, <1>5 DEF Answered

LEMMA ManyAnswers ==
  ASSUME TypeOK, NEW b \in Byte \ {"ACK"}, NEW n \in Nat
  PROVE  /\ PushMany(rev, RevCap, b, n) \in Seq(Byte)
         /\ Len(PushMany(rev, RevCap, b, n)) <= RevCap
         /\ AcksIn(PushMany(rev, RevCap, b, n)) = AcksIn(rev)
<1>1. rev \in Seq(Byte) /\ Len(rev) <= RevCap /\ RevCap \in Nat
  BY Sizes DEF TypeOK
<1>2. Byte \ {"ACK"} \in SUBSET Byte
  OBVIOUS
<1>3. PushMany(rev, RevCap, b, n) \in Seq(Byte)
      /\ Grown(PushMany(rev, RevCap, b, n), rev, RevCap, Byte \ {"ACK"})
  BY <1>1, <1>2, PushManyGrows
<1>. QED  BY <1>1, <1>3, GrownQuietly DEF Grown

LEMMA CancelSenderAnswers ==
  ASSUME TypeOK, CancelSender
  PROVE  Answered(0)
<1>1. PICK n \in 0 .. 3 :
        /\ rev' = PushMany(rev, RevCap, "CAN", n)
        /\ IF n = 3 THEN env' = env ELSE env.damage > 0 /\ env' = Spent(env, "damage")
  BY DEF CancelSender
<1>2. "CAN" \in Byte \ {"ACK"} /\ n \in Nat
  BY DEF Byte
<1>3. rev' \in Seq(Byte) /\ Len(rev') <= RevCap /\ AcksIn(rev') = AcksIn(rev)
  BY <1>1, <1>2, ManyAnswers
<1>4. env \in Budgets /\ AcksIn(rev) \in Nat
  BY AcksType DEF TypeOK
<1>5. env' \in Budgets /\ env'.write = env.write /\ env'.read <= env.read
  BY <1>1, <1>4, SpentBudgets DEF Budgets
<1>. QED  BY <1>3, <1>4, <1>5 DEF Answered

LEMMA PromptAnswers ==
  ASSUME TypeOK, NEW b \in {"C", "NAK", "none"}, Prompt(b)
  PROVE  Answered(0)
<1>1. CASE b = "none"
  BY <1>1, NothingAnswered DEF Prompt
<1>2. CASE b # "none"
  BY <1>2, ToSenderAnswers DEF Prompt, Byte
<1>. QED  BY <1>1, <1>2

Credit == Acks + Owed

RxQuiet ==
  /\ rx'.count = rx.count /\ rx'.pkt = rx.pkt
  /\ stored' = stored /\ env'.write = env.write
  /\ Credit' <= Credit + (IF Closing' /\ ~Closing THEN 1 ELSE 0)

RxRepeats ==
  /\ ~Closing /\ ~Closing' /\ fwd # << >> /\ fwd' = Tail(fwd)
  /\ Head(fwd).pkt = rx.pkt - 1 /\ reacked'
  /\ rx'.count = rx.count /\ rx'.pkt = rx.pkt
  /\ stored' = stored /\ env'.write = env.write
  /\ Credit' <= Credit + 1

RxTakes ==
  /\ ~Closing /\ ~Closing' /\ fwd # << >> /\ fwd' = Tail(fwd)
  /\ Head(fwd).pkt = rx.pkt /\ Head(fwd).kind = "frame"
  /\ rx'.count = rx.count + 1 /\ rx'.pkt = (rx.pkt + 1) % PMod
  /\ \/ stored' = Append(stored, Head(fwd).blk) /\ env'.write = env.write
     \/ stored' = stored /\ env.write > 0 /\ env'.write = env.write - 1
  /\ Credit' <= Credit + 1

\* What the receiver does to the bytes on their way to it: nothing, the token in
\* front is read, or its first byte is and the rest can no longer be a frame.
Beheaded ==
  /\ fwd' \in Seq(Token) /\ Len(fwd') = Len(fwd)
  /\ \A i \in 1 .. Len(fwd) : /\ fwd'[i].blk = fwd[i].blk /\ fwd'[i].pkt = fwd[i].pkt
                              /\ fwd'[i].kind = "frame" => fwd[i].kind = "frame"
Shift == fwd' = fwd \/ (fwd # << >> /\ fwd' = Tail(fwd)) \/ (fwd # << >> /\ Beheaded)

RxShape ==
  /\ tx' = tx /\ rx' \in Receiver /\ reacked' \in BOOLEAN /\ (reacked => reacked')
  /\ env' \in Budgets /\ env'.read <= env.read
  /\ rev' \in Seq(Byte) /\ Len(rev') <= RevCap
  /\ Shift
  /\ Closing => Closing'
  /\ RxQuiet \/ RxRepeats \/ RxTakes

\* The two functions of rx that the shape speaks of, and how they are primed.
OwedOf(r) == IF r.pc = "write" \/ (r.pc = "flush" /\ r.after \in {"ok", "cancelled"}) THEN 1 ELSE 0
ClosingOf(r) == r.pc = "done" \/ (r.pc = "flush" /\ r.after \in {"ok", "cancelled"})

LEMMA ByState ==
  /\ Owed = OwedOf(rx) /\ Owed' = OwedOf(rx')
  /\ Closing = ClosingOf(rx) /\ Closing' = ClosingOf(rx')
  /\ Owed \in {0, 1} /\ Owed' \in {0, 1}
  BY DEF Owed, OwedOf, Closing, ClosingOf

LEMMA QuietStep ==
  ASSUME TypeOK, RxAlone, NEW k \in {0, 1}, Answered(k),
         rx' \in Receiver, rx'.count = rx.count, rx'.pkt = rx.pkt, Shift,
         ClosingOf(rx) => ClosingOf(rx'),
         OwedOf(rx') + k <= OwedOf(rx) + (IF ClosingOf(rx') /\ ~ClosingOf(rx) THEN 1 ELSE 0)
  PROVE  RxShape
<1>1. Acks = AcksIn(rev) /\ Acks' = AcksIn(rev') /\ Acks \in Nat /\ Acks' \in Nat
      /\ Acks' <= Acks + k
  BY AcksType DEF TypeOK, Acks, Answered
<1>2. Credit' <= Credit + (IF Closing' /\ ~Closing THEN 1 ELSE 0)
  <2>1. PICK a \in Nat, b \in Nat : a = Acks /\ b = Acks' /\ b <= a + k
    BY <1>1
  <2>2. PICK o \in Nat, p \in Nat : o = Owed /\ p = Owed'
    BY ByState
  <2>3. PICK f \in Nat : f = IF Closing' /\ ~Closing THEN 1 ELSE 0
    OBVIOUS
  <2>4. p + k <= o + f
    BY <2>2, <2>3, ByState
  <2>5. b <= a + k /\ k \in Nat
    BY <2>1
  <2>6. b + p <= (a + o) + f
    BY <2>4, <2>5
  <2>. QED  BY <2>1, <2>2, <2>3, <2>6 DEF Credit
<1>3. RxQuiet
  BY <1>2 DEF RxQuiet, RxAlone, Answered
<1>4. reacked' \in BOOLEAN /\ (reacked => reacked')
  BY DEF TypeOK, RxAlone
<1>5. Closing => Closing'
  BY ByState
<1>. QED  BY <1>3, <1>4, <1>5 DEF RxShape, RxAlone, Answered

LEMMA ConsumeShape ==
  ASSUME fwd # << >>, NEW k, Consume(k)
  PROVE  Shift
  BY DEF Consume, Shift

LEMMA BeheadShape ==
  ASSUME fwd \in Seq(Token), fwd # << >>, Behead
  PROVE  Shift
<1>. DEFINE t == [fwd[1] EXCEPT !.kind = "stray"]
<1>1. Head(fwd) = fwd[1] /\ fwd[1] \in Token /\ Len(fwd) \in Nat \ {0}
  OBVIOUS
<1>2. t \in Token /\ t.blk = fwd[1].blk /\ t.pkt = fwd[1].pkt /\ t.kind = "stray"
  BY <1>1 DEF Token, Mangled
<1>3. CASE fwd' = Tail(fwd)
  BY <1>3 DEF Shift
<1>4. CASE fwd' = <<t>> \o Tail(fwd)
  <2>. HIDE DEF t
  <2>1. /\ Tail(fwd) \in Seq(Token) /\ Len(Tail(fwd)) = Len(fwd) - 1
        /\ \A i \in 1 .. Len(fwd) - 1 : Tail(fwd)[i] = fwd[i + 1]
    BY <1>1, TailFacts
  <2>2. <<t>> \in Seq(Token) /\ Len(<<t>>) = 1 /\ <<t>>[1] = t
    BY <1>2
  <2>3. /\ fwd' \in Seq(Token) /\ Len(fwd') = Len(fwd)
        /\ fwd'[1] = t /\ \A i \in 2 .. Len(fwd) : fwd'[i] = Tail(fwd)[i - 1]
    BY <1>1, <1>4, <2>1, <2>2
  <2>4. \A i \in 2 .. Len(fwd) : fwd'[i] = fwd[i]
    BY <1>1, <2>1, <2>3
  <2>. QED  BY <1>1, <1>2, <2>3, <2>4 DEF Shift, Beheaded
<1>. QED  BY <1>1, <1>3, <1>4 DEF Behead

LEMMA ListenType ==
  ASSUME NEW r \in Receiver, Listen(r)
  PROVE  rx' \in Receiver /\ rx'.count = r.count /\ rx'.pkt = r.pkt /\ rx'.pc = "idle"
  BY DEF Listen, Receiver, SyncWait

LEMMA FlushType ==
  ASSUME NEW r \in Receiver, NEW a \in RxResult, Flush(r, a)
  PROVE  rx' \in Receiver /\ rx'.count = r.count /\ rx'.pkt = r.pkt
         /\ rx'.pc = "flush" /\ rx'.after = a
  BY DEF Flush, Receiver, FlushWait

LEMMA StartedType ==
  ASSUME TypeOK
  PROVE  Started \in Receiver /\ Started.count = rx.count /\ Started.pkt = rx.pkt
  BY DEF TypeOK, Started, UseCrc, Receiver

LEMMA NextTryShape ==
  ASSUME TypeOK, RxAlone, NextTry, rx.pc \in {"idle", "idleCan"}, Shift
  PROVE  RxShape
<1>. USE DEF OwedOf, ClosingOf
<1>1. CASE Listen([rx EXCEPT !.retry = @ + 1]) /\ Prompt(rx.try)
  <2>1. rx.retry + 1 \in Nat /\ rx \in Receiver /\ rx.try \in {"C", "NAK", "none"}
    BY DEF TypeOK, Receiver
  <2>. DEFINE r == [rx EXCEPT !.retry = rx.retry + 1]
  <2>2. r \in Receiver /\ r.count = rx.count /\ r.pkt = rx.pkt /\ Listen(r)
    BY <1>1, <2>1 DEF Receiver
  <2>. HIDE DEF r
  <2>3. rx' \in Receiver /\ rx'.count = rx.count /\ rx'.pkt = rx.pkt /\ rx'.pc = "idle"
    BY <2>2, ListenType
  <2>4. Answered(0)
    BY <1>1, <2>1, PromptAnswers
  <2>. QED  BY <2>3, <2>4, QuietStep
<1>2. CASE Listen([rx EXCEPT !.retry = 0, !.try = "NAK"]) /\ Prompt("NAK")
  <2>. DEFINE r == [rx EXCEPT !.retry = 0, !.try = "NAK"]
  <2>1. r \in Receiver /\ r.count = rx.count /\ r.pkt = rx.pkt
    BY DEF TypeOK, Receiver
  <2>. HIDE DEF r
  <2>2. rx' \in Receiver /\ rx'.count = rx.count /\ rx'.pkt = rx.pkt /\ rx'.pc = "idle"
    BY <1>2, <2>1, ListenType DEF r
  <2>3. Answered(0)
    BY <1>2, PromptAnswers
  <2>. QED  BY <2>2, <2>3, QuietStep
<1>3. CASE Flush(rx, "nosync") /\ UNCHANGED <<rev, env>>
  <2>1. rx' \in Receiver /\ rx'.count = rx.count /\ rx'.pkt = rx.pkt
        /\ rx'.pc = "flush" /\ rx'.after = "nosync"
    BY <1>3, FlushType DEF TypeOK, RxResult
  <2>. QED  BY <1>3, <2>1, NothingAnswered, QuietStep
<1>. QED  BY <1>1, <1>2, <1>3 DEF NextTry

\* RxAccept, the callback having returned with the new env, rev and stored.
LEMMA AcceptShape ==
  ASSUME TypeOK, RxGood(rx.pkt), Consume("frame"), UNCHANGED <<tx, reacked>>,
         NEW n \in Nat,
         rx' = [Started EXCEPT !.pc = "write", !.timer = n,
                  !.count = @ + 1, !.pkt = (@ + 1) % PMod, !.retrans = MaxRetrans],
         rev' \in Seq(Byte), Len(rev') <= RevCap, AcksIn(rev') = AcksIn(rev),
         env' \in Budgets, env'.read <= env.read,
         \/ stored' = Append(stored, Head(fwd).blk) /\ env'.write = env.write
         \/ stored' = stored /\ env.write > 0 /\ env'.write = env.write - 1
  PROVE  RxShape
<1>1. rx.pc = "idle" /\ fwd # << >> /\ Head(fwd).kind = "frame" /\ Head(fwd).pkt = rx.pkt
  BY DEF RxGood
<1>2. fwd' = Tail(fwd)
  BY <1>1 DEF Consume
<1>3. rx.count + 1 \in Nat /\ rx.pkt \in 0 .. PMod - 1 /\ (rx.pkt + 1) % PMod \in 0 .. PMod - 1
  <2>1. rx.count + 1 \in Nat /\ rx.pkt \in 0 .. PMod - 1 /\ rx.pkt + 1 \in Nat
    BY SMTT(40) DEF TypeOK, Receiver
  <2>. QED  BY <2>1, ModRange, PModPositive
<1>4. /\ rx' \in Receiver /\ rx'.pc = "write"
      /\ rx'.count = rx.count + 1 /\ rx'.pkt = (rx.pkt + 1) % PMod
  <2>1. Started \in Receiver /\ Started.count = rx.count /\ Started.pkt = rx.pkt
    BY StartedType
  <2>2. rx' = [Started EXCEPT !.pc = "write", !.timer = n, !.count = rx.count + 1,
                 !.pkt = (rx.pkt + 1) % PMod, !.retrans = MaxRetrans]
    BY <2>1
  <2>3. MaxRetrans \in Int
    BY Sizes
  <2>. HIDE DEF Started
  <2>4. rx' \in Receiver
    <3>1. PICK c \in Nat, p \in 0 .. PMod - 1 : c = rx.count + 1 /\ p = (rx.pkt + 1) % PMod
      BY <1>3
    <3>2. rx' = [Started EXCEPT !.pc = "write", !.timer = n, !.count = c, !.pkt = p, !.retrans = MaxRetrans]
      BY <2>2, <3>1
    <3>. QED  BY ZenonT(60), <2>1, <2>3, <3>2 DEF Receiver
  <2>. QED  BY <2>1, <2>2, <2>4 DEF Receiver
<1>5. OwedOf(rx) = 0 /\ OwedOf(rx') = 1 /\ ~ClosingOf(rx) /\ ~ClosingOf(rx')
  BY <1>1, <1>4 DEF OwedOf, ClosingOf
<1>6. Credit' <= Credit + 1
  <2>1. Acks = AcksIn(rev) /\ Acks' = AcksIn(rev') /\ Acks \in Nat
    BY AcksType DEF TypeOK, Acks
  <2>. QED  BY <1>5, <2>1, ByState DEF Credit
<1>7. RxTakes
  BY <1>1, <1>2, <1>4, <1>5, <1>6, ByState DEF RxTakes
<1>. QED  BY <1>2, <1>4, <1>5, <1>7, <1>1, ByState DEF RxShape, TypeOK, Shift

LEMMA AgainShape ==
  ASSUME TypeOK, RxAgain
  PROVE  RxShape
<1>1. rx.pc = "idle" /\ fwd # << >> /\ Head(fwd).pkt = rx.pkt - 1 /\ fwd' = Tail(fwd)
      /\ UNCHANGED <<tx, stored>> /\ reacked' = TRUE
  BY DEF RxAgain, RxGood, Consume
<1>2. ASSUME NEW k \in {0, 1}, Answered(k), rx' \in Receiver,
             rx'.count = rx.count, rx'.pkt = rx.pkt,
             ~ClosingOf(rx'), OwedOf(rx') = 0
      PROVE  RxShape
  <2>1. Acks = AcksIn(rev) /\ Acks' = AcksIn(rev') /\ Acks \in Nat /\ Acks' <= Acks + k
        /\ Acks' \in Nat
    BY <1>2, AcksType DEF TypeOK, Acks, Answered
  <2>2. OwedOf(rx) = 0 /\ ~ClosingOf(rx)
    BY <1>1 DEF OwedOf, ClosingOf
  <2>3. Credit' <= Credit + 1
    BY <1>2, <2>1, <2>2, ByState DEF Credit
  <2>4. RxRepeats
    BY <1>1, <1>2, <2>2, <2>3, ByState DEF RxRepeats, Answered
  <2>. QED  BY <1>1, <1>2, <2>2, <2>4, ByState DEF RxShape, Answered, Shift
<1>3. rx.retrans - 1 \in Int /\ Started.retrans = rx.retrans
      /\ Started \in Receiver /\ Started.count = rx.count /\ Started.pkt = rx.pkt
  BY SMTT(40), StartedType DEF TypeOK, Receiver, Started
<1>4. ASSUME NEW r, r = [Started EXCEPT !.retrans = rx.retrans - 1]
                     \/ r = [Started EXCEPT !.retrans = rx.retrans - 1, !.retry = 0]
      PROVE  r \in Receiver /\ r.count = rx.count /\ r.pkt = rx.pkt
  <2>. HIDE DEF Started
  <2>1. PICK m \in Int : m = rx.retrans - 1
    BY <1>3
  <2>2. r = [Started EXCEPT !.retrans = m] \/ r = [Started EXCEPT !.retrans = m, !.retry = 0]
    BY <1>4, <2>1
  <2>3. CASE r = [Started EXCEPT !.retrans = m]
    BY <1>3, <2>3 DEF Receiver
  <2>4. CASE r = [Started EXCEPT !.retrans = m, !.retry = 0]
    BY <1>3, <2>4 DEF Receiver
  <2>. QED  BY <2>2, <2>3, <2>4
<1>5. CASE /\ Flush([Started EXCEPT !.retrans = @ - 1], "retries") /\ UNCHANGED <<rev, env>>
  <2>. DEFINE r == [Started EXCEPT !.retrans = rx.retrans - 1]
  <2>1. r \in Receiver /\ r.count = rx.count /\ r.pkt = rx.pkt /\ Flush(r, "retries")
    BY <1>3, <1>4, <1>5
  <2>. HIDE DEF r
  <2>2. rx' \in Receiver /\ rx'.count = rx.count /\ rx'.pkt = rx.pkt
        /\ rx'.pc = "flush" /\ rx'.after = "retries"
    BY <2>1, FlushType DEF RxResult
  <2>. QED  BY <1>2, <1>5, <2>2, NothingAnswered DEF OwedOf, ClosingOf
<1>6. CASE /\ Listen([Started EXCEPT !.retrans = @ - 1, !.retry = 0]) /\ ToSender("ACK")
  <2>. DEFINE r == [Started EXCEPT !.retrans = rx.retrans - 1, !.retry = 0]
  <2>1. r \in Receiver /\ r.count = rx.count /\ r.pkt = rx.pkt /\ Listen(r)
    BY <1>3, <1>4, <1>6
  <2>. HIDE DEF r
  <2>2. rx' \in Receiver /\ rx'.count = rx.count /\ rx'.pkt = rx.pkt /\ rx'.pc = "idle"
    BY <2>1, ListenType
  <2>3. Answered(1)
    BY <1>6, ToSenderAnswers DEF Byte
  <2>. QED  BY <1>2, <2>2, <2>3 DEF OwedOf, ClosingOf
<1>. QED  BY <1>5, <1>6 DEF RxAgain

LEMMA RxShapes ==
  ASSUME TypeOK, RxStart \/ RxStep
  PROVE  RxShape
<1>. USE DEF OwedOf, ClosingOf
<1>0. rx \in Receiver
  BY DEF TypeOK
<1>1. CASE RxStart
  <2>1. rx' \in Receiver /\ rx'.count = rx.count /\ rx'.pkt = rx.pkt /\ rx'.pc = "idle"
    BY <1>0, <1>1, ListenType DEF RxStart
  <2>2. Answered(0)
    BY <1>1, ToSenderAnswers DEF RxStart, Byte
  <2>. QED  BY <1>1, <2>1, <2>2, QuietStep DEF RxStart, Shift
<1>2. CASE RxJunk
  BY <1>2, ConsumeShape, NextTryShape DEF RxJunk
<1>3. CASE RxEot
  <2>1. rx' \in Receiver /\ rx'.count = rx.count /\ rx'.pkt = rx.pkt
        /\ rx'.pc = "flush" /\ rx'.after = "ok"
    BY <1>0, <1>3, FlushType DEF RxEot, RxResult
  <2>. QED  BY <1>3, <2>1, ConsumeShape, NothingAnswered, QuietStep DEF RxEot
<1>4. CASE RxCan
  <2>1. rx' \in Receiver /\ rx'.count = rx.count /\ rx'.pkt = rx.pkt /\ rx'.pc = "idleCan"
    BY <1>0, <1>4 DEF RxCan, Receiver, ByteWait
  <2>. QED  BY <1>4, <2>1, ConsumeShape, NothingAnswered, QuietStep DEF RxCan
<1>5. CASE RxCanByte
  <2>1. CASE Consume("can") /\ Flush(rx, "cancelled") /\ UNCHANGED <<rev, env>>
    <3>1. rx' \in Receiver /\ rx'.count = rx.count /\ rx'.pkt = rx.pkt
          /\ rx'.pc = "flush" /\ rx'.after = "cancelled"
      BY <1>0, <2>1, FlushType DEF RxResult
    <3>. QED  BY <1>5, <2>1, <3>1, ConsumeShape, NothingAnswered, QuietStep DEF RxCanByte
  <2>2. CASE Behead /\ NextTry
    <3>1. Shift
      BY <1>5, <2>2, BeheadShape DEF RxCanByte, TypeOK
    <3>. QED  BY <1>5, <2>2, <3>1, NextTryShape DEF RxCanByte
  <2>. QED  BY <1>5, <2>1, <2>2 DEF RxCanByte
<1>6. CASE RxAccept
  <2>1. RxGood(rx.pkt) /\ Consume("frame") /\ UNCHANGED <<tx, reacked>>
        /\ rev \in Seq(Byte) /\ Len(rev) <= RevCap /\ env \in Budgets
    BY <1>6 DEF RxAccept, TypeOK
  <2>2. CASE /\ stored' = Append(stored, Head(fwd).blk) /\ rev' = rev
             /\ env' = env
             /\ rx' = [Started EXCEPT !.pc = "write", !.timer = 0,
                        !.count = @ + 1, !.pkt = (@ + 1) % PMod, !.retrans = MaxRetrans]
    <3>1. env.read <= env.read
      BY <2>1 DEF Budgets
    <3>. QED  BY <2>1, <2>2, <3>1, AcceptShape
  <2>3. CASE /\ stored' = Append(stored, Head(fwd).blk) /\ rev' = rev
             /\ env.slow > 0 /\ env' = Spent(env, "slow")
             /\ rx' = [Started EXCEPT !.pc = "write", !.timer = SlowTime,
                        !.count = @ + 1, !.pkt = (@ + 1) % PMod, !.retrans = MaxRetrans]
    <3>1. env' \in Budgets /\ env'.write = env.write /\ env'.read = env.read /\ env.read \in Nat
      BY <2>1, <2>3, SpentBudgets DEF Budgets
    <3>2. env'.read <= env.read /\ SlowTime \in Nat
      BY <3>1, Sizes
    <3>3. AcksIn(rev') = AcksIn(rev) /\ rev' \in Seq(Byte) /\ Len(rev') <= RevCap
      BY <2>1, <2>3
    <3>. QED  BY <2>1, <2>3, <3>1, <3>2, <3>3, AcceptShape
  <2>4. CASE /\ env.write > 0 /\ env' = Spent(env, "write") /\ stored' = stored
             /\ rev' = PushMany(rev, RevCap, "junk", NoiseLen)
             /\ rx' = [Started EXCEPT !.pc = "write", !.timer = 0,
                        !.count = @ + 1, !.pkt = (@ + 1) % PMod, !.retrans = MaxRetrans]
    <3>1. env' \in Budgets /\ env'.write = env.write - 1 /\ env'.read = env.read /\ env.read \in Nat
      BY <2>1, <2>4, SpentBudgets DEF Budgets
    <3>2. rev' \in Seq(Byte) /\ Len(rev') <= RevCap /\ AcksIn(rev') = AcksIn(rev)
      <4>1. "junk" \in Byte \ {"ACK"}
        BY DEF Byte
      <4>. QED  BY <2>4, <4>1, ManyAnswers, Sizes
    <3>3. env'.read <= env.read /\ 0 \in Nat
      BY <3>1
    <3>. QED  BY <2>1, <2>4, <3>1, <3>2, <3>3, AcceptShape
  <2>. QED  BY <1>6, <2>2, <2>3, <2>4 DEF RxAccept
<1>7. CASE RxAck
  <2>. DEFINE r == [rx EXCEPT !.retry = 0]
  <2>1. r \in Receiver /\ r.count = rx.count /\ r.pkt = rx.pkt
    BY <1>0 DEF Receiver
  <2>. HIDE DEF r
  <2>2. rx' \in Receiver /\ rx'.count = rx.count /\ rx'.pkt = rx.pkt /\ rx'.pc = "idle"
    BY <1>7, <2>1, ListenType DEF RxAck, r
  <2>3. Answered(1)
    BY <1>7, ToSenderAnswers DEF RxAck, Byte
  <2>. QED  BY <1>7, <2>2, <2>3, QuietStep DEF RxAck, Shift
<1>8. CASE RxReject
  <2>1. rx' \in Receiver /\ rx'.count = rx.count /\ rx'.pkt = rx.pkt
        /\ rx'.pc = "flush" /\ rx'.after = "none"
    BY <1>8, FlushType, StartedType DEF RxReject, RxResult
  <2>. QED  BY <1>8, <2>1, ConsumeShape, NothingAnswered, QuietStep DEF RxReject
<1>9. CASE RxShort
  <2>1. rx' \in Receiver /\ rx'.count = rx.count /\ rx'.pkt = rx.pkt /\ rx'.pc = "body"
    <3>1. Started \in Receiver /\ Started.count = rx.count /\ Started.pkt = rx.pkt
      BY StartedType
    <3>2. rx' = [Started EXCEPT !.pc = "body", !.timer = ByteWait]
      BY <1>9 DEF RxShort
    <3>. HIDE DEF Started
    <3>. QED  BY <3>1, <3>2 DEF Receiver, ByteWait
  <2>. QED  BY <1>9, <2>1, ConsumeShape, NothingAnswered, QuietStep DEF RxShort
<1>10. CASE RxBodyByte
  <2>1. CASE rx' = [rx EXCEPT !.timer = ByteWait]
    <3>1. rx' \in Receiver /\ rx'.count = rx.count /\ rx'.pkt = rx.pkt /\ rx'.pc = rx.pc
      BY <1>0, <2>1 DEF Receiver, ByteWait
    <3>. QED  BY <1>10, <3>1, ConsumeShape, NothingAnswered, QuietStep DEF RxBodyByte
  <2>2. CASE Flush(rx, "none")
    <3>1. rx' \in Receiver /\ rx'.count = rx.count /\ rx'.pkt = rx.pkt
          /\ rx'.pc = "flush" /\ rx'.after = "none"
      BY <1>0, <2>2, FlushType DEF RxResult
    <3>. QED  BY <1>10, <3>1, ConsumeShape, NothingAnswered, QuietStep DEF RxBodyByte
  <2>. QED  BY <1>10, <2>1, <2>2 DEF RxBodyByte
<1>11. CASE RxFlushByte
  <2>1. rx' \in Receiver /\ rx'.count = rx.count /\ rx'.pkt = rx.pkt
        /\ rx'.pc = rx.pc /\ rx'.after = rx.after
    BY <1>0, <1>11 DEF RxFlushByte, Receiver, FlushWait
  <2>. QED  BY <1>11, <2>1, ConsumeShape, NothingAnswered, QuietStep DEF RxFlushByte
<1>12. CASE RxFlushed
  <2>1. CASE rx.after = "none" /\ Listen([rx EXCEPT !.retry = 0]) /\ ToSender("NAK")
    <3>. DEFINE r == [rx EXCEPT !.retry = 0]
    <3>1. r \in Receiver /\ r.count = rx.count /\ r.pkt = rx.pkt
      BY <1>0 DEF Receiver
    <3>. HIDE DEF r
    <3>2. rx' \in Receiver /\ rx'.count = rx.count /\ rx'.pkt = rx.pkt /\ rx'.pc = "idle"
      BY <2>1, <3>1, ListenType DEF r
    <3>3. Answered(0)
      BY <2>1, ToSenderAnswers DEF Byte
    <3>. QED  BY <1>12, <2>1, <3>2, <3>3, QuietStep DEF RxFlushed, Shift
  <2>2. CASE /\ rx' = [rx EXCEPT !.pc = "done"]
             /\ rx.after \in {"ok", "cancelled"} /\ ToSender("ACK")
    <3>1. rx' \in Receiver /\ rx'.count = rx.count /\ rx'.pkt = rx.pkt /\ rx'.pc = "done"
      BY <1>0, <2>2 DEF Receiver
    <3>2. Answered(1)
      BY <2>2, ToSenderAnswers DEF Byte
    <3>. QED  BY <1>12, <2>2, <3>1, <3>2, QuietStep DEF RxFlushed, Shift
  <2>3. CASE /\ rx' = [rx EXCEPT !.pc = "done"] /\ CancelSender
    <3>1. rx' \in Receiver /\ rx'.count = rx.count /\ rx'.pkt = rx.pkt /\ rx'.pc = "done"
      BY <1>0, <2>3 DEF Receiver
    <3>. QED  BY <1>12, <2>3, <3>1, CancelSenderAnswers, QuietStep DEF RxFlushed, Shift
  <2>. QED  BY <1>12, <2>1, <2>2, <2>3 DEF RxFlushed
<1>13. CASE RxTimeout
  <2>1. CASE rx.pc \in {"idle", "idleCan"} /\ NextTry
    BY <1>13, <2>1, NextTryShape DEF RxTimeout, Shift
  <2>2. CASE rx.pc = "body" /\ Flush(rx, "none") /\ UNCHANGED <<rev, env>>
    <3>1. rx' \in Receiver /\ rx'.count = rx.count /\ rx'.pkt = rx.pkt
          /\ rx'.pc = "flush" /\ rx'.after = "none"
      BY <1>0, <2>2, FlushType DEF RxResult
    <3>. QED  BY <1>13, <2>2, <3>1, NothingAnswered, QuietStep DEF RxTimeout, Shift
  <2>. QED  BY <1>13, <2>1, <2>2 DEF RxTimeout
<1>14. CASE RxAgain
  BY <1>14, AgainShape
<1>. QED  BY <1>1, <1>2, <1>3, <1>4, <1>5, <1>6, <1>7, <1>8, <1>9, <1>10, <1>11, <1>12,
             <1>13, <1>14 DEF RxStep
-----------------------------------------------------------------------------
(* The passing of time. *)

TickShape ==
  /\ tx' \in Sender /\ tx'.blk = tx.blk /\ tx'.pkt = tx.pkt /\ tx'.pc = tx.pc /\ tx'.res = tx.res
  /\ rx' \in Receiver /\ rx'.count = rx.count /\ rx'.pkt = rx.pkt
  /\ rx'.pc = rx.pc /\ rx'.after = rx.after
  /\ UNCHANGED <<fwd, rev, stored, env, reacked>>

LEMMA TickShapes ==
  ASSUME TypeOK, Tick \/ UNCHANGED vars
  PROVE  TickShape
<1>1. CASE UNCHANGED vars
  BY <1>1 DEF vars, TypeOK, TickShape
<1>2. CASE Tick
  <2>1. tx \in Sender /\ rx \in Receiver
    BY DEF TypeOK
  <2>2. tx' \in Sender /\ tx'.blk = tx.blk /\ tx'.pkt = tx.pkt /\ tx'.pc = tx.pc /\ tx'.res = tx.res
    <3>1. CASE TxRuns
      <4>1. PICK n \in Nat : n = tx.timer - 1
        BY <1>2, <2>1, <3>1 DEF Tick, TxReady, Sender
      <4>2. tx' = [tx EXCEPT !.timer = n]
        BY <1>2, <3>1, <4>1 DEF Tick
      <4>. QED  BY <2>1, <4>2 DEF Sender
    <3>2. CASE ~TxRuns
      BY <1>2, <2>1, <3>2 DEF Tick
    <3>. QED  BY <3>1, <3>2
  <2>3. rx' \in Receiver /\ rx'.count = rx.count /\ rx'.pkt = rx.pkt
        /\ rx'.pc = rx.pc /\ rx'.after = rx.after
    <3>1. CASE RxRuns
      <4>1. PICK n \in Nat : n = rx.timer - 1
        BY <1>2, <2>1, <3>1 DEF Tick, RxReady, Receiver
      <4>2. rx' = [rx EXCEPT !.timer = n]
        BY <1>2, <3>1, <4>1 DEF Tick
      <4>. QED  BY <2>1, <4>2 DEF Receiver
    <3>2. CASE ~RxRuns
      BY <1>2, <2>1, <3>2 DEF Tick
    <3>. QED  BY <3>1, <3>2
  <2>. QED  BY <1>2, <2>2, <2>3 DEF Tick, TickShape
<1>. QED  BY <1>1, <1>2
-----------------------------------------------------------------------------
(* Type correctness. *)

LEMMA InitType == Init => TypeOK
<1>. SUFFICES ASSUME Init PROVE TypeOK
  OBVIOUS
<1>1. 1 \in 0 .. PMod - 1 /\ MaxRetrans \in Int /\ Damage \in Nat /\ SlowWrites \in Nat
      /\ WriteErrors \in Nat /\ ReadErrors \in Nat /\ FwdCap \in Nat /\ RevCap \in Nat
  BY Sizes, NumbersSuffice
<1>2. tx \in Sender
  BY <1>1 DEF Init, Sender, TxResult
<1>3. rx \in Receiver
  BY <1>1 DEF Init, Receiver, RxResult
<1>4. env \in Budgets
  BY <1>1 DEF Init, Budgets
<1>5. << >> \in Seq(Token) /\ << >> \in Seq(Byte) /\ << >> \in Seq(Nat) /\ Len(<< >>) = 0
  OBVIOUS
<1>6. fwd = << >> /\ rev = << >> /\ stored = << >> /\ reacked = FALSE
  BY DEF Init
<1>7. fwd \in Seq(Token) /\ Len(fwd) <= FwdCap /\ rev \in Seq(Byte) /\ Len(rev) <= RevCap
  BY <1>1, <1>5, <1>6
<1>8. stored \in Seq(Nat) /\ reacked \in BOOLEAN
  BY <1>5, <1>6
<1>. QED  BY <1>2, <1>3, <1>4, <1>7, <1>8 DEF TypeOK

\* The part of WithinFile that the sender's steps rest on, with the types.
Typed == TypeOK /\ TxWithin /\ env.read <= ReadErrors

LEMMA InitTyped == Init => Typed
<1>1. Init => TxWithin /\ env.read <= ReadErrors
  BY Sizes DEF Init, TxWithin
<1>. QED  BY <1>1, InitType DEF Typed

LEMMA NextShape ==
  ASSUME Typed, [Next]_vars
  PROVE  TxShape \/ RxShape \/ TickShape
<1>1. CASE TxStart \/ TxStep
  BY <1>1, TxShapes DEF Typed
<1>2. CASE RxStart \/ RxStep
  BY <1>2, RxShapes DEF Typed
<1>3. CASE Tick \/ UNCHANGED vars
  BY <1>3, TickShapes DEF Typed
<1>. QED  BY <1>1, <1>2, <1>3 DEF Next

LEMMA NextTyped ==
  ASSUME Typed, [Next]_vars
  PROVE  Typed'
<1>1. env.read \in Nat /\ env.read <= ReadErrors /\ ReadErrors \in Nat
  BY Sizes DEF Typed, TypeOK, Budgets
<1>2. CASE TxShape
  <2>1. rev' \in Seq(Byte) /\ Len(rev') <= RevCap
    <3>1. rev \in Seq(Byte) /\ Len(rev) <= RevCap /\ RevCap \in Nat
      BY Sizes DEF Typed, TypeOK
    <3>2. rev' = rev \/ (rev # << >> /\ rev' = Tail(rev))
      BY <1>2 DEF TxShape
    <3>. QED  BY <3>1, <3>2, TailFacts
  <2>2. fwd' \in Seq(Token) /\ Len(fwd') <= FwdCap /\ env' \in Budgets /\ env'.read <= env.read
    BY <1>2 DEF TxShape, Sent, Grown
  <2>3. TypeOK'
    BY <1>2, <2>1, <2>2 DEF TxShape, Typed, TypeOK
  <2>. QED  BY <1>1, <1>2, <2>2, <2>3 DEF TxShape, Typed, Budgets
<1>3. CASE RxShape
  <2>1. fwd' \in Seq(Token) /\ Len(fwd') <= FwdCap
    <3>1. fwd \in Seq(Token) /\ Len(fwd) <= FwdCap /\ FwdCap \in Nat
      BY Sizes DEF Typed, TypeOK
    <3>2. CASE fwd' = fwd \/ (fwd # << >> /\ fwd' = Tail(fwd))
      BY <3>1, <3>2, TailFacts
    <3>3. CASE Beheaded
      BY <3>1, <3>3 DEF Beheaded
    <3>. QED  BY <1>3, <3>2, <3>3 DEF RxShape, Shift
  <2>2. stored' \in Seq(Nat)
    <3>1. CASE stored' = stored
      BY <3>1 DEF Typed, TypeOK
    <3>2. CASE fwd # << >> /\ stored' = Append(stored, Head(fwd).blk)
      <4>1. Head(fwd) \in Token /\ stored \in Seq(Nat)
        BY <3>2 DEF Typed, TypeOK
      <4>2. Head(fwd).blk \in Nat
        BY <4>1 DEF Token
      <4>. QED  BY <3>2, <4>1, <4>2
    <3>. QED  BY <1>3, <3>1, <3>2 DEF RxShape, RxQuiet, RxRepeats, RxTakes
  <2>3. TypeOK'
    BY <1>3, <2>1, <2>2 DEF RxShape, Typed, TypeOK
  <2>4. TxWithin'
    BY <1>3 DEF RxShape, Typed, TxWithin
  <2>. QED  BY <1>1, <1>3, <2>3, <2>4 DEF RxShape, Typed, Budgets
<1>4. CASE TickShape
  BY <1>4 DEF TickShape, Typed, TypeOK, TxWithin
<1>. QED  BY <1>2, <1>3, <1>4, NextShape

\* The types of XModem are right.
THEOREM TypeCorrect == Spec => []TypeOK
<1>1. Init => Typed
  BY InitTyped
<1>2. Typed /\ [Next]_vars => Typed'
  BY NextTyped
<1>3. Typed => TypeOK
  BY DEF Typed
<1>. QED  BY <1>1, <1>2, <1>3, PTL DEF Spec
-----------------------------------------------------------------------------
(* The order of the blocks: IInv without the types. *)

Order == Numbered /\ Ordered /\ Window /\ StoredInOrder

\* Facts of the types that the steps below use.
Basics ==
  /\ tx.blk \in Nat /\ tx.pkt \in 0 .. PMod - 1 /\ rx.count \in Nat /\ rx.pkt \in 0 .. PMod - 1
  /\ fwd \in Seq(Token) /\ Len(fwd) <= FwdCap /\ Len(fwd) \in Nat
  /\ \A i \in 1 .. Len(fwd) : fwd[i].blk \in Nat /\ fwd[i].pkt \in 0 .. PMod - 1
  /\ rev \in Seq(Byte) /\ Len(rev) <= RevCap
  /\ Acks \in Nat /\ Acks <= RevCap /\ Owed \in {0, 1}
  /\ stored \in Seq(Nat) /\ Len(stored) \in Nat /\ env.write \in Nat
  /\ \A i \in 1 .. Len(stored) : stored[i] \in Nat

LEMMA TypesGiveBasics ==
  ASSUME TypeOK
  PROVE  Basics
<1>1. tx.blk \in Nat /\ tx.pkt \in 0 .. PMod - 1
  BY DEF TypeOK, Sender
<1>2. rx.count \in Nat /\ rx.pkt \in 0 .. PMod - 1
  BY DEF TypeOK, Receiver
<1>3. fwd \in Seq(Token) /\ Len(fwd) <= FwdCap /\ rev \in Seq(Byte) /\ Len(rev) <= RevCap
      /\ stored \in Seq(Nat) /\ env \in Budgets
  BY DEF TypeOK
<1>4. \A i \in 1 .. Len(fwd) : fwd[i].blk \in Nat /\ fwd[i].pkt \in 0 .. PMod - 1
  <2>1. \A i \in 1 .. Len(fwd) : fwd[i] \in Token
    BY <1>3
  <2>. QED  BY <2>1 DEF Token
<1>5. Acks \in Nat /\ Acks <= RevCap
  <2>1. Acks \in Nat /\ Acks <= Len(rev) /\ Len(rev) \in Nat /\ RevCap \in Nat
    BY <1>3, AcksType, Sizes DEF Acks
  <2>. QED  BY <1>3, <2>1
<1>6. Len(fwd) \in Nat /\ Len(stored) \in Nat /\ \A i \in 1 .. Len(stored) : stored[i] \in Nat
  BY <1>3
<1>7. env.write \in Nat /\ Owed \in {0, 1}
  BY <1>3 DEF Budgets, Owed
<1>. QED  BY <1>1, <1>2, <1>3, <1>4, <1>5, <1>6, <1>7 DEF Basics

LEMMA InitOrder == Init => Order
<1>. SUFFICES ASSUME Init PROVE Order
  OBVIOUS
<1>1. tx.blk = 1 /\ tx.pkt = 1 /\ rx.count = 0 /\ rx.pkt = 1 /\ rx.pc = "off"
      /\ fwd = << >> /\ rev = << >> /\ stored = << >> /\ env.write = WriteErrors
  BY DEF Init
<1>2. Len(<< >>) = 0 /\ 1 % PMod = 1 /\ FwdCap \in Nat /\ RevCap \in Nat /\ WriteErrors \in Nat
  <2>1. PMod \in Nat \ {0} /\ 1 \in 0 .. PMod - 1 /\ 0 \in Int /\ 1 = PMod * 0 + 1
    BY PModPositive, NumbersSuffice, Sizes
  <2>2. (PMod * 0 + 1) % PMod = 1
    BY <2>1, ModIs
  <2>. QED  BY <2>1, <2>2, Sizes
<1>3. Acks = 0
  <2>1. << >> \in Seq(Byte)
    OBVIOUS
  <2>2. AcksIn(<< >>) \in Nat /\ AcksIn(<< >>) <= 0
    BY <1>2, <2>1, AcksType
  <2>. QED  BY <1>1, <2>2 DEF Acks
<1>4. Numbered
  BY <1>1, <1>2 DEF Numbered
<1>5. Ordered
  BY <1>1, <1>2 DEF Ordered
<1>6. Window
  BY <1>1, <1>2, <1>3 DEF Window, Owed, Closing
<1>7. StoredInOrder
  BY <1>1, <1>2 DEF StoredInOrder
<1>. QED  BY <1>4, <1>5, <1>6, <1>7 DEF Order

LEMMA TxOrder ==
  ASSUME Basics, Basics', Order, TxShape
  PROVE  Order'
<1>1. UNCHANGED <<rx, stored>> /\ env'.write = env.write
      /\ Grown(fwd', fwd, FwdCap, Fresh(tx'.blk, tx'.pkt))
  BY DEF TxShape, Sent
<1>2. Owed' = Owed /\ (Closing' <=> Closing)
  BY <1>1 DEF Owed, Closing
<1>n. /\ tx.blk \in Nat /\ tx'.blk \in Nat /\ rx.count \in Nat /\ rx'.count = rx.count
      /\ Acks \in Nat /\ Acks' \in Nat /\ Acks' <= RevCap /\ Owed \in {0, 1}
      /\ Len(fwd) \in Nat /\ Len(fwd') \in Nat /\ Len(fwd') <= FwdCap
      /\ FwdCap \in Nat /\ RevCap \in Nat /\ rev \in Seq(Byte)
  BY <1>1, Sizes DEF Basics
<1>f. \A i \in 1 .. Len(fwd) : fwd[i].blk \in Nat
  BY DEF Basics
<1>3. /\ tx'.blk >= tx.blk
      /\ tx'.blk + Acks' <= tx.blk + Acks
      /\ tx'.pkt = tx'.blk % PMod
  <2>0. Acks' = AcksIn(rev') /\ Acks = AcksIn(rev) /\ tx.pkt = tx.blk % PMod
    BY DEF Acks, Order, Numbered
  <2>1. CASE tx'.blk = tx.blk /\ tx'.pkt = tx.pkt /\ rev' = rev
    BY <1>n, <2>0, <2>1
  <2>2. CASE tx'.blk = tx.blk /\ tx'.pkt = tx.pkt /\ rev # << >> /\ rev' = Tail(rev)
    <3>1. AcksIn(rev') + (IF Head(rev) = "ACK" THEN 1 ELSE 0) = AcksIn(rev)
      BY <1>n, <2>2, AcksTail
    <3>. QED  BY SMTT(40), <1>n, <2>0, <2>2, <3>1
  <2>3. CASE /\ tx'.blk = tx.blk + 1 /\ tx'.pkt = (tx.pkt + 1) % PMod
             /\ rev # << >> /\ Head(rev) = "ACK" /\ rev' = Tail(rev)
    <3>1. AcksIn(rev') + (IF Head(rev) = "ACK" THEN 1 ELSE 0) = AcksIn(rev)
      BY <1>n, <2>3, AcksTail
    <3>2. ((tx.blk % PMod) + 1) % PMod = (tx.blk + 1) % PMod
      BY <1>n, ModSucc, PModPositive
    <3>3. AcksIn(rev') + 1 = AcksIn(rev)
      BY <2>3, <3>1
    <3>4. tx'.pkt = tx'.blk % PMod
      BY <2>0, <2>3, <3>2
    <3>. QED  BY SMTT(40), <1>n, <2>0, <2>3, <3>3, <3>4
  <2>. QED  BY <2>1, <2>2, <2>3 DEF TxShape
<1>4. \A i \in 1 .. Len(fwd') :
        \/ i \in 1 .. Len(fwd) /\ fwd'[i] = fwd[i]
        \/ i \in Len(fwd) + 1 .. Len(fwd') /\ fwd'[i].blk = tx'.blk /\ fwd'[i].pkt = tx'.pkt
  <2>. SUFFICES ASSUME NEW i \in 1 .. Len(fwd')
       PROVE \/ i \in 1 .. Len(fwd) /\ fwd'[i] = fwd[i]
             \/ i \in Len(fwd) + 1 .. Len(fwd') /\ fwd'[i].blk = tx'.blk /\ fwd'[i].pkt = tx'.pkt
    OBVIOUS
  <2>1. CASE i <= Len(fwd)
    BY <1>1, <1>n, <2>1 DEF Grown
  <2>2. CASE i > Len(fwd)
    <3>1. fwd'[i] \in Fresh(tx'.blk, tx'.pkt)
      BY <1>1, <1>n, <2>2 DEF Grown
    <3>. QED  BY <1>n, <2>2, <3>1 DEF Fresh
  <2>. QED  BY <1>n, <2>1, <2>2
<1>5. Numbered'
  <2>1. \A i \in 1 .. Len(fwd') : fwd'[i].pkt = fwd'[i].blk % PMod
    BY <1>3, <1>4 DEF Order, Numbered
  <2>. QED  BY <1>1, <1>3, <2>1 DEF Order, Numbered
<1>6. Ordered'
  <2>1. /\ rx.count <= tx.blk
        /\ \A i \in 1 .. Len(fwd) : rx.count <= fwd[i].blk /\ fwd[i].blk <= tx.blk
        /\ \A i, j \in 1 .. Len(fwd) : i <= j => fwd[i].blk <= fwd[j].blk
    BY DEF Order, Ordered
  <2>2. ASSUME NEW i \in 1 .. Len(fwd')
        PROVE  rx'.count <= fwd'[i].blk /\ fwd'[i].blk <= tx'.blk
    <3>1. CASE i \in 1 .. Len(fwd) /\ fwd'[i] = fwd[i]
      <4>1. fwd[i].blk \in Nat /\ rx.count <= fwd[i].blk /\ fwd[i].blk <= tx.blk
        BY <1>f, <2>1, <3>1
      <4>2. tx.blk \in Nat /\ tx'.blk \in Nat /\ tx.blk <= tx'.blk /\ rx'.count = rx.count
        BY <1>n, <1>3
      <4>. QED  BY <3>1, <4>1, <4>2
    <3>2. CASE fwd'[i].blk = tx'.blk
      BY SMTT(40), <1>n, <1>3, <2>1, <3>2
    <3>. QED  BY <1>4, <3>1, <3>2
  <2>3. ASSUME NEW i \in 1 .. Len(fwd'), NEW j \in 1 .. Len(fwd'), i <= j
        PROVE  fwd'[i].blk <= fwd'[j].blk
    <3>1. CASE j \in 1 .. Len(fwd) /\ fwd'[j] = fwd[j]
      <4>1. i \in 1 .. Len(fwd) /\ fwd'[i] = fwd[i]
        BY <1>n, <1>4, <2>3, <3>1
      <4>. QED  BY <2>1, <2>3, <3>1, <4>1
    <3>2. CASE fwd'[j].blk = tx'.blk
      BY <2>2, <3>2
    <3>. QED  BY <1>4, <3>1, <3>2
  <2>4. rx'.count <= tx'.blk
    BY <1>n, <1>3, <2>1
  <2>. QED  BY <2>2, <2>3, <2>4 DEF Ordered
<1>7. Window'
  <2>1. PICK a \in Int, b \in Int : a = tx'.blk + Acks' + Owed' /\ b = tx.blk + Acks + Owed
    BY SMTT(40), <1>2, <1>n
  <2>2. a <= b
    <3>1. PICK t \in Nat, u \in Nat, c \in Nat, d \in Nat, o \in Nat :
            t = tx.blk /\ u = tx'.blk /\ c = Acks /\ d = Acks' /\ o = Owed
      BY <1>n
    <3>2. u + d <= t + c
      BY <1>3, <3>1
    <3>3. u + d + o <= t + c + o
      BY <3>2
    <3>. QED  BY <1>2, <2>1, <3>1, <3>3
  <2>3. tx'.blk + Acks' + Owed' <= rx'.count + 1 + FwdCap + RevCap + (IF Closing' THEN 1 ELSE 0)
    <3>1. PICK m \in Int : m = rx.count + 1 + FwdCap + RevCap + (IF Closing THEN 1 ELSE 0)
      BY SMTT(40), <1>n
    <3>2. b <= m
      BY <2>1, <3>1 DEF Order, Window
    <3>3. a <= m
      BY <2>2, <3>2
    <3>. QED  BY <1>1, <1>2, <2>1, <3>1, <3>3
  <2>4. ASSUME ~Closing', NEW i \in 1 .. Len(fwd')
        PROVE  tx'.blk + Acks' + Owed' + i <= fwd'[i].blk + 1 + FwdCap + RevCap
    <3>1. CASE i \in 1 .. Len(fwd) /\ fwd'[i] = fwd[i]
      <4>1. PICK m \in Int : m = fwd[i].blk + 1 + FwdCap + RevCap
        BY SMTT(40), <1>f, <1>n, <3>1
      <4>2. b + i <= m
        BY <1>2, <2>1, <2>4, <3>1, <4>1 DEF Order, Window
      <4>3. a + i <= m
        BY <2>2, <4>2
      <4>. QED  BY <2>1, <3>1, <4>1, <4>3
    <3>2. CASE fwd'[i].blk = tx'.blk
      <4>1. PICK t \in Nat, c \in Nat, o \in Nat :
              t = tx'.blk /\ c = Acks' /\ o = Owed' /\ c <= RevCap /\ o <= 1
        BY <1>2, <1>n
      <4>2. i \in Nat /\ i <= FwdCap /\ FwdCap \in Nat /\ RevCap \in Nat
        BY <1>n
      <4>3. c <= RevCap /\ o <= 1
        BY <4>1
      <4>4. t + c + o + i <= t + 1 + FwdCap + RevCap
        BY <4>2, <4>3
      <4>. QED  BY <3>2, <4>1, <4>4
    <3>. QED  BY <1>4, <3>1, <3>2
  <2>. QED  BY <2>3, <2>4 DEF Window
<1>8. StoredInOrder'
  BY <1>1 DEF Order, StoredInOrder
<1>. QED  BY <1>5, <1>6, <1>7, <1>8 DEF Order

\* What the receiver has before it is a block near the one it expects, and
\* blocks that near have different numbers: the number tells which block it is.
LEMMA HeadBlock ==
  ASSUME Basics, Order, ~Closing, fwd # << >>
  PROVE  /\ Head(fwd) = fwd[1] /\ 1 \in 1 .. Len(fwd) /\ Head(fwd).blk \in Nat
         /\ Head(fwd).pkt = rx.pkt => Head(fwd).blk = rx.count + 1
         /\ Head(fwd).pkt = rx.pkt - 1 => Head(fwd).blk = rx.count
<1>1. Head(fwd) = fwd[1] /\ 1 \in 1 .. Len(fwd)
  BY DEF Basics
<1>2. PICK h \in Nat : h = fwd[1].blk
  BY <1>1 DEF Basics
<1>3. PICK d \in Nat : d = rx.count
  BY DEF Basics
<1>4. d <= h /\ h <= tx.blk /\ tx.blk \in Nat /\ fwd[1].pkt = h % PMod /\ fwd[1].pkt \in 0 .. PMod - 1
      /\ rx.pkt = (d + 1) % PMod
  BY <1>1, <1>2, <1>3 DEF Order, Ordered, Numbered, Basics
<1>5. FwdCap \in Nat /\ RevCap \in Nat /\ PMod \in Nat \ {0} /\ PMod > FwdCap + RevCap + 1
  BY Sizes, NumbersSuffice, PModPositive
<1>6. h <= d + 1 + FwdCap + RevCap
  <2>1. tx.blk + Acks + Owed <= rx.count + 1 + FwdCap + RevCap + (IF Closing THEN 1 ELSE 0)
    BY DEF Order, Window
  <2>2. (IF Closing THEN 1 ELSE 0) = 0 /\ Acks \in Nat /\ Owed \in Nat
    BY DEF Basics
  <2>3. tx.blk + Acks + Owed <= d + 1 + FwdCap + RevCap + 0
    BY <1>3, <2>1, <2>2
  <2>. QED  BY SMTT(40), <1>4, <1>5, <2>2, <2>3
<1>7. ASSUME fwd[1].pkt = rx.pkt PROVE h = d + 1
  <2>1. h - (d + 1) < PMod /\ (d + 1) - h < PMod
    BY <1>4, <1>5, <1>6
  <2>2. h % PMod = (d + 1) % PMod /\ d + 1 \in Nat
    BY <1>4, <1>7
  <2>. QED  BY <1>5, <2>1, <2>2, ModUnique
<1>8. ASSUME fwd[1].pkt = rx.pkt - 1 PROVE h = d
  <2>1. (d + 1) % PMod # 0
    BY <1>4, <1>5, <1>8
  <2>2. h % PMod = d % PMod
    BY <1>4, <1>5, <1>8, <2>1, ModPred
  <2>3. h - d < PMod /\ d - h < PMod
    BY <1>4, <1>5, <1>6
  <2>. QED  BY <1>5, <2>2, <2>3, ModUnique
<1>. QED  BY <1>1, <1>2, <1>3, <1>7, <1>8

\* The channel towards the receiver after a step of the receiver: what it
\* consumed, if anything, was the token in front.
LEMMA Shifted ==
  ASSUME Basics, Basics', Shift
  PROVE  \E s \in 0 .. 1 :
           /\ fwd # << >> /\ fwd' = Tail(fwd) => s = 1
           /\ \A i \in 1 .. Len(fwd') :
                /\ i + s \in 1 .. Len(fwd)
                /\ fwd'[i].blk = fwd[i + s].blk /\ fwd'[i].pkt = fwd[i + s].pkt
                /\ fwd'[i].kind = "frame" => fwd[i + s].kind = "frame"
<1>1. CASE fwd' = fwd /\ ~(fwd # << >> /\ fwd' = Tail(fwd))
  <2>1. \A i \in 1 .. Len(fwd') : i + 0 = i
    BY DEF Basics
  <2>. QED  BY <1>1, <2>1
<1>2. CASE fwd # << >> /\ fwd' = Tail(fwd)
  <2>1. /\ Len(fwd') = Len(fwd) - 1 /\ Len(fwd) \in Nat
        /\ \A i \in 1 .. Len(fwd) - 1 : fwd'[i] = fwd[i + 1]
    BY <1>2, TailFacts DEF Basics
  <2>2. \A i \in 1 .. Len(fwd') : i + 1 \in 1 .. Len(fwd) /\ fwd'[i] = fwd[i + 1]
    BY <2>1
  <2>. QED  BY <2>2
<1>3. CASE Beheaded /\ ~(fwd # << >> /\ fwd' = Tail(fwd))
  <2>1. /\ \A i \in 1 .. Len(fwd) : i + 0 = i
        /\ \A i \in 1 .. Len(fwd) : /\ fwd'[i].blk = fwd[i].blk /\ fwd'[i].pkt = fwd[i].pkt
                                    /\ fwd'[i].kind = "frame" => fwd[i].kind = "frame"
        /\ Len(fwd') = Len(fwd)
    BY <1>3 DEF Basics, Beheaded
  <2>2. \A i \in 1 .. Len(fwd') : i \in 1 .. Len(fwd) /\ i + 0 = i
    BY <2>1
  <2>3. ASSUME NEW i \in 1 .. Len(fwd')
        PROVE  /\ i + 0 \in 1 .. Len(fwd)
               /\ fwd'[i].blk = fwd[i + 0].blk /\ fwd'[i].pkt = fwd[i + 0].pkt
               /\ fwd'[i].kind = "frame" => fwd[i + 0].kind = "frame"
    <3>1. i + 0 = i /\ i \in 1 .. Len(fwd)
      BY <2>2
    <3>2. fwd'[i].blk = fwd[i].blk /\ fwd'[i].pkt = fwd[i].pkt
      BY <2>1, <3>1
    <3>3. fwd'[i].kind = "frame" => fwd[i].kind = "frame"
      BY <2>1, <3>1
    <3>. QED  BY <3>1, <3>2, <3>3
  <2>. QED  BY <1>3, <2>3
<1>. QED  BY <1>1, <1>2, <1>3 DEF Shift

LEMMA RxOrder ==
  ASSUME Basics, Basics', Order, RxShape
  PROVE  Order'
<1>1. tx' = tx /\ rx'.count \in Nat
  BY DEF RxShape, Basics
<1>u. tx.blk \in Nat /\ rx.count \in Nat /\ FwdCap \in Nat /\ RevCap \in Nat /\ Len(fwd) \in Nat
  BY Sizes DEF Basics
<1>c. PICK c \in Nat, k \in Nat : c = Credit /\ k = Credit'
  <2>1. Credit \in Nat
    BY DEF Credit, Basics
  <2>2. Credit' \in Nat
    <3>1. PICK a \in Nat, o \in Nat : a = Acks' /\ o = Owed'
      BY DEF Basics
    <3>2. a + o \in Nat
      OBVIOUS
    <3>. QED  BY <3>1, <3>2 DEF Credit
  <2>. QED  BY <2>1, <2>2
<1>e. PICK e \in Nat, f \in Nat : /\ e = (IF Closing THEN 1 ELSE 0)
                                       /\ f = (IF Closing' THEN 1 ELSE 0)
  OBVIOUS
<1>s. tx'.blk + Acks' + Owed' = tx.blk + k /\ tx.blk + Acks + Owed = tx.blk + c
  <2>1. tx.blk + Acks + Owed = tx.blk + (Acks + Owed)
    <3>1. Acks \in Nat /\ Owed \in Nat
      BY DEF Basics
    <3>. QED  BY <1>u, <3>1
  <2>2. PICK a \in Nat, o \in Nat : a = Acks' /\ o = Owed'
    BY DEF Basics
  <2>3. tx.blk + a + o = tx.blk + (a + o)
    BY <1>u
  <2>. QED  BY <1>1, <1>c, <2>1, <2>2, <2>3 DEF Credit
<1>2. PICK s \in 0 .. 1 :
        /\ fwd # << >> /\ fwd' = Tail(fwd) => s = 1
        /\ \A i \in 1 .. Len(fwd') : /\ i + s \in 1 .. Len(fwd)
                                     /\ fwd'[i].blk = fwd[i + s].blk /\ fwd'[i].pkt = fwd[i + s].pkt
  BY Shifted DEF RxShape
<1>3. \A i \in 1 .. Len(fwd) : fwd[i].blk \in Nat
  BY DEF Basics
<1>4. ASSUME ~Closing, fwd # << >>
      PROVE  /\ Head(fwd) = fwd[1] /\ 1 \in 1 .. Len(fwd)
             /\ Head(fwd).pkt = rx.pkt => Head(fwd).blk = rx.count + 1
             /\ Head(fwd).pkt = rx.pkt - 1 => Head(fwd).blk = rx.count
  BY <1>4, HeadBlock
<1>5. Numbered'
  <2>1. tx'.pkt = tx'.blk % PMod
    BY <1>1 DEF Order, Numbered
  <2>2. \A i \in 1 .. Len(fwd') : fwd'[i].pkt = fwd'[i].blk % PMod
    BY <1>2 DEF Order, Numbered
  <2>3. rx'.pkt = (rx'.count + 1) % PMod
    <3>1. rx.pkt = (rx.count + 1) % PMod
      BY DEF Order, Numbered
    <3>2. CASE rx'.count = rx.count /\ rx'.pkt = rx.pkt
      BY <3>1, <3>2
    <3>3. CASE rx'.count = rx.count + 1 /\ rx'.pkt = (rx.pkt + 1) % PMod
      <4>1. rx.count + 1 \in Nat
        BY <1>u
      <4>2. (((rx.count + 1) % PMod) + 1) % PMod = (rx.count + 1 + 1) % PMod
        BY <4>1, ModSucc, PModPositive
      <4>. QED  BY <3>1, <3>3, <4>2
    <3>. QED  BY <3>2, <3>3 DEF RxShape, RxQuiet, RxRepeats, RxTakes
  <2>. QED  BY <2>1, <2>2, <2>3 DEF Numbered
<1>6. PICK d \in Nat : d = rx'.count
  BY <1>1
<1>7. Ordered'
  <2>1. /\ rx.count <= tx.blk
        /\ \A i \in 1 .. Len(fwd) : rx.count <= fwd[i].blk /\ fwd[i].blk <= tx.blk
        /\ \A i, j \in 1 .. Len(fwd) : i <= j => fwd[i].blk <= fwd[j].blk
    BY DEF Order, Ordered
  <2>2. d <= tx.blk /\ \A i \in 1 .. Len(fwd') : d <= fwd[i + s].blk
    <3>1. CASE rx'.count = rx.count
      BY <1>2, <1>6, <2>1, <3>1
    <3>2. CASE RxTakes
      <4>1. d = fwd[1].blk /\ 1 \in 1 .. Len(fwd) /\ s = 1
        BY <1>2, <1>4, <1>6, <3>2 DEF RxTakes
      <4>2. \A i \in 1 .. Len(fwd') : i + s \in 1 .. Len(fwd) /\ 1 <= i + s
        BY <1>2
      <4>. QED  BY <2>1, <4>1, <4>2
    <3>. QED  BY <3>1, <3>2 DEF RxShape, RxQuiet, RxRepeats
  <2>3. \A i \in 1 .. Len(fwd') : d <= fwd'[i].blk /\ fwd'[i].blk <= tx.blk
    BY <1>2, <2>1, <2>2
  <2>4. ASSUME NEW i \in 1 .. Len(fwd'), NEW j \in 1 .. Len(fwd'), i <= j
        PROVE  fwd'[i].blk <= fwd'[j].blk
    <3>1. i + s \in 1 .. Len(fwd) /\ j + s \in 1 .. Len(fwd) /\ i + s <= j + s
      BY <1>2, <2>4
    <3>. QED  BY <1>2, <2>1, <3>1
  <2>. QED  BY <1>1, <1>6, <2>2, <2>3, <2>4 DEF Ordered
<1>8. Window'
  <2>1. PICK b \in Nat, n \in Nat, m \in Nat :
          b = tx.blk /\ n = rx.count /\ m = 1 + FwdCap + RevCap
    BY <1>u
  <2>2. b + c <= n + m + e
    <3>1. tx.blk + c <= rx.count + 1 + FwdCap + RevCap + e
      BY <1>s, <1>e DEF Order, Window
    <3>2. n + 1 + FwdCap + RevCap + e = n + m + e
      BY <1>u, <2>1
    <3>. QED  BY <2>1, <3>1, <3>2
  <2>3. ASSUME ~Closing, NEW i \in 1 .. Len(fwd)
        PROVE  b + c + i <= fwd[i].blk + m
    <3>1. PICK x \in Nat : x = fwd[i].blk
      BY <1>3
    <3>2. tx.blk + c + i <= fwd[i].blk + 1 + FwdCap + RevCap
      BY <1>s, <2>3 DEF Order, Window
    <3>3. x + 1 + FwdCap + RevCap = x + m
      BY <1>u, <2>1
    <3>. QED  BY <2>1, <3>1, <3>2, <3>3
  <2>4. (Closing => Closing') /\ (~Closing' => k <= c + s)
    BY <1>2, <1>c DEF RxShape, RxQuiet, RxRepeats, RxTakes
  <2>5. b + k <= d + m + f
    <3>1. CASE RxQuiet
      <4>1. d = n /\ k <= c + (IF Closing' /\ ~Closing THEN 1 ELSE 0)
        BY <1>6, <1>c, <2>1, <3>1 DEF RxQuiet
      <4>2. k + e <= c + f
        BY <1>e, <2>4, <4>1
      <4>. QED  BY <2>2, <4>1, <4>2
    <3>2. CASE RxRepeats
      <4>1. d = n /\ fwd[1].blk = d /\ 1 \in 1 .. Len(fwd) /\ ~Closing /\ k <= c + 1
        BY <1>4, <1>6, <1>c, <2>1, <3>2 DEF RxRepeats
      <4>2. b + c + 1 <= d + m
        BY <2>3, <4>1
      <4>. QED  BY <4>1, <4>2
    <3>3. CASE RxTakes
      <4>1. d = n + 1 /\ k <= c + 1 /\ e = 0
        BY <1>6, <1>c, <1>e, <2>1, <3>3 DEF RxTakes
      <4>. QED  BY <2>2, <4>1
    <3>. QED  BY <3>1, <3>2, <3>3 DEF RxShape
  <2>6. ASSUME ~Closing', NEW i \in 1 .. Len(fwd')
        PROVE  b + k + i <= fwd[i + s].blk + m
    <3>1. i + s \in 1 .. Len(fwd) /\ i \in Nat
      BY <1>2
    <3>2. PICK j \in Nat, x \in Nat : j = i /\ x = fwd[i + s].blk
      BY <1>3, <3>1
    <3>3. b + c + (j + s) <= x + m
      BY <2>3, <2>4, <2>6, <3>1, <3>2
    <3>4. k <= c + s
      BY <2>4, <2>6
    <3>5. b + k + j <= x + m
      BY <3>3, <3>4
    <3>. QED  BY <3>2, <3>5
  <2>7. tx'.blk + Acks' + Owed' <= rx'.count + 1 + FwdCap + RevCap + (IF Closing' THEN 1 ELSE 0)
    <3>1. d + m + f = d + 1 + FwdCap + RevCap + f
      BY <1>u, <2>1
    <3>. QED  BY <1>6, <1>e, <1>s, <2>1, <2>5, <3>1
  <2>8. ASSUME ~Closing', NEW i \in 1 .. Len(fwd')
        PROVE  tx'.blk + Acks' + Owed' + i <= fwd'[i].blk + 1 + FwdCap + RevCap
    <3>1. PICK x \in Nat : x = fwd[i + s].blk
      BY <1>2, <1>3
    <3>2. x + m = x + 1 + FwdCap + RevCap
      BY <1>u, <2>1
    <3>. QED  BY <1>2, <1>s, <2>1, <2>6, <2>8, <3>1, <3>2
  <2>. QED  BY <2>7, <2>8 DEF Window
<1>9. StoredInOrder'
  <2>1. /\ \A i, j \in 1 .. Len(stored) : i < j => stored[i] < stored[j]
        /\ \A i \in 1 .. Len(stored) : stored[i] \in 1 .. rx.count /\ stored[i] \in Nat
        /\ Len(stored) + (WriteErrors - env.write) = rx.count
        /\ Len(stored) \in Nat /\ env.write \in Nat /\ WriteErrors \in Nat /\ stored \in Seq(Nat)
    BY Sizes DEF Order, StoredInOrder, Basics
  <2>2. CASE RxQuiet \/ RxRepeats
    BY <2>2 DEF Order, StoredInOrder, RxQuiet, RxRepeats
  <2>3. CASE RxTakes /\ stored' = stored
    <3>1. stored' = stored /\ rx'.count = rx.count + 1 /\ env'.write = env.write - 1
      <4>1. stored' # Append(stored, Head(fwd).blk)
        BY <2>1, <2>3
      <4>. QED  BY <2>3, <4>1 DEF RxTakes
    <3>2. Len(stored) + (WriteErrors - (env.write - 1)) = rx.count + 1
      <4>1. PICK l \in Nat, w \in Nat, r \in Nat :
              l = Len(stored) /\ w = env.write /\ r = rx.count /\ l + (WriteErrors - w) = r
        BY <1>u, <2>1
      <4>2. l + (WriteErrors - (w - 1)) = r + 1
        BY SMTT(40), <2>1, <4>1
      <4>. QED  BY <4>1, <4>2
    <3>3. \A i \in 1 .. Len(stored) : stored[i] \in 1 .. rx.count + 1
      <4>1. PICK n \in Nat : n = rx.count
        BY <1>u
      <4>2. \A i \in 1 .. Len(stored) : stored[i] \in 1 .. n
        BY <2>1, <4>1
      <4>3. \A i \in 1 .. Len(stored) : stored[i] \in 1 .. n + 1
        BY <4>2
      <4>. QED  BY <4>1, <4>3
    <3>. QED  BY <2>1, <3>1, <3>2, <3>3 DEF StoredInOrder
  <2>4. CASE RxTakes /\ stored' # stored
    <3>1. stored' = Append(stored, rx.count + 1) /\ rx'.count = rx.count + 1 /\ env'.write = env.write
      BY <1>4, <2>4 DEF RxTakes
    <3>0. PICK n \in Nat : n = rx.count
      BY <1>u
    <3>2. PICK ns \in Seq(Nat) : ns = Append(stored, n + 1)
      <4>1. stored \in Seq(Nat) /\ n + 1 \in Nat
        BY <2>1
      <4>2. Append(stored, n + 1) \in Seq(Nat)
        BY <4>1
      <4>. QED  BY <4>2
    <3>3. Len(ns) = Len(stored) + 1 /\ ns[Len(stored) + 1] = n + 1
          /\ \A i \in 1 .. Len(stored) : ns[i] = stored[i]
      BY <2>1, <3>2
    <3>4. \A i \in 1 .. Len(ns) : i \in 1 .. Len(stored) \/ i = Len(stored) + 1
      BY <2>1, <3>3
    <3>5. \A i \in 1 .. Len(ns) : ns[i] \in 1 .. n + 1
      <4>1. \A i \in 1 .. Len(stored) : stored[i] \in 1 .. n
        BY <2>1, <3>0
      <4>2. n + 1 \in 1 .. n + 1 /\ \A x \in 1 .. n : x \in 1 .. n + 1
        OBVIOUS
      <4>. QED  BY <3>3, <3>4, <4>1, <4>2
    <3>6. \A i, j \in 1 .. Len(ns) : i < j => ns[i] < ns[j]
      <4>. SUFFICES ASSUME NEW i \in 1 .. Len(ns), NEW j \in 1 .. Len(ns), i < j PROVE ns[i] < ns[j]
        OBVIOUS
      <4>1. i \in 1 .. Len(stored)
        BY <2>1, <3>3, <3>4
      <4>2. CASE j \in 1 .. Len(stored)
        BY <2>1, <3>3, <4>1, <4>2
      <4>3. CASE j = Len(stored) + 1
        BY SMTT(40), <2>1, <3>0, <3>3, <4>1, <4>3
      <4>. QED  BY <3>4, <4>2, <4>3
    <3>7. Len(ns) + (WriteErrors - env.write) = n + 1
      <4>1. PICK l \in Nat, w \in Nat : l = Len(stored) /\ w = env.write
        BY <2>1
      <4>2. l + (WriteErrors - w) = n /\ WriteErrors \in Nat
        BY <2>1, <3>0, <4>1
      <4>3. (l + 1) + (WriteErrors - w) = n + 1
        BY <4>2
      <4>. QED  BY <3>3, <4>1, <4>3
    <3>8. stored' = ns /\ rx'.count = n + 1 /\ env'.write = env.write
      BY <3>0, <3>1, <3>2
    <3>. QED  BY <3>5, <3>6, <3>7, <3>8 DEF StoredInOrder
  <2>. QED  BY <2>2, <2>3, <2>4 DEF RxShape
<1>. QED  BY <1>5, <1>7, <1>8, <1>9 DEF Order

LEMMA TickOrder ==
  ASSUME Order, TickShape
  PROVE  Order'
<1>1. /\ tx'.blk = tx.blk /\ tx'.pkt = tx.pkt /\ rx'.count = rx.count /\ rx'.pkt = rx.pkt
      /\ fwd' = fwd /\ rev' = rev /\ stored' = stored /\ env' = env
  BY DEF TickShape
<1>2. Acks' = Acks /\ Owed' = Owed /\ (Closing' <=> Closing)
  <2>1. rx'.pc = rx.pc /\ rx'.after = rx.after
    BY DEF TickShape
  <2>. QED  BY <1>1, <2>1 DEF Acks, Owed, Closing
<1>3. Numbered'
  BY <1>1 DEF Order, Numbered
<1>4. Ordered'
  BY <1>1 DEF Order, Ordered
<1>5. Window'
  BY <1>1, <1>2 DEF Order, Window
<1>6. StoredInOrder'
  BY <1>1 DEF Order, StoredInOrder
<1>. QED  BY <1>3, <1>4, <1>5, <1>6 DEF Order

LEMMA NextOrder ==
  ASSUME Typed, Typed', Order, [Next]_vars
  PROVE  Order'
<1>1. Basics
  BY TypesGiveBasics DEF Typed
<1>2. Basics'
  BY TypesGiveBasics, PTL DEF Typed
<1>3. CASE TxShape
  BY <1>1, <1>2, <1>3, TxOrder
<1>4. CASE RxShape
  BY <1>1, <1>2, <1>4, RxOrder
<1>5. CASE TickShape
  BY <1>5, TickOrder
<1>. QED  BY <1>3, <1>4, <1>5, NextShape

LEMMA OrderInvariant == Spec => [](Typed /\ Order)
<1>1. Init => Typed /\ Order
  BY InitTyped, InitOrder
<1>2. Typed /\ Order /\ [Next]_vars => (Typed /\ Order)'
  BY NextTyped, NextOrder
<1>. QED  BY <1>1, <1>2, PTL DEF Spec

\* The file receives the blocks in their order, none twice: a packet number,
\* which wraps, always tells which block a frame carries.
THEOREM OrderCorrect == Spec => []StoredInOrder
<1>1. Typed /\ Order => StoredInOrder
  BY DEF Order
<1>. QED  BY <1>1, OrderInvariant, PTL

LEMMA LeadOfOrder ==
  ASSUME Typed, Order
  PROVE  BoundedLead
<1>1. rx.count <= tx.blk
  BY DEF Order, Ordered
<1>2. PICK b \in Nat, n \in Nat, a \in Nat, o \in Nat :
        b = tx.blk /\ n = rx.count /\ a = Acks /\ o = Owed
  BY TypesGiveBasics DEF Typed, Basics
<1>3. b + a + o <= n + 1 + FwdCap + RevCap + (IF Closing THEN 1 ELSE 0)
  BY <1>2 DEF Order, Window
<1>4. b <= n + FwdCap + RevCap + (IF Closing THEN 2 ELSE 1)
  BY <1>3, Sizes
<1>. QED  BY <1>1, <1>2, <1>4 DEF BoundedLead

\* The sender never counts more blocks than the acknowledgements in flight allow.
THEOREM LeadBounded == Spec => []BoundedLead
<1>1. Typed /\ Order => BoundedLead
  BY LeadOfOrder
<1>. QED  BY <1>1, OrderInvariant, PTL

(* Frames carry blocks of the file. *)

FramesWithin == \A i \in 1 .. Len(fwd) : fwd[i].kind = "frame" => fwd[i].blk <= NBlocks

LEMMA InitFrames == Init => FramesWithin
<1>1. Len(<< >>) = 0
  OBVIOUS
<1>. QED  BY <1>1 DEF Init, FramesWithin

LEMMA NextFrames ==
  ASSUME Typed, Typed', FramesWithin, [Next]_vars
  PROVE  FramesWithin'
<1>1. Basics
  BY TypesGiveBasics DEF Typed
<1>2. Basics'
  BY TypesGiveBasics, PTL DEF Typed
<1>3. CASE TxShape
  <2>1. Grown(fwd', fwd, FwdCap, Fresh(tx'.blk, tx'.pkt)) /\ Len(fwd) \in Nat /\ Len(fwd') \in Nat
    BY <1>1, <1>2, <1>3 DEF TxShape, Sent, Basics
  <2>. SUFFICES ASSUME NEW i \in 1 .. Len(fwd'), fwd'[i].kind = "frame"
                PROVE  fwd'[i].blk <= NBlocks
    BY DEF FramesWithin
  <2>2. CASE i <= Len(fwd)
    BY <2>1, <2>2 DEF Grown, FramesWithin
  <2>3. CASE i > Len(fwd)
    <3>1. fwd'[i] \in Fresh(tx'.blk, tx'.pkt)
      BY <2>1, <2>3 DEF Grown
    <3>. QED  BY <3>1 DEF Fresh
  <2>. QED  BY <2>1, <2>2, <2>3
<1>4. CASE RxShape
  <2>1. PICK s \in 0 .. 1 :
          \A i \in 1 .. Len(fwd') : /\ i + s \in 1 .. Len(fwd) /\ fwd'[i].blk = fwd[i + s].blk
                                    /\ fwd'[i].kind = "frame" => fwd[i + s].kind = "frame"
    BY <1>1, <1>2, <1>4, Shifted DEF RxShape
  <2>2. \A i \in 1 .. Len(fwd) : fwd[i].kind = "frame" => fwd[i].blk <= NBlocks
    BY DEF FramesWithin
  <2>3. ASSUME NEW i \in 1 .. Len(fwd'), fwd'[i].kind = "frame"
        PROVE  fwd'[i].blk <= NBlocks
    <3>1. i + s \in 1 .. Len(fwd) /\ fwd'[i].blk = fwd[i + s].blk
      BY <2>1
    <3>2. fwd[i + s].kind = "frame"
      BY <2>1, <2>3
    <3>. QED  BY <2>2, <3>1, <3>2
  <2>. QED  BY <2>3 DEF FramesWithin
<1>5. CASE TickShape
  BY <1>5 DEF TickShape, FramesWithin
<1>. QED  BY <1>3, <1>4, <1>5, NextShape

-----------------------------------------------------------------------------
(* Each end decides once. *)

TxEnded(t) == t.pc \in {"flush", "done"}
RxEnded(r) == r.pc = "done" \/ (r.pc = "flush" /\ r.after # "none")

\* What the sender decided it keeps, and it counts a block only while it goes on.
TxKeeps ==
  /\ TxEnded(tx) => TxEnded(tx') /\ tx'.res = tx.res /\ tx'.blk = tx.blk
  /\ tx'.blk # tx.blk => ~TxEnded(tx) /\ ~TxEnded(tx') /\ tx.blk <= NBlocks

LEMMA StartTransEnds ==
  ASSUME NEW t \in Sender, StartTrans(t)
  PROVE  tx'.blk = t.blk /\ ~TxEnded(tx')
  BY DEF StartTrans, SendFrame, SendEot, TxEnded, Sender

LEMMA GiveUpKeeps ==
  ASSUME tx \in Sender, NEW r, TxEnd(r)
  PROVE  tx'.blk = tx.blk
  BY DEF TxEnd, Sender

LEMMA RetryKeeps ==
  ASSUME tx \in Sender, SyncRetry \/ FrameRetry \/ EotRetry
  PROVE  tx'.blk = tx.blk
<1>1. CASE SyncRetry
  BY <1>1, GiveUpKeeps DEF SyncRetry, GiveUp, Sender
<1>2. CASE FrameRetry
  BY <1>2, GiveUpKeeps DEF FrameRetry, GiveUp, SendFrame, Sender
<1>3. CASE EotRetry
  BY <1>3, GiveUpKeeps DEF EotRetry, SendEot, Sender
<1>. QED  BY <1>1, <1>2, <1>3

LEMMA TxDecidesOnce ==
  ASSUME TypeOK, TxWithin, TxStart \/ TxStep
  PROVE  TxKeeps
<1>0. tx \in Sender
  BY DEF TypeOK
<1>. USE DEF TxEnded
<1>1. CASE TxStart
  BY <1>0, <1>1 DEF TxStart, TxKeeps, Sender
<1>2. CASE TxSyncByte
  <2>1. CASE StartTrans([tx EXCEPT !.crc = Head(rev) = "C"])
    <3>1. [tx EXCEPT !.crc = Head(rev) = "C"] \in Sender
          /\ [tx EXCEPT !.crc = Head(rev) = "C"].blk = tx.blk
      BY <1>0 DEF Sender
    <3>. QED  BY <1>2, <2>1, <3>1, StartTransEnds DEF TxSyncByte, TxKeeps
  <2>2. CASE tx' = [tx EXCEPT !.pc = "syncCan", !.timer = ByteWait]
    BY <1>0, <1>2, <2>2 DEF TxSyncByte, TxKeeps, Sender
  <2>3. CASE SyncRetry
    <3>1. tx.pc = "sync" /\ tx'.blk = tx.blk
      BY <1>0, <1>2, <2>3, RetryKeeps DEF TxSyncByte
    <3>. QED  BY <3>1 DEF TxKeeps
  <2>. QED  BY <1>2, <2>1, <2>2, <2>3 DEF TxSyncByte
<1>3. CASE TxAnswer
  <2>1. tx.pc = "wait" /\ tx.blk <= NBlocks
    BY <1>3 DEF TxAnswer, TxWithin
  <2>2. CASE StartTrans([tx EXCEPT !.blk = @ + 1, !.pkt = (@ + 1) % PMod])
    <3>1. tx.blk + 1 \in Nat /\ (tx.pkt + 1) % PMod \in 0 .. PMod - 1
      <4>1. tx.pkt + 1 \in Nat /\ tx.blk + 1 \in Nat
        BY <1>0 DEF Sender
      <4>. QED  BY <4>1, ModRange, PModPositive
    <3>2. [tx EXCEPT !.blk = tx.blk + 1, !.pkt = (tx.pkt + 1) % PMod] \in Sender
      BY <1>0, <3>1 DEF Sender
    <3>3. ~TxEnded(tx')
      BY <2>2, <3>2, StartTransEnds
    <3>. QED  BY <2>1, <3>3 DEF TxKeeps
  <2>3. CASE tx' = [tx EXCEPT !.pc = "waitCan", !.timer = ByteWait] \/ FrameRetry
    BY <1>0, <2>1, <2>3, RetryKeeps DEF TxKeeps, Sender
  <2>. QED  BY <1>3, <2>2, <2>3 DEF TxAnswer
<1>4. CASE TxEotAnswer
  BY <1>0, <1>4, RetryKeeps, GiveUpKeeps DEF TxEotAnswer, TxKeeps
<1>5. CASE TxCanByte
  BY <1>0, <1>5, RetryKeeps, GiveUpKeeps DEF TxCanByte, TxCancelled, TxKeeps
<1>6. CASE TxTimeout
  <2>1. CASE tx.pc = "flush" /\ tx' = [tx EXCEPT !.pc = "done"]
    BY <1>0, <2>1 DEF TxKeeps, Sender
  <2>2. CASE ~TxEnded(tx) /\ (SyncRetry \/ FrameRetry \/ EotRetry)
    BY <1>0, <2>2, RetryKeeps DEF TxKeeps
  <2>. QED  BY <1>6, <2>1, <2>2 DEF TxTimeout
<1>7. CASE TxFlushByte
  BY <1>0, <1>7 DEF TxFlushByte, TxKeeps, Sender
<1>. QED  BY <1>1, <1>2, <1>3, <1>4, <1>5, <1>6, <1>7 DEF TxStep

\* What the receiver decided it keeps, and it counts a block only while it goes on.
RxKeeps ==
  /\ RxEnded(rx) => RxEnded(rx') /\ rx'.after = rx.after /\ rx'.count = rx.count
  /\ rx'.count # rx.count => ~RxEnded(rx) /\ ~RxEnded(rx')

LEMMA NextTryKeeps ==
  ASSUME rx \in Receiver, NextTry
  PROVE  rx'.count = rx.count
  BY DEF NextTry, Listen, Flush, Receiver

LEMMA RxDecidesOnce ==
  ASSUME TypeOK, RxStart \/ RxStep
  PROVE  RxKeeps
<1>0. rx \in Receiver
  BY DEF TypeOK
<1>. USE DEF RxEnded
<1>1. CASE RxStart
  BY <1>0, <1>1 DEF RxStart, Listen, RxKeeps, Receiver
<1>2. CASE RxJunk \/ RxCanByte
  BY <1>0, <1>2, NextTryKeeps DEF RxJunk, RxCanByte, Flush, RxKeeps, Receiver
<1>3. CASE RxEot \/ RxCan
  BY <1>0, <1>3 DEF RxEot, RxCan, Flush, RxKeeps, Receiver
<1>4. CASE RxAccept
  <2>1. rx.pc = "idle"
    BY <1>4 DEF RxAccept, RxGood
  <2>2. rx'.pc = "write"
    BY <1>0, <1>4 DEF RxAccept, Started, Receiver
  <2>. QED  BY <2>1, <2>2 DEF RxKeeps
<1>5. CASE RxAck
  BY <1>0, <1>5 DEF RxAck, Listen, RxKeeps, Receiver
<1>6. CASE RxAgain
  BY <1>0, <1>6 DEF RxAgain, RxGood, Listen, Flush, Started, RxKeeps, Receiver
<1>7. CASE RxReject \/ RxShort
  BY <1>0, <1>7 DEF RxReject, RxShort, Flush, Started, RxKeeps, Receiver
<1>8. CASE RxBodyByte \/ RxFlushByte
  BY <1>0, <1>8 DEF RxBodyByte, RxFlushByte, Flush, RxKeeps, Receiver
<1>9. CASE RxFlushed
  BY <1>0, <1>9 DEF RxFlushed, Listen, RxKeeps, Receiver
<1>10. CASE RxTimeout
  BY <1>0, <1>10, NextTryKeeps DEF RxTimeout, Flush, RxKeeps, Receiver
<1>. QED  BY <1>1, <1>2, <1>3, <1>4, <1>5, <1>6, <1>7, <1>8, <1>9, <1>10 DEF RxStep

-----------------------------------------------------------------------------
(* Unless frames are acknowledged again, an acknowledgement is a block.     *)

\* The sender takes the last ACK for its verdict, and sends EOT after the last
\* block, or when a read fails.
TxCloses ==
  /\ TxEnded(tx') /\ tx'.res = "ok" /\ ~(TxEnded(tx) /\ tx.res = "ok")
       => tx.pc = "eot" /\ rev # << >> /\ Head(rev) = "ACK" /\ rev' = Tail(rev)
  /\ tx'.pc = "eot" /\ tx.pc # "eot"
       => tx'.blk > NBlocks \/ env'.read < env.read

LEMMA EotAtEnd ==
  ASSUME env \in Budgets, NEW t \in Sender, StartTrans(t)
  PROVE  /\ tx'.blk = t.blk /\ ~TxEnded(tx')
         /\ tx'.pc = "eot" => tx'.blk > NBlocks \/ env'.read < env.read
<1>1. tx'.blk = t.blk /\ ~TxEnded(tx')
  BY StartTransEnds
<1>2. ASSUME tx'.pc = "eot" PROVE tx'.blk > NBlocks \/ env'.read < env.read
  <2>1. PICK e \in AtEnd(t.blk) : SendEot([t EXCEPT !.retry = 0], e)
    BY <1>2 DEF StartTrans, SendFrame, Sender
  <2>2. e = env \/ e.damage \in Int
    BY <2>1 DEF AtEnd, Spent, Budgets
  <2>3. CASE t.blk > NBlocks
    BY <1>1, <2>3
  <2>4. CASE ~(t.blk > NBlocks)
    <3>1. env.read > 0 /\ e = Spent(env, "read")
      BY <2>1, <2>4 DEF AtEnd
    <3>2. e \in Budgets /\ e.read = env.read - 1
      BY <3>1, SpentBudgets
    <3>3. env' = e \/ (e.damage > 0 /\ env' = Spent(e, "damage"))
      BY <2>1 DEF SendEot, ToReceiver
    <3>4. env'.read = e.read
      BY <3>2, <3>3, SpentBudgets
    <3>. QED  BY <3>2, <3>4 DEF Budgets
  <2>. QED  BY <2>3, <2>4
<1>. QED  BY <1>1, <1>2

LEMMA RetryCloses ==
  ASSUME tx \in Sender, SyncRetry \/ FrameRetry \/ (EotRetry /\ tx.pc = "eot")
  PROVE  /\ tx'.pc = "eot" => tx.pc = "eot"
         /\ TxEnded(tx') => tx'.res # "ok"
<1>. USE DEF TxEnded
<1>1. CASE SyncRetry
  BY <1>1 DEF SyncRetry, GiveUp, TxEnd, Sender
<1>2. CASE FrameRetry
  BY <1>2 DEF FrameRetry, GiveUp, TxEnd, SendFrame, Sender
<1>3. CASE EotRetry /\ tx.pc = "eot"
  BY <1>3 DEF EotRetry, TxEnd, SendEot, Sender
<1>. QED  BY <1>1, <1>2, <1>3

LEMMA TxEotOnlyAtEnd ==
  ASSUME TypeOK, TxStart \/ TxStep
  PROVE  TxCloses
<1>0. tx \in Sender /\ env \in Budgets
  BY DEF TypeOK
<1>. USE DEF TxEnded
<1>1. CASE TxStart
  BY <1>0, <1>1 DEF TxStart, TxCloses, Sender
<1>2. CASE TxSyncByte
  <2>1. CASE StartTrans([tx EXCEPT !.crc = Head(rev) = "C"])
    <3>1. [tx EXCEPT !.crc = Head(rev) = "C"] \in Sender
      BY <1>0 DEF Sender
    <3>. QED  BY <1>0, <2>1, <3>1, EotAtEnd DEF TxCloses
  <2>2. CASE tx' = [tx EXCEPT !.pc = "syncCan", !.timer = ByteWait]
    BY <1>0, <2>2 DEF TxCloses, Sender
  <2>3. CASE SyncRetry
    BY <1>0, <2>3, RetryCloses DEF TxCloses
  <2>. QED  BY <1>2, <2>1, <2>2, <2>3 DEF TxSyncByte
<1>3. CASE TxAnswer
  <2>1. CASE StartTrans([tx EXCEPT !.blk = @ + 1, !.pkt = (@ + 1) % PMod])
    <3>1. tx.blk + 1 \in Nat /\ (tx.pkt + 1) % PMod \in 0 .. PMod - 1
      <4>1. tx.pkt + 1 \in Nat /\ tx.blk + 1 \in Nat
        BY <1>0 DEF Sender
      <4>. QED  BY <4>1, ModRange, PModPositive
    <3>2. [tx EXCEPT !.blk = tx.blk + 1, !.pkt = (tx.pkt + 1) % PMod] \in Sender
      BY <1>0, <3>1 DEF Sender
    <3>. QED  BY <1>0, <2>1, <3>2, EotAtEnd DEF TxCloses
  <2>2. CASE tx' = [tx EXCEPT !.pc = "waitCan", !.timer = ByteWait]
    BY <1>0, <2>2 DEF TxCloses, Sender
  <2>3. CASE FrameRetry
    BY <1>0, <2>3, RetryCloses DEF TxCloses
  <2>. QED  BY <1>3, <2>1, <2>2, <2>3 DEF TxAnswer
<1>4. CASE TxEotAnswer
  <2>1. tx.pc = "eot" /\ rev # << >> /\ rev' = Tail(rev)
    BY <1>4 DEF TxEotAnswer
  <2>2. CASE Head(rev) = "ACK"
    BY <2>1, <2>2 DEF TxCloses
  <2>3. CASE EotRetry
    BY <1>0, <2>1, <2>3, RetryCloses DEF TxCloses
  <2>. QED  BY <1>4, <2>2, <2>3 DEF TxEotAnswer
<1>5. CASE TxCanByte
  <2>1. CASE TxEnd("cancelled")
    BY <1>0, <2>1 DEF TxEnd, TxCloses, Sender
  <2>2. CASE SyncRetry \/ FrameRetry
    BY <1>0, <2>2, RetryCloses DEF TxCloses
  <2>. QED  BY <1>5, <2>1, <2>2 DEF TxCanByte, TxCancelled
<1>6. CASE TxTimeout
  <2>1. CASE tx.pc = "flush" /\ tx' = [tx EXCEPT !.pc = "done"]
    BY <1>0, <2>1 DEF TxCloses, Sender
  <2>2. CASE SyncRetry \/ FrameRetry \/ (EotRetry /\ tx.pc = "eot")
    BY <1>0, <2>2, RetryCloses DEF TxCloses
  <2>. QED  BY <1>6, <2>1, <2>2 DEF TxTimeout
<1>7. CASE TxFlushByte
  BY <1>0, <1>7 DEF TxFlushByte, TxCloses, Sender
<1>. QED  BY <1>1, <1>2, <1>3, <1>4, <1>5, <1>6, <1>7 DEF TxStep

\* What the sender counts and what it may yet count, against what the receiver does.
Verdict == IF Finished THEN 1 ELSE 0

LEMMA InitAccounted == Init => Accounted
<1> SUFFICES ASSUME Init PROVE Accounted
  OBVIOUS
<1>1. tx.blk = 1 /\ tx.pc = "off" /\ rx.pc = "off" /\ rx.count = 0 /\ rev = << >> /\ stored = << >>
      /\ env.write = WriteErrors
  BY DEF Init
<1>2. Acks = 0
  <2>1. AcksIn(<< >>) \in Nat /\ AcksIn(<< >>) <= Len(<< >>) /\ Len(<< >>) = 0
    <3>1. << >> \in Seq(Byte) /\ Len(<< >>) = 0
      OBVIOUS
    <3>. QED  BY <3>1, AcksType
  <2>. QED  BY <1>1, <2>1 DEF Acks
<1>3. Owed = 0 /\ ~Closing /\ ~Finished
  BY <1>1 DEF Owed, Closing, Finished
<1>4. \A i \in 1 .. Len(stored) : stored[i] = i
  BY <1>1
<1>. QED  BY <1>1, <1>2, <1>3, <1>4, Sizes DEF Accounted

LEMMA TxAccounted ==
  ASSUME Typed, Typed', Accounted, TxStart \/ TxStep
  PROVE  Accounted'
<1>1. TxShape /\ TxKeeps /\ TxCloses
  BY TxShapes, TxDecidesOnce, TxEotOnlyAtEnd DEF Typed
<1>2. Basics /\ Basics'
  <2>1. Basics
    BY TypesGiveBasics DEF Typed
  <2>2. Basics'
    BY TypesGiveBasics, PTL DEF Typed
  <2>. QED  BY <2>1, <2>2
<1>3. /\ rx' = rx /\ stored' = stored /\ reacked' = reacked
      /\ env'.write = env.write /\ env'.read <= env.read
      /\ TxWithin /\ TxWithin'
      /\ env.read <= ReadErrors /\ env.read \in Nat /\ env'.read \in Nat /\ ReadErrors \in Nat /\ NBlocks \in Nat
  BY <1>1, Sizes DEF TxShape, Sent, Typed, TypeOK, Budgets
<1>4. Owed' = Owed /\ (Closing' <=> Closing)
  BY <1>3 DEF Owed, Closing
<1>5. PICK a \in Nat, b \in Nat, c \in Nat, d \in Nat :
        a = Acks /\ b = Acks' /\ c = tx.blk /\ d = tx'.blk
  BY <1>2 DEF Basics
<1>6. PICK v \in {0, 1}, w \in {0, 1} : v = Verdict /\ w = Verdict'
  BY DEF Verdict
<1>7. PICK e \in Nat, f \in {0, 1} : e = Owed /\ f = IF Closing THEN 1 ELSE 0
  BY <1>2 DEF Basics
<1>8. rev # << >> /\ Head(rev) = "ACK" /\ rev' = Tail(rev) => b + 1 = a
  BY <1>2, <1>5, AcksTail DEF Basics, Acks
<1>9. b <= a
  <2>1. CASE rev' = rev
    BY <1>5, <2>1 DEF Acks
  <2>2. CASE rev # << >> /\ rev' = Tail(rev)
    <3>1. AcksIn(Tail(rev)) + (IF Head(rev) = "ACK" THEN 1 ELSE 0) = AcksIn(rev)
      BY <1>2, <2>2, AcksTail DEF Basics
    <3>. QED  BY <1>5, <2>2, <3>1 DEF Acks
  <2>. QED  BY <1>1, <2>1, <2>2 DEF TxShape
<1>10. d + w + b <= c + v + a
  <2>1. CASE d = c + 1
    <3>1. ~TxEnded(tx')
      BY <1>1, <1>5, <2>1 DEF TxKeeps
    <3>2. w = 0
      BY <1>6, <3>1 DEF Verdict, Finished, TxEnded
    <3>3. b + 1 = a
      <4>1. tx'.blk # tx.blk
        BY <1>5, <2>1
      <4>2. rev # << >> /\ Head(rev) = "ACK" /\ rev' = Tail(rev)
        BY <1>1, <4>1 DEF TxShape
      <4>. QED  BY <1>8, <4>2
    <3>. QED  BY <2>1, <3>2, <3>3
  <2>2. CASE d = c
    <3>1. CASE w <= v
      BY <1>9, <2>2, <3>1
    <3>2. CASE ~(w <= v)
      <4>1. w = 1 /\ v = 0
        BY <3>2
      <4>2. Finished' /\ ~Finished
        BY <1>6, <4>1 DEF Verdict
      <4>3. b + 1 = a
        BY <1>1, <1>8, <4>2 DEF TxCloses, Finished, TxEnded
      <4>. QED  BY <2>2, <4>1, <4>3
    <3>. QED  BY <3>1, <3>2
  <2>. QED  BY <1>1, <1>5, <2>1, <2>2 DEF TxShape
<1>11. ASSUME ~reacked'
       PROVE  tx'.blk - 1 + Verdict' + Acks' + Owed' <= rx'.count + (IF Closing' THEN 1 ELSE 0)
  <2>1. tx.blk - 1 + Verdict + Acks + Owed <= rx.count + (IF Closing THEN 1 ELSE 0)
    BY <1>3, <1>11 DEF Accounted, Verdict
  <2>2. PICK n \in Nat : n = rx.count
    BY <1>2 DEF Basics
  <2>3. c - 1 + v + a + e <= n + f
    BY <1>5, <1>6, <1>7, <2>1, <2>2
  <2>4. d - 1 + w + b + e <= n + f
    BY <1>10, <2>3
  <2>. QED  BY <1>3, <1>4, <1>5, <1>6, <1>7, <2>2, <2>4
<1>12. ASSUME env'.read = ReadErrors, tx'.pc = "eot" \/ Finished'
       PROVE  tx'.blk = NBlocks + 1
  <2>1. env.read = ReadErrors /\ ~(env'.read < env.read)
    BY <1>3, <1>12
  <2>2. tx'.blk <= NBlocks + 1 /\ tx.blk <= NBlocks + 1
    BY <1>3 DEF TxWithin
  <2>3. CASE tx.pc = "eot" \/ Finished
    <3>1. tx.blk = NBlocks + 1
      BY <2>1, <2>3 DEF Accounted
    <3>. QED  BY <1>1, <1>3, <1>5, <2>2, <3>1 DEF TxShape
  <2>4. CASE ~(tx.pc = "eot" \/ Finished)
    <3>1. tx'.blk > NBlocks
      BY <1>1, <1>12, <2>1, <2>4 DEF TxCloses, Finished, TxEnded
    <3>. QED  BY <1>3, <1>5, <2>2, <3>1
  <2>. QED  BY <2>3, <2>4
<1>13. rx'.count <= NBlocks /\ env'.write <= WriteErrors
       /\ (env'.write = WriteErrors => \A i \in 1 .. Len(stored') : stored'[i] = i)
  BY <1>3 DEF Accounted
<1>. QED  BY <1>11, <1>12, <1>13 DEF Accounted, Verdict

LEMMA RxAccounted ==
  ASSUME Typed, Typed', Order, FramesWithin, Accounted, RxShape
  PROVE  Accounted'
<1>1. Basics /\ Basics'
  <2>1. Basics
    BY TypesGiveBasics DEF Typed
  <2>2. Basics'
    BY TypesGiveBasics, PTL DEF Typed
  <2>. QED  BY <2>1, <2>2
<1>2. /\ tx' = tx /\ (reacked => reacked') /\ (Closing => Closing')
      /\ env'.read <= env.read /\ env.read <= ReadErrors
      /\ env.read \in Nat /\ env'.read \in Nat /\ ReadErrors \in Nat
  BY Sizes DEF RxShape, Typed, TypeOK, Budgets
<1>3. Verdict' = Verdict /\ (Finished' <=> Finished)
  BY <1>2 DEF Verdict, Finished
<1>4. PICK a \in Nat, b \in Nat, c \in Nat, d \in Nat, m \in Nat, n \in Nat :
        /\ a = Acks /\ b = Acks' /\ c = Owed /\ d = Owed' /\ m = rx.count /\ n = rx'.count
  BY <1>1 DEF Basics
<1>5. PICK e \in {0, 1}, f \in {0, 1}, v \in {0, 1}, t \in Nat :
        /\ e = (IF Closing THEN 1 ELSE 0) /\ f = (IF Closing' THEN 1 ELSE 0)
        /\ v = Verdict /\ t = tx.blk
  BY <1>1 DEF Basics, Verdict
<1>6. ASSUME ~reacked'
      PROVE  tx'.blk - 1 + Verdict' + Acks' + Owed' <= rx'.count + (IF Closing' THEN 1 ELSE 0)
  <2>1. t - 1 + v + a + c <= m + e
    <3>1. tx.blk - 1 + Verdict + Acks + Owed <= rx.count + (IF Closing THEN 1 ELSE 0)
      BY <1>2, <1>6 DEF Accounted, Verdict
    <3>. QED  BY <1>4, <1>5, <3>1
  <2>2. Credit = a + c /\ Credit' = b + d
    BY <1>4 DEF Credit
  <2>3. CASE RxQuiet
    <3>1. n = m /\ b + d <= a + c + (IF Closing' /\ ~Closing THEN 1 ELSE 0)
      BY <1>4, <2>2, <2>3 DEF RxQuiet
    <3>2. b + d + e <= a + c + f
      BY <1>2, <1>5, <3>1
    <3>3. t - 1 + v + b + d <= n + f
      BY <2>1, <3>1, <3>2
    <3>. QED  BY <1>2, <1>3, <1>4, <1>5, <3>3
  <2>4. CASE RxTakes
    <3>1. n = m + 1 /\ b + d <= a + c + 1 /\ e = 0 /\ f = 0
      BY <1>4, <1>5, <2>2, <2>4 DEF RxTakes
    <3>2. t - 1 + v + b + d <= n + f
      BY <2>1, <3>1
    <3>. QED  BY <1>2, <1>3, <1>4, <1>5, <3>2
  <2>5. ~RxRepeats
    BY <1>6 DEF RxRepeats
  <2>. QED  BY <2>3, <2>4, <2>5 DEF RxShape
<1>7. ASSUME env'.read = ReadErrors, tx'.pc = "eot" \/ Finished'
      PROVE  tx'.blk = NBlocks + 1
  <2>1. env.read = ReadErrors
    BY <1>2, <1>7
  <2>. QED  BY <1>2, <1>3, <1>7, <2>1 DEF Accounted
<1>8. /\ rx'.count <= NBlocks /\ env'.write <= WriteErrors
      /\ env'.write = WriteErrors => \A i \in 1 .. Len(stored') : stored'[i] = i
  <2>1. CASE RxQuiet \/ RxRepeats
    BY <2>1 DEF RxQuiet, RxRepeats, Accounted
  <2>2. CASE RxTakes
    <3>1. Head(fwd).kind = "frame" /\ Head(fwd).pkt = rx.pkt /\ fwd # << >> /\ ~Closing
          /\ rx'.count = rx.count + 1
      BY <2>2 DEF RxTakes
    <3>2. Head(fwd).blk = rx.count + 1 /\ Head(fwd) = fwd[1] /\ 1 \in 1 .. Len(fwd)
      BY <1>1, <3>1, HeadBlock
    <3>3. rx'.count <= NBlocks
      BY <3>1, <3>2 DEF FramesWithin
    <3>4. env.write \in Nat /\ env.write <= WriteErrors /\ WriteErrors \in Nat
      BY <1>1, Sizes DEF Basics, Accounted
    <3>5. CASE stored' = stored /\ env.write > 0 /\ env'.write = env.write - 1
      BY <3>3, <3>4, <3>5
    <3>6. CASE stored' = Append(stored, Head(fwd).blk) /\ env'.write = env.write
      <4>1. ASSUME env.write = WriteErrors, NEW i \in 1 .. Len(stored')
            PROVE  stored'[i] = i
        <5>1. stored \in Seq(Nat) /\ rx.count + 1 \in Nat /\ stored' = Append(stored, rx.count + 1)
          BY <1>1, <3>2, <3>6 DEF Basics
        <5>2. Len(stored) = rx.count
          BY <1>1, <3>4, <4>1 DEF Order, StoredInOrder, Basics
        <5>3. \A k \in 1 .. Len(stored) : stored[k] = k
          BY <4>1 DEF Accounted
        <5>4. Len(stored') = Len(stored) + 1 /\ stored'[Len(stored) + 1] = rx.count + 1
              /\ \A k \in 1 .. Len(stored) : stored'[k] = stored[k]
          BY <5>1
        <5>5. i \in 1 .. Len(stored) \/ i = Len(stored) + 1
          BY <5>4, <1>1 DEF Basics
        <5>. QED  BY <5>2, <5>3, <5>4, <5>5
      <4>. QED  BY <3>3, <3>4, <3>6, <4>1
    <3>. QED  BY <2>2, <3>5, <3>6 DEF RxTakes
  <2>. QED  BY <2>1, <2>2 DEF RxShape
<1>. QED  BY <1>6, <1>7, <1>8 DEF Accounted, Verdict

LEMMA TickAccounted ==
  ASSUME Accounted, TickShape
  PROVE  Accounted'
<1>1. /\ tx'.blk = tx.blk /\ tx'.pc = tx.pc /\ tx'.res = tx.res /\ rx'.count = rx.count
      /\ rx'.pc = rx.pc /\ rx'.after = rx.after
      /\ rev' = rev /\ stored' = stored /\ env' = env /\ reacked' = reacked
  BY DEF TickShape
<1>2. Acks' = Acks /\ Owed' = Owed /\ (Closing' <=> Closing) /\ (Finished' <=> Finished)
  BY <1>1 DEF Acks, Owed, Closing, Finished
<1>. QED  BY <1>1, <1>2 DEF Accounted

LEMMA NextAccounted ==
  ASSUME Typed, Typed', Order, FramesWithin, Accounted, [Next]_vars
  PROVE  Accounted'
<1>1. CASE TxStart \/ TxStep
  BY <1>1, TxAccounted
<1>2. CASE RxStart \/ RxStep
  <2>1. RxShape
    BY <1>2, RxShapes DEF Typed
  <2>. QED  BY <2>1, RxAccounted
<1>3. CASE Tick \/ UNCHANGED vars
  <2>1. TickShape
    BY <1>3, TickShapes DEF Typed
  <2>. QED  BY <2>1, TickAccounted
<1>. QED  BY <1>1, <1>2, <1>3 DEF Next

LEMMA AccountInvariant == Spec => [](Typed /\ Order /\ FramesWithin /\ Accounted)
<1>1. Init => Typed /\ Order /\ FramesWithin /\ Accounted
  BY InitTyped, InitOrder, InitFrames, InitAccounted
<1>2. Typed /\ Order /\ FramesWithin /\ Accounted /\ [Next]_vars
        => (Typed /\ Order /\ FramesWithin /\ Accounted)'
  BY NextTyped, NextOrder, NextFrames, NextAccounted
<1>. QED  BY <1>1, <1>2, PTL DEF Spec

\* When the sender reports success, no frame was acknowledged again and the files
\* could be read and written, the receiver has the whole file, block for block.
THEOREM CompleteCorrect == Spec => []SuccessIsComplete
<1>1. ASSUME Typed, Order, Accounted, TxOk, ~reacked, env.read = ReadErrors, env.write = WriteErrors
      PROVE  stored = [i \in 1 .. NBlocks |-> i]
  <2>1. Basics
    BY <1>1, TypesGiveBasics DEF Typed
  <2>2. Finished /\ Verdict = 1
    BY <1>1 DEF TxOk, Finished, Verdict
  <2>3. tx.blk = NBlocks + 1
    BY <1>1, <2>2 DEF Accounted
  <2>4. PICK a \in Nat, o \in Nat, n \in Nat : a = Acks /\ o = Owed /\ n = rx.count
    BY <2>1 DEF Basics
  <2>5. NBlocks + 1 - 1 + 1 + a + o <= n + (IF Closing THEN 1 ELSE 0)
    <3>1. tx.blk - 1 + (IF Finished THEN 1 ELSE 0) + Acks + Owed <= rx.count + (IF Closing THEN 1 ELSE 0)
      BY <1>1 DEF Accounted
    <3>2. (IF Finished THEN 1 ELSE 0) = 1
      BY <2>2
    <3>3. tx.blk - 1 + 1 + Acks + Owed <= rx.count + (IF Closing THEN 1 ELSE 0)
      BY <3>1, <3>2
    <3>. QED  BY <2>3, <2>4, <3>3, Sizes
  <2>6. NBlocks \in Nat /\ n <= NBlocks
    BY <1>1, <2>4, Sizes DEF Accounted
  <2>7. n = NBlocks
    BY <2>5, <2>6
  <2>8. Len(stored) = NBlocks
    BY <1>1, <2>1, <2>4, <2>7 DEF Order, StoredInOrder, Basics
  <2>9. \A i \in 1 .. Len(stored) : stored[i] = i
    BY <1>1 DEF Accounted
  <2>10. stored = [i \in 1 .. Len(stored) |-> stored[i]]
    BY <2>1 DEF Basics
  <2>. QED  BY <2>8, <2>9, <2>10
<1>2. Typed /\ Order /\ FramesWithin /\ Accounted => SuccessIsComplete
  BY <1>1 DEF SuccessIsComplete
<1>. QED  BY <1>2, AccountInvariant, PTL

\* IInv is inductive: it holds initially and every step preserves it.  The
\* conjuncts need each other: the order of the stored blocks rests on Window,
\* which bounds how far the number of a frame can be from the one expected.
THEOREM IInvCorrect == Spec => []IInv
<1>1. Typed /\ Order /\ FramesWithin /\ Accounted => IInv
  BY DEF Typed, Order, FramesWithin, IInv, TxWithin, WithinFile
<1>. QED  BY <1>1, AccountInvariant, PTL
-----------------------------------------------------------------------------
(* The promise of FileTransfer. *)

TxSide(t) == EndOf(TxEnded(t), t.res = "ok")
RxSide(r) == EndOf(RxEnded(r), r.after = "ok")

\* A step of the sender is a claim, its end or nothing.
LEMMA TxTransfers ==
  ASSUME Typed, Basics, Order, BoundedLead', TxStart \/ TxStep
  PROVE  [Transfer!Next]_Transfer!tvars
<1>1. TxShape /\ TxKeeps
  BY TxShapes, TxDecidesOnce DEF Typed
<1>2. TxWithin' /\ rx' = rx /\ tx.blk \in Nat /\ rx.count \in Nat
      /\ (tx'.blk = tx.blk \/ tx'.blk = tx.blk + 1)
  BY <1>1 DEF TxShape, Basics
<1>3. CASE tx'.blk = tx.blk + 1
  <2>1. ~TxEnded(tx) /\ ~TxEnded(tx') /\ tx.blk <= NBlocks /\ NBlocks \in Nat
    BY <1>1, <1>2, <1>3, Sizes DEF TxKeeps
  <2>2. tx.blk - 1 < rx.count + (FwdCap + RevCap + 1)
    <3>1. tx'.blk <= rx'.count + FwdCap + RevCap + (IF Closing' THEN 2 ELSE 1)
      BY DEF BoundedLead
    <3>2. tx.blk + 1 <= rx.count + FwdCap + RevCap + 2
      BY <1>2, <1>3, <3>1, Sizes
    <3>. QED  BY <1>2, <3>2, Sizes
  <2>3. tx.blk - 1 < NBlocks /\ tx'.blk - 1 = (tx.blk - 1) + 1
    BY <1>2, <1>3, <2>1
  <2>4. TxSide(tx) = "busy" /\ TxSide(tx') = "busy"
    BY <2>1 DEF TxSide, EndOf
  <2>5. Transfer!Claim
    BY <1>2, <2>2, <2>3, <2>4 DEF Transfer!Claim, TxSide, TxEnded, EndOf
  <2>. QED  BY <2>5 DEF Transfer!Next
<1>4. CASE tx'.blk = tx.blk
  <2>1. CASE TxSide(tx') = TxSide(tx)
    BY <1>2, <1>4, <2>1 DEF Transfer!tvars, TxSide, TxEnded
  <2>2. CASE TxSide(tx') # TxSide(tx)
    <3>1. ~TxEnded(tx) /\ TxEnded(tx')
      BY <1>1, <2>2 DEF TxKeeps, TxSide, EndOf
    <3>2. TxSide(tx) = "busy" /\ TxSide(tx') = (IF tx'.res = "ok" THEN "ok" ELSE "failed")
      BY <3>1 DEF TxSide, EndOf
    <3>3. tx'.res = "ok" => tx.blk - 1 = NBlocks \/ ReadErrors > 0
      <4>1. tx'.res = "ok" => tx'.blk = NBlocks + 1 \/ ReadErrors > 0
        BY <1>2, <3>1 DEF TxWithin, TxEnded
      <4>. QED  BY <1>2, <1>4, <4>1, Sizes
    <3>4. Transfer!SenderEnds
      BY <1>2, <1>4, <3>2, <3>3 DEF Transfer!SenderEnds, TxSide, TxEnded
    <3>. QED  BY <3>4 DEF Transfer!Next
  <2>. QED  BY <2>1, <2>2
<1>. QED  BY <1>2, <1>3, <1>4

\* A step of the receiver is a delivery, its end or nothing.
LEMMA RxTransfers ==
  ASSUME Typed, Basics, Order, FramesWithin, RxStart \/ RxStep
  PROVE  [Transfer!Next]_Transfer!tvars
<1>1. RxShape /\ RxKeeps
  BY RxShapes, RxDecidesOnce DEF Typed
<1>2. tx' = tx /\ rx.count \in Nat
  BY <1>1 DEF RxShape, Basics
<1>3. CASE RxTakes
  <2>1. rx'.count = rx.count + 1 /\ Head(fwd).pkt = rx.pkt /\ Head(fwd).kind = "frame"
        /\ ~Closing /\ fwd # << >>
    BY <1>3 DEF RxTakes
  <2>2. RxSide(rx) = "busy" /\ RxSide(rx') = "busy"
    BY <1>1, <1>2, <2>1 DEF RxKeeps, RxSide, EndOf
  <2>3. rx.count < NBlocks
    <3>1. Head(fwd).blk = rx.count + 1 /\ Head(fwd) = fwd[1] /\ 1 \in 1 .. Len(fwd)
      BY <2>1, HeadBlock
    <3>2. rx.count + 1 <= NBlocks
      BY <2>1, <3>1 DEF FramesWithin
    <3>. QED  BY <1>2, <3>2, Sizes
  <2>4. Transfer!Deliver
    BY <1>2, <2>1, <2>2, <2>3 DEF Transfer!Deliver, RxSide, RxEnded
  <2>. QED  BY <2>4 DEF Transfer!Next
<1>4. CASE rx'.count = rx.count
  <2>1. CASE RxSide(rx') = RxSide(rx)
    BY <1>2, <1>4, <2>1 DEF Transfer!tvars, RxSide, RxEnded
  <2>2. CASE RxSide(rx') # RxSide(rx)
    <3>1. ~RxEnded(rx) /\ RxEnded(rx')
      BY <1>1, <2>2 DEF RxKeeps, RxSide, EndOf
    <3>2. RxSide(rx) = "busy" /\ RxSide(rx') \in {"ok", "failed"}
      BY <3>1 DEF RxSide, EndOf
    <3>3. Transfer!ReceiverEnds
      BY <1>2, <1>4, <3>2 DEF Transfer!ReceiverEnds, RxSide, RxEnded
    <3>. QED  BY <3>3 DEF Transfer!Next
  <2>. QED  BY <2>1, <2>2
<1>. QED  BY <1>1, <1>3, <1>4 DEF RxShape, RxQuiet, RxRepeats

\* The two programs implement FileTransfer, whatever the length of the file, the
\* buffers, the tries and the faults: nothing that was not sent is counted, the
\* sender's lead is bounded, and an end that has decided stays decided.
THEOREM TransferImplemented == Spec => ImplementsTransfer
<1>1. Init => Transfer!Init
  BY DEF Init, Transfer!Init, EndOf
<1>2. ASSUME Typed, Order, FramesWithin, Typed', Order', [Next]_vars
      PROVE  [Transfer!Next]_Transfer!tvars
  <2>1. Basics
    BY <1>2, TypesGiveBasics DEF Typed
  <2>2. BoundedLead'
    BY <1>2, LeadOfOrder, PTL
  <2>3. CASE TxStart \/ TxStep
    BY <1>2, <2>1, <2>2, <2>3, TxTransfers
  <2>4. CASE RxStart \/ RxStep
    BY <1>2, <2>1, <2>4, RxTransfers
  <2>5. CASE Tick \/ UNCHANGED vars
    <3>1. TickShape
      BY <1>2, <2>5, TickShapes DEF Typed
    <3>. QED  BY <3>1 DEF TickShape, Transfer!tvars
  <2>. QED  BY <1>2, <2>3, <2>4, <2>5 DEF Next
<1>3. Typed /\ Order /\ FramesWithin /\ [Next]_vars => (Typed /\ Order /\ FramesWithin)'
  BY NextTyped, NextOrder, NextFrames
<1>4. Init => Typed /\ Order /\ FramesWithin
  BY InitTyped, InitOrder, InitFrames
<1>. QED  BY <1>1, <1>2, <1>3, <1>4, PTL DEF Spec, Transfer!Spec, ImplementsTransfer
=============================================================================
