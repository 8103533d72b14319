---------------------------- MODULE YModemProofs ----------------------------
(***************************************************************************)
(* Proofs about YModem for every value of its constants: AnySenderInv is   *)
(* what holds of the receiver whoever sends, Session what holds between    *)
(* the two ends of this code.                                              *)
(***************************************************************************)
EXTENDS MCYModem, TLAPS

(* What holds of the receiver whatever is sent to it. *)

\* The two commands' results go with their points.
Decided ==
  /\ Hosted \/ (tx.res = "none" <=> tx.pc # "done")
  /\ (rx.res = "none" <=> rx.pc # "done")
  /\ (rx.res = "ok" <=> rx.file = "named")

\* Packets carry the number of the block they name; the sender goes by the same numbers.
Numbered ==
  /\ \A i \in 1 .. Len(fwd) : fwd[i].blk # 0 => fwd[i].pkt = fwd[i].blk % PMod
  /\ tx.pc = "data" => tx.blk < NBlocks /\ tx.data \in {0, tx.blk + 1}

\* The receiver's count of packets is one ahead of the blocks it stored, until the file is there.
Counted ==
  /\ ~rx.sized => stored = << >>
  /\ rx.sized => rx.got >= 1 /\ (Len(stored) < NBlocks => rx.got = Len(stored) + 1)

\* The receiver names the file only after two EOTs.
NamedAfterEot == rx.file = "named" => rx.eofs = 2

AnySenderInv == TypeOK /\ Decided /\ Numbered /\ Counted /\ StoredBySequence /\ NamedAfterEot
-----------------------------------------------------------------------------
(* What holds between two ends that are this code, when packets may lose   *)
(* bytes but not their start: the sender asks one question at a time.      *)

Answers == {"ACK", "NAK"}
Asking(t) == t.kind \in Packets \cup {"eot", "bad", "short"}
Silent == \A i \in 1 .. Len(fwd) : ~Asking(fwd[i])
NoQuestion == rx.pc # "body" /\ Silent
NoAnswer == \A i \in 1 .. Len(rev) : rev[i] \notin Answers
OneAnswer == \A i \in 1 .. Len(rev) : rev[i] \in Answers => \A j \in i + 1 .. Len(rev) : rev[j] \notin Answers
Not(b) == \A i \in 1 .. Len(rev) : rev[i] # b

NoCA == \A i \in 1 .. Len(fwd) : fwd[i].kind # "CA"

\* No packet is entered in the middle; after a question or the session's end comes no question.
Once ==
  \A i \in 1 .. Len(fwd) :
    /\ fwd[i].kind \notin Strays
    /\ Asking(fwd[i]) \/ fwd[i].kind = "CA" => \A j \in i + 1 .. Len(fwd) : ~Asking(fwd[j])

NoLeftOvers ==
  /\ Once
  /\ tx.pc # "done" => NoCA /\ rx.pc # "canned"
  /\ rx.pc \in {"body", "canned"} => Silent

\* A question is answered once before the next is asked.
OneQuestion ==
  /\ tx.pc # "done" => /\ NoAnswer \/ NoQuestion
                       /\ OneAnswer
  /\ tx.pc \in {"off", "ask", "headC", "eotC"} => NoAnswer /\ NoQuestion

\* The question on its way is the sender's present one.
Fits(t) ==
  /\ t.kind = "head" => tx.pc \in {"head", "done"}
  /\ t.kind = "data" => (tx.pc = "data" /\ t.pkt = (tx.blk + 1) % PMod) \/ (tx.pc = "done" /\ rx.sized)
  /\ t.kind = "eot"  => tx.pc \in {"eot", "done"} /\ Len(stored) = NBlocks
  /\ t.kind = "last" => tx.pc \in {"last", "done"}
Present == \A i \in 1 .. Len(fwd) : Fits(fwd[i])

\* The receiver has taken the last packet: nothing is left but silence, and the file is kept.
Kept == rx.eofs = 2 /\ ((rx.pc = "idle" /\ Silent /\ NoCA) \/ rx.res = "ok")

\* Where the receiver is when the sender is there.
InStep ==
  /\ rx.eofs > 0 => Len(stored) = NBlocks
  /\ tx.pc \in {"off", "ask", "head", "headC"} => tx.blk = 0 /\ stored = << >> /\ rx.eofs = 0
  /\ tx.pc \in {"off", "ask"} => rx.got = 0 /\ ~rx.sized
  /\ tx.pc = "head" => \/ rx.got = 0 /\ ~rx.sized /\ Not("ACK")
                       \/ rx.got = 1 /\ rx.sized /\ NoQuestion /\ Not("NAK")
  /\ tx.pc = "headC" => rx.got = 1 /\ rx.sized
  /\ tx.pc = "data" => /\ rx.sized /\ rx.eofs = 0
                       /\ \/ Len(stored) = tx.blk /\ Not("ACK")
                          \/ Len(stored) = tx.blk + 1 /\ NoQuestion /\ Not("NAK")
  /\ tx.pc \in {"eot", "eotC", "last"} \/ tx.res = "ok" => tx.blk = NBlocks /\ Len(stored) = NBlocks
  /\ tx.pc = "eot" => \/ rx.eofs < 2 /\ Not("ACK")
                      \/ rx.eofs = 2 /\ NoQuestion /\ Not("NAK")
  /\ tx.pc \in {"eotC", "last"} => rx.eofs = 2
  /\ tx.pc = "last" => Not("ACK") \/ (NoQuestion /\ Kept)
  /\ tx.res = "ok" => Kept

Session == NoLeftOvers /\ OneQuestion /\ Present /\ InStep
-----------------------------------------------------------------------------
(* The link. *)

\* A queue that grows at its end.
Extends(new, old) ==
  /\ Len(old) <= Len(new)
  /\ \A i \in 1 .. Len(old) : new[i] = old[i]

\* The tokens of X are sent, as far as there is room: one at most, or several.
Sent(X) ==
  /\ fwd' \in Seq(Token) /\ Len(fwd') <= FwdCap /\ Extends(fwd', fwd)
  /\ \A i \in Len(fwd) + 1 .. Len(fwd') : fwd'[i] \in X
  /\ env' \in Budgets
SentOne(X) == Sent(X) /\ Len(fwd') <= Len(fwd) + 1

\* How a packet may look that was damaged.
Faulty == FrameFaults \cup (IF "stray" \in FrameFaults THEN Strays ELSE {})

\* The token t, or what the link makes of it.
Forms(t) == {u \in Token : u.blk = t.blk /\ u.pkt = t.pkt
                            /\ u.kind \in {t.kind} \cup (IF t.kind \in Packets THEN {"bad"} \cup Faulty ELSE {"junk"})}

\* The sender is told b, perhaps, and other bytes that answer nothing.
Replied(b) ==
  /\ rev' \in Seq(Byte) /\ Len(rev') <= RevCap /\ Extends(rev', rev)
  /\ \A i \in Len(rev) + 1 .. Len(rev') : rev'[i] \in {"C", "CA", "junk"} \/ (i = Len(rev) + 1 /\ rev'[i] = b)
  /\ env' \in Budgets

LEMMA CatIs ==
  ASSUME NEW S, NEW p \in Seq(S), NEW q \in Seq(S)
  PROVE  /\ p \o q \in Seq(S) /\ Len(p \o q) = Len(p) + Len(q)
         /\ \A i \in 1 .. Len(p) : (p \o q)[i] = p[i]
         /\ \A i \in Len(p) + 1 .. Len(p) + Len(q) : (p \o q)[i] = q[i - Len(p)]
  OBVIOUS

LEMMA PutIs ==
  ASSUME NEW S, NEW ch \in Seq(S), NEW s \in Seq(S), NEW cap \in Nat, Len(ch) <= cap
  PROVE  /\ Put(ch, cap, s) \in Seq(S) /\ Len(Put(ch, cap, s)) <= cap
         /\ Extends(Put(ch, cap, s), ch) /\ Len(Put(ch, cap, s)) <= Len(ch) + Len(s)
         /\ \A i \in Len(ch) + 1 .. Len(Put(ch, cap, s)) : Put(ch, cap, s)[i] = s[i - Len(ch)]
<1>1. /\ ch \o s \in Seq(S) /\ Len(ch \o s) = Len(ch) + Len(s)
      /\ \A i \in 1 .. Len(ch) : (ch \o s)[i] = ch[i]
      /\ \A i \in Len(ch) + 1 .. Len(ch) + Len(s) : (ch \o s)[i] = s[i - Len(ch)]
  OBVIOUS
<1>2. CASE Len(ch) + Len(s) <= cap
  BY <1>1, <1>2 DEF Put, Extends
<1>3. CASE ~(Len(ch) + Len(s) <= cap)
  <2>1. /\ SubSeq(ch \o s, 1, cap) \in Seq(S) /\ Len(SubSeq(ch \o s, 1, cap)) = cap
        /\ \A i \in 1 .. cap : SubSeq(ch \o s, 1, cap)[i] = (ch \o s)[i]
    BY <1>1, <1>3
  <2>. QED  BY <1>1, <1>3, <2>1 DEF Put, Extends
<1>. QED  BY <1>2, <1>3

LEMMA SpentBudgets ==
  ASSUME NEW e \in Budgets, NEW b \in {"mangle", "lose", "write", "read"}, e[b] > 0
  PROVE  Spent(e, b) \in Budgets
  BY DEF Spent, Budgets

LEMMA PutOne ==
  ASSUME TypeOK, NEW t \in Token, NEW X, t \in X, fwd' = Put(fwd, FwdCap, <<t>>), env' \in Budgets
  PROVE  SentOne(X)
<1>1. <<t>> \in Seq(Token) /\ Len(<<t>>) = 1 /\ <<t>>[1] = t
  OBVIOUS
<1>2. fwd \in Seq(Token) /\ Len(fwd) <= FwdCap /\ FwdCap \in Nat
  BY Sizes DEF TypeOK
<1>3. /\ fwd' \in Seq(Token) /\ Len(fwd') <= FwdCap /\ Extends(fwd', fwd) /\ Len(fwd') <= Len(fwd) + 1
      /\ \A i \in Len(fwd) + 1 .. Len(fwd') : fwd'[i] = <<t>>[i - Len(fwd)]
  BY <1>1, <1>2, PutIs
<1>4. \A i \in Len(fwd) + 1 .. Len(fwd') : fwd'[i] = t
  BY <1>1, <1>2, <1>3
<1>. QED  BY <1>3, <1>4 DEF SentOne, Sent

LEMMA NothingSent ==
  ASSUME TypeOK, fwd' = fwd, env' \in Budgets, NEW X
  PROVE  SentOne(X)
  BY DEF TypeOK, SentOne, Sent, Extends

\* A token of which n bytes are left.
LEMMA HeadlessIs ==
  ASSUME NEW t \in Token, NEW n \in 1 .. PacketBytes
  PROVE  /\ Headless(t, n) \in Token /\ Headless(t, n).kind \in Strays
         /\ Headless(t, n).blk = t.blk /\ Headless(t, n).pkt = t.pkt
<1>1. n \in 0 .. PacketBytes /\ n > 0
  BY Sizes
<1>. QED  BY <1>1 DEF Headless, Token, Strays

LEMMA Sends ==
  ASSUME TypeOK, NEW t \in Token, NEW e \in Budgets, t.kind \notin Strays, Send(t, e)
  PROVE  SentOne(Forms(t))
<1>1. \A w \in {"bad", "short", "junk"} : [t EXCEPT !.kind = w] \in Token
  BY DEF Token, Strays
<1>2. t \in Forms(t)
  BY DEF Forms
<1>3. CASE fwd' = Put(fwd, FwdCap, <<t>>) /\ env' = e
  BY <1>2, <1>3, PutOne
<1>4. CASE t.kind \in Packets /\ e.mangle > 0 /\ env' = Spent(e, "mangle")
           /\ fwd' = Put(fwd, FwdCap, <<[t EXCEPT !.kind = "bad"]>>)
  <2>1. [t EXCEPT !.kind = "bad"] \in Forms(t)
    BY <1>1, <1>4 DEF Forms, Token
  <2>. QED  BY <1>1, <1>4, <2>1, SpentBudgets, PutOne
<1>5. CASE e.lose > 0 /\ env' = Spent(e, "lose") /\ fwd' = fwd
  BY <1>5, SpentBudgets, NothingSent
<1>6. ASSUME e.lose > 0, env' = Spent(e, "lose"), NEW w \in IF t.kind \in Packets THEN FrameFaults ELSE {"junk"},
             fwd' = Put(fwd, FwdCap, <<Lacking(t, w)>>)
      PROVE  SentOne(Forms(t))
  <2>1. CASE w = "stray"
    <3>1. PacketBytes \in 1 .. PacketBytes
      BY Sizes
    <3>2. t.kind \in Packets /\ "stray" \in FrameFaults
      BY <1>6, <2>1
    <3>3. Lacking(t, w) \in Forms(t) /\ Lacking(t, w) \in Token
      BY <2>1, <3>1, <3>2, HeadlessIs DEF Lacking, Forms, Faulty
    <3>. QED  BY <1>6, <3>3, SpentBudgets, PutOne
  <2>2. CASE w # "stray"
    <3>1. w \in {"bad", "short", "junk"}
      BY <1>6, <2>2, Sizes
    <3>2. Lacking(t, w) = [t EXCEPT !.kind = w] /\ [t EXCEPT !.kind = w] \in Token
      BY <1>1, <2>2, <3>1 DEF Lacking
    <3>3. [t EXCEPT !.kind = w] \in Forms(t)
      BY <1>6, <3>2 DEF Forms, Faulty, Token
    <3>. QED  BY <1>6, <3>2, <3>3, SpentBudgets, PutOne
  <2>. QED  BY <2>1, <2>2
<1>. QED  BY <1>3, <1>4, <1>5, <1>6 DEF Send

LEMMA ControlIs ==
  ASSUME NEW k \in Packets \cup {"eot", "CA", "junk", "bad", "short"}
  PROVE  Control(k) \in Token /\ Control(k).kind = k /\ Control(k).blk = 0 /\ Control(k).pkt = 0
  BY Sizes DEF Control, Token, Strays, Packets

LEMMA Cancels ==
  ASSUME TypeOK, NEW n \in {1, 2}, CancelReceiver(n)
  PROVE  Sent({Control("CA")})
<1>1. Control("CA") \in Token
  BY ControlIs
<1>2. ASSUME NEW k \in Nat, fwd' = Put(fwd, FwdCap, [i \in 1 .. k |-> Control("CA")]), env' \in Budgets
      PROVE  Sent({Control("CA")})
  <2>. DEFINE s == [i \in 1 .. k |-> Control("CA")]
  <2>1. s \in Seq(Token) /\ Len(s) = k /\ \A i \in 1 .. k : s[i] = Control("CA")
    BY <1>1
  <2>2. fwd \in Seq(Token) /\ Len(fwd) <= FwdCap /\ FwdCap \in Nat
    BY Sizes DEF TypeOK
  <2>5. fwd' = Put(fwd, FwdCap, s)
    BY <1>2
  <2>. HIDE DEF s
  <2>3. /\ fwd' \in Seq(Token) /\ Len(fwd') <= FwdCap /\ Extends(fwd', fwd) /\ Len(fwd') <= Len(fwd) + k
        /\ \A i \in Len(fwd) + 1 .. Len(fwd') : fwd'[i] = s[i - Len(fwd)]
    BY <2>1, <2>2, <2>5, PutIs
  <2>4. \A i \in Len(fwd) + 1 .. Len(fwd') : fwd'[i] = Control("CA")
    BY <2>1, <2>2, <2>3
  <2>. QED  BY <1>2, <2>3, <2>4 DEF Sent
<1>3. 2 * n \in Nat /\ 2 * n - 1 \in Nat
  OBVIOUS
<1>4. env' \in Budgets
  BY SpentBudgets DEF CancelReceiver, TypeOK
<1>. QED  BY <1>2, <1>3, <1>4 DEF CancelReceiver

LEMMA PutReply ==
  ASSUME TypeOK, NEW s \in Seq(Byte), NEW b, rev' = Put(rev, RevCap, s), env' \in Budgets,
         \A i \in 1 .. Len(s) : s[i] \in {"C", "CA", "junk"} \/ (i = 1 /\ s[i] = b)
  PROVE  Replied(b)
<1>1. rev \in Seq(Byte) /\ Len(rev) <= RevCap /\ RevCap \in Nat
  BY Sizes DEF TypeOK
<1>2. /\ rev' \in Seq(Byte) /\ Len(rev') <= RevCap /\ Extends(rev', rev) /\ Len(rev') <= Len(rev) + Len(s)
      /\ \A i \in Len(rev) + 1 .. Len(rev') : rev'[i] = s[i - Len(rev)]
  BY <1>1, PutIs
<1>3. ASSUME NEW i \in Len(rev) + 1 .. Len(rev')
      PROVE  rev'[i] \in {"C", "CA", "junk"} \/ (i = Len(rev) + 1 /\ rev'[i] = b)
  <2>1. i - Len(rev) \in 1 .. Len(s) /\ rev'[i] = s[i - Len(rev)]
    BY <1>1, <1>2
  <2>. QED  BY <1>1, <2>1
<1>. QED  BY <1>2, <1>3 DEF Replied

LEMMA NothingReplied ==
  ASSUME TypeOK, rev' = rev, env' \in Budgets, NEW b
  PROVE  Replied(b)
  BY DEF TypeOK, Replied, Extends

LEMMA ShortSequences ==
  ASSUME NEW b \in Byte, NEW c \in Byte
  PROVE  /\ Tail(<<b>>) = << >> /\ Tail(<<b, c>>) = <<c>>
         /\ <<"junk">> \o << >> = <<"junk">> /\ <<"junk">> \o <<c>> = <<"junk", c>>
<1>1. "junk" \in Byte
  BY DEF Byte
<1>2. <<"junk">> \o << >> = <<"junk">> /\ Tail(<<b>>) = << >>
  OBVIOUS
<1>3. Tail(<<b, c>>) = <<c>>
  OBVIOUS
<1>4. <<"junk">> \o <<c>> = <<"junk", c>>
  <2>. DEFINE j == <<"junk">>  d == <<c>>
  <2>1. j \in Seq(Byte) /\ d \in Seq(Byte) /\ Len(j) = 1 /\ Len(d) = 1 /\ j[1] = "junk" /\ d[1] = c
    BY <1>1
  <2>. HIDE DEF j, d
  <2>2. j \o d \in Seq(Byte) /\ Len(j \o d) = 2 /\ (j \o d)[1] = j[1] /\ (j \o d)[2] = d[1]
    <3>1. 1 \in 1 .. Len(j) /\ 2 \in Len(j) + 1 .. Len(j) + Len(d) /\ 2 - Len(j) = 1
      BY <2>1
    <3>2. j \o d \in Seq(Byte) /\ Len(j \o d) = Len(j) + Len(d)
      BY <2>1, CatIs
    <3>3. \A i \in 1 .. Len(j) : (j \o d)[i] = j[i]
      BY <2>1, CatIs
    <3>4. \A i \in Len(j) + 1 .. Len(j) + Len(d) : (j \o d)[i] = d[i - Len(j)]
      BY <2>1, CatIs
    <3>. QED  BY <2>1, <3>1, <3>2, <3>3, <3>4
  <2>3. \A t \in Seq(Byte) : Len(t) = 2 => t = <<t[1], t[2]>>
    OBVIOUS
  <2>. QED  BY <2>1, <2>2, <2>3 DEF j, d
<1>. QED  BY <1>2, <1>3, <1>4

LEMMA ReplyOne ==
  ASSUME TypeOK, NEW b \in Byte, Reply(<<b>>)
  PROVE  Replied(b)
<1>1. env' \in Budgets
  BY SpentBudgets DEF Reply, TypeOK
<1>2. <<b>>[1] = b
  OBVIOUS
<1>3. rev' = Put(rev, RevCap, <<b>>) \/ rev' = Put(rev, RevCap, << >>) \/ rev' = Put(rev, RevCap, <<"junk">>)
  BY <1>2, ShortSequences DEF Reply
<1>4. "junk" \in Byte
  BY DEF Byte
<1>5. \A u \in {b, "junk"} : <<u>> \in Seq(Byte) /\ Len(<<u>>) = 1 /\ <<u>>[1] = u
  BY <1>4
<1>6. ASSUME NEW u \in {b, "junk"}, rev' = Put(rev, RevCap, <<u>>) PROVE Replied(b)
  <2>1. \A i \in 1 .. Len(<<u>>) : <<u>>[i] \in {"C", "CA", "junk"} \/ (i = 1 /\ <<u>>[i] = b)
    BY <1>5
  <2>2. <<u>> \in Seq(Byte)
    BY <1>5
  <2>. HIDE DEF Replied
  <2>. QED  BY <1>1, <1>6, <2>1, <2>2, PutReply
<1>7. rev' = Put(rev, RevCap, << >>) => Replied(b)
  <2>. DEFINE e == << >>
  <2>1. e \in Seq(Byte) /\ Len(e) = 0
    OBVIOUS
  <2>. HIDE DEF e
  <2>2. \A i \in 1 .. Len(e) : e[i] \in {"C", "CA", "junk"} \/ (i = 1 /\ e[i] = b)
    BY <2>1
  <2>3. rev' = Put(rev, RevCap, e) => Replied(b)
    BY <1>1, <2>1, <2>2, PutReply
  <2>. QED  BY <2>3 DEF e
<1>. QED  BY <1>3, <1>6, <1>7

LEMMA ReplyTwo ==
  ASSUME TypeOK, NEW b \in Byte, NEW c \in {"C", "CA"}, Reply(<<b, c>>)
  PROVE  Replied(b)
<1>1. env' \in Budgets
  BY SpentBudgets DEF Reply, TypeOK
<1>2. <<b, c>>[1] = b /\ "junk" \in Byte /\ c \in Byte
  BY DEF Byte
<1>3. \/ rev' = Put(rev, RevCap, <<b, c>>) \/ rev' = Put(rev, RevCap, << >>) \/ rev' = Put(rev, RevCap, <<c>>)
      \/ rev' = Put(rev, RevCap, <<b>>) \/ rev' = Put(rev, RevCap, <<"junk", c>>)
  BY <1>2, ShortSequences DEF Reply
<1>4. \A u \in {b, "junk"} : <<u, c>> \in Seq(Byte) /\ Len(<<u, c>>) = 2 /\ <<u, c>>[1] = u /\ <<u, c>>[2] = c
  BY <1>2
<1>5. ASSUME NEW u \in {b, "junk"}, rev' = Put(rev, RevCap, <<u, c>>) PROVE Replied(b)
  <2>1. \A i \in 1 .. Len(<<u, c>>) : <<u, c>>[i] \in {"C", "CA", "junk"} \/ (i = 1 /\ <<u, c>>[i] = b)
    BY <1>4
  <2>2. <<u, c>> \in Seq(Byte)
    BY <1>4
  <2>. QED  BY <1>1, <1>5, <2>1, <2>2, PutReply
<1>6. \A u \in {b, c} : <<u>> \in Seq(Byte) /\ Len(<<u>>) = 1 /\ <<u>>[1] = u
  BY <1>2
<1>7. ASSUME NEW u \in {b, c}, rev' = Put(rev, RevCap, <<u>>) PROVE Replied(b)
  <2>1. \A i \in 1 .. Len(<<u>>) : <<u>>[i] \in {"C", "CA", "junk"} \/ (i = 1 /\ <<u>>[i] = b)
    BY <1>6
  <2>2. <<u>> \in Seq(Byte)
    BY <1>6
  <2>. QED  BY <1>1, <1>7, <2>1, <2>2, PutReply
<1>8. rev' = Put(rev, RevCap, << >>) => Replied(b)
  <2>. DEFINE e == << >>
  <2>1. e \in Seq(Byte) /\ Len(e) = 0
    OBVIOUS
  <2>. HIDE DEF e
  <2>2. \A i \in 1 .. Len(e) : e[i] \in {"C", "CA", "junk"} \/ (i = 1 /\ e[i] = b)
    BY <2>1
  <2>3. rev' = Put(rev, RevCap, e) => Replied(b)
    BY <1>1, <2>1, <2>2, PutReply
  <2>. QED  BY <2>3 DEF e
<1>. QED  BY <1>3, <1>5, <1>7, <1>8
-----------------------------------------------------------------------------
(* What a step of the sender may do. *)

Takes(b) == rev # << >> /\ Head(rev) = b /\ rev' = Tail(rev)

TxAsks == /\ tx.pc \in {"off", "ask"} /\ tx'.pc = "ask" /\ rev' = rev
          /\ tx'.blk = tx.blk /\ tx'.res = tx.res /\ SentOne(Forms(Control("junk")))

NextIs(b) == /\ tx'.blk = b
             /\ \/ b < NBlocks /\ tx'.pc = "data" /\ tx'.data \in {0, b + 1}
                \/ b = NBlocks /\ tx'.pc = "eot"

TxQuestion ==
  /\ tx'.res = "none" /\ tx'.pc \in {"head", "data", "eot", "last"} /\ SentOne(Forms(PacketOf(tx')))
  /\ \/ tx.pc = "ask" /\ Takes("C") /\ tx'.pc = "head" /\ tx'.blk = tx.blk
     \/ tx.pc \in {"head", "data", "eot", "last"} /\ Takes("NAK")
          /\ tx'.pc = tx.pc /\ tx'.blk = tx.blk /\ tx'.data = tx.data
     \/ tx.pc = "headC" /\ Takes("C") /\ NextIs(0)
     \/ tx.pc = "data" /\ Takes("ACK") /\ NextIs(tx.blk + 1)
     \/ tx.pc = "eotC" /\ Takes("C") /\ tx'.pc = "last" /\ tx'.blk = tx.blk

TxWaitsOn ==
  /\ UNCHANGED <<fwd, env>> /\ tx'.blk = tx.blk /\ tx'.data = tx.data /\ tx'.res = tx.res
  /\ \/ tx.pc = "head" /\ Takes("ACK") /\ tx'.pc = "headC"
     \/ tx.pc = "eot" /\ Takes("ACK") /\ tx'.pc = "eotC"
     \/ tx.pc \in TxWaits /\ rev' = rev /\ tx'.pc = tx.pc

TxFails ==
  /\ tx.pc \in {"ask"} \cup TxWaits /\ tx'.pc = "done" /\ tx'.res = "failed" /\ tx'.blk = tx.blk
  /\ Sent({Control("CA")}) /\ (rev' = rev \/ (rev # << >> /\ rev' = Tail(rev)))

TxSucceeds ==
  /\ tx.pc = "last" /\ Takes("ACK") /\ tx'.pc = "done" /\ tx'.res = "ok" /\ tx'.blk = tx.blk
  /\ UNCHANGED <<fwd, env>>

TxShape == /\ UNCHANGED <<rx, stored>> /\ tx' \in Sender
           /\ TxAsks \/ TxQuestion \/ TxWaitsOn \/ TxFails \/ TxSucceeds

TxPoints == {"off", "ask", "done"} \cup TxWaits

LEMMA Points ==
  /\ TxPoints = {"off", "ask", "done", "head", "headC", "data", "eot", "eotC", "last"}
  /\ 0 \in Nat /\ 0 \in 0 .. 1 /\ 1 \in 0 .. 1 /\ 0 \in 0 .. NBlocks
  BY Sizes DEF TxPoints, TxWaits

\* A sender that goes on from t.
LEMMA TxGoes == ASSUME NEW t \in Sender, NEW p \in TxPoints, NEW n \in Nat, NEW m \in 0 .. 1
                PROVE  [t EXCEPT !.pc = p, !.tries = n, !.timer = m] \in Sender
  BY DEF Sender, TxPoints

LEMMA TxStops == ASSUME NEW t \in Sender, NEW p \in TxPoints, NEW m \in 0 .. 1, NEW r \in {"none", "ok", "failed"}
                 PROVE  [t EXCEPT !.pc = p, !.timer = m, !.res = r] \in Sender
  BY DEF Sender, TxPoints

LEMMA TxListens == ASSUME NEW t \in Sender, NEW p \in TxPoints, NEW m \in 0 .. 1
                   PROVE  [t EXCEPT !.pc = p, !.timer = m] \in Sender
  BY DEF Sender, TxPoints

LEMMA TxCounts == ASSUME NEW t \in Sender, NEW n \in Nat, NEW m \in 0 .. 1
                  PROVE  [t EXCEPT !.tries = n, !.timer = m] \in Sender
  BY DEF Sender, TxPoints

LEMMA TxTries == ASSUME NEW t \in Sender, NEW n \in Nat
                 PROVE  [t EXCEPT !.tries = n] \in Sender
  BY DEF Sender, TxPoints

LEMMA TxReads == ASSUME NEW t \in Sender, NEW p \in TxPoints, NEW d \in 0 .. NBlocks
                 PROVE  [t EXCEPT !.pc = p, !.data = d] \in Sender
  BY DEF Sender, TxPoints

LEMMA TxMoves == ASSUME NEW t \in Sender, NEW p \in TxPoints, NEW b \in 0 .. NBlocks
                 PROVE  [t EXCEPT !.pc = p] \in Sender /\ [t EXCEPT !.blk = b] \in Sender
  BY DEF Sender, TxPoints

\* A packet of the file.
DataPacket(b, n) == [Control("data") EXCEPT !.blk = b, !.pkt = n]

LEMMA DataIs ==
  ASSUME NEW b \in 0 .. NBlocks, NEW n \in 0 .. PMod - 1
  PROVE  /\ DataPacket(b, n) \in Token /\ DataPacket(b, n).kind = "data"
         /\ DataPacket(b, n).blk = b /\ DataPacket(b, n).pkt = n
<1>. DEFINE t == [kind |-> "data", blk |-> b, pkt |-> n, left |-> 0]
<1>1. DataPacket(b, n) = t
  <2>. DEFINE c == Control("data")
  <2>1. c = [kind |-> "data", blk |-> 0, pkt |-> 0, left |-> 0]
    BY DEF Control
  <2>2. DataPacket(b, n) = [c EXCEPT !.blk = b, !.pkt = n]
    BY DEF DataPacket
  <2>. HIDE DEF c
  <2>. QED  BY <2>1, <2>2
<1>2. "data" \in Packets /\ "data" \notin Strays
  BY DEF Packets, Strays
<1>3. 0 \in 0 .. PacketBytes
  BY Sizes
<1>4. t \in [kind : Packets \cup Strays \cup {"eot", "CA", "junk", "bad", "short"},
             blk : 0 .. NBlocks, pkt : 0 .. PMod - 1, left : 0 .. PacketBytes]
  BY <1>2, <1>3
<1>5. t.kind = "data" /\ t.blk = b /\ t.pkt = n
  OBVIOUS
<1>. HIDE DEF t
<1>6. t \in Token
  BY <1>2, <1>4, <1>5 DEF Token
<1>. QED  BY <1>1, <1>5, <1>6

LEMMA PacketIs ==
  ASSUME NEW t \in Sender, t.pc \in {"head", "data", "eot", "last"}
  PROVE  /\ PacketOf(t) \in Token /\ PacketOf(t).kind = t.pc
         /\ t.pc = "data" => PacketOf(t).blk = t.data /\ PacketOf(t).pkt = (t.blk + 1) % PMod
         /\ t.pc # "data" => PacketOf(t).blk = 0 /\ PacketOf(t).pkt = 0
<1>1. (t.blk + 1) % PMod \in 0 .. PMod - 1
  BY Sizes DEF Sender
<1>2. CASE t.pc = "data"
  <2>1. t.data \in 0 .. NBlocks
    BY DEF Sender
  <2>2. PacketOf(t) = DataPacket(t.data, (t.blk + 1) % PMod)
    BY <1>2 DEF PacketOf, DataPacket
  <2>. QED  BY <1>1, <1>2, <2>1, <2>2, DataIs
<1>3. CASE t.pc # "data"
  BY <1>3, ControlIs DEF PacketOf, Packets
<1>. QED  BY <1>2, <1>3

LEMMA SendOfAsks ==
  ASSUME TypeOK, NEW t \in Sender, t.pc \in {"head", "data", "eot", "last"}, NEW e \in Budgets, SendOf(t, e)
  PROVE  /\ tx' \in Sender /\ SentOne(Forms(PacketOf(tx')))
         /\ tx'.pc = t.pc /\ tx'.blk = t.blk /\ tx'.data = t.data /\ tx'.res = t.res
<1>1. /\ tx' \in Sender /\ tx'.pc = t.pc /\ tx'.blk = t.blk /\ tx'.data = t.data /\ tx'.res = t.res
  <2>1. tx' = [t EXCEPT !.pc = t.pc, !.tries = 0, !.timer = 1]
    BY SMTT(40) DEF SendOf, Waiting
  <2>2. tx' \in Sender
    <3>1. t.pc \in TxPoints
      BY Points
    <3>. QED  BY <2>1, <3>1, Points, TxGoes
  <2>. QED  BY <2>1, <2>2 DEF Sender
<1>2. PacketOf(tx') = PacketOf(t)
  BY <1>1 DEF PacketOf
<1>3. PacketOf(t) \in Token /\ PacketOf(t).kind \notin Strays
  BY PacketIs DEF Strays
<1>. QED  BY <1>1, <1>2, <1>3, Sends DEF SendOf

LEMMA NextBlockIs ==
  ASSUME TypeOK, tx.res = "none", NEW b \in 0 .. NBlocks, NextBlock(b)
  PROVE  /\ tx' \in Sender /\ tx'.res = "none" /\ tx'.pc \in {"data", "eot"}
         /\ SentOne(Forms(PacketOf(tx'))) /\ NextIs(b)
<1>. DEFINE t == [tx EXCEPT !.blk = b]
<1>1. tx \in Sender /\ env \in Budgets
  BY DEF TypeOK
<1>2. ASSUME b < NBlocks, NEW e \in Budgets, NEW d \in {0, b + 1}, SendOf([t EXCEPT !.pc = "data", !.data = d], e)
      PROVE  /\ tx' \in Sender /\ tx'.res = "none" /\ tx'.pc \in {"data", "eot"}
             /\ SentOne(Forms(PacketOf(tx'))) /\ NextIs(b)
  <2>. DEFINE u == [t EXCEPT !.pc = "data", !.data = d]
  <2>1. u \in Sender /\ u.pc = "data" /\ u.data = d /\ u.blk = b /\ u.res = "none"
    <3>1. t \in Sender /\ t.blk = b /\ t.res = "none" /\ d \in 0 .. NBlocks /\ "data" \in TxPoints
      <4>1. d \in 0 .. NBlocks /\ "data" \in TxPoints
        BY <1>2, Sizes, Points
      <4>. QED  BY <1>1, <4>1, TxMoves DEF Sender
    <3>. HIDE DEF t
    <3>2. u \in Sender
      BY <3>1, TxReads
    <3>. QED  BY <3>1, <3>2 DEF Sender
  <2>2. SendOf(u, e)
    BY <1>2
  <2>. HIDE DEF u
  <2>. QED  BY <1>2, <2>1, <2>2, SendOfAsks DEF NextIs
<1>3. ASSUME b = NBlocks, SendOf([t EXCEPT !.pc = "eot"], env)
      PROVE  /\ tx' \in Sender /\ tx'.res = "none" /\ tx'.pc \in {"data", "eot"}
             /\ SentOne(Forms(PacketOf(tx'))) /\ NextIs(b)
  <2>. DEFINE u == [t EXCEPT !.pc = "eot"]
  <2>1. u \in Sender /\ u.pc = "eot" /\ u.blk = b /\ u.res = "none"
    <3>1. t \in Sender /\ t.blk = b /\ t.res = "none" /\ "eot" \in TxPoints
      <4>1. "eot" \in TxPoints
        BY Points
      <4>. QED  BY <1>1, <4>1, TxMoves DEF Sender
    <3>. HIDE DEF t
    <3>2. u \in Sender
      BY <3>1, TxMoves
    <3>. QED  BY <3>1, <3>2 DEF Sender
  <2>2. SendOf(u, env)
    BY <1>3
  <2>. HIDE DEF u
  <2>. QED  BY <1>1, <1>3, <2>1, <2>2, SendOfAsks DEF NextIs
<1>4. env.read > 0 => Spent(env, "read") \in Budgets
  BY <1>1, SpentBudgets
<1>. QED  BY <1>1, <1>2, <1>3, <1>4 DEF NextBlock

LEMMA TxEndFails ==
  ASSUME TypeOK, tx.pc \in {"ask"} \cup TxWaits, NEW n \in {1, 2}, TxEnd("failed"), CancelReceiver(n),
         rev' = rev \/ (rev # << >> /\ rev' = Tail(rev))
  PROVE  TxFails /\ tx' \in Sender
<1>1. tx' \in Sender /\ tx'.pc = "done" /\ tx'.res = "failed" /\ tx'.blk = tx.blk
  <2>1. tx \in Sender /\ tx' = [tx EXCEPT !.pc = "done", !.timer = 0, !.res = "failed"] /\ "done" \in TxPoints
    BY Points DEF TypeOK, TxEnd
  <2>2. tx' \in Sender
    BY <2>1, Points, TxStops
  <2>. QED  BY <2>1, <2>2 DEF Sender
<1>. QED  BY <1>1, Cancels DEF TxFails

LEMMA AskReceiverAsks ==
  ASSUME TypeOK, tx.pc \in {"off", "ask"}, NEW t \in Sender, t.blk = tx.blk, t.res = tx.res, AskReceiver(t), rev' = rev
  PROVE  TxAsks /\ tx' \in Sender
<1>1. tx' \in Sender /\ tx'.pc = "ask" /\ tx'.blk = tx.blk /\ tx'.res = tx.res
  <2>1. tx' = [t EXCEPT !.pc = "ask", !.timer = 1] /\ "ask" \in TxPoints
    BY SMTT(40), Points DEF AskReceiver
  <2>2. tx' \in Sender
    BY <2>1, Points, TxListens
  <2>. QED  BY <2>1, <2>2 DEF Sender
<1>2. env \in Budgets
  BY DEF TypeOK
<1>3. Control("junk") \in Token /\ Control("junk").kind \notin Strays
  BY ControlIs DEF Strays
<1>. QED  BY <1>1, <1>2, <1>3, Sends DEF TxAsks, AskReceiver

LEMMA GoOnShape ==
  ASSUME TypeOK, Decided, Numbered, tx.pc \in TxWaits, Takes(Wanted), GoOn
  PROVE  tx' \in Sender /\ (TxQuestion \/ TxWaitsOn \/ TxSucceeds)
<1>1. tx \in Sender /\ env \in Budgets /\ tx.res = "none"
  BY DEF TypeOK, Decided, Hosted, TxWaits
<1>2. ASSUME tx.pc = "head" \/ tx.pc = "eot"
      PROVE  tx' \in Sender /\ TxWaitsOn
  <2>. DEFINE p == IF tx.pc = "head" THEN "headC" ELSE "eotC"
  <2>1. UNCHANGED <<fwd, env>> /\ tx' = [tx EXCEPT !.pc = p, !.tries = 0, !.timer = 1]
    BY <1>2 DEF GoOn, Waiting
  <2>2. Takes("ACK") /\ p \in TxPoints
    BY <1>2, Points DEF Wanted
  <2>3. tx' \in Sender
    <3>. HIDE DEF p
    <3>. QED  BY <1>1, <2>1, <2>2, Points, TxGoes
  <2>4. tx'.pc = p /\ tx'.blk = tx.blk /\ tx'.data = tx.data /\ tx'.res = tx.res
    BY <1>1, <2>1, <2>3 DEF Sender
  <2>. QED  BY <1>2, <2>1, <2>2, <2>3, <2>4 DEF TxWaitsOn
<1>3. CASE tx.pc = "headC"
  <2>1. NextBlock(0) /\ Takes("C") /\ 0 \in 0 .. NBlocks
    BY <1>3, Sizes DEF GoOn, Wanted
  <2>. QED  BY <1>1, <1>3, <2>1, NextBlockIs DEF TxQuestion
<1>4. CASE tx.pc = "data"
  <2>1. NextBlock(tx.blk + 1) /\ Takes("ACK")
    BY <1>4 DEF GoOn, Wanted
  <2>2. tx.blk + 1 \in 0 .. NBlocks
    BY <1>1, <1>4, Sizes DEF Numbered, Sender
  <2>. QED  BY <1>1, <1>4, <2>1, <2>2, NextBlockIs DEF TxQuestion
<1>5. CASE tx.pc = "eotC"
  <2>. DEFINE t == [tx EXCEPT !.pc = "last"]
  <2>1. SendOf(t, env) /\ Takes("C")
    BY <1>5 DEF GoOn, Wanted
  <2>2. t \in Sender /\ t.pc = "last" /\ t.blk = tx.blk /\ t.res = "none"
    <3>1. t \in Sender
      BY <1>1, Points, TxMoves
    <3>. QED  BY <1>1, <3>1 DEF Sender
  <2>. HIDE DEF t
  <2>. QED  BY <1>1, <1>5, <2>1, <2>2, SendOfAsks DEF TxQuestion
<1>6. CASE tx.pc = "last"
  <2>1. TxEnd("ok") /\ UNCHANGED <<fwd, env>> /\ Takes("ACK")
    BY <1>6 DEF GoOn, Wanted
  <2>2. tx' = [tx EXCEPT !.pc = "done", !.timer = 0, !.res = "ok"] /\ "done" \in TxPoints
    BY <2>1, Points DEF TxEnd
  <2>3. tx' \in Sender
    BY <1>1, <2>2, Points, TxStops
  <2>. QED  BY <1>1, <1>6, <2>1, <2>2, <2>3 DEF TxSucceeds, Sender
<1>. QED  BY <1>2, <1>3, <1>4, <1>5, <1>6 DEF TxWaits

LEMMA TxShapes ==
  ASSUME TypeOK, Decided, Numbered, TxStart \/ TxStep
  PROVE  TxShape
<1>1. tx \in Sender /\ env \in Budgets
  BY DEF TypeOK
<1>2. UNCHANGED <<rx, stored>>
  BY DEF TxStart, TxStep, TxAsked, TxAskAgain, TxAnswer, TxSilence, TxAlone
<1>3. CASE TxStart
  <2>1. tx.pc = "off" /\ AskReceiver(tx) /\ rev' = rev
    BY <1>3 DEF TxStart
  <2>. QED  BY <1>1, <1>2, <2>1, AskReceiverAsks DEF TxShape
<1>4. CASE TxAsked
  <2>1. tx.pc = "ask" /\ rev # << >> /\ rev' = Tail(rev) /\ tx.res = "none"
    BY <1>4 DEF TxAsked, Decided, Hosted
  <2>2. CASE Head(rev) = "C" /\ tx.tries < AskTries
    <3>. DEFINE t == [tx EXCEPT !.pc = "head"]
    <3>1. SendOf(t, env) /\ Takes("C")
      BY <1>4, <2>1, <2>2 DEF TxAsked, Takes
    <3>2. t \in Sender /\ t.pc = "head" /\ t.blk = tx.blk /\ t.res = "none"
      <4>1. t \in Sender
        BY <1>1, Points, TxMoves
      <4>. QED  BY <1>1, <2>1, <4>1 DEF Sender
    <3>. HIDE DEF t
    <3>. QED  BY <1>1, <1>2, <2>1, <3>1, <3>2, SendOfAsks DEF TxQuestion, TxShape
  <2>3. CASE ~(Head(rev) = "C" /\ tx.tries < AskTries)
    <3>1. TxEnd("failed") /\ CancelReceiver(1)
      BY <1>4, <2>3 DEF TxAsked
    <3>. QED  BY <1>2, <2>1, <3>1, TxEndFails DEF TxShape
  <2>. QED  BY <2>2, <2>3
<1>5. CASE TxAskAgain
  <2>1. tx.pc = "ask" /\ rev' = rev
    BY <1>5 DEF TxAskAgain
  <2>2. CASE tx.tries < AskTries
    <3>. DEFINE t == [tx EXCEPT !.tries = @ + 1]
    <3>1. AskReceiver(t)
      BY <1>5, <2>2 DEF TxAskAgain
    <3>2. t \in Sender /\ t.blk = tx.blk /\ t.res = tx.res
      <4>1. tx.tries + 1 \in Nat
        BY <1>1 DEF Sender
      <4>2. t \in Sender
        BY <1>1, <4>1, TxTries
      <4>. QED  BY <1>1, <4>2 DEF Sender
    <3>. HIDE DEF t
    <3>. QED  BY <1>2, <2>1, <3>1, <3>2, AskReceiverAsks DEF TxShape
  <2>3. CASE ~(tx.tries < AskTries)
    <3>1. TxEnd("failed") /\ CancelReceiver(1)
      BY <1>5, <2>3 DEF TxAskAgain
    <3>. QED  BY <1>2, <2>1, <3>1, TxEndFails DEF TxShape
  <2>. QED  BY <2>2, <2>3
<1>6. CASE TxAnswer
  <2>1. tx.pc \in TxWaits /\ rev # << >> /\ rev' = Tail(rev) /\ tx.res = "none"
    BY <1>6 DEF TxAnswer, Decided, Hosted, TxWaits
  <2>2. CASE Head(rev) = Wanted
    BY <1>2, <1>6, <2>1, <2>2, GoOnShape DEF TxAnswer, Takes, TxShape
  <2>3. CASE Head(rev) # Wanted /\ Head(rev) = "NAK" /\ Wanted = "ACK"
    <3>1. SendOf(tx, env) /\ Takes("NAK")
      BY <1>6, <2>1, <2>3 DEF TxAnswer, Takes
    <3>2. tx.pc \in {"head", "data", "eot", "last"}
      BY <2>1, <2>3 DEF TxWaits, Wanted
    <3>. QED  BY <1>1, <1>2, <2>1, <3>1, <3>2, SendOfAsks DEF TxQuestion, TxShape
  <2>4. CASE Head(rev) # Wanted /\ ~(Head(rev) = "NAK" /\ Wanted = "ACK")
    <3>1. TxEnd("failed") /\ \E n \in {1, 2} : CancelReceiver(n)
      BY <1>6, <2>4 DEF TxAnswer
    <3>. QED  BY <1>2, <2>1, <3>1, TxEndFails DEF TxShape
  <2>. QED  BY <2>2, <2>3, <2>4
<1>7. CASE TxSilence
  <2>1. tx.pc \in TxWaits /\ rev' = rev
    BY <1>7 DEF TxSilence
  <2>2. CASE tx.tries + 1 < AckTries
    <3>1. tx' = [tx EXCEPT !.tries = @ + 1, !.timer = 1] /\ UNCHANGED <<fwd, env>>
      BY SMTT(40), <1>7, <2>2 DEF TxSilence
    <3>2. tx.tries + 1 \in Nat
      BY <1>1 DEF Sender
    <3>3. tx' \in Sender
      BY <1>1, <3>1, <3>2, Points, TxCounts
    <3>4. tx'.pc = tx.pc /\ tx'.blk = tx.blk /\ tx'.data = tx.data /\ tx'.res = tx.res
      BY <1>1, <3>1, <3>3 DEF Sender
    <3>. QED  BY <1>2, <2>1, <3>1, <3>3, <3>4 DEF TxWaitsOn, TxShape
  <2>3. CASE ~(tx.tries + 1 < AckTries)
    <3>1. TxEnd("failed") /\ CancelReceiver(1)
      BY <1>7, <2>3 DEF TxSilence
    <3>. QED  BY <1>2, <2>1, <3>1, TxEndFails DEF TxShape
  <2>. QED  BY <2>2, <2>3
<1>. QED  BY <1>3, <1>4, <1>5, <1>6, <1>7 DEF TxStep
-----------------------------------------------------------------------------
(* What a step of the receiver may do. *)

RxPoints == {"off", "idle", "canned", "body", "done"}
Files == {"none", "tmp", "named", "removed"}
Results == {"none", "ok", "failed"}
Eofs == 0 .. 2

LEMMA ReceiverIs ==
  Receiver = [pc : RxPoints, got : Nat, sized : BOOLEAN, errors : Nat, eofs : Eofs, timer : 0 .. 1,
              res : Results, file : Files]
  BY DEF Receiver, RxPoints, Files, Results, Eofs

LEMMA RxMoves == ASSUME NEW r \in Receiver, NEW p \in RxPoints, NEW m \in 0 .. 1
                 PROVE  [r EXCEPT !.pc = p, !.timer = m] \in Receiver
  BY ReceiverIs

LEMMA RxErrs == ASSUME NEW r \in Receiver, NEW n \in Nat
                PROVE  [r EXCEPT !.errors = n] \in Receiver
  BY ReceiverIs

LEMMA RxCounts == ASSUME NEW r \in Receiver, NEW n \in Nat, NEW g \in Nat
                  PROVE  [r EXCEPT !.errors = n, !.got = g] \in Receiver
  BY ReceiverIs

LEMMA RxSizes == ASSUME NEW r \in Receiver, NEW n \in Nat, NEW g \in Nat
                 PROVE  [r EXCEPT !.errors = n, !.got = g, !.sized = TRUE] \in Receiver
  BY ReceiverIs

LEMMA RxEofs == ASSUME NEW r \in Receiver, NEW n \in Eofs
                PROVE  [r EXCEPT !.eofs = n] \in Receiver
  BY ReceiverIs

LEMMA RxFiles == ASSUME NEW r \in Receiver, NEW f \in Files
                 PROVE  [r EXCEPT !.file = f] \in Receiver
  BY ReceiverIs

LEMMA RxStops == ASSUME NEW r \in Receiver, NEW p \in RxPoints, NEW m \in 0 .. 1, NEW res \in Results, NEW f \in Files
                 PROVE  [r EXCEPT !.pc = p, !.timer = m, !.res = res, !.file = f] \in Receiver
  BY ReceiverIs

RxSame == rx'.got = rx.got /\ rx'.sized = rx.sized /\ rx'.eofs = rx.eofs /\ stored' = stored
RxWaits(pc) == rx.res = "none" /\ rx'.pc = pc /\ rx'.res = rx.res /\ rx'.file = rx.file
RxFails == rx.res = "none" /\ RxSame /\ rx'.pc = "done" /\ rx'.res = "failed" /\ rx'.file = "removed"
RxKeeps == rx.res = "none" /\ RxSame /\ rx'.pc = "done" /\ rx'.res = "ok" /\ rx'.file = "named"
LinkSame == UNCHANGED <<rev, env>>

Heard(k) == fwd # << >> /\ k \in Reads(Head(fwd)) /\ Consume

RxStarts == rx.pc = "off" /\ rx.res = "none" /\ RxSame /\ rx'.pc = "idle" /\ rx'.res = rx.res /\ rx'.file = "tmp"
              /\ fwd' = fwd /\ LinkSame

RxQuiets ==
  /\ \/ rx.pc \in {"idle", "body"} /\ fwd = << >> /\ fwd' = fwd
     \/ rx.pc = "idle" /\ Heard("junk")
     \/ rx.pc = "canned" /\ fwd # << >> /\ Leave(Bytes(Head(fwd)) - 1)
  /\ \/ rx.eofs = 2 /\ RxKeeps /\ LinkSame
     \/ rx.eofs <= 1 /\ (RxFails \/ (RxSame /\ RxWaits("idle"))) /\ Replied("C")

RxGivesUp ==
  /\ \/ rx.pc = "idle" /\ Heard("abort")
     \/ rx.pc = "canned" /\ fwd = << >> /\ fwd' = fwd
  /\ RxFails /\ Replied("C")

RxCans == rx.pc = "idle" /\ Heard("CA") /\ RxSame /\ RxWaits("canned") /\ LinkSame
RxCancels == rx.pc = "canned" /\ fwd # << >> /\ Leave(Bytes(Head(fwd)) - 1) /\ RxFails /\ Replied("ACK")

RxEots ==
  /\ rx.pc = "idle" /\ Heard("eot") /\ RxWaits("idle")
  /\ rx'.got = rx.got /\ rx'.sized = rx.sized /\ stored' = stored
  /\ \/ rx.eofs = 0 /\ rx'.eofs = 1 /\ Replied("NAK")
     \/ rx.eofs > 0 /\ rx'.eofs = 2 /\ Replied("ACK")

RxRefuses ==
  /\ \/ rx.pc = "idle" /\ \E k \in Packets \cup {"bad"} : Heard(k)
     \/ rx.pc = "body" /\ fwd # << >> /\ \E n \in 0 .. Bytes(Head(fwd)) - 1 : Leave(n)
  /\ RxFails \/ (RxSame /\ RxWaits("idle"))
  /\ Replied("NAK")

RxHeadEmpties ==
  /\ rx.pc = "idle" /\ \E k \in {"data", "last"} : Heard(k)
  /\ Expects(Head(fwd)) /\ rx.got = 0 /\ RxWaits("idle")
  /\ rx'.got = 1 /\ rx'.sized = rx.sized /\ rx'.eofs = rx.eofs /\ stored' = stored
  /\ Replied("NAK")

RxLates == rx.pc = "idle" /\ (\E k \in Packets : Heard(k)) /\ rx.eofs = 2 /\ RxSame /\ RxWaits("idle") /\ Replied("ACK")

RxHeads ==
  /\ rx.pc = "idle" /\ Heard("head") /\ Expects(Head(fwd)) /\ rx.got = 0
  /\ \/ RxFails /\ Replied("C")
     \/ /\ RxWaits("idle") /\ rx'.got = 1 /\ rx'.sized = TRUE /\ rx'.eofs = rx.eofs /\ stored' = stored
        /\ Replied("ACK")

RxDatas ==
  /\ rx.pc = "idle" /\ (\E k \in Packets : Heard(k)) /\ Expects(Head(fwd)) /\ rx.got > 0
  /\ \/ Incomplete /\ RxFails /\ Replied("C")
     \/ /\ RxWaits("idle") /\ rx'.got = rx.got + 1 /\ rx'.sized = rx.sized /\ rx'.eofs = rx.eofs
        /\ \/ Incomplete /\ stored' = Append(stored, Head(fwd).blk)
           \/ ~Incomplete /\ stored' = stored
        /\ Replied("ACK")

RxBodies ==
  /\ \/ rx.pc = "idle" /\ Heard("short")
     \/ rx.pc = "body" /\ fwd # << >> /\ fwd' = Tail(fwd)
  /\ RxSame /\ RxWaits("body") /\ LinkSame

RxShape == /\ UNCHANGED tx /\ rx' \in Receiver
           /\ \/ RxStarts \/ RxQuiets \/ RxGivesUp \/ RxCans \/ RxCancels \/ RxEots \/ RxRefuses
              \/ RxHeadEmpties \/ RxLates \/ RxHeads \/ RxDatas \/ RxBodies

LEMMA ListenIs ==
  ASSUME NEW r \in Receiver, Listen(r)
  PROVE  /\ rx' \in Receiver /\ rx'.pc = "idle" /\ rx'.got = r.got /\ rx'.sized = r.sized /\ rx'.eofs = r.eofs
         /\ rx'.res = r.res /\ rx'.file = r.file
<1>1. "idle" \in RxPoints /\ 1 \in 0 .. 1
  BY DEF RxPoints
<1>2. rx' = [r EXCEPT !.pc = "idle", !.timer = 1]
  BY DEF Listen
<1>3. rx' \in Receiver
  BY <1>1, <1>2, RxMoves
<1>. QED  BY <1>2, <1>3, ReceiverIs

LEMMA RxEndIs ==
  ASSUME TypeOK, rx.res = "none", NEW ok \in BOOLEAN, RxEnd(ok), stored' = stored
  PROVE  rx' \in Receiver /\ (ok => RxKeeps) /\ (~ok => RxFails)
<1>. DEFINE res == IF ok THEN "ok" ELSE "failed"
            f == IF ok THEN "named" ELSE "removed"
<1>1. "done" \in RxPoints /\ 0 \in 0 .. 1 /\ res \in Results /\ f \in Files /\ rx \in Receiver
  BY DEF RxPoints, Results, Files, TypeOK
<1>2. rx' = [rx EXCEPT !.pc = "done", !.timer = 0, !.res = res, !.file = f]
  BY DEF RxEnd
<1>3. rx' \in Receiver
  <2>. HIDE DEF res, f
  <2>. QED  BY <1>1, <1>2, RxStops
<1>4. /\ rx'.pc = "done" /\ rx'.got = rx.got /\ rx'.sized = rx.sized /\ rx'.eofs = rx.eofs
      /\ rx'.res = res /\ rx'.file = f
  <2>. HIDE DEF res, f
  <2>. QED  BY <1>1, <1>2, ReceiverIs
<1>. QED  BY <1>3, <1>4 DEF RxKeeps, RxFails, RxSame

LEMMA ByteIs == Byte = {"C", "ACK", "NAK", "CA", "junk"} /\ "CA" \in {"C", "CA"} /\ "C" \in {"C", "CA"}
  BY DEF Byte

\* Without a meaning to the sender, two CAs are a reply that answers nothing.
LEMMA RepliedCA ==
  ASSUME Replied("CA")
  PROVE  Replied("C")
  BY DEF Replied

LEMMA RxAbortIs ==
  ASSUME TypeOK, rx.res = "none", RxAbort, stored' = stored
  PROVE  rx' \in Receiver /\ RxFails /\ Replied("C")
<1>1. RxEnd(FALSE) /\ Reply(<<"CA", "CA">>)
  BY DEF RxAbort
<1>. QED  BY <1>1, RxEndIs, ReplyTwo, RepliedCA, ByteIs

LEMMA RefuseIs ==
  ASSUME TypeOK, rx.res = "none", NEW got \in Nat, Refuse(got), stored' = stored
  PROVE  /\ rx' \in Receiver /\ Replied("NAK")
         /\ \/ RxFails
            \/ /\ RxWaits("idle") /\ rx'.got = got /\ rx'.sized = rx.sized /\ rx'.eofs = rx.eofs
<1>1. rx \in Receiver /\ rx.errors + 1 \in Nat
  BY ReceiverIs DEF TypeOK
<1>2. CASE RxAbort
  <2>1. Replied("C") => Replied("NAK")
    BY DEF Replied
  <2>. QED  BY <1>2, <2>1, RxAbortIs
<1>3. CASE Listen([rx EXCEPT !.errors = @ + 1, !.got = got]) /\ Reply(<<"NAK">>)
  <2>. DEFINE r == [rx EXCEPT !.errors = rx.errors + 1, !.got = got]
  <2>1. r \in Receiver
    BY <1>1, RxCounts
  <2>2. r.got = got /\ r.sized = rx.sized /\ r.eofs = rx.eofs /\ r.res = rx.res /\ r.file = rx.file
    BY <1>1, ReceiverIs
  <2>3. Listen(r)
    BY <1>3
  <2>. HIDE DEF r
  <2>. QED  BY <1>3, <2>1, <2>2, <2>3, ListenIs, ReplyOne, ByteIs DEF RxWaits
<1>. QED  BY <1>2, <1>3 DEF Refuse

LEMMA QuietIs ==
  ASSUME TypeOK, rx.res = "none", Quiet, stored' = stored
  PROVE  /\ rx' \in Receiver
         /\ \/ rx.eofs = 2 /\ RxKeeps /\ LinkSame
            \/ rx.eofs <= 1 /\ (RxFails \/ (RxSame /\ RxWaits("idle"))) /\ Replied("C")
<1>1. rx \in Receiver /\ rx.errors + 1 \in Nat /\ rx.eofs \in 0 .. 2
  BY ReceiverIs DEF TypeOK, Eofs
<1>2. CASE rx.eofs > 1 /\ RxEnd(TRUE) /\ UNCHANGED <<rev, env>>
  <2>1. rx.eofs = 2
    BY <1>1, <1>2
  <2>2. rx' \in Receiver /\ RxKeeps
    BY <1>2, RxEndIs
  <2>. QED  BY <1>2, <2>1, <2>2 DEF LinkSame
<1>3. CASE rx.eofs <= 1 /\ RxAbort
  BY <1>3, RxAbortIs
<1>4. CASE rx.eofs <= 1 /\ Listen([rx EXCEPT !.errors = @ + 1]) /\ Reply(<<"C">>)
  <2>. DEFINE r == [rx EXCEPT !.errors = rx.errors + 1]
  <2>1. r \in Receiver
    BY <1>1, RxErrs
  <2>2. r.got = rx.got /\ r.sized = rx.sized /\ r.eofs = rx.eofs /\ r.res = rx.res /\ r.file = rx.file
    BY <1>1, ReceiverIs
  <2>3. Listen(r)
    BY <1>4
  <2>. HIDE DEF r
  <2>. QED  BY <1>4, <2>1, <2>2, <2>3, ListenIs, ReplyOne, ByteIs DEF RxWaits, RxSame
<1>. QED  BY <1>2, <1>3, <1>4 DEF Quiet

LEMMA RxShapes ==
  ASSUME TypeOK, Decided, RxStart \/ RxStep
  PROVE  RxShape
<1>1. /\ rx \in Receiver /\ rx.got \in Nat /\ rx.eofs \in 0 .. 2 /\ rx.errors \in Nat
      /\ rx.pc # "done" => rx.res = "none"
  BY ReceiverIs DEF TypeOK, Decided, Hosted, Eofs
<1>2. UNCHANGED tx
  BY DEF RxStart, RxStep, RxAlone, RxJunk, RxUserAbort, RxCan, RxCanByte, RxEot, RxBad, RxPacketLate,
         RxPacketWrong, RxHead, RxHeadEmpty, RxData, RxDataBeyond, RxShort, RxBodyByte, RxTimeout
<1>3. \A k : Receives(k) => rx.pc = "idle" /\ Heard(k) /\ rx.res = "none"
  BY <1>1 DEF Receives, Heard
<1>4. CASE RxStart
  <2>. DEFINE r == [rx EXCEPT !.file = "tmp"]
  <2>1. r \in Receiver /\ Listen(r) /\ stored' = stored /\ fwd' = fwd /\ LinkSame /\ rx.pc = "off"
    <3>1. "tmp" \in Files
      BY DEF Files
    <3>. QED  BY <1>1, <1>4, <3>1, RxFiles DEF RxStart, RxAlone, LinkSame
  <2>2. r.got = rx.got /\ r.sized = rx.sized /\ r.eofs = rx.eofs /\ r.res = rx.res /\ r.file = "tmp"
    BY <1>1, ReceiverIs
  <2>. HIDE DEF r
  <2>. QED  BY <1>1, <1>2, <2>1, <2>2, ListenIs DEF RxShape, RxStarts, RxSame
<1>5. CASE RxJunk
  <2>1. rx.pc = "idle" /\ Heard("junk") /\ rx.res = "none" /\ stored' = stored
    BY <1>3, <1>5 DEF RxJunk, RxAlone
  <2>. QED  BY <1>2, <1>5, <2>1, QuietIs DEF RxShape, RxQuiets, RxJunk
<1>6. CASE RxUserAbort
  <2>1. rx.pc = "idle" /\ Heard("abort") /\ rx.res = "none" /\ stored' = stored /\ RxAbort
    BY <1>3, <1>6 DEF RxUserAbort, RxAlone
  <2>. QED  BY <1>2, <2>1, RxAbortIs DEF RxShape, RxGivesUp
<1>7. CASE RxCan
  <2>1. rx.pc = "idle" /\ Heard("CA") /\ rx.res = "none" /\ stored' = stored /\ LinkSame
        /\ rx' = [rx EXCEPT !.pc = "canned", !.timer = 1]
    BY <1>3, <1>7 DEF RxCan, RxAlone, LinkSame
  <2>2. "canned" \in RxPoints /\ 1 \in 0 .. 1
    BY SMTT(40) DEF RxPoints
  <2>3. rx' \in Receiver
    BY <1>1, <2>1, <2>2, RxMoves
  <2>4. RxSame /\ RxWaits("canned")
    BY <1>1, <2>1, <2>3, ReceiverIs DEF RxSame, RxWaits
  <2>. QED  BY <1>2, <2>1, <2>3, <2>4 DEF RxShape, RxCans
<1>8. CASE RxCanByte
  <2>1. rx.pc = "canned" /\ fwd # << >> /\ rx.res = "none" /\ stored' = stored
    BY <1>1, <1>8 DEF RxCanByte, RxAlone
  <2>2. CASE "CA" \in Reads(Head(fwd)) /\ RxEnd(FALSE) /\ Reply(<<"ACK">>)
    <3>1. rx' \in Receiver /\ RxFails /\ Replied("ACK")
      BY <2>1, <2>2, RxEndIs, ReplyOne, ByteIs
    <3>. QED  BY <1>2, <1>8, <2>1, <2>2, <3>1 DEF RxShape, RxCancels, RxCanByte
  <2>3. CASE Reads(Head(fwd)) # {"CA"} /\ Quiet
    BY <1>2, <1>8, <2>1, <2>3, QuietIs DEF RxShape, RxQuiets, RxCanByte
  <2>. QED  BY <1>8, <2>2, <2>3 DEF RxCanByte
<1>9. CASE RxEot
  <2>. DEFINE n == IF rx.eofs < 2 THEN rx.eofs + 1 ELSE 2
              r == [rx EXCEPT !.eofs = n]
  <2>1. rx.pc = "idle" /\ Heard("eot") /\ rx.res = "none" /\ stored' = stored /\ Listen(r)
        /\ Reply(IF rx.eofs = 0 THEN <<"NAK">> ELSE <<"ACK", "C">>)
    BY <1>3, <1>9 DEF RxEot, RxAlone
  <2>2. n \in Eofs /\ n = (IF rx.eofs = 0 THEN 1 ELSE 2)
    BY <1>1 DEF Eofs
  <2>3. r \in Receiver /\ r.got = rx.got /\ r.sized = rx.sized /\ r.eofs = n /\ r.res = rx.res /\ r.file = rx.file
    <3>. HIDE DEF n
    <3>. QED  BY <1>1, <2>2, RxEofs, ReceiverIs
  <2>. HIDE DEF r, n
  <2>4. rx' \in Receiver /\ RxWaits("idle") /\ rx'.eofs = n /\ rx'.got = rx.got /\ rx'.sized = rx.sized
    BY <2>1, <2>3, ListenIs DEF RxWaits
  <2>5. CASE rx.eofs = 0
    BY <1>2, <2>1, <2>2, <2>4, <2>5, ReplyOne, ByteIs DEF RxShape, RxEots
  <2>6. CASE rx.eofs # 0
    <3>1. rx.eofs > 0
      BY <1>1, <2>6
    <3>2. Replied("ACK")
      BY <2>1, <2>6, ReplyTwo, ByteIs
    <3>. QED  BY <1>2, <2>1, <2>2, <2>4, <2>6, <3>1, <3>2 DEF RxShape, RxEots
  <2>. QED  BY <2>5, <2>6
<1>10. CASE RxBad \/ RxPacketWrong
  <2>1. rx.pc = "idle" /\ (\E k \in Packets \cup {"bad"} : Heard(k)) /\ rx.res = "none" /\ stored' = stored /\ Refuse(rx.got)
    BY <1>3, <1>10 DEF RxBad, RxPacketWrong, RxAlone
  <2>. QED  BY <1>1, <1>2, <2>1, RefuseIs DEF RxShape, RxRefuses, RxSame
<1>11. CASE RxPacketLate
  <2>1. rx.pc = "idle" /\ (\E k \in Packets : Heard(k)) /\ rx.res = "none" /\ stored' = stored /\ rx.eofs = 2
        /\ Listen(rx) /\ Reply(<<"ACK">>)
    BY <1>1, <1>3, <1>11 DEF RxPacketLate, RxAlone
  <2>. QED  BY <1>1, <1>2, <2>1, ListenIs, ReplyOne, ByteIs DEF RxShape, RxLates, RxSame, RxWaits
<1>12. CASE RxHead
  <2>1. rx.pc = "idle" /\ Heard("head") /\ Expects(Head(fwd)) /\ rx.got = 0 /\ rx.res = "none" /\ stored' = stored
    BY <1>3, <1>12 DEF RxHead, RxAlone
  <2>2. CASE RxAbort
    BY <1>2, <2>1, <2>2, RxAbortIs DEF RxShape, RxHeads
  <2>3. CASE Listen([rx EXCEPT !.errors = 0, !.got = 1, !.sized = TRUE]) /\ Reply(<<"ACK", "C">>)
    <3>. DEFINE r == [rx EXCEPT !.errors = 0, !.got = 1, !.sized = TRUE]
    <3>1. r \in Receiver
      <4>1. 0 \in Nat /\ 1 \in Nat
        OBVIOUS
      <4>. QED  BY <1>1, <4>1, RxSizes
    <3>2. r.got = 1 /\ r.sized = TRUE /\ r.eofs = rx.eofs /\ r.res = rx.res /\ r.file = rx.file
      BY <1>1, ReceiverIs
    <3>3. Listen(r)
      BY <2>3
    <3>. HIDE DEF r
    <3>. QED  BY <1>2, <2>1, <2>3, <3>1, <3>2, <3>3, ListenIs, ReplyTwo, ByteIs DEF RxShape, RxHeads, RxWaits
  <2>. QED  BY <1>12, <2>2, <2>3 DEF RxHead
<1>13. CASE RxHeadEmpty
  <2>1. rx.pc = "idle" /\ (\E k \in {"data", "last"} : Heard(k)) /\ Expects(Head(fwd)) /\ rx.got = 0 /\ rx.res = "none"
        /\ stored' = stored
    BY <1>3, <1>13 DEF RxHeadEmpty, RxAlone
  <2>2. \E k \in Packets \cup {"bad"} : Heard(k)
    BY <2>1 DEF Packets
  <2>3. CASE Refuse(1)
    <3>1. \/ RxFails /\ rx' \in Receiver /\ Replied("NAK")
          \/ /\ rx' \in Receiver /\ Replied("NAK") /\ RxWaits("idle")
             /\ rx'.got = 1 /\ rx'.sized = rx.sized /\ rx'.eofs = rx.eofs
      BY <2>1, <2>3, RefuseIs
    <3>. QED  BY <1>2, <2>1, <2>2, <3>1 DEF RxShape, RxRefuses, RxHeadEmpties
  <2>4. CASE RxAbort
    <3>1. RxFails /\ rx' \in Receiver /\ Replied("C")
      BY <2>1, <2>4, RxAbortIs
    <3>2. Replied("NAK")
      BY <3>1 DEF Replied
    <3>. QED  BY <1>2, <2>1, <2>2, <3>1, <3>2 DEF RxShape, RxRefuses
  <2>. QED  BY <1>13, <2>3, <2>4 DEF RxHeadEmpty
<1>14. CASE RxData \/ RxDataBeyond
  <2>. DEFINE r == [rx EXCEPT !.errors = 0, !.got = rx.got + 1]
  <2>1. rx.pc = "idle" /\ (\E k \in Packets : Heard(k)) /\ Expects(Head(fwd)) /\ rx.got > 0 /\ rx.res = "none"
    BY <1>3, <1>14 DEF RxData, RxDataBeyond
  <2>2. CASE Incomplete /\ RxEnd(FALSE) /\ env.write > 0 /\ env' = Spent(env, "write") /\ stored' = stored
             /\ rev' = Put(rev, RevCap, <<"CA", "CA">>)
    <3>1. rx' \in Receiver /\ RxFails
      BY <2>1, <2>2, RxEndIs
    <3>2. /\ <<"CA", "CA">> \in Seq(Byte)
          /\ \A i \in 1 .. Len(<<"CA", "CA">>) : <<"CA", "CA">>[i] \in {"C", "CA", "junk"}
      BY ByteIs
    <3>3. env' \in Budgets
      BY <2>2, SpentBudgets DEF TypeOK
    <3>4. Replied("C")
      BY <2>2, <3>2, <3>3, PutReply
    <3>. QED  BY <1>2, <2>1, <2>2, <3>1, <3>4 DEF RxShape, RxDatas
  <2>3. CASE Listen(r) /\ Reply(<<"ACK">>) /\ \/ Incomplete /\ stored' = Append(stored, Head(fwd).blk)
                                              \/ ~Incomplete /\ stored' = stored
    <3>1. r \in Receiver
      <4>1. 0 \in Nat /\ rx.got + 1 \in Nat
        BY <1>1
      <4>. QED  BY <1>1, <4>1, RxCounts
    <3>2. r.got = rx.got + 1 /\ r.sized = rx.sized /\ r.eofs = rx.eofs /\ r.res = rx.res /\ r.file = rx.file
      BY <1>1, ReceiverIs
    <3>. HIDE DEF r
    <3>3. rx' \in Receiver /\ RxWaits("idle") /\ rx'.got = rx.got + 1 /\ rx'.sized = rx.sized /\ rx'.eofs = rx.eofs
      BY <2>1, <2>3, <3>1, <3>2, ListenIs DEF RxWaits
    <3>4. Replied("ACK")
      BY <2>3, ReplyOne, ByteIs
    <3>. QED  BY <1>2, <2>1, <2>3, <3>3, <3>4 DEF RxShape, RxDatas
  <2>. QED  BY <1>14, <2>2, <2>3 DEF RxData, RxDataBeyond, RxAlone
<1>15. CASE RxShort
  <2>1. rx.pc = "idle" /\ Heard("short") /\ rx.res = "none" /\ stored' = stored /\ LinkSame
        /\ rx' = [rx EXCEPT !.pc = "body", !.timer = 1]
    BY <1>3, <1>15 DEF RxShort, RxAlone, LinkSame
  <2>2. "body" \in RxPoints /\ 1 \in 0 .. 1
    BY SMTT(40) DEF RxPoints
  <2>3. rx' \in Receiver
    BY <1>1, <2>1, <2>2, RxMoves
  <2>4. RxSame /\ RxWaits("body")
    BY <1>1, <2>1, <2>3, ReceiverIs DEF RxSame, RxWaits
  <2>. QED  BY <1>2, <2>1, <2>3, <2>4 DEF RxShape, RxBodies
<1>16. CASE RxBodyByte
  <2>1. rx.pc = "body" /\ fwd # << >> /\ rx.res = "none" /\ stored' = stored
    BY <1>1, <1>16 DEF RxBodyByte, RxAlone
  <2>2. CASE Leave(0) /\ rx' = [rx EXCEPT !.timer = 1] /\ UNCHANGED <<rev, env>>
    <3>1. rx' \in Receiver
      <4>1. 1 \in 0 .. 1
        OBVIOUS
      <4>. QED  BY <1>1, <2>2, <4>1, ReceiverIs
    <3>2. RxSame /\ RxWaits("body")
      BY <1>1, <2>1, <2>2, <3>1, ReceiverIs DEF RxSame, RxWaits
    <3>. QED  BY <1>2, <2>1, <2>2, <3>1, <3>2 DEF RxShape, RxBodies, LinkSame, Leave
  <2>3. CASE (\E n \in 0 .. Bytes(Head(fwd)) - 1 : Leave(n)) /\ Refuse(rx.got)
    BY <1>1, <1>2, <2>1, <2>3, RefuseIs DEF RxShape, RxRefuses, RxSame
  <2>. QED  BY <1>16, <2>2, <2>3 DEF RxBodyByte
<1>17. CASE RxTimeout
  <2>1. fwd = << >> /\ fwd' = fwd /\ stored' = stored
    BY <1>17 DEF RxTimeout, RxAlone
  <2>2. CASE rx.pc \in {"idle", "body"} /\ Quiet
    BY <1>1, <1>2, <2>1, <2>2, QuietIs DEF RxShape, RxQuiets
  <2>3. CASE rx.pc = "canned" /\ RxAbort
    BY <1>1, <1>2, <2>1, <2>3, RxAbortIs DEF RxShape, RxGivesUp
  <2>. QED  BY <1>17, <2>2, <2>3 DEF RxTimeout
<1>. QED  BY <1>4, <1>5, <1>6, <1>7, <1>8, <1>9, <1>10, <1>11, <1>12, <1>13, <1>14, <1>15, <1>16, <1>17 DEF RxStep

\* A second changes nothing but the timers.
TickShape == /\ tx' \in Sender /\ rx' \in Receiver /\ UNCHANGED <<fwd, rev, stored, env>>
             /\ tx'.pc = tx.pc /\ tx'.blk = tx.blk /\ tx'.data = tx.data /\ tx'.res = tx.res
             /\ rx'.pc = rx.pc /\ rx'.got = rx.got /\ rx'.sized = rx.sized /\ rx'.eofs = rx.eofs
             /\ rx'.res = rx.res /\ rx'.file = rx.file

LEMMA TickIs ==
  ASSUME TypeOK, Tick
  PROVE  TickShape
<1>1. tx \in Sender /\ rx \in Receiver /\ tx.timer \in 0 .. 1 /\ rx.timer \in 0 .. 1
  BY DEF TypeOK, Sender, Receiver
<1>2. /\ tx' \in Sender /\ tx'.pc = tx.pc /\ tx'.blk = tx.blk /\ tx'.data = tx.data /\ tx'.res = tx.res
  <2>1. CASE TxRuns
    <3>. DEFINE m == tx.timer - 1
    <3>1. m \in 0 .. 1 /\ tx' = [tx EXCEPT !.timer = m]
      BY <1>1, <2>1 DEF Tick
    <3>. HIDE DEF m
    <3>2. tx' \in Sender
      BY <1>1, <3>1 DEF Sender
    <3>. QED  BY <1>1, <3>1, <3>2 DEF Sender
  <2>2. CASE ~TxRuns
    BY <1>1, <2>2 DEF Tick
  <2>. QED  BY <2>1, <2>2
<1>3. /\ rx' \in Receiver /\ rx'.pc = rx.pc /\ rx'.got = rx.got /\ rx'.sized = rx.sized /\ rx'.eofs = rx.eofs
      /\ rx'.res = rx.res /\ rx'.file = rx.file
  <2>1. CASE RxRuns
    <3>. DEFINE m == rx.timer - 1
    <3>1. m \in 0 .. 1 /\ rx' = [rx EXCEPT !.timer = m]
      BY <1>1, <2>1 DEF Tick
    <3>. HIDE DEF m
    <3>2. rx' \in Receiver
      BY <1>1, <3>1, ReceiverIs
    <3>. QED  BY <1>1, <3>1, <3>2, ReceiverIs
  <2>2. CASE ~RxRuns
    BY <1>1, <2>2 DEF Tick
  <2>. QED  BY <2>1, <2>2
<1>. QED  BY <1>2, <1>3 DEF TickShape, Tick
-----------------------------------------------------------------------------
(* What holds of the receiver whatever the link does is inductive. *)

LEMMA TailIs ==
  ASSUME NEW S, NEW q \in Seq(S), q # << >>
  PROVE  /\ Tail(q) \in Seq(S) /\ Len(Tail(q)) = Len(q) - 1 /\ Len(q) >= 1
         /\ \A i \in 1 .. Len(Tail(q)) : Tail(q)[i] = q[i + 1]
         /\ Head(q) = q[1] /\ q[1] \in S
  OBVIOUS

\* The queue as a reader leaves it: the tokens keep what they carry.
Kin(t, u) == t.blk = u.blk /\ t.pkt = u.pkt
Left == /\ fwd' \in Seq(Token) /\ Len(fwd') <= FwdCap
        /\ \A i \in 1 .. Len(fwd') : \E j \in 1 .. Len(fwd) : Kin(fwd'[i], fwd[j])

LEMMA LeftBySame == ASSUME TypeOK, fwd' = fwd PROVE Left
  BY DEF TypeOK, Left, Kin

LEMMA LeftByTail ==
  ASSUME TypeOK, fwd # << >>, fwd' = Tail(fwd)
  PROVE  Left
<1>1. fwd \in Seq(Token) /\ Len(fwd) <= FwdCap /\ Len(fwd) \in Nat /\ FwdCap \in Nat
  BY Sizes DEF TypeOK
<1>2. fwd' \in Seq(Token) /\ Len(fwd') = Len(fwd) - 1 /\ \A i \in 1 .. Len(fwd') : fwd'[i] = fwd[i + 1]
  BY <1>1, TailIs
<1>3. \A i \in 1 .. Len(fwd') : i + 1 \in 1 .. Len(fwd)
  BY <1>1, <1>2
<1>. QED  BY <1>1, <1>2, <1>3 DEF Left, Kin

Cut(n) == fwd' = <<Headless(Head(fwd), n)>> \o Tail(fwd)

LEMMA LeftByHeadless ==
  ASSUME TypeOK, fwd # << >>, NEW n \in 1 .. PacketBytes, Cut(n)
  PROVE  Left
<1>. DEFINE t == Headless(Head(fwd), n)
<1>1. fwd \in Seq(Token) /\ Len(fwd) <= FwdCap /\ Len(fwd) \in Nat /\ FwdCap \in Nat
  BY Sizes DEF TypeOK
<1>2. /\ Tail(fwd) \in Seq(Token) /\ Len(Tail(fwd)) = Len(fwd) - 1 /\ Len(fwd) >= 1
      /\ \A i \in 1 .. Len(Tail(fwd)) : Tail(fwd)[i] = fwd[i + 1]
      /\ Head(fwd) = fwd[1] /\ fwd[1] \in Token
  BY <1>1, TailIs
<1>3. t \in Token /\ Kin(t, fwd[1])
  BY <1>2, HeadlessIs DEF Kin
<1>4. fwd' = <<t>> \o Tail(fwd)
  BY DEF Cut
<1>. HIDE DEF t
<1>5. <<t>> \in Seq(Token) /\ Len(<<t>>) = 1 /\ <<t>>[1] = t
  BY <1>3
<1>6. /\ fwd' \in Seq(Token) /\ Len(fwd') = Len(fwd) /\ fwd'[1] = t
      /\ \A i \in 2 .. Len(fwd) : fwd'[i] = Tail(fwd)[i - 1]
  <2>. DEFINE p == <<t>>  q == Tail(fwd)
  <2>1. p \in Seq(Token) /\ q \in Seq(Token) /\ Len(p) = 1 /\ Len(q) = Len(fwd) - 1 /\ fwd' = p \o q /\ p[1] = t
    BY <1>2, <1>4, <1>5
  <2>. HIDE DEF p, q
  <2>2. /\ fwd' \in Seq(Token) /\ Len(fwd') = Len(p) + Len(q) /\ \A i \in 1 .. Len(p) : fwd'[i] = p[i]
        /\ \A i \in Len(p) + 1 .. Len(p) + Len(q) : fwd'[i] = q[i - Len(p)]
    BY <2>1, CatIs
  <2>. QED  BY <1>1, <1>2, <2>1, <2>2 DEF q
<1>7. \A i \in 2 .. Len(fwd) : fwd'[i] = fwd[i]
  <2>1. \A i \in 2 .. Len(fwd) : i - 1 \in 1 .. Len(Tail(fwd)) /\ (i - 1) + 1 = i
    BY <1>1, <1>2
  <2>. QED  BY <1>2, <1>6, <2>1
<1>8. \A i \in 1 .. Len(fwd') : Kin(fwd'[i], fwd[i])
  BY <1>1, <1>3, <1>6, <1>7 DEF Kin
<1>. QED  BY <1>1, <1>6, <1>8 DEF Left

LEMMA LeftByLeave ==
  ASSUME TypeOK, fwd # << >>, NEW n \in 0 .. PacketBytes, Leave(n)
  PROVE  Left
<1>1. n = 0 \/ n \in 1 .. PacketBytes
  BY Sizes
<1>. QED  BY <1>1, LeftByTail, LeftByHeadless DEF Leave, Cut

\* What is left of a token is never more than a packet.
LEMMA BytesIs ==
  ASSUME TypeOK, fwd # << >>
  PROVE  /\ Bytes(Head(fwd)) - 1 \in 0 .. PacketBytes
         /\ Head(fwd).kind \in Strays => Head(fwd).left - 1 \in 0 .. PacketBytes
         /\ Head(fwd).kind \notin Packets \cup Strays \cup {"bad", "short"} => Bytes(Head(fwd)) = 1
<1>1. Head(fwd) \in Token
  BY TailIs DEF TypeOK
<1>2. Head(fwd).kind \in Strays => Head(fwd).left \in 1 .. PacketBytes
  BY <1>1, Sizes DEF Token
<1>. QED  BY <1>2, Sizes DEF Bytes

LEMMA LeftByConsume ==
  ASSUME TypeOK, fwd # << >>, Consume
  PROVE  Left
<1>1. 0 \in 0 .. PacketBytes
  BY Sizes
<1>. QED  BY <1>1, BytesIs, LeftByLeave DEF Consume

LEMMA RxLeaves ==
  ASSUME TypeOK, RxShape
  PROVE  Left
<1>1. \A k : Heard(k) => Left
  BY LeftByConsume DEF Heard
<1>2. RxStarts \/ RxQuiets => Left
  BY <1>1, LeftBySame, BytesIs, LeftByLeave DEF RxStarts, RxQuiets
<1>3. RxGivesUp \/ RxCans \/ RxEots \/ RxHeadEmpties \/ RxLates \/ RxHeads \/ RxDatas => Left
  BY <1>1, LeftBySame DEF RxGivesUp, RxCans, RxEots, RxHeadEmpties, RxLates, RxHeads, RxDatas
<1>4. RxRefuses \/ RxBodies => Left
  <2>1. rx.pc = "body" /\ fwd # << >> => \A n \in 0 .. Bytes(Head(fwd)) - 1 : n \in 0 .. PacketBytes
    BY BytesIs, Sizes
  <2>. QED  BY <1>1, <2>1, LeftByTail, LeftByLeave DEF RxRefuses, RxBodies
<1>5. RxCancels => Left
  BY BytesIs, LeftByLeave DEF RxCancels
<1>. QED  BY <1>2, <1>3, <1>4, <1>5 DEF RxShape

LEMMA RxReplies ==
  ASSUME TypeOK, RxShape
  PROVE  rev' \in Seq(Byte) /\ Len(rev') <= RevCap /\ env' \in Budgets
<1>1. LinkSame => rev' \in Seq(Byte) /\ Len(rev') <= RevCap /\ env' \in Budgets
  BY DEF LinkSame, TypeOK
<1>2. \A b : Replied(b) => rev' \in Seq(Byte) /\ Len(rev') <= RevCap /\ env' \in Budgets
  BY DEF Replied
<1>3. LinkSame \/ \E b : Replied(b)
  BY DEF RxShape, RxStarts, RxQuiets, RxGivesUp, RxCans, RxCancels, RxEots, RxRefuses, RxHeadEmpties,
         RxLates, RxHeads, RxDatas, RxBodies
<1>. QED  BY <1>1, <1>2, <1>3

LEMMA InitIs == Init => AnySenderInv
<1>. SUFFICES ASSUME Init PROVE AnySenderInv
  OBVIOUS
<1>1. tx \in Sender
  <2>1. "off" \in TxPoints /\ 0 \in 0 .. NBlocks /\ 0 \in Nat /\ 0 \in 0 .. 1
    BY Points
  <2>. QED  BY <2>1 DEF Init, Sender, TxPoints
<1>2. rx \in Receiver
  <2>1. "off" \in RxPoints /\ 0 \in Eofs /\ "none" \in Results /\ "none" \in Files /\ FALSE \in BOOLEAN
    BY DEF RxPoints, Eofs, Results, Files
  <2>. QED  BY <2>1, ReceiverIs DEF Init
<1>3. env \in Budgets
  BY Sizes DEF Init, Budgets
<1>4. fwd = << >> /\ rev = << >> /\ stored = << >> /\ Len(fwd) = 0 /\ Len(rev) = 0 /\ Len(stored) = 0
  BY DEF Init
<1>5. TypeOK
  BY <1>1, <1>2, <1>3, <1>4, Sizes DEF TypeOK
<1>6. Decided /\ Numbered /\ Counted /\ NamedAfterEot
  BY <1>4, Sizes DEF Init, Decided, Hosted, Numbered, Counted, NamedAfterEot
<1>7. StoredBySequence
  BY <1>4, Sizes DEF StoredBySequence
<1>. QED  BY <1>5, <1>6, <1>7 DEF AnySenderInv

LEMMA TxKeepsType ==
  ASSUME TypeOK, TxShape
  PROVE  TypeOK'
<1>1. TxAsks \/ TxQuestion \/ TxFails => fwd' \in Seq(Token) /\ Len(fwd') <= FwdCap /\ env' \in Budgets
  BY DEF TxAsks, TxQuestion, TxFails, SentOne, Sent
<1>2. TxWaitsOn \/ TxSucceeds => fwd' \in Seq(Token) /\ Len(fwd') <= FwdCap /\ env' \in Budgets
  BY DEF TxWaitsOn, TxSucceeds, TypeOK
<1>3. rev' = rev \/ (rev # << >> /\ rev' = Tail(rev))
  BY DEF TxShape, TxAsks, TxQuestion, TxWaitsOn, TxFails, TxSucceeds, Takes
<1>4. rev \in Seq(Byte) /\ Len(rev) <= RevCap /\ Len(rev) \in Nat /\ RevCap \in Nat
  BY Sizes DEF TypeOK
<1>5. rev' \in Seq(Byte) /\ Len(rev') <= RevCap
  <2>1. CASE rev' = rev
    BY <1>4, <2>1
  <2>2. CASE rev # << >> /\ rev' = Tail(rev)
    <3>1. rev' \in Seq(Byte) /\ Len(rev') = Len(rev) - 1
      BY <1>4, <2>2, TailIs
    <3>. QED  BY <1>4, <3>1
  <2>. QED  BY <1>3, <2>1, <2>2
<1>. QED  BY <1>1, <1>2, <1>5 DEF TxShape, TypeOK

\* The packets that enter the link go by the sender's numbers.
LEMMA NumbersGo ==
  ASSUME TypeOK, Numbered, NEW X \in SUBSET Token, Sent(X),
         \A t \in X : t.blk # 0 => t.pkt = t.blk % PMod
  PROVE  \A i \in 1 .. Len(fwd') : fwd'[i].blk # 0 => fwd'[i].pkt = fwd'[i].blk % PMod
<1>1. Len(fwd) \in Nat /\ Len(fwd') \in Nat /\ fwd \in Seq(Token) /\ fwd' \in Seq(Token)
  BY DEF TypeOK, Sent
<1>2. SUFFICES ASSUME NEW i \in 1 .. Len(fwd') PROVE fwd'[i].blk # 0 => fwd'[i].pkt = fwd'[i].blk % PMod
  OBVIOUS
<1>3. CASE i \in 1 .. Len(fwd)
  BY <1>3 DEF Sent, Extends, Numbered
<1>4. CASE i \notin 1 .. Len(fwd)
  BY <1>1, <1>4 DEF Sent
<1>. QED  BY <1>3, <1>4

LEMMA TxKeepsNumbers ==
  ASSUME TypeOK, Numbered, TxShape
  PROVE  Numbered'
<1>1. tx' \in Sender /\ tx \in Sender /\ NBlocks \in Nat
  BY Sizes DEF TxShape, TypeOK
<1>2. tx'.pc = "data" => tx'.blk < NBlocks /\ tx'.data \in {0, tx'.blk + 1}
  BY <1>1 DEF Numbered, TxShape, TxAsks, TxQuestion, NextIs, TxWaitsOn, TxFails, TxSucceeds, TxWaits, Sender
<1>3. \A i \in 1 .. Len(fwd') : fwd'[i].blk # 0 => fwd'[i].pkt = fwd'[i].blk % PMod
  <2>1. \A t \in Token : Forms(t) \in SUBSET Token
    BY DEF Forms
  <2>2. CASE TxAsks
    <3>1. Control("junk") \in Token /\ Control("junk").blk = 0 /\ Sent(Forms(Control("junk")))
      BY <2>2, ControlIs DEF TxAsks, SentOne
    <3>2. \A t \in Forms(Control("junk")) : t.blk = 0
      BY <3>1 DEF Forms
    <3>. QED  BY <2>1, <3>1, <3>2, NumbersGo
  <2>3. CASE TxQuestion
    <3>. DEFINE p == PacketOf(tx')
    <3>1. tx'.pc \in {"head", "data", "eot", "last"} /\ Sent(Forms(p))
      BY <2>3 DEF TxQuestion, SentOne
    <3>2. p \in Token /\ (p.blk # 0 => p.pkt = p.blk % PMod)
      <4>1. CASE tx'.pc = "data"
        BY <1>1, <1>2, <4>1, PacketIs
      <4>2. CASE tx'.pc # "data"
        BY <1>1, <3>1, <4>2, PacketIs
      <4>. QED  BY <4>1, <4>2
    <3>. HIDE DEF p
    <3>3. \A t \in Forms(p) : t.blk # 0 => t.pkt = t.blk % PMod
      BY <3>2 DEF Forms
    <3>. QED  BY <2>1, <3>1, <3>2, <3>3, NumbersGo
  <2>4. CASE TxFails
    <3>1. {Control("CA")} \in SUBSET Token /\ Control("CA").blk = 0 /\ Sent({Control("CA")})
      BY <2>4, ControlIs DEF TxFails
    <3>2. \A t \in {Control("CA")} : t.blk = 0
      BY <3>1
    <3>. QED  BY <3>1, <3>2, NumbersGo
  <2>5. CASE TxWaitsOn \/ TxSucceeds
    BY <2>5 DEF TxWaitsOn, TxSucceeds, Numbered
  <2>. QED  BY <2>2, <2>3, <2>4, <2>5 DEF TxShape
<1>. QED  BY <1>2, <1>3 DEF Numbered

LEMMA TxKeepsAny ==
  ASSUME AnySenderInv, TxShape
  PROVE  AnySenderInv'
<1>1. TypeOK' /\ Numbered'
  BY TxKeepsType, TxKeepsNumbers DEF AnySenderInv
<1>2. Counted' /\ StoredBySequence' /\ NamedAfterEot'
  BY DEF AnySenderInv, TxShape, Counted, StoredBySequence, NamedAfterEot
<1>3. Decided'
  BY DEF AnySenderInv, Decided, Hosted, TxShape, TxAsks, TxQuestion, NextIs, TxWaitsOn, TxFails, TxSucceeds, TxWaits
<1>. QED  BY <1>1, <1>2, <1>3 DEF AnySenderInv

LEMMA RxKeepsAny ==
  ASSUME AnySenderInv, RxShape
  PROVE  AnySenderInv'
<1>1. Left /\ rev' \in Seq(Byte) /\ Len(rev') <= RevCap /\ env' \in Budgets /\ rx' \in Receiver /\ tx' = tx
  BY RxLeaves, RxReplies DEF AnySenderInv, RxShape
<1>2. TypeOK /\ stored \in Seq(0 .. NBlocks) /\ rx \in Receiver /\ Len(stored) \in Nat /\ Len(stored) <= NBlocks /\ NBlocks \in Nat
  BY Sizes DEF AnySenderInv, TypeOK, StoredBySequence
<1>3. Numbered'
  BY <1>1 DEF AnySenderInv, Numbered, Left, Kin
<1>4. rx.pc # "done" /\ rx.res = "none"
  BY <1>2 DEF AnySenderInv, Decided, Hosted, RxShape, RxStarts, RxQuiets, RxGivesUp, RxCans, RxCancels, RxEots, RxRefuses,
         RxHeadEmpties, RxLates, RxHeads, RxDatas, RxBodies, RxWaits, RxKeeps, RxFails
<1>5. \/ stored' = stored
      \/ RxDatas /\ Incomplete /\ stored' = Append(stored, Head(fwd).blk) /\ rx'.got = rx.got + 1 /\ rx'.sized = rx.sized
  BY DEF RxShape, RxStarts, RxQuiets, RxGivesUp, RxCans, RxCancels, RxEots, RxRefuses,
         RxHeadEmpties, RxLates, RxHeads, RxDatas, RxBodies, RxKeeps, RxFails, RxSame
<1>6. CASE RxDatas /\ Incomplete /\ stored' = Append(stored, Head(fwd).blk) /\ rx'.got = rx.got + 1 /\ rx'.sized = rx.sized
  <2>1. /\ fwd # << >> /\ rx.sized /\ Len(stored) < NBlocks /\ rx.got = Len(stored) + 1
        /\ Head(fwd).pkt = rx.got % PMod
    BY <1>6 DEF RxDatas, Heard, Expects, Incomplete, AnySenderInv, Counted
  <2>2. Head(fwd) = fwd[1] /\ fwd[1] \in Token /\ 1 \in 1 .. Len(fwd)
    <3>1. fwd \in Seq(Token) /\ Len(fwd) \in Nat
      BY <1>2 DEF TypeOK
    <3>. QED  BY <2>1, <3>1, TailIs
  <2>3. Head(fwd).blk \in 0 .. NBlocks
    BY <2>2 DEF Token
  <2>4. /\ stored' \in Seq(0 .. NBlocks) /\ Len(stored') = Len(stored) + 1 /\ stored'[Len(stored) + 1] = Head(fwd).blk
        /\ \A i \in 1 .. Len(stored) : stored'[i] = stored[i]
    BY <1>2, <1>6, <2>3
  <2>5. Head(fwd).blk # 0 => Head(fwd).blk % PMod = rx.got % PMod
    BY <2>1, <2>2 DEF AnySenderInv, Numbered
  <2>6. StoredBySequence'
    <3>1. Len(stored') <= NBlocks
      BY <1>2, <2>1, <2>4
    <3>2. ASSUME NEW i \in 1 .. Len(stored') PROVE stored'[i] # 0 => stored'[i] % PMod = i % PMod
      <4>1. CASE i = Len(stored) + 1
        BY <2>1, <2>4, <2>5, <4>1
      <4>2. CASE i # Len(stored) + 1
        <5>1. i \in 1 .. Len(stored)
          BY <1>2, <2>4, <4>2
        <5>. QED  BY <2>4, <5>1 DEF AnySenderInv, StoredBySequence
      <4>. QED  BY <4>1, <4>2
    <3>. QED  BY <3>1, <3>2 DEF StoredBySequence
  <2>7. Counted'
    BY <1>2, <1>6, <2>1, <2>4 DEF Counted
  <2>8. Decided' /\ NamedAfterEot'
    BY <1>1, <1>4, <1>6, <2>4 DEF AnySenderInv, Decided, Hosted, NamedAfterEot, RxDatas, RxFails, RxSame, RxWaits
  <2>9. TypeOK'
    BY <1>1, <1>2, <2>4 DEF TypeOK, Left
  <2>. QED  BY <1>3, <2>6, <2>7, <2>8, <2>9 DEF AnySenderInv
<1>7. CASE stored' = stored
  <2>1. TypeOK' /\ StoredBySequence'
    BY <1>1, <1>2, <1>7 DEF TypeOK, Left, AnySenderInv, StoredBySequence
  <2>2. Decided'
    BY <1>1, <1>4 DEF AnySenderInv, Decided, Hosted, RxShape, RxStarts, RxQuiets, RxGivesUp, RxCans, RxCancels, RxEots, RxRefuses,
         RxHeadEmpties, RxLates, RxHeads, RxDatas, RxBodies, RxKeeps, RxFails, RxWaits
  <2>3. NamedAfterEot'
    BY <1>1, <1>4 DEF AnySenderInv, Decided, Hosted, NamedAfterEot, RxShape, RxStarts, RxQuiets, RxGivesUp, RxCans, RxCancels, RxEots,
         RxRefuses, RxHeadEmpties, RxLates, RxHeads, RxDatas, RxBodies, RxKeeps, RxFails, RxWaits, RxSame
  <2>4. Counted'
    <3>1. CASE RxSame
      BY <1>7, <3>1 DEF AnySenderInv, Counted, RxSame
    <3>2. CASE ~RxSame
      <4>1. \/ rx'.got = rx.got /\ rx'.sized = rx.sized
            \/ rx.got = 0 /\ rx'.got = 1 /\ rx'.sized = rx.sized
            \/ rx.got = 0 /\ rx'.got = 1 /\ rx'.sized
            \/ rx.got > 0 /\ rx'.got = rx.got + 1 /\ rx'.sized = rx.sized /\ ~Incomplete
        <5>1. ~(Incomplete /\ stored' = Append(stored, Head(fwd).blk))
          <6>1. \A b : Len(Append(stored, b)) = Len(stored) + 1
            BY <1>2
          <6>. QED  BY <1>2, <1>7, <6>1
        <5>. QED  BY <3>2, <5>1 DEF RxShape, RxStarts, RxQuiets, RxGivesUp, RxCans, RxCancels, RxEots, RxRefuses,
                  RxHeadEmpties, RxLates, RxHeads, RxDatas, RxBodies, RxKeeps, RxFails
      <4>. QED  BY <1>2, <1>7, <4>1 DEF AnySenderInv, Counted, Incomplete, Receiver
    <3>. QED  BY <3>1, <3>2
  <2>. QED  BY <1>3, <2>1, <2>2, <2>3, <2>4 DEF AnySenderInv
<1>. QED  BY <1>5, <1>6, <1>7

LEMMA TickKeepsAny ==
  ASSUME AnySenderInv, TickShape
  PROVE  AnySenderInv'
<1>1. TypeOK' /\ StoredBySequence'
  BY DEF TickShape, AnySenderInv, TypeOK, StoredBySequence
<1>2. Numbered'
  BY DEF TickShape, AnySenderInv, Numbered
<1>3. Decided' /\ Counted' /\ NamedAfterEot'
  BY DEF TickShape, AnySenderInv, Decided, Hosted, Counted, NamedAfterEot
<1>. QED  BY <1>1, <1>2, <1>3 DEF AnySenderInv

LEMMA StutterKeepsAny ==
  ASSUME AnySenderInv, UNCHANGED vars
  PROVE  AnySenderInv'
<1>1. tx' = tx /\ rx' = rx /\ fwd' = fwd /\ rev' = rev /\ stored' = stored /\ env' = env
  BY DEF vars
<1>2. TypeOK' /\ StoredBySequence'
  BY <1>1 DEF AnySenderInv, TypeOK, StoredBySequence
<1>3. Numbered' /\ Decided' /\ Counted' /\ NamedAfterEot'
  BY <1>1 DEF AnySenderInv, Numbered, Decided, Hosted, Counted, NamedAfterEot
<1>. QED  BY <1>2, <1>3 DEF AnySenderInv

LEMMA HostKeepsAny ==
  ASSUME AnySenderInv, HostSends \/ AnySender
  PROVE  AnySenderInv' /\ Hosted'
<1>1. TypeOK /\ tx \in Sender /\ rx' = rx /\ stored' = stored
  BY DEF AnySenderInv, TypeOK, HostSends, AnySender
<1>2. Counted' /\ StoredBySequence' /\ NamedAfterEot'
  BY <1>1 DEF AnySenderInv, Counted, StoredBySequence, NamedAfterEot
<1>3. CASE HostSends
  <2>1. tx.pc = "off" /\ tx' = [tx EXCEPT !.pc = "done"] /\ fwd' = fwd /\ rev' = rev /\ env' = env /\ "done" \in TxPoints
    BY <1>3, Points DEF HostSends
  <2>2. tx' \in Sender
    BY <1>1, <2>1, Points, TxMoves
  <2>3. tx'.pc = "done" /\ tx'.res = "none"
    BY <1>1, <2>1 DEF Sender, AnySenderInv, Decided, Hosted
  <2>4. Decided' /\ Numbered' /\ Hosted'
    BY <1>1, <2>1, <2>3 DEF AnySenderInv, Decided, Hosted, Numbered
  <2>5. TypeOK'
    BY <1>1, <2>1, <2>2 DEF TypeOK
  <2>. QED  BY <1>2, <2>4, <2>5 DEF AnySenderInv
<1>4. CASE AnySender
  <2>1. tx' = tx /\ Hosted /\ rev' = << >> /\ env' = env
    BY <1>4 DEF AnySender
  <2>2. PICK t \in Sendable : fwd' = <<t>>
    BY <1>4 DEF AnySender
  <2>3. t \in Token /\ (t.blk # 0 => t.pkt = t.blk % PMod)
    <3>1. CASE \E k \in {"head", "last", "eot", "CA", "bad", "short"} : t = Control(k)
      BY <3>1, ControlIs DEF Packets
    <3>2. CASE \E b \in 1 .. NBlocks : t = DataPacket(b, b % PMod)
      <4>1. PICK b \in 1 .. NBlocks : t = DataPacket(b, b % PMod)
        BY <3>2
      <4>2. b % PMod \in 0 .. PMod - 1 /\ b \in 0 .. NBlocks
        BY Sizes
      <4>. QED  BY <4>1, <4>2, DataIs
    <3>. QED  BY <2>2, <3>1, <3>2 DEF Sendable, DataPacket
  <2>4. fwd' \in Seq(Token) /\ Len(fwd') = 1 /\ fwd'[1] = t
    BY <2>2, <2>3
  <2>5. rev' \in Seq(Byte) /\ Len(rev') = 0
    BY <2>1
  <2>6. TypeOK'
    BY <1>1, <2>1, <2>4, <2>5, Sizes DEF TypeOK
  <2>7. Decided' /\ Hosted'
    BY <1>1, <2>1 DEF AnySenderInv, Decided, Hosted
  <2>8. Numbered'
    BY <2>1, <2>3, <2>4 DEF Numbered, Hosted
  <2>. QED  BY <1>2, <2>6, <2>7, <2>8 DEF AnySenderInv
<1>. QED  BY <1>3, <1>4

LEMMA NextShape ==
  ASSUME AnySenderInv, NextMC
  PROVE  TxShape \/ RxShape \/ TickShape \/ HostSends \/ AnySender
  BY TxShapes, RxShapes, TickIs DEF AnySenderInv, Next, NextMC

\* The receiver's own invariant holds whoever sends, and whatever the link does to the packets.
THEOREM AnySenderCorrect == SpecMC => []AnySenderInv
<1>1. AnySenderInv /\ [NextMC]_vars => AnySenderInv'
  BY NextShape, TxKeepsAny, RxKeepsAny, TickKeepsAny, HostKeepsAny, StutterKeepsAny
<1>. QED  BY InitIs, <1>1, PTL DEF SpecMC
-----------------------------------------------------------------------------
(* The session's invariant: what a step does to the two queues. *)

LEMMA NoteSent ==
  ASSUME TypeOK, NEW X, Sent(X), \A t \in X : ~Asking(t) /\ t.kind \notin Strays
  PROVE  /\ Once => Once'
         /\ Silent => Silent'
         /\ NoCA /\ (\A t \in X : t.kind # "CA") => NoCA'
         /\ \A i \in 1 .. Len(fwd') : Asking(fwd'[i]) => i \in 1 .. Len(fwd) /\ fwd'[i] = fwd[i]
<1>1. /\ Len(fwd) \in Nat /\ Len(fwd') \in Nat /\ Len(fwd) <= Len(fwd')
      /\ \A i \in 1 .. Len(fwd) : fwd'[i] = fwd[i]
      /\ \A i \in Len(fwd) + 1 .. Len(fwd') : fwd'[i] \in X
  BY DEF TypeOK, Sent, Extends
<1>2. \A i \in 1 .. Len(fwd') : i \in 1 .. Len(fwd) \/ i \in Len(fwd) + 1 .. Len(fwd')
  BY <1>1
<1>3. \A i \in Len(fwd) + 1 .. Len(fwd') : ~Asking(fwd'[i]) /\ fwd'[i].kind \notin Strays
  BY <1>1
<1>4. Once => Once'
  <2>. SUFFICES ASSUME Once, NEW i \in 1 .. Len(fwd')
                PROVE  /\ fwd'[i].kind \notin Strays
                       /\ Asking(fwd'[i]) \/ fwd'[i].kind = "CA" => \A j \in i + 1 .. Len(fwd') : ~Asking(fwd'[j])
    BY DEF Once
  <2>1. CASE i \in 1 .. Len(fwd)
    <3>1. fwd'[i] = fwd[i]
      BY <1>1, <2>1
    <3>2. ASSUME NEW j \in i + 1 .. Len(fwd'), Asking(fwd[i]) \/ fwd[i].kind = "CA" PROVE ~Asking(fwd'[j])
      <4>1. j \in 1 .. Len(fwd') /\ (j \in 1 .. Len(fwd) => j \in i + 1 .. Len(fwd))
        BY <2>1
      <4>2. CASE j \in 1 .. Len(fwd)
        BY <1>1, <2>1, <3>2, <4>1, <4>2 DEF Once
      <4>3. CASE j \notin 1 .. Len(fwd)
        BY <1>2, <1>3, <4>1, <4>3
      <4>. QED  BY <4>2, <4>3
    <3>. QED  BY <2>1, <3>1, <3>2 DEF Once
  <2>2. CASE i \notin 1 .. Len(fwd)
    <3>1. \A j \in i .. Len(fwd') : j \in Len(fwd) + 1 .. Len(fwd')
      BY <1>1, <2>2
    <3>. QED  BY <1>3, <3>1
  <2>. QED  BY <2>1, <2>2
<1>5. Silent => Silent'
  BY <1>1, <1>2, <1>3 DEF Silent
<1>6. NoCA /\ (\A t \in X : t.kind # "CA") => NoCA'
  BY <1>1, <1>2 DEF NoCA
<1>7. \A i \in 1 .. Len(fwd') : Asking(fwd'[i]) => i \in 1 .. Len(fwd) /\ fwd'[i] = fwd[i]
  BY <1>1, <1>2, <1>3
<1>. QED  BY <1>4, <1>5, <1>6, <1>7

LEMMA QuestionSent ==
  ASSUME TypeOK, NEW X, SentOne(X), Once, Silent, NoCA, \A t \in X : t.kind \notin Strays \cup {"CA"}
  PROVE  Once' /\ NoCA' /\ \A i \in 1 .. Len(fwd') : Asking(fwd'[i]) => fwd'[i] \in X
<1>1. /\ Len(fwd) \in Nat /\ Len(fwd') \in Nat /\ Len(fwd) <= Len(fwd') /\ Len(fwd') <= Len(fwd) + 1
      /\ \A i \in 1 .. Len(fwd) : fwd'[i] = fwd[i]
      /\ \A i \in Len(fwd) + 1 .. Len(fwd') : fwd'[i] \in X
  BY DEF TypeOK, SentOne, Sent, Extends
<1>2. \A i \in 1 .. Len(fwd') : (i \in 1 .. Len(fwd) /\ fwd'[i] = fwd[i]) \/ (i = Len(fwd') /\ fwd'[i] \in X)
  BY <1>1
<1>3. ASSUME NEW i \in 1 .. Len(fwd')
      PROVE  /\ fwd'[i].kind \notin Strays \cup {"CA"} /\ (Asking(fwd'[i]) => i = Len(fwd') /\ fwd'[i] \in X)
  BY <1>2 DEF Once, Silent, NoCA
<1>4. \A i \in 1 .. Len(fwd') : i = Len(fwd') => \A j \in i + 1 .. Len(fwd') : FALSE
  BY <1>1
<1>5. Once'
  BY <1>3, <1>4 DEF Once
<1>. QED  BY <1>3, <1>5 DEF NoCA

LEMMA TokenTaken ==
  ASSUME TypeOK, Once, fwd # << >>, fwd' = Tail(fwd)
  PROVE  /\ Once'
         /\ Silent => Silent'
         /\ NoCA => NoCA'
         /\ Asking(Head(fwd)) \/ Head(fwd).kind = "CA" => Silent'
         /\ \A i \in 1 .. Len(fwd') : i + 1 \in 1 .. Len(fwd) /\ fwd'[i] = fwd[i + 1]
         /\ 1 \in 1 .. Len(fwd) /\ Head(fwd) = fwd[1]
<1>1. /\ Len(fwd) \in Nat /\ Len(fwd') = Len(fwd) - 1 /\ Len(fwd) >= 1 /\ Head(fwd) = fwd[1]
      /\ \A i \in 1 .. Len(fwd') : fwd'[i] = fwd[i + 1]
  <2>1. fwd \in Seq(Token) /\ Len(fwd) \in Nat
    BY DEF TypeOK
  <2>. QED  BY <2>1, TailIs
<1>2. 1 \in 1 .. Len(fwd) /\ \A i \in 1 .. Len(fwd') : i + 1 \in 1 .. Len(fwd) /\ i + 1 \in 1 + 1 .. Len(fwd)
  BY <1>1
<1>3. Once'
  <2>. SUFFICES ASSUME NEW i \in 1 .. Len(fwd')
                PROVE  /\ fwd'[i].kind \notin Strays
                       /\ Asking(fwd'[i]) \/ fwd'[i].kind = "CA" => \A j \in i + 1 .. Len(fwd') : ~Asking(fwd'[j])
    BY DEF Once
  <2>1. fwd'[i] = fwd[i + 1] /\ i + 1 \in 1 .. Len(fwd)
    BY <1>1, <1>2
  <2>2. \A j \in i + 1 .. Len(fwd') : j + 1 \in (i + 1) + 1 .. Len(fwd) /\ fwd'[j] = fwd[j + 1]
    BY <1>1
  <2>. QED  BY <2>1, <2>2 DEF Once
<1>. QED  BY <1>1, <1>2, <1>3 DEF Once, Silent, NoCA

LEMMA ByteTaken ==
  ASSUME TypeOK, rev # << >>, rev' = Tail(rev)
  PROVE  /\ NoAnswer => NoAnswer'
         /\ OneAnswer => OneAnswer'
         /\ \A b : Not(b) => Head(rev) # b
         /\ Not("ACK") => Not("ACK")'
         /\ Not("NAK") => Not("NAK")'
         /\ NoAnswer => Head(rev) \notin Answers
         /\ OneAnswer /\ Head(rev) \in Answers => NoAnswer'
<1>1. /\ Len(rev) \in Nat /\ Len(rev') = Len(rev) - 1 /\ Len(rev) >= 1 /\ Head(rev) = rev[1]
      /\ \A i \in 1 .. Len(rev') : rev'[i] = rev[i + 1]
  <2>1. rev \in Seq(Byte) /\ Len(rev) \in Nat
    BY DEF TypeOK
  <2>. QED  BY <2>1, TailIs
<1>2. 1 \in 1 .. Len(rev) /\ \A i \in 1 .. Len(rev') : i + 1 \in 1 .. Len(rev) /\ i + 1 \in 1 + 1 .. Len(rev)
  BY <1>1
<1>3. OneAnswer => OneAnswer'
  <2>. SUFFICES ASSUME OneAnswer, NEW i \in 1 .. Len(rev'), rev'[i] \in Answers, NEW j \in i + 1 .. Len(rev')
                PROVE  rev'[j] \notin Answers
    BY DEF OneAnswer
  <2>1. j + 1 \in (i + 1) + 1 .. Len(rev) /\ rev'[j] = rev[j + 1] /\ rev'[i] = rev[i + 1] /\ i + 1 \in 1 .. Len(rev)
    BY <1>1
  <2>. QED  BY <2>1 DEF OneAnswer
<1>4. NoAnswer => NoAnswer'
  BY <1>1, <1>2 DEF NoAnswer
<1>5. (Not("ACK") => Not("ACK")') /\ (Not("NAK") => Not("NAK")')
  BY <1>1, <1>2 DEF Not
<1>6. \A b : Not(b) => Head(rev) # b
  BY <1>1, <1>2 DEF Not
<1>7. NoAnswer => Head(rev) \notin Answers
  BY <1>1, <1>2 DEF NoAnswer
<1>8. OneAnswer /\ Head(rev) \in Answers => NoAnswer'
  BY <1>1, <1>2 DEF NoAnswer, OneAnswer
<1>. QED  BY <1>3, <1>4, <1>5, <1>6, <1>7, <1>8

LEMMA AnswerGoes ==
  ASSUME TypeOK, NEW b, Replied(b)
  PROVE  /\ NoAnswer => OneAnswer'
         /\ NoAnswer /\ b \notin Answers => NoAnswer'
         /\ OneAnswer /\ b \notin Answers => OneAnswer'
         /\ b # "ACK" /\ Not("ACK") => Not("ACK")'
         /\ b # "NAK" /\ Not("NAK") => Not("NAK")'
<1>1. /\ Len(rev) \in Nat /\ Len(rev') \in Nat /\ Len(rev) <= Len(rev')
      /\ \A i \in 1 .. Len(rev) : rev'[i] = rev[i]
      /\ \A i \in Len(rev) + 1 .. Len(rev') : rev'[i] \in {"C", "CA", "junk"} \/ (i = Len(rev) + 1 /\ rev'[i] = b)
  BY DEF TypeOK, Replied, Extends
<1>2. \A i \in 1 .. Len(rev') : \/ i \in 1 .. Len(rev) /\ rev'[i] = rev[i]
                                \/ rev'[i] \notin Answers
                                \/ i = Len(rev) + 1 /\ rev'[i] = b
  BY <1>1 DEF Answers
<1>3. NoAnswer => OneAnswer'
  <2>. SUFFICES ASSUME NoAnswer, NEW i \in 1 .. Len(rev'), rev'[i] \in Answers, NEW j \in i + 1 .. Len(rev')
                PROVE  rev'[j] \notin Answers
    BY DEF OneAnswer
  <2>1. i = Len(rev) + 1
    BY <1>2 DEF NoAnswer
  <2>2. j \in 1 .. Len(rev') /\ j # Len(rev) + 1 /\ j \notin 1 .. Len(rev)
    BY <1>1, <2>1
  <2>. QED  BY <1>2, <2>2
<1>4. OneAnswer /\ b \notin Answers => OneAnswer'
  <2>. SUFFICES ASSUME OneAnswer, b \notin Answers, NEW i \in 1 .. Len(rev'), rev'[i] \in Answers, NEW j \in i + 1 .. Len(rev')
                PROVE  rev'[j] \notin Answers
    BY DEF OneAnswer
  <2>1. i \in 1 .. Len(rev) /\ rev'[i] = rev[i]
    BY <1>2
  <2>2. j \in 1 .. Len(rev') /\ (j \in 1 .. Len(rev) => j \in i + 1 .. Len(rev))
    BY <1>1, <2>1
  <2>. QED  BY <1>2, <2>1, <2>2 DEF OneAnswer
<1>5. NoAnswer /\ b \notin Answers => NoAnswer'
  BY <1>2 DEF NoAnswer
<1>6. (b # "ACK" /\ Not("ACK") => Not("ACK")') /\ (b # "NAK" /\ Not("NAK") => Not("NAK")')
  BY <1>1, <1>2 DEF Not, Answers
<1>. QED  BY <1>3, <1>4, <1>5, <1>6
-----------------------------------------------------------------------------
(* The session's invariant is inductive. *)

LEMMA TxKeepsSession ==
  ASSUME FrameFaults \subseteq {"short"}, AnySenderInv, Session, TxShape
  PROVE  Session'
<1>1. TypeOK /\ rx' = rx /\ stored' = stored /\ tx \in Sender /\ tx' \in Sender /\ NBlocks \in Nat
      /\ Len(stored) \in Nat /\ Len(stored) <= NBlocks
  BY Sizes DEF AnySenderInv, TxShape, TypeOK, StoredBySequence
<1>2. tx.pc # "done" /\ tx.res = "none"
  BY <1>1 DEF AnySenderInv, Decided, Hosted, TxShape, TxAsks, TxQuestion, TxWaitsOn, TxFails, TxSucceeds, TxWaits, TypeOK
<1>3. Once /\ NoCA /\ rx.pc # "canned" /\ (rx.pc = "body" => Silent) /\ OneAnswer /\ (NoAnswer \/ NoQuestion)
  BY <1>2 DEF Session, NoLeftOvers, OneQuestion
<1>4. InStep /\ Present
  BY DEF Session
<1>5. Silent /\ UNCHANGED fwd => Silent' /\ Present'
  BY DEF Silent, Present, Fits, Asking, Packets
<1>6. UNCHANGED fwd => Once' /\ NoCA' /\ (Silent => Silent')
  <2>1. CASE fwd' = fwd
    BY <1>3, <2>1 DEF Once, NoCA, Silent, Asking
  <2>. QED  BY <2>1
<1>7. CASE TxAsks
  <2>1. tx.pc \in {"off", "ask"} /\ tx'.pc = "ask" /\ rev' = rev /\ tx'.blk = tx.blk /\ tx'.res = tx.res
        /\ Sent(Forms(Control("junk"))) /\ NoAnswer /\ NoQuestion
    BY <1>4, <1>7 DEF TxAsks, SentOne, Session, OneQuestion
  <2>2. \A t \in Forms(Control("junk")) : t.kind = "junk"
    BY ControlIs DEF Forms, Packets
  <2>3. \A t \in Forms(Control("junk")) : ~Asking(t) /\ t.kind \notin Strays /\ t.kind # "CA"
    BY <2>2 DEF Asking, Packets, Strays
  <2>4. Once' /\ Silent' /\ NoCA'
    BY <1>1, <1>3, <2>1, <2>3, NoteSent DEF NoQuestion
  <2>5. Present'
    BY <2>4 DEF Silent, Present, Fits, Asking, Packets
  <2>6. NoLeftOvers'
    BY <1>1, <1>3, <2>4 DEF NoLeftOvers
  <2>7. OneQuestion'
    BY <1>1, <1>3, <2>1, <2>4 DEF OneQuestion, NoQuestion, NoAnswer, OneAnswer
  <2>8. InStep'
    BY <1>1, <1>2, <1>4, <2>1 DEF InStep
  <2>. QED  BY <2>5, <2>6, <2>7, <2>8 DEF Session
<1>8. CASE TxQuestion
  <2>. DEFINE p == PacketOf(tx')
  <2>1. /\ tx'.res = "none" /\ tx'.pc \in {"head", "data", "eot", "last"} /\ SentOne(Forms(p))
        /\ rev # << >> /\ rev' = Tail(rev)
    BY <1>8 DEF TxQuestion, Takes
  <2>2. p \in Token /\ p.kind = tx'.pc /\ (tx'.pc = "data" => p.pkt = (tx'.blk + 1) % PMod)
    BY <1>1, <2>1, PacketIs
  <2>. HIDE DEF p
  <2>3. \A t \in Forms(p) : t.kind \in {tx'.pc, "bad", "short", "junk"} /\ t.pkt = p.pkt
    BY <2>2, Sizes DEF Forms, Faulty
  <2>4. /\ NoAnswer => NoAnswer'
        /\ OneAnswer => OneAnswer'
        /\ Not("ACK") => Head(rev) # "ACK" /\ Not("ACK")'
        /\ Not("NAK") => Head(rev) # "NAK" /\ Not("NAK")'
        /\ Head(rev) \in {"ACK", "NAK"} => ~NoAnswer /\ NoAnswer'
    BY <1>1, <1>3, <2>1, ByteTaken DEF Answers
  <2>5. NoAnswer' /\ NoQuestion
    BY <1>2, <1>3, <1>8, <2>4 DEF TxQuestion, Takes, Session, OneQuestion
  <2>6. Not("ACK")' /\ Not("NAK")'
    BY <2>5 DEF NoAnswer, Not, Answers
  <2>7. Once' /\ NoCA' /\ \A i \in 1 .. Len(fwd') : Asking(fwd'[i]) => fwd'[i] \in Forms(p)
    <3>1. \A t \in Forms(p) : t.kind \notin Strays \cup {"CA"}
      BY <2>1, <2>3 DEF Strays
    <3>. QED  BY <1>1, <1>3, <2>1, <2>5, <3>1, QuestionSent DEF NoQuestion
  <2>8. NoLeftOvers'
    BY <1>1, <1>3, <2>5, <2>7 DEF NoLeftOvers, NoQuestion
  <2>9. OneQuestion'
    BY <1>3, <2>1, <2>4, <2>5 DEF OneQuestion
  <2>10. InStep'
    <3>1. CASE tx.pc = "ask" /\ tx'.pc = "head" /\ tx'.blk = tx.blk
      BY <1>1, <1>4, <2>1, <2>6, <3>1 DEF InStep
    <3>2. CASE Takes("NAK") /\ tx.pc \in {"head", "data", "eot", "last"} /\ tx'.pc = tx.pc /\ tx'.blk = tx.blk
      <4>1. Head(rev) = "NAK"
        BY <3>2 DEF Takes
      <4>2. ~Not("NAK")
        BY <2>4, <4>1
      <4>. QED  BY <1>1, <1>4, <2>1, <2>4, <2>6, <3>2, <4>2 DEF InStep
    <3>3. CASE tx.pc = "headC" /\ NextIs(0)
      <4>1. Len(stored) = 0 /\ rx.sized /\ rx.eofs = 0
        BY <1>4, <3>3 DEF InStep
      <4>. QED  BY <1>1, <2>1, <2>6, <3>3, <4>1 DEF InStep, NextIs
    <3>4. CASE tx.pc = "data" /\ Takes("ACK") /\ NextIs(tx.blk + 1)
      <4>1. Head(rev) = "ACK"
        BY <3>4 DEF Takes
      <4>2. ~Not("ACK")
        BY <2>4, <4>1
      <4>3. Len(stored) = tx.blk + 1 /\ rx.sized /\ rx.eofs = 0
        BY <1>4, <3>4, <4>2 DEF InStep
      <4>. QED  BY <1>1, <2>1, <2>6, <3>4, <4>3 DEF InStep, NextIs
    <3>5. CASE tx.pc = "eotC" /\ tx'.pc = "last" /\ tx'.blk = tx.blk
      BY <1>1, <1>4, <2>1, <2>6, <3>5 DEF InStep
    <3>. QED  BY <1>8, <3>1, <3>2, <3>3, <3>4, <3>5 DEF TxQuestion
  <2>11. Present'
    <3>1. ASSUME NEW i \in 1 .. Len(fwd') PROVE Fits(fwd[i])'
      <4>1. CASE ~Asking(fwd'[i])
        BY <4>1 DEF Fits, Asking, Packets
      <4>2. CASE Asking(fwd'[i])
        <5>1. fwd'[i].kind \in {tx'.pc, "bad", "short", "junk"} /\ fwd'[i].pkt = p.pkt
          BY <2>3, <2>7, <4>2
        <5>2. tx'.pc = "eot" => Len(stored') = NBlocks
          BY <2>10 DEF InStep
        <5>. QED  BY <2>1, <2>2, <5>1, <5>2 DEF Fits
      <4>. QED  BY <4>1, <4>2
    <3>. QED  BY <3>1 DEF Present
  <2>. QED  BY <2>8, <2>9, <2>10, <2>11 DEF Session
<1>9. CASE TxWaitsOn
  <2>1. fwd' = fwd /\ tx'.blk = tx.blk /\ tx'.data = tx.data /\ tx'.res = tx.res
    BY <1>9 DEF TxWaitsOn
  <2>2. CASE rev' = rev /\ tx'.pc = tx.pc
    <3>1. NoLeftOvers'
      BY <1>1, <1>6, <2>1, <2>2 DEF Session, NoLeftOvers
    <3>2. OneQuestion'
      BY <1>1, <2>1, <2>2 DEF Session, OneQuestion, NoAnswer, NoQuestion, OneAnswer, Silent
    <3>3. Present'
      BY <1>1, <1>4, <2>1, <2>2 DEF Present, Fits
    <3>4. InStep'
      BY <1>1, <1>4, <2>1, <2>2 DEF InStep, Not, NoQuestion, Silent, Kept, NoCA
    <3>. QED  BY <3>1, <3>2, <3>3, <3>4 DEF Session
  <2>3. CASE Takes("ACK") /\ \/ tx.pc = "head" /\ tx'.pc = "headC"
                             \/ tx.pc = "eot" /\ tx'.pc = "eotC"
    <3>1. Head(rev) = "ACK" /\ rev # << >> /\ rev' = Tail(rev)
      BY <2>3 DEF Takes
    <3>2. ~Not("ACK") /\ ~NoAnswer /\ NoAnswer' /\ OneAnswer'
      BY <1>1, <1>3, <3>1, ByteTaken DEF Answers
    <3>3. NoQuestion /\ Silent /\ NoQuestion'
      BY <1>1, <1>3, <2>1, <3>2 DEF NoQuestion, Silent
    <3>4. Present'
      BY <1>5, <2>1, <3>3
    <3>5. NoLeftOvers'
      BY <1>1, <1>3, <1>6, <2>1, <3>3 DEF NoLeftOvers
    <3>6. OneQuestion'
      BY <3>2, <3>3 DEF OneQuestion
    <3>7. InStep'
      BY <1>1, <1>2, <1>4, <2>1, <2>3, <3>2 DEF InStep
    <3>. QED  BY <3>4, <3>5, <3>6, <3>7 DEF Session
  <2>. QED  BY <1>9, <2>2, <2>3 DEF TxWaitsOn
<1>10. CASE TxFails
  <2>1. tx'.pc = "done" /\ tx'.res = "failed" /\ Sent({Control("CA")})
    BY <1>10 DEF TxFails
  <2>2. \A t \in {Control("CA")} : ~Asking(t) /\ t.kind \notin Strays
    BY ControlIs DEF Asking, Packets, Strays
  <2>3. Once' /\ (Silent => Silent') /\ \A i \in 1 .. Len(fwd') : Asking(fwd'[i]) => i \in 1 .. Len(fwd) /\ fwd'[i] = fwd[i]
    BY <1>1, <1>3, <2>1, <2>2, NoteSent
  <2>4. Present'
    <3>1. ASSUME NEW i \in 1 .. Len(fwd') PROVE Fits(fwd[i])'
      <4>1. CASE ~Asking(fwd'[i])
        BY <4>1 DEF Fits, Asking, Packets
      <4>2. CASE Asking(fwd'[i])
        <5>1. Fits(fwd[i]) /\ fwd'[i] = fwd[i]
          BY <1>4, <2>3, <4>2 DEF Present
        <5>2. tx.pc = "data" => rx.sized
          BY <1>4 DEF InStep
        <5>. QED  BY <1>1, <1>2, <2>1, <5>1, <5>2 DEF Fits
      <4>. QED  BY <4>1, <4>2
    <3>. QED  BY <3>1 DEF Present
  <2>5. NoLeftOvers'
    BY <1>1, <1>3, <2>1, <2>3 DEF NoLeftOvers
  <2>6. OneQuestion'
    BY <2>1 DEF OneQuestion
  <2>7. InStep'
    BY <1>1, <1>4, <2>1 DEF InStep
  <2>. QED  BY <2>4, <2>5, <2>6, <2>7 DEF Session
<1>11. CASE TxSucceeds
  <2>1. tx.pc = "last" /\ tx'.pc = "done" /\ tx'.res = "ok" /\ tx'.blk = tx.blk /\ fwd' = fwd
        /\ Head(rev) = "ACK" /\ rev # << >> /\ rev' = Tail(rev)
    BY <1>11 DEF TxSucceeds, Takes
  <2>2. ~Not("ACK")
    BY <1>1, <2>1, ByteTaken
  <2>3. NoQuestion /\ Kept /\ tx.blk = NBlocks /\ Len(stored) = NBlocks
    BY <1>4, <2>1, <2>2 DEF InStep
  <2>4. Present' /\ NoLeftOvers'
    BY <1>1, <1>3, <1>5, <1>6, <2>1, <2>3 DEF NoLeftOvers, NoQuestion
  <2>5. OneQuestion'
    BY <2>1 DEF OneQuestion
  <2>6. Kept'
    BY <1>1, <2>1, <2>3 DEF Kept, Silent, NoCA
  <2>7. InStep'
    BY <1>1, <1>4, <2>1, <2>3, <2>6 DEF InStep
  <2>. QED  BY <2>4, <2>5, <2>7 DEF Session
<1>. QED  BY <1>7, <1>8, <1>9, <1>10, <1>11 DEF TxShape

LEMMA HeardIs ==
  ASSUME TypeOK, Once, NEW k, Heard(k)
  PROVE  fwd # << >> /\ Head(fwd).kind = k /\ fwd' = Tail(fwd)
<1>1. fwd \in Seq(Token) /\ Len(fwd) \in Nat /\ fwd # << >>
  BY DEF TypeOK, Heard
<1>2. Head(fwd) = fwd[1] /\ 1 \in 1 .. Len(fwd)
  BY <1>1, TailIs
<1>3. Head(fwd).kind \notin Strays
  BY <1>2 DEF Once
<1>4. Reads(Head(fwd)) = {Head(fwd).kind}
  BY <1>3 DEF Reads
<1>5. fwd' = Tail(fwd)
  BY <1>3 DEF Heard, Consume, Leave
<1>. QED  BY <1>1, <1>4, <1>5 DEF Heard

LEMMA FitsOn ==
  ASSUME TypeOK, Once, Present, tx' = tx, rx'.sized = rx.sized, stored' = stored,
         fwd' = fwd \/ (fwd # << >> /\ fwd' = Tail(fwd))
  PROVE  Present'
<1>1. \A i \in 1 .. Len(fwd') : \E j \in 1 .. Len(fwd) : fwd'[i] = fwd[j]
  BY TokenTaken
<1>. QED  BY <1>1 DEF Present, Fits

\* A step of the receiver that takes no question and answers none.
LEMMA CalmStep ==
  ASSUME AnySenderInv, Session, tx' = tx, RxSame, Once', Silent => Silent', NoCA => NoCA', Present',
         rx.pc = "canned" \/ /\ NoAnswer => NoAnswer'
                             /\ OneAnswer => OneAnswer'
                             /\ Not("ACK") => Not("ACK")'
                             /\ Not("NAK") => Not("NAK")',
         rx'.pc \in {"idle", "done"}, Kept => Kept'
  PROVE  Session'
<1>1. NoLeftOvers'
  BY DEF Session, NoLeftOvers
<1>2. rx.pc = "canned" => tx.pc = "done"
  BY DEF Session, NoLeftOvers
<1>3. OneQuestion'
  BY <1>2 DEF Session, OneQuestion, NoQuestion
<1>4. InStep'
  BY <1>2 DEF Session, InStep, NoQuestion, RxSame
<1>. QED  BY <1>1, <1>3, <1>4 DEF Session

\* The receiver takes a question, or what it takes for the rest of one.
Question == /\ rx.res = "none" /\ fwd # << >> /\ fwd' = Tail(fwd)
            /\ (rx.pc = "idle" /\ Asking(Head(fwd))) \/ rx.pc = "body"

LEMMA QuestionTaken ==
  ASSUME AnySenderInv, Session, Question, tx' = tx
  PROVE  /\ Once' /\ Silent' /\ Present' /\ (NoCA => NoCA') /\ tx.res # "ok" /\ Fits(Head(fwd))
         /\ tx.pc # "done" => /\ NoAnswer /\ Not("ACK") /\ Not("NAK") /\ OneAnswer /\ NoCA
                              /\ tx.pc \in {"head", "data", "eot", "last"}
         /\ tx.pc = "head" => rx.got = 0 /\ ~rx.sized
         /\ tx.pc = "data" => Len(stored) = tx.blk
         /\ tx.pc = "eot" => rx.eofs < 2
<1>1. TypeOK /\ Once /\ fwd # << >> /\ fwd' = Tail(fwd) /\ rx.res = "none" /\ tx \in Sender
  BY DEF AnySenderInv, TypeOK, Session, NoLeftOvers, Question
<1>2. /\ Once' /\ Silent' /\ (NoCA => NoCA')
      /\ 1 \in 1 .. Len(fwd) /\ Head(fwd) = fwd[1]
  <2>1. CASE Asking(Head(fwd))
    BY <1>1, <2>1, TokenTaken
  <2>2. CASE rx.pc = "body"
    <3>1. Silent
      BY <2>2 DEF Session, NoLeftOvers
    <3>. QED  BY <1>1, <3>1, TokenTaken
  <2>. QED  BY <2>1, <2>2 DEF Question
<1>3. Present'
  BY <1>2 DEF Silent, Present, Fits, Asking, Packets
<1>4. ~NoQuestion /\ ~Kept
  BY <1>1, <1>2 DEF Question, NoQuestion, Silent, Kept
<1>5. tx.res # "ok"
  BY <1>4 DEF Session, InStep
<1>6. Fits(Head(fwd))
  BY <1>2 DEF Session, Present
<1>7. tx.pc # "done" => /\ NoAnswer /\ Not("ACK") /\ Not("NAK") /\ OneAnswer /\ NoCA
                        /\ tx.pc \in {"head", "data", "eot", "last"}
  <2>1. NoAnswer => Not("ACK") /\ Not("NAK")
    BY DEF NoAnswer, Not, Answers
  <2>2. tx.pc # "done" => NoAnswer /\ OneAnswer /\ NoCA /\ tx.pc \notin {"off", "ask", "headC", "eotC"}
    BY <1>4 DEF Session, OneQuestion, NoLeftOvers
  <2>3. tx.pc \in {"off", "ask", "done", "head", "headC", "data", "eot", "eotC", "last"}
    BY <1>1, Points DEF Sender, TxPoints
  <2>. QED  BY <2>1, <2>2, <2>3
<1>8. /\ tx.pc = "head" => rx.got = 0 /\ ~rx.sized
      /\ tx.pc = "data" => Len(stored) = tx.blk
      /\ tx.pc = "eot" => rx.eofs < 2
  BY <1>4 DEF Session, InStep
<1>. QED  BY <1>2, <1>3, <1>5, <1>6, <1>7, <1>8

\* Its answer is the only one.
LEMMA QuestionAnswered ==
  ASSUME AnySenderInv, Session, Question, tx' = tx, NEW b, Replied(b), rx'.pc \in {"idle", "done"}
  PROVE  /\ NoLeftOvers' /\ OneQuestion' /\ Present' /\ NoQuestion'
         /\ tx.pc # "done" /\ b # "ACK" => Not("ACK")'
         /\ tx.pc # "done" /\ b # "NAK" => Not("NAK")'
<1>1. TypeOK
  BY DEF AnySenderInv
<1>2. NoQuestion' /\ Present' /\ Silent' /\ Once' /\ (NoCA => NoCA')
  BY QuestionTaken DEF NoQuestion
<1>3. NoLeftOvers'
  BY <1>2 DEF Session, NoLeftOvers
<1>4. tx.pc # "done" => OneAnswer' /\ (b # "ACK" => Not("ACK")') /\ (b # "NAK" => Not("NAK")')
  BY <1>1, AnswerGoes, QuestionTaken
<1>5. tx.pc # "done" => tx.pc \notin {"off", "ask", "headC", "eotC"}
  BY QuestionTaken
<1>. QED  BY <1>2, <1>3, <1>4, <1>5 DEF OneQuestion

LEMMA RxKeepsSession ==
  ASSUME AnySenderInv, Session, RxShape
  PROVE  Session'
<1>1. TypeOK /\ tx' = tx /\ rx' \in Receiver /\ rx \in Receiver /\ NBlocks \in Nat
      /\ Len(stored) \in Nat /\ Len(stored) <= NBlocks /\ stored \in Seq(0 .. NBlocks)
  BY Sizes DEF AnySenderInv, RxShape, TypeOK, StoredBySequence
<1>2. Once /\ InStep /\ Present
  BY DEF Session, NoLeftOvers
<1>3. /\ rx.eofs \in 0 .. 2 /\ rx.got \in Nat /\ (rx.sized => rx.got >= 1)
      /\ (tx.pc = "data" => tx.blk < NBlocks)
  BY <1>1 DEF Receiver, AnySenderInv, Counted, Numbered
<1>4. \A k : Heard(k) => fwd # << >> /\ Head(fwd).kind = k /\ fwd' = Tail(fwd)
  BY <1>1, <1>2, HeardIs
<1>5. LinkSame \/ Replied("C") => /\ NoAnswer => NoAnswer'
                                  /\ OneAnswer => OneAnswer'
                                  /\ Not("ACK") => Not("ACK")'
                                  /\ Not("NAK") => Not("NAK")'
  <2>1. CASE LinkSame
    BY <2>1 DEF LinkSame, NoAnswer, OneAnswer, Not
  <2>2. CASE Replied("C")
    BY <1>1, <2>2, AnswerGoes DEF Answers
  <2>. QED  BY <2>1, <2>2
<1>6. fwd' = fwd \/ (fwd # << >> /\ fwd' = Tail(fwd)) => Once' /\ (Silent => Silent') /\ (NoCA => NoCA')
  <2>1. CASE fwd' = fwd
    BY <1>2, <2>1 DEF Once, Silent, NoCA, Asking
  <2>2. CASE fwd # << >> /\ fwd' = Tail(fwd)
    BY <1>1, <1>2, <2>2, TokenTaken
  <2>. QED  BY <2>1, <2>2
<1>7. rx.pc \in {"canned", "body"} => Silent
  BY DEF Session, NoLeftOvers
<1>8. fwd # << >> => Head(fwd) = fwd[1] /\ 1 \in 1 .. Len(fwd)
  <2>1. fwd \in Seq(Token) /\ Len(fwd) \in Nat
    BY <1>1 DEF TypeOK
  <2>. QED  BY <2>1, TailIs
<1>9a. ASSUME rx.pc \in {"canned", "body"}, fwd # << >>
       PROVE  /\ Leave(Bytes(Head(fwd)) - 1) => fwd' = Tail(fwd)
              /\ \A n \in 0 .. Bytes(Head(fwd)) - 1 : Leave(n) => fwd' = Tail(fwd)
  <2>1. Silent /\ Head(fwd).kind \notin Strays
    BY <1>2, <1>7, <1>8, <1>9a DEF Once
  <2>2. Head(fwd).kind \notin Packets \cup Strays \cup {"bad", "short"}
    BY <1>8, <1>9a, <2>1 DEF Silent, Asking
  <2>3. Bytes(Head(fwd)) = 1
    BY <1>1, <1>9a, <2>2, BytesIs
  <2>. QED  BY <2>3 DEF Leave
<1>9. CASE RxStarts
  <2>1. Once' /\ (Silent => Silent') /\ (NoCA => NoCA') /\ Present' /\ LinkSame /\ RxSame /\ rx'.pc = "idle" /\ ~Kept
    BY <1>1, <1>2, <1>6, <1>9, FitsOn DEF RxStarts, RxSame, Kept
  <2>. QED  BY <1>1, <1>5, <2>1, CalmStep
<1>10. CASE RxQuiets
  <2>1. fwd' = fwd \/ (fwd # << >> /\ fwd' = Tail(fwd))
    <3>1. CASE rx.pc = "canned" /\ fwd # << >>
      <4>. QED  BY <1>9a, <1>10, <3>1 DEF RxQuiets
    <3>. QED  BY <1>4, <1>10, <3>1 DEF RxQuiets
  <2>2. RxSame /\ rx'.pc \in {"idle", "done"} /\ (LinkSame \/ Replied("C"))
    BY <1>10 DEF RxQuiets, RxKeeps, RxFails, RxWaits
  <2>3. Once' /\ (Silent => Silent') /\ (NoCA => NoCA') /\ Present'
    BY <1>1, <1>2, <1>6, <2>1, <2>2, FitsOn DEF RxSame
  <2>4. Kept => Kept'
    BY <1>10 DEF Kept, RxQuiets, RxKeeps, RxSame
  <2>. QED  BY <1>1, <1>5, <2>2, <2>3, <2>4, CalmStep
<1>11. CASE RxGivesUp
  <2>1. ~Heard("abort")
    <3>1. fwd # << >> => fwd[1] \in Token
      BY <1>1, <1>8 DEF TypeOK
    <3>. QED  BY <1>4, <1>8, <3>1 DEF Token, Packets, Strays
  <2>2. rx.pc = "canned" /\ fwd' = fwd /\ RxSame /\ rx.res = "none" /\ rx'.pc = "done" /\ Replied("C")
    BY <1>11, <2>1 DEF RxGivesUp, RxFails
  <2>3. Once' /\ (Silent => Silent') /\ (NoCA => NoCA') /\ Present' /\ ~Kept
    BY <1>1, <1>2, <1>6, <2>2, FitsOn DEF RxSame, Kept
  <2>. QED  BY <1>1, <2>2, <2>3, CalmStep
<1>12. CASE RxCans
  <2>1. fwd # << >> /\ Head(fwd).kind = "CA" /\ fwd' = Tail(fwd) /\ rx.res = "none" /\ RxSame /\ rx'.pc = "canned"
    BY <1>4, <1>12 DEF RxCans, RxWaits
  <2>2. ~NoCA
    BY <1>8, <2>1 DEF NoCA
  <2>3. tx.pc = "done" /\ tx.res # "ok"
    BY <1>2, <2>1, <2>2 DEF Session, NoLeftOvers, InStep, Kept
  <2>4. Once' /\ Silent' /\ Present'
    BY <1>1, <1>2, <2>1, TokenTaken, FitsOn DEF RxSame
  <2>5. NoLeftOvers' /\ OneQuestion'
    BY <1>1, <2>3, <2>4 DEF NoLeftOvers, OneQuestion
  <2>6. InStep'
    BY <1>1, <1>2, <2>1, <2>3 DEF InStep, RxSame
  <2>. QED  BY <2>4, <2>5, <2>6 DEF Session
<1>13. CASE RxCancels
  <2>1. rx.pc = "canned" /\ fwd # << >> /\ fwd' = Tail(fwd) /\ rx.res = "none" /\ RxSame /\ rx'.pc = "done"
    BY <1>9a, <1>13 DEF RxCancels, RxFails
  <2>2. Once' /\ (Silent => Silent') /\ (NoCA => NoCA') /\ Present' /\ ~Kept
    BY <1>1, <1>2, <1>6, <2>1, FitsOn DEF RxSame, Kept
  <2>. QED  BY <1>1, <2>1, <2>2, CalmStep
<1>14. CASE RxEots
  <2>1. Head(fwd).kind = "eot" /\ rx.res = "none" /\ rx'.pc = "idle" /\ rx'.got = rx.got /\ rx'.sized = rx.sized
        /\ stored' = stored
    BY <1>4, <1>14 DEF RxEots, RxWaits
  <2>2. Question
    BY <1>4, <1>14, <2>1 DEF RxEots, Question, Asking
  <2>3. Fits(Head(fwd)) /\ tx.res # "ok" /\ (tx.pc = "eot" => rx.eofs < 2)
    BY <1>1, <2>2, QuestionTaken
  <2>4. tx.pc \in {"eot", "done"} /\ Len(stored) = NBlocks
    BY <2>1, <2>3 DEF Fits
  <2>5. CASE rx.eofs = 0 /\ rx'.eofs = 1 /\ Replied("NAK")
    <3>1. NoLeftOvers' /\ OneQuestion' /\ Present' /\ (tx.pc # "done" => Not("ACK")')
      BY <1>1, <2>1, <2>2, <2>5, QuestionAnswered
    <3>2. InStep'
      BY <1>1, <1>2, <2>1, <2>3, <2>4, <2>5, <3>1 DEF InStep
    <3>. QED  BY <3>1, <3>2 DEF Session
  <2>6. CASE rx.eofs > 0 /\ rx'.eofs = 2 /\ Replied("ACK")
    <3>1. NoLeftOvers' /\ OneQuestion' /\ Present' /\ NoQuestion' /\ (tx.pc # "done" => Not("NAK")')
      BY <1>1, <2>1, <2>2, <2>6, QuestionAnswered
    <3>2. InStep'
      BY <1>1, <1>2, <2>1, <2>3, <2>4, <2>6, <3>1 DEF InStep
    <3>. QED  BY <3>1, <3>2 DEF Session
  <2>. QED  BY <1>14, <2>5, <2>6 DEF RxEots
<1>15. CASE RxRefuses
  <2>1. rx.res = "none" /\ RxSame /\ rx'.pc \in {"idle", "done"} /\ Replied("NAK")
    BY <1>15 DEF RxRefuses, RxFails, RxWaits
  <2>2. Question
    <3>1. CASE rx.pc = "idle"
      BY <1>4, <1>15, <2>1, <3>1 DEF RxRefuses, Question, Asking
    <3>2. CASE rx.pc = "body" /\ fwd # << >>
      <4>. QED  BY <1>9a, <1>15, <2>1, <3>2 DEF RxRefuses, Question
    <3>. QED  BY <1>15, <3>1, <3>2 DEF RxRefuses
  <2>3. NoLeftOvers' /\ OneQuestion' /\ Present' /\ (tx.pc # "done" => Not("ACK")')
    BY <1>1, <2>1, <2>2, QuestionAnswered
  <2>4. tx.res # "ok" /\ (tx.pc # "done" => tx.pc \in {"head", "data", "eot", "last"})
        /\ (tx.pc = "head" => rx.got = 0 /\ ~rx.sized) /\ (tx.pc = "data" => Len(stored) = tx.blk)
        /\ (tx.pc = "eot" => rx.eofs < 2)
    BY <1>1, <2>2, QuestionTaken
  <2>5. InStep'
    BY <1>1, <1>2, <2>1, <2>3, <2>4 DEF InStep, RxSame
  <2>. QED  BY <2>3, <2>5 DEF Session
<1>16. CASE RxHeadEmpties
  <2>1. Head(fwd).kind \in {"data", "last"} /\ rx.res = "none" /\ rx'.pc = "idle" /\ rx.eofs <= 1 /\ rx.got = 0
        /\ rx'.eofs = rx.eofs /\ stored' = stored /\ Replied("NAK")
    BY <1>4, <1>16 DEF RxHeadEmpties, RxWaits, Expects
  <2>2. Question
    BY <1>4, <1>16, <2>1 DEF RxHeadEmpties, Question, Asking, Packets
  <2>3. NoLeftOvers' /\ OneQuestion' /\ Present' /\ Fits(Head(fwd)) /\ tx.res # "ok"
    BY <1>1, <2>1, <2>2, QuestionAnswered, QuestionTaken
  <2>4. tx.pc = "done"
    BY <1>2, <1>3, <2>1, <2>3 DEF Fits, InStep
  <2>5. InStep'
    BY <1>1, <1>2, <2>1, <2>3, <2>4 DEF InStep
  <2>. QED  BY <2>3, <2>5 DEF Session
<1>17. CASE RxLates
  <2>1. Head(fwd).kind \in Packets /\ rx.res = "none" /\ rx'.pc = "idle" /\ rx.eofs = 2 /\ RxSame /\ Replied("ACK")
    BY <1>4, <1>17 DEF RxLates, RxWaits
  <2>2. Question
    BY <1>4, <1>17, <2>1 DEF RxLates, Question, Asking
  <2>3. NoLeftOvers' /\ OneQuestion' /\ Present' /\ NoQuestion' /\ Fits(Head(fwd)) /\ tx.res # "ok"
        /\ Silent' /\ (NoCA => NoCA') /\ (tx.pc # "done" => NoCA)
    BY <1>1, <2>1, <2>2, QuestionAnswered, QuestionTaken
  <2>4. tx.pc \in {"last", "done"}
    BY <1>2, <1>3, <2>1, <2>3 DEF Fits, InStep, Packets
  <2>5. tx.pc = "last" => Kept'
    BY <2>1, <2>3 DEF Kept, RxSame
  <2>6. InStep'
    BY <1>1, <1>2, <2>1, <2>3, <2>4, <2>5 DEF InStep, RxSame
  <2>. QED  BY <2>3, <2>6 DEF Session
<1>18. CASE RxHeads
  <2>1. Head(fwd).kind = "head" /\ rx.res = "none" /\ rx'.pc \in {"idle", "done"} /\ rx.eofs <= 1 /\ rx.got = 0
    BY <1>4, <1>18 DEF RxHeads, RxWaits, Expects, RxFails
  <2>2. Question
    BY <1>4, <1>18, <2>1 DEF RxHeads, Question, Asking, Packets
  <2>3. Fits(Head(fwd)) /\ tx.res # "ok"
    BY <1>1, <2>2, QuestionTaken
  <2>4. tx.pc \in {"head", "done"}
    BY <2>1, <2>3 DEF Fits
  <2>5. CASE RxFails /\ Replied("C")
    <3>1. NoLeftOvers' /\ OneQuestion' /\ Present' /\ (tx.pc # "done" => Not("ACK")')
          /\ (tx.pc = "head" => rx.got = 0 /\ ~rx.sized)
      BY <1>1, <2>1, <2>2, <2>5, QuestionAnswered, QuestionTaken
    <3>2. InStep'
      BY <1>1, <1>2, <2>3, <2>4, <2>5, <3>1 DEF InStep, RxFails, RxSame
    <3>. QED  BY <3>1, <3>2 DEF Session
  <2>6. CASE rx'.got = 1 /\ rx'.sized = TRUE /\ rx'.eofs = rx.eofs /\ stored' = stored /\ Replied("ACK")
    <3>1. NoLeftOvers' /\ OneQuestion' /\ Present' /\ NoQuestion' /\ (tx.pc # "done" => Not("NAK")')
      BY <1>1, <2>1, <2>2, <2>6, QuestionAnswered
    <3>2. InStep'
      BY <1>1, <1>2, <2>3, <2>4, <2>6, <3>1 DEF InStep
    <3>. QED  BY <3>1, <3>2 DEF Session
  <2>. QED  BY <1>18, <2>5, <2>6 DEF RxHeads
<1>19. CASE RxDatas
  <2>1. Head(fwd).kind \in Packets /\ rx.res = "none" /\ rx'.pc \in {"idle", "done"} /\ rx.eofs <= 1 /\ rx.got > 0
        /\ Expects(Head(fwd)) /\ fwd # << >>
    BY <1>4, <1>19 DEF RxDatas, RxWaits, Expects, RxFails
  <2>2. Question
    BY <1>4, <1>19, <2>1 DEF RxDatas, Question, Asking
  <2>3. Fits(Head(fwd)) /\ tx.res # "ok" /\ (tx.pc = "head" => rx.got = 0) /\ (tx.pc = "data" => Len(stored) = tx.blk)
    BY <1>1, <2>2, QuestionTaken
  <2>4. tx.pc \in {"data", "done"}
    BY <1>2, <1>3, <2>1, <2>3 DEF Fits, InStep, Packets
  <2>5. CASE RxFails /\ Replied("C")
    <3>1. NoLeftOvers' /\ OneQuestion' /\ Present' /\ (tx.pc # "done" => Not("ACK")')
      BY <1>1, <2>1, <2>2, <2>5, QuestionAnswered
    <3>2. InStep'
      BY <1>1, <1>2, <2>3, <2>4, <2>5, <3>1 DEF InStep, RxFails, RxSame
    <3>. QED  BY <3>1, <3>2 DEF Session
  <2>6. CASE Incomplete /\ stored' = Append(stored, Head(fwd).blk) /\ rx'.sized = rx.sized /\ rx'.eofs = rx.eofs /\ Replied("ACK")
    <3>1. NoLeftOvers' /\ OneQuestion' /\ Present' /\ NoQuestion' /\ (tx.pc # "done" => Not("NAK")')
      BY <1>1, <2>1, <2>2, <2>6, QuestionAnswered
    <3>2. Head(fwd).blk \in 0 .. NBlocks
      <4>1. Head(fwd) \in Token
        BY <1>1, <1>8, <2>1 DEF TypeOK
      <4>. QED  BY <4>1 DEF Token
    <3>3. Len(stored') = Len(stored) + 1
      BY <1>1, <2>6, <3>2
    <3>4. rx.eofs = 0 /\ rx.sized
      BY <1>1, <1>2, <1>3, <2>6 DEF InStep, Incomplete
    <3>5. InStep'
      BY <1>1, <1>2, <2>3, <2>4, <2>6, <3>1, <3>3, <3>4 DEF InStep
    <3>. QED  BY <3>1, <3>5 DEF Session
  <2>7. CASE ~Incomplete /\ stored' = stored /\ rx'.sized = rx.sized /\ rx'.eofs = rx.eofs /\ Replied("ACK")
    <3>1. NoLeftOvers' /\ OneQuestion' /\ Present'
      BY <1>1, <2>1, <2>2, <2>7, QuestionAnswered
    <3>2. tx.pc = "done"
      BY <1>1, <1>2, <1>3, <2>3, <2>4, <2>7 DEF InStep, Incomplete
    <3>3. InStep'
      BY <1>1, <1>2, <2>3, <2>7, <3>2 DEF InStep
    <3>. QED  BY <3>1, <3>3 DEF Session
  <2>. QED  BY <1>19, <2>5, <2>6, <2>7 DEF RxDatas
<1>20. CASE RxBodies
  <2>1. rx.res = "none" /\ RxSame /\ rx'.pc = "body" /\ rev' = rev
    BY <1>20 DEF RxBodies, RxWaits, LinkSame
  <2>2. Question
    BY <1>4, <1>20, <2>1 DEF RxBodies, Question, Asking
  <2>3. /\ Once' /\ Silent' /\ Present' /\ (NoCA => NoCA') /\ tx.res # "ok"
        /\ tx.pc # "done" => /\ NoAnswer /\ Not("ACK") /\ OneAnswer
                             /\ tx.pc \in {"head", "data", "eot", "last"}
        /\ tx.pc = "head" => rx.got = 0 /\ ~rx.sized
        /\ tx.pc = "data" => Len(stored) = tx.blk
        /\ tx.pc = "eot" => rx.eofs < 2
    BY <1>1, <2>2, QuestionTaken
  <2>4. NoLeftOvers'
    BY <1>1, <2>1, <2>3 DEF Session, NoLeftOvers
  <2>5. tx.pc # "done" => NoAnswer' /\ OneAnswer' /\ Not("ACK")'
    BY <2>1, <2>3 DEF NoAnswer, OneAnswer, Not
  <2>6. OneQuestion'
    BY <1>1, <2>3, <2>5 DEF OneQuestion
  <2>7. InStep'
    BY <1>1, <1>2, <2>1, <2>3, <2>5 DEF InStep, RxSame
  <2>. QED  BY <2>3, <2>4, <2>6, <2>7 DEF Session
<1>. QED  BY <1>9, <1>10, <1>11, <1>12, <1>13, <1>14, <1>15, <1>16, <1>17, <1>18, <1>19, <1>20 DEF RxShape

LEMMA TickKeepsSession ==
  ASSUME Session, TickShape
  PROVE  Session'
<1>1. NoLeftOvers' /\ OneQuestion'
  BY DEF TickShape, Session, NoLeftOvers, OneQuestion, Once, NoCA, Silent, NoAnswer, NoQuestion, OneAnswer, Asking
<1>2. Present'
  BY DEF TickShape, Session, Present, Fits
<1>3. InStep'
  BY DEF TickShape, Session, InStep, Not, NoQuestion, Silent, Asking, Kept, NoCA
<1>. QED  BY <1>1, <1>2, <1>3 DEF Session

LEMMA StutterKeepsSession ==
  ASSUME Session, UNCHANGED vars
  PROVE  Session'
<1>1. tx' = tx /\ rx' = rx /\ fwd' = fwd /\ rev' = rev /\ stored' = stored
  BY DEF vars
<1>2. NoLeftOvers' /\ OneQuestion'
  BY <1>1 DEF Session, NoLeftOvers, OneQuestion, Once, NoCA, Silent, NoAnswer, NoQuestion, OneAnswer, Asking
<1>3. Present'
  BY <1>1 DEF Session, Present, Fits
<1>4. InStep'
  BY <1>1 DEF Session, InStep, Not, NoQuestion, Silent, Asking, Kept, NoCA
<1>. QED  BY <1>2, <1>3, <1>4 DEF Session

LEMMA SessionStarts == Init => Session
<1>. SUFFICES ASSUME Init PROVE Session
  OBVIOUS
<1>1. Len(fwd) = 0 /\ Len(rev) = 0 /\ Len(stored) = 0 /\ stored = << >> /\ tx.pc = "off" /\ tx.blk = 0 /\ tx.res = "none"
      /\ rx.pc = "off" /\ rx.got = 0 /\ rx.eofs = 0 /\ ~rx.sized
  BY DEF Init
<1>2. NoLeftOvers /\ OneQuestion /\ Present
  BY <1>1 DEF NoLeftOvers, OneQuestion, Once, NoCA, Silent, NoAnswer, NoQuestion, OneAnswer, Present
<1>3. InStep
  BY <1>1 DEF InStep
<1>. QED  BY <1>2, <1>3 DEF Session

\* A sender of the host stays one, and this code's sender keeps the session.
SessionHere == Hosted \/ Session

LEMMA StepKeepsBoth ==
  ASSUME FrameFaults \subseteq {"short"}, AnySenderInv, SessionHere, [NextMC]_vars
  PROVE  AnySenderInv' /\ SessionHere'
<1>1. CASE TxShape
  <2>1. ~Hosted
    BY <1>1 DEF Hosted, TxShape, TxAsks, TxQuestion, TxWaitsOn, TxFails, TxSucceeds, TxWaits
  <2>. QED  BY <1>1, <2>1, TxKeepsAny, TxKeepsSession DEF SessionHere
<1>2. CASE RxShape
  <2>1. Hosted => Hosted'
    BY <1>2 DEF RxShape, Hosted
  <2>. QED  BY <1>2, <2>1, RxKeepsAny, RxKeepsSession DEF SessionHere
<1>3. CASE TickShape
  <2>1. Hosted => Hosted'
    BY <1>3 DEF TickShape, Hosted
  <2>. QED  BY <1>3, <2>1, TickKeepsAny, TickKeepsSession DEF SessionHere
<1>4. CASE HostSends \/ AnySender
  BY <1>4, HostKeepsAny DEF SessionHere
<1>5. CASE UNCHANGED vars
  <2>1. Hosted => Hosted'
    BY <1>5 DEF vars, Hosted
  <2>. QED  BY <1>5, <2>1, StutterKeepsAny, StutterKeepsSession DEF SessionHere
<1>. QED  BY <1>1, <1>2, <1>3, <1>4, <1>5, NextShape

LEMMA BothHold ==
  ASSUME FrameFaults \subseteq {"short"}
  PROVE  SpecMC => [](AnySenderInv /\ SessionHere)
<1>1. Init => SessionHere
  BY SessionStarts DEF SessionHere
<1>. QED  BY InitIs, <1>1, StepKeepsBoth, PTL DEF SpecMC
-----------------------------------------------------------------------------
(* The results.  SpecMC has the two ends of YModem, or a program of the host that sends what it *)
(* likes in place of yget. *)

\* Without a program of the host, SpecMC is the specification of YModem.
THEOREM TwoEnds == Spec => SpecMC
<1>1. [Next]_vars => [NextMC]_vars
  BY DEF NextMC
<1>. QED  BY <1>1, PTL DEF Spec, SpecMC

\* Every variable stays in its set: no counter of the two ends runs out of its range and neither
\* queue holds more than its bytes, whoever sends and whatever the link does to the packets.
THEOREM TypeCorrect == SpecMC => []TypeOK
<1>1. AnySenderInv => TypeOK
  BY DEF AnySenderInv
<1>. QED  BY AnySenderCorrect, <1>1, PTL

\* The file written never exceeds the size announced, and its blocks have the numbers 1, 2, 3...
\* modulo PMod, whoever sends and whatever the link does to the packets, headless ones included.
THEOREM InSequence == SpecMC => []StoredBySequence
<1>1. AnySenderInv => StoredBySequence
  BY DEF AnySenderInv
<1>. QED  BY AnySenderCorrect, <1>1, PTL

\* When packets may lose bytes but not their start, only a complete file gets its name when
\* both ends are this code.
THEOREM NamedWhole ==
  ASSUME FrameFaults \subseteq {"short"}
  PROVE  SpecMC => []NamedIsCompleteHere
<1>1. AnySenderInv /\ SessionHere => NamedIsCompleteHere
  BY DEF AnySenderInv, SessionHere, Session, InStep, NamedAfterEot, NamedIsComplete, NamedIsCompleteHere
<1>. QED  BY BothHold, <1>1, PTL

\* When packets may lose bytes but not their start, the receiver keeps every file that the
\* sender reports as sent.
THEOREM SentStays ==
  ASSUME FrameFaults \subseteq {"short"}
  PROVE  SpecMC => []SentIsKept
<1>1. AnySenderInv /\ SessionHere => SentIsKept
  BY DEF AnySenderInv, Decided, Hosted, SessionHere, Session, InStep, Kept, SentIsKept
<1>. QED  BY BothHold, <1>1, PTL

LEMMA TransferStarts == Init => Transfer!Init
  BY Sizes DEF Init, Transfer!Init, EndOf

LEMMA TransferSteps ==
  ASSUME AnySenderInv, SessionHere, [NextMC]_vars
  PROVE  [Transfer!Next]_(Transfer!tvars)
<1>1. /\ Len(stored) \in Nat /\ Len(stored) <= NBlocks /\ NBlocks \in Nat /\ tx.blk \in 0 .. NBlocks /\ TypeOK
      /\ stored \in Seq(0 .. NBlocks) /\ fwd \in Seq(Token)
  BY Sizes DEF AnySenderInv, TypeOK, StoredBySequence, Sender
<1>2. CASE TxShape
  <2>1. stored' = stored /\ rx' = rx /\ InStep
    <3>1. ~Hosted
      BY <1>2 DEF Hosted, TxShape, TxAsks, TxQuestion, TxWaitsOn, TxFails, TxSucceeds, TxWaits
    <3>. QED  BY <1>2, <3>1 DEF TxShape, SessionHere, Session
  <2>2. CASE TxAsks \/ TxWaitsOn
    BY <2>1, <2>2 DEF TxAsks, TxWaitsOn, Transfer!tvars, EndOf
  <2>3. CASE TxQuestion
    <3>1. tx.res = "none" /\ tx'.res = "none"
      BY <2>3 DEF TxQuestion, AnySenderInv, Decided, Hosted
    <3>2. CASE tx'.blk = tx.blk
      BY <2>1, <3>1, <3>2 DEF Transfer!tvars, EndOf
    <3>3. CASE tx.pc = "headC" /\ NextIs(0)
      <4>1. tx'.blk = tx.blk
        BY <2>1, <3>3 DEF InStep, NextIs
      <4>. QED  BY <3>2, <4>1
    <3>4. CASE tx.pc = "data" /\ Takes("ACK") /\ NextIs(tx.blk + 1)
      <4>1. ~Not("ACK") /\ tx'.blk = tx.blk + 1
        BY <1>1, <3>4, ByteTaken DEF Takes, NextIs
      <4>2. Len(stored) = tx.blk + 1
        BY <2>1, <3>4, <4>1 DEF InStep
      <4>3. Transfer!Claim
        BY <1>1, <2>1, <3>1, <4>1, <4>2 DEF Transfer!Claim, EndOf
      <4>. QED  BY <4>3 DEF Transfer!Next
    <3>. QED  BY <2>3, <3>2, <3>3, <3>4 DEF TxQuestion
  <2>4. CASE TxFails
    <3>1. tx.res = "none" /\ tx'.res = "failed" /\ tx'.blk = tx.blk
      BY <2>4 DEF TxFails, AnySenderInv, Decided, Hosted, TxWaits
    <3>2. Transfer!SenderEnds
      BY <2>1, <3>1 DEF Transfer!SenderEnds, EndOf
    <3>. QED  BY <3>2 DEF Transfer!Next
  <2>5. CASE TxSucceeds
    <3>1. tx.res = "none" /\ tx'.res = "ok" /\ tx'.blk = tx.blk /\ tx.blk = NBlocks
      BY <2>1, <2>5 DEF TxSucceeds, AnySenderInv, Decided, Hosted, InStep
    <3>2. Transfer!SenderEnds
      BY <2>1, <3>1 DEF Transfer!SenderEnds, EndOf
    <3>. QED  BY <3>2 DEF Transfer!Next
  <2>. QED  BY <1>2, <2>2, <2>3, <2>4, <2>5 DEF TxShape
<1>3. CASE RxShape
  <2>1. tx' = tx
    BY <1>3 DEF RxShape
  <2>2. CASE rx'.res = rx.res /\ stored' = stored
    BY <2>1, <2>2 DEF Transfer!tvars, EndOf
  <2>3. CASE rx.res = "none" /\ rx'.res \in {"ok", "failed"} /\ stored' = stored
    <3>1. Transfer!ReceiverEnds
      BY <2>1, <2>3 DEF Transfer!ReceiverEnds, EndOf
    <3>. QED  BY <3>1 DEF Transfer!Next
  <2>4. CASE /\ RxDatas /\ rx.res = "none" /\ rx'.res = "none"
             /\ Incomplete /\ stored' = Append(stored, Head(fwd).blk)
    <3>1. fwd # << >> /\ Len(stored) < NBlocks
      BY <2>4 DEF RxDatas, Heard, Incomplete
    <3>2. Head(fwd) \in Token
      BY <1>1, <3>1
    <3>3. Head(fwd).blk \in 0 .. NBlocks
      BY <3>2 DEF Token
    <3>4. Len(stored') = Len(stored) + 1
      BY <1>1, <2>4, <3>3
    <3>5. Transfer!Deliver
      BY <2>1, <2>4, <3>1, <3>4 DEF Transfer!Deliver, EndOf
    <3>. QED  BY <3>5 DEF Transfer!Next
  <2>. QED  BY <1>3, <2>2, <2>3, <2>4 DEF RxShape, RxStarts, RxQuiets, RxGivesUp, RxCans, RxCancels, RxEots, RxRefuses,
         RxHeadEmpties, RxLates, RxHeads, RxDatas, RxBodies, RxKeeps, RxFails, RxSame, RxWaits
<1>4. CASE TickShape
  BY <1>4 DEF TickShape, Transfer!tvars, EndOf
<1>5. CASE UNCHANGED vars
  BY <1>5 DEF vars, Transfer!tvars, EndOf
<1>6. CASE HostSends \/ AnySender
  <2>1. tx'.blk = tx.blk /\ tx'.res = tx.res /\ rx' = rx /\ stored' = stored
    BY <1>1, <1>6 DEF HostSends, AnySender, TypeOK, Sender
  <2>. QED  BY <2>1 DEF Transfer!tvars, EndOf
<1>. QED  BY <1>2, <1>3, <1>4, <1>5, <1>6, NextShape

\* When packets may lose bytes but not their start, the two ends implement the file transfer of
\* FileTransfer without slack: a block is claimed as sent only when it is stored, and the sender
\* ends well only with the whole file.
THEOREM Implements ==
  ASSUME FrameFaults \subseteq {"short"}
  PROVE  SpecMC => ImplementsTransfer
<1>1. AnySenderInv /\ SessionHere /\ [NextMC]_vars => [Transfer!Next]_(Transfer!tvars)
  BY TransferSteps
<1>. QED  BY BothHold, TransferStarts, <1>1, PTL DEF SpecMC, ImplementsTransfer, Transfer!Spec
=============================================================================
