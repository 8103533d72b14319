------------------------------- MODULE XModem -------------------------------
(***************************************************************************)
(* The XMODEM file transfer of xymodem/xmodem.c with the callbacks and     *)
(* commands of pshell/modem_cmds.c: xmodemTransmit (command xget) at one   *)
(* end of a serial link and xmodemReceive (command xput) at the other.     *)
(*                                                                         *)
(* A block is named by its position in the file.  A frame travels as one   *)
(* token, a control byte as one token; the two directions of the link are  *)
(* bounded FIFOs that drop what does not fit.  The link damages at most    *)
(* Damage tokens.  Time advances in half seconds, and only when neither    *)
(* end has anything to do (both run far faster than their timeouts).       *)
(***************************************************************************)
EXTENDS Integers, Sequences, FiniteSets

CONSTANTS
  NBlocks,      \* length of the file in blocks of 128 bytes
  PMod,         \* packet numbers are bytes: 256 in the code
  SyncTries,    \* 16: tries of either end to get in touch
  MaxRetrans,   \* MAXRETRANS
  EotTries,     \* 10: EOTs sent before "ACK timeout"
  TxWait,       \* how long the sender waits for an answer to a frame (1 s = 2)
  FwdCap,       \* tokens the link and the receiver's input buffer hold
  RevCap,       \* the same, towards the sender
  SlowTime,     \* half seconds a slow flash write takes
  NoiseLen,     \* bytes of "error writing file" printed into the link
  Damage,       \* bound: tokens the link damages or loses
  FrameFaults,  \* how the link may mangle a frame: "bad", "short", "stray"
  SlowWrites,   \* bound: writes that are slow
  WriteErrors,  \* bound: blocks the file system fails to write
  ReadErrors    \* bound: blocks the file system fails to read

ASSUME Sizes ==
  /\ NBlocks \in Nat
  /\ SyncTries \in Nat \ {0} /\ MaxRetrans \in Nat \ {0} /\ EotTries \in Nat \ {0}
  /\ TxWait \in Nat \ {0} /\ SlowTime \in Nat /\ NoiseLen \in Nat
  /\ FwdCap \in Nat \ {0} /\ RevCap \in Nat \ {0}
  /\ FrameFaults \subseteq {"bad", "short", "stray"}
  /\ Damage \in Nat /\ SlowWrites \in Nat /\ WriteErrors \in Nat /\ ReadErrors \in Nat

\* Packet numbers outnumber what the two buffers can hold in flight.
ASSUME NumbersSuffice == PMod \in Nat /\ PMod > FwdCap + RevCap + 1

ByteWait  == 2  \* getbyte(DLY_1S)
FlushWait == 3  \* getbyte((DLY_1S*3) >> 1)
SyncWait  == 4  \* getbyte(DLY_1S << 1)

VARIABLES
  tx,      \* the sender's locals, the point it waits at and its timeout
  rx,      \* the same for the receiver
  fwd,     \* tokens on their way to the receiver
  rev,     \* bytes on their way to the sender
  stored,  \* the blocks in the receiver's file
  env,     \* what is left of the bounds on faults
  reacked  \* history: a frame that had been stored already was ACKed again

vars == <<tx, rx, fwd, rev, stored, env, reacked>>
-----------------------------------------------------------------------------
TxResult == {"none", "ok", "cancelled", "nosync", "failed", "noack"}
RxResult == {"none", "ok", "cancelled", "nosync", "retries"}
Whole    == {"frame", "eot", "can"}
\* What a damaged frame looks like to the receiver: wrong check bytes, bytes
\* missing after SOH, or SOH itself missing.
Mangled  == {"bad", "short", "stray", "junk"}
Token    == [kind : Whole \cup Mangled, blk : Nat, pkt : 0 .. PMod - 1, crc : BOOLEAN]
Byte     == {"C", "NAK", "ACK", "CAN", "junk"}

Sender   == [pc : {"off", "sync", "syncCan", "wait", "waitCan", "eot", "flush", "done"},
             blk : Nat, pkt : 0 .. PMod - 1, retry : Nat, crc : BOOLEAN,
             timer : Nat, res : TxResult]
Receiver == [pc : {"off", "idle", "idleCan", "body", "write", "flush", "done"},
             try : {"C", "NAK", "none"}, crc : BOOLEAN, pkt : 0 .. PMod - 1,
             retry : Nat, retrans : Int, timer : Nat, count : Nat, after : RxResult]
Budgets  == [damage : Nat, slow : Nat, write : Nat, read : Nat]

TypeOK ==
  /\ tx \in Sender /\ rx \in Receiver /\ env \in Budgets
  /\ fwd \in Seq(Token) /\ Len(fwd) <= FwdCap
  /\ rev \in Seq(Byte) /\ Len(rev) <= RevCap
  /\ stored \in Seq(Nat) /\ reacked \in BOOLEAN

Init ==
  /\ tx = [pc |-> "off", blk |-> 1, pkt |-> 1, retry |-> 0, crc |-> FALSE,
           timer |-> 0, res |-> "none"]
  /\ rx = [pc |-> "off", try |-> "C", crc |-> FALSE, pkt |-> 1, retry |-> 0,
           retrans |-> MaxRetrans, timer |-> 0, count |-> 0, after |-> "none"]
  /\ fwd = << >> /\ rev = << >> /\ stored = << >>
  /\ env = [damage |-> Damage, slow |-> SlowWrites, write |-> WriteErrors, read |-> ReadErrors]
  /\ reacked = FALSE
-----------------------------------------------------------------------------
(* The link. *)

PushMany(ch, cap, t, n) ==
  ch \o [i \in 1 .. (IF Len(ch) + n <= cap THEN n ELSE cap - Len(ch)) |-> t]

\* Variant: the buffer's limit is not checked.
PushUnchecked(ch, cap, t) == Append(ch, t)

Push(ch, cap, t) == IF Len(ch) < cap THEN Append(ch, t) ELSE ch

Spent(e, budget) == [e EXCEPT ![budget] = @ - 1]

\* Each send spends its faults from e: the token arrives whole, mangled in one
\* of the given ways, or not at all.
ToReceiver(t, ways, e) ==
  \/ fwd' = Push(fwd, FwdCap, t) /\ env' = e
  \/ /\ e.damage > 0 /\ env' = Spent(e, "damage")
     /\ \/ \E w \in ways : fwd' = Push(fwd, FwdCap, [t EXCEPT !.kind = w])
        \/ fwd' = fwd

ToSender(b) ==
  \/ rev' = Push(rev, RevCap, b) /\ env' = env
  \/ /\ env.damage > 0 /\ env' = Spent(env, "damage")
     /\ rev' \in {Push(rev, RevCap, "junk"), rev}

\* putCAN; of three bytes the link may lose some.
CancelReceiver(t) ==
  \E n \in 0 .. 3 :
    /\ fwd' = PushMany(fwd, FwdCap, t, n)
    /\ IF n = 3 THEN env' = env ELSE env.damage > 0 /\ env' = Spent(env, "damage")

CancelSender ==
  \E n \in 0 .. 3 :
    /\ rev' = PushMany(rev, RevCap, "CAN", n)
    /\ IF n = 3 THEN env' = env ELSE env.damage > 0 /\ env' = Spent(env, "damage")
-----------------------------------------------------------------------------
(* The sender: xmodemTransmit. *)

TokenOf(t, kind) == [kind |-> kind, blk |-> t.blk, pkt |-> t.pkt, crc |-> t.crc]

\* The faults with which the callback may report the end of the file before block b.
AtEnd(b) == IF b > NBlocks THEN {env}
            ELSE IF env.read > 0 THEN {Spent(env, "read")} ELSE {}

TxAlone == UNCHANGED <<rx, stored, reacked>>

\* putchar of the frame, then getbyte(DLY_1S)
SendFrame(t) ==
  /\ tx' = [t EXCEPT !.pc = "wait", !.timer = TxWait]
  /\ ToReceiver(TokenOf(t, "frame"), FrameFaults, env)

SendEot(t, e) ==
  /\ tx' = [t EXCEPT !.pc = "eot", !.timer = SyncWait]
  /\ ToReceiver(TokenOf(t, "eot"), {"junk"}, e)

\* start_trans: fetch the next block and send it, or EOT when there is none.
StartTrans(t) ==
  \/ t.blk <= NBlocks /\ SendFrame([t EXCEPT !.retry = 0])
  \/ \E e \in AtEnd(t.blk) : SendEot([t EXCEPT !.retry = 0], e)

TxEnd(res) == tx' = [tx EXCEPT !.pc = "flush", !.timer = FlushWait, !.res = res]

GiveUp(res) == TxEnd(res) /\ CancelReceiver(TokenOf(tx, "can"))

\* CAN CAN is answered with ACK, which the receiver has no use for.
TxCancelled == TxEnd("cancelled") /\ ToReceiver(TokenOf(tx, "junk"), {}, env)

TxStart ==
  /\ tx.pc = "off"
  /\ tx' = [tx EXCEPT !.pc = "sync", !.timer = SyncWait]
  /\ UNCHANGED <<fwd, rev, env>> /\ TxAlone

\* The rest of the body of the sync loop: the next try, or "no sync".
SyncRetry ==
  IF tx.retry + 1 < SyncTries
  THEN tx' = [tx EXCEPT !.pc = "sync", !.retry = @ + 1, !.timer = SyncWait] /\ UNCHANGED <<fwd, env>>
  ELSE GiveUp("nosync")

\* Variant: the tries are not counted.
FrameRetryForever == SendFrame(tx)

\* The next try of a frame, or "transmit error".
FrameRetry ==
  IF tx.retry + 1 < MaxRetrans THEN SendFrame([tx EXCEPT !.retry = @ + 1])
                               ELSE GiveUp("failed")

EotRetry ==
  IF tx.retry + 1 < EotTries THEN SendEot([tx EXCEPT !.retry = @ + 1], env)
                             ELSE TxEnd("noack") /\ UNCHANGED <<fwd, env>>

TxSyncByte ==
  /\ tx.pc = "sync" /\ rev # << >> /\ rev' = Tail(rev)
  /\ CASE Head(rev) \in {"C", "NAK"} -> StartTrans([tx EXCEPT !.crc = Head(rev) = "C"])
       [] Head(rev) = "CAN" -> tx' = [tx EXCEPT !.pc = "syncCan", !.timer = ByteWait] /\ UNCHANGED <<fwd, env>>
       [] OTHER -> SyncRetry
  /\ TxAlone

\* Variant: the case of NAK falls through to that of ACK.
TxAnswerFallsThrough ==
  /\ tx.pc = "wait" /\ rev # << >> /\ rev' = Tail(rev)
  /\ CASE Head(rev) \in {"ACK", "NAK"} -> StartTrans([tx EXCEPT !.blk = @ + 1, !.pkt = (@ + 1) % PMod])
       [] Head(rev) = "CAN" -> tx' = [tx EXCEPT !.pc = "waitCan", !.timer = ByteWait] /\ UNCHANGED <<fwd, env>>
       [] OTHER -> FrameRetry
  /\ TxAlone

TxAnswer ==
  /\ tx.pc = "wait" /\ rev # << >> /\ rev' = Tail(rev)
  /\ CASE Head(rev) = "ACK" -> StartTrans([tx EXCEPT !.blk = @ + 1, !.pkt = (@ + 1) % PMod])
       [] Head(rev) = "CAN" -> tx' = [tx EXCEPT !.pc = "waitCan", !.timer = ByteWait] /\ UNCHANGED <<fwd, env>>
       [] OTHER -> FrameRetry
  /\ TxAlone

TxEotAnswer ==
  /\ tx.pc = "eot" /\ rev # << >> /\ rev' = Tail(rev)
  /\ IF Head(rev) = "ACK" THEN TxEnd("ok") /\ UNCHANGED <<fwd, env>> ELSE EotRetry
  /\ TxAlone

\* The byte after a CAN: a second CAN cancels, any other is dropped.
TxCanByte ==
  /\ tx.pc \in {"syncCan", "waitCan"} /\ rev # << >> /\ rev' = Tail(rev)
  /\ IF Head(rev) = "CAN" THEN TxCancelled
     ELSE IF tx.pc = "syncCan" THEN SyncRetry ELSE FrameRetry
  /\ TxAlone

\* Variant: silence is taken for an acknowledgement.
TxTimeoutAdvances ==
  /\ tx.timer = 0 /\ rev = << >> /\ UNCHANGED rev
  /\ CASE tx.pc \in {"sync", "syncCan"} -> SyncRetry
       [] tx.pc \in {"wait", "waitCan"} -> StartTrans([tx EXCEPT !.blk = @ + 1, !.pkt = (@ + 1) % PMod])
       [] tx.pc = "eot" -> EotRetry
       [] tx.pc = "flush" -> tx' = [tx EXCEPT !.pc = "done"] /\ UNCHANGED <<fwd, env>>
       [] OTHER -> FALSE
  /\ TxAlone

\* getbyte finds nothing in time.  A byte that is there is read before the clock is.
TxTimeout ==
  /\ tx.timer = 0 /\ rev = << >> /\ UNCHANGED rev
  /\ CASE tx.pc \in {"sync", "syncCan"} -> SyncRetry
       [] tx.pc \in {"wait", "waitCan"} -> FrameRetry
       [] tx.pc = "eot" -> EotRetry
       [] tx.pc = "flush" -> tx' = [tx EXCEPT !.pc = "done"] /\ UNCHANGED <<fwd, env>>
       [] OTHER -> FALSE
  /\ TxAlone

TxFlushByte ==
  /\ tx.pc = "flush" /\ rev # << >> /\ rev' = Tail(rev)
  /\ tx' = [tx EXCEPT !.timer = FlushWait]
  /\ UNCHANGED <<fwd, env>> /\ TxAlone

TxStep == TxSyncByte \/ TxAnswer \/ TxEotAnswer \/ TxCanByte \/ TxTimeout \/ TxFlushByte
-----------------------------------------------------------------------------
(* The receiver: xmodemReceive and the callback xmodem_rx_cb. *)

RxAlone == UNCHANGED <<tx, stored, reacked>>

\* What the next byte may turn out to be.  A frame without its SOH is read byte
\* by byte, and its bytes may look like any control byte.
Reads(t) == IF t.kind = "stray" THEN {"junk", "short", "eot", "can"} ELSE {t.kind}

\* Reading the token as k; junk and CAN leave the rest of a stray frame unread.
Consume(k) == fwd' = IF Head(fwd).kind = "stray" /\ k \in {"junk", "can"} THEN fwd ELSE Tail(fwd)

Listen(r) == rx' = [r EXCEPT !.pc = "idle", !.timer = SyncWait]

\* flushreceive, after which the outcome r is reported; "none" is a reject.
Flush(t, r) == rx' = [t EXCEPT !.pc = "flush", !.timer = FlushWait, !.after = r]

Prompt(b) == IF b = "none" THEN UNCHANGED <<rev, env>> ELSE ToSender(b)

\* The next turn of the sync loop: trychar again, then NAK for 'C', then "sync error".
NextTry ==
  \/ /\ rx.retry + 1 < SyncTries
     /\ Listen([rx EXCEPT !.retry = @ + 1]) /\ Prompt(rx.try)
  \/ /\ rx.retry + 1 >= SyncTries /\ rx.try = "C"
     /\ Listen([rx EXCEPT !.retry = 0, !.try = "NAK"]) /\ Prompt("NAK")
  \/ /\ rx.retry + 1 >= SyncTries /\ rx.try # "C"
     /\ Flush(rx, "nosync") /\ UNCHANGED <<rev, env>>

RxStart ==
  /\ rx.pc = "off" /\ Listen(rx) /\ ToSender("C")
  /\ UNCHANGED fwd /\ RxAlone

\* A byte that starts nothing.
RxJunk ==
  /\ rx.pc = "idle" /\ fwd # << >> /\ "junk" \in Reads(Head(fwd)) /\ Consume("junk")
  /\ NextTry /\ RxAlone

RxEot ==
  /\ rx.pc = "idle" /\ fwd # << >> /\ "eot" \in Reads(Head(fwd)) /\ Consume("eot")
  /\ Flush(rx, "ok")
  /\ UNCHANGED <<rev, env>> /\ RxAlone

RxCan ==
  /\ rx.pc = "idle" /\ fwd # << >> /\ "can" \in Reads(Head(fwd)) /\ Consume("can")
  /\ rx' = [rx EXCEPT !.pc = "idleCan", !.timer = ByteWait]
  /\ UNCHANGED <<rev, env>> /\ RxAlone

\* Of a frame, one byte is read.
Behead == fwd' = IF Head(fwd).kind \in {"frame", "bad", "short", "stray"}
                 THEN <<[Head(fwd) EXCEPT !.kind = "stray"]>> \o Tail(fwd) ELSE Tail(fwd)

\* The byte after a CAN: a second CAN cancels, any other is dropped, be it the SOH
\* of a frame.
RxCanByte ==
  /\ rx.pc = "idleCan" /\ fwd # << >>
  /\ \/ /\ "can" \in Reads(Head(fwd)) /\ Consume("can")
        /\ Flush(rx, "cancelled") /\ UNCHANGED <<rev, env>>
     \/ Head(fwd).kind # "can" /\ Behead /\ NextTry
  /\ RxAlone

\* start_recv: the first frame settles the check in use and ends the prompting.
UseCrc  == rx.crc \/ rx.try = "C"
Started == [rx EXCEPT !.crc = UseCrc, !.try = "none"]

\* Variant: the packet number is not compared.
RxGoodAnyNumber(n) ==
  /\ rx.pc = "idle" /\ fwd # << >>
  /\ Head(fwd).kind = "frame" /\ Head(fwd).crc = UseCrc

\* A frame whose length is the expected one, with its numbers and check in order.
RxGood(n) ==
  /\ rx.pc = "idle" /\ fwd # << >>
  /\ Head(fwd).kind = "frame" /\ Head(fwd).crc = UseCrc /\ Head(fwd).pkt = n

\* The block expected: it goes to the file, which may be slow or may fail.  A
\* failure is printed, into the link, and the block is acknowledged all the same.
RxAccept ==
  /\ RxGood(rx.pkt) /\ Consume("frame")
  /\ \/ /\ stored' = Append(stored, Head(fwd).blk) /\ rev' = rev
        /\ \/ env' = env /\ rx' = [Started EXCEPT !.pc = "write", !.timer = 0,
                  !.count = @ + 1, !.pkt = (@ + 1) % PMod, !.retrans = MaxRetrans]
           \/ /\ env.slow > 0 /\ env' = Spent(env, "slow")
              /\ rx' = [Started EXCEPT !.pc = "write", !.timer = SlowTime,
                  !.count = @ + 1, !.pkt = (@ + 1) % PMod, !.retrans = MaxRetrans]
     \/ /\ env.write > 0 /\ env' = Spent(env, "write") /\ stored' = stored
        /\ rev' = PushMany(rev, RevCap, "junk", NoiseLen)
        /\ rx' = [Started EXCEPT !.pc = "write", !.timer = 0,
                  !.count = @ + 1, !.pkt = (@ + 1) % PMod, !.retrans = MaxRetrans]
  /\ UNCHANGED <<tx, reacked>>

\* The callback returns.
RxAck ==
  /\ rx.pc = "write" /\ rx.timer = 0
  /\ Listen([rx EXCEPT !.retry = 0]) /\ ToSender("ACK")
  /\ UNCHANGED fwd /\ RxAlone

\* Variant: the block stored last is refused when it comes again.
RxAgainRefused ==
  /\ rx.pkt > 0 /\ RxGood(rx.pkt - 1) /\ Consume("frame")
  /\ Flush(Started, "none")
  /\ UNCHANGED <<tx, rev, env, stored, reacked>>

\* The block stored last, sent again.  The comparison is of ints: with packetno
\* 0 the number before it is -1, which no frame carries.
RxAgain ==
  /\ rx.pkt > 0 /\ RxGood(rx.pkt - 1) /\ Consume("frame")
  /\ IF rx.retrans - 1 <= 0
     THEN Flush([Started EXCEPT !.retrans = @ - 1], "retries") /\ UNCHANGED <<rev, env>>
     ELSE Listen([Started EXCEPT !.retrans = @ - 1, !.retry = 0]) /\ ToSender("ACK")
  /\ reacked' = TRUE
  /\ UNCHANGED <<tx, stored>>

\* A complete frame with a wrong number or a wrong check.  One with a CRC where
\* a checksum is expected is a byte too long: the flush takes that byte.
RxReject ==
  /\ rx.pc = "idle" /\ fwd # << >> /\ Head(fwd).kind \in {"frame", "bad"}
  /\ UseCrc => Head(fwd).crc
  /\ ~RxGood(rx.pkt) /\ ~(rx.pkt > 0 /\ RxGood(rx.pkt - 1))
  /\ Consume("frame") /\ Flush(Started, "none")
  /\ UNCHANGED <<rev, env>> /\ RxAlone

\* A frame that stops early, or the checksum frame where a CRC is expected.
RxShort ==
  /\ rx.pc = "idle" /\ fwd # << >>
  /\ \/ "short" \in Reads(Head(fwd))
     \/ Head(fwd).kind \in {"frame", "bad"} /\ UseCrc /\ ~Head(fwd).crc
  /\ Consume("short")
  /\ rx' = [Started EXCEPT !.pc = "body", !.timer = ByteWait]
  /\ UNCHANGED <<rev, env>> /\ RxAlone

\* What follows is taken for the missing bytes, whose check then fails.
RxBodyByte ==
  /\ rx.pc = "body" /\ fwd # << >> /\ Consume("short")
  /\ \/ rx' = [rx EXCEPT !.timer = ByteWait]
     \/ Flush(rx, "none")
  /\ UNCHANGED <<rev, env>> /\ RxAlone

RxFlushByte ==
  /\ rx.pc = "flush" /\ fwd # << >> /\ Consume("short")
  /\ rx' = [rx EXCEPT !.timer = FlushWait]
  /\ UNCHANGED <<rev, env>> /\ RxAlone

\* The line has been quiet long enough: NAK, ACK or CANs, as the flush was for.
RxFlushed ==
  /\ rx.pc = "flush" /\ rx.timer = 0 /\ fwd = << >>
  /\ IF rx.after = "none" THEN Listen([rx EXCEPT !.retry = 0]) /\ ToSender("NAK")
     ELSE /\ rx' = [rx EXCEPT !.pc = "done"]
          /\ IF rx.after \in {"ok", "cancelled"} THEN ToSender("ACK") ELSE CancelSender
  /\ UNCHANGED fwd /\ RxAlone

RxTimeout ==
  /\ rx.timer = 0 /\ fwd = << >>
  /\ \/ rx.pc \in {"idle", "idleCan"} /\ NextTry
     \/ rx.pc = "body" /\ Flush(rx, "none") /\ UNCHANGED <<rev, env>>
  /\ UNCHANGED fwd /\ RxAlone

RxStep ==
  \/ RxJunk \/ RxEot \/ RxCan \/ RxCanByte \/ RxAccept \/ RxAck \/ RxAgain \/ RxReject
  \/ RxShort \/ RxBodyByte \/ RxFlushByte \/ RxFlushed \/ RxTimeout
-----------------------------------------------------------------------------
TxRuns == tx.pc \notin {"off", "done"}
RxRuns == rx.pc \notin {"off", "done"}

TxReady == TxRuns /\ (tx.timer = 0 \/ rev # << >>)
RxReady == RxRuns /\ (rx.timer = 0 \/ (rx.pc # "write" /\ fwd # << >>))

\* Half a second passes while both ends wait.
Tick ==
  /\ TxRuns \/ RxRuns
  /\ ~TxReady /\ ~RxReady
  /\ tx' = IF TxRuns THEN [tx EXCEPT !.timer = @ - 1] ELSE tx
  /\ rx' = IF RxRuns THEN [rx EXCEPT !.timer = @ - 1] ELSE rx
  /\ UNCHANGED <<fwd, rev, stored, env, reacked>>

Next == TxStart \/ RxStart \/ TxStep \/ RxStep \/ Tick

Spec == Init /\ [][Next]_vars

\* getbyte returns a byte or times out; each end runs on its own machine, and
\* both commands are given.
FairSpec == Spec /\ WF_vars(TxStep) /\ WF_vars(RxStep) /\ WF_vars(Tick)
                 /\ WF_vars(TxStart) /\ WF_vars(RxStart)
-----------------------------------------------------------------------------
(* Properties *)

Closing == rx.pc = "done" \/ (rx.pc = "flush" /\ rx.after \in {"ok", "cancelled"})

TxOk == tx.pc = "done" /\ tx.res = "ok"
RxOk == rx.pc = "done" /\ rx.after = "ok"

\* The file holds blocks of the original in the original order, none twice and
\* none missing but those whose write failed: although packet numbers wrap and
\* frames are repeated, the number check never takes one block for another.
StoredInOrder ==
  /\ \A i, j \in 1 .. Len(stored) : i < j => stored[i] < stored[j]
  /\ \A i \in 1 .. Len(stored) : stored[i] \in 1 .. rx.count
  /\ Len(stored) + (WriteErrors - env.write) = rx.count

\* How far the sender's count may run ahead of the receiver's: as far as
\* acknowledgements without a number can, by the frames and answers in flight.
BoundedLead ==
  /\ rx.count <= tx.blk
  /\ tx.blk <= rx.count + FwdCap + RevCap + (IF Closing THEN 2 ELSE 1)

(* What keeps the two counts together, and with them StoredInOrder. *)

AcksIn(ch) == Cardinality({i \in 1 .. Len(ch) : ch[i] = "ACK"})

Acks == AcksIn(rev)

\* An ACK that the receiver is bound to send.
Owed == IF rx.pc = "write" \/ (rx.pc = "flush" /\ rx.after \in {"ok", "cancelled"})
        THEN 1 ELSE 0

\* Packet numbers are the positions of blocks modulo PMod, at both ends and on
\* the way.
Numbered ==
  /\ tx.pkt = tx.blk % PMod
  /\ rx.pkt = (rx.count + 1) % PMod
  /\ \A i \in 1 .. Len(fwd) : fwd[i].pkt = fwd[i].blk % PMod

\* What is on its way was sent in the order of the file, after the block stored last.
Ordered ==
  /\ rx.count <= tx.blk
  /\ \A i \in 1 .. Len(fwd) : rx.count <= fwd[i].blk /\ fwd[i].blk <= tx.blk
  /\ \A i, j \in 1 .. Len(fwd) : i <= j => fwd[i].blk <= fwd[j].blk

\* Every ACK in flight lets the sender advance by one, and every token ahead may
\* cause one more.
Window ==
  /\ tx.blk + Acks + Owed <= rx.count + 1 + FwdCap + RevCap + (IF Closing THEN 1 ELSE 0)
  /\ ~Closing => \A i \in 1 .. Len(fwd) :
       tx.blk + Acks + Owed + i <= fwd[i].blk + 1 + FwdCap + RevCap

\* Only blocks of the file travel as frames; EOT is sent when there are no more.
WithinFile ==
  /\ env.read <= ReadErrors
  /\ tx.blk >= 1 /\ tx.blk <= NBlocks + 1
  /\ tx.pc \in {"wait", "waitCan"} => tx.blk <= NBlocks
  /\ tx.pc = "eot" \/ (tx.pc \in {"flush", "done"} /\ tx.res = "ok")
       => tx.blk = NBlocks + 1 \/ ReadErrors > 0
  /\ \A i \in 1 .. Len(fwd) : fwd[i].kind = "frame" => fwd[i].blk <= NBlocks

\* The sender's verdict.
Finished == tx.pc \in {"flush", "done"} /\ tx.res = "ok"

\* Unless a frame is acknowledged again each block, and then the end, is
\* acknowledged at most once; and what was read and written without an error is whole.
Accounted ==
  /\ ~reacked => tx.blk - 1 + (IF Finished THEN 1 ELSE 0) + Acks + Owed
                    <= rx.count + (IF Closing THEN 1 ELSE 0)
  /\ rx.count <= NBlocks
  /\ env.read = ReadErrors /\ (tx.pc = "eot" \/ Finished) => tx.blk = NBlocks + 1
  /\ env.write <= WriteErrors
  /\ env.write = WriteErrors => \A i \in 1 .. Len(stored) : stored[i] = i

IInv == TypeOK /\ Numbered /\ Ordered /\ Window /\ StoredInOrder /\ WithinFile /\ Accounted

\* The promise of FileTransfer, in terms of the two ends.
EndOf(ended, ok) == IF ~ended THEN "busy" ELSE IF ok THEN "ok" ELSE "failed"

Transfer == INSTANCE FileTransfer WITH
  Slack <- FwdCap + RevCap + 1, MayTruncate <- ReadErrors > 0,
  delivered <- rx.count, claimed <- tx.blk - 1,
  sender <- EndOf(tx.pc \in {"flush", "done"}, tx.res = "ok"),
  receiver <- EndOf(rx.pc = "done" \/ (rx.pc = "flush" /\ rx.after # "none"), rx.after = "ok")

\* The two programs keep the promise, with that bound on the sender's lead.
ImplementsTransfer == Transfer!Spec

\* "%d bytes transferred" is true of a transfer in which no frame was
\* acknowledged twice and the file could be read and written.
SuccessIsComplete ==
  TxOk /\ ~reacked /\ env.read = ReadErrors /\ env.write = WriteErrors
    => stored = [i \in 1 .. NBlocks |-> i]

\* "file transfered" at one end, "bytes transferred" at the other: the whole
\* file is there.
BothOkMeansDelivered ==
  TxOk /\ RxOk /\ env.read = ReadErrors /\ env.write = WriteErrors => rx.count >= NBlocks

\* Neither command hangs, whatever the link and the other end do.
Terminates == (TxRuns ~> tx.pc = "done") /\ (RxRuns ~> rx.pc = "done")

\* Both ends at their start, with tries to spare for the faults to come.
BothStart ==
  /\ tx.pc = "sync" /\ tx.retry + 2 * (env.damage + 1) < SyncTries
  /\ rx.pc = "idle" /\ rx.retry + 2 * (env.damage + 1) < SyncTries /\ rx.try = "C"

Arrived == RxOk /\ stored = [i \in 1 .. NBlocks |-> i]

\* Once the sender listens and the receiver asks, both with tries to spare, the
\* file arrives and both ends know, in two cases.  On a link without further faults:
\* although each prompt the receiver sent before, and a write slower than the sender's
\* patience, makes the sender repeat a frame, and each repetition is acknowledged
\* once more.  And on one that loses frames or spoils bytes, unless something else
\* causes a repetition, a waiting prompt or a slow write (the last ACK alone is not
\* sent again).
Delivers ==
  /\ BothStart /\ env.damage = 0 /\ Len(rev) + env.slow < MaxRetrans ~> Arrived /\ TxOk
  /\ \A n \in 0 .. SlowWrites :
       BothStart /\ env.damage > 0 /\ env.slow = n /\ Len(rev) <= 1 /\ rx.timer > 0
         ~> \/ env.slow < n
            \/ Arrived /\ (TxOk \/ (tx.res = "noack" /\ env.damage < Damage))
=============================================================================
