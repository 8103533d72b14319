------------------------------- MODULE YModem -------------------------------
(***************************************************************************)
(* The YMODEM file transfer of xymodem/ymodem.c with the commands yget and *)
(* yput of pshell/modem_cmds.c: Ymodem_Transmit at one end of a serial     *)
(* link, Ymodem_Receive at the other.                                      *)
(*                                                                         *)
(* The session: the sender asks with 'C' and is asked with 'C', sends the  *)
(* name and size (head), the file in blocks of 1 KB (data), EOT twice, and *)
(* an empty packet (last).  A block is named by its position; 0 stands for *)
(* a block that is not what the file holds.  Every wait is of one second,  *)
(* the unit of time here, which passes only when neither end can go on.    *)
(***************************************************************************)
EXTENDS Integers, Sequences

CONSTANTS
  NBlocks,      \* length of the file in blocks
  PMod,         \* packet numbers are bytes: 256 in the code
  AskTries,     \* 45: times the sender asks again
  AckTries,     \* 10: seconds the sender waits for an answer
  MaxErrors,    \* MAX_ERRORS: timeouts in a row the receiver bears
  MaxBad,       \* 5: errors in a row it bears when a packet is refused
  FwdCap,       \* tokens the link and the receiver's input buffer hold
  RevCap,       \* the same, towards the sender
  PacketBytes,  \* bytes of a packet after its SOH: 132 and 1028
  FrameFaults,  \* how a packet may lose bytes: "short" lacks some, "stray" its SOH
  Mangle,       \* bound: packets damaged
  Lose,         \* bound: packets and bytes lost, bytes spoilt
  WriteErrors,  \* bound: blocks the file system fails to write
  ReadErrors    \* bound: blocks the file system fails to read

ASSUME Sizes ==
  /\ NBlocks \in Nat /\ PMod \in Nat \ {0}
  /\ AskTries \in Nat /\ AckTries \in Nat \ {0} /\ MaxErrors \in Nat /\ MaxBad \in Nat
  /\ FwdCap \in Nat \ {0} /\ RevCap \in Nat \ {0} /\ PacketBytes \in Nat \ {0}
  /\ FrameFaults \subseteq {"short", "stray"}
  /\ Mangle \in Nat /\ Lose \in Nat /\ WriteErrors \in Nat /\ ReadErrors \in Nat

VARIABLES
  tx,      \* the sender: what it waits for and its locals
  rx,      \* the receiver
  fwd,     \* tokens on their way to the receiver
  rev,     \* bytes on their way to the sender
  stored,  \* the blocks written to ymodem.tmp
  env      \* what is left of the bounds on faults

vars == <<tx, rx, fwd, rev, stored, env>>
-----------------------------------------------------------------------------
Packets == {"head", "data", "last"}
Strays  == {"stray", "bare"}
\* "junk" is any byte without a meaning, a 'C' of the sender's among them; "bad"
\* has a wrong CRC, "short" lacks bytes.  Of a packet that lost its SOH, a block
\* ("stray") or one of the others ("bare"), the last bytes are left.
Token == { t \in [kind : Packets \cup Strays \cup {"eot", "CA", "junk", "bad", "short"},
                  blk : 0 .. NBlocks, pkt : 0 .. PMod - 1, left : 0 .. PacketBytes] :
             t.kind \in Strays => t.left > 0 }
Byte  == {"C", "ACK", "NAK", "CA", "junk"}

TxWaits == {"head", "headC", "data", "eot", "eotC", "last"}
Sender   == [pc : {"off", "ask", "done"} \cup TxWaits, blk : 0 .. NBlocks, data : 0 .. NBlocks,
             tries : Nat, timer : 0 .. 1, res : {"none", "ok", "failed"}]
Receiver == [pc : {"off", "idle", "canned", "body", "done"}, got : Nat, sized : BOOLEAN,
             errors : Nat, eofs : 0 .. 2, timer : 0 .. 1, res : {"none", "ok", "failed"},
             file : {"none", "tmp", "named", "removed"}]
Budgets  == [mangle : Nat, lose : Nat, write : Nat, read : Nat]

TypeOK ==
  /\ tx \in Sender /\ rx \in Receiver /\ env \in Budgets
  /\ fwd \in Seq(Token) /\ Len(fwd) <= FwdCap
  /\ rev \in Seq(Byte) /\ Len(rev) <= RevCap
  /\ stored \in Seq(0 .. NBlocks)

Init ==
  /\ tx = [pc |-> "off", blk |-> 0, data |-> 0, tries |-> 0, timer |-> 0, res |-> "none"]
  /\ rx = [pc |-> "off", got |-> 0, sized |-> FALSE, errors |-> 0, eofs |-> 0, timer |-> 0,
           res |-> "none", file |-> "none"]
  /\ fwd = << >> /\ rev = << >> /\ stored = << >>
  /\ env = [mangle |-> Mangle, lose |-> Lose, write |-> WriteErrors, read |-> ReadErrors]
-----------------------------------------------------------------------------
(* The link: two bounded queues that drop what does not fit. *)

\* Variant: the buffer's limit is not checked.
PutUnchecked(ch, cap, s) == ch \o s

Put(ch, cap, s) == IF Len(ch) + Len(s) <= cap THEN ch \o s ELSE SubSeq(ch \o s, 1, cap)

Spent(e, budget) == [e EXCEPT ![budget] = @ - 1]

\* The last n bytes of a packet.
Headless(t, n) == [t EXCEPT !.kind = IF @ \in {"head", "last", "bare"} THEN "bare" ELSE "stray", !.left = n]

Lacking(t, w) == IF w = "stray" THEN Headless(t, PacketBytes) ELSE [t EXCEPT !.kind = w]

\* A packet or a byte arrives, is damaged, or is lost in part or wholly.
Send(t, e) ==
  \/ fwd' = Put(fwd, FwdCap, <<t>>) /\ env' = e
  \/ /\ t.kind \in Packets /\ e.mangle > 0 /\ env' = Spent(e, "mangle")
     /\ fwd' = Put(fwd, FwdCap, <<[t EXCEPT !.kind = "bad"]>>)
  \/ /\ e.lose > 0 /\ env' = Spent(e, "lose")
     /\ \/ fwd' = fwd
        \/ \E w \in IF t.kind \in Packets THEN FrameFaults ELSE {"junk"} :
             fwd' = Put(fwd, FwdCap, <<Lacking(t, w)>>)

\* Bytes to the sender; one of them may be lost, or all, or the first spoilt.
Reply(bs) ==
  \/ rev' = Put(rev, RevCap, bs) /\ env' = env
  \/ /\ env.lose > 0 /\ env' = Spent(env, "lose")
     /\ rev' \in { Put(rev, RevCap, s) : s \in {<< >>, Tail(bs), <<bs[1]>>, <<"junk">> \o Tail(bs)} }

Control(kind) == [kind |-> kind, blk |-> 0, pkt |-> 0, left |-> 0]

\* send_CA, n times over
CancelReceiver(n) ==
  \/ fwd' = Put(fwd, FwdCap, [i \in 1 .. 2 * n |-> Control("CA")]) /\ env' = env
  \/ /\ env.lose > 0 /\ env' = Spent(env, "lose")
     /\ fwd' = Put(fwd, FwdCap, [i \in 1 .. 2 * n - 1 |-> Control("CA")])
-----------------------------------------------------------------------------
(* The sender: yget_cmd and Ymodem_Transmit. *)

TxAlone == UNCHANGED <<rx, stored>>

Waiting(t, pc) == tx' = [t EXCEPT !.pc = pc, !.tries = 0, !.timer = 1]

PacketOf(t) == CASE t.pc = "data" -> [Control("data") EXCEPT !.blk = t.data, !.pkt = (t.blk + 1) % PMod]
                 [] t.pc \in {"head", "last"} -> Control(t.pc)
                 [] t.pc = "eot" -> Control("eot")

\* Send what belongs to the state t, and wait for its answer.
SendOf(t, e) == Waiting(t, t.pc) /\ Send(PacketOf(t), e)

AskReceiver(t) == tx' = [t EXCEPT !.pc = "ask", !.timer = 1] /\ Send(Control("junk"), env)

\* Blocks 1 .. b are acknowledged: PreparePacket for the next, or EOT.  A failed
\* read is not noticed: the packet carries what the buffer held before.
NextBlock(b) ==
  LET t == [tx EXCEPT !.blk = b] IN
  \/ b < NBlocks /\ SendOf([t EXCEPT !.pc = "data", !.data = b + 1], env)
  \/ b < NBlocks /\ env.read > 0 /\ SendOf([t EXCEPT !.pc = "data", !.data = 0], Spent(env, "read"))
  \/ b = NBlocks /\ SendOf([t EXCEPT !.pc = "eot"], env)

TxEnd(res) == tx' = [tx EXCEPT !.pc = "done", !.timer = 0, !.res = res]

TxStart ==
  /\ tx.pc = "off" /\ AskReceiver(tx)
  /\ UNCHANGED rev /\ TxAlone

\* Any byte but 'C' ends the session, and so does a 'C' after the last try.
TxAsked ==
  /\ tx.pc = "ask" /\ rev # << >> /\ rev' = Tail(rev)
  /\ IF Head(rev) = "C" /\ tx.tries < AskTries
     THEN SendOf([tx EXCEPT !.pc = "head"], env)
     ELSE TxEnd("failed") /\ CancelReceiver(1)
  /\ TxAlone

TxAskAgain ==
  /\ tx.pc = "ask" /\ tx.timer = 0 /\ rev = << >> /\ UNCHANGED rev
  /\ IF tx.tries < AskTries THEN AskReceiver([tx EXCEPT !.tries = @ + 1])
                            ELSE TxEnd("failed") /\ CancelReceiver(1)
  /\ TxAlone

Wanted == IF tx.pc \in {"headC", "eotC"} THEN "C" ELSE "ACK"

GoOn ==
  CASE tx.pc = "head"  -> Waiting(tx, "headC") /\ UNCHANGED <<fwd, env>>
    [] tx.pc = "headC" -> NextBlock(0)
    [] tx.pc = "data"  -> NextBlock(tx.blk + 1)
    [] tx.pc = "eot"   -> Waiting(tx, "eotC") /\ UNCHANGED <<fwd, env>>
    [] tx.pc = "eotC"  -> SendOf([tx EXCEPT !.pc = "last"], env)
    [] tx.pc = "last"  -> TxEnd("ok") /\ UNCHANGED <<fwd, env>>

\* Variant: a NAK of a block is passed over.
TxAnswerPassesOver ==
  /\ tx.pc \in TxWaits /\ rev # << >> /\ rev' = Tail(rev)
  /\ CASE Head(rev) = Wanted -> GoOn
       [] Head(rev) = "NAK" /\ Wanted = "ACK" -> GoOn
       [] Head(rev) = "CA" /\ Wanted = "C" -> TxEnd("failed") /\ CancelReceiver(2)
       [] OTHER -> TxEnd("failed") /\ CancelReceiver(1)
  /\ TxAlone

\* WaitResponse and what follows: NAK repeats the packet, without a limit; CA and
\* any other byte end the session.
TxAnswer ==
  /\ tx.pc \in TxWaits /\ rev # << >> /\ rev' = Tail(rev)
  /\ CASE Head(rev) = Wanted -> GoOn
       [] Head(rev) = "NAK" /\ Wanted = "ACK" -> SendOf(tx, env)
       [] Head(rev) = "CA" /\ Wanted = "C" -> TxEnd("failed") /\ CancelReceiver(2)
       [] OTHER -> TxEnd("failed") /\ CancelReceiver(1)
  /\ TxAlone

\* Variant: the seconds without an answer are not counted.
TxSilenceForever ==
  /\ tx.pc \in TxWaits /\ tx.timer = 0 /\ rev = << >> /\ UNCHANGED rev
  /\ tx' = [tx EXCEPT !.timer = 1] /\ UNCHANGED <<fwd, env>>
  /\ TxAlone

TxSilence ==
  /\ tx.pc \in TxWaits /\ tx.timer = 0 /\ rev = << >> /\ UNCHANGED rev
  /\ IF tx.tries + 1 < AckTries
     THEN tx' = [tx EXCEPT !.tries = @ + 1, !.timer = 1] /\ UNCHANGED <<fwd, env>>
     ELSE TxEnd("failed") /\ CancelReceiver(1)
  /\ TxAlone

TxStep == TxAsked \/ TxAskAgain \/ TxAnswer \/ TxSilence
-----------------------------------------------------------------------------
(* The receiver: yput_cmd and Ymodem_Receive. *)

RxAlone == UNCHANGED <<tx, stored>>

\* What Receive_Packet makes of a first byte: "short" is the start of a packet that
\* is none and so fails the checks.
Meaning(b) == CASE b \in {1, 2}   -> "short"
                [] b = 4          -> "eot"
                [] b = 24         -> "CA"
                [] b \in {65, 97} -> "abort"
                [] OTHER          -> "junk"

\* What the next token may turn out to be.  A packet without its SOH is read byte by
\* byte: its number and the complement, then data, which in the first and the last
\* packet is a name, digits and zeros, and two bytes of CRC.
Reads(t) ==
  IF t.kind \notin Strays THEN {t.kind}
  ELSE CASE t.left = PacketBytes     -> {Meaning(t.pkt)}
         [] t.left = PacketBytes - 1 -> {Meaning(255 - t.pkt)}
         [] OTHER -> IF t.kind = "bare" /\ t.left > 2 THEN {"junk", "abort"}
                     ELSE {"junk", "short", "eot", "CA", "abort"}

Bytes(t) == CASE t.kind \in Strays -> t.left
              [] t.kind \in Packets \cup {"bad", "short"} -> PacketBytes + 1
              [] OTHER -> 1

\* Of the next token, the last n bytes stay to be read.
Leave(n) == fwd' = IF n = 0 THEN Tail(fwd) ELSE <<Headless(Head(fwd), n)>> \o Tail(fwd)

\* A packet or a byte is taken.
Consume == Leave(IF Head(fwd).kind \in Strays THEN Head(fwd).left - 1 ELSE 0)

Receives(k) == rx.pc = "idle" /\ fwd # << >> /\ k \in Reads(Head(fwd)) /\ Consume

Listen(r) == rx' = [r EXCEPT !.pc = "idle", !.timer = 1]

\* The command's end: the temporary file gets its name or is removed.
RxEnd(ok) == rx' = [rx EXCEPT !.pc = "done", !.timer = 0,
                              !.res = IF ok THEN "ok" ELSE "failed",
                              !.file = IF ok THEN "named" ELSE "removed"]

RxAbort == RxEnd(FALSE) /\ Reply(<<"CA", "CA">>)

\* Variant: a refused packet is asked for with 'C'.
RefuseAsks(got) ==
  IF rx.errors + 1 > MaxBad THEN RxAbort
  ELSE Listen([rx EXCEPT !.errors = @ + 1, !.got = got]) /\ Reply(<<"C">>)

\* An error when a packet is refused: NAK it, or give up after too many.
Refuse(got) ==
  IF rx.errors + 1 > MaxBad THEN RxAbort
  ELSE Listen([rx EXCEPT !.errors = @ + 1, !.got = got]) /\ Reply(<<"NAK">>)

\* Variant: silence never ends the session well.
QuietAsks ==
  \/ rx.errors + 1 > MaxErrors /\ RxAbort
  \/ rx.errors + 1 <= MaxErrors /\ Listen([rx EXCEPT !.errors = @ + 1]) /\ Reply(<<"C">>)

\* Receive_Packet returned -1: the session is over, or the sender is asked again.
Quiet ==
  \/ rx.eofs > 1 /\ RxEnd(TRUE) /\ UNCHANGED <<rev, env>>
  \/ rx.eofs <= 1 /\ rx.errors + 1 > MaxErrors /\ RxAbort
  \/ rx.eofs <= 1 /\ rx.errors + 1 <= MaxErrors /\ Listen([rx EXCEPT !.errors = @ + 1]) /\ Reply(<<"C">>)

RxStart ==
  /\ rx.pc = "off" /\ Listen([rx EXCEPT !.file = "tmp"])
  /\ UNCHANGED <<fwd, rev, env>> /\ RxAlone

\* A byte without a meaning counts as a timeout, and so does each of a packet
\* without its SOH.
RxJunk == Receives("junk") /\ Quiet /\ RxAlone

RxUserAbort == Receives("abort") /\ RxAbort /\ RxAlone

RxCan ==
  /\ Receives("CA") /\ rx' = [rx EXCEPT !.pc = "canned", !.timer = 1]
  /\ UNCHANGED <<rev, env>> /\ RxAlone

\* The byte after CA; any but a second CA is dropped, be it the SOH of a packet.
RxCanByte ==
  /\ rx.pc = "canned" /\ fwd # << >>
  /\ Leave(Bytes(Head(fwd)) - 1)
  /\ \/ "CA" \in Reads(Head(fwd)) /\ RxEnd(FALSE) /\ Reply(<<"ACK">>)
     \/ Reads(Head(fwd)) # {"CA"} /\ Quiet
  /\ RxAlone

\* Only the first EOT is told from the others, and one from several.
RxEot ==
  /\ Receives("eot")
  /\ Listen([rx EXCEPT !.eofs = IF @ < 2 THEN @ + 1 ELSE 2])
  /\ Reply(IF rx.eofs = 0 THEN <<"NAK">> ELSE <<"ACK", "C">>)
  /\ RxAlone

RxBad == Receives("bad") /\ Refuse(rx.got) /\ RxAlone

\* A packet after two EOTs is acknowledged, whatever it is.
RxPacketLate ==
  /\ \E k \in Packets : Receives(k)
  /\ rx.eofs > 1 /\ Listen(rx) /\ Reply(<<"ACK">>)
  /\ RxAlone

\* Variant: packets are taken whatever their number.
ExpectsAny(t) == rx.eofs <= 1

Expects(t) == rx.eofs <= 1 /\ t.pkt = rx.got % PMod

RxPacketWrong ==
  /\ \E k \in Packets : Receives(k)
  /\ rx.eofs <= 1 /\ ~Expects(Head(fwd)) /\ Refuse(rx.got)
  /\ RxAlone

\* The first packet: the name and the size, which must not be 0.
RxHead ==
  /\ Receives("head") /\ Expects(Head(fwd)) /\ rx.got = 0
  /\ IF NBlocks = 0 THEN RxAbort
     ELSE Listen([rx EXCEPT !.errors = 0, !.got = 1, !.sized = TRUE]) /\ Reply(<<"ACK", "C">>)
  /\ RxAlone

\* A first packet without a name is refused, and counted all the same; a block taken
\* for one has no size.  (That the file's text there is a number is not modelled.)
RxHeadEmpty ==
  /\ \E k \in {"data", "last"} : Receives(k)
  /\ Expects(Head(fwd)) /\ rx.got = 0
  /\ Refuse(1) \/ (Head(fwd).kind = "data" /\ RxAbort)
  /\ RxAlone

\* file_len < size
Incomplete == rx.sized /\ Len(stored) < NBlocks

\* Variant: a packet counts as received although it could not be written.
RxDataUnwritten ==
  /\ \E k \in Packets : Receives(k)
  /\ Expects(Head(fwd)) /\ rx.got > 0 /\ Incomplete
  /\ Listen([rx EXCEPT !.errors = 0, !.got = @ + 1])
  /\ \/ stored' = Append(stored, Head(fwd).blk) /\ Reply(<<"ACK">>)
     \/ /\ env.write > 0 /\ env' = Spent(env, "write") /\ stored' = stored
        /\ rev' = Put(rev, RevCap, <<"ACK">>)
  /\ UNCHANGED tx

\* A data packet is written; a failure ends the session.
RxData ==
  /\ \E k \in Packets : Receives(k)
  /\ Expects(Head(fwd)) /\ rx.got > 0 /\ Incomplete
  /\ \/ /\ stored' = Append(stored, Head(fwd).blk)
        /\ Listen([rx EXCEPT !.errors = 0, !.got = @ + 1]) /\ Reply(<<"ACK">>)
     \/ /\ env.write > 0 /\ env' = Spent(env, "write") /\ stored' = stored
        /\ RxEnd(FALSE) /\ rev' = Put(rev, RevCap, <<"CA", "CA">>)
  /\ UNCHANGED tx

\* Beyond the size announced, packets are acknowledged and dropped.
RxDataBeyond ==
  /\ \E k \in Packets : Receives(k)
  /\ Expects(Head(fwd)) /\ rx.got > 0 /\ ~Incomplete
  /\ Listen([rx EXCEPT !.errors = 0, !.got = @ + 1]) /\ Reply(<<"ACK">>)
  /\ RxAlone

RxShort ==
  /\ Receives("short") /\ rx' = [rx EXCEPT !.pc = "body", !.timer = 1]
  /\ UNCHANGED <<rev, env>> /\ RxAlone

\* What follows is taken for the missing bytes; the rest of it is left over.
RxBodyByte ==
  /\ rx.pc = "body" /\ fwd # << >>
  /\ \/ Leave(0) /\ rx' = [rx EXCEPT !.timer = 1] /\ UNCHANGED <<rev, env>>
     \/ (\E n \in 0 .. Bytes(Head(fwd)) - 1 : Leave(n)) /\ Refuse(rx.got)
  /\ RxAlone

RxTimeout ==
  /\ rx.timer = 0 /\ fwd = << >> /\ UNCHANGED fwd
  /\ \/ rx.pc \in {"idle", "body"} /\ Quiet
     \/ rx.pc = "canned" /\ RxAbort
  /\ RxAlone

RxStep ==
  \/ RxJunk \/ RxUserAbort \/ RxCan \/ RxCanByte \/ RxEot \/ RxBad \/ RxPacketLate \/ RxPacketWrong
  \/ RxHead \/ RxHeadEmpty \/ RxData \/ RxDataBeyond \/ RxShort \/ RxBodyByte \/ RxTimeout
-----------------------------------------------------------------------------
TxRuns == tx.pc \notin {"off", "done"}
RxRuns == rx.pc \notin {"off", "done"}

\* A second passes while both ends wait.
Tick ==
  /\ TxRuns \/ RxRuns
  /\ TxRuns => tx.timer > 0 /\ rev = << >>
  /\ RxRuns => rx.timer > 0 /\ fwd = << >>
  /\ tx' = IF TxRuns THEN [tx EXCEPT !.timer = @ - 1] ELSE tx
  /\ rx' = IF RxRuns THEN [rx EXCEPT !.timer = @ - 1] ELSE rx
  /\ UNCHANGED <<fwd, rev, stored, env>>

Next == TxStart \/ RxStart \/ TxStep \/ RxStep \/ Tick

Spec == Init /\ [][Next]_vars

\* Every wait is for a second; each end runs on its own machine, and both
\* commands are given.
FairSpec == Spec /\ WF_vars(TxStep) /\ WF_vars(RxStep) /\ WF_vars(Tick)
                 /\ WF_vars(TxStart) /\ WF_vars(RxStart)
-----------------------------------------------------------------------------
(* Properties *)

Whole == stored = [i \in 1 .. NBlocks |-> i]

\* "file transfered" is true: only a complete file gets its name, and any other
\* is removed.
NamedIsComplete == rx.file = "named" => Len(stored) = NBlocks

\* Whatever the sender sends, what is written has the numbers 1, 2, 3... modulo
\* PMod, and never more than the size announced.
StoredBySequence ==
  /\ Len(stored) <= NBlocks
  /\ \A i \in 1 .. Len(stored) : stored[i] # 0 => stored[i] % PMod = i % PMod

\* The two ends do not end in the opposite way: what the sender reports as sent
\* the receiver does not throw away.
SentIsKept == tx.res = "ok" => rx.res # "failed"

EndOf(res) == IF res = "none" THEN "busy" ELSE res

\* The promise of FileTransfer with no slack: a block is claimed only when it is stored.
Transfer == INSTANCE FileTransfer WITH
  Slack <- 0, MayTruncate <- FALSE,
  delivered <- Len(stored),
  claimed <- tx.blk,
  sender <- EndOf(tx.res), receiver <- EndOf(rx.res)

ImplementsTransfer == Transfer!Spec

\* Neither command hangs, whatever the link does.
Terminates == (TxRuns ~> tx.pc = "done") /\ (RxRuns ~> rx.pc = "done")

\* When the receiver is there for a question of the sender's, the only one on its
\* way, and has not spent its patience waiting for it, packets that arrive damaged
\* are sent again until the file is there, and both ends know.
Delivers ==
  ( /\ tx.pc = "ask" /\ tx.tries < AskTries /\ tx.timer > 0 /\ rev = << >> /\ fwd = <<Control("junk")>>
    /\ rx.pc = "idle" /\ rx.timer > 0 /\ rx.errors + 1 + env.mangle <= MaxBad
    /\ env.lose = 0 /\ env.write = 0 )
     ~> (tx.res = "ok" /\ rx.file = "named" /\ Len(stored) = NBlocks /\ (env.read = ReadErrors => Whole))
=============================================================================
