---------------------------- MODULE FileTransfer ----------------------------
(***************************************************************************)
(* What a file transfer promises: blocks are delivered one after another,  *)
(* the sender claims them one after another and never runs more than Slack *)
(* blocks ahead, it ends well only when it has claimed the whole file, and *)
(* what an end has decided stays decided.                                  *)
(***************************************************************************)
EXTENDS Naturals

CONSTANTS
  NBlocks,    \* length of the file in blocks
  Slack,      \* how many blocks the sender may claim before they are delivered
  MayTruncate \* the file may turn out to be unreadable, which looks like its end

VARIABLES delivered, claimed, sender, receiver

tvars == <<delivered, claimed, sender, receiver>>

Init ==
  /\ delivered = 0 /\ claimed = 0
  /\ sender = "busy" /\ receiver = "busy"

Deliver ==
  /\ receiver = "busy" /\ delivered < NBlocks
  /\ delivered' = delivered + 1
  /\ UNCHANGED <<claimed, sender, receiver>>

Claim ==
  /\ sender = "busy" /\ claimed < NBlocks
  /\ claimed < delivered + Slack
  /\ claimed' = claimed + 1
  /\ UNCHANGED <<delivered, sender, receiver>>

SenderEnds ==
  /\ sender = "busy"
  /\ \/ sender' = "ok" /\ (claimed = NBlocks \/ MayTruncate)
     \/ sender' = "failed"
  /\ UNCHANGED <<delivered, claimed, receiver>>

ReceiverEnds ==
  /\ receiver = "busy" /\ receiver' \in {"ok", "failed"}
  /\ UNCHANGED <<delivered, claimed, sender>>

Next == Deliver \/ Claim \/ SenderEnds \/ ReceiverEnds

Spec == Init /\ [][Next]_tvars
=============================================================================
