------------------------------ MODULE MCYModem ------------------------------
(***************************************************************************)
(* Instances of YModem for TLC.  Besides both ends together, the receiver  *)
(* is checked against a sender that is not this code and sends anything.   *)
(***************************************************************************)
EXTENDS YModem

CONSTANT
  GotBound      \* bound: packets the partner sends

\* The sender is a program of the host, not this code: it neither starts nor reports.
Hosted == tx.pc = "done" /\ tx.res = "none"
HostSends == tx.pc = "off" /\ rx.pc = "off" /\ tx' = [tx EXCEPT !.pc = "done"] /\ UNCHANGED <<rx, fwd, rev, stored, env>>

\* A sender that sends what it likes.
Sendable == { Control(k) : k \in {"head", "last", "eot", "CA", "bad", "short"} }
              \cup { [Control("data") EXCEPT !.blk = b, !.pkt = b % PMod] : b \in 1 .. NBlocks }

AnySender ==
  /\ Hosted /\ RxRuns /\ fwd = << >> /\ rx.got < GotBound
  /\ \E t \in Sendable : fwd' = <<t>>
  /\ rev' = << >> /\ UNCHANGED <<tx, rx, stored, env>>

NextMC == Next \/ HostSends \/ AnySender
SpecMC == Init /\ [][NextMC]_vars

\* Between two ends that are this code, only a complete file gets its name.
NamedIsCompleteHere == ~Hosted => NamedIsComplete
=============================================================================
