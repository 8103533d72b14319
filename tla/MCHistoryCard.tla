--------------------------- MODULE MCHistoryCard ---------------------------
(***************************************************************************)
(* Instances of History and of SdCard for TLC: what the shell stands on at *)
(* either side, the line editor and the card.  They share nothing, so that *)
(* a behaviour is one of either, while the other is not used.              *)
(***************************************************************************)
EXTENDS History, SdCard

VARIABLE side

Chars == {"a", "b"}
\* Four units are one more than the range holds.
CardSet == { [kind |-> "Ver1", sectors |-> 2], [kind |-> "Ver2", sectors |-> 2],
             [kind |-> "High", sectors |-> 2], [kind |-> "High", sectors |-> 3],
             [kind |-> "High", sectors |-> 4], [kind |-> "High", sectors |-> 5] }

InitMC == Init /\ CardInit /\ side \in {"line", "card"} /\ (side = "line" => card.kind = "Ver1")

NextMC ==
  /\ UNCHANGED side
  /\ \/ side = "line" /\ Next /\ UNCHANGED cardVars
     \/ side = "card" /\ CardNext /\ UNCHANGED vars

SpecMC == InitMC /\ [][NextMC]_<<side, vars, cardVars>> /\ WF_cardVars(side = "card" /\ DriverStep /\ UNCHANGED vars)
=============================================================================
