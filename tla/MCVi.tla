-------------------------------- MODULE MCVi --------------------------------
(* Instances of Vi for TLC. *)
EXTENDS Vi

Short    == {<<"a", "nl", "A">>, <<"a", "nl">>, << >>}
TwoLines == {<<"a", "nl">>, <<"a", "A", "nl">>, <<"a", "nl", "A", "nl">>}
=============================================================================
