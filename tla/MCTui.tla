------------------------------- MODULE MCTui --------------------------------
(* An instance of Tui for TLC: one policy, and a second list that has no   *)
(* objects but is read at a time of its own.                               *)
EXTENDS Tui

P == [kind |-> "policy", id |-> "p1"]
OnePolicy == {P}
TwoLists == <<"policy", "route">>
=============================================================================
