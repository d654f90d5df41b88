---------------------- MODULE MCLFRConnectionsManager ----------------------
(***************************************************************************)
(* LFRConnectionsManager for the model checker.                            *)
(***************************************************************************)
EXTENDS LFRConnectionsManager

\* Lists of none and of two cards, and a card that is in neither.
Of(id) == [id |-> id, text |-> "t"]
MCCardLists == {<<>>, <<Of("a"), Of("b")>>}
MCBrought == {Of("c")}
=============================================================================
