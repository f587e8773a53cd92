--------------------------- MODULE MCConnectionUi ---------------------------
(***************************************************************************)
(* Instances of ConnectionUi for TLC.                                      *)
(***************************************************************************)
EXTENDS ConnectionUi

CONSTANTS c1, c2

OneConn == {c1}
TwoConns == {c1, c2}
=============================================================================
