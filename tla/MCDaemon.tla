------------------------------ MODULE MCDaemon ------------------------------
(***************************************************************************)
(* Instances of Daemon for TLC.                                            *)
(***************************************************************************)
EXTENDS Daemon

CONSTANTS k1, k2

OneConn == {k1}
TwoConns == {k1, k2}
=============================================================================
