----------------------------- MODULE MCRowEdit -----------------------------
(***************************************************************************)
(* Instances of RowEdit for TLC.                                           *)
(***************************************************************************)
EXTENDS RowEdit

Sort(column, desc) == [column |-> column, desc |-> desc]

\* As the server returns the rows, and backwards.
TwoSorts == {Sort("", FALSE), Sort("k", TRUE)}
=============================================================================
