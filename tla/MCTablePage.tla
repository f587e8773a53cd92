---------------------------- MODULE MCTablePage ----------------------------
(***************************************************************************)
(* An instance of TablePage: two connections with a table of the same name, *)
(* both connected, the table of the first opened and loaded.               *)
(***************************************************************************)
EXTENDS TablePage

\* After load_schema_answered of both, load_table_content of the first one's
\* table, its answers and the timer.
Opened ==
  LET t == <<"c1", "t">>
  IN  /\ connected = Conn
      /\ place = [of |-> t, no |-> 0]
      /\ pages = [x \in Tab |-> IF x = t THEN [NewPage EXCEPT !.rows = Payload(t, 0, MaxRows),
                                                              !.structure = t]
                                ELSE NULL]
      /\ current = t
      /\ closed = [x \in Tab |-> 0]
      /\ dialog = NULL /\ calls = EmptyBag
      /\ alive = TRUE /\ acts = 0 /\ calm = TRUE

OpenedSpec == Opened /\ [][Next]_vars
=============================================================================
