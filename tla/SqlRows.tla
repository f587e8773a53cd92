------------------------------ MODULE SqlRows ------------------------------
(***************************************************************************)
(* What the three drivers share when they build a row statement: cells     *)
(* (crates/lithedb-core/src/db/driver.rs), the shape of a statement, how   *)
(* many rows of a result are kept; and the server's reading of a           *)
(* statement.                                                              *)
(*                                                                         *)
(* A text is a sequence of tokens.  A statement is a record: the assigned  *)
(* columns (set), the compared columns (where), and the values bound.  An  *)
(* operand is a numbered placeholder, the placeholder "?", an expression   *)
(* evaluated by the server, or IS NULL.                                    *)
(***************************************************************************)
EXTENDS Integers, Sequences, FiniteSets, SequencesExt

CONSTANT NULL

NowText == <<"NOW()">>

\* The data types of the instances, with the words their names contain.
Words ==
  [int |-> {}, text |-> {}, bytes |-> {}, bool |-> {}, decimal |-> {},
   enum |-> {}, interval |-> {}, date |-> {"date"}, time |-> {"time"}, timestamp |-> {"timestamp", "time"},
   datetime |-> {"datetime", "date", "time"}]

\* TemporalKind::from_data_type looks for words inside the type's name.
TemporalKind(type) ==
  IF Words[type] \cap {"timestamp", "datetime"} # {} THEN "DateTime"
  ELSE IF "date" \in Words[type] THEN "Date"
  ELSE IF "time" \in Words[type] THEN "Time"
  ELSE "None"

\* The value is the keyword, spaces around it and its case apart.
UsesNow(cell) == cell.value = NowText

\* The cell is written as an expression of the server, not bound.
IsExpression(cell) == UsesNow(cell) /\ TemporalKind(cell.data_type) # "None"

-----------------------------------------------------------------------------
(* Statements.                                                             *)

Operand(column, kind, n, e) ==
  [column |-> column, kind |-> kind, n |-> n, e |-> e]
Expression(column, e) == Operand(column, "expr", 0, e)
Question(column)      == Operand(column, "?", 0, "")
IsNull(column)        == Operand(column, "null", 0, "")

\* The n-th of a set of indices, and the values of the cells at these.
Nth(I, n) == CHOOSE i \in I : Cardinality({j \in I : j <= i}) = n
Values(cells, I) == [n \in 1 .. Cardinality(I) |-> cells[Nth(I, n)].value]

\* What is bound, in order: in SET or VALUES what is no expression, in WHERE
\* not NULL either, which is IS NULL.
SetBound(cells) == {i \in DOMAIN cells : ~IsExpression(cells[i])}
KeyBound(keys)  == {i \in DOMAIN keys : keys[i].value # NULL /\ ~IsExpression(keys[i])}
SetBinds(cells) == Values(cells, SetBound(cells))
KeyBinds(keys)  == Values(keys, KeyBound(keys))

Statement(set, where, binds) ==
  [ok |-> TRUE, set |-> set, where |-> where, binds |-> binds]
Refused == [ok |-> FALSE, set |-> <<>>, where |-> <<>>, binds |-> <<>>]

\* Rows kept of a result that answers with the rows given and then ends, or
\* fails: at most max, truncated if one more came.
\* Faulty: the row that proves there are more is not waited for.
Collect_OffByOne(rows, fails, max) ==
  [rows      |-> SubSeq(rows, 1, IF Len(rows) > max THEN max ELSE Len(rows)),
   truncated |-> Len(rows) >= max,
   again     |-> fails /\ Len(rows) <= max]

Collect(rows, fails, max) ==
  [rows      |-> SubSeq(rows, 1, IF Len(rows) > max THEN max ELSE Len(rows)),
   truncated |-> Len(rows) > max,
   again     |-> fails /\ Len(rows) <= max]

-----------------------------------------------------------------------------
(* The server.                                                             *)

Clock ==
  [today |-> <<"2026-07-08">>, noon |-> <<"12:00:00">>,
   both  |-> <<"2026-07-08", "12:00:00">>]

\* The server's functions the drivers call, one name per SQL expression.
Evaluate(e) ==
  CASE e \in {"CURRENT_DATE", "DATE('now')"} -> Clock.today
    [] e \in {"CURRENT_TIME", "TIME('now')"} -> Clock.noon
    [] e \in {"NOW()", "CURRENT_TIMESTAMP"}  -> Clock.both

Operands(st) == st.set \o st.where

\* The number of the value an operand takes: its own, or its place among "?".
Parameter(st, i) ==
  IF Operands(st)[i].kind = "bind" THEN Operands(st)[i].n
  ELSE Cardinality({j \in 1 .. i : Operands(st)[j].kind = "?"})

Placeholders(st) ==
  {i \in DOMAIN Operands(st) : Operands(st)[i].kind \in {"bind", "?"}}

\* A server refuses a statement whose placeholders are not the values bound.
WellBound(st) ==
  {Parameter(st, i) : i \in Placeholders(st)} = 1 .. Len(st.binds)
=============================================================================
