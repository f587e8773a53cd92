------------------------------ MODULE Catalog ------------------------------
(***************************************************************************)
(* What a server tells of a table, and the records the drivers make of it  *)
(* (crates/lithedb-core/src/db/driver.rs).  A definition has the columns   *)
(* in order, the constraints with their pairs of columns, and the indexes. *)
(***************************************************************************)
EXTENDS Integers, Sequences, SequencesExt

NoDb == "(none)"          \* a session without a current database

ColumnInfo(c, nullable, auto) ==
  [name |-> c.name, data_type |-> c.type, nullable |-> nullable,
   is_primary_key |-> c.pk, auto_increment |-> auto]

\* One row per pair of columns of each constraint, in the pairs' order; names
\* are those of the constraints.
ForeignKeyRows(fks, names) ==
  FlattenSeq([i \in DOMAIN fks |->
    [j \in DOMAIN fks[i].pairs |->
      [name |-> names[i], column |-> fks[i].pairs[j][1],
       referenced_table |-> fks[i].table,
       referenced_column |-> fks[i].pairs[j][2]]]])

IndexInfo(name, columns, unique, primary) ==
  [name |-> name, columns |-> columns, unique |-> unique, primary |-> primary]

\* A table that is not there.
NoTable == [columns |-> <<>>, fks |-> <<>>, indexes |-> <<>>]
=============================================================================
