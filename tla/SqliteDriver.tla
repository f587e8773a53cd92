---------------------------- MODULE SqliteDriver ----------------------------
(***************************************************************************)
(* Row statements and results of crates/lithedb-core/src/db/sqlite.        *)
(* Placeholders are "?"; pages are read with SELECT * and converted by the *)
(* declared type of the column, whatever the cell holds.                   *)
(***************************************************************************)
EXTENDS SqlRows, Catalog

current_temporal_expression(cell) ==
  CASE TemporalKind(cell.data_type) = "Date" -> "DATE('now')"
    [] TemporalKind(cell.data_type) = "Time" -> "TIME('now')"
    [] OTHER -> "CURRENT_TIMESTAMP"

Written(cell) ==
  IF IsExpression(cell)
  THEN Expression(cell.column, current_temporal_expression(cell))
  ELSE Question(cell.column)

insert_row(values) ==
  IF values = <<>> THEN Refused
  ELSE Statement([i \in DOMAIN values |-> Written(values[i])], <<>>,
                 SetBinds(values))

WhereClause(keys) ==
  [i \in DOMAIN keys |->
     IF keys[i].value = NULL THEN IsNull(keys[i].column) ELSE Written(keys[i])]

update_row(changes, keys) ==
  IF changes = <<>> \/ keys = <<>> THEN Refused
  ELSE Statement([i \in DOMAIN changes |-> Written(changes[i])],
                 WhereClause(keys), SetBinds(changes) \o KeyBinds(keys))

delete_row(keys) ==
  IF keys = <<>> THEN Refused
  ELSE Statement(<<>>, WhereClause(keys), KeyBinds(keys))

-----------------------------------------------------------------------------
(* Results.                                                                *)

\* A column keeps any text it cannot convert: digits become a BOOLEAN's
\* integer, but neither 'true' nor 0x.. is converted.
Store(type, text) ==
  IF type = "bool" /\ text = <<"1">> THEN <<"T">>
  ELSE IF type = "bool" /\ text = <<"0">> THEN <<"F">>
  ELSE text

\* BOOLEAN decodes only the integers 0 and 1, here the tokens F and T; BLOB
\* decodes bytes and text alike.  What does not decode is shown as NULL.
value_to_string(type, value) ==
  IF value = NULL THEN NULL
  ELSE CASE type = "bool" ->
              IF value = <<"T">> THEN <<"true">>
              ELSE IF value = <<"F">> THEN <<"false">> ELSE NULL
         [] type = "bytes" -> <<"0x">> \o value
         [] OTHER -> value

execute_query(rows, fails, max) == Collect(rows, fails, max)

\* The select list is "*": the name stands for the value.
order_clause(values, texts) == values

fetch_table_data(rows, offset, limit, max) ==
  execute_query(SubSeq(rows, offset + 1,
                       IF offset + limit > Len(rows) THEN Len(rows)
                       ELSE offset + limit),
                FALSE, max)

-----------------------------------------------------------------------------
(* Sessions and the catalogue.  A connection is one file.                  *)

\* "" is refused; the file is not created.
connect_options(database) == database

list_tables(database, current) == current

list_columns(named, current, definition) ==
  LET columns == definition[current].columns
  IN  [i \in DOMAIN columns |->
         ColumnInfo(columns[i], ~columns[i].notnull,
                    columns[i].pk /\ columns[i].type = "integer")]

\* Constraints have no names: the table's name and the constraint's number.
list_foreign_keys(named, current, definition) ==
  LET fks == definition[current].fks
  IN  ForeignKeyRows(fks, [i \in DOMAIN fks |-> "fk_t_" \o ToString(i - 1)])

list_indexes(named, current, definition) ==
  LET indexes == definition[current].indexes
  IN  [i \in DOMAIN indexes |->
         IndexInfo(indexes[i].name, indexes[i].columns, indexes[i].unique,
                   indexes[i].primary)]
=============================================================================
