--------------------------- MODULE PostgresDriver ---------------------------
(***************************************************************************)
(* Row statements and results of crates/lithedb-core/src/db/postgres.      *)
(* Placeholders are numbered and cast to the column's type; pages are read *)
(* as text, cast by the server.                                            *)
(***************************************************************************)
EXTENDS SqlRows, Catalog

\* Microseconds of a second, scaled down to TLC's integers.
Second == 100

current_temporal_expression(cell) ==
  CASE TemporalKind(cell.data_type) = "Date" -> "CURRENT_DATE"
    [] TemporalKind(cell.data_type) = "Time" -> "CURRENT_TIME"
    [] OTHER -> "NOW()"

cast_placeholder(column, index, type) == Operand(column, "bind", index, type)

\* SET and VALUES: placeholders are numbered after those already used.
SetClause(cells, used) ==
  [i \in DOMAIN cells |->
     IF IsExpression(cells[i])
     THEN Expression(cells[i].column, current_temporal_expression(cells[i]))
     ELSE cast_placeholder(cells[i].column,
                           used + Len(SetBinds(SubSeq(cells, 1, i))),
                           cells[i].data_type)]

\* Faulty: the placeholders of WHERE start at 1 again.
WhereClause_Restarts(keys, used) ==
  [i \in DOMAIN keys |->
     IF keys[i].value = NULL THEN IsNull(keys[i].column)
     ELSE IF IsExpression(keys[i])
     THEN Expression(keys[i].column, current_temporal_expression(keys[i]))
     ELSE cast_placeholder(keys[i].column,
                           Len(KeyBinds(SubSeq(keys, 1, i))),
                           keys[i].data_type)]

WhereClause(keys, used) ==
  [i \in DOMAIN keys |->
     IF keys[i].value = NULL THEN IsNull(keys[i].column)
     ELSE IF IsExpression(keys[i])
     THEN Expression(keys[i].column, current_temporal_expression(keys[i]))
     ELSE cast_placeholder(keys[i].column,
                           used + Len(KeyBinds(SubSeq(keys, 1, i))),
                           keys[i].data_type)]

insert_row(values) ==
  IF values = <<>> THEN Refused
  ELSE Statement(SetClause(values, 0), <<>>, SetBinds(values))

update_row(changes, keys) ==
  IF changes = <<>> \/ keys = <<>> THEN Refused
  ELSE Statement(SetClause(changes, 0),
                 WhereClause(keys, Len(SetBinds(changes))),
                 SetBinds(changes) \o KeyBinds(keys))

delete_row(keys) ==
  IF keys = <<>> THEN Refused
  ELSE Statement(<<>>, WhereClause(keys, 0), KeyBinds(keys))

-----------------------------------------------------------------------------
(* Results.                                                                *)

\* PostgreSQL's own conversions: col::text, and CAST(text AS type).
AsText(type, value) ==
  IF value = NULL THEN NULL
  ELSE IF type = "bytes" THEN <<"\\x">> \o value ELSE value

Store(type, text) ==
  IF type = "bytes" /\ text # NULL
  THEN IF Head(text) = "\\x" THEN Tail(text) ELSE text
  ELSE text

\* The fields an interval is printed with.  Division truncates towards zero.
Div(a, b) == IF a < 0 THEN -((-a) \div b) ELSE a \div b
Rem(a, b) == a - b * Div(a, b)

pg_interval_to_string(months, days, us) ==
  LET total == Div(us, Second)
  IN  [years |-> Div(months, 12), mons |-> Rem(months, 12), days |-> days,
       hours |-> Div(total, 3600), minutes |-> Div(Rem(total, 3600), 60),
       seconds |-> Rem(total, 60), micros |-> Rem(us, Second)]

\* A type with no branch of its own, here an enum, comes to the last one, which
\* decodes only strings and integers: it is shown as NULL.
pg_value_to_string(type, value) ==
  IF type = "enum" THEN NULL
  ELSE IF type = "interval" /\ value # NULL
  THEN pg_interval_to_string(value[1], value[2], value[3])
  ELSE AsText(type, value)

execute_query(rows, fails, max) == Collect(rows, fails, max)

\* ORDER BY takes the name of a column of the select list, where it stands for
\* the text.
order_clause(values, texts) == texts

\* Faulty: the offset counts pages.
fetch_table_data_PageOffset(rows, offset, limit, max) ==
  execute_query(SubSeq(rows, offset \div limit + 1, offset \div limit + limit), FALSE, max)

\* rows are the rows of the table in the order of order_clause, or as the
\* server returns them.
fetch_table_data(rows, offset, limit, max) ==
  execute_query(SubSeq(rows, offset + 1,
                       IF offset + limit > Len(rows) THEN Len(rows)
                       ELSE offset + limit),
                FALSE, max)

-----------------------------------------------------------------------------
(* Sessions and the catalogue.                                             *)

\* connect_options: the database a pool is opened in.
connect_options(database) == IF database = "" THEN "postgres" ELSE database

list_databases(dbs) == dbs

\* The database whose tables are read: a pool of its own is opened for it.
\* Faulty: the tables are read in the session's pool.
list_tables_Session(database, current) == current

list_tables(database, current) ==
  IF database = "" THEN connect_options(current) ELSE database

\* The catalogue is the one of the pool's database; the condition on
\* table_catalog finds nothing under another name.
list_columns(named, current, definition) ==
  LET columns == IF named = current THEN definition[current].columns ELSE <<>>
  IN  [i \in DOMAIN columns |->
         ColumnInfo(columns[i], ~columns[i].notnull, columns[i].serial)]

list_foreign_keys(named, current, definition) ==
  LET fks == definition[current].fks IN ForeignKeyRows(fks, [i \in DOMAIN fks |-> fks[i].name])

list_indexes(named, current, definition) ==
  LET indexes == definition[current].indexes
  IN  [i \in DOMAIN indexes |->
         IndexInfo(indexes[i].name, indexes[i].columns, indexes[i].unique,
                   indexes[i].primary)]

create_database(name, dbs) == name # "" /\ name \notin dbs

\* The server refuses to drop the database it is asked in.
drop_database(name, dbs, current) == name \in dbs /\ name # current
=============================================================================
