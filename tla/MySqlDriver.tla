---------------------------- MODULE MySqlDriver ----------------------------
(***************************************************************************)
(* Row statements and results of crates/lithedb-core/src/db/mysql.         *)
(* Placeholders are "?", taken in the order of the text; a page shows      *)
(* binary columns in hexadecimal and casts the others to characters.       *)
(***************************************************************************)
EXTENDS SqlRows, Catalog

current_temporal_expression(cell) ==
  CASE TemporalKind(cell.data_type) = "Date" -> "CURRENT_DATE"
    [] TemporalKind(cell.data_type) = "Time" -> "CURRENT_TIME"
    [] OTHER -> "NOW()"

Written(cell) ==
  IF IsExpression(cell)
  THEN Expression(cell.column, current_temporal_expression(cell))
  ELSE Question(cell.column)

SetClause(cells) == [i \in DOMAIN cells |-> Written(cells[i])]

WhereClause(keys) ==
  [i \in DOMAIN keys |->
     IF keys[i].value = NULL THEN IsNull(keys[i].column) ELSE Written(keys[i])]

insert_row(values) ==
  IF values = <<>> THEN Refused
  ELSE Statement(SetClause(values), <<>>, SetBinds(values))

update_row(changes, keys) ==
  IF changes = <<>> \/ keys = <<>> THEN Refused
  ELSE Statement(SetClause(changes), WhereClause(keys),
                 SetBinds(changes) \o KeyBinds(keys))

delete_row(keys) ==
  IF keys = <<>> THEN Refused
  ELSE Statement(<<>>, WhereClause(keys), KeyBinds(keys))

-----------------------------------------------------------------------------
(* Results.                                                                *)

\* The select list of a page: CONCAT('0x', HEX(c)) or CAST(c AS CHAR).
PageText(type, value) ==
  IF value = NULL THEN NULL
  ELSE IF type = "bytes" THEN <<"0x">> \o value ELSE value

\* MySQL's conversion of a text bound to a column: its bytes, as they are.
Store(type, text) == text

\* A type with no branch of its own, here DECIMAL, comes to the last one, which
\* decodes only character types and integers.
value_to_string(type, value) ==
  IF type = "decimal" THEN NULL ELSE PageText(type, value)

execute_query(rows, fails, max) == Collect(rows, fails, max)

\* As PostgreSQL's: the name stands for the text of the select list.
order_clause(values, texts) == texts

fetch_table_data(rows, offset, limit, max) ==
  execute_query(SubSeq(rows, offset + 1,
                       IF offset + limit > Len(rows) THEN Len(rows)
                       ELSE offset + limit),
                FALSE, max)

-----------------------------------------------------------------------------
(* Sessions and the catalogue.                                             *)

connect_options(database) == IF database = "" THEN NoDb ELSE database

list_databases(dbs) == dbs

list_tables(database, current) == database

list_columns(named, current, definition) ==
  LET columns == definition[named].columns
  IN  [i \in DOMAIN columns |->
         ColumnInfo(columns[i], ~columns[i].notnull, columns[i].serial)]

list_foreign_keys(named, current, definition) ==
  LET fks == definition[named].fks IN ForeignKeyRows(fks, [i \in DOMAIN fks |-> fks[i].name])

\* information_schema.statistics: a row per column of each index.
Statistics(indexes) ==
  FlattenSeq([i \in DOMAIN indexes |->
    [j \in DOMAIN indexes[i].columns |->
      [index_name |-> IF indexes[i].primary THEN "PRIMARY" ELSE indexes[i].name,
       non_unique |-> ~indexes[i].unique, column_name |-> indexes[i].columns[j]]]])

\* Rows of one index are gathered under its name.
\* Faulty: every row is an index.
Gather_PerRow(indexes, row) ==
  Append(indexes, IndexInfo(row.index_name, <<row.column_name>>,
                            ~row.non_unique, row.index_name = "PRIMARY"))

Gather(indexes, row) ==
  IF \E i \in DOMAIN indexes : indexes[i].name = row.index_name
  THEN [i \in DOMAIN indexes |->
          IF indexes[i].name = row.index_name
          THEN [indexes[i] EXCEPT !.columns = Append(@, row.column_name)]
          ELSE indexes[i]]
  ELSE Append(indexes, IndexInfo(row.index_name, <<row.column_name>>,
                                 ~row.non_unique, row.index_name = "PRIMARY"))

list_indexes(named, current, definition) ==
  FoldLeft(Gather, <<>>, Statistics(definition[named].indexes))

create_database(name, dbs) == name # "" /\ name \notin dbs

drop_database(name, dbs) == name \in dbs
=============================================================================
