------------------------------ MODULE RowEdit ------------------------------
(***************************************************************************)
(* A table page of the user interface over the row statements of the three *)
(* drivers: rows are shown as text, and the text shown or typed is sent    *)
(* back as keys, changes and values.  Another client changes the table in  *)
(* between, and the page is as old as its last load.                       *)
(*                                                                         *)
(* The table has a column k of integers, its primary key or not, and a     *)
(* column v of one of the types of the engine.                             *)
(***************************************************************************)
EXTENDS SqlRows

CONSTANTS
  PageSize,     \* rows of a page
  MaxRows,      \* settings::max_query_rows
  MaxSteps,     \* bound on the length of a behaviour
  Sorts         \* the column and the direction a page may be sorted by

\* The tokens that texts are made of, and what an interval is printed as.
Tokens ==
  {"3", "4", "10", "NOW()", "\\x", "0x", "a", "b", "b1", "b2", "1.5", "2",
   "T", "F", "1", "0", "true", "false",
   "2026-07-08", "2000-02-29", "12:00:00", "23:59:59"}
Interval ==
  [years : Int, mons : Int, days : Int, hours : Int, minutes : Int, seconds : Int, micros : Int]

ASSUME RowEditAssumption ==
  /\ {PageSize, MaxRows, MaxSteps} \subseteq Nat \ {0}
  /\ Sorts \subseteq [column : {"", "k"}, desc : BOOLEAN]
  /\ NULL \notin Seq(Tokens) \cup Seq(Int) \cup Interval

Pg     == INSTANCE PostgresDriver
MySql  == INSTANCE MySqlDriver
Sqlite == INSTANCE SqliteDriver

VARIABLES
  table,     \* engine, type of v, and whether k is the primary key
  stored,    \* the server: the row of each id, or NoRow
  page,      \* the rows of the page: the texts shown, and the row they show
  result,    \* the last result of a query text
  last,      \* history: what the last step asked for, and what it answered
  steps

vars == <<table, stored, page, result, last, steps>>

NoRow == [k |-> NULL, v |-> NULL]
Ids == 1 .. 4
Present == {id \in Ids : stored[id] # NoRow}
KeyOf(id) == CASE id = 1 -> <<"1">> [] id = 2 -> <<"2">>
               [] id = 3 -> <<"3">> [] OTHER -> <<"4">>

\* The types of v, and two values the server may hold for each.
Types ==
  [postgres |-> {"text", "bytes", "date", "timestamp", "interval", "enum"},
   mysql    |-> {"text", "bytes", "decimal", "datetime"},
   sqlite   |-> {"text", "bytes", "bool", "time"}]

Payloads(engine, type) ==
  CASE type \in {"text", "enum"} -> {<<"a">>, <<"b">>}
    [] type = "bytes"    -> {<<"b1">>, <<"b2">>}
    [] type = "decimal"  -> {<<"1.5">>, <<"2">>}
    [] type = "bool"     -> {<<"T">>, <<"F">>}
    [] type = "date"     -> {Clock.today, <<"2000-02-29">>}
    [] type = "time"     -> {Clock.noon, <<"23:59:59">>}
    [] type = "interval" -> {<<15, 3, 60 * Pg!Second + 1>>, <<-13, 0, -3601 * Pg!Second>>}
    [] OTHER             -> {Clock.both, <<"2000-02-29", "23:59:59">>}

\* Where each key stands in the order of their values, and of their texts.
Positions(keys) == [k \in Range(keys) |-> CHOOSE n \in DOMAIN keys : keys[n] = k]
ByValue == Positions(<<<<"1">>, <<"2">>, <<"3">>, <<"4">>, <<"10">>>>)
ByText  == Positions(<<<<"1">>, <<"10">>, <<"2">>, <<"3">>, <<"4">>>>)

TypeOf(column) == IF column = "k" THEN "int" ELSE table.type

-----------------------------------------------------------------------------
(* The engine of the connection.                                           *)

Store(column, text) ==
  CASE table.engine = "postgres" -> Pg!Store(TypeOf(column), text)
    [] table.engine = "mysql"    -> MySql!Store(TypeOf(column), text)
    [] OTHER                     -> Sqlite!Store(TypeOf(column), text)

\* The text of a cell on a page.
Shown(column, value) ==
  CASE table.engine = "postgres" -> Pg!AsText(TypeOf(column), value)
    [] table.engine = "mysql"    -> MySql!PageText(TypeOf(column), value)
    [] OTHER                     -> Sqlite!value_to_string(TypeOf(column), value)

\* The text of a cell of a query's result.
QueryText(column, value) ==
  CASE table.engine = "postgres" -> Pg!pg_value_to_string(TypeOf(column), value)
    [] table.engine = "mysql"    -> MySql!value_to_string(TypeOf(column), value)
    [] OTHER                     -> Sqlite!value_to_string(TypeOf(column), value)

\* The order of the keys that ORDER BY gives, by engine.
order_clause ==
  [postgres |-> Pg!order_clause(ByValue, ByText),
   mysql    |-> MySql!order_clause(ByValue, ByText),
   sqlite   |-> Sqlite!order_clause(ByValue, ByText)]

fetch_table_data(rows, offset, limit) ==
  CASE table.engine = "postgres" -> Pg!fetch_table_data(rows, offset, limit, MaxRows)
    [] table.engine = "mysql"    -> MySql!fetch_table_data(rows, offset, limit, MaxRows)
    [] OTHER                     -> Sqlite!fetch_table_data(rows, offset, limit, MaxRows)

execute_query(rows) ==
  CASE table.engine = "postgres" -> Pg!execute_query(rows, FALSE, MaxRows)
    [] table.engine = "mysql"    -> MySql!execute_query(rows, FALSE, MaxRows)
    [] OTHER                     -> Sqlite!execute_query(rows, FALSE, MaxRows)

insert_row(values) ==
  CASE table.engine = "postgres" -> Pg!insert_row(values)
    [] table.engine = "mysql"    -> MySql!insert_row(values)
    [] OTHER                     -> Sqlite!insert_row(values)

update_row(changes, keys) ==
  CASE table.engine = "postgres" -> Pg!update_row(changes, keys)
    [] table.engine = "mysql"    -> MySql!update_row(changes, keys)
    [] OTHER                     -> Sqlite!update_row(changes, keys)

delete_row(keys) ==
  CASE table.engine = "postgres" -> Pg!delete_row(keys)
    [] table.engine = "mysql"    -> MySql!delete_row(keys)
    [] OTHER                     -> Sqlite!delete_row(keys)

-----------------------------------------------------------------------------
(* Cells.                                                                  *)

\* A cell as the bridge's parse_cell_values reads it from the payload.
Cell(column, text) ==
  [column |-> column, data_type |-> TypeOf(column), value |-> text]

\* build_row_keys_from_models: the primary key, else every column.
build_row_keys(cells) ==
  IF table.pk THEN <<Cell("k", cells.k)>>
  ELSE <<Cell("k", cells.k), Cell("v", cells.v)>>

Unsorted == [column |-> "", asc |-> TRUE]

\* The sort of a page, from the strings of the request.
parse_sort_order(column, asc) ==
  IF column = "" THEN Unsorted
  ELSE [column |-> column, asc |-> asc \notin {"false", "0"}]

\* Texts the user may type for v, an empty field being NULL.
Typed ==
  {NULL} \cup {Shown("v", p) : p \in Payloads(table.engine, table.type)}
    \cup (IF table.type = "bool" THEN {<<"1">>} ELSE {})
    \cup (IF TemporalKind(table.type) # "None" THEN {NowText} ELSE {})

\* The dirty cells of a row in inline editing, or the fields of its dialog.
Changes ==
  {<<Cell("v", text)>> : text \in Typed}
    \cup {<<Cell("k", <<"10">>), Cell("v", text)>> : text \in Typed}

-----------------------------------------------------------------------------
(* The server.                                                             *)

\* Primary keys are unique, and never NULL.
Legal(rows) ==
  table.pk =>
    LET there == {id \in Ids : rows[id] # NoRow}
        keys  == {rows[id].k : id \in there}
    IN  NULL \notin keys /\ Cardinality(keys) = Cardinality(there)

\* What the i-th operand of a statement stands for: a text as the engine reads
\* it, or the server's own value.
OperandValue(st, i) ==
  LET o == Operands(st)[i]
  IN  CASE o.kind = "null" -> NULL
        [] o.kind = "expr" -> Evaluate(o.e)
        [] OTHER -> Store(o.column, st.binds[Parameter(st, i)])

\* A comparison with NULL is never true, IS NULL only for NULL.
Selects(st, row) ==
  \A j \in DOMAIN st.where :
    LET value == OperandValue(st, Len(st.set) + j)
    IN  /\ row[st.where[j].column] = value
        /\ st.where[j].kind # "null" => value # NULL

Assigned(st, row) ==
  [c \in DOMAIN row |->
     IF \E j \in DOMAIN st.set : st.set[j].column = c
     THEN OperandValue(st, CHOOSE j \in DOMAIN st.set : st.set[j].column = c)
     ELSE row[c]]

\* A statement applied to the table, where becomes is what a row it selects
\* turns into: how many rows it affected, or -1.
Written(st, becomes) ==
  LET hit   == {id \in Present : Selects(st, stored[id])}
      after == [id \in Ids |-> IF id \in hit THEN becomes[id] ELSE stored[id]]
  IN  IF st.ok /\ WellBound(st) /\ Legal(after)
      THEN [rows |-> after, affected |-> Cardinality(hit)]
      ELSE [rows |-> stored, affected |-> -1]

Updated(changes, keys) ==
  LET st == update_row(changes, keys)
  IN  Written(st, [id \in Ids |-> Assigned(st, stored[id])])

Deleted(keys) == Written(delete_row(keys), [id \in Ids |-> NoRow])

\* The inserted row takes the lowest free place.
Inserted(values) ==
  LET st    == insert_row(values)
      place == CHOOSE id \in Ids \ Present : \A o \in Ids \ Present : id <= o
      after == [stored EXCEPT ![place] = Assigned(st, NoRow)]
  IN  IF st.ok /\ WellBound(st) /\ Legal(after)
      THEN [rows |-> after, affected |-> 1]
      ELSE [rows |-> stored, affected |-> -1]

\* Ids in the order of k, and of insertion where k is the same.
Ranked(a, b) ==
  LET place(id) == order_clause[table.engine][stored[id].k]
  IN  place(a) < place(b) \/ (place(a) = place(b) /\ a < b)

\* Whether a SELECT returns one row before another: as inserted, or by k.
Precedes(sort, a, b) ==
  IF sort.column = "" THEN a < b
  ELSE IF sort.asc THEN Ranked(a, b) ELSE Ranked(b, a)

\* The rows in that order: the n-th has n - 1 before it.
Placed(before) ==
  [n \in 1 .. Cardinality(Present) |-> stored[CHOOSE id \in Present : before[id] = n - 1]]

Rows(sort) ==
  Placed([id \in Present |-> Cardinality({o \in Present : Precedes(sort, o, id)})])

-----------------------------------------------------------------------------
\* What a page is loaded with: its number, and the sort of the header.
Asked(number, column, desc) == [number |-> number, column |-> column, desc |-> desc]

Nothing ==
  [op |-> "none", view |-> Asked(0, "", FALSE), row |-> NoRow, cells |-> <<>>, affected |-> 0]

Init ==
  /\ \E engine \in DOMAIN Types : \E type \in Types[engine] :
       table \in [engine : {engine}, type : {type}, pk : BOOLEAN]
  /\ \E v \in [{1, 2} -> {NULL} \cup Payloads(table.engine, table.type)] :
       stored = [id \in Ids |->
         IF id = 4 THEN NoRow
         ELSE [k |-> IF table.pk THEN KeyOf(id) ELSE KeyOf((id + 1) \div 2),
               v |-> v[IF id = 3 THEN 2 ELSE id]]]
  /\ page = <<>>
  /\ result = [rows |-> <<>>, of |-> <<>>, truncated |-> FALSE]
  /\ last = Nothing
  /\ steps = 0

Step == steps < MaxSteps /\ steps' = steps + 1 /\ UNCHANGED table

\* load_current_table_page of a page number and the header's sort; its answer
\* replaces the page.
Load(number, column, desc) ==
  LET sort == parse_sort_order(column, IF desc THEN "false" ELSE "true")
      got  == fetch_table_data(Rows(sort), number * PageSize, PageSize).rows
  IN  /\ Step
      /\ page' = [i \in DOMAIN got |->
                    [row |-> got[i], cells |-> [c \in {"k", "v"} |-> Shown(c, got[i][c])]]]
      /\ last' = [Nothing EXCEPT !.op = "load", !.view = Asked(number, column, desc)]
      /\ UNCHANGED <<stored, result>>

\* execute_query of SELECT * from a query tab.
Query ==
  LET got == execute_query(Rows(Unsorted))
  IN  /\ Step
      /\ result' = [rows |-> [i \in DOMAIN got.rows |->
                                [c \in {"k", "v"} |-> QueryText(c, got.rows[i][c])]],
                    of |-> Rows(Unsorted), truncated |-> got.truncated]
      /\ last' = [Nothing EXCEPT !.op = "query"]
      /\ UNCHANGED <<stored, page>>

Write(op, row, cells, answer) ==
  /\ stored' = answer.rows
  /\ last' = [Nothing EXCEPT !.op = op, !.row = row, !.cells = cells,
                              !.affected = answer.affected]
  /\ UNCHANGED <<page, result>>

\* commit_inline_edit and edit_current_row.
Update(i, changes) ==
  /\ Step
  /\ Write("update", page[i].row, changes,
           Updated(changes, build_row_keys(page[i].cells)))

\* delete_current_row.
Delete(i) ==
  /\ Step
  /\ Write("delete", page[i].row, <<>>, Deleted(build_row_keys(page[i].cells)))

\* insert_current_row with the fields filled in.
Insert(text) ==
  /\ Step /\ Ids # Present
  /\ LET values == <<Cell("k", <<"10">>), Cell("v", text)>>
     IN  Write("insert", NoRow, values, Inserted(values))

\* duplicate_current_row: the dialog starts from the texts of the row, and the
\* user types another key.
Duplicate(i) ==
  /\ Step /\ Ids # Present
  /\ LET values == <<Cell("k", <<"10">>), Cell("v", page[i].cells.v)>>
     IN  Write("duplicate", page[i].row, values, Inserted(values))

\* Another client of the server.
Other ==
  /\ Step
  /\ \E id \in Present :
       \E row \in {NoRow} \cup
         [k : {stored[id].k}, v : Payloads(table.engine, table.type)] :
           /\ row # stored[id]
           /\ stored' = [stored EXCEPT ![id] = row]
  /\ last' = [Nothing EXCEPT !.op = "other"]
  /\ UNCHANGED <<page, result>>

Next ==
  \/ \E number \in 0 .. 1, sort \in Sorts : Load(number, sort.column, sort.desc)
  \/ Query
  \/ \E i \in DOMAIN page : \E changes \in Changes : Update(i, changes)
  \/ \E i \in DOMAIN page : Delete(i) \/ Duplicate(i)
  \/ \E text \in Typed : Insert(text)
  \/ Other

Spec == Init /\ [][Next]_vars

-----------------------------------------------------------------------------
(* Properties.                                                             *)

\* The page holds at most a page of rows, the table rows or nothing, and only
\* columns of the table are written.
TypeOK ==
  /\ table.type \in Types[table.engine] /\ table.pk \in BOOLEAN
  /\ \A id \in Ids : DOMAIN stored[id] = {"k", "v"}
  /\ Legal(stored)
  /\ Len(page) <= PageSize
  /\ \A i \in DOMAIN page : DOMAIN page[i].cells = {"k", "v"}
  /\ Len(result.rows) <= MaxRows
  /\ last.affected \in -1 .. Cardinality(Ids)
  /\ steps \in 0 .. MaxSteps

\* What a text typed by the user asks for.
Meaning(column, text) ==
  IF text = NowText /\ column = "v"
  THEN CASE table.type = "date" -> Clock.today
         [] table.type = "time" -> Clock.noon
         [] OTHER               -> Clock.both
  ELSE Store(column, text)

\* The types whose text is not read back as the value it shows: MySQL and
\* SQLite keep 0x.. as text, SQLite keeps 'true' as text.
Lossy == <<table.engine, table.type>> \in
  {<<"mysql", "bytes">>, <<"sqlite", "bytes">>, <<"sqlite", "bool">>}

\* The rows a user points at: those with the key, or with the values, that the
\* row had when it was loaded.
Meant(row) ==
  {id \in Present : IF table.pk THEN stored[id].k = row.k ELSE stored[id] = row}

\* The table becomes what the user asked for, or, if its key forbids that,
\* stays as it is and the answer is an error.
Becomes(wanted, count) ==
  IF Legal(wanted) THEN stored' = wanted /\ last'.affected = count
  ELSE stored' = stored /\ last'.affected = -1

\* An update sets exactly the cells the user changed, to what was typed, in
\* exactly the rows that still are the row shown, however old the page is and
\* whatever mix of NULL, NOW() and plain values the statement binds
\* (postgres/mod.rs, mysql/mod.rs, sqlite/mod.rs update_row).  Without a
\* primary key this needs texts that are read back as the values shown.
UpdateIsExact ==
  [][(last'.op = "update" /\ steps' # steps /\ (table.pk \/ ~Lossy)) =>
       LET new(c, old) ==
             IF \E j \in DOMAIN last'.cells : last'.cells[j].column = c
             THEN Meaning(c, (CHOOSE x \in Range(last'.cells) : x.column = c).value)
             ELSE old
       IN  Becomes([id \in Ids |-> IF id \in Meant(last'.row)
                                   THEN [c \in {"k", "v"} |-> new(c, stored[id][c])]
                                   ELSE stored[id]],
                   Cardinality(Meant(last'.row)))]_vars

\* A delete removes exactly the rows that still are the row shown, with NULL
\* keys too (delete_row of the three drivers).
DeleteIsExact ==
  [][(last'.op = "delete" /\ steps' # steps /\ (table.pk \/ ~Lossy)) =>
       Becomes([id \in Ids |-> IF id \in Meant(last'.row) THEN NoRow ELSE stored[id]],
               Cardinality(Meant(last'.row)))]_vars

\* An inserted row holds what was typed, NOW() being the server's date, time or
\* both by the column's type; a duplicate holds the values of the row it was
\* made from (insert_row of the three drivers).
InsertIsExact ==
  [][(last'.op \in {"insert", "duplicate"} /\ steps' # steps
        /\ (last'.op = "insert" \/ ~Lossy)) =>
       LET v == IF last'.op = "insert" THEN Meaning("v", last'.cells[2].value)
                ELSE last'.row.v
       IN  \E id \in Ids \ Present :
             Becomes([stored EXCEPT ![id] = [k |-> <<"10">>, v |-> v]], 1)]_vars

\* Together: what a write does to the rows of the server.
WritesAreExact == UpdateIsExact /\ DeleteIsExact /\ InsertIsExact

\* The keys of the list never step back in the order given, or forth.
Sorted(rows, order, desc) ==
  \A i, j \in DOMAIN rows : i < j =>
    IF desc THEN order[rows[j].k] <= order[rows[i].k]
    ELSE order[rows[i].k] <= order[rows[j].k]

\* A loaded page is the whole page: a list of all rows of the table from the
\* page's offset on, as many as a page has, and the list is in the order of the
\* column asked for: of its texts for PostgreSQL and MySQL, of its values for
\* SQLite (fetch_table_data of the three drivers).
PageIsWhole ==
  [][(last'.op = "load" /\ steps' # steps) =>
       LET from == last'.view.number * PageSize
           all  == Rows([column |-> last'.view.column, asc |-> ~last'.view.desc])
       IN  /\ [i \in DOMAIN page' |-> page'[i].row]
                = SubSeq(all, from + 1, IF from + PageSize > Len(all)
                                        THEN Len(all) ELSE from + PageSize)
           /\ last'.view.column = "k" =>
                Sorted(all, IF table.engine = "sqlite" THEN ByValue ELSE ByText,
                       last'.view.desc)]_vars

\* A query's result is marked as cut off exactly when rows are missing
\* (execute_query of the three drivers).
TruncatedMeansMore == result.truncated <=> Len(result.of) > Len(result.rows)

\* The types that come to the last branch, which decodes none of their values.
NoBranch == <<table.engine, table.type>> \in {<<"postgres", "enum">>, <<"mysql", "decimal">>}

\* A result shows NULL exactly for NULL, and an interval with fields that add
\* up to it (pg_value_to_string, value_to_string).  The exceptions: a type that
\* has no branch (a PostgreSQL enum, array or XML, a MySQL DECIMAL) is always
\* shown as NULL, a SQLite BOOLEAN when it holds a text.
ResultShowsValues ==
  \A i \in DOMAIN result.rows :
    LET text  == result.rows[i].v
        value == result.of[i].v
    IN  /\ (text = NULL) <=>
             \/ value = NULL
             \/ NoBranch
             \/ table.type = "bool" /\ value \notin Payloads("sqlite", "bool")
        /\ (table.type = "interval" /\ value # NULL) =>
             /\ text.years * 12 + text.mons = value[1]
             /\ text.days = value[2]
             /\ ((text.hours * 60 + text.minutes) * 60 + text.seconds) * Pg!Second
                  + text.micros = value[3]
             /\ {text.minutes, text.seconds} \subseteq -59 .. 59

\* Together: what the page and a query's result say of the rows they stand for.
ResultIsHonest == TypeOK /\ TruncatedMeansMore /\ ResultShowsValues
=============================================================================
