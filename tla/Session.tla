------------------------------ MODULE Session ------------------------------
(***************************************************************************)
(* One database session under the commands of the bridge: AppState         *)
(* (crates/lithedb-core/src/state), the driver's pool, and the handlers of *)
(* the daemon and of the command line.  Commands of a session run one at a *)
(* time: the daemon holds the pool lock, the command line is a process per *)
(* command.  Between two waits of a command the server may change: it goes *)
(* down, and other clients create and drop databases.                      *)
(***************************************************************************)
EXTENDS Integers, Sequences, FiniteSets, SequencesExt

CONSTANTS
  NULL,
  Engines,
  Dbs,            \* names of databases, "postgres" among them
  MaxCommands,    \* bound on commands
  MaxChanges      \* bound on changes of the server

Pg     == INSTANCE PostgresDriver
MySql  == INSTANCE MySqlDriver
Sqlite == INSTANCE SqliteDriver

NoDb   == Pg!NoDb
Closed == "(closed)"

ASSUME SessionAssumption ==
  /\ Engines \subseteq {"postgres", "mysql", "sqlite"}
  /\ IsFiniteSet(Dbs) /\ "postgres" \in Dbs
  /\ {"", NoDb, Closed} \cap Dbs = {}        \* these are no names of databases
  /\ MaxCommands \in Nat /\ MaxChanges \in Nat

VARIABLES
  conn,      \* engine, configured database, databases the user may not open,
             \* and whether commands come by the daemon or the command line
  srv,       \* the server: up, its databases, changes so far
  pool,      \* driver.pool: the database it is opened in, or Closed
  dialed,    \* a new pool that is not in place
  old,       \* a replaced pool that is not closed
  driverDb,  \* driver.config.database, or Closed
  app,       \* active_config.database, or Closed without an active driver
  op,        \* the command
  pc,        \* where it is
  todo,      \* list-schema: databases left
  out,       \* its answer so far
  answer,    \* "ok" or "error"
  \* History of the command: the pool it found, what use_database came to, the
  \* databases its text ran in, and whether an attempt broke off or the server
  \* changed.
  home, used, ran, broke, quiet,
  count

session == <<pool, dialed, old, driverDb, app>>
command == <<op, todo, out, answer>>
history == <<home, used, ran, broke>>
vars == <<conn, srv, session, command, history, quiet, pc, count>>

Kinds == {"text", "row", "structure", "schema", "create", "drop", "test", "disconnect"}

-----------------------------------------------------------------------------
(* The server.                                                             *)

\* One table t per database, each with a definition of its own.
Column(name, type, notnull, pk, serial) ==
  [name |-> name, type |-> type, notnull |-> notnull, pk |-> pk, serial |-> serial]

Definition(db) ==
  IF db = "postgres"
  THEN [columns |-> <<Column("id", "integer", TRUE, TRUE, TRUE),
                      Column("a", "text", FALSE, FALSE, FALSE)>>,
        fks |-> <<>>,
        indexes |-> <<[name |-> "t_pkey", columns |-> <<"id">>, unique |-> TRUE,
                       primary |-> TRUE]>>]
  ELSE [columns |-> <<Column("a", "text", TRUE, TRUE, FALSE),
                      Column("b", "integer", TRUE, TRUE, FALSE),
                      Column("n", "integer", FALSE, FALSE, FALSE)>>,
        fks |-> <<[name |-> "f", table |-> "u",
                   pairs |-> <<<<"b", "x">>, <<"a", "y">>>>]>>,
        indexes |-> <<[name |-> "t_ba", columns |-> <<"b", "a">>, unique |-> FALSE,
                       primary |-> FALSE],
                      [name |-> "t_pkey", columns |-> <<"a", "b">>, unique |-> TRUE,
                       primary |-> TRUE]>>]

DefinitionNow ==
  [db \in Dbs \cup {"", NoDb, Closed} |->
     IF db \in srv.dbs THEN Definition(db) ELSE Pg!NoTable]

\* The table of the maintenance database is not in its public schema.
HasTables(db) == db \in srv.dbs /\ db # "postgres"

Place(database) ==
  CASE conn.engine = "postgres" -> Pg!connect_options(database)
    [] conn.engine = "mysql"    -> MySql!connect_options(database)
    [] OTHER                    -> Sqlite!connect_options(database)

\* A dial may succeed; it may fail at any time.
CanOpen(database) ==
  srv.up /\ Place(database) \in (srv.dbs \ conn.denied) \cup {NoDb}

CanRun == srv.up /\ pool \in srv.dbs \cup {NoDb}

Server ==
  /\ srv.changes < MaxChanges
  /\ \/ srv' = [srv EXCEPT !.up = ~@, !.changes = @ + 1]
     \/ \E db \in Dbs \ {"postgres"} :
          srv' = [srv EXCEPT !.dbs = IF db \in @ THEN @ \ {db} ELSE @ \cup {db},
                             !.changes = @ + 1]
  /\ quiet' = FALSE
  /\ UNCHANGED <<conn, session, command, history, pc, count>>

-----------------------------------------------------------------------------
Init ==
  /\ \E engine \in Engines :
       conn \in [engine : {engine},
                 configured : IF engine = "sqlite" THEN {"", "app"}
                              ELSE {"", "postgres", "app"},
                 denied : IF engine = "sqlite" THEN {{}} ELSE {{}, {"app"}},
                 mode : {"daemon", "cli"}]
  /\ srv = [up |-> TRUE, dbs |-> Dbs, changes |-> 0]
  /\ pool = Closed /\ dialed = Closed /\ old = Closed
  /\ driverDb = Closed /\ app = Closed
  /\ op = [kind |-> "disconnect", db |-> ""]
  /\ todo = <<>> /\ out = <<>> /\ answer = "ok"
  /\ home = Closed /\ used = "no" /\ ran = <<>> /\ broke = FALSE /\ quiet = TRUE
  /\ pc = "idle" /\ count = 0

\* Commands that name the database they are for.
Named(kind) == kind \in {"text", "row", "structure"}

\* Handlers call use_database for a command that names a database.
\* Faulty: fetches, writes and queries alike are left to the session.
After_Session(cmd) == IF cmd.db # "" /\ cmd.kind = "structure" THEN "use" ELSE cmd.kind

After(cmd) == IF cmd.db # "" /\ Named(cmd.kind) THEN "use" ELSE cmd.kind

Request(kind, db) ==
  /\ pc = "idle" /\ count < MaxCommands
  /\ op' = [kind |-> kind, db |-> db]
  /\ todo' = <<>> /\ out' = <<>> /\ answer' = "none"
  /\ home' = pool /\ used' = "no" /\ ran' = <<>> /\ broke' = FALSE
  /\ quiet' = TRUE
  /\ pc' = IF kind = "test" THEN "test"
           ELSE IF kind = "disconnect" THEN "leave"
           ELSE IF app = Closed THEN "connect"
           ELSE After([kind |-> kind, db |-> db])
  /\ count' = count + 1
  /\ UNCHANGED <<conn, srv, session>>

\* A command of the daemon: the session stays for the next one.
run_command(kind, db) == conn.mode = "daemon" /\ Request(kind, db)

\* A command line: it connects, runs and disconnects.
run_legacy(kind, db) ==
  conn.mode = "cli" /\ kind # "disconnect" /\ Request(kind, db)

-----------------------------------------------------------------------------
Answer(result) ==
  /\ answer' = result
  /\ pc' = IF conn.mode = "cli" /\ pool # Closed THEN "leave" ELSE "idle"

\* AppState::connect of a new session.
Connect ==
  /\ pc = "connect" /\ CanOpen(conn.configured)
  /\ conn.engine = "sqlite" => conn.configured # ""
  /\ pool' = Place(conn.configured)
  /\ driverDb' = IF conn.engine = "sqlite" THEN Closed ELSE conn.configured
  /\ app' = conn.configured
  /\ home' = pool'
  /\ pc' = After(op)
  /\ UNCHANGED <<conn, srv, dialed, old, command, used, ran, broke, quiet, count>>

ConnectFails ==
  /\ pc = "connect"
  /\ Answer("error")
  /\ UNCHANGED <<conn, srv, session, op, todo, out, history, quiet, count>>

\* AppState::disconnect.
Leave ==
  /\ pc = "leave"
  /\ pool' = Closed /\ driverDb' = Closed /\ app' = Closed
  /\ answer' = IF op.kind = "disconnect" THEN "ok" ELSE answer
  /\ pc' = "idle"
  /\ UNCHANGED <<conn, srv, dialed, old, op, todo, out, history, quiet, count>>

\* AppState::test_connection: a pool of its own, probed and closed.
TestDial ==
  /\ pc = "test" /\ CanOpen(conn.configured)
  /\ conn.engine = "sqlite" => conn.configured # ""
  /\ dialed' = Place(conn.configured)
  /\ pc' = "probe"
  /\ UNCHANGED <<conn, srv, pool, old, driverDb, app, command, history, quiet, count>>

Probe ==
  /\ pc = "probe"
  /\ dialed' = Closed
  /\ \E result \in {"ok", "error"} : answer' = result /\ (result = "ok" => srv.up)
  /\ pc' = "idle"
  /\ UNCHANGED <<conn, srv, pool, old, driverDb, app, op, todo, out, history,
                 quiet, count>>

TestFails ==
  /\ pc = "test"
  /\ answer' = "error" /\ pc' = "idle"
  /\ UNCHANGED <<conn, srv, session, op, todo, out, history, quiet, count>>

-----------------------------------------------------------------------------
(* use_database: dial, put the new pool in place, close the old one, then   *)
(* note the database in the driver and in AppState.                         *)

Wanted == IF op.kind = "schema" THEN Head(todo) ELSE op.db

UseDial ==
  /\ pc = "use"
  /\ IF conn.engine = "sqlite"
     THEN pc' = "note" /\ UNCHANGED dialed
     ELSE CanOpen(Wanted) /\ dialed' = Place(Wanted) /\ pc' = "swap"
  /\ UNCHANGED <<conn, srv, pool, old, driverDb, app, command, history, quiet, count>>

\* The error is ignored by the handlers, except by list-schema.
UseFails ==
  /\ pc = "use" /\ conn.engine # "sqlite"
  /\ IF op.kind = "schema"
     THEN Answer("error") /\ UNCHANGED used
     ELSE used' = "failed" /\ pc' = op.kind /\ UNCHANGED answer
  /\ UNCHANGED <<conn, srv, session, op, todo, out, home, ran, broke, quiet, count>>

UseSwap ==
  /\ pc = "swap"
  /\ old' = pool /\ pool' = dialed /\ dialed' = Closed
  /\ pc' = "close"
  /\ UNCHANGED <<conn, srv, driverDb, app, command, history, quiet, count>>

\* Faulty: the old pool is left open.
UseClose_KeepsPool ==
  /\ pc = "close"
  /\ driverDb' = Wanted
  /\ pc' = "note"
  /\ UNCHANGED <<conn, srv, pool, dialed, old, app, command, history, quiet, count>>

UseClose ==
  /\ pc = "close"
  /\ old' = Closed /\ driverDb' = Wanted
  /\ pc' = "note"
  /\ UNCHANGED <<conn, srv, pool, dialed, app, command, history, quiet, count>>

UseNote ==
  /\ pc = "note"
  /\ app' = Wanted /\ used' = "ok"
  /\ pc' = IF op.kind = "schema" THEN "tables" ELSE op.kind
  /\ UNCHANGED <<conn, srv, pool, dialed, old, driverDb, command, home, ran, broke,
                 quiet, count>>
-----------------------------------------------------------------------------
(* Statements.                                                             *)

\* Faulty: the end of the rows is taken for an error.
TextRuns_Again ==
  /\ pc = "text" /\ CanRun
  /\ ran' = Append(ran, pool)
  /\ pc' = "again"
  /\ UNCHANGED <<conn, srv, session, command, home, used, broke, quiet, count>>

\* execute_query: the text is run and its rows are read.
TextRuns ==
  /\ pc = "text" /\ CanRun
  /\ ran' = Append(ran, pool)
  /\ Answer("ok")
  /\ UNCHANGED <<conn, srv, session, op, todo, out, home, used, broke, quiet, count>>

\* The stream of rows breaks, before or after the text had its effect.
TextBreaks ==
  /\ pc = "text"
  /\ \/ CanRun /\ ran' = Append(ran, pool) /\ broke' = TRUE
     \/ UNCHANGED <<ran, broke>>
  /\ pc' = "again"
  /\ UNCHANGED <<conn, srv, session, command, home, used, quiet, count>>

\* The text is run again with execute, and that answer is final.
Again ==
  /\ pc = "again"
  /\ \/ CanRun /\ ran' = Append(ran, pool) /\ Answer("ok") /\ UNCHANGED broke
     \/ CanRun /\ ran' = Append(ran, pool) /\ Answer("error") /\ broke' = TRUE
     \/ Answer("error") /\ UNCHANGED <<ran, broke>>
  /\ UNCHANGED <<conn, srv, session, op, todo, out, home, used, quiet, count>>

\* Generated statements run once; the answer may be lost after the effect.
Row ==
  /\ pc = "row"
  /\ \/ CanRun /\ ran' = Append(ran, pool) /\ Answer("ok") /\ UNCHANGED broke
     \/ CanRun /\ ran' = Append(ran, pool) /\ Answer("error") /\ broke' = TRUE
     \/ Answer("error") /\ UNCHANGED <<ran, broke>>
  /\ UNCHANGED <<conn, srv, session, op, todo, out, home, used, quiet, count>>

\* list_columns, list_foreign_keys and list_indexes: without a name, the
\* database noted in AppState.
StructurePart(part) ==
  LET named == IF op.db = "" THEN app ELSE op.db
  IN  CASE conn.engine = "postgres" ->
             (CASE part = 1 -> Pg!list_columns(named, pool, DefinitionNow)
                [] part = 2 -> Pg!list_foreign_keys(named, pool, DefinitionNow)
                [] OTHER    -> Pg!list_indexes(named, pool, DefinitionNow))
        [] conn.engine = "mysql" ->
             (CASE part = 1 -> MySql!list_columns(named, pool, DefinitionNow)
                [] part = 2 -> MySql!list_foreign_keys(named, pool, DefinitionNow)
                [] OTHER    -> MySql!list_indexes(named, pool, DefinitionNow))
        [] OTHER ->
             (CASE part = 1 -> Sqlite!list_columns(named, pool, DefinitionNow)
                [] part = 2 -> Sqlite!list_foreign_keys(named, pool, DefinitionNow)
                [] OTHER    -> Sqlite!list_indexes(named, pool, DefinitionNow))

ReadStructure ==
  /\ pc = "structure" /\ CanRun
  /\ out' = Append(out, StructurePart(Len(out) + 1))
  /\ IF Len(out') = 3 THEN Answer("ok") ELSE UNCHANGED <<pc, answer>>
  /\ UNCHANGED <<conn, srv, session, op, todo, history, quiet, count>>

\* create_database and drop_database, in the session's own pool.
Legal ==
  CASE conn.engine = "postgres" ->
         IF op.kind = "create" THEN Pg!create_database(op.db, srv.dbs)
         ELSE Pg!drop_database(op.db, srv.dbs, pool)
    [] conn.engine = "mysql" ->
         IF op.kind = "create" THEN MySql!create_database(op.db, srv.dbs)
         ELSE MySql!drop_database(op.db, srv.dbs)
    [] OTHER -> FALSE

CreateOrDrop ==
  /\ pc \in {"create", "drop"} /\ CanRun /\ Legal
  /\ srv' = [srv EXCEPT !.dbs = IF pc = "create" THEN @ \cup {op.db} ELSE @ \ {op.db}]
  /\ Answer("ok")
  /\ UNCHANGED <<conn, session, op, todo, out, history, quiet, count>>

\* Reads, creations and drops that the server refuses, or cannot answer.
Fails ==
  /\ pc \in {"structure", "create", "drop", "schema", "tables"}
  /\ Answer("error")
  /\ UNCHANGED <<conn, srv, session, op, todo, out, history, quiet, count>>

-----------------------------------------------------------------------------
(* list-schema.                                                            *)

list_databases ==
  IF conn.engine = "postgres" THEN Pg!list_databases(srv.dbs)
  ELSE MySql!list_databases(srv.dbs)

\* The database whose tables are listed under a name.
list_tables(database) ==
  CASE conn.engine = "postgres" -> Pg!list_tables(database, driverDb)
    [] conn.engine = "mysql"    -> MySql!list_tables(database, pool)
    [] OTHER                    -> Sqlite!list_tables(database, pool)

\* PostgreSQL opens a pool for it, the others ask in the session's.
CanList(database) ==
  IF conn.engine = "postgres" THEN CanOpen(list_tables(database)) ELSE CanRun

Listed(database) == [database |-> database, from |-> list_tables(database)]

\* AppState::list_schema: the tables of the configured database, or the names
\* of all databases.  One database with tables is the whole answer.
list_schema ==
  /\ pc = "schema"
  /\ \/ /\ conn.engine = "sqlite" /\ CanRun
        /\ out' = <<Listed("main")>> /\ Answer("ok") /\ UNCHANGED todo
     \/ /\ conn.engine # "sqlite" /\ conn.configured = "" /\ CanRun
        /\ todo' = SetToSeq(list_databases) /\ pc' = "use" /\ UNCHANGED <<out, answer>>
     \/ /\ conn.engine # "sqlite" /\ conn.configured # "" /\ CanList(conn.configured)
        /\ IF HasTables(list_tables(conn.configured))
           THEN out' = <<Listed(conn.configured)>> /\ Answer("ok") /\ UNCHANGED todo
           ELSE todo' = <<conn.configured>> /\ pc' = "use" /\ UNCHANGED <<out, answer>>
  /\ UNCHANGED <<conn, srv, session, op, history, quiet, count>>

\* The handlers go on with the tables of one database after the other, the
\* session moving along.
\* Faulty: the database listed stays first in line.
handle_list_schema_Repeats ==
  /\ pc = "tables" /\ CanList(Head(todo))
  /\ pc' = "use"
  /\ UNCHANGED <<conn, srv, session, command, history, quiet, count>>

handle_list_schema ==
  /\ pc = "tables" /\ CanList(Head(todo))
  /\ out' = Append(out, Listed(Head(todo)))
  /\ todo' = Tail(todo)
  /\ IF todo' = <<>> THEN Answer("ok") ELSE pc' = "use" /\ UNCHANGED answer
  /\ UNCHANGED <<conn, srv, session, op, history, quiet, count>>

-----------------------------------------------------------------------------
Command ==
  \/ Connect \/ ConnectFails \/ Leave \/ TestDial \/ Probe \/ TestFails
  \/ UseDial \/ UseFails \/ UseSwap \/ UseClose \/ UseNote
  \/ TextRuns \/ TextBreaks \/ Again \/ Row
  \/ ReadStructure \/ CreateOrDrop \/ Fails
  \/ list_schema \/ handle_list_schema

DbOf(kind) ==
  IF Named(kind) THEN Dbs \cup {""}
  ELSE IF kind \in {"create", "drop"} THEN (Dbs \ {"postgres"}) \cup {""}
  ELSE {""}

Asked ==
  \E kind \in Kinds : \E db \in DbOf(kind) : run_command(kind, db) \/ run_legacy(kind, db)

Next == Asked \/ Command \/ Server

\* A command goes on: every wait for the server ends, if only with an error.
Spec == Init /\ [][Next]_vars /\ WF_vars(Command)

-----------------------------------------------------------------------------
(* Properties.                                                             *)

Places == Dbs \cup {NoDb, "", "main"}

\* Pools are open only while a session or a command has them.
TypeOK ==
  /\ {pool, dialed, old, driverDb, app, home} \subseteq Places \cup {Closed}
  /\ (pool = Closed) <=> (app = Closed)
  /\ driverDb # Closed => conn.engine # "sqlite" /\ pool # Closed
  /\ srv.dbs \subseteq Dbs /\ srv.changes \in 0 .. MaxChanges
  /\ answer \in {"none", "ok", "error"}
  /\ pc \in {"idle", "connect", "leave", "probe", "use", "swap", "close", "note",
             "again", "tables"} \cup Kinds
  /\ Range(ran) \subseteq Places /\ Len(ran) <= 2
  /\ count \in 0 .. MaxCommands

\* Between commands no pool is open but the session's, and none after a
\* command line (lifecycle.rs, use_database of the drivers, support.rs).
NoPoolLeft ==
  pc = "idle" =>
    /\ dialed = Closed /\ old = Closed
    /\ conn.mode = "cli" => pool = Closed

\* Between commands AppState and the driver agree on the database, and the
\* pool is opened in it: the next use_database, structure or list_tables that
\* starts from either starts from the same (lifecycle.rs use_database).
SessionAgrees ==
  (pc = "idle" /\ pool # Closed) =>
    IF conn.engine = "sqlite" THEN pool = conn.configured
    ELSE driverDb = app /\ pool = Place(app)

\* Together: the state a command leaves for the next one.
SessionIsSound == TypeOK /\ NoPoolLeft /\ SessionAgrees

\* A statement that names a database runs there and nowhere else, unless
\* use_database failed: then it runs where the session was, because the
\* handlers ignore the error (daemon.rs handle_execute_query and the others).
RunsWhereAsked ==
  \A i \in DOMAIN ran :
    IF op.db = "" \/ conn.engine = "sqlite" THEN ran[i] = home
    ELSE \/ used = "ok" /\ ran[i] = Place(op.db)
         \/ used = "failed" /\ ran[i] = home

\* Unless an attempt broke off after its effect, a statement answered "ok" ran
\* exactly once, and one answered "error" never: the second attempt of
\* execute_query does not repeat what the first one did.
OnceUnlessBroken ==
  (pc = "idle" /\ op.kind \in {"text", "row"} /\ ~broke) =>
    Len(ran) = IF answer = "ok" THEN 1 ELSE 0

\* list-schema shows under each name the tables of that database, whatever
\* database earlier statements left the session in; and all databases, if none
\* is configured and the server did not change meanwhile (handle_list_schema).
SchemaShowsServer ==
  (pc = "idle" /\ op.kind = "schema" /\ answer = "ok") =>
    /\ \A i \in DOMAIN out :
         out[i].from = IF conn.engine = "sqlite" THEN conn.configured
                       ELSE out[i].database
    /\ (conn.configured = "" /\ quiet) => {x.database : x \in Range(out)} = srv.dbs

\* The structure shown for a named database is that of its table: columns with
\* the flags row keys are built from, pairs of composite foreign keys, and the
\* columns of each index in order (handle_table_structure).  If use_database
\* failed the parts come from different databases, or none.  SQLite takes every
\* INTEGER column of a composite key for one the server fills in.
StructureIsTable ==
  (pc = "idle" /\ op.kind = "structure" /\ answer = "ok" /\ op.db # "" /\ quiet
     /\ (used = "ok" \/ conn.engine = "mysql")) =>
    LET def == DefinitionNow[IF conn.engine = "sqlite" THEN home ELSE op.db]
        auto(column) ==
          \/ column.serial
          \/ conn.engine = "sqlite" /\ column.pk /\ column.type = "integer"
    IN  /\ [i \in DOMAIN out[1] |-> [out[1][i] EXCEPT !.data_type = ""]]
             = [i \in DOMAIN def.columns |->
                  [name |-> def.columns[i].name, data_type |-> "",
                   nullable |-> ~def.columns[i].notnull,
                   is_primary_key |-> def.columns[i].pk,
                   auto_increment |-> auto(def.columns[i])]]
        /\ \A i \in DOMAIN def.fks : \A j \in DOMAIN def.fks[i].pairs :
             \E k \in DOMAIN out[2] :
               /\ <<out[2][k].column, out[2][k].referenced_column>> = def.fks[i].pairs[j]
               /\ j > 1 => /\ out[2][k - 1].name = out[2][k].name
                           /\ out[2][k - 1].column = def.fks[i].pairs[j - 1][1]
        /\ [i \in DOMAIN out[3] |-> <<out[3][i].columns, out[3][i].unique, out[3][i].primary>>]
             = [i \in DOMAIN def.indexes |-> <<def.indexes[i].columns,
                                              def.indexes[i].unique,
                                              def.indexes[i].primary>>]

\* Every command comes to an end, list-schema with any number of databases
\* too: with an answer, and the command line with its session closed.
CommandEnds == pc # "idle" ~> (pc = "idle" /\ answer # "none")
=============================================================================
