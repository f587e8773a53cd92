------------------------------ MODULE GtkWindow ------------------------------
(***************************************************************************)
(* The main window of the GTK program (src/ui/window) over its AppState.   *)
(* There is one active session for the whole window.  Every operation is a *)
(* future on the main loop: it looks at the window and AppState between    *)
(* its waits, and asks the driver in the tokio runtime during them.  Any   *)
(* other operation may come in at a wait.                                  *)
(***************************************************************************)
EXTENDS Integers, Sequences, FiniteSets, SequencesExt

CONSTANTS
  NULL,
  Conns,        \* connections, their ids and names
  Dbs,          \* databases of each of them
  ByName,       \* connections whose driver reads columns by database name
  Start,        \* the saved connections
  Configured,   \* their databases, "" for none
  Events,       \* what the user does
  MaxEvents,    \* bound on that
  MaxTasks,     \* bound on operations under way when the user acts
  MaxPage       \* last page of the table

Closed == "(closed)"

ASSUME GtkAssumption ==
  /\ NULL \notin Conns /\ ByName \subseteq Conns
  /\ {"", Closed} \cap Dbs = {} /\ Dbs # {}
  /\ Start \in Seq(Conns) /\ IsInjective(Start)
  /\ Configured \in [Conns -> Dbs \cup {""}]
  /\ {MaxEvents, MaxTasks, MaxPage} \subseteq Nat

VARIABLES
  saved,     \* AppState.connections
  app,       \* active_connection_id, active_driver, active_config.database
  drivers,   \* drivers made so far: connection, and database of the pool
  tasks,     \* futures, in the order they were spawned
  tab,       \* data tabs made so far
  tabs,      \* data_tabs: indices of tab
  pages,     \* pages of the notebook, the same in the order of the screen
  tree,      \* connection panel: what is under the row of a connection
  mark,      \* the connection the panel calls connected
  editor,    \* the selections of the query tab
  version,   \* writes to the table of each database
  \* History: the user moved a tab; switches of the session overlapped each
  \* other or a statement; a connect failed.
  moved, raced, failed,
  count

window == <<tab, tabs, pages>>
panel == <<tree, mark>>
vars == <<saved, app, drivers, tasks, window, panel, editor, version, moved, raced,
          failed, count>>

NoApp == [id |-> NULL, driver |-> 0, db |-> ""]
Place(did) == <<drivers[did].conn, drivers[did].pool>>

Task(kind) ==
  [kind |-> kind, pc |-> "start", conn |-> NULL, db |-> "", tab |-> 0, driver |-> 0,
   page |-> 0, sort |-> FALSE, id |-> NULL, nr |-> 0, from |-> NULL, parts |-> <<>>,
   version |-> 0]

-----------------------------------------------------------------------------
(* The connection panel.                                                   *)

Row(kind) == [kind |-> kind, dbs |-> <<>>]

\* set_connections: all rows anew, the active one loading.
Redrawn(id, list) ==
  [c \in Conns |->
     IF c \notin Range(list) THEN Row("absent")
     ELSE IF c = id THEN Row("loading") ELSE Row("plain")]

\* What is put under a connection whose row is gone is lost.
Under(rows, c, row) ==
  IF rows[c].kind = "absent" THEN rows ELSE [rows EXCEPT ![c] = row]

UnderDatabase(c, d, what) ==
  IF d \in DOMAIN tree[c].dbs THEN [tree EXCEPT ![c].dbs[d] = what] ELSE tree

\* refresh_list and refresh_schema_tree: the rows, and the task that fills
\* those of the active connection.
Refresh(state, list) ==
  /\ tree' = Redrawn(state.id, list)
  /\ mark' = state.id

SchemaTask(state, list) ==
  IF state.id \in Range(list)
  THEN <<[Task("schema") EXCEPT !.conn = state.id]>> ELSE <<>>

\* refresh_query_databases, with the database of the moment.
DatabasesTask(state) == <<[Task("databases") EXCEPT !.db = state.db]>>

\* refresh_query_connections: every query tab goes to the first connection.
FirstConnection(list) ==
  IF editor = NULL \/ list = <<>> THEN editor ELSE [editor EXCEPT !.conn = list[1]]

\* set_databases: the session's database, else the first.
Databases(current) ==
  IF editor = NULL THEN NULL
  ELSE [editor EXCEPT !.db = IF current \in Dbs THEN current
                             ELSE CHOOSE d \in Dbs : TRUE]

NoDatabases == IF editor = NULL THEN NULL ELSE [editor EXCEPT !.db = ""]

-----------------------------------------------------------------------------
(* Data tabs.                                                              *)

NewTab(c, d) ==
  [conn |-> c, db |-> d, page |-> 0, sort |-> FALSE, grid |-> "empty", shown |-> NULL,
   nr |-> 0, wrote |-> NULL, structure |-> <<>>]

IsTable(t) == tab[t].conn # NULL

\* load_table_data_into_tab: the grid after it, and the task.
Loading(t) ==
  [t EXCEPT !.grid = IF app.id = NULL THEN "error" ELSE "loading", !.nr = @ + 1]

LoadTask(n, t) ==
  IF app.id = NULL THEN <<>>
  ELSE <<[Task("load") EXCEPT !.tab = n, !.conn = t.conn, !.db = t.db, !.nr = t.nr + 1]>>

\* A tab with a change of its state is loaded again.
Reload(n, t) ==
  /\ tab' = [tab EXCEPT ![n] = Loading(t)]
  /\ tasks' = tasks \o LoadTask(n, t)

\* The page is removed, and the tab that has its number.
CloseAt(page) == pages' = RemoveAt(pages, page) /\ tabs' = RemoveAt(tabs, page)

\* close_data_tabs_for_connection: the numbers of its tabs, the last first.
Without(list, numbers) ==
  LET Upto[i \in 0 .. Len(list)] ==
        IF i = 0 THEN <<>>
        ELSE IF i \in numbers THEN Upto[i - 1]
        ELSE Append(Upto[i - 1], list[i])
  IN  Upto[Len(list)]

\* Faulty: the first first, so that the numbers of the others are off.
CloseFor_Forward(c) ==
  LET mine == {i \in DOMAIN tabs : tab[tabs[i]].conn = c}
      hit == {i + Cardinality({j \in mine : j < i}) : i \in mine} \cap DOMAIN tabs
  IN  tabs' = Without(tabs, hit) /\ pages' = Without(pages, hit)

CloseFor(c) ==
  LET mine == {i \in DOMAIN tabs : tab[tabs[i]].conn = c}
  IN  tabs' = Without(tabs, mine) /\ pages' = Without(pages, mine)

-----------------------------------------------------------------------------
Init ==
  /\ saved = Start
  /\ app = NoApp /\ drivers = <<>>
  /\ tasks = DatabasesTask(NoApp)
  /\ tab = <<>> /\ tabs = <<>> /\ pages = <<>>
  /\ tree = Redrawn(NULL, Start) /\ mark = NULL
  /\ editor = NULL
  /\ version = [p \in Conns \X Dbs |-> 0]
  /\ moved = FALSE /\ raced = FALSE /\ failed = FALSE
  /\ count = 0

-----------------------------------------------------------------------------
(* The user.  A dialog for a row is modal: until it is answered nothing     *)
(* else in the window is.                                                  *)

\* Faulty: the dialog is not modal.
Dialog_Ignored == FALSE

Dialog == \E i \in DOMAIN tasks : tasks[i].pc = "ask"

Does(event) ==
  /\ event \in Events /\ ~Dialog
  /\ Len(tasks) < MaxTasks /\ count < MaxEvents
  /\ count' = count + 1

connect_to_selected(c) ==
  /\ Does("connect") /\ c \in Range(saved) /\ app.id # c
  /\ tasks' = Append(tasks, [Task("connect") EXCEPT !.conn = c])
  /\ UNCHANGED <<saved, app, drivers, window, panel, editor, version, moved, failed>>

disconnect_active ==
  /\ Does("disconnect") /\ app.id # NULL
  /\ tasks' = Append(tasks, [Task("disconnect") EXCEPT !.conn = app.id])
  /\ UNCHANGED <<saved, app, drivers, window, panel, editor, version, moved, failed>>

\* remove_connection: the driver and its configuration stay.
delete_connection(c) ==
  /\ Does("delete") /\ c \in Range(saved)
  /\ saved' = Without(saved, {i \in DOMAIN saved : saved[i] = c})
  /\ app' = IF app.id = c THEN [app EXCEPT !.id = NULL] ELSE app
  /\ Refresh(app', saved') /\ editor' = FirstConnection(saved')
  /\ tasks' = tasks \o SchemaTask(app', saved')
  /\ UNCHANGED <<drivers, window, version, moved, failed>>

\* A connection is added, or changed under the session it has.
open_dialog(c) ==
  /\ Does("dialog")
  /\ saved' = IF c \in Range(saved) THEN saved ELSE Append(saved, c)
  /\ Refresh(app, saved') /\ editor' = FirstConnection(saved')
  /\ tasks' = tasks \o SchemaTask(app, saved')
  /\ UNCHANGED <<app, drivers, window, version, moved, failed>>

refresh_schema_tree ==
  /\ Does("refresh")
  /\ IF app.id = NULL THEN Refresh(app, saved)
     ELSE tree' = Under(tree, app.id, Row("loading")) /\ UNCHANGED mark
  /\ tasks' = tasks \o SchemaTask(app, saved)
  /\ UNCHANGED <<saved, app, drivers, window, editor, version, moved, failed>>

\* A database row is opened for the first time.
load_tables_for(c, d) ==
  /\ Does("expand") /\ app.id = c
  /\ d \in DOMAIN tree[c].dbs /\ tree[c].dbs[d] = <<"placeholder">>
  /\ tree' = [tree EXCEPT ![c].dbs[d] = <<"loading">>]
  /\ tasks' = Append(tasks, [Task("tables") EXCEPT !.conn = c, !.db = d])
  /\ UNCHANGED <<saved, app, drivers, window, mark, editor, version, moved, failed>>

\* A table row of the active connection: its tab, or a new one.
focus_or_open_table_tab(c, d) ==
  /\ Does("open") /\ app.id = c
  /\ d \in DOMAIN tree[c].dbs /\ tree[c].dbs[d][1] = "tables"
  /\ ~\E t \in Range(tabs) : tab[t].conn = c /\ tab[t].db = d
  /\ tab' = Append(tab, Loading(NewTab(c, d)))
  /\ tabs' = Append(tabs, Len(tab')) /\ pages' = Append(pages, Len(tab'))
  /\ tasks' = tasks \o LoadTask(Len(tab'), NewTab(c, d))
  /\ UNCHANGED <<saved, app, drivers, panel, editor, version, moved, failed>>

\* Until the first rows are shown both buttons work.
next_page_for(n) ==
  /\ Does("next") /\ n \in Range(pages) /\ IsTable(n)
  /\ tab[n].shown # NULL => tab[n].shown.page < MaxPage
  /\ tab[n].page < MaxPage
  /\ Reload(n, [tab[n] EXCEPT !.page = @ + 1])
  /\ UNCHANGED <<saved, app, drivers, tabs, pages, panel, editor, version, moved, failed>>

prev_page_for(n) ==
  /\ Does("prev") /\ n \in Range(pages) /\ IsTable(n)
  /\ tab[n].shown # NULL => tab[n].shown.page > 0
  /\ tab[n].page > 0
  /\ Reload(n, [tab[n] EXCEPT !.page = @ - 1])
  /\ UNCHANGED <<saved, app, drivers, tabs, pages, panel, editor, version, moved, failed>>

apply_sort_for(n) ==
  /\ Does("sort") /\ n \in Range(pages) /\ IsTable(n)
  /\ Reload(n, [tab[n] EXCEPT !.sort = TRUE, !.page = 0])
  /\ UNCHANGED <<saved, app, drivers, tabs, pages, panel, editor, version, moved, failed>>

\* F5 loads the tab that has the number of the page in front.
reload_active_data_tab(i) ==
  /\ Does("reload") /\ i \in DOMAIN tabs /\ IsTable(tabs[i])
  /\ Reload(tabs[i], tab[tabs[i]])
  /\ UNCHANGED <<saved, app, drivers, tabs, pages, panel, editor, version, moved, failed>>

close_data_tab(page) ==
  /\ Does("close") /\ page \in DOMAIN pages
  /\ CloseAt(page)
  /\ UNCHANGED <<saved, app, drivers, tasks, tab, panel, editor, version, moved, failed>>

\* The notebook lets the user drag a tab; nobody is told.
reorder(i, k) ==
  /\ Does("move") /\ {i, k} \subseteq DOMAIN pages /\ i < k
  /\ pages' = InsertAt(RemoveAt(pages, i), k, pages[i])
  /\ moved' = TRUE
  /\ UNCHANGED <<saved, app, drivers, tasks, tab, tabs, panel, editor, version, failed>>

load_table_structure_into_tab(n) ==
  /\ Does("structure") /\ n \in Range(pages) /\ IsTable(n)
  /\ app.id # NULL
  /\ tasks' = Append(tasks, [Task("structure") EXCEPT !.tab = n, !.db = tab[n].db])
  /\ UNCHANGED <<saved, app, drivers, window, panel, editor, version, moved, failed>>

\* To add a row none needs to be selected.
open_row_editor(n) ==
  /\ Does("row") /\ n \in Range(pages) /\ IsTable(n)
  /\ app.id # NULL
  /\ tasks' = Append(tasks, [Task("row") EXCEPT !.tab = n, !.db = tab[n].db])
  /\ UNCHANGED <<saved, app, drivers, window, panel, editor, version, moved, failed>>

\* The row is the one selected in the rows last shown, which a reload under way
\* or an error leaves selected.
confirm_delete_row(n) == tab[n].shown # NULL /\ open_row_editor(n)

create_query_tab ==
  /\ Does("query") /\ editor = NULL /\ saved # <<>>
  /\ editor' = [conn |-> saved[1], db |-> ""]
  /\ tasks' = tasks \o DatabasesTask(app)
  /\ UNCHANGED <<saved, app, drivers, window, panel, version, moved, failed>>

\* The selections of the user, and Run: into the tab for results.
run_query(c, d) ==
  /\ Does("query") /\ editor # NULL /\ c \in Range(saved)
  /\ d \in {editor.db} \cup (IF editor.db = "" THEN {} ELSE Dbs)
  /\ editor' = [conn |-> c, db |-> d]
  /\ LET open == {t \in Range(tabs) : ~IsTable(t)}
         n == IF open = {} THEN Len(tab) + 1 ELSE CHOOSE t \in open : TRUE
         nr == IF open = {} THEN 1 ELSE tab[n].nr + 1
     IN  /\ tab' = IF open = {}
                   THEN Append(tab, [NewTab(NULL, "") EXCEPT !.grid = "loading", !.nr = nr])
                   ELSE [tab EXCEPT ![n] = [@ EXCEPT !.grid = "loading", !.nr = nr]]
         /\ IF open = {} THEN tabs' = Append(tabs, n) /\ pages' = Append(pages, n)
            ELSE UNCHANGED <<tabs, pages>>
         /\ tasks' = Append(tasks, [Task("query") EXCEPT !.conn = c, !.db = d,
                                                         !.tab = n, !.nr = nr])
  /\ UNCHANGED <<saved, app, drivers, panel, version, moved, failed>>

-----------------------------------------------------------------------------
(* The futures.  One is first polled after those spawned before it.         *)

At(i, pc) == i \in DOMAIN tasks /\ tasks[i].pc = pc
Starts(i, kinds) ==
  /\ At(i, "start") /\ tasks[i].kind \in kinds
  /\ \A j \in 1 .. i - 1 : tasks[j].pc # "start"

Goes(i, task) == tasks' = [tasks EXCEPT ![i] = task]
Ends(i, new) == tasks' = RemoveAt(tasks, i) \o new

Same == UNCHANGED <<saved, version, moved>>

\* Faulty: an error of the schema is not shown.
Fails_LeavesTree(i) ==
  /\ IF tasks[i].kind \in {"load", "query"}
     THEN tab' = [tab EXCEPT ![tasks[i].tab].grid = "error"] ELSE UNCHANGED tab
  /\ editor' = IF tasks[i].kind = "databases" THEN NoDatabases ELSE editor
  /\ failed' = (failed \/ tasks[i].pc = "dial")
  /\ Ends(i, <<>>)
  /\ UNCHANGED <<saved, app, drivers, tabs, pages, panel, version, moved>>

\* An error goes to the grid of the task's tab, or under its row.
Fails(i) ==
  /\ IF tasks[i].kind \in {"load", "query"}
     THEN tab' = [tab EXCEPT ![tasks[i].tab].grid = "error"] ELSE UNCHANGED tab
  /\ tree' = CASE tasks[i].kind = "schema" -> Under(tree, tasks[i].conn, Row("error"))
               [] tasks[i].kind = "tables" -> UnderDatabase(tasks[i].conn, tasks[i].db, <<"error">>)
               [] OTHER -> tree
  /\ editor' = IF tasks[i].kind = "databases" THEN NoDatabases ELSE editor
  /\ failed' = (failed \/ tasks[i].pc = "dial")
  /\ Ends(i, <<>>)
  /\ UNCHANGED <<saved, app, drivers, tabs, pages, mark, version, moved>>

\* The driver of a call is the active one when the call is made.
Calls(i, task, driver) ==
  IF driver = 0 THEN Fails(i)
  ELSE /\ Goes(i, [task EXCEPT !.pc = "run", !.driver = driver])
       /\ UNCHANGED <<saved, app, drivers, window, panel, editor, version, moved, failed>>

\* A load or a query goes to its database first, unless AppState says that the
\* session is in it.
InDatabase(task, state) == task.db = "" \/ (state.driver # 0 /\ state.db = task.db)

Work(task, state) ==
  [task EXCEPT !.pc = IF InDatabase(task, state) THEN "run" ELSE "swap",
               !.driver = state.driver, !.id = state.id]

\* AppState::connect.  The session there was is dropped first.
Connects(i) ==
  /\ app' = NoApp
  /\ Goes(i, [tasks[i] EXCEPT !.pc = IF app.driver = 0 THEN "dial" ELSE "leave",
                              !.driver = app.driver])
  /\ UNCHANGED <<drivers, window, panel, editor, failed>> /\ Same

StartConnect(i) == Starts(i, {"connect"}) /\ Connects(i)

\* Faulty: any session will do.
StartQuery_AnySession(i) ==
  /\ Starts(i, {"query"})
  /\ IF app.driver = 0 THEN Connects(i)
     ELSE /\ Goes(i, Work(tasks[i], app))
          /\ UNCHANGED <<app, drivers, window, panel, editor, failed>> /\ Same

\* run_query: connects unless its connection is the active one.
StartQuery(i) ==
  /\ Starts(i, {"query"})
  /\ IF app.id # tasks[i].conn THEN Connects(i)
     ELSE /\ Goes(i, Work(tasks[i], app))
          /\ UNCHANGED <<app, drivers, window, panel, editor, failed>> /\ Same

\* The page and the order are those of the tab by now.
StartLoad(i) ==
  /\ Starts(i, {"load"})
  /\ LET t == tab[tasks[i].tab]
     IN  IF app.driver = 0 THEN Fails(i)
         ELSE /\ Goes(i, [Work(tasks[i], app) EXCEPT !.page = t.page, !.sort = t.sort])
              /\ UNCHANGED <<app, drivers, window, panel, editor, failed>> /\ Same

\* list_schema, list_tables_for, list_columns and the row operations.
StartCall(i) ==
  /\ Starts(i, {"schema", "tables", "structure", "row", "write"})
  /\ Calls(i, IF tasks[i].kind = "schema"
              THEN [tasks[i] EXCEPT !.db = IF app.id \in Range(saved)
                                           THEN Configured[app.id] ELSE app.db]
              ELSE tasks[i],
           app.driver)

\* refresh_query_databases.
StartDatabases(i) ==
  /\ Starts(i, {"databases"})
  /\ Calls(i, tasks[i], IF app.id = NULL THEN 0 ELSE app.driver)

\* AppState::disconnect, and what disconnect_active does afterwards.
Disconnected(i) ==
  /\ Refresh(NoApp, saved)
  /\ CloseFor(tasks[i].conn)
  /\ Ends(i, DatabasesTask(NoApp))
  /\ UNCHANGED <<tab, editor, failed>> /\ Same

StartDisconnect(i) ==
  /\ Starts(i, {"disconnect"})
  /\ app' = NoApp
  /\ IF app.driver = 0
     THEN Disconnected(i) /\ UNCHANGED drivers
     ELSE /\ Goes(i, [tasks[i] EXCEPT !.pc = "leave", !.driver = app.driver])
          /\ UNCHANGED <<drivers, window, panel, editor, failed>> /\ Same

\* The pool is closed.  Who disconnects goes on with the window as it is then.
Leave(i) ==
  /\ At(i, "leave")
  /\ drivers' = [drivers EXCEPT ![tasks[i].driver].pool = Closed]
  /\ UNCHANGED app
  /\ IF tasks[i].kind = "disconnect"
     THEN /\ Refresh(app, saved)
          /\ CloseFor(tasks[i].conn)
          /\ Ends(i, SchemaTask(app, saved) \o DatabasesTask(app))
          /\ UNCHANGED <<tab, editor, failed>> /\ Same
     ELSE /\ Goes(i, [tasks[i] EXCEPT !.pc = "dial"])
          /\ UNCHANGED <<window, panel, editor, failed>> /\ Same

\* The new session is in place; the panel and the query tabs are refreshed.
Dial(i) ==
  /\ At(i, "dial")
  /\ LET c == tasks[i].conn
         state == [id |-> c, driver |-> Len(drivers) + 1, db |-> Configured[c]]
         new == SchemaTask(state, saved) \o DatabasesTask(state)
     IN  /\ drivers' = Append(drivers, [conn |-> c, pool |-> Configured[c]])
         /\ app' = state
         /\ Refresh(state, saved)
         /\ IF tasks[i].kind = "connect" THEN Ends(i, new)
            ELSE tasks' = [tasks EXCEPT ![i] = Work(@, state)] \o new
  /\ UNCHANGED <<window, editor, failed>> /\ Same

\* use_database of the driver: a new pool takes the place of the old one, or of
\* none when the driver was disconnected while the new one was opened.
Swap(i) ==
  /\ At(i, "swap")
  /\ drivers' = [drivers EXCEPT ![tasks[i].driver].pool = tasks[i].db]
  /\ Goes(i, [tasks[i] EXCEPT !.pc = "note"])
  /\ UNCHANGED <<app, window, panel, editor, failed>> /\ Same

\* AppState::use_database notes it, for whichever session is active by then, and
\* the query tabs are refreshed; the statement goes to that session.
\* Faulty: nothing is noted.
Note_Forgets(i) ==
  /\ At(i, "note")
  /\ tasks' = [tasks EXCEPT ![i] = [@ EXCEPT !.pc = "run", !.driver = app.driver]]
               \o DatabasesTask(app)
  /\ UNCHANGED <<app, drivers, window, panel, editor, failed>> /\ Same

Note(i) ==
  /\ At(i, "note")
  /\ app' = IF app.driver = 0 THEN app ELSE [app EXCEPT !.db = tasks[i].db]
  /\ tasks' = [tasks EXCEPT ![i] = [@ EXCEPT !.pc = "run", !.driver = app.driver]]
               \o DatabasesTask(app')
  /\ UNCHANGED <<drivers, window, panel, editor, failed>> /\ Same

-----------------------------------------------------------------------------
(* The driver's answers.                                                   *)

Pool(i) == IF tasks[i].driver = 0 THEN Closed ELSE drivers[tasks[i].driver].pool
Answers(i, kinds) ==
  /\ At(i, "run") /\ tasks[i].kind \in kinds /\ Pool(i) # Closed
  /\ UNCHANGED <<app, drivers, window, panel, editor, failed, saved, moved>>

\* The place a catalog read is about.
Named(i) ==
  IF drivers[tasks[i].driver].conn \in ByName
  THEN <<drivers[tasks[i].driver].conn, tasks[i].db>> ELSE Place(tasks[i].driver)

\* A statement runs in the pool that is there by then.
Runs(i) ==
  /\ Answers(i, {"load", "query"})
  /\ tasks[i].kind = "load" => Pool(i) # ""
  /\ Goes(i, [tasks[i] EXCEPT !.pc = "show", !.from = Place(tasks[i].driver),
                !.version = IF Pool(i) = "" THEN 0 ELSE version[Place(tasks[i].driver)]])
  /\ UNCHANGED version

\* insert_row, update_row and delete_row.
Writes(i) ==
  /\ Answers(i, {"write"}) /\ Pool(i) # ""
  /\ version' = [version EXCEPT ![Place(tasks[i].driver)] = @ + 1]
  /\ Goes(i, [tasks[i] EXCEPT !.pc = "show", !.parts = Append(@, Place(tasks[i].driver)),
                              !.version = version'[Place(tasks[i].driver)]])

\* list_columns, for the dialog of a row.
ReadsColumns(i) ==
  /\ Answers(i, {"row"})
  /\ Goes(i, [tasks[i] EXCEPT !.pc = "show", !.parts = Append(@, Named(i))])
  /\ UNCHANGED version

\* list_columns, list_foreign_keys and list_indexes, one after the other, each
\* to the driver that is active when its turn comes.  Errors of the last two are
\* taken for empty lists.
ReadsStructure(i) ==
  /\ At(i, "run") /\ tasks[i].kind = "structure"
  /\ \E part \in {NULL, IF Pool(i) = Closed THEN NULL ELSE Named(i)} :
       /\ part = NULL => tasks[i].parts # <<>>
       /\ Goes(i, [tasks[i] EXCEPT !.parts = Append(@, part), !.driver = app.driver,
                                   !.pc = IF Len(tasks[i].parts) = 2 THEN "show" ELSE "run"])
  /\ UNCHANGED <<app, drivers, window, panel, editor, failed>> /\ Same

\* An error of the server, at any call; a write may have had its effect.
CallFails(i) ==
  \/ /\ i \in DOMAIN tasks
     /\ tasks[i].pc \in {"dial", "swap", "run"}
     /\ tasks[i].kind = "structure" => tasks[i].parts = <<>>
     /\ Fails(i)
  \/ /\ At(i, "run") /\ tasks[i].kind = "write" /\ Pool(i) \notin {Closed, ""}
     /\ version' = [version EXCEPT ![Place(tasks[i].driver)] = @ + 1]
     /\ Ends(i, <<>>)
     /\ UNCHANGED <<saved, app, drivers, window, panel, editor, moved, failed>>

-----------------------------------------------------------------------------
(* The answers are shown, in the window as it is by then.                  *)

Shows(i, kinds) == At(i, "show") /\ tasks[i].kind \in kinds

\* What is remembered of an answer.
Shown(task) ==
  [conn |-> task.conn, db |-> task.db, id |-> task.id, page |-> task.page,
   sort |-> task.sort, nr |-> task.nr, from |-> task.from, version |-> task.version]

\* set_page_data.
ShowRows(i) ==
  /\ Shows(i, {"load", "query"})
  /\ tab' = [tab EXCEPT ![tasks[i].tab] = [@ EXCEPT !.grid = "rows", !.shown = Shown(tasks[i])]]
  /\ Ends(i, <<>>)
  /\ UNCHANGED <<app, drivers, tabs, pages, panel, editor, failed>> /\ Same

\* A write that succeeded loads the tab again.
\* Faulty: it does not.
ShowWritten_NoReload(i) ==
  /\ Shows(i, {"write"})
  /\ tab' = [tab EXCEPT ![tasks[i].tab].wrote =
                         [parts |-> tasks[i].parts, version |-> tasks[i].version]]
  /\ Ends(i, <<>>)
  /\ UNCHANGED <<app, drivers, tabs, pages, panel, editor, failed>> /\ Same

ShowWritten(i) ==
  /\ Shows(i, {"write"})
  /\ LET n == tasks[i].tab
         t == [tab[n] EXCEPT !.wrote = [parts |-> tasks[i].parts,
                                           version |-> tasks[i].version]]
     IN  /\ tab' = [tab EXCEPT ![n] = Loading(t)]
         /\ Ends(i, LoadTask(n, t))
  /\ UNCHANGED <<app, drivers, tabs, pages, panel, editor, failed>> /\ Same

\* A list is the same whenever it is made: its answer is shown at once.
Lists(i, kind) == At(i, "run") /\ tasks[i].kind = kind /\ Pool(i) # Closed

\* set_connection_databases for a connection saved without a database, else
\* set_connection_schema.
SchemaRow(task) ==
  LET browse_all == task.conn \in Range(saved) /\ Configured[task.conn] = ""
      names == IF task.db = "" THEN Dbs ELSE {task.db}
      under(d) == IF browse_all THEN <<"placeholder">>
                  ELSE IF task.db = "" THEN <<"empty">>
                  ELSE <<"tables", <<drivers[task.driver].conn, d>>>>
  IN  [kind |-> "rows", dbs |-> [d \in names |-> under(d)]]

\* list_schema: the tables of the database the connection is saved with, or the
\* names of all.
ShowSchema(i) ==
  /\ Lists(i, "schema")
  /\ tree' = Under(tree, tasks[i].conn, SchemaRow(tasks[i]))
  /\ Ends(i, <<>>)
  /\ UNCHANGED <<app, drivers, window, mark, editor, failed>> /\ Same

\* list_tables_for and set_tables_for.
ShowTables(i) ==
  /\ Lists(i, "tables")
  /\ tree' = UnderDatabase(tasks[i].conn, tasks[i].db,
                <<"tables", <<drivers[tasks[i].driver].conn, tasks[i].db>>>>)
  /\ Ends(i, <<>>)
  /\ UNCHANGED <<app, drivers, window, mark, editor, failed>> /\ Same

ShowDatabases(i) ==
  /\ Lists(i, "databases")
  /\ editor' = Databases(tasks[i].db)
  /\ Ends(i, <<>>)
  /\ UNCHANGED <<app, drivers, window, panel, failed>> /\ Same

ShowStructure(i) ==
  /\ Shows(i, {"structure"})
  /\ tab' = [tab EXCEPT ![tasks[i].tab].structure = tasks[i].parts]
  /\ Ends(i, <<>>)
  /\ UNCHANGED <<app, drivers, tabs, pages, panel, editor, failed>> /\ Same

\* The row editor, or the question whether to delete.
ShowDialog(i) ==
  /\ Shows(i, {"row"})
  /\ Goes(i, [tasks[i] EXCEPT !.pc = "ask"])
  /\ UNCHANGED <<app, drivers, window, panel, editor, failed>> /\ Same

Accept(i) ==
  /\ At(i, "ask")
  /\ Ends(i, <<[Task("write") EXCEPT !.tab = tasks[i].tab, !.parts = tasks[i].parts]>>)
  /\ UNCHANGED <<app, drivers, window, panel, editor, failed, count>> /\ Same

Cancel(i) ==
  /\ At(i, "ask")
  /\ Ends(i, <<>>)
  /\ UNCHANGED <<app, drivers, window, panel, editor, failed, count>> /\ Same

-----------------------------------------------------------------------------
User ==
  \/ \E c \in Conns : connect_to_selected(c) \/ delete_connection(c) \/ open_dialog(c)
  \/ disconnect_active \/ refresh_schema_tree \/ create_query_tab
  \/ \E c \in Conns, d \in Dbs : load_tables_for(c, d) \/ focus_or_open_table_tab(c, d)
  \/ \E c \in Conns, d \in Dbs \cup {""} : run_query(c, d)
  \/ \E n \in DOMAIN tab :
       \/ next_page_for(n) \/ prev_page_for(n) \/ apply_sort_for(n)
       \/ load_table_structure_into_tab(n) \/ open_row_editor(n) \/ confirm_delete_row(n)
  \/ \E i \in DOMAIN tabs :
       \/ reload_active_data_tab(i) \/ close_data_tab(i)
       \/ \E k \in DOMAIN tabs : reorder(i, k)

Future(i) ==
  \/ StartConnect(i) \/ StartQuery(i) \/ StartLoad(i) \/ StartCall(i)
  \/ StartDatabases(i) \/ StartDisconnect(i)
  \/ Leave(i) \/ Dial(i) \/ Swap(i) \/ Note(i)
  \/ Runs(i) \/ Writes(i) \/ ReadsColumns(i) \/ ReadsStructure(i)
  \/ CallFails(i)
  \/ ShowRows(i) \/ ShowWritten(i) \/ ShowSchema(i) \/ ShowTables(i)
  \/ ShowDatabases(i) \/ ShowStructure(i) \/ ShowDialog(i)

\* History.  Pools and AppState's note of them are changed at "leave", "dial",
\* "swap" and "note"; a dialog must not open over an operation that will.
Switching(task) == task.pc \in {"leave", "dial", "swap", "note"}
Using(task) ==
  \/ task.pc = "run" /\ task.kind \in {"load", "query", "write", "row", "structure"}
  \/ task.pc = "show" /\ task.kind = "row"

\* Its row was chosen when it was spawned, its driver will be when it starts.
Listing(task) == task.pc = "start" /\ task.kind \in {"schema", "tables"}

Races(list) ==
  \/ \E i, j \in DOMAIN list :
       i # j /\ Switching(list[i])
         /\ (Switching(list[j]) \/ Using(list[j]) \/ Listing(list[j]))
  \/ /\ Cardinality({i \in DOMAIN list : list[i].pc = "ask"})
          > Cardinality({i \in DOMAIN tasks : tasks[i].pc = "ask"})
     /\ Cardinality({i \in DOMAIN list : list[i].kind \in
          {"connect", "disconnect", "load", "query", "row", "write"}}) > 1

Noted == raced' = (raced \/ Races(tasks'))

Runtime == \E i \in DOMAIN tasks : Future(i) /\ UNCHANGED count /\ Noted

Next ==
  \/ User /\ Noted
  \/ Runtime
  \/ \E i \in DOMAIN tasks : (Accept(i) \/ Cancel(i)) /\ Noted

\* Futures are polled and the driver's calls end, if only with an error.
Spec == Init /\ [][Next]_vars /\ WF_vars(Runtime)

-----------------------------------------------------------------------------
(* Properties.                                                             *)

TypeOK ==
  /\ Range(saved) \subseteq Conns /\ IsInjective(saved)
  /\ app.id \in Conns \cup {NULL} /\ app.driver \in 0 .. Len(drivers)
  /\ \A i \in DOMAIN drivers : drivers[i].pool \in Dbs \cup {"", Closed}
  /\ \A i \in DOMAIN tasks :
       tasks[i].pc \in {"start", "leave", "dial", "swap", "note", "run", "show", "ask"}
  /\ Range(tabs) \cup Range(pages) \subseteq DOMAIN tab
  /\ \A n \in DOMAIN tab :
       /\ tab[n].grid \in {"empty", "loading", "error", "rows"}
       /\ tab[n].page \in 0 .. MaxPage
  /\ count \in 0 .. MaxEvents

\* Whatever operations overlap, the active id is that of the active driver, and
\* without a driver no database is noted (lifecycle.rs sets them under one lock).
ActiveIsOne ==
  /\ app.id # NULL => app.driver # 0 /\ drivers[app.driver].conn = app.id
  /\ app.driver = 0 => app = NoApp

\* Unless switches of the session overlapped, the database AppState notes is the
\* one the driver's pool is in: the next load trusts it instead of switching
\* (data_tabs.rs load_table_data_into_tab, current_pool_database).
NoteIsTrue ==
  (~raced /\ app.driver # 0 /\ ~\E i \in DOMAIN tasks : tasks[i].pc = "note") =>
    app.db = drivers[app.driver].pool

\* Rows under a connection are its own unless switches overlapped.
TreeIsOwn ==
  ~raced =>
    \A c \in Conns : \A d \in DOMAIN tree[c].dbs :
      tree[c].dbs[d][1] = "tables" => tree[c].dbs[d][2] = <<c, d>>

\* At rest the connection the panel calls connected is, unless a connect failed
\* that had dropped it (schema.rs connect_to_selected refreshes on success only).
MarkIsActive ==
  (tasks = <<>> /\ ~failed) => mark = app.id

\* Together: what AppState and the connection panel say of the session.
SessionIsOne == TypeOK /\ ActiveIsOne /\ NoteIsTrue /\ TreeIsOwn /\ MarkIsActive

\* Every loading ends, in the panel and in a grid: overlapping operations,
\* errors, a disconnect or a deleted connection leave none behind (set_loading,
\* set_connection_loading).  The user does only so much, so all end together.
Loads ==
  \/ \E c \in Conns : tree[c].kind = "loading"
  \/ \E n \in DOMAIN tab : tab[n].grid = "loading"

LoadingEnds == Loads ~> ~Loads

\* A grid that loads has an operation under way that will end it, also when its
\* tab is closed meanwhile.
LoadingIsLoaded ==
  \A n \in DOMAIN tab :
    tab[n].grid = "loading" =>
      \E i \in DOMAIN tasks : tasks[i].tab = n /\ tasks[i].kind \in {"load", "query"}

AtRest(n) == \A i \in DOMAIN tasks : tasks[i].tab # n

\* At rest a table tab that shows the answer of its last load shows the page and
\* order it is on, also when pages were asked for before their loads began.
\* An answer overtaken by an older one is shown under the newer page (nr).
ShowsItsPage ==
  \A n \in DOMAIN tab :
    (AtRest(n) /\ IsTable(n) /\ tab[n].grid = "rows" /\ tab[n].shown.nr = tab[n].nr) =>
      tab[n].shown.page = tab[n].page /\ tab[n].shown.sort = tab[n].sort

\* Unless switches overlapped it, a load shows its database and a query ran in
\* the connection and database selected.  The connection of a load is the one
\* that was active when it began, NULL if deleted: it need not be the tab's.
ShowsItsPlace ==
  \A n \in DOMAIN tab :
    (~raced /\ tab[n].shown # NULL) =>
      LET shown == tab[n].shown
      IN  /\ IF IsTable(n) THEN shown.id \in {NULL, shown.from[1]}
             ELSE shown.from[1] = shown.conn
          /\ shown.db # "" => shown.from[2] = shown.db

\* At rest, what a tab shows after a write from it was read after the write.
ShowsItsWrite ==
  \A n \in DOMAIN tab :
    (AtRest(n) /\ tab[n].grid = "rows" /\ tab[n].wrote # NULL
       /\ tab[n].shown.nr = tab[n].nr /\ tab[n].shown.from = tab[n].wrote.parts[2]) =>
      tab[n].shown.version >= tab[n].wrote.version

\* Together: what a grid shows is the answer of its own last operation.
GridIsTrue == LoadingIsLoaded /\ ShowsItsPage /\ ShowsItsPlace /\ ShowsItsWrite

\* The table a write changes is the one its columns and keys were read from:
\* while the dialog is open nothing can switch the session, unless an operation
\* that will was under way when it opened (crud.rs open_row_editor, submit).
WritesWhatItRead ==
  \A n \in DOMAIN tab :
    (~raced /\ tab[n].wrote # NULL) =>
      LET place == tab[n].wrote.parts
      IN  place[1] = IF place[2][1] \in ByName THEN <<place[2][1], tab[n].db>> ELSE place[2]

\* Unless the user moved a tab, tabs and pages keep the same numbers whatever is
\* closed, one by one or with its connection, and when a disconnect ends no page
\* of its connection is left (data_tabs.rs attach_data_tab, close_data_tabs_for_connection).
Leaving(list, c) ==
  Cardinality({i \in DOMAIN list : list[i].kind = "disconnect" /\ list[i].conn = c})

ClosingIsExact ==
  [][~moved' =>
       /\ pages' = tabs'
       /\ \A c \in Conns : Leaving(tasks', c) < Leaving(tasks, c) =>
            \A n \in Range(pages') : tab'[n].conn # c]_vars
=============================================================================
