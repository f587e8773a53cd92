# LitheDB: verification development

TLA+ models of LitheDB, a desktop database client. The Qt front end
(`apps/lithedb-qt`) starts one bridge process (`crates/lithedb-bridge`, daemon
mode) and talks to it in JSON lines; the bridge keeps database sessions open
through `crates/lithedb-core`. The same binary run with a command does one
thing and ends; the legacy GTK front end (`src/`) does all of it in one
process. Paths below are relative to the repository.

## 1. Inventory

| Component | State | Operations | Hard parts |
|---|---|---|---|
| Bridge daemon, `lithedb-bridge/src/daemon.rs` | `ConnectionPool.entries` (session and last use per connection), `CancelRegistry.flags`, worker count, worker/helper/reaper threads | one command per input line: connect-, cancel-, disconnect-, save-, delete-, list-, test-connection, nine statements, exit | a thread per request; one pool lock held through dials and statements; cancellation of a blocked dial; idle eviction; drain and exit |
| AppState and drivers, `lithedb-core/src/{state,db}` | one driver per session and its current database | connect, disconnect, use_database, schema listing, queries, row writes | a session shared by statements that each want their database; partial failure of a statement |
| Connection store, `lithedb-core/src/config` | `connections.json`, keyring, fallback secrets file, settings | load, save, store/load/delete password | unlocked read-modify-write by concurrent workers, non-atomic file writes, two places for one password |
| Bridge client, `lithedb-qt/src/bridge_client.cpp` | process, read buffer, pending callbacks by id | ensure_started, send_command, on_ready_read, on_process_finished, stop | process death with commands pending, callbacks that re-enter the client, answers in any order |
| Main window: connections, `mainwindow_connections.cpp` | loading and connected sets, tree rows, current selection | connect, disconnect/cancel, delete, load schema, create/drop database | replies that arrive after the user moved on |
| Main window: tables, `mainwindow_table.cpp` | one page per open table, current_* members | fetch page, structure, insert/edit/duplicate/delete row, inline commit | answers out of order, callbacks reading current_* |
| Query tabs, `mainwindow_query.cpp` | page per query | execute | answer after the tab changed |
| Result model and inline editing, `result_table_model.cpp`, `table_data_widget.cpp`, `table_model_utils.cpp` | rows, pending payload, the row under edit with its originals | progressive load, edit, commit, revert, key building | timers interleaved with edits; failed writes; keys built from shown texts |
| Command line, `lithedb-bridge/src/{main,commands,support}` | none that outlives a call, but the files and the server are shared | the daemon's commands, one per process | runs beside daemons and windows on the same files |
| Legacy GTK front end, `src/` | `AppStateInner`, `data_tabs`, connection panel, query tab | connect, browse, tabs, pages, queries, row writes | futures that wait while the user goes on, one session for all tabs |
| Dialogs, theme, packaging | fields of a form | | not modelled beyond what opening and accepting them does |

Interaction: the front end sends a request line per user action and keeps a
callback; the daemon answers each line once, in any order; the callback changes
the window's state. Inside the daemon, requests meet in the pool (one mutex)
and in the cancel registry. The store is read and written by daemon workers.

What makes each correct, in short: *daemon* - a pooled session is open and is
never closed under a statement, a cancelled attempt never stays pooled, no
session is forgotten, every request is answered, exit ends; *drivers* - a
statement runs in the database it was meant for; *store* - no saved connection
or password is lost; *client* - every command's callback runs exactly once;
*window* - an answer is shown where it was asked for, or not at all; *grid* - its
rows are of one answer and a write reaches the row the user chose; *GTK window* -
AppState, pool and panel agree on the session. `PROJECT.json` lists the hazards
line by line.

## 2. Modules

| Module | Models |
|---|---|
| `Daemon` | `daemon.rs`: requests, threads, pool lock, cancel registry, sessions, eviction, exit |
| `SessionPool` | abstract specification: what the daemon promises about sessions, without threads, lock, flags and timers |
| `MCDaemon` | instances of `Daemon` for TLC |
| `DaemonProofs` | inductive invariant of `Daemon` and the theorems below; proof that `Daemon` implements `SessionPool` |
| `BridgeClient`, `BridgeClientProofs` | the Qt bridge client: pending commands, partial lines, death and restart of the bridge | `bridge_client.cpp` |
| `ConnectionUi`, `MCConnectionUi`, `ConnectionUiProofs` | the connection side of the Qt main window | `mainwindow_connections.cpp`, `refresh_schema` in `mainwindow_chrome.cpp` |
| `SqlRows`, `PostgresDriver`, `MySqlDriver`, `SqliteDriver` | generated row statements, pages and results of the drivers, as operators; the server's reading of a statement | `db/driver.rs`, `db/*/mod.rs`, `db/*/value.rs` |
| `RowEdit`, `MCRowEdit` | a table page over the drivers: what is shown is sent back as keys and values | `daemon.rs` row handlers, `data_ops.rs`, `commands/crud.rs`, `mainwindow_table.cpp` |
| `RowEditProofs` | the statements of the drivers follow their cells; inductive invariant and theorems of `RowEdit` | |
| `Catalog`, `Session`, `SessionProofs` | one session: pool, current database in driver and AppState, commands of the daemon and the command line over a changing server | `lifecycle.rs`, `data_ops.rs`, `db/*/mod.rs`, `db/*/pool.rs`, `daemon.rs` handlers, `commands/*.rs`, `support.rs` |
| `ConnectionStore`, `MCConnectionStore`, `ConnectionStoreProofs` | connections.json and the keyring under several processes, crashes and outages | `config/connection.rs`, `config/crypto.rs`, save and delete of `daemon.rs` and `commands/connections.rs`, GTK `dialogs.rs`, `schema.rs` |
| `GtkWindow`, `MCGtkWindow`, `GtkWindowProofs` | the GTK main window over one session: connection panel, table tabs, a query tab, row dialogs | `src/ui/window/*.rs`, `src/ui/sidebar`, `src/ui/grid`, `src/state/app_state/*.rs` |
| `TablePage`, `MCTablePage`, `TablePageProofs` | table and query result tabs of the Qt window, their grids, inline edits and row dialogs | `mainwindow_table.cpp`, `mainwindow_query.cpp`, `result_table_model.cpp`, `table_data_widget.cpp`, `row_editor_dialog.cpp` |

### Daemon

A request is a number in reading order; its thread is at `pc[r]`. A command
opens at most one session, so sessions and cancel flags carry the request's
number. `pool` and `stale` are `ConnectionPool.entries` (an entry is in `stale`
once it was idle longer than the timeout; the clock is nondeterministic),
`lock` is the pool mutex when it is held over several steps, `reg`/`flag` are
`CancelRegistry`, `reapers` the threads of daemon.rs:444-451. A critical
section without a wait inside is one action guarded by `lock = None`
(`EvictFirst`, `AlreadyPooled`, `Unpool`, ...); the statement handlers, which
hold the guard while they dial (`Reconnect`) and run, are split into
`LockForUse` ... `FinishUse`. The guard is dropped at the end of its scope, so
every answer of a request gives the mutex back (`Answer`), on error paths too. `handle_connect` is one action per decision:
flag checks, `has`, load and spawn, the 50 ms poll, the re-check under the
lock, insertion, `end`. `cancel-connect` runs on the stdin thread: while one is
unanswered (`StdinBusy`) no request is read. `exit` goes through `ReadExit`,
`Drain` (with `late` when the 5 s elapsed) and `CloseAll`; after it every
thread is gone.

Abstractions: the nine statements are one command `"use"` that may fail; list
and test are one command; payloads, arguments and messages are left out; a
response and the decrement of `active_workers` are one step; the registry's own
lock is never held over a wait, so its operations are atomic; a panic in a
worker (poisoned lock) is not modelled; of the connection store only which
connections exist is kept, and it can fail at any time; an attempt's
overwritten entry is `"dropped"` (its `AppState` goes out of scope, nobody calls
disconnect). `conn` of a request that is not read is arbitrary.

Fairness: a thread that can take a step takes one eventually (weak fairness per
request and per reaper; requests are finite in number, so a thread blocked on
the mutex is not overtaken for ever). Only where a property needs the server
(`FairSpec`) do dials and statements end: the drivers' pools have an acquire
timeout by default, statements end by assumption. `CancelledIsAnswered` does
without that assumption, for dials and statements alike. Its one exception is a pool lock that is
never given back: a statement, and the dial before it, hold that lock, a flagged
attempt takes it twice (`has`, insertion), and a statement has no time limit in
the code. For the same reason `cancel-connect` may wait for as long as a statement does (see section 3).


### BridgeClient: the Qt side of the bridge

| Variable | Code |
|---|---|
| `next` | `next_id_`; also counts a command whose process could not be started, which takes no id |
| `pending` | keys of `pending_commands_` |
| `proc`, `starts` | `process_`: absent, running, or ended while Qt still reports it as running; `starts` tells one process from the next |
| `inbox`, `half`, `pipe` | the process (external): commands it can read, the answer it is writing, output not read yet |
| `buffer` | `read_buffer_`, as pieces of lines |
| `main` | `shutting_down_`, and that `stop()` is over |
| `told`, `answered`, `lost`, `sentTo` | history: runs of a callback, callbacks given an answer, callbacks dropped by a failed write, the process a command went to |

`send_command` is one action in four outcomes (`StartFails`, `StartAndSend`, `Send`, `WriteFails`), because
`ensure_started` starts the process when there is none. `Read` appends any prefix of what arrived and `HandleLine`
is one turn of the line loop: between two turns anything may happen, since a callback may open a message box.
`Finished` waits for the pipe to be empty: Qt reads what is left of the output before it emits `finished`. No callback
in the repository sends a command when it is given an error, so `FailPending` runs its callbacks in one step.

`client` assumes that the process works through its input while it lives and that the event loop runs
(weak fairness of `WriteHead`, `WriteEnd`, `Read`, `HandleLine`, `Finished`, `Teardown`). Nobody is obliged to
send, to die or to stop. A write that fails loses its callback (`lost`): the callback was moved into
`pending_commands_` at line 141, so `if (callback)` at line 149 finds it empty. No document speaks of that case.

Bounds: with three commands and two processes there is a half-written answer, a death, a restart by the next command,
a command to the new process and one that waits beside it. Four commands and three processes (267 712 states) were
checked once for the safety properties and showed nothing further.

### ConnectionUi: connecting, aborting and listing in the main window

| Variable | Code |
|---|---|
| `calls` | every command sent, in order; `phase` says whether the daemon served it and its callback ran; `item` is the row the callback captured, `shown` the connection a dialog named |
| `tree`, `gen`, `rows`, `icon`, `selected` | `connection_model_`: rows, how often they were rebuilt, appended database lists, status icons, the current row |
| `loading`, `connected` | `loading_connections_` with the row it points to, `connected_connection_ids_` |
| `modal` | the dialog whose `exec()` runs |
| `alive` | the process has not crashed on a freed row |
| `stored`, `pooled` | the daemon: saved connections, connections with a session |
| `wanted` | history: what the user last asked for |

The front end is single-threaded, so each handler and each callback is one action; a callback is one action per
outcome (`ConnectIgnored`, `ConnectFailed`, `ConnectSucceeded`, ...). `disconnect_active_connection` is also called by
other handlers and is an operator (`DisconnectActive`) that acts on the selected row, as the code does. While a dialog
is open the window takes no input, but answers are handled. The dialog that edits a connection saves it with a command
of its own; the model merges that command, its answer and the acceptance.

The daemon is reduced to `Effect` and `Serve`: any request may be served next, except that nothing sent after a
cancel-connect is read before it is served, because the stdin thread serves it itself. `Effect` keeps what `Daemon`
shows of the pool and of connections.json.

`load_connections` frees all rows. `loading_connections_` and the callback of list-schema keep pointers to rows, so
using one of an older generation is undefined: it crashes (`alive' = FALSE`) or has no visible effect (`RowOf`, `Tick`).

Bounds: `MaxCalls` commands in a behaviour; `Owed` reserves room for the commands that callbacks still send, so the
bound only ever keeps the user from acting, never a callback from running. Five commands on one connection hold connect,
abort and connect again with their answers, and each dialog with the refresh it causes. Two connections interact only
in what `Drop Database` and `refresh_schema` choose: `ui_drop_target` has two, and `AbortIsFinal` is proved for any
number. A row that was rebuilt or removed while its connection was loading really can stay loading for ever;
`LoadingEnds` speaks of the others. It assumes only that requests are served and their answers handled (`Answers`).

### RowEdit: what a page shows is what a write finds

A statement of a driver is a record of assigned columns, compared columns and
bound values (`SqlRows`); a placeholder is numbered and cast (PostgreSQL) or
`?` (MySQL, SQLite). The server is the environment: it refuses a statement
whose placeholders are not the values bound, compares and assigns, evaluates
`CURRENT_DATE` and the like, and converts texts as its engine does (`Store`).
`RowEdit` keeps the server's rows (`stored`), the page as loaded (`page`: texts,
and as history the row each shows), the last query result and the last write.
`Update` is `commit_inline_edit` or the row editor down to the driver;
`Duplicate` sends the texts of a row back as values. `Other` is another client,
so the page may be stale at any write. The answer of a write does not touch the
page: the reload is `Load`, whenever it comes.

Texts are tuples of tokens (`<<"0x", "b1">>`), two payloads per type; one type
stands for all that are shown and read back alike. `Lossy` names the
combinations that are not: there, without a primary key, a write may find no row, or
another row that holds the text.

`ORDER BY` with a bare name takes the column of the select list. PostgreSQL and
MySQL select texts under the columns' names, SQLite selects `*`: `order_clause`
of each driver says by which of the two a sort goes. `k` is a column of integers
whose texts `"1"`, `"10"`, `"2"` are in another order (`ByValue`, `ByText`), and an
update may make a key `"10"`: `PageIsWhole` says for each engine which of the two orders the
list of rows is in. Rows that sort alike, and those of a page without a sort, come in the
order they were inserted; a server may choose another one for each statement.

`pg_value_to_string` and `value_to_string` end in a branch that decodes only
strings and integers. A type that has no branch of its own comes there, and all
its values are shown as NULL by a query, though not by a page, which the server
casts: `NoBranch` names them, `"enum"` standing for PostgreSQL's enums, arrays, XML,
BIT, ranges and OID, `"decimal"` for MySQL's DECIMAL.

`Second` scales microseconds to TLC's integers; `MaxSteps` bounds a behaviour:
a load, a change by another client and a write are three steps, a write, a change
and the read after them too. The run sorts downwards or not at all; upwards is the
same list read backwards, and proved.

### Session: where a statement runs

`Daemon` shows that sessions are pooled and closed rightly and abstracts what a
statement does. `Session` is one of them: `pool` is the driver's pool (the
database it is open in), `dialed` and `old` the pools that exist while
`use_database` replaces it, `driverDb` and `app` the two notes of the current
database. A command goes through `Connect`, `UseDial`, `UseSwap`, `UseClose`,
`UseNote`, one action per wait, then its own reads. Its handlers ignore an
error of `use_database`, except `list-schema`; the properties say what follows:
the statement runs where the session was, and only then. `Server` changes
between any two waits. A text whose rows break off is run a second time by
`execute` (`Again`); `broke` remembers that an attempt failed after its effect,
the only case in which a text runs twice.

The server's tables are two definitions that differ in everything the
catalogue queries read: composite keys in an order of their own, an index that
is not unique, a column the server fills in.

### ConnectionStore: who writes connections.json

A text of the file is its entries and a closing token; `fs::write` is
`Truncate` and `Write`, and a text written over a longer one leaves the rest
(`Over`), which no longer parses (`Readable`). Daemon workers and command lines
(`Workers`) load, change and write for every operation; the daemon's pool lock
does not help, `save-connection` does not take it. The GTK window holds one
`list` from its start. `acked` is what the operations asked for, `behind` whose
list is out of date, `raced` that such a list was written, `torn` that a process
ended over the truncated file, `secret` the passwords that the operations on a connection that
ended may have left (one, unless operations on the same password overlapped:
`mixed`), `left` that an outage or a death left an entry that should be gone, or
that shadows a newer one: the properties state what holds
short of those, and by their negations what the code risks. `KeyringAgrees` is
thus held to everything a fallback entry can meet: it is written because the
keyring was away for the primary one, it grows old under a newer primary entry,
it is deleted with it, its machine changes. `left` cannot be dropped: a
deletion ignores the keyring's errors, and what it leaves behind would be found again. A write is one
system call, so a crash leaves an empty file, never half of one.

`Symmetry` permutes workers, connections and contents: no property or action
tells them apart and the run checks no liveness.

### GtkWindow: futures on one main loop, one session

| Variable | Code |
|---|---|
| `saved` | `AppStateInner.connections` |
| `app` | `active_connection_id`, `active_driver` (a number into `drivers`, 0 for none), `active_config.database` |
| `drivers` | every driver made: its connection and the database of its pool, `Closed` after `disconnect` |
| `tasks` | the futures given to `spawn_future_local`, with where each waits (`pc`) and what it captured |
| `tab`, `tabs`, `pages` | data tabs made so far, `data_tabs`, and the pages of the notebook in the order of the screen |
| `tree`, `mark` | what the connection panel shows under each connection, and which it calls connected |
| `editor` | selections of the query tab |
| `version` | the server: writes to the table of each database |
| `moved`, `raced`, `failed` | history: a tab was dragged, switches of the session overlapped, a connect failed |

A user action is one step up to the point where it spawns its future. A future is first polled after those
spawned before it (`Starts`) and then goes from wait to wait: `leave` and `dial` of `connect`, `swap` and `note` of
`use_database`, `run` for the call, `show` for what is done with the answer. At each wait it reads the window and
AppState as they are by then, which is where the interleavings are. A call that fails ends its future with what the
error path shows (`CallFails`, `Fails`). A list of databases or tables is the same whenever it is made, so answering
and showing it are one step.

`raced` is what the safety properties exclude: overlapping switches really can leave AppState's note and the pool in
different databases. It also covers a list of schemas or tables that was spawned but not yet polled during a switch
(`Listing`): its row was chosen when it was spawned, the driver it asks is read at the first poll. `Dialog` is the modal row dialog: it stops the user, not the futures under way.

Fairness (`WF_vars(Runtime)`): the main loop polls ready futures and the driver's calls end, if only with an error;
the user owes nothing. `Runtime` is fair as a whole, which is enough because every future is finite.

Bounds: three user actions with up to three futures under way in `gtk_session` (two in `gtk_tabs`) are two operations
that overlap and one that meets the outcome. `MCGtkWindow!Opened` is the state after connecting, browsing and opening a
table, which the tab run starts from to spend its three actions on tabs. Two connections, two databases, pages 0 and 1.
`ByName` gives one connection MySQL's catalogue (reads by database name) and the other PostgreSQL's. Names of
connections are distinct, a dialog does not change the database of a connection, one query tab exists.

### TablePage: one place, many tabs

| Variable | Code |
|---|---|
| `place` | `current_connection_id_`, `current_database_`, `current_table_` (a database and its table are one name), `current_table_page_` |
| `pages`, `current` | `data_tabs_`: per tab the page number, the rows of `ResultTableModel`, `progressive_remaining_`, `editing_row_` and the structure; the tab in front |
| `closed` | how often a tab's page was deleted: two pages of one tab are different objects, and a callback keeps the one it had |
| `dialog` | the modal row dialog or question |
| `calls` | requests not answered yet, as a bag: two reloads are two requests |
| `calm` | history, see below |

A handler changes the place and the tabs step after step, so helpers pass a record of the three window variables on
(`Window`, `Becomes`). `fetch_answered` puts rows into the page it captured and asks for the structure of `place`, as
the code does. A table page has no `connectionId` property, so `close_tabs_for_connection` closes only query results.
A row is named by the table and page of the answer it came from (two answers to one page are alike, a mix of those would not be seen); `text` is what is shown, `original` what the edit began with.

`WritesHitWhatIsShown` is stated while `calm`: six things lead a write astray, each named at the action it happens in.
Each is needed: with any one of the six left out of `calm`, TLC finds a write to a row or table the user did not
choose in at most eight steps. All six are behaviour of the code, and no document denies them.

Using a deleted page is undefined: the program ends or the answer has no effect (`freed_page_answered`), or the memory
is a page of the same class by then, which gets the answer (`Reached`; the model does not keep which page was made
when, and allows any of the class). Reload is also an entry of the menu: `turn_page` to the page of the place may
come with a query's result in front, and opens the table again.

Bounds: four user actions hold an edit, its refusal and a second edit; two connections with a table of the same name
are what it takes to confuse them. `Opened` is the state after connecting both and opening the first one's table.
Answers of one row (a single slice) and two (a slice and a rest) are the cases of a progressive load.

## 3. Runs

| Run | Configuration | Properties | Shows |
|---|---|---|---|
| `pool` | `MCDaemonPool.cfg` | `TypeOK`, `PoolHoldsOpenSessions`, `StatementKeepsSession`, `FlaggedLeavesPool`, `OpenSessionIsOwned`, `CleanExit`, `ImplementsSessionPool` | One connection, any three connects, cancels, disconnects and statements, idle eviction and exit at any moment: pooled entries are open sessions, a running statement keeps its session, no cancelled attempt stays pooled, no open session is forgotten, a drained exit leaves nothing behind, and every step is a step of the abstract SessionPool. |
| `answers` | `MCDaemonAnswers.cfg` | `EveryRequestAnswered`, `ReaperDisconnects`, `ExitTerminates` | Two connections, two requests of every command and exit, with servers that answer: every request is answered, a session left to a reaper is closed, and once told to exit the daemon exits. |
| `cancelled` | `MCDaemonCancelled.cfg` | `CancelledIsAnswered` | A flagged connect attempt is answered even if the server never answers its dial: only threads are assumed to be scheduled. Statements are among the commands; the one exception is a pool lock that a statement, or the dial before it, never gives back. |
| `client` | `MCBridgeClient.cfg` | `TypeOK`, `CalledAtMostOnce`, `PendingHasProcess`, `PendingIsCalled`, `LiveProcessAnswers` | Three commands over two bridge processes, each of which may die at any point of an answer: no callback runs twice, none waits for a process that was replaced, every registered callback is called, and with the answer if its process stays up. |
| `ui` | `MCConnectionUi.cfg` | `TypeOK`, `AbortIsFinal`, `LoadingEnds` | One connection, five commands, every action of the user, answers in any order: the selection is always a row that exists, no late answer makes the window treat an aborted connection as connecting or connected, and every loading animation of a row that was not rebuilt ends. |
| `ui_drop_target` (violation) | `MCConnectionUiDrop.cfg` | `DropsWhereShown` | The menu's Drop Database names the selected connection and sends the command to another connected one. |
| `rows` | `MCRowEdit.cfg` | `ResultIsHonest`, `WritesAreExact`, `PageIsWhole` | A page of two rows over a table of three, of each engine, each kind of type and with or without a primary key, read, written and changed by another client in any order of three steps: each write does to the server's rows exactly what the user asked of the rows shown; a page is all of its part of the table, sorted by the column's texts (PostgreSQL, MySQL) or values (SQLite); a query's result says what it leaves out, and NULL stands for NULL or for a type the driver has no branch for. |
| `session` | `MCSession.cfg` | `SessionIsSound`, `RunsWhereAsked`, `OnceUnlessBroken`, `SchemaShowsServer`, `StructureIsTable`, `CommandEnds` | Two commands of a session of each engine, by the daemon or the command line, with a server that goes down or gains or loses a database at any step: a statement runs in the database it names, once; the schema and the structure are those of the databases named; no pool stays behind. |
| `store` | `MCConnectionStore.cfg` | `FileIsSound`, `NothingLostSilently`, `KeyringAgrees`, `GotWasKept` | Three saves, deletes and connects of two connections by two workers and a GTK window, with up to two of: a process that dies, a write that fails, a keyring that goes away, a move to another machine: no connection is lost silently unless writes overlap, and through all of it the two keyring entries of a connection give the password its last operation left, save for an entry that outlived an outage or a death. |
| `gtk_session` | `MCGtkSession.cfg` | `SessionIsOne`, `GridIsTrue`, `LoadingEnds` | From the start of the program, any three of: connect, disconnect, delete or edit a connection, refresh, open a database, run a query, with up to three under way when the next comes: AppState, the driver's pool and the panel agree on the session, a query's result is its own, and every loading ends. |
| `gtk_tabs` | `MCGtkTabs.cfg` | `GridIsTrue`, `WritesWhatItRead`, `ClosingIsExact` | From a window with a table open, any three of: another table, a page, an order, a reload, closing or moving a tab, a row write, the structure, a switch of the session: a grid shows the answer to its tab's own last load and what was written, a write goes to the table its columns were read from, and closing closes exactly the tabs it should. |
| `table` | `MCTablePage.cfg` | `WindowIsHonest`, `WritesHitWhatIsShown` | From a loaded table tab on one of two connections, any four of: opening, turning, closing and selecting tabs, queries, row dialogs, inline edits, disconnects and schema answers, with answers and timers in any order: a grid holds rows of one answer, and a write reaches the row the user chose unless one of six named things happened. |

Bounds. A session race takes a connect, its rival (connect, statement or
eviction) and a cancel or disconnect: three requests on one connection.
Connections interact only through the lock and `disconnect_all`, so the
liveness run has two connections and two requests, which is what it takes to
wait for a lock held on behalf of another connection; "exit" is read in
addition to the requests. `cancelled` has three requests of one connection, statements
among them. What `pool` shows of sessions for three requests the
theorems show for any number. `IdleEviction = FALSE` (the code's `LITHEDB_POOL_IDLE_SECS=0`) keeps
the other runs small; `pool` has it on. The bounds of the other modules are in
their sections above.

Deadlock is checked in the daemon's, the client's and the connection window's
runs: there `Rest` is the only way to stop. In `rows`, `session`, `store`,
`gtk_session`, `gtk_tabs` and `table` a behaviour ends when its user has spent
the actions the bound allows and everything was answered, which is a stop of
the real program, so they set `CHECK_DEADLOCK FALSE`. That operations under way
come to their end is stated where it matters (`CommandEnds`, `LoadingEnds`).

A property that holds only short of something the code really does (writes of
connections.json that overlap, switches of a session that overlap, keys that
are not read back, ...) names that something as a history variable set by the
action it happens in, and its comment says so. These are behaviours of the code
no document denies, save those listed below; PROJECT.json lists them as hazards with a note.

The `violation` run is a disagreement between the code and what it tells its
user; see "findings" in `PROJECT.json`. Three more differences between the code and what is
said of it have no run of their own; the properties are stated as the code is:

- `handle_cancel_connect` takes the pool lock (daemon.rs:483), which a statement holds while it
  dials and runs: it does not return at once, as daemon.rs:422 and daemon.rs:787 say. `CancelledIsAnswered`
  needs its exception for this.
- A page is sorted by the texts of a column on PostgreSQL and MySQL: 1, 10, 2
  (postgres/mod.rs:321, mysql/mod.rs:319). `PageIsWhole` states the order of each engine.
- `delete_password` ignores the keyring's errors (crypto.rs:130), so a deletion may leave the password, although
  mainwindow_connections.cpp:257 says "This removes the saved profile and stored password." This is `left` in `KeyringAgrees`.


## 4. Proofs

`DaemonProofs` proves, for every set of connections, every number of requests
and every command set (`DaemonAssumption`), that `IInv` is invariant, and from
it `TypeOK`, `PoolHoldsOpenSessions`, `StatementKeepsSession`,
`FlaggedLeavesPool`, `OpenSessionIsOwned` and `CleanExit`.

The properties are not inductive by themselves. `IInv` adds where a lock is
held (exactly one request between `LockForUse` and `FinishUse`), what the
session of a request can be at each label (a worker at "wait" has a session
that is dialing or ended its dial; at "insert" it is open and unpooled), that a
pooled session belongs to a request past its insertion, that a reaper's session
was never pooled, which flags can be set where, and what holds of every thread
once the drain loop has seen no worker. `IInv` was model-checked before it was
proved. The step is proved action by action; a group of conjuncts is one lemma.

Its last part proves that `Daemon` implements `SessionPool` (`Refinement`). The mapping is the one of the run
`pool`: `pool` itself, the status of each session, the flags, the statements under way. Each action is one step of
`SessionPool` or a stutter. The guards of `SessionPool` are what the daemon promises, and they hold only where `IInv`
does: nothing is retired under a statement because whoever removes an entry finds the mutex free and then nobody uses
a session (`UnlockedMeansUnused`); an adopted session is live, new and not doomed because of where its thread is. Nothing
had to be added to `IInv`.


`BridgeClientProofs` proves `TypeOK`, `CalledAtMostOnce` and `PendingHasProcess` of `BridgeClient` for any number of
commands and processes. `CalledAtMostOnce` is not inductive: `IInv` adds that a waiting callback has not run (part of
`PendingHasProcess`) and that ids not handed out yet have run no callback (`Unsent`). `RunPending` is the lemma the
proof turns on: running pending callbacks once and forgetting them keeps all three. A process is started only when
there is none, and then nobody waits (`NoneWaitsForNone`), so no command is left to a replaced process.

`ConnectionUiProofs` proves `AbortIsFinal` of `ConnectionUi` for any connections, any number of commands and every
user action. The invariant is inductive with the type of `loading`; the proof
shows of each handler that what it makes loading or connected was so before (`NothingNew`), except for the Connect
button, which the user pressed, and `DisconnectForgets`, which removes the connection from both sets.
`TypeOK` is proved with an account: `Debt(calls)` counts each command and what its callback may still send, an action
of the user adds what `Owed` reserved, a callback at most spends its own debt, so `Debt(calls) <= MaxCalls` always
(`Bounded`), and `gen`, the number of rebuilds, never exceeds the number of lists asked for. That `MaxCalls` is not 0 was
found by this proof: the window sends its first command by itself.

`RowEditProofs` proves the three properties of `RowEdit`: `ResultIsTold`, `WritesExactly` and `PagesAreWhole`. They hold
for any page size, row limit and number of steps; the engines, types, payloads and rows are those of the module. The
assumption is that `NULL` is no text and no printed interval.

The first half is about statements, for cell lists of every length. `Follows` says what a driver owes to the cells it is
given: each assigned or compared column is an operand of the statement in the order of the cells, one that is an
expression if the text is NOW() in a temporal column, IS NULL if the key is NULL, and else a placeholder, numbered in
place (PostgreSQL) or counted by position (MySQL, SQLite). `RowStatements` proves it of the nine statements; from it
`StatementWellBound` that the server accepts each one, and `StatementTakes` that each operand takes the value of its
own cell, whatever mix of NULL, NOW() and plain values comes before it. Both rest on counting in a finite order
(`Places`), which also gives the rows of a sorted table their places (`RowsPlaced`, `RowsOrdered`).

For a page, `order_clause` is the only thing that differs between the drivers: `RowsSorted` says that the list a page is cut
from never steps back in it.

The second half is the invariant `IInv`: the rows of the server are of the table's values and distinct in its key, the
rows of a page were rows of the table and its texts show them, a result is what a query shows of the rows it stands
for. It is needed because a write is exact only for texts that are read back as the value shown (`RoundTrip`,
`ShownMeans`, `TypedMeans`), and that the texts of the page are such is a fact about every earlier load. `UpdateOf`,
`DeleteOf` and `InsertOf` say what a write makes of the table; the invariant and the theorem follow from each.
`IntervalAddsUp` proves of every interval, not of the payloads only, that its printed fields add up.
`PagesAreWhole` has the hypothesis `PageSize <= MaxRows`. The code does not enforce it: a page has at most 200 rows
(`table_data_widget.cpp`), the limit is 1000 by default and any number above zero by configuration
(`config/settings.rs`). Below the size of the page, pages lose rows.

`SessionProofs` proves `SessionIsSound`, `RunsWhereAsked`, `OnceUnlessBroken`, `SchemaShowsServer` and `StructureIsTable`
of `Session` for
any databases, commands and changes of the server. The properties speak of the moments between commands and of
statements that ran; `IInv` carries them through a command, over every wait at which the server may change: which pools
may be open at each point (`PoolsAt`), that a `use_database` past its swap has its pool in place (`Moved`), where a
statement is about to run (`AboutToRun`), what an attempt that will be repeated has done (`RunsSoFar`), and for
list-schema that what is shown is right and what is missing is still to come (`SchemaSoFar`). That the notes agree at
rest needs the middle of a command: after the swap driver and pool have moved and AppState has not.
A structure is read in three steps (`StructureSoFar`): each part shown is that of a table of the database the session is
in, and where the switch failed `Certain` says which parts are sure to be empty. The drivers gather index columns with a
fold over rows; `GatherFolds` takes the fold apart for any rows (a set that holds 0 and the successor of each of its
members holds every number, `SetInduction`), and `CompositeGathered` and `KeyedGathered` say what comes out.

`ConnectionStoreProofs` proves `FileIsSound`, `NothingLostSilently`, `KeyringAgrees` and `GotWasKept` of
`ConnectionStore` for any processes, connections and number of operations, crashes and outages. None is inductive: `IInv`
says at which point of its operation a process is (`PointOf`), that a list about to be written has each id once
(`ListsUnique`) and, unless it is out of date, what the file will be (`ListAt`), how far the operations on a
password have come (`KeyringAt`, `Pending`), and that everything in the keyring was stored for that connection and machine
(`Kept`). For `KeyringAgrees`, `KeyringAt` says of the two entries of a connection what holds in the middle of operations:
they give a password that is allowed by then, `secret` or what an operation under way leaves (`Allowed`), and an operation
alone on its password has emptied the primary entry before the fallback one. `OverlapsMixed` says that operations
on one password are all in `mixed`, so that the last to end adds to `secret` instead of replacing it, and `MadeHere`
that a fallback entry is not of a machine to come: a move makes it foreign and it stays so. Two lemmas are about lists: `Position` is the first place of an id, and `Retain` keeps the other
entries in their order. `Retain` is a recursive function; its lemma goes by the least length at which it would fail, since the prover
has no induction.

`GtkWindowProofs` proves `SessionIsOne` of `GtkWindow` for any connections, databases and pages and any number of
operations under way. Futures are a sequence whose numbers shift when one ends, so a step is described once by what
it does to it: `Turns(i, C)` says that future i is replaced by those of C and that the others stay, and every
action has a lemma of the form `Step(i, C)`, which adds that drivers, tabs and versions only grow (`Grows`) and that
everything is of its type (`Sound`). No invariant is then carried over action by action and index by index, only over C.
`SessionInv` is the invariant: `Sound`; while no switches overlapped, `Calm`: a future that switches the session is
alone with it (`Lone`), and each future knows of the session what its step needs (`Knows`: who dials has
dropped it, who swaps or notes does so in the active driver, who lists does so for the driver of its row's
connection), without which the note after a swap, and the rows after a list, would be anybody's; `Owned`
rows; and `Marked`, which says of the panel's mark that it is the active id unless a connect failed, or a future drops or
dials a session. That a listing not yet polled belongs in `raced` was found by this proof: `TreeIsOwn` was
false without it for values of `Configured` that the runs do not have.

The three other safety properties of `GtkWindow` stand on the same steps. For `GridIsTrue`, `ShowsTrue` holds each load
against its tab by the number the tab gave out (`LoadFits`: an older number, or the same page, order and writes) and says the
same of the rows shown and that a loading grid has an operation under way; `TasksPlaced` and `TabsPlaced`
say from which session a load or query is answered, which needs `Calm` for the time between the switch and the call. For
`WritesWhatItRead`, `Aimed`: while a dialog is open nothing is under way that may switch the session
(`Sole`), nothing that may was spawned before a write that is not yet polled (`Before`: the order of polls is what
protects the time between the dialog's end and the write), and until it is made the write's columns are those of the
active session (`AimFits`). For `ClosingIsExact`, `Matched`, and that only the last step of a disconnect lowers `Leaving`.

`TablePageProofs` proves `WindowIsHonest` and `WritesHitWhatIsShown` of `TablePage` for any connections, tables, sizes of
answers and slices, and any number of requests answered in any order. `IInv` has a part that always holds and one
for calm histories. Always: a grid's rows are the beginning of one answer and its rest the remainder, and only the row
under edit was typed in (`Good`), however slices, edits, commits and late answers alternate; the tab in front exists
(`Honest`); every request was made by some tab and is of its kind (`RequestFits`). While calm: the place is that
of the table in front (`Placed`), a grid shows its own table (`Owned`), and a request or dialog carries the table,
columns and key of the row that was chosen (`RequestTrue`, `DialogTrue`): that a write hits follows from what the grid
was when the dialog opened, through the answers that came before it was accepted. Handlers change the window step
after step, so each helper (`Becomes`, the `Loads...` and `Opens...` lemmas) has one lemma that it keeps `Honest`, and each action
uses those in order. Requests under way are a bag; `Holds` says which one is added or answered. `MaxRows` is a CHOOSE of the
largest size: that it exists is proved from `Sizes` being finite.

Only model-checked: liveness, everywhere (the prover has no reasoning about
fairness): `EveryRequestAnswered`, `ReaperDisconnects`, `ExitTerminates`, `CancelledIsAnswered`, `PendingIsCalled`,
`LiveProcessAnswers`, `LoadingEnds` of both windows and `CommandEnds`. Every safety property of a passing run is a theorem.

Two habits of the modules serve the proofs. `NULL` and the like are assumed
to be none of the records, sequences and numbers they stand in for: a model value for TLC,
an assumption for the prover. And where guards of a choice overlap, as those of
an if-else chain in the code do, the definition is a chain of IFs, not a CASE, which
chooses any arm that is true.

## 5. Not modelled

- Forms and painting: the fields of dialogs, highlighting, column widths, view
  modes, labels and button states, theme, shortcuts, preferences, clipboard and
  CSV. They hold no state that a later step relies on.
- Argument parsing of the command line and the JSON of the protocol: a command
  reaches a model as a record.
- Quoting of identifiers, connection strings and TLS: built character by
  character from names, which the models take as values.
- Settings: read once; the row limit is a constant of `RowEdit`.
- Foreign keys and indexes of a structure beyond what `Catalog` needs to tell
  them apart. Types with one branch of decoding each are abstracted to whether
  their text is the value (`RowEdit!Lossy`).
- `BridgeClient::restart()` has no caller. A panic in a worker, which poisons
  the pool lock, and the parameters of sqlx's own pool stay outside.
- Several query tabs of the GTK window, and the copies of the drivers in
  `src/db` where they agree with lithedb-core's.
- Packaging, scripts and CI: nothing of the running program.

## 6. Plan

Every module named in section 2 is written and checked. Left, in order of importance to
a user of the program:

1. The invariant behind `LoadingEnds` of the connection window: every loading row that was not rebuilt has a request under way.
2. `GtkWindow` with several query tabs, each with selections of its own, on the one session.

