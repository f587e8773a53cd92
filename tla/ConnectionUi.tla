---------------------------- MODULE ConnectionUi ----------------------------
(***************************************************************************)
(* The connection side of the Qt main window                               *)
(* (apps/lithedb-qt/src/mainwindow/mainwindow_connections.cpp): the sets   *)
(* loading_connections_ and connected_connection_ids_, the tree of         *)
(* connections, and the callbacks of the commands it sends to the bridge.  *)
(*                                                                         *)
(* The daemon is reduced to what Daemon.tla leaves visible: a command      *)
(* takes effect once, requests run in any order except that nothing sent   *)
(* after a cancel-connect is read before it is served, and answers arrive  *)
(* in any order. "schema" is list-schema, "db" create- and drop-database.  *)
(*                                                                         *)
(* Everything here runs on the GUI thread: a handler is one action. A      *)
(* dialog runs an event loop of its own, in which answers are handled but  *)
(* the main window takes no input.                                         *)
(***************************************************************************)
EXTENDS Naturals, Sequences, FiniteSets

CONSTANTS
  Conn,       \* ids of connections
  None,       \* no connection
  MaxCalls,   \* bound on the commands sent to the bridge
  Actions     \* what the user does in this instance

UserActions == {"connect", "disconnect", "refresh", "edit", "delete", "db"}

\* The window sends one command, list-connections, when it starts.
ASSUME ConnectionUiAssumption ==
  /\ MaxCalls \in Nat \ {0}
  /\ None \notin Conn
  /\ Actions \subseteq UserActions

VARIABLES
  calls,      \* the commands sent, in order, each with its state
  tree,       \* connections that have a row in the sidebar
  gen,        \* how often the rows were rebuilt: rows of older ones are freed
  rows,       \* how often the databases of a connection were appended
  icon,       \* the status icon of a row
  loading,    \* loading_connections_: the generation of the row it points to
  connected,  \* connected_connection_ids_
  selected,   \* connection of the current row
  modal,      \* the dialog that is open
  alive,      \* the front end has not crashed
  wanted,     \* connections the user last asked to connect
  stored,     \* daemon: saved connections
  pooled      \* daemon: connections with a pooled session

daemonVars == <<stored, pooled>>
uiVars == <<tree, gen, rows, icon, loading, connected, selected, modal, alive,
            wanted>>
vars == <<calls, uiVars, daemonVars>>

Gen == 0 .. MaxCalls
NoGen == MaxCalls + 1
NoModal == [kind |-> "none", conn |-> None, shown |-> None]

WithReply == {"list", "connect", "schema", "delete", "db"}
Commands  == WithReply \cup {"cancel", "disconnect"}

CallRecord ==
  [cmd : Commands,
   conn : Conn \cup {None},
   shown : Conn \cup {None},     \* the connection a dialog named to the user
   item : Gen,                   \* generation of the row the callback captured
   phase : {"sent", "served", "done"},
   ok : BOOLEAN,
   listed : SUBSET Conn]         \* answer of list-connections

TypeOK ==
  /\ calls \in Seq(CallRecord) /\ Len(calls) <= MaxCalls
  /\ tree \subseteq Conn
  /\ gen \in Gen
  /\ rows \in [Conn -> Nat]
  /\ icon \in [Conn -> {"off", "on", "spin"}]
  /\ loading \in [Conn -> Gen \cup {NoGen}]
  /\ connected \subseteq Conn
  /\ selected \in tree \cup {None}
  /\ modal \in [kind : {"none", "edit", "delete", "db"},
                conn : Conn \cup {None}, shown : Conn \cup {None}]
  /\ alive \in BOOLEAN
  /\ wanted \subseteq Conn
  /\ stored \subseteq Conn /\ pooled \subseteq Conn

-----------------------------------------------------------------------------
(* Vocabulary.                                                             *)

Loading == {k \in Conn : loading[k] # NoGen}
Busy    == Loading \cup connected
Pending == {i \in DOMAIN calls : calls[i].phase # "done"}

Call(c, k, s) ==
  [cmd |-> c, conn |-> k, shown |-> s, item |-> gen, phase |-> "sent",
   ok |-> FALSE, listed |-> {}]

\* Calls that a callback may still have to send; user input is bounded so that
\* there is room for them.
Owed ==
  Cardinality({i \in Pending : calls[i].cmd \in {"connect", "db"}})
    + 2 * Cardinality({i \in Pending : calls[i].cmd = "delete"})
Room(n) == Len(calls) + Owed + n <= MaxCalls

\* The main window takes input.
Input(a) == alive /\ modal = NoModal /\ a \in Actions

\* The calls after the callback of call i has run.
Done(i) == [calls EXCEPT ![i].phase = "done"]

Init ==
  /\ stored \in SUBSET Conn /\ pooled = {}
  /\ tree = {} /\ gen = 0
  /\ rows = [k \in Conn |-> 0]
  /\ icon = [k \in Conn |-> "off"]
  /\ loading = [k \in Conn |-> NoGen]
  /\ connected = {} /\ wanted = {}
  /\ selected = None /\ modal = NoModal /\ alive = TRUE
  /\ calls = <<Call("list", None, None)>>

-----------------------------------------------------------------------------
(* Pieces of handlers.                                                     *)

\* start_connection_loading_animation, then a command.
StartLoading(k) ==
  /\ loading' = [loading EXCEPT ![k] = gen]
  /\ icon' = [icon EXCEPT ![k] = "spin"]

StopLoading(k) == loading' = [loading EXCEPT ![k] = NoGen]

\* load_schema_for_connection, on the calls in s
LoadSchema(s, k) ==
  \/ /\ k \in tree
     /\ rows' = [rows EXCEPT ![k] = 0]
     /\ StartLoading(k)
     /\ calls' = Append(s, Call("schema", k, k))
  \/ /\ k \notin tree
     /\ calls' = s
     /\ UNCHANGED <<rows, loading, icon>>

\* refresh_schema: the first of the connected set, whose order is arbitrary
RefreshSchema(s) ==
  \/ /\ connected = {}
     /\ calls' = Append(s, Call("list", None, None))
     /\ UNCHANGED <<rows, loading, icon>>
  \/ \E k \in connected : LoadSchema(s, k)

\* disconnect_active_connection, between the calls in s and those in t: it acts
\* on the row that is selected when it runs.
DisconnectActive(s, t) ==
  \/ /\ selected \notin Busy
     /\ calls' = s \o t
     /\ UNCHANGED <<rows, icon, loading, connected, wanted>>
  \/ /\ selected \in Busy
     /\ StopLoading(selected)
     /\ connected' = connected \ {selected}
     /\ wanted' = wanted \ {selected}
     /\ icon' = [icon EXCEPT ![selected] = "off"]
     /\ rows' = [rows EXCEPT ![selected] = 0]
     /\ calls' = s \o <<Call(IF selected \in Loading THEN "cancel"
                             ELSE "disconnect", selected, selected)>> \o t

-----------------------------------------------------------------------------
(* The user.                                                               *)

Select(k) ==
  /\ alive /\ modal = NoModal
  /\ selected' = k /\ k # selected
  /\ UNCHANGED <<calls, tree, gen, rows, icon, loading, connected, modal, alive,
                 wanted, daemonVars>>

ClickConnect ==
  /\ Input("connect") /\ Room(2)
  /\ selected # None /\ selected \notin Busy
  /\ StartLoading(selected)
  /\ wanted' = wanted \cup {selected}
  /\ calls' = Append(calls, Call("connect", selected, selected))
  /\ UNCHANGED <<tree, gen, rows, connected, selected, modal, alive, daemonVars>>

ClickDisconnect ==
  /\ Input("disconnect") /\ Room(1)
  /\ selected \in Busy
  /\ DisconnectActive(calls, <<>>)
  /\ UNCHANGED <<tree, gen, selected, modal, alive, daemonVars>>

ClickRefresh ==
  /\ Input("refresh") /\ Room(1)
  /\ RefreshSchema(calls)
  /\ UNCHANGED <<tree, gen, connected, selected, modal, alive, wanted,
                 daemonVars>>

\* The add (k = None) or edit dialog; the delete confirmation; the create and
\* drop database dialogs. These name the selected connection; the menu passes no
\* connection, and the command goes to the first connected one.
OpenEdit(k) ==
  /\ Input("edit")
  /\ k \in {None, selected}
  /\ modal' = [kind |-> "edit", conn |-> k, shown |-> k]
  /\ UNCHANGED <<calls, tree, gen, rows, icon, loading, connected, selected,
                 alive, wanted, daemonVars>>

OpenDelete ==
  /\ Input("delete") /\ selected # None
  /\ modal' = [kind |-> "delete", conn |-> selected, shown |-> selected]
  /\ UNCHANGED <<calls, tree, gen, rows, icon, loading, connected, selected,
                 alive, wanted, daemonVars>>

\* Creating and dropping a database: both take the target among the connected
\* ones, show the selected one, and reload its schema after success.  Which
\* database is not kept; without one, or on SQLite, no dialog opens.
OpenDb ==
  /\ Input("db") /\ selected # None /\ connected # {}
  /\ \E k \in connected :
       modal' = [kind |-> "db", conn |-> k, shown |-> selected]
  /\ UNCHANGED <<calls, tree, gen, rows, icon, loading, connected, selected,
                 alive, wanted, daemonVars>>

Dismiss ==
  /\ alive /\ modal # NoModal
  /\ modal' = NoModal
  /\ UNCHANGED <<calls, tree, gen, rows, icon, loading, connected, selected,
                 alive, wanted, daemonVars>>

\* The dialog saved the connection (its own command and answer), then closes.
\* An edited connection that is connected is to be disconnected first.
AcceptEdit ==
  /\ alive /\ modal.kind = "edit" /\ Room(2)
  /\ \E k \in IF modal.conn = None THEN Conn \ stored ELSE {modal.conn} :
       stored' = stored \cup {k}
  /\ modal' = NoModal
  /\ LET reload == <<Call("list", None, None)>>
     IN  IF modal.conn \in connected
         THEN DisconnectActive(calls, reload)
         ELSE /\ calls' = calls \o reload
              /\ UNCHANGED <<rows, icon, loading, connected, wanted>>
  /\ UNCHANGED <<tree, gen, selected, alive, pooled>>

AcceptDelete ==
  /\ alive /\ modal.kind = "delete" /\ Room(3)
  /\ calls' = Append(calls, Call("delete", modal.conn, modal.shown))
  /\ modal' = NoModal
  /\ UNCHANGED <<tree, gen, rows, icon, loading, connected, selected, alive,
                 wanted, daemonVars>>

AcceptDb ==
  /\ alive /\ modal.kind = "db" /\ Room(2)
  /\ calls' = Append(calls, Call("db", modal.conn, modal.shown))
  /\ modal' = NoModal
  /\ UNCHANGED <<tree, gen, rows, icon, loading, connected, selected, alive,
                 wanted, daemonVars>>

-----------------------------------------------------------------------------
(* Callbacks. Call i was served and its answer is handled now.             *)

Answered(i, c, o) ==
  /\ alive
  /\ calls[i].cmd = c /\ calls[i].phase = "served" /\ calls[i].ok = o

\* An answer with nothing to do but messages and view changes.
ReplyNoted(i) ==
  /\ \E c \in {"list", "delete", "db"} : Answered(i, c, FALSE)
  /\ calls' = Done(i)
  /\ UNCHANGED <<uiVars, daemonVars>>

\* Faulty: the current row is remembered by its connection.
ListReply_KeepsSelection(i) ==
  /\ Answered(i, "list", TRUE)
  /\ tree' = calls[i].listed
  /\ gen' = gen + 1
  /\ rows' = [k \in Conn |-> 0]
  /\ icon' = [k \in Conn |-> IF k \in connected THEN "on" ELSE "off"]
  /\ calls' = Done(i)
  /\ UNCHANGED <<loading, connected, selected, modal, alive, wanted, daemonVars>>

\* list-connections: every row is freed and made anew.
ListReply(i) ==
  /\ Answered(i, "list", TRUE)
  /\ tree' = calls[i].listed
  /\ gen' = gen + 1
  /\ rows' = [k \in Conn |-> 0]
  /\ icon' = [k \in Conn |-> IF k \in connected THEN "on" ELSE "off"]
  /\ selected' = None
  /\ calls' = Done(i)
  /\ UNCHANGED <<loading, connected, modal, alive, wanted, daemonVars>>

\* "Cancelled or superseded": neither loading nor connected. A session that was
\* opened all the same is disconnected.
ConnectIgnored(i) ==
  LET k == calls[i].conn IN
  /\ \E o \in BOOLEAN : Answered(i, "connect", o)
  /\ k \notin Busy
  /\ calls' = IF calls[i].ok THEN Append(Done(i), Call("disconnect", k, k))
              ELSE Done(i)
  /\ UNCHANGED <<uiVars, daemonVars>>

ConnectFailed(i) ==
  LET k == calls[i].conn IN
  /\ Answered(i, "connect", FALSE)
  /\ k \in Busy
  /\ StopLoading(k)
  /\ icon' = IF k \in tree THEN [icon EXCEPT ![k] = "off"] ELSE icon
  /\ calls' = Done(i)
  /\ UNCHANGED <<tree, gen, rows, connected, selected, modal, alive, wanted,
                 daemonVars>>

\* Faulty: the answer of an attempt the user aborted is taken.
ConnectSucceeded_Always(i) ==
  LET k == calls[i].conn IN
  /\ Answered(i, "connect", TRUE)
  /\ connected' = connected \cup {k}
  /\ LoadSchema(Done(i), k)
  /\ UNCHANGED <<tree, gen, selected, modal, alive, wanted, daemonVars>>

ConnectSucceeded(i) ==
  LET k == calls[i].conn IN
  /\ Answered(i, "connect", TRUE)
  /\ k \in Busy
  /\ connected' = connected \cup {k}
  /\ LoadSchema(Done(i), k)
  /\ UNCHANGED <<tree, gen, selected, modal, alive, wanted, daemonVars>>

\* The callback holds a pointer to the row of its time; if the rows were
\* rebuilt, using it crashes or changes nothing that is shown.
RowOf(i, effect) ==
  \/ calls[i].item = gen /\ effect /\ UNCHANGED alive
  \/ calls[i].item # gen /\ alive' \in BOOLEAN /\ UNCHANGED <<icon, rows>>

SchemaIgnored(i) ==
  /\ \E o \in BOOLEAN : Answered(i, "schema", o)
  /\ calls[i].conn \notin Busy
  /\ calls' = Done(i)
  /\ UNCHANGED <<uiVars, daemonVars>>

\* Faulty: the animation goes on after an error.
SchemaFailed_KeepsLoading(i) ==
  LET k == calls[i].conn IN
  /\ \E o \in BOOLEAN : Answered(i, "schema", o)
  /\ k \in Busy
  /\ calls[i].ok => k \in connected
  /\ connected' = connected \ {k}
  /\ RowOf(i, icon' = [icon EXCEPT ![k] = "off"] /\ UNCHANGED rows)
  /\ calls' = Done(i)
  /\ UNCHANGED <<tree, gen, loading, selected, modal, wanted, daemonVars>>

\* An error, or a payload that is no list.
SchemaFailed(i) ==
  LET k == calls[i].conn IN
  /\ \E o \in BOOLEAN : Answered(i, "schema", o)
  /\ k \in Busy
  /\ calls[i].ok => k \in connected
  /\ StopLoading(k)
  /\ connected' = connected \ {k}
  /\ RowOf(i, icon' = [icon EXCEPT ![k] = "off"] /\ UNCHANGED rows)
  /\ calls' = Done(i)
  /\ UNCHANGED <<tree, gen, selected, modal, wanted, daemonVars>>

\* A schema of a connection that is loading but was disconnected meanwhile.
SchemaLate(i) ==
  LET k == calls[i].conn IN
  /\ Answered(i, "schema", TRUE)
  /\ k \in Loading \ connected
  /\ StopLoading(k)
  /\ calls' = Done(i)
  /\ UNCHANGED <<tree, gen, rows, icon, connected, selected, modal, alive, wanted,
                 daemonVars>>

SchemaLoaded(i) ==
  LET k == calls[i].conn IN
  /\ Answered(i, "schema", TRUE)
  /\ k \in connected
  /\ StopLoading(k)
  /\ RowOf(i, /\ icon' = [icon EXCEPT ![k] = "on"]
              /\ rows' = [rows EXCEPT ![k] = @ + 1])
  /\ calls' = Done(i)
  /\ UNCHANGED <<tree, gen, connected, selected, modal, wanted, daemonVars>>

\* A deleted connection that is connected is to be disconnected.
DeleteReply(i) ==
  LET reload == <<Call("list", None, None)>> IN
  /\ Answered(i, "delete", TRUE)
  /\ IF calls[i].conn \in connected
     THEN DisconnectActive(Done(i), reload)
     ELSE /\ calls' = Done(i) \o reload
          /\ UNCHANGED <<rows, icon, loading, connected, wanted>>
  /\ UNCHANGED <<tree, gen, selected, modal, alive, daemonVars>>

DbReply(i) ==
  /\ Answered(i, "db", TRUE)
  /\ RefreshSchema(Done(i))
  /\ UNCHANGED <<tree, gen, connected, selected, modal, alive, wanted,
                 daemonVars>>

\* The animation timer draws on the row a loading entry points to.
Tick ==
  /\ alive /\ \E k \in Loading : loading[k] # gen
  /\ alive' = FALSE
  /\ UNCHANGED <<calls, tree, gen, rows, icon, loading, connected, selected,
                 modal, wanted, daemonVars>>

-----------------------------------------------------------------------------
(* The daemon.                                                             *)

\* What a request of a command on connection k may do to the saved connections
\* and the pool when it ends with outcome o.
Effect(c, k, o) ==
  \/ c = "list" /\ UNCHANGED daemonVars
  \/ c = "connect" /\ o /\ k \in stored \cup pooled
       /\ pooled' = pooled \cup {k} /\ UNCHANGED stored
  \/ c = "connect" /\ ~o /\ UNCHANGED daemonVars
  \/ c \in {"schema", "db"} /\ k \in stored \cup pooled
       /\ pooled' = pooled \cup {k} /\ UNCHANGED stored
  \/ c \in {"schema", "db"} /\ ~o /\ UNCHANGED daemonVars
  \/ c \in {"cancel", "disconnect"} /\ o
       /\ pooled' = pooled \ {k} /\ UNCHANGED stored
  \/ c = "delete" /\ pooled' = pooled \ {k}
       /\ stored' = IF o THEN stored \ {k} ELSE stored

Serve(i) ==
  /\ alive /\ calls[i].phase = "sent"
  /\ \A j \in 1 .. i - 1 : calls[j].cmd = "cancel" => calls[j].phase # "sent"
  /\ \E o \in BOOLEAN :
       /\ Effect(calls[i].cmd, calls[i].conn, o)
       /\ calls' = [calls EXCEPT
            ![i].phase = IF @ = "sent" /\ calls[i].cmd \in WithReply
                         THEN "served" ELSE "done",
            ![i].ok = o,
            ![i].listed = IF o /\ calls[i].cmd = "list" THEN stored ELSE @]
  /\ UNCHANGED uiVars

-----------------------------------------------------------------------------
Callback(i) ==
  \/ ReplyNoted(i) \/ ListReply(i)
  \/ ConnectIgnored(i) \/ ConnectFailed(i) \/ ConnectSucceeded(i)
  \/ SchemaIgnored(i) \/ SchemaFailed(i) \/ SchemaLate(i) \/ SchemaLoaded(i)
  \/ DeleteReply(i) \/ DbReply(i)

User ==
  \/ \E k \in tree : Select(k)
  \/ ClickConnect \/ ClickDisconnect \/ ClickRefresh
  \/ \E k \in tree \cup {None} : OpenEdit(k)
  \/ OpenDelete \/ OpenDb \/ Dismiss
  \/ AcceptEdit \/ AcceptDelete \/ AcceptDb

\* The front end crashed, or the user does nothing more.
Rest == (~alive \/ Pending = {}) /\ UNCHANGED vars

Next ==
  \/ User \/ Tick \/ Rest
  \/ \E i \in DOMAIN calls : Callback(i) \/ Serve(i)

Spec == Init /\ [][Next]_vars

\* Requests are served and their answers handled.  There are finitely many, so
\* none is passed over for ever.
Answers == /\ WF_vars(\E i \in DOMAIN calls : Serve(i))
           /\ WF_vars(\E i \in DOMAIN calls : Callback(i))
FairSpec == Spec /\ Answers
-----------------------------------------------------------------------------
(* Safety.                                                                 *)

\* What the window treats as connected or connecting is what the user last
\* asked to connect: no late answer revives a connection that was aborted or
\* disconnected (mainwindow_connections.cpp:307-316, 489-493).
AbortIsFinal == Busy \subseteq wanted

\* Every loading animation ends (mainwindow_connections.cpp:459-466): whatever
\* the user does meanwhile, each has an answer to wait for that stops it.  An
\* entry whose row is freed by a delete or a save is another matter: see Tick.
LoadingEnds == \A k \in Conn : k \in Loading ~> (loading[k] # gen \/ ~alive)

-----------------------------------------------------------------------------
(* A claim of the repository that the code does not keep.                  *)

\* "Dropping: <b>%1</b> on %2 (%3)" (drop_database_dialog.cpp:67): the database
\* is dropped on the connection the dialog named.
DropsWhereShown ==
  \A i \in DOMAIN calls : calls[i].cmd = "db" => calls[i].conn = calls[i].shown
=============================================================================
