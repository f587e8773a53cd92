------------------------------- MODULE Daemon -------------------------------
(***************************************************************************)
(* The bridge daemon (crates/lithedb-bridge/src/daemon.rs): one stdin      *)
(* thread that reads requests and starts a worker thread per request, a    *)
(* ConnectionPool behind one mutex, a CancelRegistry of flags, helper      *)
(* threads that dial a server, reaper threads that close a session whose   *)
(* attempt was cancelled, and the idle eviction of pooled sessions.        *)
(*                                                                         *)
(* A request opens at most one database session, so a session is named by  *)
(* the request that opened it, and so is the cancel flag that              *)
(* CancelRegistry::begin allocates for it.                                 *)
(*                                                                         *)
(* "use" stands for the nine commands that hold the pool lock from         *)
(* get_or_connect to the end of their statement (list-schema,              *)
(* execute-query, fetch-table, table-structure, insert-, update- and       *)
(* delete-row, create- and drop-database), "list" for the two that touch   *)
(* neither the pool nor the store (list-connections, test-connection).     *)
(*                                                                         *)
(* A definition X_Y is a faulty variant of X, no part of Next: it serves   *)
(* to show that a property notices the fault.                              *)
(***************************************************************************)
EXTENDS Naturals, FiniteSets

CONSTANTS
  Conn,          \* ids of saved connections
  MaxRequests,   \* bound on the request lines the daemon reads
  Commands,      \* the commands the front end may send in this instance
  IdleEviction   \* FALSE models LITHEDB_POOL_IDLE_SECS=0

AllCommands ==
  {"connect", "cancel", "disconnect", "use", "delete", "save", "list", "exit"}

ASSUME DaemonAssumption ==
  /\ MaxRequests \in Nat
  /\ Conn # {}
  /\ Commands \subseteq AllCommands
  /\ IdleEviction \in BOOLEAN

Request == 1 .. MaxRequests
None    == 0                       \* no request, no session
ReqOrNone == Request \cup {None}

VARIABLES
  main,      \* where the stdin (main) thread is in run_daemon
  late,      \* the drain loop gave up before active_workers reached 0
  nread,     \* number of request lines read; requests are numbered in order
  cmd,       \* command of a request, "none" before it is read
  conn,      \* its connection id
  pc,        \* where the thread that serves the request is
  out,       \* the outcome the request is, or will be, answered with
  lock,      \* request whose thread holds the pool mutex across steps
  pool,      \* ConnectionPool.entries: the session pooled for a connection
  stale,     \* entries whose last_used is older than the idle timeout
  reg,       \* CancelRegistry.flags: whose flag is registered
  flag,      \* the AtomicBool allocated for a connect request
  sess,      \* state of the session a request opened
  reapers,   \* sessions a reaper thread waits for
  using,     \* the session the running statement of a request was given
  stored     \* connections present in the ConnectionStore

mainVars == <<main, late>>
reqVars  == <<nread, cmd, conn>>
poolVars == <<lock, pool, stale>>
cancVars == <<reg, flag>>
sessVars == <<sess, reapers, using>>
vars == <<mainVars, reqVars, pc, out, poolVars, cancVars, sessVars, stored>>

Labels == {"idle", "evict", "run", "check", "has", "load", "wait", "got",
           "insert", "end", "unpool", "get", "dialing", "running",
           "reply", "done"}
SessionStates == {"none", "dialing", "open", "failed", "closed", "dropped"}

TypeOK ==
  /\ main \in {"reading", "draining", "closing", "exited"}
  /\ late \in BOOLEAN
  /\ nread \in 0 .. MaxRequests
  /\ cmd \in [Request -> AllCommands \cup {"none"}]
  /\ conn \in [Request -> Conn]
  /\ pc \in [Request -> Labels]
  /\ out \in [Request -> {"none", "ok", "err", "cancelled"}]
  /\ lock \in ReqOrNone
  /\ pool \in [Conn -> ReqOrNone]
  /\ stale \subseteq {k \in Conn : pool[k] # None}
  /\ reg \in [Conn -> ReqOrNone]
  /\ flag \in [Request -> BOOLEAN]
  /\ sess \in [Request -> SessionStates]
  /\ reapers \subseteq Request
  /\ using \in [Request -> ReqOrNone]
  /\ stored \subseteq Conn

Init ==
  /\ main = "reading" /\ late = FALSE /\ nread = 0
  /\ cmd = [r \in Request |-> "none"]
  /\ conn = [r \in Request |-> CHOOSE k \in Conn : TRUE]
  /\ pc = [r \in Request |-> "idle"]
  /\ out = [r \in Request |-> "none"]
  /\ lock = None
  /\ pool = [k \in Conn |-> None] /\ stale = {}
  /\ reg = [k \in Conn |-> None]
  /\ flag = [r \in Request |-> FALSE]
  /\ sess = [r \in Request |-> "none"]
  /\ reapers = {}
  /\ using = [r \in Request |-> None]
  /\ stored \in SUBSET Conn

-----------------------------------------------------------------------------
(* Vocabulary.                                                             *)

\* A thread runs only until the process exits.
At(r, label) == main # "exited" /\ pc[r] = label
Goto(r, label) == pc' = [pc EXCEPT ![r] = label]

\* The handler of r returns with an outcome: a guard of the pool it still has
\* in scope is dropped.
Answer(r, o, label) ==
  /\ out' = [out EXCEPT ![r] = o]
  /\ lock' = IF lock = r THEN None ELSE lock
  /\ Goto(r, label)

SetSession(s, v) == sess' = [sess EXCEPT ![s] = v]

\* cancel-connect runs on the stdin thread, which reads nothing meanwhile.
StdinBusy == \E r \in Request : cmd[r] = "cancel" /\ pc[r] # "done"

\* active_workers: every other request that is read and not yet answered.
ActiveWorkers ==
  {r \in Request : cmd[r] # "cancel" /\ pc[r] \notin {"idle", "done"}}

\* Faulty: the removed entry's age outlives it.
Disconnect_KeepsAge(K) ==
  /\ pool' = [k \in Conn |-> IF k \in K THEN None ELSE pool[k]]
  /\ sess' = [s \in Request |->
                IF \E k \in K : pool[k] = s THEN "closed" ELSE sess[s]]
  /\ UNCHANGED stale

\* ConnectionPool::disconnect for each id in K: the entry is removed and its
\* AppState disconnected. evict_idle is Disconnect(stale), disconnect_all is
\* Disconnect(Conn).
Disconnect(K) ==
  /\ pool' = [k \in Conn |-> IF k \in K THEN None ELSE pool[k]]
  /\ sess' = [s \in Request |->
                IF \E k \in K : pool[k] = s THEN "closed" ELSE sess[s]]
  /\ stale' = stale \ K

\* ConnectionPool::touch
Touch(k) == stale' = stale \ {k}

-----------------------------------------------------------------------------
(* The stdin thread.                                                       *)

ReadRequest(c, k) ==
  /\ main = "reading" /\ ~StdinBusy /\ nread < MaxRequests
  /\ nread' = nread + 1
  /\ cmd' = [cmd EXCEPT ![nread + 1] = c]
  /\ conn' = [conn EXCEPT ![nread + 1] = k]
  /\ Goto(nread + 1, "evict")
  /\ UNCHANGED <<mainVars, out, poolVars, cancVars, sessVars, stored>>

\* "exit", or the end of the input.
ReadExit ==
  /\ "exit" \in Commands
  /\ main = "reading" /\ ~StdinBusy
  /\ main' = "draining"
  /\ UNCHANGED <<late, reqVars, pc, out, poolVars, cancVars, sessVars, stored>>

\* Up to 50 sleeps of 100 ms; the loop is left early once no worker is active.
Drain ==
  /\ main = "draining"
  /\ main' = "closing"
  /\ late' = (ActiveWorkers # {})
  /\ UNCHANGED <<reqVars, pc, out, poolVars, cancVars, sessVars, stored>>

\* Faulty: the process ends without disconnect_all.
CloseAll_Skipped ==
  /\ main = "closing" /\ lock = None
  /\ main' = "exited"
  /\ UNCHANGED <<late, reqVars, pc, out, poolVars, cancVars, sessVars, stored>>

\* The final disconnect_all; the process, and every thread in it, ends.
CloseAll ==
  /\ main = "closing" /\ lock = None
  /\ Disconnect(Conn)
  /\ main' = "exited"
  /\ UNCHANGED <<late, reqVars, pc, out, lock, cancVars, reapers, using, stored>>

-----------------------------------------------------------------------------
(* run_command, for every command: evict idle entries, then dispatch.      *)

\* Faulty: eviction does not wait for the statement that holds the lock.
EvictFirst_Unlocked(r) ==
  /\ At(r, "evict")
  /\ Disconnect(stale)
  /\ Goto(r, "run")
  /\ UNCHANGED <<mainVars, reqVars, out, lock, cancVars, reapers, using, stored>>

EvictFirst(r) ==
  /\ At(r, "evict") /\ lock = None
  /\ Disconnect(stale)
  /\ Goto(r, "run")
  /\ UNCHANGED <<mainVars, reqVars, out, lock, cancVars, reapers, using, stored>>

Reply(r) ==
  /\ At(r, "reply")
  /\ Goto(r, "done")
  /\ UNCHANGED <<mainVars, reqVars, out, poolVars, cancVars, sessVars, stored>>

-----------------------------------------------------------------------------
(* connect-connection.                                                     *)

Begin(r) ==
  /\ At(r, "run") /\ cmd[r] = "connect"
  /\ reg' = [reg EXCEPT ![conn[r]] = r]
  /\ Goto(r, "check")
  /\ UNCHANGED <<mainVars, reqVars, out, poolVars, flag, sessVars, stored>>

\* The flag was set before the attempt did anything.
CancelledEarly(r) ==
  /\ At(r, "check") /\ flag[r]
  /\ Answer(r, "cancelled", "end")
  /\ UNCHANGED <<mainVars, reqVars, pool, stale, cancVars, sessVars, stored>>

NotCancelled(r) ==
  /\ At(r, "check") /\ ~flag[r]
  /\ Goto(r, "has")
  /\ UNCHANGED <<mainVars, reqVars, out, poolVars, cancVars, sessVars, stored>>

\* evict_idle, then has(): an entry that was idle too long is not found.
AlreadyPooled(r) ==
  /\ At(r, "has") /\ lock = None
  /\ pool[conn[r]] # None /\ conn[r] \notin stale
  /\ Disconnect(stale)
  /\ Answer(r, "ok", "end")
  /\ UNCHANGED <<mainVars, reqVars, cancVars, reapers, using, stored>>

\* Faulty: the guard of this look at the pool lives as long as the handler.
NotPooled_Holding(r) ==
  /\ At(r, "has") /\ lock = None
  /\ pool[conn[r]] = None \/ conn[r] \in stale
  /\ Disconnect(stale)
  /\ lock' = r
  /\ Goto(r, "load")
  /\ UNCHANGED <<mainVars, reqVars, out, cancVars, reapers, using, stored>>

NotPooled(r) ==
  /\ At(r, "has") /\ lock = None
  /\ pool[conn[r]] = None \/ conn[r] \in stale
  /\ Disconnect(stale)
  /\ Goto(r, "load")
  /\ UNCHANGED <<mainVars, reqVars, out, lock, cancVars, reapers, using, stored>>

\* An unreadable store or keyring fails even when the connection is stored.
LoadFails(r) ==
  /\ At(r, "load")
  /\ Answer(r, "err", "end")
  /\ UNCHANGED <<mainVars, reqVars, pool, stale, cancVars, sessVars, stored>>

SpawnHelper(r) ==
  /\ At(r, "load") /\ conn[r] \in stored
  /\ SetSession(r, "dialing")
  /\ Goto(r, "wait")
  /\ UNCHANGED <<mainVars, reqVars, out, poolVars, cancVars, reapers, using,
                 stored>>

\* recv_timeout returns the helper's message.
ReceiveResult(r) ==
  /\ At(r, "wait") /\ sess[r] # "dialing"
  /\ Goto(r, "got")
  /\ UNCHANGED <<mainVars, reqVars, out, poolVars, cancVars, sessVars, stored>>

\* Faulty: no reaper is left behind.
AbandonToReaper_NoReaper(r) ==
  /\ At(r, "wait") /\ flag[r]
  /\ Answer(r, "cancelled", "end")
  /\ UNCHANGED <<mainVars, reqVars, pool, stale, cancVars, sessVars, stored>>

\* Faulty: the flag is looked at only once the dial has ended.
AbandonToReaper_NoPoll(r) ==
  /\ At(r, "wait") /\ flag[r] /\ sess[r] # "dialing"
  /\ reapers' = reapers \cup {r}
  /\ Answer(r, "cancelled", "end")
  /\ UNCHANGED <<mainVars, reqVars, pool, stale, cancVars, sess, using,
                 stored>>

\* recv_timeout expired and the flag is set. The message may have arrived
\* after the timeout and before the flag was read.
AbandonToReaper(r) ==
  /\ At(r, "wait") /\ flag[r]
  /\ reapers' = reapers \cup {r}
  /\ Answer(r, "cancelled", "end")
  /\ UNCHANGED <<mainVars, reqVars, pool, stale, cancVars, sess, using,
                 stored>>

\* The flag was set while the dial went on: a session it opened is closed.
ResultCancelled(r) ==
  /\ At(r, "got") /\ flag[r]
  /\ SetSession(r, IF sess[r] = "open" THEN "closed" ELSE sess[r])
  /\ Answer(r, "cancelled", "end")
  /\ UNCHANGED <<mainVars, reqVars, pool, stale, cancVars, reapers, using,
                 stored>>

ResultFailed(r) ==
  /\ At(r, "got") /\ ~flag[r] /\ sess[r] = "failed"
  /\ Answer(r, "err", "end")
  /\ UNCHANGED <<mainVars, reqVars, pool, stale, cancVars, sessVars, stored>>

\* Faulty: a failed dial is taken for a session.
ResultOpen_Unchecked(r) ==
  /\ At(r, "got") /\ ~flag[r]
  /\ Goto(r, "insert")
  /\ UNCHANGED <<mainVars, reqVars, out, poolVars, cancVars, sessVars, stored>>

\* Faulty: the lock is taken for this look at the flag, and again to insert.
ResultOpen_Locks(r) ==
  /\ At(r, "got") /\ lock = None /\ ~flag[r] /\ sess[r] = "open"
  /\ lock' = r
  /\ Goto(r, "insert")
  /\ UNCHANGED <<mainVars, reqVars, out, pool, stale, cancVars, sessVars, stored>>

ResultOpen(r) ==
  /\ At(r, "got") /\ ~flag[r] /\ sess[r] = "open"
  /\ Goto(r, "insert")
  /\ UNCHANGED <<mainVars, reqVars, out, poolVars, cancVars, sessVars, stored>>

\* Under the pool lock the flag is read again.
InsertCancelled(r) ==
  /\ At(r, "insert") /\ lock = None /\ flag[r]
  /\ SetSession(r, "closed")
  /\ Answer(r, "cancelled", "end")
  /\ UNCHANGED <<mainVars, reqVars, pool, stale, cancVars, reapers, using,
                 stored>>

\* insert_connected: the AppState of an entry that a concurrent attempt made
\* is overwritten, and merely dropped.
PutEntry(r) ==
  /\ sess' = [s \in Request |->
                IF s = pool[conn[r]] THEN "dropped" ELSE sess[s]]
  /\ pool' = [pool EXCEPT ![conn[r]] = r]
  /\ Touch(conn[r])

\* Faulty: the flag is not read again under the lock.
InsertConnected_NoRecheck(r) ==
  /\ At(r, "insert") /\ lock = None
  /\ PutEntry(r)
  /\ Answer(r, "ok", "end")
  /\ UNCHANGED <<mainVars, reqVars, cancVars, reapers, using, stored>>

InsertConnected(r) ==
  /\ At(r, "insert") /\ lock = None /\ ~flag[r]
  /\ PutEntry(r)
  /\ Answer(r, "ok", "end")
  /\ UNCHANGED <<mainVars, reqVars, cancVars, reapers, using, stored>>

\* CancelRegistry::end removes whatever flag is registered for the connection.
End(r) ==
  /\ At(r, "end")
  /\ reg' = [reg EXCEPT ![conn[r]] = None]
  /\ Goto(r, "reply")
  /\ UNCHANGED <<mainVars, reqVars, out, poolVars, flag, sessVars, stored>>

-----------------------------------------------------------------------------
(* cancel-connect (on the stdin thread) and disconnect-connection.         *)

SetFlag(r) ==
  /\ At(r, "run") /\ cmd[r] \in {"cancel", "disconnect"}
  /\ flag' = [a \in Request |-> flag[a] \/ a = reg[conn[r]]]
  /\ Goto(r, "unpool")
  /\ UNCHANGED <<mainVars, reqVars, out, poolVars, reg, sessVars, stored>>

\* Faulty: the entry is disconnected without the pool lock.
Unpool_Unlocked(r) ==
  /\ At(r, "unpool")
  /\ Disconnect({conn[r]})
  /\ Answer(r, "ok", "reply")
  /\ UNCHANGED <<mainVars, reqVars, cancVars, reapers, using, stored>>

Unpool(r) ==
  /\ At(r, "unpool") /\ lock = None
  /\ Disconnect({conn[r]})
  /\ Answer(r, "ok", "reply")
  /\ UNCHANGED <<mainVars, reqVars, cancVars, reapers, using, stored>>

-----------------------------------------------------------------------------
(* Commands on the saved connections. Their files are modelled in          *)
(* ConnectionStore; here only which connections exist matters.             *)

\* The change is saved; the keyring may fail after it.
DeleteConnection(r) ==
  /\ At(r, "run") /\ cmd[r] = "delete" /\ lock = None /\ conn[r] \in stored
  /\ Disconnect({conn[r]})
  /\ stored' = stored \ {conn[r]}
  /\ \E o \in {"ok", "err"} : Answer(r, o, "reply")
  /\ UNCHANGED <<mainVars, reqVars, cancVars, reapers, using>>

\* The connection is not stored, or its file cannot be read or written: the
\* pool entry is gone all the same.
DeleteFails(r) ==
  /\ At(r, "run") /\ cmd[r] = "delete" /\ lock = None
  /\ Disconnect({conn[r]})
  /\ Answer(r, "err", "reply")
  /\ UNCHANGED <<mainVars, reqVars, cancVars, reapers, using, stored>>

SaveConnection(r) ==
  /\ At(r, "run") /\ cmd[r] = "save"
  /\ stored' = stored \cup {conn[r]}
  /\ \E o \in {"ok", "err"} : Answer(r, o, "reply")
  /\ UNCHANGED <<mainVars, reqVars, pool, stale, cancVars, sessVars>>

SaveFails(r) ==
  /\ At(r, "run") /\ cmd[r] = "save"
  /\ Answer(r, "err", "reply")
  /\ UNCHANGED <<mainVars, reqVars, pool, stale, cancVars, sessVars, stored>>

ListOrTest(r) ==
  /\ At(r, "run") /\ cmd[r] = "list"
  /\ \E o \in {"ok", "err"} : Answer(r, o, "reply")
  /\ UNCHANGED <<mainVars, reqVars, pool, stale, cancVars, sessVars, stored>>

-----------------------------------------------------------------------------
(* Statements: the lock is held from LockForUse to FinishUse.              *)

LockForUse(r) ==
  /\ At(r, "run") /\ cmd[r] = "use" /\ lock = None
  /\ lock' = r
  /\ Disconnect(stale)
  /\ Goto(r, "get")
  /\ UNCHANGED <<mainVars, reqVars, out, cancVars, reapers, using, stored>>

ReusePooled(r) ==
  /\ At(r, "get") /\ pool[conn[r]] # None
  /\ Touch(conn[r])
  /\ using' = [using EXCEPT ![r] = pool[conn[r]]]
  /\ Goto(r, "running")
  /\ UNCHANGED <<mainVars, reqVars, out, lock, pool, cancVars, sess, reapers,
                 stored>>

LoadForUseFails(r) ==
  /\ At(r, "get") /\ pool[conn[r]] = None
  /\ Answer(r, "err", "reply")
  /\ UNCHANGED <<mainVars, reqVars, pool, stale, cancVars, sessVars, stored>>

\* get_or_connect dials on this thread, the pool lock still held.
Reconnect(r) ==
  /\ At(r, "get") /\ pool[conn[r]] = None /\ conn[r] \in stored
  /\ SetSession(r, "dialing")
  /\ Goto(r, "dialing")
  /\ UNCHANGED <<mainVars, reqVars, out, poolVars, cancVars, reapers, using,
                 stored>>

ReconnectSucceeds(r) ==
  /\ At(r, "dialing") /\ sess[r] = "open"
  /\ pool' = [pool EXCEPT ![conn[r]] = r]
  /\ using' = [using EXCEPT ![r] = r]
  /\ Goto(r, "running")
  /\ UNCHANGED <<mainVars, reqVars, out, lock, stale, cancVars, sess, reapers,
                 stored>>

ReconnectFails(r) ==
  /\ At(r, "dialing") /\ sess[r] = "failed"
  /\ Answer(r, "err", "reply")
  /\ UNCHANGED <<mainVars, reqVars, pool, stale, cancVars, sessVars, stored>>

FinishUse(r) ==
  /\ At(r, "running")
  /\ using' = [using EXCEPT ![r] = None]
  /\ \E o \in {"ok", "err"} : Answer(r, o, "reply")
  /\ UNCHANGED <<mainVars, reqVars, pool, stale, cancVars, sess, reapers,
                 stored>>

-----------------------------------------------------------------------------
(* The server's answer to a dial, the reaper threads and the clock.        *)

DialEnds(r) ==
  /\ main # "exited" /\ sess[r] = "dialing"
  /\ \E v \in {"open", "failed"} : SetSession(r, v)
  /\ UNCHANGED <<mainVars, reqVars, pc, out, poolVars, cancVars, reapers, using,
                 stored>>

\* Faulty: the reaper drops a late session instead of disconnecting it.
Reap_Forgets(r) ==
  /\ main # "exited" /\ r \in reapers /\ sess[r] # "dialing"
  /\ reapers' = reapers \ {r}
  /\ UNCHANGED <<mainVars, reqVars, pc, out, poolVars, cancVars, sess, using,
                 stored>>

Reap(r) ==
  /\ main # "exited" /\ r \in reapers /\ sess[r] # "dialing"
  /\ SetSession(r, IF sess[r] = "open" THEN "closed" ELSE sess[r])
  /\ reapers' = reapers \ {r}
  /\ UNCHANGED <<mainVars, reqVars, pc, out, poolVars, cancVars, using, stored>>

\* Nothing used the entry for longer than the idle timeout; last_used is set
\* when a command takes the entry, so this may happen while it still runs.
Expire(k) ==
  /\ IdleEviction /\ main # "exited"
  /\ pool[k] # None /\ k \notin stale
  /\ stale' = stale \cup {k}
  /\ UNCHANGED <<mainVars, reqVars, pc, out, lock, pool, cancVars, sessVars,
                 stored>>

-----------------------------------------------------------------------------
\* Steps a thread takes without waiting for a server.
Step(r) ==
  \/ EvictFirst(r) \/ Reply(r)
  \/ Begin(r) \/ CancelledEarly(r) \/ NotCancelled(r)
  \/ AlreadyPooled(r) \/ NotPooled(r) \/ LoadFails(r) \/ SpawnHelper(r)
  \/ ReceiveResult(r) \/ AbandonToReaper(r)
  \/ ResultCancelled(r) \/ ResultFailed(r) \/ ResultOpen(r)
  \/ InsertCancelled(r) \/ InsertConnected(r) \/ End(r)
  \/ SetFlag(r) \/ Unpool(r)
  \/ DeleteConnection(r) \/ DeleteFails(r) \/ SaveConnection(r) \/ SaveFails(r)
  \/ ListOrTest(r)
  \/ LockForUse(r) \/ ReusePooled(r) \/ LoadForUseFails(r) \/ Reconnect(r)
  \/ ReconnectSucceeds(r) \/ ReconnectFails(r)

Shutdown == ReadExit \/ Drain \/ CloseAll

\* The process has ended, or waits for input that this instance's bound rules
\* out.
Rest ==
  /\ \/ main = "exited"
     \/ "exit" \notin Commands /\ \A r \in Request : pc[r] = "done"
  /\ UNCHANGED vars

Next ==
  \/ \E c \in Commands \ {"exit"}, k \in Conn : ReadRequest(c, k)
  \/ Shutdown
  \/ \E r \in Request : Step(r) \/ FinishUse(r) \/ DialEnds(r) \/ Reap(r)
  \/ \E k \in Conn : Expire(k)
  \/ Rest

Spec == Init /\ [][Next]_vars

\* Threads are scheduled; a server may never answer and a statement may never
\* end.
ThreadFairness ==
  /\ \A r \in Request : WF_vars(Step(r)) /\ WF_vars(Reap(r))
  /\ WF_vars(Drain) /\ WF_vars(CloseAll)

\* A dial ends within the driver's acquire timeout, and statements end.
ServerFairness ==
  \A r \in Request : WF_vars(DialEnds(r)) /\ WF_vars(FinishUse(r))

ThreadSpec == Spec /\ ThreadFairness
FairSpec   == Spec /\ ThreadFairness /\ ServerFairness
-----------------------------------------------------------------------------
(* Safety.                                                                 *)

\* An entry of the pool is an open session of the connection it is filed
\* under, opened by a request for that connection (daemon.rs:82-160).
PoolHoldsOpenSessions ==
  \A k \in Conn : pool[k] # None =>
    sess[pool[k]] = "open" /\ conn[pool[k]] = k

\* While a statement runs, the session it was given stays pooled and open:
\* no cancel, disconnect, delete, eviction or shutdown closes it under the
\* statement (daemon.rs:531-664 hold the guard of get_or_connect's pool).
StatementKeepsSession ==
  \A r \in Request : pc[r] = "running" =>
    pool[conn[r]] = using[r] /\ sess[using[r]] = "open"

\* Once the flag of a connect attempt is set, its session is in the pool at
\* most until the request that set the flag has removed it: an attempt never
\* survives the cancel or disconnect that reached it (daemon.rs:468-474).
FlaggedLeavesPool ==
  \A a \in Request : flag[a] /\ pool[conn[a]] = a =>
    \E r \in Request : conn[r] = conn[a] /\ pc[r] = "unpool"

\* Every open session is in the pool or in the hands of a thread that will
\* pool or disconnect it: the worker that dialed it or its reaper
\* (daemon.rs:441-451).
OpenSessionIsOwned ==
  \A s \in Request : sess[s] = "open" =>
    \/ pool[conn[s]] = s
    \/ s \in reapers
    \/ pc[s] \in {"wait", "got", "insert", "dialing"}

\* When the drain loop saw no active worker, the process exits with every
\* session disconnected except those only a reaper knows, and every request
\* answered (daemon.rs:821-832).
CleanExit ==
  main = "exited" /\ ~late =>
    \A r \in Request : /\ sess[r] = "open" => r \in reapers
                       /\ pc[r] \in {"idle", "done"}

-----------------------------------------------------------------------------
(* Liveness.                                                               *)

\* An attempt whose flag is set is answered although the server never answers
\* its dial (the 50 ms poll of daemon.rs:438-453), unless from some time on a
\* statement, or the dial before it, never gives the pool lock back: the
\* attempt takes that lock to look for an entry and to insert its own.
CancelledIsAnswered ==
  \/ \A a \in Request : flag[a] ~> (pc[a] = "done" \/ main = "exited")
  \/ <>[](lock # None)

\* A session left to a reaper does not stay open.
ReaperDisconnects ==
  \A s \in Request :
    s \in reapers ~> (s \notin reapers /\ sess[s] # "open") \/ main = "exited"

\* Every request that is read is answered, unless the process exits.
EveryRequestAnswered ==
  \A r \in Request : pc[r] # "idle" ~> (pc[r] = "done" \/ main = "exited")

\* Once told to exit, the daemon exits.
ExitTerminates == main = "draining" ~> main = "exited"

-----------------------------------------------------------------------------
(* The abstract pool the daemon implements.                                *)

StatusOf(v) ==
  CASE v \in {"none", "dialing"} -> "unborn"
    [] v = "open" -> "live"
    [] OTHER -> "over"

AbstractPool ==
  INSTANCE SessionPool WITH
    Session <- Request,
    status  <- [s \in Request |-> StatusOf(sess[s])],
    doomed  <- {s \in Request : flag[s]},
    inUse   <- {using[r] : r \in Request} \ {None}

\* Every step of the daemon is a step of the abstract pool or leaves it alone.
ImplementsSessionPool == AbstractPool!Spec
=============================================================================
