---------------------------- MODULE DaemonProofs ----------------------------
(***************************************************************************)
(* The safety of the daemon for every set of connections and every number  *)
(* of requests.                                                            *)
(*                                                                         *)
(* The properties of Daemon are not inductive. IInv adds to them what the  *)
(* code leaves implicit: which states of its session a thread can be in at *)
(* each point of its handler (SessionAt), that unread requests own nothing *)
(* (Unread), which attempt a registered flag belongs to (Registered), that *)
(* at most one statement runs because it holds the mutex (LockHeldByUse),  *)
(* and what is known once the stdin loop is left (Draining).               *)
(***************************************************************************)
EXTENDS Daemon, TLAPS

\* A request is unread exactly when its number is above nread.
Unread ==
  \A r \in Request : /\ pc[r] = "idle" <=> r > nread
                     /\ pc[r] = "idle" => cmd[r] = "none"

\* The commands whose handler has the label.
Handles ==
  \A r \in Request :
    /\ pc[r] \in {"check", "has", "load", "wait", "got", "insert", "end"}
         => cmd[r] = "connect"
    /\ pc[r] \in {"get", "dialing", "running"} => cmd[r] = "use"
    /\ flag[r] => cmd[r] = "connect" /\ pc[r] \notin {"idle", "evict", "run"}

\* What the thread of r may find in its session at each label.
SessionAt ==
  \A r \in Request :
    /\ pc[r] \in {"idle", "evict", "run", "check", "has", "load", "unpool", "get"}
         => sess[r] = "none"
    /\ pc[r] \in {"wait", "dialing"} => sess[r] \in {"dialing", "open", "failed"}
    /\ pc[r] = "got" => sess[r] \in {"open", "failed"}
    /\ pc[r] = "insert" => sess[r] = "open"
    /\ r \in reapers => /\ pc[r] \in {"end", "reply", "done"}
                        /\ sess[r] \in {"dialing", "open", "failed"}
    /\ sess[r] = "dialing" => pc[r] \in {"wait", "dialing"} \/ r \in reapers

\* A pooled session is past its insertion and in nobody else's hands, and
\* get_or_connect dials only while there is no entry.
PooledAt ==
  /\ \A k \in Conn : pool[k] # None =>
       /\ pc[pool[k]] \in {"end", "running", "reply", "done"}
       /\ pool[k] \notin reapers
  /\ \A r \in Request : pc[r] = "dialing" => pool[conn[r]] = None

\* A registered flag belongs to a connect attempt for that connection.
Registered ==
  \A k \in Conn : reg[k] # None =>
    /\ conn[reg[k]] = k /\ cmd[reg[k]] = "connect"
    /\ pc[reg[k]] \notin {"idle", "evict", "run"}

\* The mutex is held across steps exactly by the one request that is inside
\* a statement command.
LockHeldByUse ==
  \A r \in Request :
    lock = r <=> pc[r] \in {"get", "dialing", "running"}

UsingWhenRunning ==
  \A r \in Request : using[r] # None <=> pc[r] = "running"

\* Past the stdin loop no cancel is under way; past an early end of the drain
\* loop no request is; at the exit the pool is empty.
Draining ==
  /\ main # "reading" =>
       \A r \in Request : cmd[r] = "cancel" => pc[r] = "done"
  /\ main \in {"closing", "exited"} /\ ~late =>
       \A r \in Request : pc[r] \in {"idle", "done"}
  /\ main = "exited" => \A k \in Conn : pool[k] = None

ControlInv == TypeOK /\ Unread /\ Handles /\ LockHeldByUse /\ Draining
SessionInv ==
  /\ SessionAt /\ PooledAt /\ UsingWhenRunning
  /\ PoolHoldsOpenSessions /\ StatementKeepsSession /\ OpenSessionIsOwned
CancelInv == Registered /\ FlaggedLeavesPool

IInv == ControlInv /\ SessionInv /\ CancelInv

-----------------------------------------------------------------------------
(* Vocabulary the steps of IInv below expand: the constants, the tuples of   *)
(* UNCHANGED and the abbreviations of Daemon for what a step assigns.      *)

USE DaemonAssumption DEF Request, None, ReqOrNone, AllCommands, Labels,
  SessionStates, mainVars, reqVars, poolVars, cancVars, sessVars, At, Goto,
  Answer, SetSession, Touch

\* What removing entries does: the other entries stay as they were, and only
\* sessions that were pooled are closed.
EntriesRemoved ==
  /\ pool' \in [Conn -> ReqOrNone]
  /\ sess' \in [Request -> SessionStates]
  /\ stale' \subseteq {k \in Conn : pool'[k] # None}
  /\ \A k \in Conn : pool'[k] \in {pool[k], None}
  /\ \A k \in Conn : pool'[k] # None => sess'[pool[k]] = "open"
  /\ \A s \in Request : sess'[s] # sess[s] =>
       /\ sess[s] = "open" /\ sess'[s] = "closed"
       /\ pc[s] \in {"end", "running", "reply", "done"}
       /\ s \notin reapers
  /\ \A s \in Request : sess'[s] = "open" /\ pool[conn[s]] = s =>
       pool'[conn[s]] = s

LEMMA DisconnectEffect ==
  ASSUME NEW K \in SUBSET Conn, ControlInv, SessionInv, Disconnect(K)
  PROVE  EntriesRemoved
  <1> USE DEF ControlInv, SessionInv, TypeOK, SessionAt, PooledAt,
              PoolHoldsOpenSessions, Disconnect
  <1>1. /\ pool' \in [Conn -> ReqOrNone]
        /\ sess' \in [Request -> SessionStates]
        /\ stale' \subseteq {k \in Conn : pool'[k] # None}
        /\ \A k \in Conn : pool'[k] \in {pool[k], None}
    OBVIOUS
  <1>2. ASSUME NEW k \in Conn, pool'[k] # None
        PROVE  sess'[pool[k]] = "open"
    <2>1. pool[k] \in Request /\ pool'[k] = pool[k] /\ k \notin K
      BY <1>2
    <2>2. \A l \in K : pool[l] # pool[k]
      BY <2>1
    <2> QED BY <2>1, <2>2
  <1>3. ASSUME NEW s \in Request, sess'[s] # sess[s]
        PROVE  /\ sess[s] = "open" /\ sess'[s] = "closed"
               /\ pc[s] \in {"end", "running", "reply", "done"}
               /\ s \notin reapers
    <2>1. PICK k \in K : pool[k] = s
      BY <1>3
    <2>2. /\ k \in Conn /\ pool[k] # None
          /\ sess'[s] = "closed"
      BY <2>1
    <2> QED BY <2>1, <2>2
  <1>4. ASSUME NEW s \in Request, sess'[s] = "open", pool[conn[s]] = s
        PROVE  pool'[conn[s]] = s
    <2>1. conn[s] \notin K
      BY <1>4
    <2> QED BY <2>1, <1>4
  <1> QED BY <1>1, <1>2, <1>3, <1>4 DEF EntriesRemoved

-----------------------------------------------------------------------------
(* One lemma per action: each conjunct of IInv holds after it.             *)

LEMMA ReadRequestStep ==
  ASSUME NEW c \in Commands, NEW k \in Conn, IInv, ReadRequest(c, k)
  PROVE  IInv'
  <1> USE DEF IInv, ReadRequest
  <1>1. ControlInv'
    BY DEF ControlInv, TypeOK, Unread, Handles, LockHeldByUse, Draining, SessionInv, SessionAt,
           UsingWhenRunning, StdinBusy
  <1>2. SessionInv'
    BY DEF ControlInv, TypeOK, Unread, Handles, LockHeldByUse, Draining,
           SessionInv, SessionAt, PooledAt, UsingWhenRunning,
           PoolHoldsOpenSessions, StatementKeepsSession, OpenSessionIsOwned
  <1>3. CancelInv'
    BY DEF ControlInv, TypeOK, Unread, Handles, LockHeldByUse, Draining,
           SessionInv, SessionAt, PooledAt, UsingWhenRunning,
           PoolHoldsOpenSessions, StatementKeepsSession, OpenSessionIsOwned,
           CancelInv, Registered, FlaggedLeavesPool
  <1> QED BY <1>1, <1>2, <1>3

LEMMA ReadExitStep ==
  ASSUME IInv, ReadExit
  PROVE  IInv'
  <1> USE DEF IInv, ReadExit
  <1>1. ControlInv'
    BY DEF ControlInv, TypeOK, Unread, Handles, LockHeldByUse, Draining, SessionInv, SessionAt,
           UsingWhenRunning, StdinBusy, ActiveWorkers
  <1>2. SessionInv'
    BY DEF ControlInv, TypeOK, Unread, Handles, LockHeldByUse, Draining,
           SessionInv, SessionAt, PooledAt, UsingWhenRunning,
           PoolHoldsOpenSessions, StatementKeepsSession, OpenSessionIsOwned
  <1>3. CancelInv'
    BY DEF ControlInv, TypeOK, Unread, Handles, LockHeldByUse, Draining,
           SessionInv, SessionAt, PooledAt, UsingWhenRunning,
           PoolHoldsOpenSessions, StatementKeepsSession, OpenSessionIsOwned,
           CancelInv, Registered, FlaggedLeavesPool
  <1> QED BY <1>1, <1>2, <1>3

LEMMA DrainStep ==
  ASSUME IInv, Drain
  PROVE  IInv'
  <1> USE DEF IInv, Drain
  <1>1. ControlInv'
    BY DEF ControlInv, TypeOK, Unread, Handles, LockHeldByUse, Draining, SessionInv, SessionAt,
           UsingWhenRunning, StdinBusy, ActiveWorkers
  <1>2. SessionInv'
    BY DEF ControlInv, TypeOK, Unread, Handles, LockHeldByUse, Draining,
           SessionInv, SessionAt, PooledAt, UsingWhenRunning,
           PoolHoldsOpenSessions, StatementKeepsSession, OpenSessionIsOwned
  <1>3. CancelInv'
    BY DEF ControlInv, TypeOK, Unread, Handles, LockHeldByUse, Draining,
           SessionInv, SessionAt, PooledAt, UsingWhenRunning,
           PoolHoldsOpenSessions, StatementKeepsSession, OpenSessionIsOwned,
           CancelInv, Registered, FlaggedLeavesPool
  <1> QED BY <1>1, <1>2, <1>3

LEMMA CloseAllStep ==
  ASSUME IInv, CloseAll
  PROVE  IInv'
  <1> USE DEF IInv, CloseAll
  <1>0. Conn \in SUBSET Conn /\ Disconnect(Conn)
    BY DEF ControlInv, TypeOK
  <1>1. ControlInv'
    BY DEF ControlInv, TypeOK, Unread, Handles, LockHeldByUse, Draining, Disconnect
  <1>a. EntriesRemoved
    BY <1>0, DisconnectEffect
  <1>2. SessionInv'
    <2> HIDE DEF Disconnect
    <2>1. SessionAt'
      BY <1>a DEF EntriesRemoved, ControlInv, TypeOK, Unread, Handles, LockHeldByUse, Draining, SessionInv, SessionAt
    <2>2. PooledAt' /\ PoolHoldsOpenSessions'
      BY <1>a DEF EntriesRemoved, ControlInv, TypeOK, Unread, Handles, LockHeldByUse, Draining, SessionInv, PooledAt, PoolHoldsOpenSessions
    <2>3. UsingWhenRunning' /\ StatementKeepsSession'
      BY DEF ControlInv, TypeOK, Unread, Handles, LockHeldByUse, Draining, SessionInv, UsingWhenRunning, StatementKeepsSession
    <2>4. OpenSessionIsOwned'
      BY <1>a DEF EntriesRemoved, ControlInv, TypeOK, Unread, Handles, LockHeldByUse, Draining, SessionInv, OpenSessionIsOwned
    <2> QED BY <2>1, <2>2, <2>3, <2>4 DEF SessionInv
  <1>3. CancelInv'
    BY DEF ControlInv, TypeOK, Unread, Handles, LockHeldByUse, Draining,
           SessionInv, SessionAt, PooledAt, UsingWhenRunning,
           PoolHoldsOpenSessions, StatementKeepsSession, OpenSessionIsOwned,
           CancelInv, Registered, FlaggedLeavesPool, Disconnect
  <1> QED BY <1>1, <1>2, <1>3

LEMMA EvictFirstStep ==
  ASSUME NEW r \in Request, IInv, EvictFirst(r)
  PROVE  IInv'
  <1> USE DEF IInv, EvictFirst
  <1>0. stale \in SUBSET Conn /\ Disconnect(stale)
    BY DEF ControlInv, TypeOK
  <1>1. ControlInv'
    BY DEF ControlInv, TypeOK, Unread, Handles, LockHeldByUse, Draining, Disconnect
  <1>a. EntriesRemoved
    BY <1>0, DisconnectEffect
  <1>2. SessionInv'
    <2> HIDE DEF Disconnect
    <2>1. SessionAt'
      BY <1>a DEF EntriesRemoved, ControlInv, TypeOK, Unread, Handles, LockHeldByUse, Draining, SessionInv, SessionAt
    <2>2. PooledAt' /\ PoolHoldsOpenSessions'
      BY <1>a DEF EntriesRemoved, ControlInv, TypeOK, Unread, Handles, LockHeldByUse, Draining, SessionInv, PooledAt, PoolHoldsOpenSessions
    <2>3. UsingWhenRunning' /\ StatementKeepsSession'
      BY DEF ControlInv, TypeOK, Unread, Handles, LockHeldByUse, Draining, SessionInv, UsingWhenRunning, StatementKeepsSession
    <2>4. OpenSessionIsOwned'
      BY <1>a DEF EntriesRemoved, ControlInv, TypeOK, Unread, Handles, LockHeldByUse, Draining, SessionInv, OpenSessionIsOwned
    <2> QED BY <2>1, <2>2, <2>3, <2>4 DEF SessionInv
  <1>3. CancelInv'
    BY DEF ControlInv, TypeOK, Unread, Handles, LockHeldByUse, Draining,
           SessionInv, SessionAt, PooledAt, UsingWhenRunning,
           PoolHoldsOpenSessions, StatementKeepsSession, OpenSessionIsOwned,
           CancelInv, Registered, FlaggedLeavesPool, Disconnect
  <1> QED BY <1>1, <1>2, <1>3

LEMMA ReplyStep ==
  ASSUME NEW r \in Request, IInv, Reply(r)
  PROVE  IInv'
  <1> USE DEF IInv, Reply
  <1>1. ControlInv'
    BY DEF ControlInv, TypeOK, Unread, Handles, LockHeldByUse, Draining, SessionInv, SessionAt,
           UsingWhenRunning
  <1>2. SessionInv'
    BY DEF ControlInv, TypeOK, Unread, Handles, LockHeldByUse, Draining,
           SessionInv, SessionAt, PooledAt, UsingWhenRunning,
           PoolHoldsOpenSessions, StatementKeepsSession, OpenSessionIsOwned
  <1>3. CancelInv'
    BY DEF ControlInv, TypeOK, Unread, Handles, LockHeldByUse, Draining,
           SessionInv, SessionAt, PooledAt, UsingWhenRunning,
           PoolHoldsOpenSessions, StatementKeepsSession, OpenSessionIsOwned,
           CancelInv, Registered, FlaggedLeavesPool
  <1> QED BY <1>1, <1>2, <1>3

LEMMA BeginStep ==
  ASSUME NEW r \in Request, IInv, Begin(r)
  PROVE  IInv'
  <1> USE DEF IInv, Begin
  <1>1. ControlInv'
    BY DEF ControlInv, TypeOK, Unread, Handles, LockHeldByUse, Draining, SessionInv, SessionAt,
           UsingWhenRunning
  <1>2. SessionInv'
    BY DEF ControlInv, TypeOK, Unread, Handles, LockHeldByUse, Draining,
           SessionInv, SessionAt, PooledAt, UsingWhenRunning,
           PoolHoldsOpenSessions, StatementKeepsSession, OpenSessionIsOwned
  <1>3. CancelInv'
    BY DEF ControlInv, TypeOK, Unread, Handles, LockHeldByUse, Draining,
           SessionInv, SessionAt, PooledAt, UsingWhenRunning,
           PoolHoldsOpenSessions, StatementKeepsSession, OpenSessionIsOwned,
           CancelInv, Registered, FlaggedLeavesPool
  <1> QED BY <1>1, <1>2, <1>3

LEMMA CancelledEarlyStep ==
  ASSUME NEW r \in Request, IInv, CancelledEarly(r)
  PROVE  IInv'
  <1> USE DEF IInv, CancelledEarly
  <1>1. ControlInv'
    BY DEF ControlInv, TypeOK, Unread, Handles, LockHeldByUse, Draining, SessionInv, SessionAt,
           UsingWhenRunning
  <1>2. SessionInv'
    BY DEF ControlInv, TypeOK, Unread, Handles, LockHeldByUse, Draining,
           SessionInv, SessionAt, PooledAt, UsingWhenRunning,
           PoolHoldsOpenSessions, StatementKeepsSession, OpenSessionIsOwned
  <1>3. CancelInv'
    BY DEF ControlInv, TypeOK, Unread, Handles, LockHeldByUse, Draining,
           SessionInv, SessionAt, PooledAt, UsingWhenRunning,
           PoolHoldsOpenSessions, StatementKeepsSession, OpenSessionIsOwned,
           CancelInv, Registered, FlaggedLeavesPool
  <1> QED BY <1>1, <1>2, <1>3

LEMMA NotCancelledStep ==
  ASSUME NEW r \in Request, IInv, NotCancelled(r)
  PROVE  IInv'
  <1> USE DEF IInv, NotCancelled
  <1>1. ControlInv'
    BY DEF ControlInv, TypeOK, Unread, Handles, LockHeldByUse, Draining, SessionInv, SessionAt,
           UsingWhenRunning
  <1>2. SessionInv'
    BY DEF ControlInv, TypeOK, Unread, Handles, LockHeldByUse, Draining,
           SessionInv, SessionAt, PooledAt, UsingWhenRunning,
           PoolHoldsOpenSessions, StatementKeepsSession, OpenSessionIsOwned
  <1>3. CancelInv'
    BY DEF ControlInv, TypeOK, Unread, Handles, LockHeldByUse, Draining,
           SessionInv, SessionAt, PooledAt, UsingWhenRunning,
           PoolHoldsOpenSessions, StatementKeepsSession, OpenSessionIsOwned,
           CancelInv, Registered, FlaggedLeavesPool
  <1> QED BY <1>1, <1>2, <1>3

LEMMA AlreadyPooledStep ==
  ASSUME NEW r \in Request, IInv, AlreadyPooled(r)
  PROVE  IInv'
  <1> USE DEF IInv, AlreadyPooled
  <1>0. stale \in SUBSET Conn /\ Disconnect(stale)
    BY DEF ControlInv, TypeOK
  <1>1. ControlInv'
    BY DEF ControlInv, TypeOK, Unread, Handles, LockHeldByUse, Draining, Disconnect
  <1>a. EntriesRemoved
    BY <1>0, DisconnectEffect
  <1>2. SessionInv'
    <2> HIDE DEF Disconnect
    <2>1. SessionAt'
      BY <1>a DEF EntriesRemoved, ControlInv, TypeOK, Unread, Handles, LockHeldByUse, Draining, SessionInv, SessionAt
    <2>2. PooledAt' /\ PoolHoldsOpenSessions'
      BY <1>a DEF EntriesRemoved, ControlInv, TypeOK, Unread, Handles, LockHeldByUse, Draining, SessionInv, PooledAt, PoolHoldsOpenSessions
    <2>3. UsingWhenRunning' /\ StatementKeepsSession'
      BY DEF ControlInv, TypeOK, Unread, Handles, LockHeldByUse, Draining, SessionInv, UsingWhenRunning, StatementKeepsSession
    <2>4. OpenSessionIsOwned'
      BY <1>a DEF EntriesRemoved, ControlInv, TypeOK, Unread, Handles, LockHeldByUse, Draining, SessionInv, OpenSessionIsOwned
    <2> QED BY <2>1, <2>2, <2>3, <2>4 DEF SessionInv
  <1>3. CancelInv'
    BY DEF ControlInv, TypeOK, Unread, Handles, LockHeldByUse, Draining,
           SessionInv, SessionAt, PooledAt, UsingWhenRunning,
           PoolHoldsOpenSessions, StatementKeepsSession, OpenSessionIsOwned,
           CancelInv, Registered, FlaggedLeavesPool, Disconnect
  <1> QED BY <1>1, <1>2, <1>3

LEMMA NotPooledStep ==
  ASSUME NEW r \in Request, IInv, NotPooled(r)
  PROVE  IInv'
  <1> USE DEF IInv, NotPooled
  <1>0. stale \in SUBSET Conn /\ Disconnect(stale)
    BY DEF ControlInv, TypeOK
  <1>1. ControlInv'
    BY DEF ControlInv, TypeOK, Unread, Handles, LockHeldByUse, Draining, Disconnect
  <1>a. EntriesRemoved
    BY <1>0, DisconnectEffect
  <1>2. SessionInv'
    <2> HIDE DEF Disconnect
    <2>1. SessionAt'
      BY <1>a DEF EntriesRemoved, ControlInv, TypeOK, Unread, Handles, LockHeldByUse, Draining, SessionInv, SessionAt
    <2>2. PooledAt' /\ PoolHoldsOpenSessions'
      BY <1>a DEF EntriesRemoved, ControlInv, TypeOK, Unread, Handles, LockHeldByUse, Draining, SessionInv, PooledAt, PoolHoldsOpenSessions
    <2>3. UsingWhenRunning' /\ StatementKeepsSession'
      BY DEF ControlInv, TypeOK, Unread, Handles, LockHeldByUse, Draining, SessionInv, UsingWhenRunning, StatementKeepsSession
    <2>4. OpenSessionIsOwned'
      BY <1>a DEF EntriesRemoved, ControlInv, TypeOK, Unread, Handles, LockHeldByUse, Draining, SessionInv, OpenSessionIsOwned
    <2> QED BY <2>1, <2>2, <2>3, <2>4 DEF SessionInv
  <1>3. CancelInv'
    BY DEF ControlInv, TypeOK, Unread, Handles, LockHeldByUse, Draining,
           SessionInv, SessionAt, PooledAt, UsingWhenRunning,
           PoolHoldsOpenSessions, StatementKeepsSession, OpenSessionIsOwned,
           CancelInv, Registered, FlaggedLeavesPool, Disconnect
  <1> QED BY <1>1, <1>2, <1>3

LEMMA LoadFailsStep ==
  ASSUME NEW r \in Request, IInv, LoadFails(r)
  PROVE  IInv'
  <1> USE DEF IInv, LoadFails
  <1>1. ControlInv'
    BY DEF ControlInv, TypeOK, Unread, Handles, LockHeldByUse, Draining, SessionInv, SessionAt,
           UsingWhenRunning
  <1>2. SessionInv'
    BY DEF ControlInv, TypeOK, Unread, Handles, LockHeldByUse, Draining,
           SessionInv, SessionAt, PooledAt, UsingWhenRunning,
           PoolHoldsOpenSessions, StatementKeepsSession, OpenSessionIsOwned
  <1>3. CancelInv'
    BY DEF ControlInv, TypeOK, Unread, Handles, LockHeldByUse, Draining,
           SessionInv, SessionAt, PooledAt, UsingWhenRunning,
           PoolHoldsOpenSessions, StatementKeepsSession, OpenSessionIsOwned,
           CancelInv, Registered, FlaggedLeavesPool
  <1> QED BY <1>1, <1>2, <1>3

LEMMA SpawnHelperStep ==
  ASSUME NEW r \in Request, IInv, SpawnHelper(r)
  PROVE  IInv'
  <1> USE DEF IInv, SpawnHelper
  <1>1. ControlInv'
    BY DEF ControlInv, TypeOK, Unread, Handles, LockHeldByUse, Draining, SessionInv, SessionAt,
           UsingWhenRunning
  <1>2. SessionInv'
    <2> USE DEF ControlInv, TypeOK, SessionInv
    <2>1. SessionAt'
      BY DEF SessionAt
    <2>2. \A k \in Conn : pool[k] # None => pool[k] # r
      BY DEF SessionAt, PooledAt, PoolHoldsOpenSessions
    <2>3. PooledAt'
      BY <2>2 DEF PooledAt
    <2>4. PoolHoldsOpenSessions'
      BY <2>2 DEF PoolHoldsOpenSessions
    <2>5. UsingWhenRunning'
      BY DEF UsingWhenRunning
    <2>6. StatementKeepsSession'
      <3>1. ASSUME NEW q \in Request, pc[q] = "running"
            PROVE  pool[conn[q]] = using[q] /\ sess'[using[q]] = "open"
        BY <2>2, <3>1 DEF StatementKeepsSession, UsingWhenRunning
      <3> QED BY <3>1 DEF StatementKeepsSession
    <2>7. OpenSessionIsOwned'
      BY DEF SessionAt, OpenSessionIsOwned
    <2> QED BY <2>1, <2>3, <2>4, <2>5, <2>6, <2>7
  <1>3. CancelInv'
    BY DEF ControlInv, TypeOK, Unread, Handles, LockHeldByUse, Draining,
           SessionInv, SessionAt, PooledAt, UsingWhenRunning,
           PoolHoldsOpenSessions, StatementKeepsSession, OpenSessionIsOwned,
           CancelInv, Registered, FlaggedLeavesPool
  <1> QED BY <1>1, <1>2, <1>3

LEMMA ReceiveResultStep ==
  ASSUME NEW r \in Request, IInv, ReceiveResult(r)
  PROVE  IInv'
  <1> USE DEF IInv, ReceiveResult
  <1>1. ControlInv'
    BY DEF ControlInv, TypeOK, Unread, Handles, LockHeldByUse, Draining, SessionInv, SessionAt,
           UsingWhenRunning
  <1>2. SessionInv'
    BY DEF ControlInv, TypeOK, Unread, Handles, LockHeldByUse, Draining,
           SessionInv, SessionAt, PooledAt, UsingWhenRunning,
           PoolHoldsOpenSessions, StatementKeepsSession, OpenSessionIsOwned
  <1>3. CancelInv'
    BY DEF ControlInv, TypeOK, Unread, Handles, LockHeldByUse, Draining,
           SessionInv, SessionAt, PooledAt, UsingWhenRunning,
           PoolHoldsOpenSessions, StatementKeepsSession, OpenSessionIsOwned,
           CancelInv, Registered, FlaggedLeavesPool
  <1> QED BY <1>1, <1>2, <1>3

LEMMA AbandonToReaperStep ==
  ASSUME NEW r \in Request, IInv, AbandonToReaper(r)
  PROVE  IInv'
  <1> USE DEF IInv, AbandonToReaper
  <1>1. ControlInv'
    BY DEF ControlInv, TypeOK, Unread, Handles, LockHeldByUse, Draining, SessionInv, SessionAt,
           UsingWhenRunning
  <1>2. SessionInv'
    BY DEF ControlInv, TypeOK, Unread, Handles, LockHeldByUse, Draining,
           SessionInv, SessionAt, PooledAt, UsingWhenRunning,
           PoolHoldsOpenSessions, StatementKeepsSession, OpenSessionIsOwned
  <1>3. CancelInv'
    BY DEF ControlInv, TypeOK, Unread, Handles, LockHeldByUse, Draining,
           SessionInv, SessionAt, PooledAt, UsingWhenRunning,
           PoolHoldsOpenSessions, StatementKeepsSession, OpenSessionIsOwned,
           CancelInv, Registered, FlaggedLeavesPool
  <1> QED BY <1>1, <1>2, <1>3

LEMMA ResultCancelledStep ==
  ASSUME NEW r \in Request, IInv, ResultCancelled(r)
  PROVE  IInv'
  <1> USE DEF IInv, ResultCancelled
  <1>1. ControlInv'
    BY DEF ControlInv, TypeOK, Unread, Handles, LockHeldByUse, Draining, SessionInv, SessionAt,
           UsingWhenRunning
  <1>2. SessionInv'
    <2> USE DEF ControlInv, TypeOK, SessionInv
    <2>1. SessionAt'
      BY DEF SessionAt
    <2>2. \A k \in Conn : pool[k] # None => pool[k] # r
      BY DEF SessionAt, PooledAt, PoolHoldsOpenSessions
    <2>3. PooledAt'
      BY <2>2 DEF PooledAt
    <2>4. PoolHoldsOpenSessions'
      BY <2>2 DEF PoolHoldsOpenSessions
    <2>5. UsingWhenRunning'
      BY DEF UsingWhenRunning
    <2>6. StatementKeepsSession'
      <3>1. ASSUME NEW q \in Request, pc[q] = "running"
            PROVE  pool[conn[q]] = using[q] /\ sess'[using[q]] = "open"
        BY <2>2, <3>1 DEF StatementKeepsSession, UsingWhenRunning
      <3> QED BY <3>1 DEF StatementKeepsSession
    <2>7. OpenSessionIsOwned'
      BY DEF SessionAt, OpenSessionIsOwned
    <2> QED BY <2>1, <2>3, <2>4, <2>5, <2>6, <2>7
  <1>3. CancelInv'
    BY DEF ControlInv, TypeOK, Unread, Handles, LockHeldByUse, Draining,
           SessionInv, SessionAt, PooledAt, UsingWhenRunning,
           PoolHoldsOpenSessions, StatementKeepsSession, OpenSessionIsOwned,
           CancelInv, Registered, FlaggedLeavesPool
  <1> QED BY <1>1, <1>2, <1>3

LEMMA ResultFailedStep ==
  ASSUME NEW r \in Request, IInv, ResultFailed(r)
  PROVE  IInv'
  <1> USE DEF IInv, ResultFailed
  <1>1. ControlInv'
    BY DEF ControlInv, TypeOK, Unread, Handles, LockHeldByUse, Draining, SessionInv, SessionAt,
           UsingWhenRunning
  <1>2. SessionInv'
    BY DEF ControlInv, TypeOK, Unread, Handles, LockHeldByUse, Draining,
           SessionInv, SessionAt, PooledAt, UsingWhenRunning,
           PoolHoldsOpenSessions, StatementKeepsSession, OpenSessionIsOwned
  <1>3. CancelInv'
    BY DEF ControlInv, TypeOK, Unread, Handles, LockHeldByUse, Draining,
           SessionInv, SessionAt, PooledAt, UsingWhenRunning,
           PoolHoldsOpenSessions, StatementKeepsSession, OpenSessionIsOwned,
           CancelInv, Registered, FlaggedLeavesPool
  <1> QED BY <1>1, <1>2, <1>3

LEMMA ResultOpenStep ==
  ASSUME NEW r \in Request, IInv, ResultOpen(r)
  PROVE  IInv'
  <1> USE DEF IInv, ResultOpen
  <1>1. ControlInv'
    BY DEF ControlInv, TypeOK, Unread, Handles, LockHeldByUse, Draining, SessionInv, SessionAt,
           UsingWhenRunning
  <1>2. SessionInv'
    BY DEF ControlInv, TypeOK, Unread, Handles, LockHeldByUse, Draining,
           SessionInv, SessionAt, PooledAt, UsingWhenRunning,
           PoolHoldsOpenSessions, StatementKeepsSession, OpenSessionIsOwned
  <1>3. CancelInv'
    BY DEF ControlInv, TypeOK, Unread, Handles, LockHeldByUse, Draining,
           SessionInv, SessionAt, PooledAt, UsingWhenRunning,
           PoolHoldsOpenSessions, StatementKeepsSession, OpenSessionIsOwned,
           CancelInv, Registered, FlaggedLeavesPool
  <1> QED BY <1>1, <1>2, <1>3

LEMMA InsertCancelledStep ==
  ASSUME NEW r \in Request, IInv, InsertCancelled(r)
  PROVE  IInv'
  <1> USE DEF IInv, InsertCancelled
  <1>1. ControlInv'
    BY DEF ControlInv, TypeOK, Unread, Handles, LockHeldByUse, Draining, SessionInv, SessionAt,
           UsingWhenRunning
  <1>2. SessionInv'
    <2> USE DEF ControlInv, TypeOK, SessionInv
    <2>1. SessionAt'
      BY DEF SessionAt
    <2>2. \A k \in Conn : pool[k] # None => pool[k] # r
      BY DEF SessionAt, PooledAt, PoolHoldsOpenSessions
    <2>3. PooledAt'
      BY <2>2 DEF PooledAt
    <2>4. PoolHoldsOpenSessions'
      BY <2>2 DEF PoolHoldsOpenSessions
    <2>5. UsingWhenRunning'
      BY DEF UsingWhenRunning
    <2>6. StatementKeepsSession'
      <3>1. ASSUME NEW q \in Request, pc[q] = "running"
            PROVE  pool[conn[q]] = using[q] /\ sess'[using[q]] = "open"
        BY <2>2, <3>1 DEF StatementKeepsSession, UsingWhenRunning
      <3> QED BY <3>1 DEF StatementKeepsSession
    <2>7. OpenSessionIsOwned'
      BY DEF SessionAt, OpenSessionIsOwned
    <2> QED BY <2>1, <2>3, <2>4, <2>5, <2>6, <2>7
  <1>3. CancelInv'
    BY DEF ControlInv, TypeOK, Unread, Handles, LockHeldByUse, Draining,
           SessionInv, SessionAt, PooledAt, UsingWhenRunning,
           PoolHoldsOpenSessions, StatementKeepsSession, OpenSessionIsOwned,
           CancelInv, Registered, FlaggedLeavesPool
  <1> QED BY <1>1, <1>2, <1>3

LEMMA InsertConnectedStep ==
  ASSUME NEW r \in Request, IInv, InsertConnected(r)
  PROVE  IInv'
  <1> USE DEF IInv, InsertConnected
  <1>1. ControlInv'
    BY DEF ControlInv, TypeOK, Unread, Handles, LockHeldByUse, Draining, SessionInv, SessionAt,
           UsingWhenRunning, PutEntry
  <1>2. SessionInv'
    <2> USE DEF ControlInv, TypeOK, SessionInv, PutEntry
    <2>1. /\ r # None /\ pc'[r] = "end" /\ sess'[r] = "open" /\ r \notin reapers
          /\ \A s \in Request : s # r => pc'[s] = pc[s]
          /\ \A k \in Conn : pool[k] # r
      <3>1. r # None /\ r \notin reapers /\ sess[r] = "open" /\ pc[r] = "insert"
        <4> HIDE DEF PutEntry
        <4>1. r # None
          OBVIOUS
        <4>2. pc[r] = "insert"
          OBVIOUS
        <4>3. sess[r] = "open" /\ r \notin reapers
          BY <4>2 DEF SessionAt
        <4> QED BY <4>1, <4>2, <4>3
      <3>2. \A k \in Conn : pool[k] # None => pool[k] # r
        BY DEF SessionAt, PooledAt, PoolHoldsOpenSessions
      <3>3. \A k \in Conn : pool[k] # r
        BY <3>1, <3>2
      <3>4. pc'[r] = "end" /\ \A s \in Request : s # r => pc'[s] = pc[s]
        OBVIOUS
      <3>5. sess'[r] = "open"
        BY <3>1, <3>3
      <3> QED BY <3>1, <3>3, <3>4, <3>5
    <2>2. \A k \in Conn : pool'[k] = IF k = conn[r] THEN r ELSE pool[k]
      OBVIOUS
    <2>3. \A k \in Conn : k # conn[r] /\ pool[k] # None =>
            pool[k] # pool[conn[r]] /\ sess'[pool[k]] = sess[pool[k]]
      BY DEF PoolHoldsOpenSessions
    <2>4. \A s \in Request : sess'[s] # sess[s] =>
            /\ s = pool[conn[r]] /\ sess[s] = "open" /\ sess'[s] = "dropped"
            /\ pc[s] \in {"end", "running", "reply", "done"} /\ s \notin reapers
      BY DEF PooledAt, PoolHoldsOpenSessions
    <2> HIDE DEF PutEntry
    <2>5. SessionAt'
      <3> SUFFICES ASSUME NEW s \in Request PROVE SessionAt!(s)'
        BY DEF SessionAt
      <3> QED BY <2>1, <2>4 DEF SessionAt
    <2>6. PooledAt'
      <3>1. \A q \in Request : pc[q] # "dialing"
        BY DEF LockHeldByUse
      <3> QED BY <2>1, <2>2, <3>1 DEF PooledAt
    <2>7. PoolHoldsOpenSessions'
      BY <2>1, <2>2, <2>3 DEF PoolHoldsOpenSessions
    <2>8. UsingWhenRunning' /\ StatementKeepsSession'
      BY DEF LockHeldByUse, UsingWhenRunning, StatementKeepsSession
    <2>9. OpenSessionIsOwned'
      <3> SUFFICES ASSUME NEW s \in Request, s # r, sess'[s] = "open",
                          pool'[conn[s]] # s
                   PROVE  s \in reapers \/ pc[s] \in {"wait", "got", "insert", "dialing"}
        BY <2>1, <2>2 DEF OpenSessionIsOwned
      <3>1. sess[s] = "open"
        BY <2>4
      <3>2. pool[conn[s]] # s
        BY <2>2 DEF PutEntry
      <3> QED BY <3>1, <3>2 DEF OpenSessionIsOwned
    <2> QED BY <2>5, <2>6, <2>7, <2>8, <2>9
  <1>3. CancelInv'
    BY DEF ControlInv, TypeOK, Unread, Handles, LockHeldByUse, Draining,
           SessionInv, SessionAt, PooledAt, UsingWhenRunning,
           PoolHoldsOpenSessions, StatementKeepsSession, OpenSessionIsOwned,
           CancelInv, Registered, FlaggedLeavesPool, PutEntry
  <1> QED BY <1>1, <1>2, <1>3

LEMMA EndStep ==
  ASSUME NEW r \in Request, IInv, End(r)
  PROVE  IInv'
  <1> USE DEF IInv, End
  <1>1. ControlInv'
    BY DEF ControlInv, TypeOK, Unread, Handles, LockHeldByUse, Draining, SessionInv, SessionAt,
           UsingWhenRunning
  <1>2. SessionInv'
    BY DEF ControlInv, TypeOK, Unread, Handles, LockHeldByUse, Draining,
           SessionInv, SessionAt, PooledAt, UsingWhenRunning,
           PoolHoldsOpenSessions, StatementKeepsSession, OpenSessionIsOwned
  <1>3. CancelInv'
    BY DEF ControlInv, TypeOK, Unread, Handles, LockHeldByUse, Draining,
           SessionInv, SessionAt, PooledAt, UsingWhenRunning,
           PoolHoldsOpenSessions, StatementKeepsSession, OpenSessionIsOwned,
           CancelInv, Registered, FlaggedLeavesPool
  <1> QED BY <1>1, <1>2, <1>3

LEMMA SetFlagStep ==
  ASSUME NEW r \in Request, IInv, SetFlag(r)
  PROVE  IInv'
  <1> USE DEF IInv, SetFlag
  <1>1. ControlInv'
    <2> USE DEF ControlInv, TypeOK, Handles
    <2>1. ASSUME NEW a \in Request, flag'[a]
          PROVE  /\ cmd[a] = "connect"
                 /\ pc'[a] \notin {"idle", "evict", "run"}
      <3>1. CASE flag[a]
        BY <3>1
      <3>2. CASE a = reg[conn[r]]
        BY <3>2 DEF CancelInv, Registered
      <3> QED BY <2>1, <3>1, <3>2
    <2>2. Handles'
      BY <2>1
    <2>3. TypeOK' /\ Unread'
      BY DEF Unread
    <2>4. LockHeldByUse'
      BY DEF LockHeldByUse
    <2>5. Draining'
      BY DEF Draining
    <2> QED BY <2>2, <2>3, <2>4, <2>5
  <1>2. SessionInv'
    BY DEF ControlInv, TypeOK, Unread, Handles, LockHeldByUse, Draining,
           SessionInv, SessionAt, PooledAt, UsingWhenRunning,
           PoolHoldsOpenSessions, StatementKeepsSession, OpenSessionIsOwned
  <1>3. CancelInv'
    <2>1. Registered'
      BY DEF ControlInv, TypeOK, Unread, Handles, LockHeldByUse, Draining, CancelInv, Registered, FlaggedLeavesPool
    <2>2. ASSUME NEW a \in Request, flag'[a], pool'[conn'[a]] = a
          PROVE  \E w \in Request : conn'[w] = conn'[a] /\ pc'[w] = "unpool"
      <3>1. CASE flag[a]
        BY <3>1, <2>2 DEF ControlInv, TypeOK, Unread, Handles, LockHeldByUse, Draining, CancelInv, Registered, FlaggedLeavesPool
      <3>2. CASE a = reg[conn[r]]
        BY <3>2 DEF ControlInv, TypeOK, Unread, Handles, LockHeldByUse, Draining, CancelInv, Registered, FlaggedLeavesPool
      <3> QED BY <2>2, <3>1, <3>2 DEF ControlInv, TypeOK, Unread, Handles, LockHeldByUse, Draining
    <2> QED BY <2>1, <2>2 DEF CancelInv, FlaggedLeavesPool
  <1> QED BY <1>1, <1>2, <1>3

LEMMA UnpoolStep ==
  ASSUME NEW r \in Request, IInv, Unpool(r)
  PROVE  IInv'
  <1> USE DEF IInv, Unpool
  <1>0. {conn[r]} \in SUBSET Conn /\ Disconnect({conn[r]})
    BY DEF ControlInv, TypeOK
  <1>1. ControlInv'
    BY DEF ControlInv, TypeOK, Unread, Handles, LockHeldByUse, Draining, Disconnect
  <1>a. EntriesRemoved
    BY <1>0, DisconnectEffect
  <1>2. SessionInv'
    <2> HIDE DEF Disconnect
    <2>1. SessionAt'
      BY <1>a DEF EntriesRemoved, ControlInv, TypeOK, Unread, Handles, LockHeldByUse, Draining, SessionInv, SessionAt
    <2>2. PooledAt' /\ PoolHoldsOpenSessions'
      BY <1>a DEF EntriesRemoved, ControlInv, TypeOK, Unread, Handles, LockHeldByUse, Draining, SessionInv, PooledAt, PoolHoldsOpenSessions
    <2>3. UsingWhenRunning' /\ StatementKeepsSession'
      BY DEF ControlInv, TypeOK, Unread, Handles, LockHeldByUse, Draining, SessionInv, UsingWhenRunning, StatementKeepsSession
    <2>4. OpenSessionIsOwned'
      BY <1>a DEF EntriesRemoved, ControlInv, TypeOK, Unread, Handles, LockHeldByUse, Draining, SessionInv, OpenSessionIsOwned
    <2> QED BY <2>1, <2>2, <2>3, <2>4 DEF SessionInv
  <1>3. CancelInv'
    BY DEF ControlInv, TypeOK, Unread, Handles, LockHeldByUse, Draining,
           SessionInv, SessionAt, PooledAt, UsingWhenRunning,
           PoolHoldsOpenSessions, StatementKeepsSession, OpenSessionIsOwned,
           CancelInv, Registered, FlaggedLeavesPool, Disconnect
  <1> QED BY <1>1, <1>2, <1>3

LEMMA DeleteConnectionStep ==
  ASSUME NEW r \in Request, IInv, DeleteConnection(r)
  PROVE  IInv'
  <1> USE DEF IInv, DeleteConnection
  <1>0. {conn[r]} \in SUBSET Conn /\ Disconnect({conn[r]})
    BY DEF ControlInv, TypeOK
  <1>1. ControlInv'
    BY DEF ControlInv, TypeOK, Unread, Handles, LockHeldByUse, Draining, Disconnect
  <1>a. EntriesRemoved
    BY <1>0, DisconnectEffect
  <1>2. SessionInv'
    <2> HIDE DEF Disconnect
    <2>1. SessionAt'
      BY <1>a DEF EntriesRemoved, ControlInv, TypeOK, Unread, Handles, LockHeldByUse, Draining, SessionInv, SessionAt
    <2>2. PooledAt' /\ PoolHoldsOpenSessions'
      BY <1>a DEF EntriesRemoved, ControlInv, TypeOK, Unread, Handles, LockHeldByUse, Draining, SessionInv, PooledAt, PoolHoldsOpenSessions
    <2>3. UsingWhenRunning' /\ StatementKeepsSession'
      BY DEF ControlInv, TypeOK, Unread, Handles, LockHeldByUse, Draining, SessionInv, UsingWhenRunning, StatementKeepsSession
    <2>4. OpenSessionIsOwned'
      BY <1>a DEF EntriesRemoved, ControlInv, TypeOK, Unread, Handles, LockHeldByUse, Draining, SessionInv, OpenSessionIsOwned
    <2> QED BY <2>1, <2>2, <2>3, <2>4 DEF SessionInv
  <1>3. CancelInv'
    BY DEF ControlInv, TypeOK, Unread, Handles, LockHeldByUse, Draining,
           SessionInv, SessionAt, PooledAt, UsingWhenRunning,
           PoolHoldsOpenSessions, StatementKeepsSession, OpenSessionIsOwned,
           CancelInv, Registered, FlaggedLeavesPool, Disconnect
  <1> QED BY <1>1, <1>2, <1>3

LEMMA DeleteFailsStep ==
  ASSUME NEW r \in Request, IInv, DeleteFails(r)
  PROVE  IInv'
  <1> USE DEF IInv, DeleteFails
  <1>0. {conn[r]} \in SUBSET Conn /\ Disconnect({conn[r]})
    BY DEF ControlInv, TypeOK
  <1>1. ControlInv'
    BY DEF ControlInv, TypeOK, Unread, Handles, LockHeldByUse, Draining, Disconnect
  <1>a. EntriesRemoved
    BY <1>0, DisconnectEffect
  <1>2. SessionInv'
    <2> HIDE DEF Disconnect
    <2>1. SessionAt'
      BY <1>a DEF EntriesRemoved, ControlInv, TypeOK, Unread, Handles, LockHeldByUse, Draining, SessionInv, SessionAt
    <2>2. PooledAt' /\ PoolHoldsOpenSessions'
      BY <1>a DEF EntriesRemoved, ControlInv, TypeOK, Unread, Handles, LockHeldByUse, Draining, SessionInv, PooledAt, PoolHoldsOpenSessions
    <2>3. UsingWhenRunning' /\ StatementKeepsSession'
      BY DEF ControlInv, TypeOK, Unread, Handles, LockHeldByUse, Draining, SessionInv, UsingWhenRunning, StatementKeepsSession
    <2>4. OpenSessionIsOwned'
      BY <1>a DEF EntriesRemoved, ControlInv, TypeOK, Unread, Handles, LockHeldByUse, Draining, SessionInv, OpenSessionIsOwned
    <2> QED BY <2>1, <2>2, <2>3, <2>4 DEF SessionInv
  <1>3. CancelInv'
    BY DEF ControlInv, TypeOK, Unread, Handles, LockHeldByUse, Draining,
           SessionInv, SessionAt, PooledAt, UsingWhenRunning,
           PoolHoldsOpenSessions, StatementKeepsSession, OpenSessionIsOwned,
           CancelInv, Registered, FlaggedLeavesPool, Disconnect
  <1> QED BY <1>1, <1>2, <1>3

LEMMA SaveConnectionStep ==
  ASSUME NEW r \in Request, IInv, SaveConnection(r)
  PROVE  IInv'
  <1> USE DEF IInv, SaveConnection
  <1>1. ControlInv'
    BY DEF ControlInv, TypeOK, Unread, Handles, LockHeldByUse, Draining, SessionInv, SessionAt,
           UsingWhenRunning
  <1>2. SessionInv'
    BY DEF ControlInv, TypeOK, Unread, Handles, LockHeldByUse, Draining,
           SessionInv, SessionAt, PooledAt, UsingWhenRunning,
           PoolHoldsOpenSessions, StatementKeepsSession, OpenSessionIsOwned
  <1>3. CancelInv'
    BY DEF ControlInv, TypeOK, Unread, Handles, LockHeldByUse, Draining,
           SessionInv, SessionAt, PooledAt, UsingWhenRunning,
           PoolHoldsOpenSessions, StatementKeepsSession, OpenSessionIsOwned,
           CancelInv, Registered, FlaggedLeavesPool
  <1> QED BY <1>1, <1>2, <1>3

LEMMA SaveFailsStep ==
  ASSUME NEW r \in Request, IInv, SaveFails(r)
  PROVE  IInv'
  <1> USE DEF IInv, SaveFails
  <1>1. ControlInv'
    BY DEF ControlInv, TypeOK, Unread, Handles, LockHeldByUse, Draining, SessionInv, SessionAt,
           UsingWhenRunning
  <1>2. SessionInv'
    BY DEF ControlInv, TypeOK, Unread, Handles, LockHeldByUse, Draining,
           SessionInv, SessionAt, PooledAt, UsingWhenRunning,
           PoolHoldsOpenSessions, StatementKeepsSession, OpenSessionIsOwned
  <1>3. CancelInv'
    BY DEF ControlInv, TypeOK, Unread, Handles, LockHeldByUse, Draining,
           SessionInv, SessionAt, PooledAt, UsingWhenRunning,
           PoolHoldsOpenSessions, StatementKeepsSession, OpenSessionIsOwned,
           CancelInv, Registered, FlaggedLeavesPool
  <1> QED BY <1>1, <1>2, <1>3

LEMMA ListOrTestStep ==
  ASSUME NEW r \in Request, IInv, ListOrTest(r)
  PROVE  IInv'
  <1> USE DEF IInv, ListOrTest
  <1>1. ControlInv'
    BY DEF ControlInv, TypeOK, Unread, Handles, LockHeldByUse, Draining, SessionInv, SessionAt,
           UsingWhenRunning
  <1>2. SessionInv'
    BY DEF ControlInv, TypeOK, Unread, Handles, LockHeldByUse, Draining,
           SessionInv, SessionAt, PooledAt, UsingWhenRunning,
           PoolHoldsOpenSessions, StatementKeepsSession, OpenSessionIsOwned
  <1>3. CancelInv'
    BY DEF ControlInv, TypeOK, Unread, Handles, LockHeldByUse, Draining,
           SessionInv, SessionAt, PooledAt, UsingWhenRunning,
           PoolHoldsOpenSessions, StatementKeepsSession, OpenSessionIsOwned,
           CancelInv, Registered, FlaggedLeavesPool
  <1> QED BY <1>1, <1>2, <1>3

LEMMA LockForUseStep ==
  ASSUME NEW r \in Request, IInv, LockForUse(r)
  PROVE  IInv'
  <1> USE DEF IInv, LockForUse
  <1>0. stale \in SUBSET Conn /\ Disconnect(stale)
    BY DEF ControlInv, TypeOK
  <1>1. ControlInv'
    BY DEF ControlInv, TypeOK, Unread, Handles, LockHeldByUse, Draining, Disconnect
  <1>a. EntriesRemoved
    BY <1>0, DisconnectEffect
  <1>2. SessionInv'
    <2> HIDE DEF Disconnect
    <2>1. SessionAt'
      BY <1>a DEF EntriesRemoved, ControlInv, TypeOK, Unread, Handles, LockHeldByUse, Draining, SessionInv, SessionAt
    <2>2. PooledAt' /\ PoolHoldsOpenSessions'
      BY <1>a DEF EntriesRemoved, ControlInv, TypeOK, Unread, Handles, LockHeldByUse, Draining, SessionInv, PooledAt, PoolHoldsOpenSessions
    <2>3. UsingWhenRunning' /\ StatementKeepsSession'
      BY DEF ControlInv, TypeOK, Unread, Handles, LockHeldByUse, Draining, SessionInv, UsingWhenRunning, StatementKeepsSession
    <2>4. OpenSessionIsOwned'
      BY <1>a DEF EntriesRemoved, ControlInv, TypeOK, Unread, Handles, LockHeldByUse, Draining, SessionInv, OpenSessionIsOwned
    <2> QED BY <2>1, <2>2, <2>3, <2>4 DEF SessionInv
  <1>3. CancelInv'
    BY DEF ControlInv, TypeOK, Unread, Handles, LockHeldByUse, Draining,
           SessionInv, SessionAt, PooledAt, UsingWhenRunning,
           PoolHoldsOpenSessions, StatementKeepsSession, OpenSessionIsOwned,
           CancelInv, Registered, FlaggedLeavesPool, Disconnect
  <1> QED BY <1>1, <1>2, <1>3

LEMMA ReusePooledStep ==
  ASSUME NEW r \in Request, IInv, ReusePooled(r)
  PROVE  IInv'
  <1> USE DEF IInv, ReusePooled
  <1>1. ControlInv'
    BY DEF ControlInv, TypeOK, Unread, Handles, LockHeldByUse, Draining, SessionInv, SessionAt,
           UsingWhenRunning
  <1>2. SessionInv'
    BY DEF ControlInv, TypeOK, Unread, Handles, LockHeldByUse, Draining,
           SessionInv, SessionAt, PooledAt, UsingWhenRunning,
           PoolHoldsOpenSessions, StatementKeepsSession, OpenSessionIsOwned
  <1>3. CancelInv'
    BY DEF ControlInv, TypeOK, Unread, Handles, LockHeldByUse, Draining,
           SessionInv, SessionAt, PooledAt, UsingWhenRunning,
           PoolHoldsOpenSessions, StatementKeepsSession, OpenSessionIsOwned,
           CancelInv, Registered, FlaggedLeavesPool
  <1> QED BY <1>1, <1>2, <1>3

LEMMA LoadForUseFailsStep ==
  ASSUME NEW r \in Request, IInv, LoadForUseFails(r)
  PROVE  IInv'
  <1> USE DEF IInv, LoadForUseFails
  <1>1. ControlInv'
    BY DEF ControlInv, TypeOK, Unread, Handles, LockHeldByUse, Draining, SessionInv, SessionAt,
           UsingWhenRunning
  <1>2. SessionInv'
    BY DEF ControlInv, TypeOK, Unread, Handles, LockHeldByUse, Draining,
           SessionInv, SessionAt, PooledAt, UsingWhenRunning,
           PoolHoldsOpenSessions, StatementKeepsSession, OpenSessionIsOwned
  <1>3. CancelInv'
    BY DEF ControlInv, TypeOK, Unread, Handles, LockHeldByUse, Draining,
           SessionInv, SessionAt, PooledAt, UsingWhenRunning,
           PoolHoldsOpenSessions, StatementKeepsSession, OpenSessionIsOwned,
           CancelInv, Registered, FlaggedLeavesPool
  <1> QED BY <1>1, <1>2, <1>3

LEMMA ReconnectStep ==
  ASSUME NEW r \in Request, IInv, Reconnect(r)
  PROVE  IInv'
  <1> USE DEF IInv, Reconnect
  <1>1. ControlInv'
    BY DEF ControlInv, TypeOK, Unread, Handles, LockHeldByUse, Draining, SessionInv, SessionAt,
           UsingWhenRunning
  <1>2. SessionInv'
    BY DEF ControlInv, TypeOK, Unread, Handles, LockHeldByUse, Draining,
           SessionInv, SessionAt, PooledAt, UsingWhenRunning,
           PoolHoldsOpenSessions, StatementKeepsSession, OpenSessionIsOwned
  <1>3. CancelInv'
    BY DEF ControlInv, TypeOK, Unread, Handles, LockHeldByUse, Draining,
           SessionInv, SessionAt, PooledAt, UsingWhenRunning,
           PoolHoldsOpenSessions, StatementKeepsSession, OpenSessionIsOwned,
           CancelInv, Registered, FlaggedLeavesPool
  <1> QED BY <1>1, <1>2, <1>3

LEMMA ReconnectSucceedsStep ==
  ASSUME NEW r \in Request, IInv, ReconnectSucceeds(r)
  PROVE  IInv'
  <1> USE DEF IInv, ReconnectSucceeds
  <1>1. ControlInv'
    BY DEF ControlInv, TypeOK, Unread, Handles, LockHeldByUse, Draining, SessionInv, SessionAt,
           UsingWhenRunning
  <1>2. SessionInv'
    <2> USE DEF ControlInv, TypeOK, SessionInv
    <2>0. ASSUME NEW k \in Conn
          PROVE  pool[k] # r
      BY r # None, pc[r] \notin {"end", "running", "reply", "done"} DEF PooledAt
    <2>1. SessionAt'
      BY DEF SessionAt
    <2>2. PooledAt' /\ PoolHoldsOpenSessions'
      <3>1. \A k \in Conn : pool'[k] = IF k = conn[r] THEN r ELSE pool[k]
        OBVIOUS
      <3>2. pc'[r] = "running" /\ sess'[r] = "open" /\ r \notin reapers
        BY DEF SessionAt
      <3>3. \A k \in Conn : pool[k] # None => pc'[pool[k]] = pc[pool[k]]
        BY <2>0
      <3>4. \A q \in Request : pc'[q] # "dialing"
        BY DEF LockHeldByUse
      <3>5. PooledAt'
        BY <3>1, <3>2, <3>3, <3>4 DEF PooledAt
      <3>6. PoolHoldsOpenSessions'
        BY <3>1, <3>2 DEF PoolHoldsOpenSessions
      <3> QED BY <3>5, <3>6
    <2>3. UsingWhenRunning' /\ StatementKeepsSession'
      BY DEF LockHeldByUse, UsingWhenRunning, StatementKeepsSession
    <2>4. OpenSessionIsOwned'
      <3>1. \A k \in Conn : pool'[k] = IF k = conn[r] THEN r ELSE pool[k]
        OBVIOUS
      <3>2. pool[conn[r]] = None
        BY DEF PooledAt
      <3> QED BY <3>1, <3>2 DEF SessionAt, OpenSessionIsOwned
    <2> QED BY <2>1, <2>2, <2>3, <2>4
  <1>3. CancelInv'
    BY DEF ControlInv, TypeOK, Unread, Handles, LockHeldByUse, Draining,
           SessionInv, SessionAt, PooledAt, UsingWhenRunning,
           PoolHoldsOpenSessions, StatementKeepsSession, OpenSessionIsOwned,
           CancelInv, Registered, FlaggedLeavesPool
  <1> QED BY <1>1, <1>2, <1>3

LEMMA ReconnectFailsStep ==
  ASSUME NEW r \in Request, IInv, ReconnectFails(r)
  PROVE  IInv'
  <1> USE DEF IInv, ReconnectFails
  <1>1. ControlInv'
    BY DEF ControlInv, TypeOK, Unread, Handles, LockHeldByUse, Draining, SessionInv, SessionAt,
           UsingWhenRunning
  <1>2. SessionInv'
    BY DEF ControlInv, TypeOK, Unread, Handles, LockHeldByUse, Draining,
           SessionInv, SessionAt, PooledAt, UsingWhenRunning,
           PoolHoldsOpenSessions, StatementKeepsSession, OpenSessionIsOwned
  <1>3. CancelInv'
    BY DEF ControlInv, TypeOK, Unread, Handles, LockHeldByUse, Draining,
           SessionInv, SessionAt, PooledAt, UsingWhenRunning,
           PoolHoldsOpenSessions, StatementKeepsSession, OpenSessionIsOwned,
           CancelInv, Registered, FlaggedLeavesPool
  <1> QED BY <1>1, <1>2, <1>3

LEMMA FinishUseStep ==
  ASSUME NEW r \in Request, IInv, FinishUse(r)
  PROVE  IInv'
  <1> USE DEF IInv, FinishUse
  <1>1. ControlInv'
    BY DEF ControlInv, TypeOK, Unread, Handles, LockHeldByUse, Draining, SessionInv, SessionAt,
           UsingWhenRunning
  <1>2. SessionInv'
    BY DEF ControlInv, TypeOK, Unread, Handles, LockHeldByUse, Draining,
           SessionInv, SessionAt, PooledAt, UsingWhenRunning,
           PoolHoldsOpenSessions, StatementKeepsSession, OpenSessionIsOwned
  <1>3. CancelInv'
    BY DEF ControlInv, TypeOK, Unread, Handles, LockHeldByUse, Draining,
           SessionInv, SessionAt, PooledAt, UsingWhenRunning,
           PoolHoldsOpenSessions, StatementKeepsSession, OpenSessionIsOwned,
           CancelInv, Registered, FlaggedLeavesPool
  <1> QED BY <1>1, <1>2, <1>3

LEMMA DialEndsStep ==
  ASSUME NEW r \in Request, IInv, DialEnds(r)
  PROVE  IInv'
  <1> USE DEF IInv, DialEnds
  <1>1. ControlInv'
    BY DEF ControlInv, TypeOK, Unread, Handles, LockHeldByUse, Draining, SessionInv, SessionAt,
           UsingWhenRunning
  <1>2. SessionInv'
    BY DEF ControlInv, TypeOK, Unread, Handles, LockHeldByUse, Draining,
           SessionInv, SessionAt, PooledAt, UsingWhenRunning,
           PoolHoldsOpenSessions, StatementKeepsSession, OpenSessionIsOwned
  <1>3. CancelInv'
    BY DEF ControlInv, TypeOK, Unread, Handles, LockHeldByUse, Draining,
           SessionInv, SessionAt, PooledAt, UsingWhenRunning,
           PoolHoldsOpenSessions, StatementKeepsSession, OpenSessionIsOwned,
           CancelInv, Registered, FlaggedLeavesPool
  <1> QED BY <1>1, <1>2, <1>3

LEMMA ReapStep ==
  ASSUME NEW r \in Request, IInv, Reap(r)
  PROVE  IInv'
  <1> USE DEF IInv, Reap
  <1>1. ControlInv'
    BY DEF ControlInv, TypeOK, Unread, Handles, LockHeldByUse, Draining, SessionInv, SessionAt,
           UsingWhenRunning
  <1>2. SessionInv'
    <2> USE DEF ControlInv, TypeOK, SessionInv
    <2>1. SessionAt'
      BY DEF SessionAt
    <2>2. \A k \in Conn : pool[k] # None => pool[k] # r
      BY DEF SessionAt, PooledAt, PoolHoldsOpenSessions
    <2>3. PooledAt'
      BY <2>2 DEF PooledAt
    <2>4. PoolHoldsOpenSessions'
      BY <2>2 DEF PoolHoldsOpenSessions
    <2>5. UsingWhenRunning'
      BY DEF UsingWhenRunning
    <2>6. StatementKeepsSession'
      <3>1. ASSUME NEW q \in Request, pc[q] = "running"
            PROVE  pool[conn[q]] = using[q] /\ sess'[using[q]] = "open"
        BY <2>2, <3>1 DEF StatementKeepsSession, UsingWhenRunning
      <3> QED BY <3>1 DEF StatementKeepsSession
    <2>7. OpenSessionIsOwned'
      BY DEF SessionAt, OpenSessionIsOwned
    <2> QED BY <2>1, <2>3, <2>4, <2>5, <2>6, <2>7
  <1>3. CancelInv'
    BY DEF ControlInv, TypeOK, Unread, Handles, LockHeldByUse, Draining,
           SessionInv, SessionAt, PooledAt, UsingWhenRunning,
           PoolHoldsOpenSessions, StatementKeepsSession, OpenSessionIsOwned,
           CancelInv, Registered, FlaggedLeavesPool
  <1> QED BY <1>1, <1>2, <1>3

LEMMA ExpireStep ==
  ASSUME NEW k \in Conn, IInv, Expire(k)
  PROVE  IInv'
  <1> USE DEF IInv, Expire
  <1>1. ControlInv'
    BY DEF ControlInv, TypeOK, Unread, Handles, LockHeldByUse, Draining, SessionInv, SessionAt,
           UsingWhenRunning
  <1>2. SessionInv'
    BY DEF ControlInv, TypeOK, Unread, Handles, LockHeldByUse, Draining,
           SessionInv, SessionAt, PooledAt, UsingWhenRunning,
           PoolHoldsOpenSessions, StatementKeepsSession, OpenSessionIsOwned
  <1>3. CancelInv'
    BY DEF ControlInv, TypeOK, Unread, Handles, LockHeldByUse, Draining,
           SessionInv, SessionAt, PooledAt, UsingWhenRunning,
           PoolHoldsOpenSessions, StatementKeepsSession, OpenSessionIsOwned,
           CancelInv, Registered, FlaggedLeavesPool
  <1> QED BY <1>1, <1>2, <1>3

-----------------------------------------------------------------------------
(* The theorems.                                                           *)

LEMMA InitEstablishes == Init => IInv
  <1> SUFFICES ASSUME Init PROVE IInv
    OBVIOUS
  <1> USE DEF Init
  <1>1. ControlInv
    <2>1. (CHOOSE k \in Conn : TRUE) \in Conn
      OBVIOUS
    <2>2. conn \in [Request -> Conn]
      BY <2>1
    <2>3. TypeOK
      <3>1. main \in {"reading", "draining", "closing", "exited"} /\ late \in BOOLEAN
        OBVIOUS
      <3>2. nread \in 0 .. MaxRequests /\ lock \in ReqOrNone
        OBVIOUS
      <3>3. /\ pool \in [Conn -> ReqOrNone] /\ reg \in [Conn -> ReqOrNone]
            /\ stale \subseteq {k \in Conn : pool[k] # None}
        OBVIOUS
      <3>4. /\ cmd \in [Request -> AllCommands \cup {"none"}]
            /\ pc \in [Request -> Labels]
            /\ out \in [Request -> {"none", "ok", "err", "cancelled"}]
            /\ flag \in [Request -> BOOLEAN]
        OBVIOUS
      <3>5. /\ sess \in [Request -> SessionStates] /\ reapers \subseteq Request
            /\ using \in [Request -> ReqOrNone] /\ stored \subseteq Conn
        OBVIOUS
      <3> QED BY <2>2, <3>1, <3>2, <3>3, <3>4, <3>5 DEF TypeOK
    <2>4. Unread /\ Handles /\ LockHeldByUse /\ Draining
      BY DEF Unread, Handles, LockHeldByUse, Draining
    <2> QED BY <2>3, <2>4 DEF ControlInv
  <1>2. SessionInv
    BY DEF SessionInv, SessionAt, PooledAt, UsingWhenRunning,
           PoolHoldsOpenSessions, StatementKeepsSession, OpenSessionIsOwned
  <1>3. CancelInv
    BY DEF CancelInv, Registered, FlaggedLeavesPool
  <1> QED BY <1>1, <1>2, <1>3 DEF IInv

LEMMA StepPreserves ==
  ASSUME NEW r \in Request, IInv, Step(r)
  PROVE  IInv'
  BY EvictFirstStep, ReplyStep, BeginStep, CancelledEarlyStep, NotCancelledStep,
     AlreadyPooledStep, NotPooledStep, LoadFailsStep, SpawnHelperStep,
     ReceiveResultStep, AbandonToReaperStep, ResultCancelledStep,
     ResultFailedStep, ResultOpenStep, InsertCancelledStep, InsertConnectedStep,
     EndStep, SetFlagStep, UnpoolStep, DeleteConnectionStep, DeleteFailsStep,
     SaveConnectionStep, SaveFailsStep, ListOrTestStep, LockForUseStep,
     ReusePooledStep, LoadForUseFailsStep, ReconnectStep, ReconnectSucceedsStep,
     ReconnectFailsStep
  DEF Step

LEMMA StutterPreserves == IInv /\ UNCHANGED vars => IInv'
  <1> SUFFICES ASSUME IInv, UNCHANGED vars PROVE IInv'
    OBVIOUS
  <1> USE DEF IInv, vars
  <1>1. ControlInv'
    BY DEF ControlInv, TypeOK, Unread, Handles, LockHeldByUse, Draining
  <1>2. SessionInv'
    BY DEF SessionInv, SessionAt, PooledAt, UsingWhenRunning,
           PoolHoldsOpenSessions, StatementKeepsSession, OpenSessionIsOwned
  <1>3. CancelInv'
    BY DEF CancelInv, Registered, FlaggedLeavesPool
  <1> QED BY <1>1, <1>2, <1>3

LEMMA NextPreserves == IInv /\ [Next]_vars => IInv'
  <1> SUFFICES ASSUME IInv, [Next]_vars PROVE IInv'
    OBVIOUS
  <1>1. ASSUME NEW c \in Commands, NEW k \in Conn, ReadRequest(c, k)
        PROVE  IInv'
    BY <1>1, ReadRequestStep
  <1>2. CASE Shutdown
    BY <1>2, ReadExitStep, DrainStep, CloseAllStep DEF Shutdown
  <1>3. ASSUME NEW r \in Request, Step(r) \/ FinishUse(r) \/ DialEnds(r) \/ Reap(r)
        PROVE  IInv'
    BY <1>3, StepPreserves, FinishUseStep, DialEndsStep, ReapStep
  <1>4. ASSUME NEW k \in Conn, Expire(k)
        PROVE  IInv'
    BY <1>4, ExpireStep
  <1>5. CASE Rest
    BY <1>5, StutterPreserves DEF Rest
  <1>6. CASE UNCHANGED vars
    BY <1>6, StutterPreserves
  <1> QED BY <1>1, <1>2, <1>3, <1>4, <1>5, <1>6 DEF Next

\* The inductive invariant holds in every reachable state.
THEOREM Invariance == Spec => []IInv
  BY InitEstablishes, NextPreserves, PTL DEF Spec

\* The state of the daemon is well typed.
THEOREM TypeCorrect == Spec => []TypeOK
  BY Invariance, PTL DEF IInv, ControlInv

\* Pool entries are open sessions of the connection they are filed under.
THEOREM PoolIsSound == Spec => []PoolHoldsOpenSessions
  BY Invariance, PTL DEF IInv, SessionInv

\* No session is closed while a statement runs on it.
THEOREM StatementsAreSafe == Spec => []StatementKeepsSession
  BY Invariance, PTL DEF IInv, SessionInv

\* No attempt survives a cancel or disconnect that reached its flag.
THEOREM CancelWins == Spec => []FlaggedLeavesPool
  BY Invariance, PTL DEF IInv, CancelInv

\* No open session is orphaned.
THEOREM NoOrphanSession == Spec => []OpenSessionIsOwned
  BY Invariance, PTL DEF IInv, SessionInv

\* After a drain in time, the exit leaves open only what a reaper waits for.
THEOREM ExitIsClean == Spec => []CleanExit
  <1>1. ASSUME IInv, main = "exited", ~late, NEW r \in Request
        PROVE  /\ sess[r] = "open" => r \in reapers
               /\ pc[r] \in {"idle", "done"}
    <2>1. pc[r] \in {"idle", "done"}
      BY <1>1 DEF IInv, ControlInv, Draining
    <2>2. conn[r] \in Conn /\ pool[conn[r]] # r
      BY <1>1 DEF IInv, ControlInv, TypeOK, Draining
    <2> QED BY <1>1, <2>1, <2>2 DEF IInv, SessionInv, OpenSessionIsOwned
  <1>2. IInv => CleanExit
    BY <1>1 DEF CleanExit
  <1> QED BY <1>2, Invariance, PTL

-----------------------------------------------------------------------------
(* The daemon implements SessionPool.                                      *)
(*                                                                         *)
(* Under the mapping AbstractPool of Daemon, each step of the daemon is    *)
(* one step of the abstract pool or leaves it alone. The abstract guards   *)
(* are promises, and the daemon keeps them only in the states IInv         *)
(* describes: that a closed entry is not in use follows from the mutex     *)
(* (LockHeldByUse), that an adopted session is live, undoomed and not yet  *)
(* pooled from where its thread is (SessionAt, Handles, PooledAt).         *)

\* The abstract variables, as Daemon's INSTANCE maps them.
AbsStatus == [s \in Request |-> StatusOf(sess[s])]
AbsDoomed == {s \in Request : flag[s]}
AbsInUse  == {using[r] : r \in Request} \ {None}

\* What a step is: the mapping needs less of the vocabulary and the invariant whole.
HIDE DEF AllCommands, Labels, mainVars, reqVars, poolVars, cancVars, sessVars,
  Touch
USE DEF IInv, ControlInv, SessionInv, TypeOK

-----------------------------------------------------------------------------
(* Facts about the mapping.                                                *)

\* While no thread holds the mutex, no session is in use.
LEMMA UnlockedMeansUnused ==
  ASSUME IInv, lock = None
  PROVE  AbsInUse = {}
  <1>1. ASSUME NEW r \in Request
        PROVE  using[r] = None
    BY DEF LockHeldByUse, UsingWhenRunning
  <1> QED BY <1>1 DEF AbsInUse

\* A step that the pool, the sessions' status, the flags and the statements
\* do not notice leaves the abstract pool alone.
LEMMA Unnoticed ==
  ASSUME pool' = pool, flag' = flag, using' = using,
         \A s \in Request : StatusOf(sess'[s]) = StatusOf(sess[s])
  PROVE  UNCHANGED AbstractPool!vars
  <1>1. AbsStatus' = AbsStatus
    BY DEF AbsStatus
  <1>2. AbsDoomed' = AbsDoomed /\ AbsInUse' = AbsInUse
    BY DEF AbsDoomed, AbsInUse
  <1> QED BY <1>1, <1>2 DEF AbstractPool!vars, AbsStatus, AbsDoomed, AbsInUse

\* Removing entries while the mutex is free retires them.
LEMMA DisconnectRetires ==
  ASSUME IInv, NEW K \in SUBSET Conn, Disconnect(K), lock = None,
         flag' = flag, using' = using
  PROVE  AbstractPool!Retire(K)
  <1>1. \A k \in K : pool[k] \notin AbsInUse
    BY UnlockedMeansUnused
  <1>2. ASSUME NEW s \in Request
        PROVE  StatusOf(sess'[s]) = IF s \in {pool[k] : k \in K} THEN "over"
                                    ELSE StatusOf(sess[s])
    BY DEF Disconnect, StatusOf
  <1>3. AbsStatus' = [s \in Request |->
                        IF s \in {pool[k] : k \in K} THEN "over" ELSE AbsStatus[s]]
    BY <1>2 DEF AbsStatus
  <1>4. AbsDoomed' = AbsDoomed /\ AbsInUse' = AbsInUse
    BY DEF AbsDoomed, AbsInUse
  <1>5. pool' = [k \in Conn |-> IF k \in K THEN None ELSE pool[k]]
    BY DEF Disconnect
  <1> QED BY <1>1, <1>3, <1>4, <1>5
          DEF AbstractPool!Retire, AbstractPool!Becomes,
              AbsStatus, AbsDoomed, AbsInUse

-----------------------------------------------------------------------------
(* One lemma per action of the abstract pool.                              *)

LEMMA OpensOrRefuses ==
  ASSUME IInv, NEW r \in Request, DialEnds(r)
  PROVE  AbstractPool!Open(r) \/ AbstractPool!Refuse(r)
  <1> USE DEF DialEnds
  <1>1. AbsStatus[r] = "unborn"
    BY DEF AbsStatus, StatusOf
  <1>2. AbsDoomed' = AbsDoomed /\ AbsInUse' = AbsInUse
    BY DEF AbsDoomed, AbsInUse, cancVars
  <1>3. CASE sess' = [sess EXCEPT ![r] = "open"]
    <2>1. AbsStatus' = [s \in Request |-> IF s \in {r} THEN "live" ELSE AbsStatus[s]]
      BY <1>3 DEF AbsStatus, StatusOf
    <2> QED BY <1>1, <1>2, <2>1 DEF AbstractPool!Open, AbstractPool!Becomes,
               AbsStatus, AbsDoomed, AbsInUse, poolVars
  <1>4. CASE sess' = [sess EXCEPT ![r] = "failed"]
    <2>1. AbsStatus' = [s \in Request |-> IF s \in {r} THEN "over" ELSE AbsStatus[s]]
      BY <1>4 DEF AbsStatus, StatusOf
    <2> QED BY <1>1, <1>2, <2>1 DEF AbstractPool!Refuse, AbstractPool!Becomes,
               AbsStatus, AbsDoomed, AbsInUse, poolVars
  <1> QED BY <1>3, <1>4

LEMMA SetFlagDooms ==
  ASSUME IInv, NEW r \in Request, SetFlag(r)
  PROVE  \/ \E a \in Request : AbstractPool!Doom(a)
         \/ UNCHANGED AbstractPool!vars
  <1> USE DEF SetFlag, sessVars, poolVars
  <1>1. AbsStatus' = AbsStatus /\ AbsInUse' = AbsInUse /\ pool' = pool
    BY DEF AbsStatus, AbsInUse
  <1>2. CASE reg[conn[r]] = None
    <2>1. flag' = flag
      BY <1>2
    <2> QED BY <1>1, <2>1, Unnoticed
  <1>3. CASE reg[conn[r]] \in Request
    <2>1. AbsDoomed' = AbsDoomed \cup {reg[conn[r]]}
      BY <1>3 DEF AbsDoomed
    <2> QED BY <1>1, <1>3, <2>1
            DEF AbstractPool!Doom, AbsStatus, AbsDoomed, AbsInUse
  <1> QED BY <1>2, <1>3

LEMMA InsertAdopts ==
  ASSUME IInv, NEW r \in Request, InsertConnected(r)
  PROVE  \E k \in Conn : AbstractPool!Adopt(r, k)
  <1> USE DEF InsertConnected, PutEntry, cancVars
  <1>1. AbsStatus[r] = "live" /\ r \notin AbsDoomed
    BY DEF SessionAt, AbsStatus, AbsDoomed, StatusOf
  <1>2. ASSUME NEW k \in Conn
        PROVE  pool[k] # r
    BY r # None, pc[r] = "insert" DEF PooledAt
  <1>3. pool[conn[r]] \notin AbsInUse
    BY UnlockedMeansUnused
  <1>4. AbsStatus' = [s \in Request |->
                        IF s \in {pool[conn[r]]} THEN "over" ELSE AbsStatus[s]]
    BY DEF AbsStatus, StatusOf
  <1>5. AbsDoomed' = AbsDoomed /\ AbsInUse' = AbsInUse
    BY DEF AbsDoomed, AbsInUse
  <1>6. PICK k \in Conn : k = conn[r]
    OBVIOUS
  <1>7. AbstractPool!Adopt(r, k)
    BY <1>1, <1>2, <1>3, <1>4, <1>5, <1>6
    DEF AbstractPool!Adopt, AbstractPool!Becomes, AbstractPool!Pooled,
        AbsStatus, AbsDoomed, AbsInUse
  <1> QED BY <1>7

LEMMA ReconnectAdopts ==
  ASSUME IInv, NEW r \in Request, ReconnectSucceeds(r)
  PROVE  \E k \in Conn : AbstractPool!Adopt(r, k)
  <1> USE DEF ReconnectSucceeds, cancVars
  <1>1. AbsStatus[r] = "live"
    BY DEF AbsStatus, StatusOf
  <1>2. r \notin AbsDoomed
    BY DEF Handles, AbsDoomed
  <1>3. r \notin {pool[k] : k \in Conn} /\ pool[conn[r]] = None
    BY DEF PooledAt
  <1>4. AbsStatus' = [s \in Request |->
                        IF s \in {pool[conn[r]]} THEN "over" ELSE AbsStatus[s]]
    BY <1>3 DEF AbsStatus
  <1>5. AbsDoomed' = AbsDoomed
    BY DEF AbsDoomed
  <1>6. AbsInUse' = AbsInUse \cup {r}
    <2>1. using[r] = None
      BY DEF UsingWhenRunning
    <2> QED BY <2>1 DEF AbsInUse
  <1>7. pool[conn[r]] \notin AbsInUse
    BY <1>3 DEF AbsInUse
  <1>8. PICK k \in Conn : k = conn[r]
    OBVIOUS
  <1>9. AbstractPool!Adopt(r, k)
    <2>1. pool' = [pool EXCEPT ![k] = r]
      BY <1>8
    <2> HIDE DEF ReconnectSucceeds, IInv, ControlInv, TypeOK
    <2> QED BY <2>1, <1>1, <1>2, <1>3, <1>4, <1>5, <1>6, <1>7, <1>8
            DEF AbstractPool!Adopt, AbstractPool!Becomes, AbstractPool!Pooled,
                AbsStatus, AbsDoomed, AbsInUse
  <1> QED BY <1>9

\* A session the pool does not hold is closed by the thread that holds it.
LEMMA ClosingDiscards ==
  ASSUME IInv, NEW r \in Request, sess[r] = "open",
         \A k \in Conn : pool[k] # r,
         sess' = [sess EXCEPT ![r] = "closed"],
         pool' = pool, flag' = flag, using' = using
  PROVE  AbstractPool!Discard(r)
  <1>1. AbsStatus[r] = "live"
    BY DEF AbsStatus, StatusOf
  <1>2. AbsStatus' = [s \in Request |-> IF s \in {r} THEN "over" ELSE AbsStatus[s]]
    BY DEF AbsStatus, StatusOf
  <1>3. AbsDoomed' = AbsDoomed /\ AbsInUse' = AbsInUse
    BY DEF AbsDoomed, AbsInUse
  <1> QED BY <1>1, <1>2, <1>3
          DEF AbstractPool!Discard, AbstractPool!Becomes, AbstractPool!Pooled,
              AbsStatus, AbsDoomed, AbsInUse

\* InsertCancelled, ResultCancelled and Reap close a session that was opened
\* and never pooled; there may be none to close.
LEMMA CancelledDiscards ==
  ASSUME IInv, NEW r \in Request,
         InsertCancelled(r) \/ ResultCancelled(r) \/ Reap(r)
  PROVE  AbstractPool!Discard(r) \/ UNCHANGED AbstractPool!vars
  <1> USE DEF InsertCancelled, ResultCancelled, Reap, poolVars, cancVars
  <1>1. pool' = pool /\ flag' = flag /\ using' = using
    OBVIOUS
  <1>2. ASSUME NEW k \in Conn
        PROVE  pool[k] # r
    <2>1. r # None /\ (pc[r] \in {"insert", "got"} \/ r \in reapers)
      OBVIOUS
    <2> QED BY <2>1 DEF PooledAt
  <1>3. CASE sess[r] = "open"
    <2>1. sess' = [sess EXCEPT ![r] = "closed"]
      BY <1>3
    <2> QED BY <1>1, <1>2, <1>3, <2>1, ClosingDiscards
  <1>4. CASE sess[r] # "open"
    <2>1. sess' = sess
      BY <1>4 DEF SessionAt
    <2> QED BY <1>1, <2>1, Unnoticed
  <1> QED BY <1>3, <1>4

LEMMA ReuseAcquires ==
  ASSUME IInv, NEW r \in Request, ReusePooled(r)
  PROVE  \E s \in Request : AbstractPool!Acquire(s)
  <1> USE DEF ReusePooled, cancVars
  <1>1. AbsStatus' = AbsStatus /\ AbsDoomed' = AbsDoomed
    BY DEF AbsStatus, AbsDoomed
  <1>2. pool[conn[r]] \in Request /\ using[r] = None
    BY DEF UsingWhenRunning
  <1>3. AbsInUse' = AbsInUse \cup {pool[conn[r]]}
    BY <1>2 DEF AbsInUse
  <1>4. PICK s \in Request : s = pool[conn[r]]
    BY <1>2
  <1>5. AbstractPool!Acquire(s)
    BY <1>1, <1>2, <1>3, <1>4
    DEF AbstractPool!Acquire, AbstractPool!Pooled, AbsStatus, AbsDoomed, AbsInUse
  <1> QED BY <1>5

\* At most one statement runs, so when it ends nobody else uses its session.
LEMMA FinishReleases ==
  ASSUME IInv, NEW r \in Request, FinishUse(r)
  PROVE  \E s \in Request : AbstractPool!Release(s)
  <1> USE DEF FinishUse, cancVars
  <1>1. AbsStatus' = AbsStatus /\ AbsDoomed' = AbsDoomed
    BY DEF AbsStatus, AbsDoomed
  <1>2. using[r] \in Request
    BY DEF UsingWhenRunning
  <1>3. \A q \in Request : q # r => using[q] = None
    BY DEF LockHeldByUse, UsingWhenRunning
  <1>4. AbsInUse = {using[r]} /\ AbsInUse' = {}
    BY <1>2, <1>3 DEF AbsInUse
  <1>5. PICK s \in Request : s = using[r]
    BY <1>2
  <1>6. AbstractPool!Release(s)
    BY <1>1, <1>4, <1>5
    DEF AbstractPool!Release, AbsStatus, AbsDoomed, AbsInUse
  <1> QED BY <1>6

-----------------------------------------------------------------------------
(* The refinement.                                                         *)

\* The steps that remove entries while they hold, or could take, the mutex.
LEMMA RemovalRetires ==
  ASSUME IInv, NEW r \in Request,
         \/ EvictFirst(r) \/ AlreadyPooled(r) \/ NotPooled(r) \/ LockForUse(r)
         \/ Unpool(r) \/ DeleteConnection(r) \/ DeleteFails(r)
  PROVE  \E K \in SUBSET Conn : AbstractPool!Retire(K)
  <1> USE DEF cancVars
  <1>1. flag' = flag /\ using' = using /\ lock = None
    BY DEF EvictFirst, AlreadyPooled, NotPooled, LockForUse, Unpool,
           DeleteConnection, DeleteFails, sessVars
  <1>2. Disconnect(stale) \/ Disconnect({conn[r]})
    BY DEF EvictFirst, AlreadyPooled, NotPooled, LockForUse, Unpool,
           DeleteConnection, DeleteFails
  <1>3. stale \in SUBSET Conn /\ {conn[r]} \in SUBSET Conn
    OBVIOUS
  <1> QED BY <1>1, <1>2, <1>3, DisconnectRetires

LEMMA StepRefines ==
  ASSUME IInv, NEW r \in Request, Step(r)
  PROVE  AbstractPool!Next \/ UNCHANGED AbstractPool!vars
  <1> USE DEF AbstractPool!Next
  <1>1. CASE \/ EvictFirst(r) \/ AlreadyPooled(r) \/ NotPooled(r) \/ LockForUse(r)
             \/ Unpool(r) \/ DeleteConnection(r) \/ DeleteFails(r)
    BY <1>1, RemovalRetires
  <1>2. CASE SetFlag(r)
    BY <1>2, SetFlagDooms
  <1>3. CASE InsertConnected(r)
    BY <1>3, InsertAdopts
  <1>4. CASE ReconnectSucceeds(r)
    BY <1>4, ReconnectAdopts
  <1>5. CASE InsertCancelled(r) \/ ResultCancelled(r)
    BY <1>5, CancelledDiscards
  <1>6. CASE ReusePooled(r)
    BY <1>6, ReuseAcquires
  <1>7. CASE SpawnHelper(r) \/ Reconnect(r)
    <2>1. sess[r] = "none"
      BY <1>7 DEF SpawnHelper, Reconnect, SessionAt
    <2>2. \A s \in Request : StatusOf(sess'[s]) = StatusOf(sess[s])
      BY <1>7, <2>1 DEF SpawnHelper, Reconnect, StatusOf
    <2> QED BY <1>7, <2>2, Unnoticed
            DEF SpawnHelper, Reconnect, poolVars, cancVars
  <1>8. CASE \/ Reply(r) \/ Begin(r) \/ CancelledEarly(r) \/ NotCancelled(r)
             \/ LoadFails(r) \/ ReceiveResult(r) \/ AbandonToReaper(r)
             \/ ResultFailed(r) \/ ResultOpen(r) \/ End(r)
             \/ SaveConnection(r) \/ SaveFails(r) \/ ListOrTest(r)
             \/ LoadForUseFails(r) \/ ReconnectFails(r)
    <2>1. pool' = pool /\ flag' = flag /\ using' = using /\ sess' = sess
      BY <1>8 DEF Reply, Begin, CancelledEarly, NotCancelled, LoadFails,
         ReceiveResult, AbandonToReaper, ResultFailed, ResultOpen, End,
         SaveConnection, SaveFails, ListOrTest, LoadForUseFails,
         ReconnectFails, poolVars, cancVars, sessVars
    <2> QED BY <2>1, Unnoticed
  <1> QED BY <1>1, <1>2, <1>3, <1>4, <1>5, <1>6, <1>7, <1>8 DEF Step

LEMMA InitRefines == Init => AbstractPool!Init
  <1> SUFFICES ASSUME Init PROVE AbstractPool!Init
    OBVIOUS
  <1>1. AbsStatus = [s \in Request |-> "unborn"] /\ AbsDoomed = {} /\ AbsInUse = {}
    BY DEF Init, AbsStatus, AbsDoomed, AbsInUse, StatusOf
  <1> QED BY <1>1 DEF Init, AbstractPool!Init, AbsStatus, AbsDoomed, AbsInUse

LEMMA NextRefines ==
  IInv /\ [Next]_vars => [AbstractPool!Next]_(AbstractPool!vars)
  <1> SUFFICES ASSUME IInv, [Next]_vars
               PROVE  AbstractPool!Next \/ UNCHANGED AbstractPool!vars
    OBVIOUS
  <1>1. CASE \/ \E c \in Commands \ {"exit"}, k \in Conn : ReadRequest(c, k)
             \/ ReadExit \/ Drain \/ Rest \/ UNCHANGED vars
             \/ \E k \in Conn : Expire(k)
    <2>1. pool' = pool /\ flag' = flag /\ using' = using /\ sess' = sess
      BY <1>1 DEF ReadRequest, ReadExit, Drain, Rest, Expire, vars,
                  poolVars, cancVars, sessVars
    <2> QED BY <2>1, Unnoticed
  <1>2. CASE CloseAll
    BY <1>2, DisconnectRetires DEF CloseAll, cancVars, AbstractPool!Next
  <1>3. ASSUME NEW r \in Request, Step(r)
        PROVE  AbstractPool!Next \/ UNCHANGED AbstractPool!vars
    BY <1>3, StepRefines
  <1>4. ASSUME NEW r \in Request, FinishUse(r)
        PROVE  AbstractPool!Next
    BY <1>4, FinishReleases DEF AbstractPool!Next
  <1>5. ASSUME NEW r \in Request, DialEnds(r)
        PROVE  AbstractPool!Next
    BY <1>5, OpensOrRefuses DEF AbstractPool!Next
  <1>6. ASSUME NEW r \in Request, Reap(r)
        PROVE  AbstractPool!Next \/ UNCHANGED AbstractPool!vars
    BY <1>6, CancelledDiscards DEF AbstractPool!Next
  <1> QED BY <1>1, <1>2, <1>3, <1>4, <1>5, <1>6 DEF Next, Shutdown

\* The daemon with its threads, mutex, flags and timers does to sessions only
\* what SessionPool allows: one pooled session per connection, no doomed
\* session adopted, none ended under a statement, none that comes back
\* (daemon.rs:31-258, 400-664).
THEOREM Refinement == Spec => ImplementsSessionPool
  BY InitRefines, NextRefines, Invariance, PTL
  DEF Spec, ImplementsSessionPool, AbstractPool!Spec
=============================================================================
