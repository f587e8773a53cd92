----------------------------- MODULE SessionPool -----------------------------
(***************************************************************************)
(* What the daemon promises about database sessions, without its threads,  *)
(* its mutex, its flags or its timers.                                     *)
(*                                                                         *)
(*   - a connection has at most one pooled session, and a pooled session   *)
(*     is live;                                                            *)
(*   - a session that a cancel has doomed is never adopted by the pool;    *)
(*   - a session leaves the pool only by ending, and never while a         *)
(*     statement is using it;                                              *)
(*   - a session that has ended never comes back.                          *)
(***************************************************************************)
CONSTANTS Conn, Session, None

VARIABLES
  pool,     \* the pooled session of each connection
  status,   \* of each session
  doomed,   \* sessions whose connect attempt was cancelled
  inUse     \* sessions a statement is running on

vars == <<pool, status, doomed, inUse>>

Init ==
  /\ pool = [k \in Conn |-> None]
  /\ status = [s \in Session |-> "unborn"]
  /\ doomed = {} /\ inUse = {}

Pooled == {pool[k] : k \in Conn}
Becomes(S, v) == status' = [s \in Session |-> IF s \in S THEN v ELSE status[s]]

\* The server accepts or refuses a session.
Open(s) ==
  /\ status[s] = "unborn" /\ Becomes({s}, "live")
  /\ UNCHANGED <<pool, doomed, inUse>>

Refuse(s) ==
  /\ status[s] = "unborn" /\ Becomes({s}, "over")
  /\ UNCHANGED <<pool, doomed, inUse>>

Doom(s) ==
  /\ doomed' = doomed \cup {s}
  /\ UNCHANGED <<pool, status, inUse>>

\* The pool takes a live session, at once for a statement or for later; an
\* entry it finds in the way ends.
Adopt(s, k) ==
  /\ status[s] = "live" /\ s \notin doomed /\ s \notin Pooled
  /\ pool[k] \notin inUse
  /\ pool' = [pool EXCEPT ![k] = s]
  /\ Becomes({pool[k]}, "over")
  /\ inUse' \in {inUse, inUse \cup {s}}
  /\ UNCHANGED doomed

\* The entries of K are closed together.
Retire(K) ==
  /\ \A k \in K : pool[k] \notin inUse
  /\ pool' = [k \in Conn |-> IF k \in K THEN None ELSE pool[k]]
  /\ Becomes({pool[k] : k \in K}, "over")
  /\ UNCHANGED <<doomed, inUse>>

\* A live session that never reached the pool ends.
Discard(s) ==
  /\ status[s] = "live" /\ s \notin Pooled
  /\ Becomes({s}, "over")
  /\ UNCHANGED <<pool, doomed, inUse>>

Acquire(s) ==
  /\ s \in Pooled
  /\ inUse' = inUse \cup {s}
  /\ UNCHANGED <<pool, status, doomed>>

Release(s) ==
  /\ inUse' = inUse \ {s}
  /\ UNCHANGED <<pool, status, doomed>>

Next ==
  \/ \E s \in Session : \/ Open(s) \/ Refuse(s) \/ Doom(s) \/ Discard(s)
                        \/ Acquire(s) \/ Release(s)
                        \/ \E k \in Conn : Adopt(s, k)
  \/ \E K \in SUBSET Conn : Retire(K)

Spec == Init /\ [][Next]_vars
=============================================================================
