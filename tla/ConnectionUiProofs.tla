------------------------- MODULE ConnectionUiProofs -------------------------
(***************************************************************************)
(* The window and the connections the user asked for, for any number of    *)
(* connections and commands and with every action of the user.             *)
(*                                                                         *)
(* AbortIsFinal is inductive once it is known that loading is a function   *)
(* on the connections: what a handler adds to the loading or connected     *)
(* connections was among them already, except where the user asks for it.  *)
(* TypeOK needs an account of the commands: those sent, with those their   *)
(* callbacks may still send, and the lists that rebuilt the rows.          *)
(***************************************************************************)
EXTENDS ConnectionUi, TLAPS, FiniteSetTheorems

LoadingType == gen \in Nat /\ loading \in [Conn -> Nat]

IInv == LoadingType /\ AbortIsFinal

-----------------------------------------------------------------------------
(* Pieces of handlers.                                                     *)

\* An animation that starts makes its connection a loading one, and no other.
LEMMA StartLoads ==
  ASSUME LoadingType, NEW k, StartLoading(k)
  PROVE  loading' \in [Conn -> Nat] /\ Loading' \subseteq Loading \cup {k}
<1>1. loading' = [loading EXCEPT ![k] = gen]
  BY DEF StartLoading
<1>2. loading' \in [Conn -> Nat]
  BY <1>1 DEF LoadingType
<1>3. \A j \in Conn : j # k => loading'[j] = loading[j]
  BY <1>1 DEF LoadingType
<1> QED BY <1>2, <1>3 DEF Loading, NoGen

\* An animation that stops takes its connection out of the loading ones.
LEMMA StopLoads ==
  ASSUME LoadingType, NEW k, StopLoading(k)
  PROVE  loading' \in [Conn -> Nat] /\ Loading' \subseteq Loading \ {k}
<1>1. loading' = [loading EXCEPT ![k] = NoGen]
  BY DEF StopLoading
<1>2. loading' \in [Conn -> Nat]
  <2>1. NoGen \in Nat
    BY ConnectionUiAssumption DEF NoGen
  <2> QED BY <1>1, <2>1 DEF LoadingType
<1>3. \A j \in Conn : loading'[j] = IF j = k THEN NoGen ELSE loading[j]
  BY <1>1 DEF LoadingType
<1> QED BY <1>2, <1>3 DEF Loading, NoGen

\* Loading the schema of a connection adds at most that one.
LEMMA SchemaLoads ==
  ASSUME LoadingType, NEW s, NEW k, LoadSchema(s, k)
  PROVE  loading' \in [Conn -> Nat] /\ Loading' \subseteq Loading \cup {k}
<1>1. CASE StartLoading(k)
  BY <1>1, StartLoads
<1>2. CASE UNCHANGED loading
  BY <1>2 DEF LoadingType, Loading, NoGen
<1> QED BY <1>1, <1>2 DEF LoadSchema

\* A refresh loads the schema of a connection that is connected.
LEMMA RefreshLoads ==
  ASSUME LoadingType, NEW s, RefreshSchema(s)
  PROVE  /\ loading' \in [Conn -> Nat]
         /\ Loading' \subseteq Loading \cup connected
<1>1. CASE UNCHANGED loading
  BY <1>1 DEF LoadingType, Loading, NoGen
<1>2. ASSUME NEW k \in connected, LoadSchema(s, k)
      PROVE  loading' \in [Conn -> Nat] /\ Loading' \subseteq Loading \cup connected
  BY <1>2, SchemaLoads
<1> QED BY <1>1, <1>2 DEF RefreshSchema

\* disconnect_active_connection forgets the selected connection altogether.
LEMMA DisconnectForgets ==
  ASSUME IInv, NEW s, NEW t, DisconnectActive(s, t)
  PROVE  loading' \in [Conn -> Nat] /\ AbortIsFinal'
<1> USE DEF IInv
<1>1. CASE UNCHANGED <<loading, connected, wanted>>
  BY <1>1 DEF LoadingType, AbortIsFinal, Busy, Loading, NoGen
<1>2. CASE /\ StopLoading(selected)
           /\ connected' = connected \ {selected}
           /\ wanted' = wanted \ {selected}
  <2>1. loading' \in [Conn -> Nat] /\ Loading' \subseteq Loading \ {selected}
    BY <1>2, StopLoads
  <2> QED BY <1>2, <2>1 DEF AbortIsFinal, Busy
<1> QED BY <1>1, <1>2 DEF DisconnectActive

\* A step that makes nothing loading or connected but what was so.
LEMMA NothingNew ==
  ASSUME IInv, loading' \in [Conn -> Nat], gen' \in Nat,
         Loading' \subseteq Busy, connected' \subseteq Busy, wanted' = wanted
  PROVE  IInv'
BY DEF IInv, LoadingType, AbortIsFinal, Busy

\* A step that leaves the loading and connected connections alone.
LEMMA NothingTouched ==
  ASSUME IInv, UNCHANGED <<loading, connected, wanted>>, gen' \in Nat
  PROVE  IInv'
BY DEF IInv, LoadingType, AbortIsFinal, Busy, Loading, NoGen

-----------------------------------------------------------------------------
(* The user.                                                               *)

\* At the start nothing is connected or loading.
LEMMA InitKeeps == Init => IInv
BY ConnectionUiAssumption
DEF Init, IInv, LoadingType, AbortIsFinal, Busy, Loading, NoGen

\* Only the Connect button adds a connection, the one it asks for.
LEMMA UserKeeps ==
  ASSUME IInv, User
  PROVE  IInv'
<1>0. gen \in Nat
  BY DEF IInv, LoadingType
<1>1. ASSUME NEW k \in tree, Select(k) PROVE IInv'
  BY <1>0, <1>1, NothingTouched DEF Select
<1>2. CASE ClickConnect
  <2>1. loading' \in [Conn -> Nat] /\ Loading' \subseteq Loading \cup {selected}
    BY <1>2, StartLoads DEF ClickConnect, IInv
  <2> QED
    BY <1>0, <1>2, <2>1 DEF ClickConnect, IInv, LoadingType, AbortIsFinal, Busy
<1>3. CASE ClickDisconnect
  BY <1>0, <1>3, DisconnectForgets DEF ClickDisconnect, IInv, LoadingType
<1>4. CASE ClickRefresh
  <2>1. /\ loading' \in [Conn -> Nat]
        /\ Loading' \subseteq Loading \cup connected
    BY <1>4, RefreshLoads DEF ClickRefresh, IInv
  <2> QED BY <1>0, <1>4, <2>1, NothingNew DEF ClickRefresh, Busy
<1>5. ASSUME NEW k \in tree \cup {None}, OpenEdit(k) PROVE IInv'
  BY <1>0, <1>5, NothingTouched DEF OpenEdit
<1>6. CASE OpenDelete \/ OpenDb \/ Dismiss \/ AcceptDelete \/ AcceptDb
  BY <1>0, <1>6, NothingTouched
  DEF OpenDelete, OpenDb, Dismiss, AcceptDelete, AcceptDb
<1>7. CASE AcceptEdit
  <2>1. CASE modal.conn \in connected
    <3>1. DisconnectActive(calls, <<Call("list", None, None)>>) /\ gen' = gen
      BY <1>7, <2>1 DEF AcceptEdit
    <3> QED BY <1>0, <3>1, DisconnectForgets DEF IInv, LoadingType
  <2>2. CASE modal.conn \notin connected
    BY <1>0, <1>7, <2>2, NothingTouched DEF AcceptEdit
  <2> QED BY <2>1, <2>2
<1> QED
  BY <1>1, <1>2, <1>3, <1>4, <1>5, <1>6, <1>7 DEF User

-----------------------------------------------------------------------------
(* Callbacks.                                                              *)

\* An answered connect keeps a connection only if it is still wanted.
LEMMA ConnectReplyKeeps ==
  ASSUME IInv, NEW i,
         ConnectIgnored(i) \/ ConnectFailed(i) \/ ConnectSucceeded(i)
  PROVE  IInv'
<1> DEFINE k == calls[i].conn
<1>0. gen \in Nat /\ LoadingType
  BY DEF IInv, LoadingType
<1>1. CASE ConnectIgnored(i)
  BY <1>0, <1>1, NothingTouched DEF ConnectIgnored, uiVars
<1>2. CASE ConnectFailed(i)
  <2>1. loading' \in [Conn -> Nat] /\ Loading' \subseteq Loading \ {k}
    BY <1>0, <1>2, StopLoads DEF ConnectFailed
  <2> QED BY <1>0, <1>2, <2>1, NothingNew DEF ConnectFailed, Busy
<1>3. CASE ConnectSucceeded(i)
  <2>1. loading' \in [Conn -> Nat] /\ Loading' \subseteq Loading \cup {k}
    BY <1>0, <1>3, SchemaLoads DEF ConnectSucceeded
  <2>2. k \in Busy /\ connected' = connected \cup {k} /\ UNCHANGED <<gen, wanted>>
    BY <1>3 DEF ConnectSucceeded
  <2>3. Loading' \subseteq Busy /\ connected' \subseteq Busy
    BY <2>1, <2>2 DEF Busy
  <2> QED BY <1>0, <2>1, <2>2, <2>3, NothingNew
<1> QED BY <1>1, <1>2, <1>3

\* An answered schema adds none.
LEMMA SchemaReplyKeeps ==
  ASSUME IInv, NEW i,
         SchemaIgnored(i) \/ SchemaFailed(i) \/ SchemaLate(i) \/ SchemaLoaded(i)
  PROVE  IInv'
<1> DEFINE k == calls[i].conn
<1>0. gen \in Nat /\ LoadingType
  BY DEF IInv, LoadingType
<1>1. CASE SchemaIgnored(i)
  BY <1>0, <1>1, NothingTouched DEF SchemaIgnored, uiVars
<1>2. CASE SchemaFailed(i) \/ SchemaLate(i) \/ SchemaLoaded(i)
  <2>1. /\ StopLoading(k) /\ UNCHANGED <<gen, wanted>>
        /\ connected' \subseteq connected
    BY <1>2 DEF SchemaFailed, SchemaLate, SchemaLoaded
  <2>2. loading' \in [Conn -> Nat] /\ Loading' \subseteq Loading \ {k}
    BY <1>0, <2>1, StopLoads
  <2> QED BY <1>0, <2>1, <2>2, NothingNew DEF Busy
<1> QED BY <1>1, <1>2

\* The other answers add none that was not connected.
LEMMA OtherReplyKeeps ==
  ASSUME IInv, NEW i,
         ReplyNoted(i) \/ ListReply(i) \/ DeleteReply(i) \/ DbReply(i)
  PROVE  IInv'
<1>0. gen \in Nat /\ LoadingType
  BY DEF IInv, LoadingType
<1>1. CASE ReplyNoted(i)
  BY <1>0, <1>1, NothingTouched DEF ReplyNoted, uiVars
<1>2. CASE ListReply(i)
  <2>1. UNCHANGED <<loading, connected, wanted>> /\ gen' = gen + 1
    BY <1>2 DEF ListReply
  <2> QED BY <1>0, <2>1, NothingTouched
<1>3. CASE DeleteReply(i)
  <2>1. gen' = gen
    BY <1>3 DEF DeleteReply
  <2>2. CASE calls[i].conn \in connected
    <3>1. DisconnectActive(Done(i), <<Call("list", None, None)>>)
      BY <1>3, <2>2 DEF DeleteReply
    <3> QED BY <1>0, <2>1, <3>1, DisconnectForgets DEF IInv, LoadingType
  <2>3. CASE calls[i].conn \notin connected
    BY <1>0, <1>3, <2>1, <2>3, NothingTouched DEF DeleteReply
  <2> QED BY <2>2, <2>3
<1>4. CASE DbReply(i)
  <2>1. /\ loading' \in [Conn -> Nat]
        /\ Loading' \subseteq Loading \cup connected
    BY <1>0, <1>4, RefreshLoads DEF DbReply
  <2> QED BY <1>0, <1>4, <2>1, NothingNew DEF DbReply, Busy
<1> QED BY <1>1, <1>2, <1>3, <1>4

\* The invariant is inductive.
LEMMA NextKeeps == IInv /\ [Next]_vars => IInv'
<1> SUFFICES ASSUME IInv, [Next]_vars PROVE IInv'
  OBVIOUS
<1>0. gen \in Nat
  BY DEF IInv, LoadingType
<1>1. CASE User
  BY <1>1, UserKeeps
<1>2. CASE Tick \/ Rest \/ UNCHANGED vars
  BY <1>0, <1>2, NothingTouched DEF Tick, Rest, vars, uiVars
<1>3. ASSUME NEW i \in DOMAIN calls, Callback(i) PROVE IInv'
  BY <1>3, ConnectReplyKeeps, SchemaReplyKeeps, OtherReplyKeeps DEF Callback
<1>4. ASSUME NEW i \in DOMAIN calls, Serve(i) PROVE IInv'
  BY <1>0, <1>4, NothingTouched DEF Serve, uiVars
<1> QED BY <1>1, <1>2, <1>3, <1>4 DEF Next

-----------------------------------------------------------------------------
(* Theorem.                                                                *)

\* What the window treats as connecting or connected is what the user last
\* asked to connect, with any number of connections and commands, whatever is
\* edited, deleted or refreshed meanwhile
\* (mainwindow_connections.cpp:307-316, 489-493).
THEOREM AbortsAreFinal == Spec => []AbortIsFinal
<1>1. IInv => AbortIsFinal
  BY DEF IInv
<1> QED BY <1>1, InitKeeps, NextKeeps, PTL DEF Spec

-----------------------------------------------------------------------------
(* The bound on the commands.  A command still under way may make its      *)
(* callback send another one, a delete two: the commands sent and those    *)
(* owed never exceed MaxCalls, and each rebuild of the rows is the answer  *)
(* to a list-connections of its own.                                       *)

Ones(s)  == {i \in DOMAIN s : s[i].phase # "done" /\ s[i].cmd \in {"connect", "db"}}
Twos(s)  == {i \in DOMAIN s : s[i].phase # "done" /\ s[i].cmd = "delete"}
Lists(s) == {i \in DOMAIN s : s[i].phase = "done" /\ s[i].cmd = "list"}

Weight(c) == IF c \in {"connect", "db"} THEN 1 ELSE IF c = "delete" THEN 2 ELSE 0
Debt(s)   == Len(s) + Cardinality(Ones(s)) + 2 * Cardinality(Twos(s))

Bounded == Debt(calls) <= MaxCalls /\ gen <= Cardinality(Lists(calls))
TypeInv == TypeOK /\ Bounded

\* What the window and the daemon hold besides the commands is of its type.
WindowTyped ==
  /\ tree \subseteq Conn
  /\ rows \in [Conn -> Nat]
  /\ icon \in [Conn -> {"off", "on", "spin"}]
  /\ loading \in [Conn -> Gen \cup {NoGen}]
  /\ connected \subseteq Conn
  /\ selected \in tree \cup {None}
  /\ modal \in [kind : {"none", "edit", "delete", "db"},
                conn : Conn \cup {None}, shown : Conn \cup {None}]
  /\ alive \in BOOLEAN
  /\ wanted \subseteq Conn
  /\ stored \subseteq Conn /\ pooled \subseteq Conn

\* The calls after a step: commands of their type that owe at most n.
Owes(n) == calls' \in Seq(CallRecord) /\ Debt(calls') <= n

\* The sets that are counted are finite, and no list is counted twice.
LEMMA Counted ==
  ASSUME NEW s \in Seq(CallRecord)
  PROVE  /\ IsFiniteSet(Ones(s)) /\ IsFiniteSet(Twos(s)) /\ IsFiniteSet(Lists(s))
         /\ Cardinality(Ones(s)) \in Nat /\ Cardinality(Twos(s)) \in Nat
         /\ Cardinality(Lists(s)) \in Nat
         /\ Cardinality(Lists(s)) <= Len(s) /\ Len(s) <= Debt(s)
         /\ Debt(s) \in Nat
<1>1. DOMAIN s = 1 .. Len(s) /\ Len(s) \in Nat
  OBVIOUS
<1>2. IsFiniteSet(1 .. Len(s)) /\ Cardinality(1 .. Len(s)) = Len(s)
  BY <1>1, FS_Interval
<1>3. /\ Ones(s) \in SUBSET (1 .. Len(s)) /\ Twos(s) \in SUBSET (1 .. Len(s))
      /\ Lists(s) \in SUBSET (1 .. Len(s))
  BY <1>1 DEF Ones, Twos, Lists
<1>4. /\ IsFiniteSet(Ones(s)) /\ IsFiniteSet(Twos(s)) /\ IsFiniteSet(Lists(s))
      /\ Cardinality(Lists(s)) <= Len(s)
  BY <1>2, <1>3, FS_Subset
<1>5. /\ Cardinality(Ones(s)) \in Nat /\ Cardinality(Twos(s)) \in Nat
      /\ Cardinality(Lists(s)) \in Nat
  BY <1>4, FS_CardinalityType
<1> QED BY <1>1, <1>4, <1>5 DEF Debt

\* A command that is sent adds itself and what it may owe, and no list.
LEMMA Sent ==
  ASSUME NEW s \in Seq(CallRecord), NEW x \in CallRecord, x.phase = "sent"
  PROVE  /\ Append(s, x) \in Seq(CallRecord)
         /\ Debt(Append(s, x)) = Debt(s) + 1 + Weight(x.cmd)
         /\ Lists(Append(s, x)) = Lists(s)
<1> DEFINE t == Append(s, x)
           n == Len(s) + 1
<1>1. /\ t \in Seq(CallRecord) /\ Len(t) = n /\ DOMAIN t = 1 .. n
      /\ DOMAIN s = 1 .. Len(s) /\ Len(s) \in Nat
      /\ t[n] = x /\ \A i \in DOMAIN s : t[i] = s[i]
  OBVIOUS
<1>2. n \notin Ones(s) /\ n \notin Twos(s)
  BY <1>1 DEF Ones, Twos
<1>3. Lists(t) = Lists(s)
  BY <1>1 DEF Lists
<1>4. Ones(t) = IF x.cmd \in {"connect", "db"} THEN Ones(s) \cup {n} ELSE Ones(s)
  BY <1>1 DEF Ones
<1>5. Twos(t) = IF x.cmd = "delete" THEN Twos(s) \cup {n} ELSE Twos(s)
  BY <1>1 DEF Twos
<1>6. /\ IsFiniteSet(Ones(s)) /\ IsFiniteSet(Twos(s))
      /\ Cardinality(Ones(s)) \in Nat /\ Cardinality(Twos(s)) \in Nat
  BY Counted
<1>7. Cardinality(Ones(s) \cup {n}) = Cardinality(Ones(s)) + 1
  BY <1>2, <1>6, FS_AddElement
<1>8. Cardinality(Twos(s) \cup {n}) = Cardinality(Twos(s)) + 1
  BY <1>2, <1>6, FS_AddElement
<1>9. Debt(t) = n + Cardinality(Ones(t)) + 2 * Cardinality(Twos(t))
  BY <1>1 DEF Debt
<1>10. Debt(t) = Debt(s) + 1 + Weight(x.cmd)
  <2> HIDE DEF t
  <2>1. CASE x.cmd \in {"connect", "db"}
    <3>1. Ones(t) = Ones(s) \cup {n} /\ Twos(t) = Twos(s) /\ Weight(x.cmd) = 1
      BY <1>4, <1>5, <2>1 DEF Weight
    <3> QED BY <1>1, <1>6, <1>7, <1>9, <3>1 DEF Debt
  <2>2. CASE x.cmd = "delete"
    <3>1. Ones(t) = Ones(s) /\ Twos(t) = Twos(s) \cup {n} /\ Weight(x.cmd) = 2
      BY <1>4, <1>5, <2>2 DEF Weight
    <3> QED BY <1>1, <1>6, <1>8, <1>9, <3>1 DEF Debt
  <2>3. CASE x.cmd \notin {"connect", "db", "delete"}
    <3>1. Ones(t) = Ones(s) /\ Twos(t) = Twos(s) /\ Weight(x.cmd) = 0
      BY <1>4, <1>5, <2>3 DEF Weight
    <3> QED BY <1>1, <1>6, <1>9, <3>1 DEF Debt
  <2> QED BY <2>1, <2>2, <2>3
<1> QED BY <1>1, <1>3, <1>10

\* A callback that has run no longer owes anything; a list is answered.
LEMMA Closed ==
  ASSUME NEW s \in Seq(CallRecord), NEW i \in DOMAIN s, s[i].phase = "served",
         NEW t, t = [s EXCEPT ![i].phase = "done"]
  PROVE  /\ t \in Seq(CallRecord)
         /\ Debt(t) = Debt(s) - Weight(s[i].cmd)
         /\ Cardinality(Lists(t)) = Cardinality(Lists(s))
                                      + (IF s[i].cmd = "list" THEN 1 ELSE 0)
<1> DEFINE x == [s[i] EXCEPT !.phase = "done"]
<1>0. s[i] \in CallRecord
  OBVIOUS
<1>1. x \in CallRecord /\ x.cmd = s[i].cmd /\ x.phase = "done"
  BY <1>0 DEF CallRecord
<1>2. t = [s EXCEPT ![i] = x]
  OBVIOUS
<1> HIDE DEF x
<1>3. /\ t \in Seq(CallRecord) /\ Len(t) = Len(s) /\ DOMAIN t = DOMAIN s
      /\ Len(s) \in Nat /\ t[i] = x /\ \A j \in DOMAIN s : j # i => t[j] = s[j]
  BY <1>1, <1>2
<1>4. Ones(t) = Ones(s) \ {i} /\ (i \in Ones(s) <=> s[i].cmd \in {"connect", "db"})
  BY <1>1, <1>3 DEF Ones
<1>5. Twos(t) = Twos(s) \ {i} /\ (i \in Twos(s) <=> s[i].cmd = "delete")
  BY <1>1, <1>3 DEF Twos
<1>6. i \notin Lists(s) /\ Lists(t) = IF s[i].cmd = "list" THEN Lists(s) \cup {i}
                                      ELSE Lists(s)
  BY <1>1, <1>3 DEF Lists
<1>7. /\ IsFiniteSet(Ones(s)) /\ IsFiniteSet(Twos(s)) /\ IsFiniteSet(Lists(s))
      /\ Cardinality(Ones(s)) \in Nat /\ Cardinality(Twos(s)) \in Nat
      /\ Cardinality(Lists(s)) \in Nat
  BY Counted
<1>8. /\ Cardinality(Ones(s) \ {i}) = IF i \in Ones(s) THEN Cardinality(Ones(s)) - 1
                                      ELSE Cardinality(Ones(s))
      /\ Cardinality(Twos(s) \ {i}) = IF i \in Twos(s) THEN Cardinality(Twos(s)) - 1
                                      ELSE Cardinality(Twos(s))
  BY <1>7, FS_RemoveElement
<1>9. Debt(t) = Len(s) + Cardinality(Ones(s) \ {i}) + 2 * Cardinality(Twos(s) \ {i})
  BY <1>3, <1>4, <1>5 DEF Debt
<1>10. Debt(t) = Debt(s) - Weight(s[i].cmd)
  <2>1. CASE s[i].cmd \in {"connect", "db"}
    <3>1. i \in Ones(s) /\ i \notin Twos(s) /\ Weight(s[i].cmd) = 1
      BY <1>4, <1>5, <2>1 DEF Weight
    <3> QED BY <1>3, <1>7, <1>8, <1>9, <3>1 DEF Debt
  <2>2. CASE s[i].cmd = "delete"
    <3>1. i \notin Ones(s) /\ i \in Twos(s) /\ Weight(s[i].cmd) = 2
      BY <1>4, <1>5, <2>2 DEF Weight
    <3> QED BY <1>3, <1>7, <1>8, <1>9, <3>1 DEF Debt
  <2>3. CASE s[i].cmd \notin {"connect", "db", "delete"}
    <3>1. i \notin Ones(s) /\ i \notin Twos(s) /\ Weight(s[i].cmd) = 0
      BY <1>4, <1>5, <2>3 DEF Weight
    <3> QED BY <1>3, <1>7, <1>8, <1>9, <3>1 DEF Debt
  <2> QED BY <2>1, <2>2, <2>3
<1>11. Cardinality(Lists(s) \cup {i}) = Cardinality(Lists(s)) + 1
  BY <1>6, <1>7, FS_AddElement
<1>12. Cardinality(Lists(t)) = Cardinality(Lists(s))
                                + (IF s[i].cmd = "list" THEN 1 ELSE 0)
  BY <1>6, <1>7, <1>11
<1> QED BY <1>3, <1>10, <1>12

\* The commands after the daemon served call i, with outcome o and answer l.
AsServed(s, i, o, l) ==
  [s EXCEPT ![i].phase = IF @ = "sent" /\ s[i].cmd \in WithReply
                         THEN "served" ELSE "done",
            ![i].ok = o,
            ![i].listed = IF o /\ s[i].cmd = "list" THEN l ELSE @]

\* A command the daemon served owes what it owed: one without a reply, nothing.
LEMMA Served ==
  ASSUME NEW s \in Seq(CallRecord), NEW i \in DOMAIN s, s[i].phase = "sent",
         NEW o \in BOOLEAN, NEW l \in SUBSET Conn
  PROVE  /\ AsServed(s, i, o, l) \in Seq(CallRecord)
         /\ Debt(AsServed(s, i, o, l)) = Debt(s)
         /\ Lists(AsServed(s, i, o, l)) = Lists(s)
<1> DEFINE t == AsServed(s, i, o, l)
<1>0. s[i] \in CallRecord
  OBVIOUS
<1>1. s[i] \in CallRecord /\ s[i].listed \in SUBSET Conn
  BY <1>0 DEF CallRecord
<1> DEFINE p == IF s[i].cmd \in WithReply THEN "served" ELSE "done"
           m == IF o /\ s[i].cmd = "list" THEN l ELSE s[i].listed
           x == [s[i] EXCEPT !.phase = p, !.ok = o, !.listed = m]
<1>2. x \in CallRecord /\ x.cmd = s[i].cmd /\ x.phase = p
  BY <1>1 DEF CallRecord
<1>3. t = [s EXCEPT ![i] = x]
  BY DEF AsServed
<1> HIDE DEF x, t
<1>4. /\ t \in Seq(CallRecord) /\ Len(t) = Len(s) /\ DOMAIN t = DOMAIN s
      /\ t[i] = x /\ \A j \in DOMAIN s : j # i => t[j] = s[j]
  BY <1>2, <1>3
<1>5. Ones(t) = Ones(s)
  BY <1>2, <1>4 DEF Ones, WithReply
<1>6. Twos(t) = Twos(s)
  BY <1>2, <1>4 DEF Twos, WithReply
<1>7. Lists(t) = Lists(s)
  BY <1>2, <1>4 DEF Lists, WithReply
<1>8. Debt(t) = Debt(s)
  BY <1>4, <1>5, <1>6 DEF Debt
<1> QED BY <1>4, <1>7, <1>8 DEF t

\* A command the window sends is of its type, and waits to be served.
LEMMA CallTyped ==
  ASSUME gen \in Gen, NEW c \in Commands, NEW k \in Conn \cup {None},
         NEW s \in Conn \cup {None}
  PROVE  Call(c, k, s) \in CallRecord /\ Call(c, k, s).phase = "sent"
           /\ Call(c, k, s).cmd = c
BY DEF Call, CallRecord

-----------------------------------------------------------------------------
(* Types of what a step changes.                                           *)

\* What the invariant says of the commands and the rows that were rebuilt.
LEMMA Holds ==
  ASSUME TypeInv
  PROVE  /\ calls \in Seq(CallRecord) /\ Debt(calls) \in Nat /\ Debt(calls) <= MaxCalls
         /\ gen \in Gen /\ gen \in Nat /\ MaxCalls \in Nat
         /\ gen <= Cardinality(Lists(calls)) /\ Cardinality(Lists(calls)) \in Nat
         /\ WindowTyped
<1>1. calls \in Seq(CallRecord) /\ gen \in Gen /\ WindowTyped
  BY DEF TypeInv, TypeOK, WindowTyped
<1>2. Debt(calls) \in Nat /\ Cardinality(Lists(calls)) \in Nat
  BY <1>1, Counted
<1>3. MaxCalls \in Nat
  BY ConnectionUiAssumption
<1> QED BY <1>1, <1>2, <1>3 DEF TypeInv, Bounded, Gen

\* The room a user action asks for.
LEMMA RoomLeft ==
  ASSUME TypeInv, NEW n \in Nat, Room(n)
  PROVE  Debt(calls) + n <= MaxCalls
<1>1. /\ {i \in Pending : calls[i].cmd \in {"connect", "db"}} = Ones(calls)
      /\ {i \in Pending : calls[i].cmd = "delete"} = Twos(calls)
  BY DEF Pending, Ones, Twos
<1>2. calls \in Seq(CallRecord)
  BY Holds
<1>3. Len(calls) \in Nat /\ Cardinality(Ones(calls)) \in Nat /\ Cardinality(Twos(calls)) \in Nat
  BY <1>2, Counted
<1>4. MaxCalls \in Nat
  BY ConnectionUiAssumption
<1>5. Owed = Cardinality(Ones(calls)) + 2 * Cardinality(Twos(calls))
  BY <1>1 DEF Owed
<1>6. Len(calls) + Owed + n <= MaxCalls
  BY DEF Room
<1> QED BY <1>3, <1>4, <1>5, <1>6 DEF Debt

\* The invariant holds again where the commands stay within the bound, the
\* rows were rebuilt no more than lists were answered, and types hold.
LEMMA Settled ==
  ASSUME Owes(MaxCalls), gen' \in Nat, gen' <= Cardinality(Lists(calls')), WindowTyped'
  PROVE  TypeInv'
<1>1. MaxCalls \in Nat
  BY ConnectionUiAssumption
<1>2. calls' \in Seq(CallRecord) /\ Debt(calls') <= MaxCalls
  BY DEF Owes
<1>3. /\ Cardinality(Lists(calls')) <= Len(calls') /\ Len(calls') <= Debt(calls')
      /\ Cardinality(Lists(calls')) \in Nat /\ Len(calls') \in Nat /\ Debt(calls') \in Nat
  BY <1>2, Counted
<1>4. Len(calls') <= MaxCalls /\ gen' \in Gen
  BY <1>1, <1>2, <1>3 DEF Gen
<1>5. TypeOK'
  BY <1>2, <1>4 DEF TypeOK, WindowTyped
<1> QED BY <1>2, <1>5 DEF TypeInv, Bounded

\* A step that leaves the rows alone and answers no list.
LEMMA SettledOn ==
  ASSUME TypeInv, Owes(MaxCalls), gen' = gen,
         Cardinality(Lists(calls')) = Cardinality(Lists(calls)), WindowTyped'
  PROVE  TypeInv'
BY Holds, Settled

\* A step that sends nothing and answers nothing.
LEMMA Quiet ==
  ASSUME TypeInv, UNCHANGED <<calls, gen>>, WindowTyped'
  PROVE  TypeInv'
<1>1. Owes(MaxCalls)
  BY Holds DEF Owes
<1> QED BY <1>1, SettledOn

\* A step that sends one command.
LEMMA SendsOne ==
  ASSUME TypeInv, NEW x \in CallRecord, x.phase = "sent",
         Debt(calls) + 1 + Weight(x.cmd) <= MaxCalls,
         calls' = Append(calls, x), gen' = gen, WindowTyped'
  PROVE  TypeInv'
<1>1. calls \in Seq(CallRecord)
  BY Holds
<1>2. /\ Append(calls, x) \in Seq(CallRecord)
      /\ Debt(Append(calls, x)) = Debt(calls) + 1 + Weight(x.cmd)
      /\ Lists(Append(calls, x)) = Lists(calls)
  BY <1>1, Sent
<1>3. Owes(MaxCalls)
  BY <1>2 DEF Owes
<1> QED BY <1>2, <1>3, SettledOn

\* The command that asks for the connections.
LEMMA ListTyped ==
  ASSUME gen \in Gen
  PROVE  /\ Call("list", None, None) \in CallRecord
         /\ Call("list", None, None).phase = "sent"
         /\ Weight(Call("list", None, None).cmd) = 0
<1>1. "list" \in Commands
  BY DEF Commands, WithReply
<1>2. Call("list", None, None).cmd = "list"
  BY <1>1, CallTyped
<1> QED BY <1>1, <1>2, CallTyped DEF Weight

\* One command more that owes nothing.
LEMMA OneMore ==
  ASSUME NEW s \in Seq(CallRecord), NEW x \in CallRecord, x.phase = "sent",
         Weight(x.cmd) = 0
  PROVE  /\ Append(s, x) \in Seq(CallRecord) /\ Debt(Append(s, x)) = Debt(s) + 1
         /\ Lists(Append(s, x)) = Lists(s)
BY Sent, Counted

\* Types of the animation, the icons and the rows after a piece of a handler.
Drawn ==
  /\ rows' \in [Conn -> Nat] /\ icon' \in [Conn -> {"off", "on", "spin"}]
  /\ loading' \in [Conn -> Gen \cup {NoGen}]

\* An animation that starts points to a row there is.
LEMMA StartDraws ==
  ASSUME TypeInv, NEW k, StartLoading(k)
  PROVE  /\ icon' \in [Conn -> {"off", "on", "spin"}]
         /\ loading' \in [Conn -> Gen \cup {NoGen}]
<1>1. /\ gen \in Gen /\ icon \in [Conn -> {"off", "on", "spin"}]
      /\ loading \in [Conn -> Gen \cup {NoGen}]
  BY Holds DEF WindowTyped
<1> QED BY <1>1 DEF StartLoading

\* An animation that stops points to none.
LEMMA StopDraws ==
  ASSUME TypeInv, NEW k, StopLoading(k)
  PROVE  loading' \in [Conn -> Gen \cup {NoGen}]
<1>1. loading \in [Conn -> Gen \cup {NoGen}]
  BY Holds DEF WindowTyped
<1> QED BY <1>1 DEF StopLoading

\* Loading a schema sends at most one command more.
LEMMA SchemaDraws ==
  ASSUME TypeInv, NEW s \in Seq(CallRecord), NEW k, LoadSchema(s, k)
  PROVE  /\ Drawn /\ Owes(Debt(s) + 1)
         /\ Lists(calls') = Lists(s)
<1>1. gen \in Gen /\ tree \subseteq Conn /\ rows \in [Conn -> Nat]
      /\ icon \in [Conn -> {"off", "on", "spin"}]
      /\ loading \in [Conn -> Gen \cup {NoGen}]
  BY Holds DEF WindowTyped
<1>2. Debt(s) \in Nat
  BY Counted
<1>3. CASE k \in tree
  <2>1. /\ rows' = [rows EXCEPT ![k] = 0] /\ StartLoading(k)
        /\ calls' = Append(s, Call("schema", k, k))
    BY <1>3 DEF LoadSchema
  <2>2. "schema" \in Commands /\ k \in Conn \cup {None}
    BY <1>1, <1>3 DEF Commands, WithReply
  <2>3. /\ Call("schema", k, k) \in CallRecord
        /\ Call("schema", k, k).phase = "sent"
        /\ Weight(Call("schema", k, k).cmd) = 0
    BY <1>1, <2>2, CallTyped DEF Weight
  <2>4. /\ calls' \in Seq(CallRecord) /\ Debt(calls') = Debt(s) + 1
        /\ Lists(calls') = Lists(s)
    BY <2>1, <2>3, OneMore
  <2>5. Drawn
    BY <1>1, <2>1, StartDraws DEF Drawn
  <2> QED BY <1>2, <2>4, <2>5 DEF Owes
<1>4. CASE k \notin tree
  <2>1. calls' = s /\ UNCHANGED <<rows, loading, icon>>
    BY <1>4 DEF LoadSchema
  <2> QED BY <1>1, <1>2, <2>1 DEF Drawn, Owes
<1> QED BY <1>3, <1>4

\* A refresh sends at most one: a list, or a schema.
LEMMA RefreshDraws ==
  ASSUME TypeInv, NEW s \in Seq(CallRecord), RefreshSchema(s)
  PROVE  /\ Drawn /\ Owes(Debt(s) + 1)
         /\ Lists(calls') = Lists(s)
<1>1. /\ gen \in Gen /\ rows \in [Conn -> Nat]
      /\ icon \in [Conn -> {"off", "on", "spin"}]
      /\ loading \in [Conn -> Gen \cup {NoGen}]
  BY Holds DEF WindowTyped
<1>2. Debt(s) \in Nat
  BY Counted
<1>3. CASE /\ calls' = Append(s, Call("list", None, None))
           /\ UNCHANGED <<rows, loading, icon>>
  <2>1. /\ calls' \in Seq(CallRecord) /\ Debt(calls') = Debt(s) + 1
        /\ Lists(calls') = Lists(s)
    BY <1>1, <1>3, ListTyped, OneMore
  <2> QED BY <1>1, <1>2, <1>3, <2>1 DEF Drawn, Owes
<1>4. CASE \E k \in connected : LoadSchema(s, k)
  <2>1. PICK k \in connected : LoadSchema(s, k)
    BY <1>4
  <2> QED BY <2>1, SchemaDraws
<1> QED BY <1>3, <1>4 DEF RefreshSchema

\* Disconnecting the selected connection sends at most one command between
\* those of s and t.
LEMMA DisconnectDraws ==
  ASSUME TypeInv, NEW s \in Seq(CallRecord), NEW t,
         t = <<>> \/ t = <<Call("list", None, None)>>,
         DisconnectActive(s, t)
  PROVE  /\ Drawn /\ connected' \subseteq Conn /\ wanted' \subseteq Conn
         /\ Owes(Debt(s) + 1 + Len(t))
         /\ Lists(calls') = Lists(s)
<1>1. /\ gen \in Gen /\ rows \in [Conn -> Nat] /\ selected \in Conn \cup {None}
      /\ icon \in [Conn -> {"off", "on", "spin"}]
      /\ loading \in [Conn -> Gen \cup {NoGen}]
      /\ connected \subseteq Conn /\ wanted \subseteq Conn
  BY Holds DEF WindowTyped
<1>2. Debt(s) \in Nat
  BY Counted
<1>3. ASSUME NEW u \in Seq(CallRecord)
      PROVE  /\ u \o t \in Seq(CallRecord) /\ Debt(u \o t) = Debt(u) + Len(t)
             /\ Lists(u \o t) = Lists(u)
  <2>1. CASE t = <<>>
    <3>1. u \o t = u /\ Len(t) = 0
      BY <2>1
    <3>2. Debt(u) \in Nat
      BY Counted
    <3> QED BY <3>1, <3>2
  <2>2. CASE t = <<Call("list", None, None)>>
    <3> DEFINE x == Call("list", None, None)
    <3>1. x \in CallRecord /\ x.phase = "sent" /\ Weight(x.cmd) = 0
      BY <1>1, ListTyped
    <3> HIDE DEF x
    <3>2. u \o <<x>> = Append(u, x) /\ Len(<<x>>) = 1
      BY <3>1
    <3>3. /\ Append(u, x) \in Seq(CallRecord) /\ Debt(Append(u, x)) = Debt(u) + 1
          /\ Lists(Append(u, x)) = Lists(u)
      BY <3>1, OneMore
    <3>4. t = <<x>>
      BY <2>2 DEF x
    <3> QED BY <3>2, <3>3, <3>4
  <2> QED BY <2>1, <2>2
<1>4. Len(t) \in Nat
  <2>1. Len(<<>>) = 0 /\ Len(<<Call("list", None, None)>>) = 1
    OBVIOUS
  <2> QED BY <2>1
<1>5. CASE selected \notin Busy
  <2>1. calls' = s \o t /\ UNCHANGED <<rows, icon, loading, connected, wanted>>
    BY <1>5 DEF DisconnectActive
  <2>2. /\ calls' \in Seq(CallRecord) /\ Debt(calls') = Debt(s) + Len(t)
        /\ Lists(calls') = Lists(s)
    BY <1>3, <2>1
  <2>3. Drawn /\ connected' \subseteq Conn /\ wanted' \subseteq Conn
    BY <1>1, <2>1 DEF Drawn
  <2>4. Owes(Debt(s) + 1 + Len(t))
    BY <1>2, <1>4, <2>2 DEF Owes
  <2> QED BY <2>2, <2>3, <2>4
<1>6. CASE selected \in Busy
  <2> DEFINE c == IF selected \in Loading THEN "cancel" ELSE "disconnect"
             x == Call(c, selected, selected)
  <2>1. /\ StopLoading(selected) /\ connected' = connected \ {selected}
        /\ wanted' = wanted \ {selected}
        /\ icon' = [icon EXCEPT ![selected] = "off"]
        /\ rows' = [rows EXCEPT ![selected] = 0]
        /\ calls' = s \o <<x>> \o t
    BY <1>6 DEF DisconnectActive
  <2>2. c \in Commands /\ c \in {"cancel", "disconnect"}
    BY DEF Commands
  <2>3. x \in CallRecord /\ x.phase = "sent" /\ x.cmd = c
    <3> HIDE DEF c
    <3> QED BY <1>1, <2>2, CallTyped
  <2>4. Weight(x.cmd) = 0
    BY <2>2, <2>3 DEF Weight
  <2> HIDE DEF x
  <2>5. /\ Append(s, x) \in Seq(CallRecord) /\ Debt(Append(s, x)) = Debt(s) + 1
        /\ Lists(Append(s, x)) = Lists(s)
    BY <2>3, <2>4, OneMore
  <2>6. s \o <<x>> = Append(s, x)
    BY <2>3
  <2>7. calls' = Append(s, x) \o t
    BY <2>1, <2>6
  <2>8. /\ calls' \in Seq(CallRecord) /\ Debt(calls') = Debt(s) + 1 + Len(t)
        /\ Lists(calls') = Lists(s)
    BY <1>3, <2>5, <2>7
  <2>9. loading' \in [Conn -> Gen \cup {NoGen}]
    BY <2>1, StopDraws
  <2>10. Drawn /\ connected' \subseteq Conn /\ wanted' \subseteq Conn
    BY <1>1, <2>1, <2>9 DEF Drawn
  <2>11. Owes(Debt(s) + 1 + Len(t))
    BY <1>2, <1>4, <2>8 DEF Owes
  <2> QED BY <2>8, <2>10, <2>11
<1> QED BY <1>5, <1>6

-----------------------------------------------------------------------------
(* Every step keeps the types and the bound.                               *)

\* The window starts with one command, which owes nothing.
LEMMA TypeInit == Init => TypeInv
<1> SUFFICES ASSUME Init PROVE TypeInv
  OBVIOUS
<1> DEFINE x == Call("list", None, None)
<1>1. /\ gen = 0 /\ calls = <<x>> /\ MaxCalls \in Nat \ {0}
  BY ConnectionUiAssumption DEF Init
<1>2. gen \in Gen
  BY <1>1 DEF Gen
<1>3. x \in CallRecord /\ x.phase = "sent" /\ Weight(x.cmd) = 0
  BY <1>2, ListTyped
<1> HIDE DEF x
<1>4. <<>> \in Seq(CallRecord) /\ Append(<<>>, x) = <<x>> /\ Len(<<>>) = 0
  BY <1>3
<1>5. Ones(<<>>) = {} /\ Twos(<<>>) = {}
  BY DEF Ones, Twos
<1>6. Debt(<<>>) = 0
  <2>1. Cardinality({}) = 0
    BY FS_EmptySet
  <2>2. Cardinality(Ones(<<>>)) = 0 /\ Cardinality(Twos(<<>>)) = 0
    BY <1>5, <2>1
  <2> QED BY <1>4, <2>2 DEF Debt
<1>7. calls \in Seq(CallRecord) /\ Debt(calls) = 1
  <2>1. /\ Append(<<>>, x) \in Seq(CallRecord)
        /\ Debt(Append(<<>>, x)) = Debt(<<>>) + 1
    BY <1>3, <1>4, OneMore
  <2> QED BY <1>1, <1>4, <1>6, <2>1
<1>8. Cardinality(Lists(calls)) \in Nat /\ Len(calls) = 1
  BY <1>1, <1>7, Counted
<1>9. Bounded
  BY <1>1, <1>7, <1>8 DEF Bounded
<1>10. WindowTyped
  BY DEF Init, WindowTyped, NoModal
<1>11. TypeOK
  BY <1>1, <1>2, <1>7, <1>8, <1>10 DEF TypeOK, WindowTyped
<1> QED BY <1>9, <1>11 DEF TypeInv

\* The room the user leaves is for the command sent and for what it owes.
LEMMA UserTyped ==
  ASSUME TypeInv, User
  PROVE  TypeInv'
<1>0. WindowTyped /\ gen \in Gen /\ MaxCalls \in Nat /\ calls \in Seq(CallRecord)
        /\ Debt(calls) \in Nat
  BY Holds
<1>1. ASSUME NEW k \in tree, Select(k) PROVE TypeInv'
  <2>1. WindowTyped'
    BY <1>0, <1>1 DEF Select, WindowTyped, daemonVars
  <2> QED BY <1>1, <2>1, Quiet DEF Select
<1>2. CASE ClickConnect
  <2> DEFINE x == Call("connect", selected, selected)
  <2>1. /\ calls' = Append(calls, x) /\ gen' = gen /\ StartLoading(selected)
        /\ Room(2) /\ selected # None
    BY <1>2 DEF ClickConnect
  <2>2. selected \in Conn /\ "connect" \in Commands
    BY <1>0, <2>1 DEF WindowTyped, Commands, WithReply
  <2>3. x \in CallRecord /\ x.phase = "sent" /\ Weight(x.cmd) = 1
    BY <1>0, <2>2, CallTyped DEF Weight
  <2>4. Debt(calls) + 2 <= MaxCalls
    BY <2>1, RoomLeft
  <2>5. WindowTyped'
    BY <1>0, <1>2, <2>1, <2>2, StartDraws DEF ClickConnect, WindowTyped, daemonVars
  <2> HIDE DEF x
  <2> QED BY <1>0, <2>1, <2>3, <2>4, <2>5, SendsOne
<1>3. CASE ClickDisconnect
  <2>1. DisconnectActive(calls, <<>>) /\ Room(1) /\ gen' = gen
    BY <1>3 DEF ClickDisconnect
  <2>2. /\ Drawn /\ connected' \subseteq Conn /\ wanted' \subseteq Conn
        /\ Owes(Debt(calls) + 1 + Len(<<>>)) /\ Lists(calls') = Lists(calls)
    BY <1>0, <2>1, DisconnectDraws
  <2>3. Debt(calls) + 1 <= MaxCalls /\ Len(<<>>) = 0
    BY <2>1, RoomLeft
  <2>4. Owes(MaxCalls)
    BY <1>0, <2>2, <2>3, Counted DEF Owes
  <2>5. WindowTyped'
    BY <1>0, <1>3, <2>2 DEF ClickDisconnect, WindowTyped, Drawn, daemonVars
  <2> QED BY <2>1, <2>2, <2>4, <2>5, SettledOn
<1>4. CASE ClickRefresh
  <2>1. RefreshSchema(calls) /\ Room(1) /\ gen' = gen
    BY <1>4 DEF ClickRefresh
  <2>2. Drawn /\ Owes(Debt(calls) + 1) /\ Lists(calls') = Lists(calls)
    BY <1>0, <2>1, RefreshDraws
  <2>3. Debt(calls) + 1 <= MaxCalls
    BY <2>1, RoomLeft
  <2>4. Owes(MaxCalls)
    BY <1>0, <2>2, <2>3, Counted DEF Owes
  <2>5. WindowTyped'
    BY <1>0, <1>4, <2>2 DEF ClickRefresh, WindowTyped, Drawn, daemonVars
  <2> QED BY <2>1, <2>2, <2>4, <2>5, SettledOn
<1>5. CASE \/ \E k \in tree \cup {None} : OpenEdit(k)
           \/ OpenDelete \/ OpenDb \/ Dismiss
  <2>1. /\ UNCHANGED <<calls, tree, gen, rows, icon, loading, connected, selected,
                       alive, wanted, daemonVars>>
    BY <1>5 DEF OpenEdit, OpenDelete, OpenDb, Dismiss
  <2>2. modal' \in [kind : {"none", "edit", "delete", "db"},
                    conn : Conn \cup {None}, shown : Conn \cup {None}]
    BY <1>0, <1>5 DEF OpenEdit, OpenDelete, OpenDb, Dismiss, NoModal, WindowTyped
  <2>3. WindowTyped'
    BY <1>0, <2>1, <2>2 DEF WindowTyped, daemonVars
  <2> QED BY <2>1, <2>3, Quiet
<1>6. CASE AcceptEdit
  <2> DEFINE x == Call("list", None, None)
  <2>1. /\ Room(2) /\ gen' = gen /\ modal' = NoModal
        /\ UNCHANGED <<tree, selected, alive, pooled>>
    BY <1>6 DEF AcceptEdit
  <2>2. Debt(calls) + 2 <= MaxCalls
    BY <2>1, RoomLeft
  <2>3. stored' \subseteq Conn
    BY <1>0, <1>6 DEF AcceptEdit, WindowTyped
  <2>4. /\ Drawn /\ connected' \subseteq Conn /\ wanted' \subseteq Conn
        /\ Owes(Debt(calls) + 2) /\ Lists(calls') = Lists(calls)
    <3>1. CASE modal.conn \in connected
      <4>1. DisconnectActive(calls, <<x>>)
        BY <1>6, <3>1 DEF AcceptEdit
      <4>2. /\ Drawn /\ connected' \subseteq Conn /\ wanted' \subseteq Conn
            /\ Owes(Debt(calls) + 1 + Len(<<x>>)) /\ Lists(calls') = Lists(calls)
        BY <1>0, <4>1, DisconnectDraws
      <4>3. Len(<<x>>) = 1
        OBVIOUS
      <4> HIDE DEF x
      <4> QED BY <1>0, <4>2, <4>3
    <3>2. CASE modal.conn \notin connected
      <4>1. calls' = calls \o <<x>> /\ UNCHANGED <<rows, icon, loading, connected, wanted>>
        BY <1>6, <3>2 DEF AcceptEdit
      <4>2. x \in CallRecord /\ x.phase = "sent" /\ Weight(x.cmd) = 0
        BY <1>0, ListTyped
      <4> HIDE DEF x
      <4>3. calls' = Append(calls, x)
        BY <1>0, <4>1, <4>2
      <4>4. /\ calls' \in Seq(CallRecord) /\ Debt(calls') = Debt(calls) + 1
            /\ Lists(calls') = Lists(calls)
        BY <1>0, <4>2, <4>3, OneMore
      <4>5. Drawn /\ connected' \subseteq Conn /\ wanted' \subseteq Conn
        BY <1>0, <4>1 DEF Drawn, WindowTyped
      <4> QED BY <1>0, <4>4, <4>5 DEF Owes
    <3> QED BY <3>1, <3>2
  <2>5. Owes(MaxCalls)
    BY <1>0, <2>2, <2>4, Counted DEF Owes
  <2>6. WindowTyped'
    BY <1>0, <2>1, <2>3, <2>4 DEF WindowTyped, Drawn, NoModal
  <2> QED BY <2>1, <2>4, <2>5, <2>6, SettledOn
<1>7. ASSUME NEW c \in {"delete", "db"}, NEW n \in Nat, Room(n), Weight(c) + 1 <= n,
             calls' = Append(calls, Call(c, modal.conn, modal.shown)),
             modal' = NoModal,
             UNCHANGED <<tree, gen, rows, icon, loading, connected, selected, alive,
                         wanted, daemonVars>>
      PROVE  TypeInv'
  <2> DEFINE x == Call(c, modal.conn, modal.shown)
  <2>1. c \in Commands /\ modal.conn \in Conn \cup {None}
          /\ modal.shown \in Conn \cup {None} /\ Weight(c) \in Nat
    BY <1>0 DEF Commands, WithReply, WindowTyped, Weight
  <2>2. x \in CallRecord /\ x.phase = "sent" /\ x.cmd = c
    BY <1>0, <2>1, CallTyped
  <2>3. Debt(calls) + n <= MaxCalls
    BY <1>7, RoomLeft
  <2>4. WindowTyped'
    BY <1>0, <1>7 DEF WindowTyped, NoModal, daemonVars
  <2> HIDE DEF x
  <2>5. calls' = Append(calls, x) /\ gen' = gen
    BY <1>7 DEF x
  <2>6. Debt(calls) + 1 + Weight(x.cmd) <= MaxCalls
    BY <1>0, <1>7, <2>1, <2>2, <2>3
  <2> QED BY <2>2, <2>4, <2>5, <2>6, SendsOne
<1>8. CASE AcceptDelete
  <2>1. Weight("delete") + 1 <= 3
    BY DEF Weight
  <2> QED BY <1>7, <1>8, <2>1 DEF AcceptDelete
<1>9. CASE AcceptDb
  <2>1. Weight("db") + 1 <= 2
    BY DEF Weight
  <2> QED BY <1>7, <1>9, <2>1 DEF AcceptDb
<1> QED
  BY <1>1, <1>2, <1>3, <1>4, <1>5, <1>6, <1>8, <1>9 DEF User

\* The callback of call i has run: what it owed is paid.
LEMMA Answering ==
  ASSUME TypeInv, NEW i \in DOMAIN calls, NEW c, NEW o, Answered(i, c, o)
  PROVE  /\ Done(i) \in Seq(CallRecord) /\ Debt(Done(i)) \in Nat
         /\ Debt(Done(i)) = Debt(calls) - Weight(c)
         /\ Cardinality(Lists(Done(i)))
              = Cardinality(Lists(calls)) + (IF c = "list" THEN 1 ELSE 0)
         /\ calls[i] \in CallRecord /\ calls[i].conn \in Conn \cup {None}
         /\ Weight(c) \in Nat
<1>1. calls \in Seq(CallRecord)
  BY Holds
<1>2. calls[i].phase = "served" /\ calls[i].cmd = c
  BY DEF Answered
<1>3. calls[i] \in CallRecord
  BY <1>1
<1>4. /\ Done(i) \in Seq(CallRecord) /\ Debt(Done(i)) = Debt(calls) - Weight(calls[i].cmd)
      /\ Cardinality(Lists(Done(i)))
           = Cardinality(Lists(calls)) + (IF calls[i].cmd = "list" THEN 1 ELSE 0)
  BY <1>1, <1>2, Closed DEF Done
<1>5. Debt(Done(i)) \in Nat
  BY <1>4, Counted
<1>6. calls[i].conn \in Conn \cup {None}
  BY <1>3 DEF CallRecord
<1> QED BY <1>2, <1>3, <1>4, <1>5, <1>6 DEF Weight

\* An answer after which at most one command is sent, for which there is room.
LEMMA Paid ==
  ASSUME TypeInv, NEW i \in DOMAIN calls, NEW c, NEW o, Answered(i, c, o), c # "list",
         NEW n \in Nat, n <= Weight(c), Owes(Debt(Done(i)) + n),
         Cardinality(Lists(calls')) = Cardinality(Lists(Done(i))),
         gen' = gen, WindowTyped'
  PROVE  TypeInv'
<1>1. /\ Debt(calls) \in Nat /\ MaxCalls \in Nat /\ Debt(calls) <= MaxCalls
      /\ Cardinality(Lists(calls)) \in Nat
  BY Holds
<1>2. /\ Debt(Done(i)) \in Nat /\ Weight(c) \in Nat
      /\ Debt(Done(i)) = Debt(calls) - Weight(c)
      /\ Cardinality(Lists(Done(i))) = Cardinality(Lists(calls))
  BY <1>1, Answering
<1>3. calls' \in Seq(CallRecord) /\ Debt(calls') \in Nat
      /\ Debt(calls') <= Debt(Done(i)) + n
  BY Counted DEF Owes
<1>4. Owes(MaxCalls)
  BY <1>1, <1>2, <1>3 DEF Owes
<1> QED BY <1>2, <1>4, SettledOn

\* An answer after which nothing is sent.
LEMMA Noted ==
  ASSUME TypeInv, NEW i \in DOMAIN calls, NEW c, NEW o, Answered(i, c, o),
         calls' = Done(i), gen' = gen, WindowTyped'
  PROVE  TypeInv'
<1>1. /\ Debt(calls) \in Nat /\ MaxCalls \in Nat /\ Debt(calls) <= MaxCalls
      /\ Cardinality(Lists(calls)) \in Nat /\ gen \in Nat
      /\ gen <= Cardinality(Lists(calls))
  BY Holds
<1>2. /\ Done(i) \in Seq(CallRecord) /\ Debt(Done(i)) \in Nat /\ Weight(c) \in Nat
      /\ Debt(Done(i)) = Debt(calls) - Weight(c)
      /\ Cardinality(Lists(Done(i)))
           = Cardinality(Lists(calls)) + (IF c = "list" THEN 1 ELSE 0)
  BY Answering
<1>3. Owes(MaxCalls)
  BY <1>1, <1>2 DEF Owes
<1>4. gen' \in Nat /\ gen' <= Cardinality(Lists(calls'))
  BY <1>1, <1>2
<1> QED BY <1>3, <1>4, Settled

\* A list that is answered rebuilds the rows once.
LEMMA ReplyTyped ==
  ASSUME TypeInv, NEW i \in DOMAIN calls, ReplyNoted(i) \/ ListReply(i)
  PROVE  TypeInv'
<1>0. WindowTyped /\ gen \in Nat /\ MaxCalls \in Nat /\ Debt(calls) \in Nat
        /\ gen <= Cardinality(Lists(calls)) /\ Cardinality(Lists(calls)) \in Nat
        /\ Debt(calls) <= MaxCalls
  BY Holds
<1>1. CASE ReplyNoted(i)
  <2>1. PICK c \in {"list", "delete", "db"} : Answered(i, c, FALSE)
    BY <1>1 DEF ReplyNoted
  <2>2. WindowTyped' /\ calls' = Done(i) /\ gen' = gen
    BY <1>0, <1>1 DEF ReplyNoted, uiVars, daemonVars, WindowTyped
  <2> QED BY <2>1, <2>2, Noted
<1>2. CASE ListReply(i)
  <2>1. Answered(i, "list", TRUE) /\ calls' = Done(i) /\ gen' = gen + 1
    BY <1>2 DEF ListReply
  <2>2. calls[i] \in CallRecord
    BY <2>1, Answering
  <2>3. tree' \subseteq Conn
    BY <1>2, <2>2 DEF ListReply, CallRecord
  <2>4. WindowTyped'
    BY <1>0, <1>2, <2>3 DEF ListReply, daemonVars, WindowTyped
  <2>5. /\ Done(i) \in Seq(CallRecord) /\ Debt(Done(i)) \in Nat
        /\ Debt(Done(i)) = Debt(calls) - Weight("list") /\ Weight("list") \in Nat
        /\ Cardinality(Lists(Done(i))) = Cardinality(Lists(calls)) + 1
    BY <2>1, Answering
  <2>6. Owes(MaxCalls)
    BY <1>0, <2>1, <2>5 DEF Owes
  <2>7. gen' \in Nat /\ gen' <= Cardinality(Lists(calls'))
    BY <1>0, <2>1, <2>5
  <2> QED BY <2>4, <2>6, <2>7, Settled
<1> QED BY <1>1, <1>2

\* The answer of a connect may send one command: what connect owed.
LEMMA ConnectReplyTyped ==
  ASSUME TypeInv, NEW i \in DOMAIN calls,
         ConnectIgnored(i) \/ ConnectFailed(i) \/ ConnectSucceeded(i)
  PROVE  TypeInv'
<1> DEFINE k == calls[i].conn
<1>0. WindowTyped /\ gen \in Gen
  BY Holds
<1>7. 1 \in Nat /\ 1 <= Weight("connect") /\ "connect" # "list"
  BY DEF Weight
<1>1. CASE ConnectIgnored(i)
  <2>1. PICK o \in BOOLEAN : Answered(i, "connect", o)
    BY <1>1 DEF ConnectIgnored
  <2>2. /\ Done(i) \in Seq(CallRecord) /\ k \in Conn \cup {None}
        /\ Debt(Done(i)) \in Nat
    BY <2>1, Answering
  <2>3. WindowTyped' /\ gen' = gen
    BY <1>0, <1>1 DEF ConnectIgnored, uiVars, daemonVars, WindowTyped
  <2>4. CASE calls' = Done(i)
    BY <2>1, <2>3, <2>4, Noted
  <2>5. CASE calls' = Append(Done(i), Call("disconnect", k, k))
    <3> DEFINE x == Call("disconnect", k, k)
    <3>1. "disconnect" \in Commands /\ Weight("disconnect") = 0
      BY DEF Commands, Weight
    <3>2. x \in CallRecord /\ x.phase = "sent" /\ Weight(x.cmd) = 0
      <4> HIDE DEF k
      <4> QED BY <1>0, <2>2, <3>1, CallTyped
    <3> HIDE DEF x
    <3>3. calls' = Append(Done(i), x)
      BY <2>5 DEF x
    <3>4. Owes(Debt(Done(i)) + 1) /\ Lists(calls') = Lists(Done(i))
      BY <2>2, <3>2, <3>3, OneMore DEF Owes
    <3>5. Cardinality(Lists(calls')) = Cardinality(Lists(Done(i)))
      BY <3>4
    <3> QED BY <1>7, <2>1, <2>3, <3>4, <3>5, Paid
  <2> QED BY <1>1, <2>4, <2>5 DEF ConnectIgnored
<1>2. CASE ConnectFailed(i)
  <2>1. Answered(i, "connect", FALSE) /\ calls' = Done(i) /\ gen' = gen /\ StopLoading(k)
    BY <1>2 DEF ConnectFailed
  <2>2. loading' \in [Conn -> Gen \cup {NoGen}]
    BY <2>1, StopDraws
  <2>3. icon' \in [Conn -> {"off", "on", "spin"}]
    BY <1>0, <1>2 DEF ConnectFailed, WindowTyped
  <2>4. WindowTyped'
    BY <1>0, <1>2, <2>2, <2>3 DEF ConnectFailed, daemonVars, WindowTyped
  <2> QED BY <2>1, <2>4, Noted
<1>3. CASE ConnectSucceeded(i)
  <2>1. Answered(i, "connect", TRUE) /\ LoadSchema(Done(i), k) /\ gen' = gen
    BY <1>3 DEF ConnectSucceeded
  <2>2. Done(i) \in Seq(CallRecord)
    BY <2>1, Answering
  <2>3. Drawn /\ Owes(Debt(Done(i)) + 1) /\ Lists(calls') = Lists(Done(i))
    <3> HIDE DEF k
    <3> QED BY <2>1, <2>2, SchemaDraws
  <2>4. k \in Conn
    BY <1>0, <1>3 DEF ConnectSucceeded, Busy, Loading, WindowTyped
  <2>5. WindowTyped'
    BY <1>0, <1>3, <2>3, <2>4 DEF ConnectSucceeded, daemonVars, WindowTyped, Drawn
  <2>6. Cardinality(Lists(calls')) = Cardinality(Lists(Done(i)))
    BY <2>3
  <2> QED BY <1>7, <2>1, <2>3, <2>5, <2>6, Paid
<1> QED BY <1>1, <1>2, <1>3

\* The answer of a schema sends nothing.
LEMMA SchemaReplyTyped ==
  ASSUME TypeInv, NEW i \in DOMAIN calls,
         SchemaIgnored(i) \/ SchemaFailed(i) \/ SchemaLate(i) \/ SchemaLoaded(i)
  PROVE  TypeInv'
<1> DEFINE k == calls[i].conn
<1>0. WindowTyped
  BY Holds
<1>1. CASE SchemaIgnored(i)
  <2>1. PICK o \in BOOLEAN : Answered(i, "schema", o)
    BY <1>1 DEF SchemaIgnored
  <2>2. WindowTyped' /\ gen' = gen /\ calls' = Done(i)
    BY <1>0, <1>1 DEF SchemaIgnored, uiVars, daemonVars, WindowTyped
  <2> QED BY <2>1, <2>2, Noted
<1>2. CASE SchemaFailed(i) \/ SchemaLate(i) \/ SchemaLoaded(i)
  <2>1. PICK o \in BOOLEAN : Answered(i, "schema", o)
    BY <1>2 DEF SchemaFailed, SchemaLate, SchemaLoaded
  <2>2. StopLoading(k) /\ gen' = gen /\ calls' = Done(i)
    BY <1>2 DEF SchemaFailed, SchemaLate, SchemaLoaded
  <2>3. loading' \in [Conn -> Gen \cup {NoGen}]
    BY <2>2, StopDraws
  <2>4. /\ UNCHANGED <<tree, selected, modal, wanted, stored, pooled>>
        /\ connected' \subseteq connected
    BY <1>2 DEF SchemaFailed, SchemaLate, SchemaLoaded, daemonVars
  <2>5. /\ icon' \in [Conn -> {"off", "on", "spin"}] /\ rows' \in [Conn -> Nat]
        /\ alive' \in BOOLEAN
    <3>1. CASE SchemaFailed(i)
      BY <1>0, <3>1 DEF SchemaFailed, RowOf, WindowTyped
    <3>2. CASE SchemaLate(i)
      BY <1>0, <3>2 DEF SchemaLate, WindowTyped
    <3>3. CASE SchemaLoaded(i)
      BY <1>0, <3>3 DEF SchemaLoaded, RowOf, WindowTyped
    <3> QED BY <1>2, <3>1, <3>2, <3>3
  <2>6. WindowTyped'
    BY <1>0, <2>3, <2>4, <2>5 DEF WindowTyped
  <2> QED BY <2>1, <2>2, <2>6, Noted
<1> QED BY <1>1, <1>2

\* The answer of a delete may send two: what delete owed.
LEMMA DeleteReplyTyped ==
  ASSUME TypeInv, NEW i \in DOMAIN calls, DeleteReply(i)
  PROVE  TypeInv'
<1> DEFINE x == Call("list", None, None)
<1>0. WindowTyped /\ gen \in Gen
  BY Holds
<1>1. /\ Answered(i, "delete", TRUE) /\ gen' = gen
      /\ UNCHANGED <<tree, selected, modal, alive, stored, pooled>>
  BY DEF DeleteReply, daemonVars
<1>2. Done(i) \in Seq(CallRecord) /\ Debt(Done(i)) \in Nat
  BY <1>1, Answering
<1>3. 2 \in Nat /\ 2 <= Weight("delete") /\ "delete" # "list"
  BY DEF Weight
<1>4. /\ Drawn /\ connected' \subseteq Conn /\ wanted' \subseteq Conn
      /\ Owes(Debt(Done(i)) + 2) /\ Lists(calls') = Lists(Done(i))
  <2>1. CASE calls[i].conn \in connected
    <3>1. DisconnectActive(Done(i), <<x>>)
      BY <2>1 DEF DeleteReply
    <3>2. /\ Drawn /\ connected' \subseteq Conn /\ wanted' \subseteq Conn
          /\ Owes(Debt(Done(i)) + 1 + Len(<<x>>)) /\ Lists(calls') = Lists(Done(i))
      BY <1>2, <3>1, DisconnectDraws
    <3>3. Len(<<x>>) = 1
      OBVIOUS
    <3> HIDE DEF x
    <3> QED BY <1>2, <3>2, <3>3
  <2>2. CASE calls[i].conn \notin connected
    <3>1. calls' = Done(i) \o <<x>> /\ UNCHANGED <<rows, icon, loading, connected, wanted>>
      BY <2>2 DEF DeleteReply
    <3>2. x \in CallRecord /\ x.phase = "sent" /\ Weight(x.cmd) = 0
      BY <1>0, ListTyped
    <3> HIDE DEF x
    <3>3. calls' = Append(Done(i), x)
      BY <1>2, <3>1, <3>2
    <3>4. /\ calls' \in Seq(CallRecord) /\ Debt(calls') = Debt(Done(i)) + 1
          /\ Lists(calls') = Lists(Done(i))
      BY <1>2, <3>2, <3>3, OneMore
    <3>5. Drawn /\ connected' \subseteq Conn /\ wanted' \subseteq Conn
      BY <1>0, <3>1 DEF Drawn, WindowTyped
    <3> QED BY <1>2, <3>4, <3>5 DEF Owes
  <2> QED BY <2>1, <2>2
<1>5. WindowTyped'
  BY <1>0, <1>1, <1>4 DEF WindowTyped, Drawn
<1> HIDE DEF x
<1>6. Cardinality(Lists(calls')) = Cardinality(Lists(Done(i)))
  BY <1>4
<1> QED BY <1>1, <1>3, <1>4, <1>5, <1>6, Paid

\* The answer of a database command may send one.
LEMMA DbReplyTyped ==
  ASSUME TypeInv, NEW i \in DOMAIN calls, DbReply(i)
  PROVE  TypeInv'
<1>0. WindowTyped
  BY Holds
<1>1. Answered(i, "db", TRUE) /\ RefreshSchema(Done(i)) /\ gen' = gen
  BY DEF DbReply
<1>2. Done(i) \in Seq(CallRecord)
  BY <1>1, Answering
<1>3. Drawn /\ Owes(Debt(Done(i)) + 1) /\ Lists(calls') = Lists(Done(i))
  BY <1>1, <1>2, RefreshDraws
<1>4. WindowTyped'
  BY <1>0, <1>3 DEF DbReply, WindowTyped, Drawn, daemonVars
<1>5. 1 \in Nat /\ 1 <= Weight("db") /\ "db" # "list"
  BY DEF Weight
<1>6. Cardinality(Lists(calls')) = Cardinality(Lists(Done(i)))
  BY <1>3
<1> QED BY <1>1, <1>3, <1>4, <1>5, <1>6, Paid

\* Serving a request sends nothing, and opens sessions of saved connections.
LEMMA ServeTyped ==
  ASSUME TypeInv, NEW i \in DOMAIN calls, Serve(i)
  PROVE  TypeInv'
<1>0. WindowTyped /\ calls \in Seq(CallRecord) /\ stored \in SUBSET Conn
        /\ Debt(calls) <= MaxCalls
  BY Holds DEF WindowTyped
<1>1. PICK o \in BOOLEAN :
        /\ Effect(calls[i].cmd, calls[i].conn, o)
        /\ calls' = [calls EXCEPT
             ![i].phase = IF @ = "sent" /\ calls[i].cmd \in WithReply
                          THEN "served" ELSE "done",
             ![i].ok = o,
             ![i].listed = IF o /\ calls[i].cmd = "list" THEN stored ELSE @]
  BY DEF Serve
<1>2. calls[i].phase = "sent" /\ gen' = gen
  BY DEF Serve, uiVars
<1>8. calls' = AsServed(calls, i, o, stored)
  BY <1>1 DEF AsServed
<1>3. calls' \in Seq(CallRecord) /\ Debt(calls') = Debt(calls) /\ Lists(calls') = Lists(calls)
  BY <1>0, <1>2, <1>8, Served
<1>4. stored' \subseteq Conn /\ pooled' \subseteq Conn
  BY <1>0, <1>1 DEF Effect, daemonVars, WindowTyped
<1>5. WindowTyped'
  BY <1>0, <1>4 DEF Serve, uiVars, WindowTyped
<1>6. Owes(MaxCalls)
  BY <1>0, <1>3 DEF Owes
<1> QED BY <1>2, <1>3, <1>5, <1>6, SettledOn

\* The invariant is inductive.
LEMMA NextTyped == TypeInv /\ [Next]_vars => TypeInv'
<1> SUFFICES ASSUME TypeInv, [Next]_vars PROVE TypeInv'
  OBVIOUS
<1>0. WindowTyped
  BY Holds
<1>1. CASE User
  BY <1>1, UserTyped
<1>2. CASE Tick \/ Rest \/ UNCHANGED vars
  <2>1. UNCHANGED <<calls, gen>>
    BY <1>2 DEF Tick, Rest, vars, uiVars
  <2>2. WindowTyped'
    BY <1>0, <1>2 DEF Tick, Rest, vars, uiVars, daemonVars, WindowTyped
  <2> QED BY <2>1, <2>2, Quiet
<1>3. ASSUME NEW i \in DOMAIN calls, Callback(i) PROVE TypeInv'
  BY <1>3, ReplyTyped, ConnectReplyTyped, SchemaReplyTyped, DeleteReplyTyped, DbReplyTyped
  DEF Callback
<1>4. ASSUME NEW i \in DOMAIN calls, Serve(i) PROVE TypeInv'
  BY <1>4, ServeTyped
<1> QED BY <1>1, <1>2, <1>3, <1>4 DEF Next

\* Every command sent, everything the window keeps and the daemon's two sets
\* are of their types, and no command is sent beyond the bound that user input
\* respects: the current row is a row that exists or none, whatever rebuilds
\* the rows (mainwindow_connections.cpp:133-168).
THEOREM WindowIsTyped == Spec => []TypeOK
<1>1. TypeInv => TypeOK
  BY DEF TypeInv
<1> QED BY <1>1, TypeInit, NextTyped, PTL DEF Spec
=============================================================================
