--------------------------- MODULE SessionProofs ---------------------------
(***************************************************************************)
(* One session and its commands, for any set of databases and any number   *)
(* of commands and of changes of the server.                               *)
(*                                                                         *)
(* The properties of Session speak of the moments between commands and of  *)
(* the statements that ran. IInv carries them through a command: which     *)
(* pools may be open at each point (PoolsAt), that a use_database under    *)
(* way has put its pool in place (Moved), where a statement is about to    *)
(* run (AboutToRun), what an attempt that is repeated has done before      *)
(* (RunsSoFar), what list-schema has shown and has left (SchemaSoFar), and *)
(* which parts of a structure were read from which table (StructureSoFar). *)
(***************************************************************************)
EXTENDS Session, FiniteSetTheorems, SequenceTheorems, TLAPS

SQLite == conn.engine = "sqlite"

\* The points of use_database, and those of a command that has its session.
Moving  == {"use", "swap", "close", "note"}
Running == Moving \cup {"text", "again", "row", "structure", "schema", "tables",
                        "create", "drop"}

Pools == Dbs \cup {NoDb, Closed}
Names == Dbs \cup {"", Closed}

Typed ==
  /\ conn \in [engine : Engines, configured : {"", "postgres", "app"},
               denied : SUBSET {"app"}, mode : {"daemon", "cli"}]
  /\ srv \in [up : BOOLEAN, dbs : SUBSET Dbs, changes : 0 .. MaxChanges]
  /\ op \in [kind : Kinds, db : Dbs \cup {""}]
  /\ pc \in {"idle", "connect", "leave", "probe", "use", "swap", "close", "note",
             "again", "tables"} \cup Kinds
  /\ answer \in {"none", "ok", "error"}
  /\ count \in 0 .. MaxCommands
  /\ pool \in Pools /\ dialed \in Pools /\ old \in Pools /\ home \in Pools
  /\ driverDb \in Names /\ app \in Names

\* The maintenance database is never dropped.
MaintenanceStays == "postgres" \in srv.dbs

\* Which command may be at a point, and that it has no answer yet.
KindAt ==
  /\ pc \in Kinds => op.kind = pc
  /\ pc = "connect" => op.kind \notin {"test", "disconnect"}
  /\ pc = "probe" => op.kind = "test"
  /\ pc = "again" => op.kind = "text"
  /\ pc = "tables" => op.kind = "schema"
  /\ pc \in Moving => \/ op.kind = "schema"
                      \/ Named(op.kind) /\ op.db # ""
  /\ op.kind \in {"create", "drop"} => op.db # "postgres"
  /\ pc \notin {"idle", "leave"} => answer = "none"

\* The pools that may be open, and the database the session agrees on.
PoolsAt ==
  /\ (pool = Closed) <=> (app = Closed)
  /\ driverDb # Closed => ~SQLite /\ pool # Closed
  /\ dialed # Closed => pc \in {"swap", "probe"}
  /\ old # Closed => pc = "close"
  /\ pc \in Running => pool # Closed
  /\ conn.mode = "cli" /\ pc \in {"idle", "connect", "test", "probe"} =>
       pool = Closed
  /\ pool # Closed => conn.configured \in Dbs \cup {""}
  /\ SQLite /\ pool # Closed => pool = conn.configured
  /\ ~SQLite /\ pool # Closed /\ pc \notin {"close", "note"} =>
       driverDb = app /\ pool = Place(app)

\* How far use_database has come. SQLite only notes the name.
Moved ==
  /\ pc \in {"swap", "close"} => ~SQLite
  /\ pc = "swap" => dialed = Place(Wanted)
  /\ pc \in {"close", "note"} /\ ~SQLite => pool = Place(Wanted)
  /\ pc = "note" /\ ~SQLite => driverDb = Wanted

\* The databases list-schema has left.
Left ==
  /\ todo \in Seq(Dbs)
  /\ pc \in Moving \cup {"tables"} /\ op.kind = "schema" => todo # <<>> /\ ~SQLite
  /\ pc \in {"connect", "schema"} => todo = <<>> /\ out = <<>>

\* Where a statement that names a database, or none, is to run.
Right(place) ==
  IF op.db = "" \/ SQLite THEN place = home
  ELSE \/ used = "ok" /\ place = Place(op.db)
       \/ used = "failed" /\ place = home

AboutToRun ==
  /\ pc \in {"use", "swap"} /\ op.kind # "schema" => pool = home
  /\ pc = "note" /\ SQLite => pool = home
  /\ pc \in {"text", "again", "row", "structure"} => Right(pool)

\* What ran, and what is known of it while an answer is still due.
RunsSoFar ==
  /\ ran \in Seq(Dbs \cup {NoDb}) /\ Len(ran) <= 2
  /\ ran # <<>> => pc \in {"again", "leave", "idle"} /\ op.kind \in {"text", "row"}
  /\ \A i \in DOMAIN ran : Right(ran[i])
  /\ pc = "again" => Len(ran) <= 1 /\ (~broke => ran = <<>>)
  /\ pc \in {"idle", "leave"} /\ op.kind \in {"text", "row"} /\ ~broke =>
       Len(ran) = IF answer = "ok" THEN 1 ELSE 0

\* What list-schema shows is right, and what is missing is still to come.
Shown == {x.database : x \in Range(out)}

ShowsTables ==
  \A i \in DOMAIN out :
    out[i].from = IF SQLite THEN conn.configured ELSE out[i].database

SchemaSoFar ==
  op.kind = "schema" =>
    /\ out \in Seq([database : Dbs \cup {"main"}, from : Dbs \cup {NoDb}])
    /\ ShowsTables
    /\ pc \in Moving \cup {"tables"} /\ conn.configured = "" /\ quiet =>
         Shown \cup Range(todo) = srv.dbs
    /\ pc \in {"idle", "leave"} /\ answer = "ok" /\ conn.configured = "" /\ quiet =>
         Shown = srv.dbs

StateInv == Typed /\ MaintenanceStays /\ KindAt /\ PoolsAt /\ Moved
IInv == StateInv /\ Left /\ AboutToRun /\ RunsSoFar /\ SchemaSoFar

-----------------------------------------------------------------------------
(* The lists of databases.                                                 *)

\* SetToSeq lists every element of a set of databases.
LEMMA ListsAll ==
  ASSUME NEW S \in SUBSET Dbs, S # {}
  PROVE  /\ SetToSeq(S) \in Seq(Dbs) /\ SetToSeq(S) # <<>>
         /\ Range(SetToSeq(S)) = S
  <1> DEFINE n == Cardinality(S)
             s == SetToSeq(S)
  <1>1. IsFiniteSet(S)
    BY SessionAssumption, FS_Subset
  <1>2. n \in Nat /\ n # 0 /\ ExistsBijection(1 .. n, S)
    BY <1>1, FS_CardinalityType, FS_EmptySet
  <1>3. PICK f \in [1 .. n -> S] : IsInjective(f)
    BY <1>2 DEF ExistsBijection, Bijection, Injection
  <1>4. s \in [1 .. n -> S] /\ IsInjective(s)
    BY <1>3 DEF SetToSeq
  <1>5. s \in Surjection(1 .. n, S)
    <2>1. s \in Injection(1 .. n, S)
      BY <1>4 DEF Injection
    <2>2. Cardinality(1 .. n) = n
      BY <1>2, FS_Interval
    <2> QED BY <1>1, <2>1, <2>2, FS_Injection
  <1>6. Range(s) = S
    BY <1>4, <1>5 DEF Surjection, Range
  <1>7. s \in Seq(Dbs) /\ s # <<>>
    BY <1>2, <1>4
  <1> QED BY <1>6, <1>7

\* A listed database is its head or one of the rest.
LEMMA HeadOrRest ==
  ASSUME NEW S, NEW s \in Seq(S), s # <<>>
  PROVE  /\ Head(s) \in S /\ Tail(s) \in Seq(S)
         /\ Range(s) = {Head(s)} \cup Range(Tail(s))
  <1>1. /\ Head(s) \in S /\ Tail(s) \in Seq(S) /\ Len(Tail(s)) = Len(s) - 1
        /\ \A i \in 1 .. Len(Tail(s)) : Tail(s)[i] = s[i + 1]
    BY HeadTailProperties
  <1>2. Head(s) = s[1] /\ Len(s) \in Nat \ {0} /\ DOMAIN s = 1 .. Len(s)
    BY EmptySeq, LenProperties
  <1>3. DOMAIN Tail(s) = 1 .. Len(s) - 1
    BY <1>1, LenProperties
  <1>4. ASSUME NEW i \in 1 .. Len(s)
        PROVE  s[i] \in {Head(s)} \cup Range(Tail(s))
    <2>1. CASE i = 1
      BY <1>2, <2>1
    <2>2. CASE i # 1
      <3>1. i - 1 \in 1 .. Len(s) - 1 /\ Tail(s)[i - 1] = s[i]
        BY <1>1, <1>2, <2>2
      <3> QED BY <1>3, <3>1 DEF Range
    <2> QED BY <2>1, <2>2
  <1>5. ASSUME NEW i \in 1 .. Len(s) - 1
        PROVE  Tail(s)[i] \in Range(s)
    BY <1>1, <1>2 DEF Range
  <1> QED BY <1>1, <1>2, <1>3, <1>4, <1>5 DEF Range

\* What appending does to the elements of a sequence.
LEMMA Appended ==
  ASSUME NEW S, NEW s \in Seq(S), NEW e \in S
  PROVE  /\ Append(s, e) \in Seq(S) /\ Len(Append(s, e)) = Len(s) + 1
         /\ DOMAIN Append(s, e) = DOMAIN s \cup {Len(s) + 1}
         /\ \A i \in DOMAIN s : Append(s, e)[i] = s[i]
         /\ Append(s, e)[Len(s) + 1] = e
  BY LenProperties

\* The sequence of one element.
LEMMA Single ==
  ASSUME NEW S, NEW e \in S
  PROVE  <<e>> \in Seq(S) /\ <<e>> # <<>> /\ Range(<<e>>) = {e}
  BY DEF Range

-----------------------------------------------------------------------------
(* Opening a database.                                                     *)

USE DEF NoDb, Closed, Pg!NoDb, SQLite, Pools, Names

\* Counting one more stays within a bound that is not reached.
LEMMA OneMore ==
  ASSUME NEW bound \in {MaxCommands, MaxChanges},
         NEW n \in 0 .. bound, n < bound
  PROVE  n + 1 \in 0 .. bound
  <1>1. bound \in Nat
    BY SessionAssumption
  <1> QED BY <1>1

\* The sentinels name no database, and the maintenance database exists.
LEMMA Sentinels ==
  /\ "postgres" \in Dbs
  /\ "" \notin Dbs /\ NoDb \notin Dbs /\ Closed \notin Dbs
  /\ Engines \subseteq {"postgres", "mysql", "sqlite"}
  BY SessionAssumption

\* A database is opened under its own name; no name is the sentinel Closed.
LEMMA PlaceOfName ==
  ASSUME Typed
  PROVE  /\ \A db \in Dbs : Place(db) = db
         /\ Place("") \in {"postgres", NoDb, ""}
         /\ Place("") = "" <=> SQLite
  BY Sentinels DEF Typed, Place, Pg!connect_options, MySql!connect_options,
         Sqlite!connect_options, MySql!NoDb

\* What can be opened is a database of the server, or the server itself.
LEMMA OpensKnown ==
  ASSUME Typed, NEW db \in Dbs \cup {"", "app"}, CanOpen(db)
  PROVE  Place(db) \in Dbs \cup {NoDb} /\ db \in Dbs \cup {""}
  <1>1. Place(db) \in srv.dbs \cup {NoDb} /\ srv.dbs \subseteq Dbs
    BY DEF CanOpen, Typed
  <1>2. db # "" => Place(db) = db
    BY Sentinels DEF Typed, Place, Pg!connect_options, MySql!connect_options,
                     Sqlite!connect_options
  <1> QED BY <1>1, <1>2, Sentinels

\* use_database is given the name of a database.
LEMMA WantedIsName ==
  ASSUME Typed, KindAt, Left, pc \in Moving
  PROVE  Wanted \in Dbs
  <1>1. CASE op.kind = "schema"
    BY <1>1, HeadOrRest DEF Wanted, Left
  <1>2. CASE op.kind # "schema"
    BY <1>2 DEF Wanted, KindAt, Typed
  <1> QED BY <1>1, <1>2

-----------------------------------------------------------------------------
(* The state of the session.                                               *)

AnyRequest ==
  \E kind \in Kinds : \E db \in DbOf(kind) :
    /\ conn.mode = "cli" => kind # "disconnect"
    /\ Request(kind, db)

\* The values that places and names may have.
LEMMA Known ==
  /\ Closed \in Pools /\ NoDb \in Pools /\ Closed \in Names /\ "" \in Names
  /\ \A db \in Dbs : db \in Pools /\ db \in Names
  /\ \A db \in Dbs \cup {NoDb} : db \in Pools
  /\ \A db \in Dbs \cup {""} : db \in Names
  OBVIOUS

\* The sentinels of a pool without a database, of no pool and of a database
\* that is not configured differ.
LEMMA NoDbIsOpen == NoDb # Closed /\ Closed # "" /\ NoDb # ""
  OBVIOUS

HIDE DEF Pools, Names, NoDb, Closed, Pg!NoDb

\* Requests, steps of a command and changes of the server are all there is.
LEMMA Steps ==
  ASSUME Typed, Next
  PROVE  AnyRequest \/ Command \/ Server
  BY DEF Typed, Next, Asked, run_command, run_legacy, AnyRequest

USE DEF session, command, history, Answer, Kinds, Moving, Running, Named, After,
  IInv, StateInv

\* Every variable keeps its type.
LEMMA TypedStays ==
  ASSUME IInv, Next
  PROVE  Typed'
  <1> USE Known
  <1>1. CASE AnyRequest
    <2>1. PICK kind \in Kinds : \E db \in DbOf(kind) : Request(kind, db)
      BY <1>1 DEF AnyRequest
    <2>1a. PICK db \in DbOf(kind) : Request(kind, db)
      BY <2>1
    <2>2. db \in Dbs \cup {""}
      BY DEF DbOf
    <2>3. op' \in [kind : Kinds, db : Dbs \cup {""}]
      BY <2>1a, <2>2 DEF Request
    <2>4. pc' \in {"test", "leave", "connect", "use"} \cup Kinds
      BY <2>1a DEF Request
    <2>5. count' \in 0 .. MaxCommands
      <3>1. count \in 0 .. MaxCommands /\ count < MaxCommands /\ count' = count + 1
        BY <2>1a DEF Request, Typed
      <3> QED BY <3>1, OneMore
    <2> QED BY <2>1a, <2>3, <2>4, <2>5 DEF Request, Typed
  <1>2. CASE Connect \/ TestDial
    <2>1. /\ Place(conn.configured) \in Dbs \cup {NoDb}
          /\ conn.configured \in Dbs \cup {""}
      BY <1>2, OpensKnown, Sentinels DEF Connect, TestDial, Typed
    <2>2. CASE Connect
      BY <2>1, <2>2 DEF Connect, Typed
    <2>3. CASE TestDial
      BY <2>1, <2>3 DEF TestDial, Typed
    <2> QED BY <1>2, <2>2, <2>3
  <1>3. CASE UseDial
    <2>1. Wanted \in Dbs
      BY <1>3, WantedIsName DEF UseDial
    <2>2. CanOpen(Wanted) => Place(Wanted) \in Pools
      BY <2>1, OpensKnown
    <2> QED BY <1>3, <2>2 DEF UseDial, Typed
  <1>4. CASE UseClose \/ UseNote
    <2>1. Wanted \in Dbs
      BY <1>4, WantedIsName DEF UseClose, UseNote
    <2>2. CASE UseClose
      BY <2>1, <2>2 DEF UseClose, Typed
    <2>3. CASE UseNote
      BY <2>1, <2>3 DEF UseNote, KindAt, Typed
    <2> QED BY <1>4, <2>2, <2>3
  <1>5. CASE ConnectFails \/ TestFails \/ Fails
    BY <1>5 DEF ConnectFails, TestFails, Fails, Typed
  <1>6. CASE Leave \/ Probe
    BY <1>6 DEF Leave, Probe, Typed
  <1>7. CASE UseFails
    BY <1>7 DEF UseFails, Typed, KindAt
  <1>71. CASE UseSwap
    BY <1>71 DEF UseSwap, Typed
  <1>8. CASE TextRuns \/ TextBreaks \/ Again \/ Row
    BY <1>8 DEF TextRuns, TextBreaks, Again, Row, Typed
  <1>9. CASE ReadStructure \/ list_schema \/ handle_list_schema
    BY <1>9 DEF ReadStructure, list_schema, handle_list_schema, Typed
  <1>10. CASE CreateOrDrop \/ Server
    <2>1. srv' \in [up : BOOLEAN, dbs : SUBSET Dbs, changes : 0 .. MaxChanges]
      <3>1. CASE CreateOrDrop
        <4>1. Legal => op.db \in Dbs
          BY DEF Legal, Typed, Pg!create_database, Pg!drop_database,
                 MySql!create_database, MySql!drop_database
        <4> QED BY <3>1, <4>1 DEF CreateOrDrop, Typed
      <3>2. CASE Server
        <4>1. /\ srv \in [up : BOOLEAN, dbs : SUBSET Dbs, changes : 0 .. MaxChanges]
              /\ srv.changes < MaxChanges
          BY <3>2 DEF Server, Typed
        <4>2. srv.changes + 1 \in 0 .. MaxChanges
          BY <4>1, OneMore
        <4>3. CASE srv' = [srv EXCEPT !.up = ~@, !.changes = @ + 1]
          BY <4>1, <4>2, <4>3
        <4>4. ASSUME NEW db \in Dbs \ {"postgres"},
                     srv' = [srv EXCEPT !.dbs = IF db \in @ THEN @ \ {db} ELSE @ \cup {db},
                                        !.changes = @ + 1]
              PROVE  srv' \in [up : BOOLEAN, dbs : SUBSET Dbs, changes : 0 .. MaxChanges]
          BY <4>1, <4>2, <4>4
        <4> QED BY <3>2, <4>3, <4>4 DEF Server
      <3> QED BY <1>10, <3>1, <3>2
    <2> QED BY <1>10, <2>1 DEF CreateOrDrop, Server, Typed
  <1> QED BY <1>1, <1>2, <1>3, <1>4, <1>5, <1>6, <1>7, <1>71, <1>8, <1>9, <1>10, Steps
          DEF Command

\* No command drops the maintenance database, and no other client does.
LEMMA MaintenanceKept ==
  ASSUME IInv, Next
  PROVE  MaintenanceStays'
  <1>1. CASE CreateOrDrop
    <2>1. /\ srv \in [up : BOOLEAN, dbs : SUBSET Dbs, changes : 0 .. MaxChanges]
          /\ "postgres" \in srv.dbs /\ op.db # "postgres"
      BY <1>1 DEF CreateOrDrop, Typed, MaintenanceStays, KindAt
    <2>2. "postgres" \in srv'.dbs
      BY <1>1, <2>1 DEF CreateOrDrop
    <2> QED BY <2>2 DEF MaintenanceStays
  <1>2. CASE Server
    <2>1. /\ srv \in [up : BOOLEAN, dbs : SUBSET Dbs, changes : 0 .. MaxChanges]
          /\ "postgres" \in srv.dbs
      BY DEF Typed, MaintenanceStays
    <2>2. CASE srv' = [srv EXCEPT !.up = ~@, !.changes = @ + 1]
      BY <2>1, <2>2 DEF MaintenanceStays
    <2>3. ASSUME NEW db \in Dbs \ {"postgres"},
                 srv' = [srv EXCEPT !.dbs = IF db \in @ THEN @ \ {db} ELSE @ \cup {db},
                                    !.changes = @ + 1]
          PROVE  MaintenanceStays'
      BY <2>1, <2>3 DEF MaintenanceStays
    <2> QED BY <1>2, <2>2, <2>3 DEF Server
  <1>3. CASE UNCHANGED srv
    BY <1>3 DEF MaintenanceStays
  <1>4. AnyRequest => UNCHANGED srv
    BY DEF AnyRequest, Request
  <1>5. Command => UNCHANGED srv \/ CreateOrDrop
    BY DEF Command, Connect, ConnectFails, Leave, TestDial, Probe, TestFails,
           UseDial, UseFails, UseSwap, UseClose, UseNote, TextRuns, TextBreaks,
           Again, Row, ReadStructure, Fails, list_schema, handle_list_schema
  <1> QED BY <1>1, <1>2, <1>3, <1>4, <1>5, Steps

\* A command goes through the points of its own kind only, unanswered until
\* its last.
LEMMA KindKept ==
  ASSUME IInv, Next
  PROVE  KindAt'
  <1>1. CASE AnyRequest
    <2>1. PICK kind \in Kinds : \E db \in DbOf(kind) : Request(kind, db)
      BY <1>1 DEF AnyRequest
    <2>2. PICK db \in DbOf(kind) : Request(kind, db)
      BY <2>1
    <2>3. kind \in {"create", "drop"} => db # "postgres"
      BY DEF DbOf
    <2> QED BY <2>2, <2>3 DEF Request, KindAt
  <1>2. CASE Connect \/ ConnectFails \/ Leave \/ TestDial \/ Probe \/ TestFails
    BY <1>2 DEF Connect, ConnectFails, Leave, TestDial, Probe, TestFails, KindAt, Typed
  <1>3. CASE UseDial \/ UseFails \/ UseSwap \/ UseClose \/ UseNote
    BY <1>3 DEF UseDial, UseFails, UseSwap, UseClose, UseNote, KindAt, Typed
  <1>4. CASE TextRuns \/ TextBreaks \/ Again \/ Row
    BY <1>4 DEF TextRuns, TextBreaks, Again, Row, KindAt, Typed
  <1>5. CASE ReadStructure \/ CreateOrDrop \/ Fails
    BY <1>5 DEF ReadStructure, CreateOrDrop, Fails, KindAt, Typed
  <1>6. CASE list_schema \/ handle_list_schema
    BY <1>6 DEF list_schema, handle_list_schema, KindAt, Typed
  <1>7. CASE Server
    BY <1>7 DEF Server, KindAt
  <1> QED BY <1>1, <1>2, <1>3, <1>4, <1>5, <1>6, <1>7, Steps DEF Command

\* A pool is opened, put in place and closed as the points of a command say,
\* and AppState, the driver and the pool agree again after use_database.
LEMMA PoolsKept ==
  ASSUME IInv, Next
  PROVE  PoolsAt'
  <1> USE Known, Sentinels
  <1>1. CASE AnyRequest
    <2>1. PICK kind \in Kinds : \E db \in DbOf(kind) : Request(kind, db)
      BY <1>1 DEF AnyRequest
    <2>2. PICK db \in DbOf(kind) : Request(kind, db)
      BY <2>1
    <2>3. conn.mode = "cli" => kind # "disconnect"
      BY <1>1, <2>2 DEF AnyRequest, Request
    <2> QED BY <2>2, <2>3 DEF Request, PoolsAt, Typed, Place
  <1>2. CASE Connect
    <2>1. /\ Place(conn.configured) \in Dbs \cup {NoDb}
          /\ conn.configured \in Dbs \cup {""}
      BY <1>2, OpensKnown DEF Connect, Typed
    <2>2. pool' = Place(conn.configured) /\ app' = conn.configured
      BY <1>2 DEF Connect
    <2>21. pool' # Closed /\ app' # Closed
      BY <2>1, <2>2, NoDbIsOpen
    <2>3. SQLite => pool' = conn.configured
      BY <2>2 DEF Place, Sqlite!connect_options
    <2>4. /\ pc' \notin {"idle", "connect", "test", "probe", "swap", "close", "note"}
          /\ dialed' = dialed /\ old' = old /\ conn' = conn
      BY <1>2 DEF Connect, KindAt, Typed
    <2>5. driverDb' = (IF SQLite THEN Closed ELSE conn.configured)
      BY <1>2 DEF Connect
    <2> QED BY <1>2, <2>1, <2>2, <2>21, <2>3, <2>4, <2>5 DEF Connect, PoolsAt, Place
  <1>3. CASE ConnectFails
    BY <1>3 DEF ConnectFails, PoolsAt, Typed, Place
  <1>4. CASE Leave
    BY <1>4 DEF Leave, PoolsAt, Typed, Place
  <1>5. CASE TestDial
    BY <1>5 DEF TestDial, PoolsAt, Typed, Place
  <1>6. CASE Probe
    BY <1>6 DEF Probe, PoolsAt, Typed, Place
  <1>7. CASE TestFails
    BY <1>7 DEF TestFails, PoolsAt, Typed, Place
  <1>8. CASE UseDial
    BY <1>8, WantedIsName DEF UseDial, PoolsAt, Typed, Place
  <1>9. CASE UseFails
    BY <1>9 DEF UseFails, PoolsAt, Typed, Place, KindAt
  <1>10. CASE UseSwap
    <2>1. pool' = Place(Wanted) /\ Wanted \in Dbs /\ ~SQLite
      BY <1>10, WantedIsName DEF UseSwap, Moved
    <2>2. pool' \in Dbs
      BY <2>1, PlaceOfName
    <2> QED BY <1>10, <2>1, <2>2 DEF UseSwap, PoolsAt
  <1>11. CASE UseClose
    BY <1>11, WantedIsName DEF UseClose, PoolsAt, Typed, Place, Moved
  <1>12. CASE UseNote
    BY <1>12, WantedIsName DEF UseNote, PoolsAt, Typed, Place, Moved, KindAt
  <1>13. CASE TextRuns \/ TextBreaks \/ Again \/ Row
    BY <1>13 DEF TextRuns, TextBreaks, Again, Row, PoolsAt, Typed, Place
  <1>14. CASE ReadStructure \/ CreateOrDrop \/ Fails
    BY <1>14 DEF ReadStructure, CreateOrDrop, Fails, PoolsAt, Typed, Place
  <1>15. CASE list_schema \/ handle_list_schema
    BY <1>15 DEF list_schema, handle_list_schema, PoolsAt, Typed, Place
  <1>16. CASE Server
    BY <1>16 DEF Server, PoolsAt, Place
  <1> QED BY <1>1, <1>2, <1>3, <1>4, <1>5, <1>6, <1>7, <1>8, <1>9, <1>10, <1>11,
             <1>12, <1>13, <1>14, <1>15, <1>16, Steps DEF Command

\* use_database puts the pool of the wanted database in place, then notes it.
LEMMA MovedKept ==
  ASSUME IInv, Next
  PROVE  Moved'
  <1>1. CASE AnyRequest
    <2>1. PICK kind \in Kinds : \E db \in DbOf(kind) : Request(kind, db)
      BY <1>1 DEF AnyRequest
    <2>2. PICK db \in DbOf(kind) : Request(kind, db)
      BY <2>1
    <2> QED BY <2>2 DEF Request, Moved
  <1>2. CASE Connect \/ ConnectFails \/ Leave
    BY <1>2 DEF Connect, ConnectFails, Leave, Moved, KindAt, Typed
  <1>3. CASE TestDial \/ Probe \/ TestFails
    BY <1>3 DEF TestDial, Probe, TestFails, Moved
  <1>4. CASE UseDial
    BY <1>4 DEF UseDial, Moved, Place, Wanted
  <1>5. CASE UseFails
    BY <1>5 DEF UseFails, KindAt, Moved
  <1>6. CASE UseSwap
    BY <1>6 DEF UseSwap, Moved, Place, Wanted
  <1>7. CASE UseClose
    BY <1>7 DEF UseClose, Moved, Place, Wanted
  <1>8. CASE UseNote
    BY <1>8 DEF UseNote, Moved, KindAt
  <1>9. CASE TextRuns \/ TextBreaks \/ Again \/ Row
    BY <1>9 DEF TextRuns, TextBreaks, Again, Row, Moved
  <1>10. CASE ReadStructure \/ CreateOrDrop \/ Fails
    BY <1>10 DEF ReadStructure, CreateOrDrop, Fails, Moved
  <1>11. CASE list_schema \/ handle_list_schema
    BY <1>11 DEF list_schema, handle_list_schema, Moved
  <1>12. CASE Server
    BY <1>12 DEF Server, Moved, Place, Wanted
  <1> QED BY <1>1, <1>2, <1>3, <1>4, <1>5, <1>6, <1>7, <1>8, <1>9, <1>10, <1>11,
             <1>12, Steps DEF Command

\* list-schema has a database left at every use_database of it.
LEMMA LeftKept ==
  ASSUME IInv, Next
  PROVE  Left'
  <1>1. CASE AnyRequest
    <2>1. PICK kind \in Kinds : \E db \in DbOf(kind) : Request(kind, db)
      BY <1>1 DEF AnyRequest
    <2>2. PICK db \in DbOf(kind) : Request(kind, db)
      BY <2>1
    <2>3. pc' \in Moving \cup {"tables"} => kind # "schema"
      BY <2>2 DEF Request
    <2>4. op'.kind = kind /\ todo' = <<>> /\ out' = <<>>
      BY <2>2 DEF Request
    <2> QED BY <2>3, <2>4 DEF Left
  <1>2. CASE Connect \/ ConnectFails \/ Leave
    BY <1>2 DEF Connect, ConnectFails, Leave, Left, KindAt, Typed
  <1>3. CASE TestDial \/ Probe \/ TestFails
    BY <1>3 DEF TestDial, Probe, TestFails, Left
  <1>4. CASE UseDial \/ UseFails
    BY <1>4 DEF UseDial, UseFails, Left, KindAt
  <1>5. CASE UseSwap \/ UseClose \/ UseNote
    BY <1>5 DEF UseSwap, UseClose, UseNote, Left, KindAt
  <1>6. CASE TextRuns \/ TextBreaks \/ Again \/ Row
    BY <1>6 DEF TextRuns, TextBreaks, Again, Row, Left, KindAt
  <1>7. CASE ReadStructure \/ CreateOrDrop \/ Fails
    BY <1>7 DEF ReadStructure, CreateOrDrop, Fails, Left, KindAt
  <1>8. CASE list_schema
    <2>1. SetToSeq(list_databases) \in Seq(Dbs) /\ SetToSeq(list_databases) # <<>>
      <3>1. list_databases = srv.dbs
        BY DEF list_databases, Pg!list_databases, MySql!list_databases
      <3>2. srv.dbs \in SUBSET Dbs /\ srv.dbs # {}
        BY DEF Typed, MaintenanceStays
      <3> QED BY <3>1, <3>2, ListsAll
    <2>2. pc = "schema" /\ todo = <<>>
      BY <1>8 DEF list_schema, Left
    <2>3. pool # Closed
      BY <2>2 DEF PoolsAt
    <2>4. conn.configured # "" => <<conn.configured>> \in Seq(Dbs)
      <3>1. conn.configured # "" => conn.configured \in Dbs
        BY <2>3 DEF PoolsAt
      <3> QED BY <3>1, Single
    <2>5. /\ op' = op /\ conn' = conn /\ pc' \notin {"connect", "schema"}
          /\ pc' = "use" \/ (pc' \in {"leave", "idle"} /\ todo' = todo)
      BY <1>8 DEF list_schema
    <2>6. pc' = "use" => /\ todo' \in Seq(Dbs) /\ todo' # <<>> /\ ~SQLite
      <3>1. pc' = "use" => /\ ~SQLite
                           /\ \/ todo' = SetToSeq(list_databases)
                              \/ conn.configured # "" /\ todo' = <<conn.configured>>
        BY <1>8 DEF list_schema
      <3> QED BY <2>1, <2>4, <3>1, Single
    <2> QED BY <2>2, <2>5, <2>6 DEF Left
  <1>9. CASE handle_list_schema
    <2>1. todo \in Seq(Dbs) /\ todo # <<>> /\ ~SQLite
      BY <1>9 DEF handle_list_schema, Left, KindAt
    <2>2. Tail(todo) \in Seq(Dbs)
      BY <2>1, HeadOrRest
    <2> QED BY <1>9, <2>1, <2>2 DEF handle_list_schema, Left
  <1>10. CASE Server
    BY <1>10 DEF Server, Left
  <1> QED BY <1>1, <1>2, <1>3, <1>4, <1>5, <1>6, <1>7, <1>8, <1>9, <1>10,
             Steps DEF Command

\* A statement is about to run in the database it names, or where the session
\* was.
LEMMA AboutToRunKept ==
  ASSUME IInv, Next
  PROVE  AboutToRun'
  <1>1. CASE AnyRequest
    <2>1. PICK kind \in Kinds : \E db \in DbOf(kind) : Request(kind, db)
      BY <1>1 DEF AnyRequest
    <2>2. PICK db \in DbOf(kind) : Request(kind, db)
      BY <2>1
    <2>3. op'.db = db /\ home' = pool /\ pool' = pool
      BY <2>2 DEF Request
    <2>4. pc' \notin {"note", "again"} /\ (pc' \in {"text", "row", "structure"} => db = "")
      BY <2>2 DEF Request
    <2> QED BY <2>3, <2>4 DEF AboutToRun, Right
  <1>2. CASE Connect
    <2>1. home' = pool' /\ op' = op /\ pc' = After(op)
      BY <1>2 DEF Connect
    <2>2. pc' \notin {"note", "again"} /\ (pc' \in {"text", "row", "structure"} => op.db = "")
      BY <2>1 DEF Typed
    <2> QED BY <2>1, <2>2 DEF AboutToRun, Right
  <1>3. CASE ConnectFails \/ Leave \/ TestDial \/ Probe \/ TestFails
    BY <1>3 DEF ConnectFails, Leave, TestDial, Probe, TestFails, AboutToRun
  <1>4. CASE UseDial
    BY <1>4 DEF UseDial, AboutToRun, Left
  <1>5. CASE UseFails
    BY <1>5 DEF UseFails, AboutToRun, Right, KindAt
  <1>6. CASE UseSwap \/ UseClose
    BY <1>6 DEF UseSwap, UseClose, AboutToRun, Moved
  <1>7. CASE UseNote
    <2>1. op.kind # "schema" => Wanted = op.db
      BY DEF Wanted
    <2> QED BY <1>7, <2>1 DEF UseNote, AboutToRun, Moved, Right, Place, KindAt
  <1>8. CASE TextRuns \/ TextBreaks \/ Again \/ Row
    BY <1>8 DEF TextRuns, TextBreaks, Again, Row, AboutToRun, Right, Place
  <1>9. CASE ReadStructure \/ CreateOrDrop \/ Fails
    BY <1>9 DEF ReadStructure, CreateOrDrop, Fails, AboutToRun, Right, Place
  <1>10. CASE list_schema \/ handle_list_schema
    BY <1>10 DEF list_schema, handle_list_schema, AboutToRun, KindAt
  <1>11. CASE Server
    BY <1>11 DEF Server, AboutToRun, Right, Place
  <1> QED BY <1>1, <1>2, <1>3, <1>4, <1>5, <1>6, <1>7, <1>8, <1>9, <1>10, <1>11,
             Steps DEF Command

-----------------------------------------------------------------------------
(* What ran.                                                               *)

\* The right place does not change while the command, the connection and what
\* use_database came to do not.
LEMMA RightStays ==
  ASSUME NEW place, UNCHANGED <<op, conn, home, used>>, Right(place)
  PROVE  Right(place)'
  BY DEF Right, Place

\* A statement that runs is counted, and runs at the right place.
LEMMA OneRan ==
  ASSUME IInv, Len(ran) <= 1, pc \in {"text", "again", "row"}, CanRun,
         ran' = Append(ran, pool), UNCHANGED <<op, conn, home, used>>
  PROVE  /\ ran' \in Seq(Dbs \cup {NoDb}) /\ Len(ran') = Len(ran) + 1 /\ Len(ran') <= 2
         /\ (\A i \in DOMAIN ran : Right(ran[i]))'
  <1>1. pool \in Dbs \cup {NoDb} /\ Right(pool)
    BY DEF Typed, CanRun, AboutToRun
  <1>2. PICK place : place = pool
    OBVIOUS
  <1>3. ran \in Seq(Dbs \cup {NoDb}) /\ Len(ran) \in Nat /\ DOMAIN ran = 1 .. Len(ran)
    BY LenProperties DEF RunsSoFar
  <1>4. /\ ran' \in Seq(Dbs \cup {NoDb}) /\ Len(ran') = Len(ran) + 1
        /\ DOMAIN ran' = DOMAIN ran \cup {Len(ran) + 1}
        /\ \A i \in DOMAIN ran : ran'[i] = ran[i]
        /\ ran'[Len(ran) + 1] = pool
    BY <1>1, <1>3, Appended
  <1>5. ASSUME NEW i \in DOMAIN ran'
        PROVE  Right(ran[i])'
    <2>1. PICK here : here = ran'[i]
      OBVIOUS
    <2>2. Right(here)
      BY <1>1, <1>4, <2>1 DEF RunsSoFar
    <2>3. Right(here)'
      BY <2>2, RightStays
    <2> QED BY <2>1, <2>3 DEF Right, Place
  <1> QED BY <1>3, <1>4, <1>5

\* Nothing ran before the attempt.
LEMMA NothingRan ==
  ASSUME RunsSoFar, pc \notin {"again", "leave", "idle"}
  PROVE  ran = <<>> /\ Len(ran) = 0
  BY DEF RunsSoFar

\* Running a statement, breaking off and running it again keep the account.
LEMMA RunsKept ==
  ASSUME IInv, Next
  PROVE  RunsSoFar'
  <1> DEFINE Same == UNCHANGED <<op, conn, home, used>>
  <1>1. CASE ran' = <<>> /\ pc' # "again"
             /\ (pc' \in {"idle", "leave"} /\ op'.kind \in {"text", "row"} => answer' # "ok")
    BY <1>1 DEF RunsSoFar
  <1>2. CASE AnyRequest
    <2>1. PICK kind \in Kinds : \E db \in DbOf(kind) : Request(kind, db)
      BY <1>2 DEF AnyRequest
    <2>2. PICK db \in DbOf(kind) : Request(kind, db)
      BY <2>1
    <2> QED BY <1>1, <2>2 DEF Request
  <1>3. CASE Connect \/ ConnectFails \/ TestDial \/ Probe \/ TestFails
    BY <1>1, <1>3, NothingRan
       DEF Connect, ConnectFails, TestDial, Probe, TestFails, KindAt, Typed
  <1>4. CASE UseDial \/ UseFails \/ UseSwap \/ UseClose \/ UseNote
    BY <1>1, <1>4, NothingRan
       DEF UseDial, UseFails, UseSwap, UseClose, UseNote, KindAt, Typed
  <1>5. CASE ReadStructure \/ CreateOrDrop \/ Fails \/ list_schema \/ handle_list_schema
    <2>1. ran = <<>> /\ op.kind \notin {"text", "row"}
      BY <1>5, NothingRan
         DEF ReadStructure, CreateOrDrop, Fails, list_schema, handle_list_schema, KindAt
    <2>2. pc' # "again" /\ ran' = ran /\ op' = op
      BY <1>5, <2>1
         DEF ReadStructure, CreateOrDrop, Fails, list_schema, handle_list_schema
    <2> QED BY <1>1, <2>1, <2>2
  <1>6. CASE Leave
    BY <1>6, RightStays DEF Leave, RunsSoFar, Right, Place
  <1>7. CASE TextRuns
    BY <1>7, NothingRan, OneRan DEF TextRuns, RunsSoFar, KindAt
  <1>8. CASE TextBreaks
    BY <1>8, NothingRan, OneRan DEF TextBreaks, RunsSoFar, KindAt
  <1>9. CASE Again
    <2>1. /\ pc = "again" /\ op' = op /\ UNCHANGED <<op, conn, home, used>>
          /\ op.kind = "text" /\ pc' \in {"idle", "leave"}
      BY <1>9 DEF Again, KindAt
    <2>2. Len(ran) \in Nat /\ Len(ran) <= 1 /\ (~broke => Len(ran) = 0)
      BY <2>1, LenProperties DEF RunsSoFar
    <2>3. CASE /\ CanRun /\ ran' = Append(ran, pool)
               /\ (answer' = "ok" /\ broke' = broke) \/ broke' = TRUE
      <3>1. /\ ran' \in Seq(Dbs \cup {NoDb}) /\ Len(ran') = Len(ran) + 1 /\ Len(ran') <= 2
            /\ (\A i \in DOMAIN ran : Right(ran[i]))'
        BY <2>1, <2>2, <2>3, OneRan
      <3>2. ~broke' => Len(ran') = 1 /\ answer' = "ok"
        BY <2>2, <2>3, <3>1
      <3> QED BY <2>1, <3>1, <3>2 DEF RunsSoFar
    <2>4. CASE answer' = "error" /\ UNCHANGED <<ran, broke>>
      BY <2>1, <2>2, <2>4 DEF RunsSoFar, Right, Place
    <2> QED BY <1>9, <2>3, <2>4 DEF Again
  <1>10. CASE Row
    <2>1. /\ pc = "row" /\ op' = op /\ UNCHANGED <<op, conn, home, used>>
          /\ op.kind = "row" /\ pc' \in {"idle", "leave"}
      BY <1>10 DEF Row, KindAt
    <2>2. ran = <<>> /\ Len(ran) = 0
      BY <2>1, NothingRan
    <2>3. CASE CanRun /\ ran' = Append(ran, pool) /\ (answer' = "ok" \/ broke')
      BY <2>1, <2>2, <2>3, OneRan DEF RunsSoFar
    <2>4. CASE answer' = "error" /\ UNCHANGED ran
      BY <1>1, <2>1, <2>2, <2>4
    <2> QED BY <1>10, <2>3, <2>4 DEF Row
  <1>11. CASE Server
    BY <1>11 DEF Server, RunsSoFar, Right, Place
  <1> QED BY <1>2, <1>3, <1>4, <1>5, <1>6, <1>7, <1>8, <1>9, <1>10, <1>11,
             Steps DEF Command

-----------------------------------------------------------------------------
(* What list-schema shows.                                                 *)

Lists == Seq([database : Dbs \cup {"main"}, from : Dbs \cup {NoDb}])

\* The tables listed under a name are that database's, and SQLite's those of
\* the file.
LEMMA ListsItsOwn ==
  ASSUME IInv, op.kind = "schema", pc \in {"schema", "tables"},
         NEW db \in Dbs \cup {"main"}, IF SQLite THEN db = "main" ELSE db \in Dbs,
         CanList(db) \/ CanRun
  PROVE  /\ Listed(db) \in [database : Dbs \cup {"main"}, from : Dbs \cup {NoDb}]
         /\ Listed(db).from = IF SQLite THEN conn.configured ELSE db
         /\ Listed(db).database = db
  <1>1. pool # Closed
    BY DEF PoolsAt
  <1>2. CASE SQLite
    <2>1. pool = conn.configured
      BY <1>1, <1>2 DEF PoolsAt
    <2>2. CanRun /\ pool \in Dbs \cup {NoDb}
      BY <1>2, Sentinels DEF CanList, CanRun, Typed
    <2>3. list_tables(db) = pool
      BY <1>2 DEF list_tables, Sqlite!list_tables
    <2> QED BY <1>2, <2>1, <2>2, <2>3 DEF Listed
  <1>3. CASE ~SQLite
    <2>1. list_tables(db) = db
      BY <1>3, Sentinels DEF list_tables, Pg!list_tables, MySql!list_tables, Typed
    <2> QED BY <1>3, <2>1 DEF Listed
  <1> QED BY <1>2, <1>3

\* What is listed once more is added to what is shown, and as right as before.
LEMMA OneShown ==
  ASSUME out \in Lists, ShowsTables, conn' = conn,
         NEW e \in [database : Dbs \cup {"main"}, from : Dbs \cup {NoDb}],
         e.from = IF SQLite THEN conn.configured ELSE e.database,
         out' = Append(out, e)
  PROVE  out' \in Lists /\ Shown' = Shown \cup {e.database} /\ ShowsTables'
  <1>1. /\ out' \in Lists /\ DOMAIN out' = DOMAIN out \cup {Len(out) + 1}
        /\ \A i \in DOMAIN out : out'[i] = out[i]
        /\ out'[Len(out) + 1] = e
    BY Appended DEF Lists
  <1>2. Range(out') = Range(out) \cup {e}
    BY <1>1 DEF Range
  <1>3. Shown' = Shown \cup {e.database}
    BY <1>2 DEF Shown
  <1>4. ShowsTables'
    BY <1>1 DEF ShowsTables
  <1> QED BY <1>1, <1>3, <1>4

\* Nothing is shown at first.
LEMMA NothingShown ==
  out = <<>> => out \in Lists /\ Shown = {} /\ ShowsTables
  BY DEF Lists, Shown, ShowsTables, Range

\* list-schema adds one database after the other to what it shows.
LEMMA SchemaKept ==
  ASSUME IInv, Next
  PROVE  SchemaSoFar'
  <1> USE DEF Lists
  <1>1. CASE op'.kind # "schema"
    BY <1>1 DEF SchemaSoFar
  <1>2. CASE /\ op.kind = "schema" /\ UNCHANGED <<op, out, conn>>
             /\ pc' \in Moving \cup {"tables"} /\ pc \in Moving
             /\ UNCHANGED <<todo, srv, quiet>>
    BY <1>2 DEF SchemaSoFar, Shown, ShowsTables
  <1>3. CASE /\ op.kind = "schema" /\ UNCHANGED <<op, out, conn>>
             /\ pc' \notin Moving \cup {"tables"}
             /\ pc' \in {"idle", "leave"} => answer' # "ok"
    BY <1>3 DEF SchemaSoFar, Shown, ShowsTables
  <1>4. CASE AnyRequest
    <2>1. PICK kind \in Kinds : \E db \in DbOf(kind) : Request(kind, db)
      BY <1>4 DEF AnyRequest
    <2>2. PICK db \in DbOf(kind) : Request(kind, db)
      BY <2>1
    <2>3. op'.kind = kind /\ out' = <<>>
      BY <2>2 DEF Request
    <2>4. kind = "schema" => pc' \in {"connect", "schema"}
      BY <2>2 DEF Request
    <2>5. (out \in Lists /\ ShowsTables)'
      BY <2>3 DEF ShowsTables
    <2> QED BY <1>1, <2>3, <2>4, <2>5 DEF SchemaSoFar
  <1>5. CASE Connect \/ ConnectFails \/ Fails
    <2>1. CASE op.kind # "schema"
      BY <1>1, <1>5, <2>1 DEF Connect, ConnectFails, Fails
    <2>2. CASE op.kind = "schema"
      BY <1>3, <1>5, <2>2 DEF Connect, ConnectFails, Fails
    <2> QED BY <2>1, <2>2
  <1>6. CASE Leave
    <2>1. CASE op.kind # "schema"
      BY <1>1, <1>6, <2>1 DEF Leave
    <2>2. CASE op.kind = "schema"
      BY <1>6, <2>2 DEF Leave, SchemaSoFar, Shown, ShowsTables
    <2> QED BY <2>1, <2>2
  <1>7. CASE TestDial \/ Probe \/ TestFails
    BY <1>1, <1>7 DEF TestDial, Probe, TestFails, KindAt
  <1>8. CASE UseDial \/ UseFails \/ UseSwap \/ UseClose \/ UseNote
    <2>1. CASE op.kind # "schema"
      BY <1>1, <1>8, <2>1 DEF UseDial, UseFails, UseSwap, UseClose, UseNote
    <2>2. CASE op.kind = "schema" /\ UseFails
      BY <1>3, <2>2 DEF UseFails
    <2>3. CASE op.kind = "schema" /\ ~UseFails
      BY <1>2, <1>8, <2>3 DEF UseDial, UseSwap, UseClose, UseNote
    <2> QED BY <2>1, <2>2, <2>3
  <1>9. CASE TextRuns \/ TextBreaks \/ Again \/ Row
    BY <1>1, <1>9 DEF TextRuns, TextBreaks, Again, Row, KindAt
  <1>10. CASE ReadStructure
    BY <1>1, <1>10 DEF ReadStructure, KindAt
  <1>11. CASE CreateOrDrop
    BY <1>1, <1>11 DEF CreateOrDrop, KindAt
  <1>12. CASE list_schema
    <2>1. /\ op.kind = "schema" /\ out = <<>> /\ todo = <<>> /\ pc = "schema"
          /\ pool # Closed
          /\ UNCHANGED <<conn, srv, op, quiet>>
      BY <1>12 DEF list_schema, KindAt, Left, PoolsAt
    <2>2. conn.configured \in Dbs \cup {""} /\ (SQLite /\ CanRun => conn.configured # "")
      BY <2>1, NoDbIsOpen, Sentinels DEF PoolsAt, CanRun, Typed
    <2>3. out \in Lists /\ Shown = {} /\ ShowsTables
      BY <2>1, NothingShown
    <2>4. CASE SQLite /\ CanRun /\ out' = <<Listed("main")>> /\ Answer("ok")
      <3>1. /\ Listed("main") \in [database : Dbs \cup {"main"}, from : Dbs \cup {NoDb}]
            /\ Listed("main").from = conn.configured
        BY <2>1, <2>4, ListsItsOwn
      <3>2. out' = Append(out, Listed("main"))
        BY <2>1, <2>4
      <3>3. out' \in Lists /\ ShowsTables'
        BY <2>1, <2>3, <2>4, <3>1, <3>2, OneShown
      <3> QED BY <2>1, <2>2, <2>4, <3>3 DEF SchemaSoFar
    <2>5. CASE ~SQLite /\ conn.configured = "" /\ todo' = SetToSeq(list_databases)
               /\ pc' = "use" /\ UNCHANGED out
      <3>1. list_databases = srv.dbs /\ srv.dbs \in SUBSET Dbs /\ srv.dbs # {}
        BY DEF list_databases, Pg!list_databases, MySql!list_databases, Typed, MaintenanceStays
      <3>2. Range(todo') = srv.dbs
        BY <2>5, <3>1, ListsAll
      <3>3. Shown' = {} /\ out' \in Lists /\ ShowsTables'
        BY <2>1, <2>3, <2>5 DEF Shown, ShowsTables
      <3> QED BY <2>1, <2>5, <3>2, <3>3 DEF SchemaSoFar
    <2>6. CASE ~SQLite /\ conn.configured # "" /\ CanList(conn.configured)
               /\ out' = <<Listed(conn.configured)>> /\ Answer("ok")
      <3>1. PICK db \in Dbs : db = conn.configured
        BY <2>2, <2>6
      <3>2. /\ Listed(db) \in [database : Dbs \cup {"main"}, from : Dbs \cup {NoDb}]
            /\ Listed(db).from = db /\ Listed(db).database = db
        BY <2>1, <2>6, <3>1, ListsItsOwn DEF CanList, CanOpen, list_tables
      <3>3. out' = Append(out, Listed(db))
        <4>1. Listed(conn.configured) = Listed(db)
          BY <3>1 DEF Listed, list_tables
        <4>2. PICK e : e = Listed(db)
          OBVIOUS
        <4>3. out' = <<e>> /\ out = <<>>
          BY <2>1, <2>6, <4>1, <4>2
        <4>4. Append(<<>>, e) = <<e>>
          OBVIOUS
        <4> QED BY <4>2, <4>3, <4>4
      <3>4. out' \in Lists /\ ShowsTables'
        BY <2>1, <2>3, <2>6, <3>2, <3>3, OneShown
      <3> QED BY <2>1, <2>6, <3>4 DEF SchemaSoFar
    <2>7. CASE ~SQLite /\ conn.configured # "" /\ pc' = "use" /\ UNCHANGED out
      BY <2>1, <2>3, <2>7 DEF SchemaSoFar, ShowsTables
    <2> QED BY <1>12, <2>4, <2>5, <2>6, <2>7 DEF list_schema
  <1>13. CASE handle_list_schema
    <2>1. /\ op.kind = "schema" /\ pc = "tables" /\ ~SQLite
          /\ todo \in Seq(Dbs) /\ todo # <<>> /\ CanList(Head(todo))
          /\ out' = Append(out, Listed(Head(todo))) /\ todo' = Tail(todo)
          /\ UNCHANGED <<conn, srv, op, quiet>>
      BY <1>13 DEF handle_list_schema, KindAt, Left
    <2>2. PICK db \in Dbs : db = Head(todo)
      BY <2>1, HeadOrRest
    <2>3. /\ Listed(db) \in [database : Dbs \cup {"main"}, from : Dbs \cup {NoDb}]
          /\ Listed(db).from = db /\ Listed(db).database = db
      BY <2>1, <2>2, ListsItsOwn DEF CanList, CanOpen, list_tables
    <2>4. /\ out' \in Lists /\ ShowsTables'
          /\ Shown' = Shown \cup {db}
      BY <2>1, <2>2, <2>3, OneShown DEF SchemaSoFar
    <2>5. Range(todo) = {db} \cup Range(todo')
      BY <2>1, <2>2, HeadOrRest
    <2>6. conn.configured = "" /\ quiet => Shown' \cup Range(todo') = srv.dbs
      BY <2>1, <2>4, <2>5 DEF SchemaSoFar
    <2>7. todo' = <<>> => Range(todo') = {}
      BY DEF Range
    <2>8. pc' = "use" \/ (todo' = <<>> /\ pc' \in {"idle", "leave"})
      BY <1>13 DEF handle_list_schema
    <2> QED BY <2>1, <2>4, <2>6, <2>7, <2>8 DEF SchemaSoFar
  <1>14. CASE Server
    <2>1. CASE op.kind # "schema"
      BY <1>1, <1>14, <2>1 DEF Server
    <2>2. CASE op.kind = "schema"
      BY <1>14, <2>2 DEF Server, SchemaSoFar, Shown, ShowsTables
    <2> QED BY <2>1, <2>2
  <1> QED BY <1>4, <1>5, <1>6, <1>7, <1>8, <1>9, <1>10, <1>11, <1>12, <1>13, <1>14,
             Steps DEF Command

-----------------------------------------------------------------------------
(* The invariant, and what it says.                                        *)

\* The invariant holds of a session that has not begun.
LEMMA InitHolds ==
  ASSUME Init
  PROVE  IInv
  <1>0. 0 \in 0 .. MaxCommands /\ 0 \in 0 .. MaxChanges
    <2>1. MaxCommands \in Nat /\ MaxChanges \in Nat
      BY SessionAssumption
    <2> QED BY ONLY <2>1
  <1> USE Known, Sentinels DEF Init
  <1>1. Typed
    <2>1. conn \in [engine : Engines, configured : {"", "postgres", "app"},
                    denied : SUBSET {"app"}, mode : {"daemon", "cli"}]
      OBVIOUS
    <2>2. srv \in [up : BOOLEAN, dbs : SUBSET Dbs, changes : 0 .. MaxChanges]
      BY <1>0
    <2>3. op \in [kind : Kinds, db : Dbs \cup {""}]
      OBVIOUS
    <2> QED BY <1>0, <2>1, <2>2, <2>3 DEF Typed
  <1>2. MaintenanceStays
    BY DEF MaintenanceStays
  <1>3. KindAt
    BY DEF KindAt
  <1>4. PoolsAt
    BY DEF PoolsAt
  <1>5. Moved
    BY DEF Moved
  <1>6. Left
    <2>1. todo = <<>> /\ <<>> \in Seq(Dbs)
      BY EmptySeq
    <2> QED BY <2>1 DEF Left
  <1>7. AboutToRun
    BY DEF AboutToRun
  <1>8. RunsSoFar
    <2>1. ran = <<>> /\ <<>> \in Seq(Dbs \cup {NoDb}) /\ Len(<<>>) = 0
      BY EmptySeq
    <2>2. op.kind = "disconnect"
      OBVIOUS
    <2>3. ran \in Seq(Dbs \cup {NoDb}) /\ Len(ran) = 0
      BY <2>1
    <2>4. DOMAIN ran = {}
      BY ONLY <2>3, LenProperties
    <2>5. \A i \in DOMAIN ran : Right(ran[i])
      BY <2>4
    <2>6. Len(ran) <= 2
      BY ONLY <2>3
    <2>7. pc = "idle"
      OBVIOUS
    <2> QED BY ONLY <2>1, <2>2, <2>3, <2>5, <2>6, <2>7 DEF RunsSoFar
  <1>9. SchemaSoFar
    BY DEF SchemaSoFar
  <1> QED BY <1>1, <1>2, <1>3, <1>4, <1>5, <1>6, <1>7, <1>8, <1>9

\* A step that changes nothing keeps the invariant.
LEMMA StutterKeeps ==
  ASSUME IInv, UNCHANGED vars
  PROVE  IInv'
  <1> USE DEF vars
  <1>1. Typed'
    <2>1. Typed
      OBVIOUS
    <2>2. UNCHANGED <<conn, srv, op, pc, answer, count, pool, dialed, old, home,
                      driverDb, app>>
      OBVIOUS
    <2> QED BY <2>1, <2>2 DEF Typed
  <1>2. MaintenanceStays' /\ KindAt'
    BY DEF MaintenanceStays, KindAt
  <1>3. PoolsAt'
    BY DEF PoolsAt, Place
  <1>4. Moved'
    BY DEF Moved, Place, Wanted
  <1>5. Left' /\ AboutToRun'
    BY DEF Left, AboutToRun, Right, Place
  <1>6. RunsSoFar'
    BY DEF RunsSoFar, Right, Place
  <1>7. SchemaSoFar'
    BY DEF SchemaSoFar, Shown, ShowsTables
  <1> QED BY <1>1, <1>2, <1>3, <1>4, <1>5, <1>6, <1>7

\* Every step of a command, of the server and of a request keeps it.
LEMMA StepKeeps ==
  ASSUME IInv, [Next]_vars
  PROVE  IInv'
  <1>1. CASE Next
    <2>1. Typed' /\ MaintenanceStays' /\ KindAt'
      BY <1>1, TypedStays, MaintenanceKept, KindKept
    <2>2. PoolsAt' /\ Moved' /\ Left'
      BY <1>1, PoolsKept, MovedKept, LeftKept
    <2>3. AboutToRun' /\ RunsSoFar' /\ SchemaSoFar'
      BY <1>1, AboutToRunKept, RunsKept, SchemaKept
    <2> QED BY <2>1, <2>2, <2>3
  <1>2. CASE UNCHANGED vars
    BY <1>2, StutterKeeps
  <1> QED BY <1>1, <1>2

\* The invariant of a session and its commands.
THEOREM Invariant == Spec => []IInv
  <1>1. Init => IInv
    BY InitHolds
  <1>2. IInv /\ [Next]_vars => IInv'
    BY StepKeeps
  <1> QED BY <1>1, <1>2, PTL DEF Spec

\* Between commands no pool is open but the session's, and it is opened in the
\* database that AppState and the driver agree on (lifecycle.rs, support.rs).
THEOREM SessionSound == Spec => []SessionIsSound
  <1>1. IInv => SessionIsSound
    <2> SUFFICES ASSUME IInv PROVE SessionIsSound
      OBVIOUS
    <2>1. Pools \cup Names \subseteq Places \cup {Closed}
      BY DEF Pools, Names, Places
    <2>2. Range(ran) \subseteq Places
      <3>1. ran \in Seq(Dbs \cup {NoDb})
        BY DEF RunsSoFar
      <3>2. \A i \in DOMAIN ran : ran[i] \in Dbs \cup {NoDb}
        BY <3>1, LenProperties
      <3> QED BY <3>2 DEF Range, Places
    <2>3. TypeOK
      BY <2>1, <2>2 DEF TypeOK, Typed, PoolsAt, RunsSoFar
    <2>4. NoPoolLeft
      BY DEF NoPoolLeft, PoolsAt
    <2>5. SessionAgrees
      BY DEF SessionAgrees, PoolsAt
    <2> QED BY <2>3, <2>4, <2>5 DEF SessionIsSound
  <1> QED BY <1>1, Invariant, PTL

\* A statement that names a database runs there, or where the session was if
\* use_database failed; one that names none runs where the session was
\* (daemon.rs, legacy.rs).
THEOREM RanWhereAsked == Spec => []RunsWhereAsked
  <1>1. IInv => RunsWhereAsked
    BY DEF RunsSoFar, Right, RunsWhereAsked
  <1> QED BY <1>1, Invariant, PTL

\* Unless an attempt broke off after its effect, a statement answered "ok" ran
\* once and one answered "error" never (query.rs execute_query).
THEOREM RanOnce == Spec => []OnceUnlessBroken
  <1>1. IInv => OnceUnlessBroken
    BY DEF RunsSoFar, OnceUnlessBroken
  <1> QED BY <1>1, Invariant, PTL

\* list-schema shows under each name the tables of that database, and every
\* database if none is configured and the server did not change (daemon.rs
\* handle_list_schema).
THEOREM SchemaShown == Spec => []SchemaShowsServer
  <1>1. IInv => SchemaShowsServer
    BY DEF SchemaSoFar, ShowsTables, Shown, SchemaShowsServer
  <1> QED BY <1>1, Invariant, PTL

-----------------------------------------------------------------------------
(* Definitions by recursion. A property of numbers is a set of them; that    *)
(* there is a function with the values wanted is shown for one more element  *)
(* at a time.                                                                *)

\* Induction: otherwise the numbers up to one that is not in S, and not in S
\* themselves, would map one to one onto fewer.
LEMMA SetInduction ==
  ASSUME NEW S, 0 \in S, \A n \in Nat : n \in S => n + 1 \in S
  PROVE  Nat \subseteq S
  <1> SUFFICES ASSUME NEW k \in Nat, k \notin S PROVE FALSE
    OBVIOUS
  <1> DEFINE T == {x \in 0 .. k : x \notin S}
             f == [x \in T |-> x - 1]
  <1>1. T \subseteq 0 .. k /\ k \in T /\ \A x \in T : x \in Nat /\ x # 0 /\ x - 1 \in T \ {k}
    <2>1. ASSUME NEW x \in T PROVE x \in Nat /\ x # 0 /\ x - 1 \in T \ {k}
      <3>1. x \in Nat /\ x <= k /\ x \notin S /\ x # 0
        OBVIOUS
      <3>2. x - 1 \in Nat /\ (x - 1) + 1 = x
        BY <3>1
      <3>3. x - 1 \notin S
        BY <3>1, <3>2
      <3> QED BY <3>1, <3>2, <3>3
    <2> QED BY <2>1
  <1>2. IsFiniteSet(T) /\ Cardinality(T) \in Nat
    <2>1. IsFiniteSet(0 .. k) /\ T \in SUBSET (0 .. k)
      BY <1>1, FS_Interval
    <2> QED BY <2>1, FS_Subset, FS_CardinalityType
  <1> HIDE DEF T
  <1>3. IsFiniteSet(T \ {k}) /\ Cardinality(T \ {k}) = Cardinality(T) - 1
    BY <1>1, <1>2, FS_RemoveElement
  <1>4. f \in [T -> T \ {k}]
    BY <1>1
  <1>5. \A x, y \in T : x # y => f[x] # f[y]
    BY <1>1
  <1> HIDE DEF f
  <1>6. Cardinality(T \ {k}) < Cardinality(T)
    BY <1>2, <1>3
  <1>7. \E x, y \in T : x # y /\ f[x] = f[y]
    BY <1>2, <1>3, <1>4, <1>6, FS_PigeonHole
  <1> QED BY <1>5, <1>7

\* One sequence, flattened.
LEMMA FlattenOne ==
  ASSUME NEW s
  PROVE  FlattenSeq(<<s>>) = s
  <1> DEFINE D == 1 .. Len(<<s>>)
             f == [i \in D |-> s]
             Flat(g) == g = [i \in D |-> IF i = 1 THEN <<s>>[i] ELSE g[i - 1] \o <<s>>[i]]
             h == CHOOSE g : Flat(g)
  <1>1. Len(<<s>>) = 1 /\ D = {1}
    OBVIOUS
  <1>2. Flat(f)
    BY <1>1
  <1>3. Flat(h)
    BY <1>2
  <1>4. FlattenSeq(<<s>>) = h[1]
    BY <1>1 DEF FlattenSeq
  <1>5. h[1] = s
    BY <1>1, <1>3
  <1> QED BY <1>4, <1>5

\* Two sequences, flattened.
LEMMA FlattenTwo ==
  ASSUME NEW s, NEW t
  PROVE  FlattenSeq(<<s, t>>) = s \o t
  <1> DEFINE q == <<s, t>>
             D == 1 .. Len(q)
             f == [i \in D |-> IF i = 1 THEN s ELSE s \o t]
             Flat(g) == g = [i \in D |-> IF i = 1 THEN q[i] ELSE g[i - 1] \o q[i]]
             h == CHOOSE g : Flat(g)
  <1>1. Len(q) = 2 /\ D = {1, 2} /\ q[1] = s /\ q[2] = t
    OBVIOUS
  <1>2. Flat(f)
    <2>1. DOMAIN f = D /\ f[1] = s /\ f[2] = s \o t
      BY <1>1
    <2> HIDE DEF q, f
    <2>2. f = [i \in D |-> IF i = 1 THEN q[i] ELSE f[i - 1] \o q[i]]
      BY <2>1, <1>1 DEF f
    <2> QED BY <2>2
  <1>3. Flat(h)
    BY <1>2
  <1>4. FlattenSeq(q) = h[2]
    BY <1>1 DEF FlattenSeq
  <1>5. h[2] = s \o t
    <2> HIDE DEF q, h
    <2>1. h = [i \in D |-> IF i = 1 THEN q[i] ELSE h[i - 1] \o q[i]]
      BY <1>3 DEF h
    <2>2. h[1] = s /\ h[2] = h[1] \o t
      BY <2>1, <1>1
    <2> QED BY <2>2
  <1> QED BY <1>4, <1>5

\* One step of the fold: the greatest index of s is taken last.
Gathers(f, rows, k) ==
  f = [s \in SUBSET (1 .. k) |->
         IF s = {} THEN <<>> ELSE MySql!Gather(f[s \ {MySql!Max(s)}], rows[MySql!Max(s)])]

\* The last index is the greatest.
LEMMA MaxIsLast ==
  ASSUME NEW k \in Nat, NEW s \in SUBSET (1 .. k + 1), k + 1 \in s
  PROVE  MySql!Max(s) = k + 1
  <1>1. \A y \in s : k + 1 >= y
    OBVIOUS
  <1>2. \A x \in s : (\A y \in s : x >= y) => x = k + 1
    OBVIOUS
  <1> QED BY <1>1, <1>2 DEF MySql!Max

\* There is a function that gathers any rows, set of indexes by set of indexes.
LEMMA GathersExist ==
  ASSUME NEW rows, NEW n \in Nat
  PROVE  \E f : Gathers(f, rows, n)
  <1> DEFINE K == {k \in Nat : \E f : Gathers(f, rows, k)}
  <1>1. 0 \in K
    <2> DEFINE f == [s \in SUBSET (1 .. 0) |-> <<>>]
    <2>1. SUBSET (1 .. 0) = {{}}
      OBVIOUS
    <2>2. Gathers(f, rows, 0)
      BY <2>1 DEF Gathers
    <2> QED BY <2>2
  <1>2. ASSUME NEW k \in Nat, k \in K
        PROVE  k + 1 \in K
    <2>1. PICK f : Gathers(f, rows, k)
      BY <1>2
    <2> DEFINE g == [s \in SUBSET (1 .. k + 1) |->
                       IF k + 1 \in s THEN MySql!Gather(f[s \ {k + 1}], rows[k + 1]) ELSE f[s]]
               h == [s \in SUBSET (1 .. k + 1) |->
           IF s = {} THEN <<>> ELSE MySql!Gather(g[s \ {MySql!Max(s)}], rows[MySql!Max(s)])]
    <2>2. ASSUME NEW s \in SUBSET (1 .. k + 1)
          PROVE  g[s] = h[s]
      <3>1. CASE k + 1 \in s
        <4>1. MySql!Max(s) = k + 1 /\ s # {}
          BY <3>1, MaxIsLast
        <4>2. s \ {k + 1} \in SUBSET (1 .. k + 1) /\ k + 1 \notin s \ {k + 1}
          OBVIOUS
        <4>3. g[s \ {k + 1}] = f[s \ {k + 1}]
          BY <4>2
        <4>4. g[s] = MySql!Gather(f[s \ {k + 1}], rows[k + 1])
          BY <3>1
        <4>5. h[s] = MySql!Gather(g[s \ {k + 1}], rows[k + 1])
          BY <4>1
        <4> QED BY <4>3, <4>4, <4>5
      <3>2. CASE k + 1 \notin s
        <4>1. s \in SUBSET (1 .. k)
          BY <3>2
        <4>2. PICK t : t = s \ {MySql!Max(s)}
          OBVIOUS
        <4>3. t \in SUBSET (1 .. k) /\ t \in SUBSET (1 .. k + 1) /\ k + 1 \notin t
          <5>1. t \subseteq s
            BY <4>2
          <5>2. t \in SUBSET (1 .. k) /\ k + 1 \notin t
            BY <3>2, <4>1, <5>1
          <5>3. t \in SUBSET (1 .. k + 1)
            BY <5>1
          <5> QED BY <5>2, <5>3
        <4>4. g[t] = f[t] /\ g[s] = f[s]
          BY <3>2, <4>3
        <4>5. f[s] = IF s = {} THEN <<>> ELSE MySql!Gather(f[t], rows[MySql!Max(s)])
          BY <2>1, <4>1, <4>2 DEF Gathers
        <4>6. h[s] = IF s = {} THEN <<>> ELSE MySql!Gather(g[t], rows[MySql!Max(s)])
          BY <4>2
        <4> QED BY <4>4, <4>5, <4>6
      <3> QED BY <3>1, <3>2
    <2>3. g = h
      <3> HIDE DEF g
      <3>1. DOMAIN g = SUBSET (1 .. k + 1) /\ g = [s \in SUBSET (1 .. k + 1) |-> g[s]]
        BY DEF g
      <3> QED BY <2>2, <3>1
    <2>4. Gathers(g, rows, k + 1)
      BY <2>3 DEF Gathers
    <2>5. \E e : Gathers(e, rows, k + 1)
      BY <2>4
    <2> QED BY <2>5
  <1> HIDE DEF K
  <1>3. Nat \subseteq K
    BY <1>1, <1>2, SetInduction
  <1> QED BY <1>3 DEF K

\* The fold is what that function makes of all rows.
LEMMA GatherFolds ==
  ASSUME NEW rows, NEW n \in Nat, DOMAIN rows = 1 .. n
  PROVE  \E f : Gathers(f, rows, n) /\ MySql!FoldLeft(MySql!Gather, <<>>, rows) = f[1 .. n]
  <1> DEFINE f == CHOOSE f : Gathers(f, rows, n)
  <1>1. Gathers(f, rows, n)
    BY GathersExist
  <1>2. MySql!FoldLeft(MySql!Gather, <<>>, rows) = f[1 .. n]
    BY DEF MySql!FoldLeft, MySql!MapThenFoldSet, Gathers
  <1> QED BY <1>1, <1>2

\* It takes one row after the other.
OneByOne(f, rows, n) ==
  /\ f[{}] = <<>>
  /\ \A k \in 1 .. n : f[1 .. k] = MySql!Gather(f[1 .. k - 1], rows[k])

\* So does every such function.
LEMMA GatherUnfold ==
  ASSUME NEW f, NEW rows, NEW n \in Nat, Gathers(f, rows, n)
  PROVE  OneByOne(f, rows, n)
  <1>1. f[{}] = <<>>
    BY DEF Gathers
  <1>2. ASSUME NEW k \in 1 .. n
        PROVE  f[1 .. k] = MySql!Gather(f[1 .. k - 1], rows[k])
    <2>1. 1 .. k \in SUBSET (1 .. n) /\ 1 .. k # {}
      OBVIOUS
    <2>2. MySql!Max(1 .. k) = k
      <3>1. k - 1 \in Nat /\ k = (k - 1) + 1 /\ k \in 1 .. k
        OBVIOUS
      <3> QED BY <3>1, MaxIsLast
    <2>3. (1 .. k) \ {k} = 1 .. k - 1
      OBVIOUS
    <2>4. f[1 .. k] = MySql!Gather(f[(1 .. k) \ {MySql!Max(1 .. k)}], rows[MySql!Max(1 .. k)])
      BY <2>1 DEF Gathers
    <2> QED BY <2>2, <2>3, <2>4
  <1> QED BY <1>1, <1>2 DEF OneByOne

-----------------------------------------------------------------------------
(* What a structure shows.                                                 *)

\* The definitions a server has.
Keyed == Definition("postgres")
Composite == Definition("")

\* The first row of an index makes one, a later one adds its column.
Ba(columns) == MySql!IndexInfo("t_ba", columns, FALSE, FALSE)
Pk(columns) == MySql!IndexInfo("PRIMARY", columns, TRUE, TRUE)
IndexRow(name, unique, column) ==
  [index_name |-> name, non_unique |-> ~unique, column_name |-> column]

\* The first row of all.
LEMMA GatherFirst ==
  /\ MySql!Gather(<<>>, IndexRow("t_ba", FALSE, "b")) = <<Ba(<<"b">>)>>
  /\ MySql!Gather(<<>>, IndexRow("PRIMARY", TRUE, "id")) = <<Pk(<<"id">>)>>
  <1>1. ASSUME NEW row
        PROVE  MySql!Gather(<<>>, row)
                 = <<MySql!IndexInfo(row.index_name, <<row.column_name>>, ~row.non_unique,
                                     row.index_name = "PRIMARY")>>
    <2>1. \A x : Append(<<>>, x) = <<x>>
      OBVIOUS
    <2>2. DOMAIN <<>> = {}
      OBVIOUS
    <2> QED BY <2>1, <2>2 DEF MySql!Gather
  <1>2. MySql!Gather(<<>>, IndexRow("t_ba", FALSE, "b")) = <<Ba(<<"b">>)>>
    <2>1. PICK row : row = IndexRow("t_ba", FALSE, "b")
      OBVIOUS
    <2>2. /\ row.index_name = "t_ba" /\ row.column_name = "b" /\ (~row.non_unique) = FALSE
          /\ (row.index_name = "PRIMARY") = FALSE
      BY <2>1 DEF IndexRow
    <2>3. MySql!IndexInfo(row.index_name, <<row.column_name>>, ~row.non_unique,
                          row.index_name = "PRIMARY") = Ba(<<"b">>)
      BY <2>2 DEF Ba, MySql!IndexInfo
    <2> QED BY <1>1, <2>1, <2>3
  <1>3. MySql!Gather(<<>>, IndexRow("PRIMARY", TRUE, "id")) = <<Pk(<<"id">>)>>
    <2>1. PICK row : row = IndexRow("PRIMARY", TRUE, "id")
      OBVIOUS
    <2>2. /\ row.index_name = "PRIMARY" /\ row.column_name = "id" /\ (~row.non_unique) = TRUE
          /\ (row.index_name = "PRIMARY") = TRUE
      BY <2>1 DEF IndexRow
    <2>3. MySql!IndexInfo(row.index_name, <<row.column_name>>, ~row.non_unique,
                          row.index_name = "PRIMARY") = Pk(<<"id">>)
      BY <2>2 DEF Pk, MySql!IndexInfo
    <2>4. MySql!Gather(<<>>, row)
            = <<MySql!IndexInfo(row.index_name, <<row.column_name>>, ~row.non_unique,
                                row.index_name = "PRIMARY")>>
      BY <1>1
    <2> QED BY <2>1, <2>3, <2>4
  <1> QED BY <1>2, <1>3

\* Two elements, the second appended.
LEMMA AppendOne ==
  ASSUME NEW x, NEW y
  PROVE  Append(<<x>>, y) = <<x, y>>
  <1> DEFINE s == <<x>>
             t == Append(s, y)
             u == <<x, y>>
             S == {x, y}
  <1>1. s \in Seq(S) /\ Len(s) = 1 /\ s[1] = x
    OBVIOUS
  <1>2. u \in Seq(S) /\ Len(u) = 2 /\ u[1] = x /\ u[2] = y
    OBVIOUS
  <1>3. y \in S
    OBVIOUS
  <1> HIDE DEF s, u, S
  <1>4. t \in Seq(S) /\ Len(t) = 2 /\ t[1] = x /\ t[2] = y
    <2>1. t \in Seq(S)
      BY <1>1, <1>3
    <2>2. Len(t) = 2
      BY <1>1, <1>3
    <2>3. t[1] = x
      BY <1>1, <1>3
    <2>4. t[2] = y
      <3>1. t[Len(s) + 1] = y
        BY <1>1, <1>3, AppendProperties
      <3> HIDE DEF t
      <3> QED BY <1>1, <3>1
    <2> QED BY <2>1, <2>2, <2>3, <2>4
  <1> HIDE DEF t
  <1>5. \A i \in 1 .. Len(t) : t[i] = u[i]
    BY <1>2, <1>4
  <1>6. t = u
    BY <1>2, <1>4, <1>5, SeqEqual
  <1> QED BY <1>6 DEF t, s, u

\* Three elements, the third appended.
LEMMA AppendTwo ==
  ASSUME NEW x, NEW y, NEW z
  PROVE  Append(<<x, y>>, z) = <<x, y, z>>
  <1> DEFINE s == <<x, y>>
             t == Append(s, z)
             u == <<x, y, z>>
             S == {x, y, z}
  <1>1. s \in Seq(S) /\ Len(s) = 2 /\ s[1] = x /\ s[2] = y
    OBVIOUS
  <1>2. u \in Seq(S) /\ Len(u) = 3 /\ u[1] = x /\ u[2] = y /\ u[3] = z
    OBVIOUS
  <1>3. z \in S
    OBVIOUS
  <1> HIDE DEF s, u, S
  <1>4. t \in Seq(S) /\ Len(t) = 3 /\ t[1] = x /\ t[2] = y /\ t[3] = z
    <2>1. t \in Seq(S)
      BY <1>1, <1>3
    <2>2. Len(t) = 3
      BY <1>1, <1>3
    <2>3. t[1] = x
      BY <1>1, <1>3
    <2>4. t[2] = y
      BY <1>1, <1>3
    <2>5. t[3] = z
      <3>1. t[Len(s) + 1] = z
        BY <1>1, <1>3, AppendProperties
      <3> HIDE DEF t
      <3> QED BY <1>1, <3>1
    <2> QED BY <2>1, <2>2, <2>3, <2>4, <2>5
  <1> HIDE DEF t
  <1>5. \A i \in 1 .. Len(t) : t[i] = u[i]
    BY <1>2, <1>4
  <1>6. t = u
    BY <1>2, <1>4, <1>5, SeqEqual
  <1> QED BY <1>6 DEF t, s, u

\* A column is appended to those of an index.
LEMMA ColumnAdded ==
  /\ [Ba(<<"b">>) EXCEPT !.columns = Append(@, "a")] = Ba(<<"b", "a">>)
  /\ [Pk(<<"a">>) EXCEPT !.columns = Append(@, "b")] = Pk(<<"a", "b">>)
  <1>1. Append(<<"b">>, "a") = <<"b", "a">> /\ Append(<<"a">>, "b") = <<"a", "b">>
    BY AppendOne
  <1>3. [Ba(<<"b">>) EXCEPT !.columns = Append(@, "a")] = Ba(<<"b", "a">>)
    <2>1. PICK c, d : c = <<"b">> /\ d = <<"b", "a">>
      OBVIOUS
    <2>2. Append(c, "a") = d
      BY <1>1, <2>1
    <2>3. [Ba(c) EXCEPT !.columns = Append(@, "a")] = Ba(d)
      <3>1. Ba(c).columns = c
        BY DEF Ba, MySql!IndexInfo
      <3>2. [Ba(c) EXCEPT !.columns = d] = Ba(d)
        <4> DEFINE r == [Ba(c) EXCEPT !.columns = d]
        <4>1. /\ DOMAIN Ba(c) = {"name", "columns", "unique", "primary"}
              /\ DOMAIN Ba(d) = {"name", "columns", "unique", "primary"}
              /\ Ba(d).columns = d
          BY DEF Ba, MySql!IndexInfo
        <4>2. Ba(c).name = Ba(d).name
          BY DEF Ba, MySql!IndexInfo
        <4>3. Ba(c).unique = Ba(d).unique
          BY DEF Ba, MySql!IndexInfo
        <4>4. Ba(c).primary = Ba(d).primary
          BY DEF Ba, MySql!IndexInfo
        <4>5. /\ DOMAIN r = {"name", "columns", "unique", "primary"} /\ r.columns = d
              /\ r.name = Ba(c).name /\ r.unique = Ba(c).unique /\ r.primary = Ba(c).primary
          BY <4>1
        <4>6. Ba(d) = [f \in {"name", "columns", "unique", "primary"} |-> Ba(d)[f]]
          BY <4>1 DEF Ba, MySql!IndexInfo
        <4>7. r = [f \in {"name", "columns", "unique", "primary"} |-> r[f]]
          BY <4>1
        <4> HIDE DEF r
        <4>8. r = Ba(d)
          BY <4>1, <4>2, <4>3, <4>4, <4>5, <4>6, <4>7
        <4> QED BY <4>8 DEF r
      <3> QED BY <2>2, <3>1, <3>2
    <2> QED BY <2>1, <2>3
  <1>4. [Pk(<<"a">>) EXCEPT !.columns = Append(@, "b")] = Pk(<<"a", "b">>)
    <2>1. PICK c, d : c = <<"a">> /\ d = <<"a", "b">>
      OBVIOUS
    <2>2. Append(c, "b") = d
      BY <1>1, <2>1
    <2>3. [Pk(c) EXCEPT !.columns = Append(@, "b")] = Pk(d)
      <3>1. Pk(c).columns = c
        BY DEF Pk, MySql!IndexInfo
      <3>2. [Pk(c) EXCEPT !.columns = d] = Pk(d)
        <4> DEFINE r == [Pk(c) EXCEPT !.columns = d]
        <4>1. /\ DOMAIN Pk(c) = {"name", "columns", "unique", "primary"}
              /\ DOMAIN Pk(d) = {"name", "columns", "unique", "primary"}
              /\ Pk(d).columns = d
          BY DEF Pk, MySql!IndexInfo
        <4>2. Pk(c).name = Pk(d).name
          BY DEF Pk, MySql!IndexInfo
        <4>3. Pk(c).unique = Pk(d).unique
          BY DEF Pk, MySql!IndexInfo
        <4>4. Pk(c).primary = Pk(d).primary
          BY DEF Pk, MySql!IndexInfo
        <4>5. /\ DOMAIN r = {"name", "columns", "unique", "primary"} /\ r.columns = d
              /\ r.name = Pk(c).name /\ r.unique = Pk(c).unique /\ r.primary = Pk(c).primary
          BY <4>1
        <4>6. Pk(d) = [f \in {"name", "columns", "unique", "primary"} |-> Pk(d)[f]]
          BY <4>1 DEF Pk, MySql!IndexInfo
        <4>7. r = [f \in {"name", "columns", "unique", "primary"} |-> r[f]]
          BY <4>1
        <4> HIDE DEF r
        <4>8. r = Pk(d)
          BY <4>1, <4>2, <4>3, <4>4, <4>5, <4>6, <4>7
        <4> QED BY <4>8 DEF r
      <3> QED BY <2>2, <3>1, <3>2
    <2> QED BY <2>1, <2>3
  <1> QED BY <1>3, <1>4

\* A row of the only index.
LEMMA GatherMore ==
  ASSUME NEW row, row.index_name = "t_ba", row.column_name = "a"
  PROVE  MySql!Gather(<<Ba(<<"b">>)>>, row) = <<Ba(<<"b", "a">>)>>
  <1> DEFINE s == <<Ba(<<"b">>)>>
  <1>1. DOMAIN s = {1} /\ s[1] = Ba(<<"b">>)
    OBVIOUS
  <1>2. s[1].name = "t_ba" /\ [s[1] EXCEPT !.columns = Append(@, "a")] = Ba(<<"b", "a">>)
    <2>1. s[1].name = "t_ba"
      BY <1>1 DEF Ba, MySql!IndexInfo
    <2> QED BY <1>1, <2>1, ColumnAdded
  <1> HIDE DEF s
  <1>3. MySql!Gather(s, row) = [i \in {1} |-> Ba(<<"b", "a">>)]
    BY <1>1, <1>2 DEF MySql!Gather
  <1>4. \A x : [i \in {1} |-> x] = <<x>>
    OBVIOUS
  <1> QED BY <1>3, <1>4 DEF s

\* The first row of the second index.
LEMMA GatherSecond ==
  MySql!Gather(<<Ba(<<"b", "a">>)>>, IndexRow("PRIMARY", TRUE, "a"))
    = <<Ba(<<"b", "a">>), Pk(<<"a">>)>>
  <1> DEFINE s == <<Ba(<<"b", "a">>)>>
             row == IndexRow("PRIMARY", TRUE, "a")
  <1>1. DOMAIN s = {1} /\ s[1].name = "t_ba"
    BY DEF Ba, MySql!IndexInfo
  <1>2. row.index_name = "PRIMARY" /\ row.column_name = "a" /\ row.non_unique = FALSE
    BY DEF IndexRow
  <1> HIDE DEF s, row
  <1>3. MySql!Gather(s, row) = Append(s, Pk(<<"a">>))
    BY <1>1, <1>2 DEF MySql!Gather, Pk
  <1> QED BY <1>3, AppendOne DEF s, row

\* A row of the second index.
LEMMA GatherLast ==
  ASSUME NEW row, row.index_name = "PRIMARY", row.column_name = "b"
  PROVE  MySql!Gather(<<Ba(<<"b", "a">>), Pk(<<"a">>)>>, row)
           = <<Ba(<<"b", "a">>), Pk(<<"a", "b">>)>>
  <1> DEFINE s == <<Ba(<<"b", "a">>), Pk(<<"a">>)>>
             t == <<Ba(<<"b", "a">>), Pk(<<"a", "b">>)>>
  <1>1. DOMAIN s = {1, 2} /\ s[1] = Ba(<<"b", "a">>) /\ s[2] = Pk(<<"a">>)
    OBVIOUS
  <1>2. DOMAIN t = {1, 2} /\ t[1] = Ba(<<"b", "a">>) /\ t[2] = Pk(<<"a", "b">>)
    OBVIOUS
  <1>3. s[1].name = "t_ba" /\ s[2].name = "PRIMARY"
    BY <1>1 DEF Ba, Pk, MySql!IndexInfo
  <1>4. [Pk(<<"a">>) EXCEPT !.columns = Append(@, "b")] = Pk(<<"a", "b">>)
    BY ColumnAdded
  <1>5. t = [i \in {1, 2} |-> IF i = 1 THEN Ba(<<"b", "a">>) ELSE Pk(<<"a", "b">>)]
    <2> DEFINE h == [i \in {1, 2} |-> IF i = 1 THEN Ba(<<"b", "a">>) ELSE Pk(<<"a", "b">>)]
    <2>1. DOMAIN h = {1, 2} /\ h[1] = t[1] /\ h[2] = t[2]
      BY <1>2
    <2> QED BY <1>2, <2>1
  <1> HIDE DEF s, t
  <1>6. MySql!Gather(s, row)
          = [i \in {1, 2} |-> IF i = 1 THEN Ba(<<"b", "a">>) ELSE Pk(<<"a", "b">>)]
    BY <1>1, <1>3, <1>4 DEF MySql!Gather
  <1> QED BY <1>5, <1>6 DEF s, t

\* The rows of the statistics of each, and what is gathered of them.
LEMMA KeyedGathered ==
  /\ MySql!FoldLeft(MySql!Gather, <<>>, MySql!Statistics(Keyed.indexes))
       = <<MySql!IndexInfo("PRIMARY", <<"id">>, TRUE, TRUE)>>
  <1> DEFINE row == IndexRow("PRIMARY", TRUE, "id")
             rows == <<row>>
  <1>1. MySql!Statistics(Keyed.indexes) = rows
    <2> DEFINE ix == Keyed.indexes
               s == [j \in DOMAIN ix[1].columns |->
                       [index_name |-> IF ix[1].primary THEN "PRIMARY" ELSE ix[1].name,
                        non_unique |-> ~ix[1].unique, column_name |-> ix[1].columns[j]]]
               q == [i \in DOMAIN ix |-> [j \in DOMAIN ix[i].columns |->
                       [index_name |-> IF ix[i].primary THEN "PRIMARY" ELSE ix[i].name,
                        non_unique |-> ~ix[i].unique, column_name |-> ix[i].columns[j]]]]
    <2>1. ix = <<[name |-> "t_pkey", columns |-> <<"id">>, unique |-> TRUE, primary |-> TRUE]>>
      BY DEF Keyed, Definition
    <2>2. s = rows
      <3>1. DOMAIN ix[1].columns = {1} /\ ix[1].columns[1] = "id"
        BY <2>1
      <3>2. ix[1].primary /\ ix[1].unique
        BY <2>1
      <3> HIDE DEF ix
      <3>3. DOMAIN s = {1} /\ s[1] = row
        BY <3>1, <3>2 DEF IndexRow
      <3>4. DOMAIN rows = {1} /\ rows[1] = row
        OBVIOUS
      <3> HIDE DEF row
      <3> QED BY <3>1, <3>3, <3>4
    <2>3. q = <<s>>
      BY <2>1
    <2>4. MySql!Statistics(ix) = MySql!FlattenSeq(q)
      BY DEF MySql!Statistics
    <2> HIDE DEF q, s, ix, rows
    <2>5. MySql!FlattenSeq(<<s>>) = FlattenSeq(<<s>>)
      BY DEF MySql!FlattenSeq, FlattenSeq
    <2>6. FlattenSeq(<<s>>) = s
      BY FlattenOne
    <2> QED BY <2>2, <2>3, <2>4, <2>5, <2>6 DEF ix
  <1>2. DOMAIN rows = 1 .. 1 /\ rows[1] = row
    OBVIOUS
  <1>3. PICK f : Gathers(f, rows, 1) /\ MySql!FoldLeft(MySql!Gather, <<>>, rows) = f[1 .. 1]
    BY <1>2, GatherFolds
  <1>4. f[{}] = <<>> /\ f[1 .. 1] = MySql!Gather(f[1 .. 0], rows[1])
    <2> HIDE DEF rows
    <2>0. OneByOne(f, rows, 1)
      BY <1>3, GatherUnfold
    <2>1. f[{}] = <<>> /\ \A k \in 1 .. 1 : f[1 .. k] = MySql!Gather(f[1 .. k - 1], rows[k])
      BY <2>0 DEF OneByOne
    <2> QED BY <2>1
  <1>5. 1 .. 0 = {}
    OBVIOUS
  <1>6. MySql!Gather(<<>>, row) = <<MySql!IndexInfo("PRIMARY", <<"id">>, TRUE, TRUE)>>
    BY GatherFirst DEF Pk
  <1> HIDE DEF rows
  <1> QED BY <1>1, <1>2, <1>3, <1>4, <1>5, <1>6 DEF Pk

\* Two indexes of two columns each, their rows in the order of the indexes.
LEMMA CompositeGathered ==
  /\ MySql!FoldLeft(MySql!Gather, <<>>, MySql!Statistics(Composite.indexes))
       = <<MySql!IndexInfo("t_ba", <<"b", "a">>, FALSE, FALSE),
           MySql!IndexInfo("PRIMARY", <<"a", "b">>, TRUE, TRUE)>>
  <1> DEFINE b == <<IndexRow("t_ba", FALSE, "b"), IndexRow("t_ba", FALSE, "a")>>
             p == <<IndexRow("PRIMARY", TRUE, "a"), IndexRow("PRIMARY", TRUE, "b")>>
             rows == b \o p
  <1>1. MySql!Statistics(Composite.indexes) = rows
    <2> DEFINE ix == Composite.indexes
               Of(i) == [j \in DOMAIN ix[i].columns |->
                       [index_name |-> IF ix[i].primary THEN "PRIMARY" ELSE ix[i].name,
                        non_unique |-> ~ix[i].unique, column_name |-> ix[i].columns[j]]]
               q == [i \in DOMAIN ix |-> Of(i)]
    <2>1. ix = <<[name |-> "t_ba", columns |-> <<"b", "a">>, unique |-> FALSE, primary |-> FALSE],
                 [name |-> "t_pkey", columns |-> <<"a", "b">>, unique |-> TRUE, primary |-> TRUE]>>
      BY DEF Composite, Definition
    <2>2. Of(1) = b
      BY <2>1 DEF IndexRow
    <2>3. Of(2) = p
      BY <2>1 DEF IndexRow
    <2>4. q = <<Of(1), Of(2)>>
      <3> HIDE DEF Of
      <3>1. DOMAIN ix = {1, 2}
        BY <2>1
      <3>2. DOMAIN q = {1, 2} /\ q[1] = Of(1) /\ q[2] = Of(2)
        BY <3>1
      <3> HIDE DEF ix
      <3>3. DOMAIN <<Of(1), Of(2)>> = {1, 2}
        OBVIOUS
      <3> QED BY <3>1, <3>2, <3>3
    <2>5. MySql!Statistics(ix) = MySql!FlattenSeq(q)
      BY DEF MySql!Statistics
    <2> HIDE DEF q, ix, b, p, Of
    <2>6. MySql!FlattenSeq(<<b, p>>) = FlattenSeq(<<b, p>>)
      BY DEF MySql!FlattenSeq, FlattenSeq
    <2>7. FlattenSeq(<<b, p>>) = b \o p
      BY FlattenTwo
    <2> QED BY <2>2, <2>3, <2>4, <2>5, <2>6, <2>7 DEF ix
  <1>2. /\ DOMAIN rows = 1 .. 4 /\ rows[1] = b[1] /\ rows[2] = b[2]
        /\ rows[3] = p[1] /\ rows[4] = p[2]
    <2>1. ASSUME NEW w, NEW x, NEW y, NEW z
          PROVE  /\ DOMAIN (<<w, x>> \o <<y, z>>) = 1 .. 4
                 /\ (<<w, x>> \o <<y, z>>)[1] = w /\ (<<w, x>> \o <<y, z>>)[2] = x
                 /\ (<<w, x>> \o <<y, z>>)[3] = y /\ (<<w, x>> \o <<y, z>>)[4] = z
      <3>1. <<w, x>> \in Seq({w, x, y, z}) /\ <<y, z>> \in Seq({w, x, y, z})
        OBVIOUS
      <3>2. Len(<<w, x>>) = 2 /\ Len(<<y, z>>) = 2
        OBVIOUS
      <3> QED BY <3>1, <3>2
    <2>2. PICK w, x, y, z : b = <<w, x>> /\ p = <<y, z>>
      OBVIOUS
    <2> HIDE DEF b, p
    <2>3. b[1] = w /\ b[2] = x /\ p[1] = y /\ p[2] = z
      BY <2>2
    <2> QED BY <2>1, <2>2, <2>3
  <1>3. PICK f : Gathers(f, rows, 4) /\ MySql!FoldLeft(MySql!Gather, <<>>, rows) = f[1 .. 4]
    <2> HIDE DEF rows
    <2>1. DOMAIN rows = 1 .. 4 /\ 4 \in Nat
      BY <1>2
    <2> QED BY ONLY <2>1, GatherFolds
  <1>4. /\ f[{}] = <<>>
        /\ f[1 .. 1] = MySql!Gather(f[{}], b[1])
        /\ f[1 .. 2] = MySql!Gather(f[1 .. 1], b[2])
        /\ f[1 .. 3] = MySql!Gather(f[1 .. 2], p[1])
        /\ f[1 .. 4] = MySql!Gather(f[1 .. 3], p[2])
    <2> HIDE DEF rows, b, p
    <2>0. OneByOne(f, rows, 4)
      BY <1>3, GatherUnfold
    <2>1. f[{}] = <<>> /\ \A k \in 1 .. 4 : f[1 .. k] = MySql!Gather(f[1 .. k - 1], rows[k])
      BY <2>0 DEF OneByOne
    <2>2. /\ f[1 .. 1] = MySql!Gather(f[1 .. 0], rows[1])
          /\ f[1 .. 2] = MySql!Gather(f[1 .. 1], rows[2])
          /\ f[1 .. 3] = MySql!Gather(f[1 .. 2], rows[3])
          /\ f[1 .. 4] = MySql!Gather(f[1 .. 3], rows[4])
      BY <2>1
    <2>3. 1 .. 0 = {}
      OBVIOUS
    <2> QED BY <1>2, <2>1, <2>2, <2>3
  <1>5. MySql!Gather(<<>>, b[1]) = <<Ba(<<"b">>)>>
    BY GatherFirst
  <1>6. MySql!Gather(<<Ba(<<"b">>)>>, b[2]) = <<Ba(<<"b", "a">>)>>
    <2>1. b[2].index_name = "t_ba" /\ b[2].column_name = "a"
      BY DEF IndexRow
    <2> HIDE DEF b
    <2> QED BY <2>1, GatherMore
  <1>7. MySql!Gather(<<Ba(<<"b", "a">>)>>, p[1]) = <<Ba(<<"b", "a">>), Pk(<<"a">>)>>
    BY GatherSecond
  <1>8. MySql!Gather(<<Ba(<<"b", "a">>), Pk(<<"a">>)>>, p[2])
          = <<Ba(<<"b", "a">>), Pk(<<"a", "b">>)>>
    <2>1. p[2].index_name = "PRIMARY" /\ p[2].column_name = "b"
      BY DEF IndexRow
    <2> HIDE DEF p
    <2> QED BY <2>1, GatherLast
  <1> HIDE DEF rows, b, p
  <1> QED BY <1>1, <1>2, <1>3, <1>4, <1>5, <1>6, <1>7, <1>8 DEF Ba, Pk

\* Of no rows nothing is gathered.
LEMMA NothingGathered ==
  MySql!FoldLeft(MySql!Gather, <<>>, MySql!Statistics(<<>>)) = <<>>
  <1>1. MySql!Statistics(<<>>) = <<>>
    <2>1. PICK q : q = [i \in DOMAIN <<>> |-> [j \in DOMAIN <<>>[i].columns |->
                      [index_name |-> IF <<>>[i].primary THEN "PRIMARY" ELSE <<>>[i].name,
                       non_unique |-> ~<<>>[i].unique, column_name |-> <<>>[i].columns[j]]]]
      OBVIOUS
    <2>2. MySql!Statistics(<<>>) = MySql!FlattenSeq(q)
      BY <2>1 DEF MySql!Statistics
    <2>3. q = <<>>
      BY <2>1
    <2>4. Len(<<>>) = 0
      OBVIOUS
    <2> QED BY <2>2, <2>3, <2>4 DEF MySql!FlattenSeq
  <1>2. DOMAIN <<>> = 1 .. 0
    OBVIOUS
  <1>3. PICK f : Gathers(f, <<>>, 0) /\ MySql!FoldLeft(MySql!Gather, <<>>, <<>>) = f[1 .. 0]
    BY <1>2, GatherFolds
  <1>4. f[{}] = <<>> /\ 1 .. 0 = {}
    BY <1>3, GatherUnfold DEF OneByOne
  <1> QED BY <1>1, <1>3, <1>4

\* What each driver reads of a table, asked for by name in a pool.
StructureOf(part, named, place) ==
  CASE conn.engine = "postgres" ->
         (CASE part = 1 -> Pg!list_columns(named, place, DefinitionNow)
            [] part = 2 -> Pg!list_foreign_keys(named, place, DefinitionNow)
            [] OTHER    -> Pg!list_indexes(named, place, DefinitionNow))
    [] conn.engine = "mysql" ->
         (CASE part = 1 -> MySql!list_columns(named, place, DefinitionNow)
            [] part = 2 -> MySql!list_foreign_keys(named, place, DefinitionNow)
            [] OTHER    -> MySql!list_indexes(named, place, DefinitionNow))
    [] OTHER ->
         (CASE part = 1 -> Sqlite!list_columns(named, place, DefinitionNow)
            [] part = 2 -> Sqlite!list_foreign_keys(named, place, DefinitionNow)
            [] OTHER    -> Sqlite!list_indexes(named, place, DefinitionNow))

\* Where the table asked for is, and the parts of its structure.
AskedAt == IF SQLite THEN home ELSE op.db
Part(part) == StructureOf(part, op.db, AskedAt)

\* A structure whose parts come from where it was asked, of a server that stays.
Certain ==
  /\ op.kind = "structure" /\ op.db # "" /\ quiet
  /\ used = "ok" \/ conn.engine = "mysql"

\* It is read part by part.
StructureSoFar ==
  /\ op.kind = "structure" /\ pc \in {"connect"} \cup Moving => out = <<>>
  /\ Certain /\ pc = "structure" => out \in {<<>>, <<Part(1)>>, <<Part(1), Part(2)>>}
  /\ Certain /\ pc \in {"idle", "leave"} /\ answer = "ok" =>
       out = <<Part(1), Part(2), Part(3)>>

\* A part stays what it is while the server does.
LEMMA PartStays ==
  ASSUME NEW part, UNCHANGED <<conn, op, home, srv>>
  PROVE  Part(part)' = Part(part)
  BY DEF Part, AskedAt, StructureOf, DefinitionNow

\* So do all that were read.
LEMMA PartsStay ==
  ASSUME UNCHANGED <<conn, op, home, srv>>
  PROVE  Part(1)' = Part(1) /\ Part(2)' = Part(2) /\ Part(3)' = Part(3)
  BY PartStays

\* A part that is read now is the one asked for.
LEMMA PartIsRead ==
  ASSUME IInv, pc = "structure", Certain, NEW part
  PROVE  StructurePart(part) = Part(part)
  <1>1. Right(pool) /\ conn.engine \in {"postgres", "mysql", "sqlite"} /\ op.db \in Dbs
    BY Sentinels DEF AboutToRun, Certain, Typed
  <1>2. StructurePart(part) = StructureOf(part, op.db, pool)
    BY DEF StructurePart, StructureOf, Certain
  <1>3. CASE conn.engine = "postgres"
    <2>1. pool = op.db
      BY <1>1, <1>3, PlaceOfName DEF Right, Certain
    <2> QED BY <1>2, <1>3, <2>1 DEF Part, AskedAt
  <1>4. CASE SQLite
    <2>1. pool = home
      BY <1>1, <1>4 DEF Right
    <2> QED BY <1>2, <1>4, <2>1 DEF Part, AskedAt
  <1>5. CASE conn.engine = "mysql"
    <2>1. StructureOf(part, op.db, pool) = StructureOf(part, op.db, op.db)
      BY <1>5 DEF StructureOf, MySql!list_columns, MySql!list_foreign_keys, MySql!list_indexes
    <2> QED BY <1>2, <1>5, <2>1 DEF Part, AskedAt
  <1> QED BY <1>1, <1>3, <1>4, <1>5

\* Every step adds a part to those that were read, or starts from none.
LEMMA StructureKept ==
  ASSUME IInv, StructureSoFar, Next
  PROVE  StructureSoFar'
  <1> DEFINE Same == UNCHANGED <<conn, op, home, srv, quiet, used>>
  <1>1. CASE AnyRequest
    <2>1. PICK kind \in Kinds : \E db \in DbOf(kind) : Request(kind, db)
      BY <1>1 DEF AnyRequest
    <2>2. PICK db \in DbOf(kind) : Request(kind, db)
      BY <2>1
    <2>3. op'.kind = kind /\ op'.db = db /\ out' = <<>> /\ answer' = "none"
      BY <2>2 DEF Request
    <2>4. pc' \notin {"idle"} /\ (kind = "structure" => pc' # "leave")
      BY <2>2 DEF Request
    <2>5. kind # "structure" => ~Certain'
      BY <2>3 DEF Certain
    <2> QED BY <2>3, <2>4, <2>5 DEF StructureSoFar
  <1>2. CASE op'.kind # "structure"
    BY <1>2 DEF StructureSoFar, Certain
  <1>3. CASE /\ op.kind = "structure" /\ UNCHANGED <<op, out>>
             /\ pc \in {"connect"} \cup Moving /\ pc' \notin {"idle", "leave"}
    BY <1>3 DEF StructureSoFar
  <1>4. CASE op.kind = "structure" /\ pc' \in {"idle", "leave"} /\ answer' # "ok"
    BY <1>4 DEF StructureSoFar
  <1>5. CASE Connect
    BY <1>2, <1>3, <1>5 DEF Connect, KindAt, Typed
  <1>6. CASE ConnectFails \/ Fails
    BY <1>2, <1>4, <1>6 DEF ConnectFails, Fails
  <1>7. CASE Leave
    <2>1. UNCHANGED <<conn, op, home, srv, quiet, used, out>> /\ pc = "leave" /\ pc' = "idle"
      BY <1>7 DEF Leave
    <2>2. CASE op.kind = "structure"
      <3>1. answer' = answer
        BY <1>7, <2>2 DEF Leave
      <3>2. Certain' = Certain
        BY <2>1 DEF Certain
      <3> QED BY <2>1, <3>1, <3>2, PartsStay DEF StructureSoFar
    <2> QED BY <1>2, <2>1, <2>2
  <1>8. CASE TestDial \/ Probe \/ TestFails
    BY <1>2, <1>8 DEF TestDial, Probe, TestFails, KindAt
  <1>9. CASE UseDial \/ UseFails \/ UseSwap \/ UseClose \/ UseNote
    BY <1>2, <1>3, <1>9 DEF UseDial, UseFails, UseSwap, UseClose, UseNote
  <1>10. CASE TextRuns \/ TextBreaks \/ Again \/ Row
    BY <1>2, <1>10 DEF TextRuns, TextBreaks, Again, Row, KindAt
  <1>11. CASE ReadStructure
    <2>1. /\ UNCHANGED <<conn, op, home, srv, quiet, used>> /\ pc = "structure"
          /\ op.kind = "structure"
          /\ out' = Append(out, StructurePart(Len(out) + 1))
          /\ IF Len(out') = 3 THEN answer' = "ok" /\ pc' \in {"idle", "leave"}
             ELSE UNCHANGED <<pc, answer>>
      BY <1>11 DEF ReadStructure, KindAt
    <2>2. CASE ~Certain
      <3>1. ~Certain'
        BY <2>1, <2>2 DEF Certain
      <3>2. pc' \notin {"connect"} \cup Moving
        BY <2>1
      <3> QED BY <3>1, <3>2 DEF StructureSoFar
    <2>3. CASE Certain
      <3>1. out \in {<<>>, <<Part(1)>>, <<Part(1), Part(2)>>}
        BY <2>1, <2>3 DEF StructureSoFar
      <3>2. \A part : StructurePart(part) = Part(part)
        BY <2>1, <2>3, PartIsRead
      <3>3. PICK a, b, c : a = Part(1) /\ b = Part(2) /\ c = Part(3)
        OBVIOUS
      <3>4. \/ out' = <<a>> \/ out' = <<a, b>> \/ out' = <<a, b, c>>
        <4>1. CASE out = <<>>
          <5>1. Len(out) + 1 = 1 /\ out' = Append(<<>>, a)
            BY <2>1, <3>2, <3>3, <4>1
          <5> QED BY <5>1
        <4>2. CASE out = <<a>>
          <5>1. Len(out) + 1 = 2 /\ out' = Append(<<a>>, b)
            BY <2>1, <3>2, <3>3, <4>2
          <5> QED BY <5>1, AppendOne
        <4>3. CASE out = <<a, b>>
          <5>1. Len(out) + 1 = 3 /\ out' = Append(<<a, b>>, c)
            BY <2>1, <3>2, <3>3, <4>3
          <5> QED BY <5>1, AppendTwo
        <4> QED BY <3>1, <3>3, <4>1, <4>2, <4>3
      <3>5. (out' = <<a>> \/ out' = <<a, b>>) => pc' = "structure"
        BY <2>1
      <3>6. a = Part(1)' /\ b = Part(2)' /\ c = Part(3)'
        BY <2>1, <3>3, PartsStay
      <3>7. out' = <<a, b, c>> => pc' \in {"idle", "leave"}
        BY <2>1
      <3> QED BY <3>4, <3>5, <3>6, <3>7 DEF StructureSoFar
    <2> QED BY <2>2, <2>3
  <1>12. CASE CreateOrDrop \/ list_schema \/ handle_list_schema
    BY <1>2, <1>12 DEF CreateOrDrop, list_schema, handle_list_schema, KindAt
  <1>13. CASE Server
    BY <1>13 DEF Server, StructureSoFar, Certain
  <1> QED BY <1>1, <1>5, <1>6, <1>7, <1>8, <1>9, <1>10, <1>11, <1>12, <1>13, Steps DEF Command

\* A server has three kinds of tables, one of them none.
LEMMA KindsOfTables ==
  ASSUME NEW place \in Dbs \cup {"", NoDb, Closed}
  PROVE  DefinitionNow[place] \in {Keyed, Composite, Pg!NoTable}
  <1>1. DefinitionNow[place] = IF place \in srv.dbs THEN Definition(place) ELSE Pg!NoTable
    BY DEF DefinitionNow
  <1>2. "" # "postgres"
    OBVIOUS
  <1>3. Definition(place) \in {Keyed, Composite}
    BY <1>2 DEF Keyed, Composite, Definition
  <1> QED BY <1>1, <1>3

\* The columns shown are the table's, with their flags.
ColumnsRight(shown, def) ==
  [i \in DOMAIN shown |-> [shown[i] EXCEPT !.data_type = ""]]
    = [i \in DOMAIN def.columns |->
         [name |-> def.columns[i].name, data_type |-> "",
          nullable |-> ~def.columns[i].notnull,
          is_primary_key |-> def.columns[i].pk,
          auto_increment |->
            \/ def.columns[i].serial
            \/ conn.engine = "sqlite" /\ def.columns[i].pk /\ def.columns[i].type = "integer"]]

\* Each pair of a constraint is shown after the one before it.
KeysRight(shown, def) ==
  \A i \in DOMAIN def.fks : \A j \in DOMAIN def.fks[i].pairs :
    \E k \in DOMAIN shown :
      /\ <<shown[k].column, shown[k].referenced_column>> = def.fks[i].pairs[j]
      /\ j > 1 => /\ shown[k - 1].name = shown[k].name
                  /\ shown[k - 1].column = def.fks[i].pairs[j - 1][1]

\* The indexes shown are the table's, with their columns.
IndexesRight(shown, def) ==
  [i \in DOMAIN shown |-> <<shown[i].columns, shown[i].unique, shown[i].primary>>]
    = [i \in DOMAIN def.indexes |-> <<def.indexes[i].columns, def.indexes[i].unique,
                                     def.indexes[i].primary>>]

\* A column made of flags.
SerialIsKey(c) == c.serial \in BOOLEAN /\ (c.serial => c.pk /\ c.type = "integer")

\* The columns of the two tables, by their flags.
LEMMA FlagsOfColumns ==
  /\ SerialIsKey(Column("id", "integer", TRUE, TRUE, TRUE))
  /\ \A name, type, notnull, pk : SerialIsKey(Column(name, type, notnull, pk, FALSE))
  <1>1. PICK c : c = Column("id", "integer", TRUE, TRUE, TRUE)
    OBVIOUS
  <1>2. c.serial = TRUE
    BY <1>1 DEF Column
  <1>3. c.pk = TRUE
    BY <1>1 DEF Column
  <1>4. c.type = "integer"
    BY <1>1 DEF Column
  <1>5. SerialIsKey(c)
    BY <1>2, <1>3, <1>4 DEF SerialIsKey
  <1>6. ASSUME NEW name, NEW type, NEW notnull, NEW pk
        PROVE  SerialIsKey(Column(name, type, notnull, pk, FALSE))
    <2>1. Column(name, type, notnull, pk, FALSE).serial = FALSE
      BY DEF Column
    <2> QED BY <2>1 DEF SerialIsKey
  <1> QED BY <1>1, <1>5, <1>6

\* A serial column is an integer key, of which SQLite makes it one too.
LEMMA ColumnFlags ==
  ASSUME NEW def \in {Keyed, Composite, Pg!NoTable}, NEW i \in DOMAIN def.columns
  PROVE  SerialIsKey(def.columns[i])
  <1>1. CASE def = Keyed
    <2>1. Keyed.columns = <<Column("id", "integer", TRUE, TRUE, TRUE),
                            Column("a", "text", FALSE, FALSE, FALSE)>>
      BY DEF Keyed, Definition
    <2>2. PICK c, d : /\ c = Column("id", "integer", TRUE, TRUE, TRUE)
                      /\ d = Column("a", "text", FALSE, FALSE, FALSE)
      OBVIOUS
    <2>3. def.columns = <<c, d>>
      BY <1>1, <2>1, <2>2
    <2>4. SerialIsKey(c)
      BY <2>2, FlagsOfColumns
    <2>5. SerialIsKey(d)
      BY <2>2, FlagsOfColumns
    <2> QED BY <2>3, <2>4, <2>5
  <1>2. CASE def = Composite
    <2>1. Composite.columns = <<Column("a", "text", TRUE, TRUE, FALSE),
                                Column("b", "integer", TRUE, TRUE, FALSE),
                                Column("n", "integer", FALSE, FALSE, FALSE)>>
      BY DEF Composite, Definition
    <2>2. PICK c, d, e : /\ c = Column("a", "text", TRUE, TRUE, FALSE)
                         /\ d = Column("b", "integer", TRUE, TRUE, FALSE)
                         /\ e = Column("n", "integer", FALSE, FALSE, FALSE)
      OBVIOUS
    <2>3. def.columns = <<c, d, e>>
      BY <1>2, <2>1, <2>2
    <2>4. SerialIsKey(c)
      BY <2>2, FlagsOfColumns
    <2>5. SerialIsKey(d)
      BY <2>2, FlagsOfColumns
    <2>6. SerialIsKey(e)
      BY <2>2, FlagsOfColumns
    <2> QED BY <2>3, <2>4, <2>5, <2>6
  <1>3. CASE def = Pg!NoTable
    <2>1. def.columns = <<>>
      BY <1>3 DEF Pg!NoTable
    <2> QED BY <2>1
  <1> QED BY <1>1, <1>2, <1>3

\* A column as a driver shows it.
Described(name, type, nullable, pk, auto) ==
  [name |-> name, data_type |-> type, nullable |-> nullable,
   is_primary_key |-> pk, auto_increment |-> auto]

\* SQLite has no serial columns; the other servers show which are.
LEMMA ColumnsShown ==
  ASSUME NEW place, NEW def, def = DefinitionNow[place], def \in {Keyed, Composite, Pg!NoTable},
         conn.engine \in {"postgres", "mysql", "sqlite"}
  PROVE  ColumnsRight(StructureOf(1, place, place), def)
  <1> DEFINE c == def.columns
             shown == StructureOf(1, place, place)
             auto(i) == \/ c[i].serial
                        \/ conn.engine = "sqlite" /\ c[i].pk /\ c[i].type = "integer"
             right(i) == [name |-> c[i].name, data_type |-> "", nullable |-> ~c[i].notnull,
                          is_primary_key |-> c[i].pk, auto_increment |-> auto(i)]
  <1>1. \A i \in DOMAIN c :
          c[i].serial \in BOOLEAN /\ (c[i].serial => c[i].pk /\ c[i].type = "integer")
    BY ColumnFlags DEF SerialIsKey
  <1>2. /\ DOMAIN shown = DOMAIN c
        /\ \A i \in DOMAIN c :
             \E nullable \in BOOLEAN, given \in BOOLEAN :
               /\ nullable <=> ~c[i].notnull
               /\ given <=> auto(i)
               /\ shown[i] = [name |-> c[i].name, data_type |-> c[i].type, nullable |-> nullable,
                              is_primary_key |-> c[i].pk, auto_increment |-> given]
    <2>1. CASE conn.engine = "postgres"
      <3>1. shown = Pg!list_columns(place, place, DefinitionNow)
        BY <2>1 DEF StructureOf
      <3>2. shown = [i \in DOMAIN c |-> Pg!ColumnInfo(c[i], ~c[i].notnull, c[i].serial)]
        BY <3>1 DEF Pg!list_columns
      <3> HIDE DEF shown, c
      <3>3. ASSUME NEW i \in DOMAIN c
            PROVE  shown[i] = Pg!ColumnInfo(c[i], ~c[i].notnull, c[i].serial)
        BY <3>2
      <3> QED BY <1>1, <2>1, <3>2, <3>3 DEF Pg!ColumnInfo
    <2>2. CASE conn.engine = "mysql"
      <3>1. shown = MySql!list_columns(place, place, DefinitionNow)
        BY <2>2 DEF StructureOf
      <3>2. shown = [i \in DOMAIN c |-> MySql!ColumnInfo(c[i], ~c[i].notnull, c[i].serial)]
        BY <3>1 DEF MySql!list_columns
      <3> HIDE DEF shown, c
      <3>3. ASSUME NEW i \in DOMAIN c
            PROVE  shown[i] = MySql!ColumnInfo(c[i], ~c[i].notnull, c[i].serial)
        BY <3>2
      <3> QED BY <1>1, <2>2, <3>2, <3>3 DEF MySql!ColumnInfo
    <2>3. CASE conn.engine = "sqlite"
      <3>1. shown = Sqlite!list_columns(place, place, DefinitionNow)
        BY <2>3 DEF StructureOf
      <3>2. shown = [i \in DOMAIN c |-> Sqlite!ColumnInfo(c[i], ~c[i].notnull,
                                          c[i].pk /\ c[i].type = "integer")]
        BY <3>1 DEF Sqlite!list_columns
      <3> HIDE DEF shown, c
      <3>3. ASSUME NEW i \in DOMAIN c
            PROVE  shown[i] = Sqlite!ColumnInfo(c[i], ~c[i].notnull,
                                                c[i].pk /\ c[i].type = "integer")
        BY <3>2
      <3> QED BY <1>1, <2>3, <3>2, <3>3 DEF Sqlite!ColumnInfo
    <2> QED BY <2>1, <2>2, <2>3
  <1> HIDE DEF c, shown, auto, right
  <1>3. ASSUME NEW i \in DOMAIN c
        PROVE  [shown[i] EXCEPT !.data_type = ""] = right(i)
    <2>1. PICK nullable \in BOOLEAN, given \in BOOLEAN :
               /\ nullable <=> ~c[i].notnull
               /\ given <=> auto(i)
               /\ shown[i] = [name |-> c[i].name, data_type |-> c[i].type, nullable |-> nullable,
                              is_primary_key |-> c[i].pk, auto_increment |-> given]
      BY <1>2
    <2>2. [shown[i] EXCEPT !.data_type = ""] = Described(c[i].name, "", nullable, c[i].pk, given)
      <3>1. PICK r, w : r = shown[i] /\ w = Described(c[i].name, "", nullable, c[i].pk, given)
        OBVIOUS
      <3> DEFINE D == {"name", "data_type", "nullable", "is_primary_key", "auto_increment"}
                 e == [r EXCEPT !.data_type = ""]
      <3>2. /\ DOMAIN r = D /\ r.name = c[i].name /\ r.is_primary_key = c[i].pk
            /\ r.nullable = nullable /\ r.auto_increment = given
        <4>1. r = Described(c[i].name, c[i].type, nullable, c[i].pk, given)
          BY <2>1, <3>1 DEF Described
        <4>2. DOMAIN r = D /\ r.name = c[i].name /\ r.is_primary_key = c[i].pk
          BY <4>1 DEF Described
        <4>3. r.nullable = nullable
          BY <4>1 DEF Described
        <4>4. r.auto_increment = given
          BY <4>1 DEF Described
        <4> QED BY <4>2, <4>3, <4>4
      <3>3. /\ DOMAIN w = D /\ w.name = c[i].name /\ w.is_primary_key = c[i].pk
            /\ w.data_type = "" /\ w.nullable = nullable /\ w.auto_increment = given
        BY <3>1 DEF Described
      <3>4. /\ DOMAIN e = D /\ e.name = r.name /\ e.is_primary_key = r.is_primary_key
            /\ e.data_type = "" /\ e.nullable = r.nullable
            /\ e.auto_increment = r.auto_increment
        BY <3>2
      <3>5. e = [f \in D |-> e[f]] /\ w = [f \in D |-> w[f]]
        BY <3>1, <3>2 DEF Described
      <3> HIDE DEF e
      <3>6. \A f \in D : e[f] = w[f]
        BY <3>2, <3>3, <3>4
      <3>7. e = w
        BY <3>5, <3>6
      <3> QED BY <3>1, <3>7 DEF e
    <2>3. right(i) = Described(c[i].name, "", nullable, c[i].pk, given)
      BY <2>1 DEF right, auto, Described
    <2> QED BY <2>2, <2>3
  <1>4. [i \in DOMAIN shown |-> [shown[i] EXCEPT !.data_type = ""]] = [i \in DOMAIN c |-> right(i)]
    BY <1>2, <1>3
  <1>5. ColumnsRight(shown, def)
    BY <1>4 DEF ColumnsRight, right, auto, c
  <1> QED BY <1>5 DEF shown

\* A constraint of a table is shown pair by pair, by each driver.
LEMMA KeysShown ==
  ASSUME NEW place, NEW def, def = DefinitionNow[place], def \in {Keyed, Composite, Pg!NoTable},
         conn.engine \in {"postgres", "mysql", "sqlite"}
  PROVE  KeysRight(StructureOf(2, place, place), def)
  <1>1. CASE def # Composite
    <2>1. Keyed.fks = <<>> /\ Pg!NoTable.fks = <<>>
      BY DEF Keyed, Definition, Pg!NoTable
    <2>2. def.fks = <<>>
      BY <1>1, <2>1
    <2>3. DOMAIN def.fks = {}
      BY <2>2
    <2> QED BY <2>3 DEF KeysRight
  <1>2. CASE def = Composite
    <2> DEFINE fks == def.fks
               Rows(name) ==
                 [j \in DOMAIN fks[1].pairs |->
                    [name |-> name, column |-> fks[1].pairs[j][1],
                     referenced_table |-> fks[1].table,
                     referenced_column |-> fks[1].pairs[j][2]]]
    <2>1. fks = <<[name |-> "f", table |-> "u", pairs |-> <<<<"b", "x">>, <<"a", "y">>>>]>>
      BY <1>2 DEF Composite, Definition
    <2>2. \E name : StructureOf(2, place, place) = Rows(name)
      <3>1. ASSUME NEW names, DOMAIN names = DOMAIN fks
            PROVE  /\ Pg!ForeignKeyRows(fks, names) = Rows(names[1])
                   /\ MySql!ForeignKeyRows(fks, names) = Rows(names[1])
                   /\ Sqlite!ForeignKeyRows(fks, names) = Rows(names[1])
        <4> DEFINE q == [i \in DOMAIN fks |-> [j \in DOMAIN fks[i].pairs |->
                           [name |-> names[i], column |-> fks[i].pairs[j][1],
                            referenced_table |-> fks[i].table,
                            referenced_column |-> fks[i].pairs[j][2]]]]
                   s == Rows(names[1])
        <4>1. DOMAIN fks = {1}
          BY <2>1
        <4>2. DOMAIN q = {1} /\ q[1] = s
          BY <4>1
        <4>3. /\ Pg!ForeignKeyRows(fks, names) = Pg!FlattenSeq(q)
              /\ MySql!ForeignKeyRows(fks, names) = MySql!FlattenSeq(q)
              /\ Sqlite!ForeignKeyRows(fks, names) = Sqlite!FlattenSeq(q)
          BY DEF Pg!ForeignKeyRows, MySql!ForeignKeyRows, Sqlite!ForeignKeyRows
        <4>4. q = [i \in {1} |-> s]
          BY <4>1, <4>2
        <4> HIDE DEF q, s
        <4>5. q = <<s>>
          BY <4>4
        <4>6. /\ Pg!FlattenSeq(<<s>>) = FlattenSeq(<<s>>)
              /\ MySql!FlattenSeq(<<s>>) = FlattenSeq(<<s>>)
              /\ Sqlite!FlattenSeq(<<s>>) = FlattenSeq(<<s>>)
          BY DEF Pg!FlattenSeq, MySql!FlattenSeq, Sqlite!FlattenSeq, FlattenSeq
        <4>7. FlattenSeq(<<s>>) = s
          BY FlattenOne
        <4> QED BY <4>3, <4>5, <4>6, <4>7 DEF s
      <3> DEFINE own == [i \in DOMAIN fks |-> fks[i].name]
                 numbered == [i \in DOMAIN fks |-> "fk_t_" \o Sqlite!ToString(i - 1)]
      <3>2. \/ StructureOf(2, place, place) = Pg!ForeignKeyRows(fks, own)
            \/ StructureOf(2, place, place) = MySql!ForeignKeyRows(fks, own)
            \/ StructureOf(2, place, place) = Sqlite!ForeignKeyRows(fks, numbered)
        BY DEF StructureOf, Pg!list_foreign_keys, MySql!list_foreign_keys, Sqlite!list_foreign_keys
      <3>3. DOMAIN own = DOMAIN fks /\ DOMAIN numbered = DOMAIN fks
        OBVIOUS
      <3> HIDE DEF own, numbered, fks, Rows
      <3> QED BY <3>1, <3>2, <3>3
    <2>3. PICK name : StructureOf(2, place, place) = Rows(name)
      BY <2>2
    <2>4. PICK shown : shown = StructureOf(2, place, place)
      OBVIOUS
    <2>5. /\ DOMAIN shown = {1, 2} /\ shown[1].name = name /\ shown[2].name = name
          /\ shown[1].column = "b" /\ shown[1].referenced_column = "x"
          /\ shown[2].column = "a" /\ shown[2].referenced_column = "y"
      BY <2>1, <2>3, <2>4
    <2>6. /\ DOMAIN fks = {1} /\ DOMAIN fks[1].pairs = {1, 2}
          /\ fks[1].pairs[1] = <<"b", "x">> /\ fks[1].pairs[2] = <<"a", "y">>
      BY <2>1
    <2>7. KeysRight(shown, def)
      <3> HIDE DEF fks
      <3>1. ASSUME NEW i \in DOMAIN fks, NEW j \in DOMAIN fks[i].pairs
            PROVE  /\ j \in DOMAIN shown
                   /\ <<shown[j].column, shown[j].referenced_column>> = fks[i].pairs[j]
                   /\ j > 1 => /\ shown[j - 1].name = shown[j].name
                               /\ shown[j - 1].column = fks[i].pairs[j - 1][1]
        <4>1. i = 1 /\ j \in {1, 2}
          BY <2>6
        <4>2. CASE j = 1
          BY <2>5, <2>6, <4>1, <4>2
        <4>3. CASE j = 2
          <5>1. j - 1 = 1
            BY <4>3
          <5> QED BY <2>5, <2>6, <4>1, <4>3, <5>1
        <4> QED BY <4>1, <4>2, <4>3
      <3>2. \A i \in DOMAIN fks : \A j \in DOMAIN fks[i].pairs :
              \E k \in DOMAIN shown :
                /\ <<shown[k].column, shown[k].referenced_column>> = fks[i].pairs[j]
                /\ j > 1 => /\ shown[k - 1].name = shown[k].name
                            /\ shown[k - 1].column = fks[i].pairs[j - 1][1]
        BY <3>1
      <3> QED BY <3>2 DEF KeysRight, fks
    <2> QED BY <2>4, <2>7
  <1> QED BY <1>1, <1>2

\* The same fields, index by index.
SameIndex(shown, ix) ==
  \A i \in DOMAIN ix : /\ shown[i].columns = ix[i].columns
                      /\ shown[i].unique = ix[i].unique
                      /\ shown[i].primary = ix[i].primary

\* Index by index.
LEMMA SameIndexes ==
  ASSUME NEW shown, NEW def, DOMAIN shown = DOMAIN def.indexes,
         SameIndex(shown, def.indexes)
  PROVE  IndexesRight(shown, def)
  BY DEF IndexesRight, SameIndex

\* MySQL's indexes are gathered of the statistics, the others' are shown as
\* they are.
LEMMA IndexesShown ==
  ASSUME NEW place, NEW def, def = DefinitionNow[place], def \in {Keyed, Composite, Pg!NoTable},
         conn.engine \in {"postgres", "mysql", "sqlite"}
  PROVE  IndexesRight(StructureOf(3, place, place), def)
  <1> DEFINE ix == def.indexes
             shown == StructureOf(3, place, place)
  <1>1. CASE conn.engine # "mysql"
    <2>1. shown = [i \in DOMAIN ix |-> [name |-> ix[i].name, columns |-> ix[i].columns,
                                        unique |-> ix[i].unique, primary |-> ix[i].primary]]
      BY <1>1 DEF StructureOf, Pg!list_indexes, Sqlite!list_indexes, Pg!IndexInfo, Sqlite!IndexInfo
    <2> QED BY <2>1 DEF IndexesRight
  <1>2. CASE conn.engine = "mysql"
    <2>1. shown = MySql!FoldLeft(MySql!Gather, <<>>, MySql!Statistics(ix))
      BY <1>2 DEF StructureOf, MySql!list_indexes
    <2>2. CASE def = Keyed
      <3>1. ix = <<[name |-> "t_pkey", columns |-> <<"id">>, unique |-> TRUE, primary |-> TRUE]>>
        <4>1. Keyed.indexes = <<[name |-> "t_pkey", columns |-> <<"id">>, unique |-> TRUE,
                                 primary |-> TRUE]>>
          BY DEF Keyed, Definition
        <4> QED BY <2>2, <4>1
      <3>2. shown = <<MySql!IndexInfo("PRIMARY", <<"id">>, TRUE, TRUE)>>
        BY <2>1, <2>2, KeyedGathered
      <3>3. /\ DOMAIN shown = {1} /\ shown[1].columns = <<"id">>
            /\ shown[1].unique = TRUE /\ shown[1].primary = TRUE
        BY <3>2 DEF MySql!IndexInfo
      <3>4. /\ DOMAIN ix = {1} /\ ix[1].columns = <<"id">>
            /\ ix[1].unique = TRUE /\ ix[1].primary = TRUE
        BY <3>1
      <3> HIDE DEF shown, ix
      <3>5. SameIndex(shown, ix)
        BY <3>3, <3>4 DEF SameIndex
      <3>6. PICK s : s = shown
        OBVIOUS
      <3>7. DOMAIN s = DOMAIN def.indexes /\ SameIndex(s, def.indexes)
        BY <3>3, <3>4, <3>5, <3>6 DEF ix
      <3>8. IndexesRight(s, def)
        BY <3>7, SameIndexes
      <3> QED BY <3>6, <3>8 DEF shown
    <2>3. CASE def = Composite
      <3>1. ix = <<[name |-> "t_ba", columns |-> <<"b", "a">>, unique |-> FALSE, primary |-> FALSE],
                   [name |-> "t_pkey", columns |-> <<"a", "b">>, unique |-> TRUE, primary |-> TRUE]>>
        <4>1. Composite.indexes
                = <<[name |-> "t_ba", columns |-> <<"b", "a">>, unique |-> FALSE, primary |-> FALSE],
                    [name |-> "t_pkey", columns |-> <<"a", "b">>, unique |-> TRUE, primary |-> TRUE]>>
          BY DEF Composite, Definition
        <4> QED BY <2>3, <4>1
      <3>2. shown = <<MySql!IndexInfo("t_ba", <<"b", "a">>, FALSE, FALSE),
                      MySql!IndexInfo("PRIMARY", <<"a", "b">>, TRUE, TRUE)>>
        BY <2>1, <2>3, CompositeGathered
      <3>3. /\ DOMAIN shown = {1, 2}
            /\ shown[1].columns = <<"b", "a">> /\ shown[2].columns = <<"a", "b">>
            /\ shown[1].unique = FALSE /\ shown[1].primary = FALSE
            /\ shown[2].unique = TRUE /\ shown[2].primary = TRUE
        BY <3>2 DEF MySql!IndexInfo
      <3>4. /\ DOMAIN ix = {1, 2}
            /\ ix[1].columns = <<"b", "a">> /\ ix[2].columns = <<"a", "b">>
            /\ ix[1].unique = FALSE /\ ix[1].primary = FALSE
            /\ ix[2].unique = TRUE /\ ix[2].primary = TRUE
        BY <3>1
      <3> HIDE DEF shown, ix
      <3>5. SameIndex(shown, ix)
        BY <3>3, <3>4 DEF SameIndex
      <3>6. PICK s : s = shown
        OBVIOUS
      <3>7. DOMAIN s = DOMAIN def.indexes /\ SameIndex(s, def.indexes)
        BY <3>3, <3>4, <3>5, <3>6 DEF ix
      <3>8. IndexesRight(s, def)
        BY <3>7, SameIndexes
      <3> QED BY <3>6, <3>8 DEF shown
    <2>4. CASE def = Pg!NoTable
      <3>1. ix = <<>>
        BY <2>4 DEF Pg!NoTable
      <3>2. shown = <<>>
        BY <2>1, <3>1, NothingGathered
      <3> QED BY <3>1, <3>2 DEF IndexesRight
    <2> QED BY <2>2, <2>3, <2>4
  <1> QED BY <1>1, <1>2

\* SQLite has one database, whatever name it is asked by.
LEMMA AnyNameInSqlite ==
  ASSUME NEW place, NEW named, NEW part, conn.engine = "sqlite"
  PROVE  StructureOf(part, named, place) = StructureOf(part, place, place)
  <1>1. /\ Sqlite!list_columns(named, place, DefinitionNow)
             = Sqlite!list_columns(place, place, DefinitionNow)
        /\ Sqlite!list_foreign_keys(named, place, DefinitionNow)
             = Sqlite!list_foreign_keys(place, place, DefinitionNow)
        /\ Sqlite!list_indexes(named, place, DefinitionNow)
             = Sqlite!list_indexes(place, place, DefinitionNow)
    BY DEF Sqlite!list_columns, Sqlite!list_foreign_keys, Sqlite!list_indexes
  <1>2. CASE part = 1
    <2>1. StructureOf(1, named, place) = Sqlite!list_columns(named, place, DefinitionNow)
      BY DEF StructureOf
    <2>2. StructureOf(1, place, place) = Sqlite!list_columns(place, place, DefinitionNow)
      BY DEF StructureOf
    <2> QED BY <1>1, <1>2, <2>1, <2>2
  <1>3. CASE part = 2
    <2>1. StructureOf(2, named, place) = Sqlite!list_foreign_keys(named, place, DefinitionNow)
      BY DEF StructureOf
    <2>2. StructureOf(2, place, place) = Sqlite!list_foreign_keys(place, place, DefinitionNow)
      BY DEF StructureOf
    <2> QED BY <1>1, <1>3, <2>1, <2>2
  <1>4. CASE part # 1 /\ part # 2
    <2>1. StructureOf(part, named, place) = Sqlite!list_indexes(named, place, DefinitionNow)
      BY <1>4 DEF StructureOf
    <2>2. StructureOf(part, place, place) = Sqlite!list_indexes(place, place, DefinitionNow)
      BY <1>4 DEF StructureOf
    <2> QED BY <1>1, <2>1, <2>2
  <1> QED BY <1>2, <1>3, <1>4

\* Once answered, the structure of a named table is that of the table, as long
\* as the server stays.
LEMMA StructureRight ==
  ASSUME IInv, StructureSoFar
  PROVE  StructureIsTable
  <1> SUFFICES ASSUME pc = "idle", op.kind = "structure", answer = "ok", op.db # "", quiet,
                      used = "ok" \/ conn.engine = "mysql"
               PROVE  LET def == DefinitionNow[AskedAt]
                      IN  /\ ColumnsRight(out[1], def) /\ KeysRight(out[2], def)
                          /\ IndexesRight(out[3], def)
    BY DEF StructureIsTable, AskedAt, ColumnsRight, KeysRight, IndexesRight
  <1>1. out = <<Part(1), Part(2), Part(3)>>
    BY DEF StructureSoFar, Certain
  <1>2. PICK place : place = AskedAt
    OBVIOUS
  <1>3. PICK def : def = DefinitionNow[place]
    OBVIOUS
  <1>4. /\ place \in Dbs \cup {"", NoDb, Closed}
        /\ conn.engine \in {"postgres", "mysql", "sqlite"}
    BY <1>2, Sentinels DEF AskedAt, Typed, Pools
  <1>5. def \in {Keyed, Composite, Pg!NoTable}
    BY <1>3, <1>4, KindsOfTables
  <1>6. \A part : Part(part) = StructureOf(part, place, place)
    <2>1. CASE SQLite
      <3>1. conn.engine = "sqlite"
        BY <2>1
      <3>2. \A part : StructureOf(part, op.db, place) = StructureOf(part, place, place)
        BY <3>1, AnyNameInSqlite
      <3> QED BY <1>2, <3>2 DEF Part
    <2>2. CASE ~SQLite
      BY <1>2, <2>2 DEF Part, AskedAt
    <2> QED BY <2>1, <2>2
  <1>7. /\ ColumnsRight(Part(1), def) /\ KeysRight(Part(2), def) /\ IndexesRight(Part(3), def)
    BY <1>3, <1>4, <1>5, <1>6, ColumnsShown, KeysShown, IndexesShown
  <1>8. PICK a, b, c : a = Part(1) /\ b = Part(2) /\ c = Part(3)
    OBVIOUS
  <1>9. out[1] = a /\ out[2] = b /\ out[3] = c
    BY <1>1, <1>8
  <1> QED BY <1>2, <1>3, <1>7, <1>8, <1>9

\* The structure shown for a named database is that of its table: flags of
\* columns, pairs of composite foreign keys, columns of indexes, gathered row by
\* row for MySQL (daemon.rs handle_table_structure, list_columns,
\* list_foreign_keys and list_indexes of the drivers).
THEOREM StructureShown == Spec => []StructureIsTable
  <1>1. Init => StructureSoFar
    <2> SUFFICES ASSUME Init PROVE StructureSoFar
      OBVIOUS
    <2>1. pc = "idle" /\ op.kind = "disconnect"
      BY DEF Init
    <2> QED BY <2>1 DEF StructureSoFar, Certain
  <1>2. IInv /\ StructureSoFar /\ [Next]_vars => StructureSoFar'
    <2> SUFFICES ASSUME IInv, StructureSoFar, [Next]_vars PROVE StructureSoFar'
      OBVIOUS
    <2>1. CASE UNCHANGED vars
      <3>1. UNCHANGED <<conn, op, home, srv, quiet, used, out, pc, answer>>
        BY <2>1 DEF vars
      <3>2. Certain' = Certain
        BY <3>1 DEF Certain
      <3> QED BY <3>1, <3>2, PartsStay DEF StructureSoFar
    <2> QED BY <2>1, StructureKept
  <1>3. IInv /\ StructureSoFar => StructureIsTable
    BY StructureRight
  <1> QED BY <1>1, <1>2, <1>3, Invariant, PTL DEF Spec

=============================================================================
