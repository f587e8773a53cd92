--------------------------- MODULE GtkWindowProofs ---------------------------
(***************************************************************************)
(* Proofs about the main window of the GTK program.                        *)
(*                                                                         *)
(* Futures overlap at every wait, so all is said of one future and of the  *)
(* others: Turns says which futures of a step are new and that the rest    *)
(* stay, Step that what is typed stays so and that the new ones fit.  There *)
(* is one lemma of that form for every action; the invariants are then     *)
(* carried over it: of the session (Calm, Owned, Marked), of the grids     *)
(* (ShowsTrue, TasksPlaced, TabsPlaced), of dialogs and writes (Aimed), and *)
(* of the numbers of tabs and pages (Matched).                             *)
(***************************************************************************)
EXTENDS GtkWindow, FiniteSetTheorems, SequenceTheorems, FunctionTheorems,
        WellFoundedInduction, TLAPS

\* What the variables hold.
Kinds == {"connect", "disconnect", "query", "load", "schema", "tables", "databases",
          "structure", "row", "write"}
Pcs == {"start", "leave", "dial", "swap", "note", "run", "show", "ask"}

PoolSet == Dbs \cup {"", Closed}
Spot == Conns \X PoolSet
PartSet == Seq(Spot \cup {NULL})

TaskSet ==
  [kind : Kinds, pc : Pcs, conn : Conns \cup {NULL}, db : Dbs \cup {""}, tab : Nat,
   driver : Nat, page : 0 .. MaxPage, sort : BOOLEAN, id : Conns \cup {NULL}, nr : Nat,
   from : Spot \cup {NULL}, parts : PartSet, version : Nat]

ShownSet ==
  [conn : Conns \cup {NULL}, db : Dbs \cup {""}, id : Conns \cup {NULL},
   page : 0 .. MaxPage, sort : BOOLEAN, nr : Nat, from : Spot \cup {NULL}, version : Nat]

WroteSet == [parts : PartSet, version : Nat]

TabSet ==
  [conn : Conns \cup {NULL}, db : Dbs \cup {""}, page : 0 .. MaxPage, sort : BOOLEAN,
   grid : {"empty", "loading", "error", "rows"}, shown : ShownSet \cup {NULL}, nr : Nat,
   wrote : WroteSet \cup {NULL}, structure : PartSet]

AppSet == [id : Conns \cup {NULL}, driver : Nat, db : Dbs \cup {""}]
DriverSet == [conn : Conns, pool : PoolSet]

\* The id is that of the driver.
SessionTyped ==
  /\ drivers \in Seq(DriverSet) /\ app \in AppSet
  /\ app.driver \in 0 .. Len(drivers) /\ ActiveIsOne

WindowTyped ==
  /\ tab \in Seq(TabSet)
  /\ tabs \in Seq(DOMAIN tab) /\ pages \in Seq(DOMAIN tab)

SavedTyped == saved \in Seq(Conns) /\ IsInjective(saved)
VersionTyped == version \in [Conns \X Dbs -> Nat]

Typed == SessionTyped /\ WindowTyped /\ SavedTyped /\ VersionTyped

\* The connection and the tab a future is about.
Concerns(t) ==
  /\ t.kind \in {"connect", "disconnect", "query", "schema", "tables"} => t.conn \in Conns
  /\ t.kind \in {"load", "query", "structure", "row", "write"} => t.tab \in DOMAIN tab
  /\ t.kind \in {"load", "structure", "row", "write"} => tab[t.tab].conn # NULL
  /\ t.kind = "query" => tab[t.tab].conn = NULL

\* How far a future of its kind can come.
Reaches(t) ==
  /\ t.pc = "leave" => t.kind \in {"connect", "query", "disconnect"}
  /\ t.pc = "dial" => t.kind \in {"connect", "query"}
  /\ t.pc \in {"swap", "note"} => t.kind \in {"load", "query"} /\ t.db \in Dbs
  /\ t.pc = "run" => t.kind \notin {"connect", "disconnect"}
  /\ t.pc = "show" => t.kind \in {"load", "query", "structure", "row", "write"}
  /\ t.pc = "ask" => t.kind = "row"

Fits(t) ==
  /\ t \in TaskSet /\ t.driver \in 0 .. Len(drivers)
  /\ Concerns(t) /\ Reaches(t)

Tasks == tasks \in Seq(TaskSet) /\ \A i \in DOMAIN tasks : Fits(tasks[i])

\* A future that was polled was spawned before all that were not.
Fifo == \A i, j \in DOMAIN tasks : i < j /\ tasks[i].pc = "start" => tasks[j].pc = "start"

-----------------------------------------------------------------------------
(* Sequences.                                                              *)
\* A set of numbers that is not empty has a least one.
LEMMA Least ==
  ASSUME NEW T \in SUBSET Nat, T # {}
  PROVE  \E n \in T : \A m \in T : n <= m
  <1>1. IsWellFoundedOn(OpToRel(<, Nat), Nat)
    BY NatLessThanWellFounded
  <1>2. PICK n \in T : \A m \in T : <<m, n>> \notin OpToRel(<, Nat)
    BY <1>1, WFMin
  <1>3. ASSUME NEW m \in T
        PROVE  n <= m
    <2>1. n \in Nat /\ m \in Nat /\ ~(m < n)
      BY <1>2 DEF OpToRel
    <2> QED BY <2>1
  <1> QED BY <1>3

\* The elements of two sequences are those of their concatenation.
LEMMA Concatenated ==
  ASSUME NEW S, NEW a \in Seq(S), NEW b \in Seq(S)
  PROVE  /\ a \o b \in Seq(S) /\ Len(a \o b) = Len(a) + Len(b)
         /\ DOMAIN (a \o b) = 1 .. Len(a) + Len(b)
         /\ \A i \in DOMAIN a : i \in DOMAIN (a \o b) /\ (a \o b)[i] = a[i]
         /\ \A i \in DOMAIN b : Len(a) + i \in DOMAIN (a \o b) /\ (a \o b)[Len(a) + i] = b[i]
         /\ \A i \in DOMAIN (a \o b) :
              \/ i \in DOMAIN a /\ (a \o b)[i] = a[i]
              \/ /\ i > Len(a) /\ i - Len(a) \in DOMAIN b
                 /\ (a \o b)[i] = b[i - Len(a)]
  OBVIOUS

\* What is left of a sequence when one element is removed.
LEMMA Removed ==
  ASSUME NEW S, NEW s \in Seq(S), NEW i \in DOMAIN s
  PROVE  /\ RemoveAt(s, i) \in Seq(S) /\ Len(RemoveAt(s, i)) = Len(s) - 1
         /\ \A k \in DOMAIN RemoveAt(s, i) :
              RemoveAt(s, i)[k] = IF k < i THEN s[k] ELSE s[k + 1]
  <1>1. /\ SubSeq(s, 1, i - 1) \in Seq(S) /\ Len(SubSeq(s, 1, i - 1)) = i - 1
        /\ \A k \in 1 .. i - 1 : SubSeq(s, 1, i - 1)[k] = s[k]
    OBVIOUS
  <1>2. /\ SubSeq(s, i + 1, Len(s)) \in Seq(S) /\ Len(SubSeq(s, i + 1, Len(s))) = Len(s) - i
        /\ \A k \in 1 .. Len(s) - i : SubSeq(s, i + 1, Len(s))[k] = s[i + k]
    OBVIOUS
  <1> DEFINE a == SubSeq(s, 1, i - 1)
             b == SubSeq(s, i + 1, Len(s))
  <1>3. RemoveAt(s, i) = a \o b
    BY DEF RemoveAt
  <1> HIDE DEF a, b
  <1>4. i \in Nat /\ Len(s) \in Nat /\ 1 <= i /\ i <= Len(s)
    OBVIOUS
  <1>5. /\ a \in Seq(S) /\ Len(a) = i - 1 /\ DOMAIN a = 1 .. i - 1
        /\ b \in Seq(S) /\ Len(b) = Len(s) - i /\ DOMAIN b = 1 .. Len(s) - i
    BY <1>1, <1>2, <1>4 DEF a, b
  <1>6. /\ a \o b \in Seq(S) /\ Len(a \o b) = Len(s) - 1
        /\ DOMAIN (a \o b) = 1 .. Len(s) - 1
    BY <1>4, <1>5, Concatenated
  <1>7. ASSUME NEW k \in 1 .. Len(s) - 1
        PROVE  (a \o b)[k] = IF k < i THEN s[k] ELSE s[k + 1]
    <2>1. CASE k < i
      <3>1. k \in DOMAIN a
        BY <1>4, <1>5, <2>1
      <3>2. (a \o b)[k] = a[k]
        BY <1>5, <3>1, Concatenated
      <3>3. a[k] = s[k]
        BY <1>1, <1>5, <3>1 DEF a
      <3> QED BY <2>1, <3>2, <3>3
    <2>2. CASE ~(k < i)
      <3>1. /\ k - (i - 1) \in 1 .. Len(s) - i /\ i + (k - (i - 1)) = k + 1
            /\ (i - 1) + (k - (i - 1)) = k
        BY <1>4, <2>2
      <3>2. (a \o b)[Len(a) + (k - (i - 1))] = b[k - (i - 1)]
        <4>1. \A l \in DOMAIN b : (a \o b)[Len(a) + l] = b[l]
          BY <1>5, Concatenated
        <4> QED BY <1>5, <3>1, <4>1
      <3>3. b[k - (i - 1)] = s[i + (k - (i - 1))]
        BY <1>2, <1>5, <3>1 DEF b
      <3> QED BY <1>5, <2>2, <3>1, <3>2, <3>3
    <2> QED BY <2>1, <2>2
  <1> QED BY <1>3, <1>6, <1>7

\* The elements of a sequence other than the i-th are there after it went.
LEMMA Remaining ==
  ASSUME NEW S, NEW s \in Seq(S), NEW i \in DOMAIN s
  PROVE  /\ \A k \in DOMAIN RemoveAt(s, i) : \E j \in DOMAIN s \ {i} :
              RemoveAt(s, i)[k] = s[j] /\ j >= k /\ j <= k + 1
         /\ \A j \in DOMAIN s \ {i} : \E k \in DOMAIN RemoveAt(s, i) :
              RemoveAt(s, i)[k] = s[j]
         /\ \A k, l \in DOMAIN RemoveAt(s, i) : k < l =>
              \E j, m \in DOMAIN s \ {i} :
                j < m /\ RemoveAt(s, i)[k] = s[j] /\ RemoveAt(s, i)[l] = s[m]
         /\ \A j, m \in DOMAIN s \ {i} : j < m =>
              \E k, l \in DOMAIN RemoveAt(s, i) :
                k < l /\ RemoveAt(s, i)[k] = s[j] /\ RemoveAt(s, i)[l] = s[m]
  <1> DEFINE r == RemoveAt(s, i)
             at(k) == IF k < i THEN k ELSE k + 1
  <1>1. DOMAIN r = 1 .. Len(s) - 1 /\ \A k \in DOMAIN r : r[k] = s[at(k)]
    BY Removed
  <1>2. i \in 1 .. Len(s) /\ DOMAIN s = 1 .. Len(s) /\ Len(s) \in Nat
    OBVIOUS
  <1>3. \A k \in DOMAIN r : at(k) \in DOMAIN s \ {i} /\ at(k) >= k /\ at(k) <= k + 1
    BY <1>1, <1>2
  <1>4. \A k, l \in DOMAIN r : k < l => at(k) < at(l)
    BY <1>1, <1>2
  <1> DEFINE was(j) == IF j < i THEN j ELSE j - 1
  <1>5. \A j \in DOMAIN s \ {i} : was(j) \in DOMAIN r /\ at(was(j)) = j
    BY <1>1, <1>2
  <1>8. \A j, m \in DOMAIN s \ {i} : j < m => was(j) < was(m)
    BY <1>1, <1>2
  <1> HIDE DEF at, r, was
  <1>6. \A k \in DOMAIN r : \E j \in DOMAIN s \ {i} : r[k] = s[j] /\ j >= k /\ j <= k + 1
    BY <1>1, <1>3
  <1>7. \A k, l \in DOMAIN r : k < l =>
          \E j, m \in DOMAIN s \ {i} : j < m /\ r[k] = s[j] /\ r[l] = s[m]
    BY <1>1, <1>3, <1>4
  <1>9. \A j \in DOMAIN s \ {i} : \E k \in DOMAIN r : r[k] = s[j]
    BY <1>1, <1>5
  <1>10. \A j, m \in DOMAIN s \ {i} : j < m =>
           \E k, l \in DOMAIN r : k < l /\ r[k] = s[j] /\ r[l] = s[m]
    BY <1>1, <1>5, <1>8
  <1> QED BY <1>6, <1>7, <1>9, <1>10 DEF r

\* The sequences Without goes through, of the first k elements.
Leaves(f, s, out, k) ==
  f = [n \in 0 .. k |->
        IF n = 0 THEN <<>>
        ELSE IF n \in out THEN f[n - 1]
        ELSE Append(f[n - 1], s[n])]

\* They exist: the loop ends.
LEMMA LeavesExists ==
  ASSUME NEW s, NEW out, NEW k \in Nat
  PROVE  \E f : Leaves(f, s, out, k)
  <1> DEFINE T == {n \in Nat : ~\E f : Leaves(f, s, out, n)}
  <1> SUFFICES ASSUME T # {} PROVE FALSE
    OBVIOUS
  <1>1. PICK m \in T : \A n \in T : m <= n
    BY Least
  <1>2. m # 0
    <2>1. Leaves([n \in 0 .. 0 |-> <<>>], s, out, 0)
      BY DEF Leaves
    <2> QED BY <2>1
  <1>3. PICK f : Leaves(f, s, out, m - 1)
    <2>1. m - 1 \in Nat /\ m - 1 \notin T
      BY <1>1, <1>2
    <2> QED BY <2>1
  <1> DEFINE last == IF m \in out THEN f[m - 1] ELSE Append(f[m - 1], s[m])
             g == [n \in 0 .. m |-> IF n = m THEN last ELSE f[n]]
             after(h, n) == IF n = 0 THEN <<>>
                            ELSE IF n \in out THEN h[n - 1]
                            ELSE Append(h[n - 1], s[n])
  <1>4. \A n \in 0 .. m - 1 : f[n] = after(f, n)
    BY <1>3 DEF Leaves
  <1>5. g[m] = last /\ \A n \in 0 .. m - 1 : g[n] = f[n]
    BY <1>1
  <1>6. ASSUME NEW n \in 0 .. m
        PROVE  g[n] = after(g, n)
    <2>1. CASE n = m
      <3>1. m - 1 \in 0 .. m - 1
        BY <1>1, <1>2
      <3> QED BY <1>2, <1>5, <2>1, <3>1
    <2>2. CASE n # m
      <3>1. n \in 0 .. m - 1 /\ (n # 0 => n - 1 \in 0 .. m - 1)
        BY <1>1, <2>2
      <3> HIDE DEF g
      <3> QED BY <1>4, <1>5, <3>1
    <2> QED BY <2>1, <2>2
  <1>7. g = [n \in 0 .. m |-> g[n]]
    OBVIOUS
  <1>8. Leaves(g, s, out, m)
    <2> HIDE DEF g
    <2> QED BY <1>6, <1>7 DEF Leaves
  <1> QED BY <1>1, <1>8

\* Without leaves out the elements with the numbers given, and no others.
LEMMA WithoutKeeps ==
  ASSUME NEW S, NEW s \in Seq(S), NEW out
  PROVE  /\ Without(s, out) \in Seq(S)
         /\ Range(Without(s, out)) = {s[i] : i \in DOMAIN s \ out}
         /\ IsInjective(s) => IsInjective(Without(s, out))
  <1>1. Len(s) \in Nat /\ DOMAIN s = 1 .. Len(s) /\ \A i \in DOMAIN s : s[i] \in S
    BY LenProperties
  <1>2. PICK f : Leaves(f, s, out, Len(s)) /\ Without(s, out) = f[Len(s)]
    <2> DEFINE kept[n \in 0 .. Len(s)] ==
                 IF n = 0 THEN <<>>
                 ELSE IF n \in out THEN kept[n - 1]
                 ELSE Append(kept[n - 1], s[n])
    <2>1. Without(s, out) = kept[Len(s)]
      BY DEF Without
    <2>2. \E f : Leaves(f, s, out, Len(s))
      BY <1>1, LeavesExists
    <2>3. Leaves(kept, s, out, Len(s))
      BY <2>2 DEF Leaves
    <2> QED BY <2>1, <2>3
  <1> DEFINE Good(n) == /\ f[n] \in Seq(S)
                        /\ Range(f[n]) = {s[i] : i \in (1 .. n) \ out}
                        /\ IsInjective(s) => IsInjective(f[n])
  <1>3. \A n \in 0 .. Len(s) : Good(n)
    <2> DEFINE T == {n \in 0 .. Len(s) : ~Good(n)}
    <2> SUFFICES ASSUME T # {} PROVE FALSE
      OBVIOUS
    <2>1. PICK m \in T : \A n \in T : m <= n
      <3>1. T \in SUBSET Nat
        OBVIOUS
      <3> HIDE DEF T
      <3> QED BY <3>1, Least
    <2>2. CASE m = 0
      <3>1. f[0] = <<>>
        BY <1>1, <1>2 DEF Leaves
      <3>2. Good(0)
        BY <3>1 DEF Range, IsInjective
      <3> QED BY <2>2, <3>2
    <2>3. CASE m # 0
      <3>1. m \in 1 .. Len(s) /\ m - 1 \in 0 .. Len(s) /\ Good(m - 1)
        <4> HIDE DEF Good
        <4> QED BY <1>1, <2>1, <2>3
      <3>2. f[m] = IF m \in out THEN f[m - 1] ELSE Append(f[m - 1], s[m])
        BY <1>2, <2>3, <3>1 DEF Leaves
      <3> DEFINE t == f[m - 1]
      <3>3. /\ t \in Seq(S) /\ Range(t) = {s[i] : i \in (1 .. m - 1) \ out}
            /\ IsInjective(s) => IsInjective(t)
        BY <3>1
      <3>4. 1 .. m = (1 .. m - 1) \cup {m}
        BY <3>1
      <3>5. CASE m \in out
        BY <3>2, <3>3, <3>4, <3>5
      <3>6. CASE m \notin out
        <4>1. Len(t) \in Nat /\ DOMAIN t = 1 .. Len(t)
          BY <3>3, LenProperties
        <4>2. /\ f[m] \in Seq(S) /\ DOMAIN f[m] = DOMAIN t \cup {Len(t) + 1}
              /\ f[m][Len(t) + 1] = s[m] /\ \A i \in DOMAIN t : f[m][i] = t[i]
          BY <1>1, <3>1, <3>2, <3>3, <3>6, <4>1
        <4>3. Range(f[m]) = Range(t) \cup {s[m]}
          BY <4>2 DEF Range
        <4>4. IsInjective(s) => s[m] \notin Range(t)
          BY <1>1, <3>1, <3>3 DEF IsInjective
        <4>5. IsInjective(s) => IsInjective(f[m])
          <5> SUFFICES ASSUME IsInjective(s), NEW i \in DOMAIN f[m], NEW j \in DOMAIN f[m],
                              f[m][i] = f[m][j]
                       PROVE  i = j
            BY DEF IsInjective
          <5>1. ASSUME NEW l \in DOMAIN t
                PROVE  f[m][l] = t[l] /\ t[l] # s[m]
            BY <4>2, <4>4 DEF Range
          <5>2. CASE i \in DOMAIN t /\ j \in DOMAIN t
            BY <3>3, <5>1, <5>2 DEF IsInjective
          <5>3. CASE ~(i \in DOMAIN t /\ j \in DOMAIN t)
            BY <4>1, <4>2, <5>1, <5>3
          <5> QED BY <5>2, <5>3
        <4>6. Range(f[m]) = {s[i] : i \in (1 .. m) \ out}
          BY <3>3, <3>4, <3>6, <4>3
        <4> QED BY <4>2, <4>5, <4>6
      <3> QED BY <3>5, <3>6
    <2> QED BY <2>2, <2>3
  <1>4. Good(Len(s))
    <2> HIDE DEF Good
    <2> QED BY <1>1, <1>3
  <1> QED BY <1>1, <1>2, <1>4

-----------------------------------------------------------------------------
(* Futures that are spawned.                                               *)

\* The constants.
LEMMA ConstantsAre ==
  /\ NULL \notin Conns /\ "" \notin Dbs /\ Closed \notin Dbs /\ Dbs # {}
  /\ Start \in Seq(Conns) /\ IsInjective(Start) /\ Configured \in [Conns -> Dbs \cup {""}]
  /\ MaxEvents \in Nat /\ MaxPage \in Nat
  BY GtkAssumption

\* One more is a number.
LEMMA OneMore == \A k \in Nat : k + 1 \in Nat
  OBVIOUS

\* A future as it is spawned, before anything else is said of it.
LEMMA NewTask ==
  ASSUME NEW kind \in Kinds
  PROVE  /\ Task(kind) \in TaskSet
         /\ Task(kind).kind = kind /\ Task(kind).pc = "start" /\ Task(kind).driver = 0
         /\ Task(kind).conn = NULL /\ Task(kind).db = "" /\ Task(kind).parts = <<>>
         /\ Task(kind).tab = 0
  <1>1. 0 \in 0 .. MaxPage /\ "start" \in Pcs /\ <<>> \in PartSet
    <2>1. MaxPage \in Nat
      BY ConstantsAre
    <2>2. 0 \in 0 .. MaxPage
      BY <2>1
    <2> QED BY <2>2 DEF Pcs, PartSet
  <1>2. NULL \in Conns \cup {NULL} /\ NULL \in Spot \cup {NULL} /\ "" \in Dbs \cup {""}
    OBVIOUS
  <1>3. Task(kind) \in TaskSet
    BY <1>1, <1>2 DEF Task, TaskSet
  <1> QED BY <1>3 DEF Task

\* What is known of every list of futures that is spawned.
Spawns(new, kind) ==
  /\ new \in Seq(TaskSet)
  /\ \A k \in DOMAIN new :
       /\ new[k].kind = kind /\ new[k].pc = "start" /\ new[k].driver = 0
       /\ new[k].parts = <<>>

\* A list of no futures.
LEMMA SpawnsNone ==
  ASSUME NEW kind
  PROVE  Spawns(<<>>, kind) /\ DOMAIN <<>> = {}
  BY DEF Spawns

\* A list of one.
LEMMA SpawnsOne ==
  ASSUME NEW t \in TaskSet, t.pc = "start", t.driver = 0, t.parts = <<>>
  PROVE  /\ Spawns(<<t>>, t.kind)
         /\ DOMAIN <<t>> = {1} /\ <<t>>[1] = t
  BY DEF Spawns

\* The list of a schema is that of the active connection, if it is saved.
LEMMA SchemaSpawned ==
  ASSUME NEW a \in AppSet, NEW list
  PROVE  /\ Spawns(SchemaTask(a, list), "schema")
         /\ \A k \in DOMAIN SchemaTask(a, list) :
              SchemaTask(a, list)[k].conn = a.id /\ a.id \in Range(list)
  <1> DEFINE t == [Task("schema") EXCEPT !.conn = a.id]
  <1>1. CASE a.id \in Range(list)
    <2>1. /\ t \in TaskSet /\ t.kind = "schema" /\ t.pc = "start" /\ t.driver = 0
          /\ t.parts = <<>> /\ t.conn = a.id
      <3>1. Task("schema") \in TaskSet /\ a.id \in Conns \cup {NULL}
        BY NewTask DEF AppSet, Kinds
      <3>2. t \in TaskSet
        BY <3>1 DEF TaskSet
      <3> QED BY <3>2 DEF Task
    <2>2. SchemaTask(a, list) = <<t>>
      BY <1>1 DEF SchemaTask
    <2> HIDE DEF t
    <2> QED BY <1>1, <2>1, <2>2, SpawnsOne
  <1>2. CASE a.id \notin Range(list)
    BY <1>2, SpawnsNone DEF SchemaTask
  <1> QED BY <1>1, <1>2

\* The list of databases is one future.
LEMMA DatabasesSpawned ==
  ASSUME NEW a \in AppSet
  PROVE  Spawns(DatabasesTask(a), "databases")
  <1> DEFINE t == [Task("databases") EXCEPT !.db = a.db]
  <1>1. /\ t \in TaskSet /\ t.kind = "databases" /\ t.pc = "start" /\ t.driver = 0
        /\ t.parts = <<>>
    <2>1. Task("databases") \in TaskSet /\ a.db \in Dbs \cup {""}
      BY NewTask DEF AppSet, Kinds
    <2>2. t \in TaskSet
      BY <2>1 DEF TaskSet
    <2> QED BY <2>2 DEF Task
  <1>2. DatabasesTask(a) = <<t>>
    BY DEF DatabasesTask
  <1> HIDE DEF t
  <1> QED BY <1>1, <1>2, SpawnsOne

\* A load is one future, if there is a session.
LEMMA LoadSpawned ==
  ASSUME NEW n \in Nat, NEW u \in TabSet
  PROVE  /\ Spawns(LoadTask(n, u), "load")
         /\ app.id = NULL => LoadTask(n, u) = <<>>
         /\ app.id # NULL => DOMAIN LoadTask(n, u) = {1}
         /\ \A k \in DOMAIN LoadTask(n, u) :
              LoadTask(n, u)[k].tab = n /\ LoadTask(n, u)[k].nr = u.nr + 1
  <1> DEFINE t == [Task("load") EXCEPT !.tab = n, !.conn = u.conn, !.db = u.db, !.nr = u.nr + 1]
  <1>1. CASE app.id # NULL
    <2>1. u.conn \in Conns \cup {NULL} /\ u.db \in Dbs \cup {""} /\ u.nr \in Nat
      BY DEF TabSet
    <2>2. /\ t \in TaskSet /\ t.kind = "load" /\ t.pc = "start" /\ t.driver = 0
          /\ t.parts = <<>> /\ t.tab = n /\ t.nr = u.nr + 1
      <3>1. Task("load") \in TaskSet
        BY NewTask DEF Kinds
      <3>2. u.nr + 1 \in Nat
        BY <2>1, OneMore
      <3>3. t \in TaskSet
        BY <2>1, <3>1, <3>2 DEF TaskSet
      <3> QED BY <3>3 DEF Task
    <2>3. LoadTask(n, u) = <<t>>
      BY <1>1 DEF LoadTask
    <2> HIDE DEF t
    <2> QED BY <1>1, <2>2, <2>3, SpawnsOne
  <1>2. CASE app.id = NULL
    BY <1>2, SpawnsNone DEF LoadTask
  <1> QED BY <1>1, <1>2

-----------------------------------------------------------------------------
(* How the futures change.                                                 *)

\* Where the futures were before: those that are spawned come last.
Comes(f, i, C) ==
  /\ f \in [DOMAIN tasks' -> Nat]
  /\ \A j, l \in DOMAIN tasks' : j < l => f[j] < f[l]
  /\ \A j \in DOMAIN tasks' :
       \/ f[j] \in DOMAIN tasks \ {i} /\ tasks'[j] = tasks[f[j]]
       \/ f[j] = i /\ i \in DOMAIN tasks /\ tasks'[j] \in C /\ tasks'[j].pc # "start"
       \/ f[j] > Len(tasks) /\ tasks'[j] \in C /\ tasks'[j].pc = "start"
  /\ \A k \in DOMAIN tasks \ {i} : \E j \in DOMAIN tasks' : f[j] = k

\* The future i is replaced by those of C; the others stay.
Turns(i, C) ==
  /\ tasks' \in Seq(TaskSet)
  /\ \A j \in DOMAIN tasks' :
       tasks'[j] \in C \/ \E k \in DOMAIN tasks \ {i} : tasks'[j] = tasks[k]
  /\ \A c \in C : \E j \in DOMAIN tasks' : tasks'[j] = c
  /\ \A k \in DOMAIN tasks \ {i}, c \in C :
       \E j, l \in DOMAIN tasks' : j # l /\ tasks'[j] = tasks[k] /\ tasks'[l] = c
  /\ \A k, m \in DOMAIN tasks \ {i} : k # m =>
       \E j, l \in DOMAIN tasks' : j # l /\ tasks'[j] = tasks[k] /\ tasks'[l] = tasks[m]
  /\ \A k \in DOMAIN tasks \ {i} : \E j \in DOMAIN tasks' : tasks'[j] = tasks[k]
  /\ \E f : Comes(f, i, C)

\* Futures are spawned after those there are.
LEMMA Added ==
  ASSUME tasks \in Seq(TaskSet), Fifo, NEW new \in Seq(TaskSet), tasks' = tasks \o new,
         \A k \in DOMAIN new : new[k].pc = "start"
  PROVE  Turns(0, Range(new)) /\ Fifo'
  <1> DEFINE s == tasks
             r == tasks'
  <1>1. /\ r \in Seq(TaskSet)
        /\ \A k \in DOMAIN s : k \in DOMAIN r /\ r[k] = s[k] /\ k <= Len(s)
        /\ \A k \in DOMAIN new : Len(s) + k \in DOMAIN r /\ r[Len(s) + k] = new[k]
        /\ \A j \in DOMAIN r : \/ j \in DOMAIN s /\ r[j] = s[j]
                               \/ j > Len(s) /\ j - Len(s) \in DOMAIN new
                                    /\ r[j] = new[j - Len(s)]
    BY Concatenated
  <1>2. Len(s) \in Nat /\ DOMAIN s = 1 .. Len(s) /\ DOMAIN new = 1 .. Len(new)
        /\ Len(new) \in Nat /\ DOMAIN r \subseteq Nat
    BY <1>1
  <1> HIDE DEF r
  <1>3. \A k \in DOMAIN s \ {0}, c \in Range(new) :
          \E j, l \in DOMAIN r : j # l /\ r[j] = s[k] /\ r[l] = c
    <2> SUFFICES ASSUME NEW k \in DOMAIN s, NEW m \in DOMAIN new
                 PROVE  \E j, l \in DOMAIN r : j # l /\ r[j] = s[k] /\ r[l] = new[m]
      <3> HIDE DEF s
      <3> QED BY DEF Range
    <2>1. k # Len(s) + m
      BY <1>2
    <2> QED BY <1>1, <2>1
  <1>4. \A c \in Range(new) : \E j \in DOMAIN r : r[j] = c
    <2>1. \A k \in DOMAIN new : \E j \in DOMAIN r : r[j] = new[k]
      BY <1>1
    <2> QED BY <2>1 DEF Range
  <1>5. \A j \in DOMAIN r : r[j] \in Range(new) \/ \E k \in DOMAIN s \ {0} : r[j] = s[k]
    BY <1>1, <1>2 DEF Range
  <1>6. \A k, m \in DOMAIN s : k # m =>
          \E j, l \in DOMAIN r : j # l /\ r[j] = s[k] /\ r[l] = s[m]
    BY <1>1
  <1>7. \A k \in DOMAIN s : \E j \in DOMAIN r : r[j] = s[k]
    BY <1>1
  <1>71. \E f : Comes(f, 0, Range(new))
    <2> DEFINE f == [j \in DOMAIN r |-> j]
    <2>1. f \in [DOMAIN r -> Nat] /\ \A j, l \in DOMAIN r : j < l => f[j] < f[l]
      BY <1>2
    <2>2. ASSUME NEW j \in DOMAIN r
          PROVE  \/ f[j] \in DOMAIN s \ {0} /\ r[j] = s[f[j]]
                 \/ f[j] > Len(s) /\ r[j] \in Range(new) /\ r[j].pc = "start"
      <3>1. f[j] = j
        OBVIOUS
      <3>2. CASE j \in DOMAIN s
        BY <1>1, <1>2, <3>1, <3>2
      <3>3. CASE j > Len(s) /\ j - Len(s) \in DOMAIN new /\ r[j] = new[j - Len(s)]
        BY <3>1, <3>3 DEF Range
      <3> QED BY <1>1, <3>2, <3>3
    <2>3. \A k \in DOMAIN s \ {0} : \E j \in DOMAIN r : f[j] = k
      BY <1>1
    <2> HIDE DEF f
    <2>6. Comes(f, 0, Range(new))
      BY <2>1, <2>2, <2>3 DEF Comes, r
    <2> QED BY <2>6
  <1>8. Turns(0, Range(new))
    BY <1>1, <1>3, <1>4, <1>5, <1>6, <1>7, <1>71 DEF Turns, r
  <1>9. Fifo'
    <2> SUFFICES ASSUME NEW j \in DOMAIN r, NEW l \in DOMAIN r, j < l, r[j].pc = "start"
                 PROVE  r[l].pc = "start"
      BY DEF Fifo, r
    <2>1. CASE l \in DOMAIN s
      <3>1. j \in DOMAIN s
        BY <1>1, <1>2, <2>1
      <3> QED BY <1>1, <2>1, <3>1 DEF Fifo
    <2>2. CASE l \notin DOMAIN s
      BY <1>1, <2>2
    <2> QED BY <2>1, <2>2
  <1> QED BY <1>8, <1>9

\* One future goes on, and may spawn others.
LEMMA Moved ==
  ASSUME tasks \in Seq(TaskSet), Fifo, NEW i \in DOMAIN tasks, NEW t \in TaskSet,
         NEW new \in Seq(TaskSet), tasks' = [tasks EXCEPT ![i] = t] \o new,
         t.pc # "start", \A j \in DOMAIN tasks : j < i => tasks[j].pc # "start",
         \A k \in DOMAIN new : new[k].pc = "start"
  PROVE  Turns(i, {t} \cup Range(new)) /\ Fifo'
  <1> DEFINE s == [tasks EXCEPT ![i] = t]
             r == tasks'
  <1>1. /\ s \in Seq(TaskSet) /\ Len(s) = Len(tasks) /\ DOMAIN s = DOMAIN tasks
        /\ s[i] = t /\ \A k \in DOMAIN tasks \ {i} : s[k] = tasks[k]
    OBVIOUS
  <1> HIDE DEF s
  <1>2. /\ r \in Seq(TaskSet)
        /\ \A k \in DOMAIN s : k \in DOMAIN r /\ r[k] = s[k]
        /\ \A k \in DOMAIN new : Len(s) + k \in DOMAIN r /\ r[Len(s) + k] = new[k]
        /\ \A j \in DOMAIN r : \/ j \in DOMAIN s /\ r[j] = s[j]
                               \/ j > Len(s) /\ j - Len(s) \in DOMAIN new
                                    /\ r[j] = new[j - Len(s)]
    <2>1. r = s \o new
      BY DEF s
    <2> QED BY <1>1, <2>1, Concatenated
  <1>3. Len(s) \in Nat /\ DOMAIN s = 1 .. Len(s) /\ DOMAIN new = 1 .. Len(new)
        /\ Len(new) \in Nat /\ DOMAIN r \subseteq Nat
    BY <1>1, <1>2
  <1> HIDE DEF r
  <1>4. \A k \in DOMAIN s, m \in DOMAIN new :
          \E j, l \in DOMAIN r : j # l /\ r[j] = s[k] /\ r[l] = new[m]
    <2> SUFFICES ASSUME NEW k \in DOMAIN s, NEW m \in DOMAIN new
                 PROVE  \E j, l \in DOMAIN r : j # l /\ r[j] = s[k] /\ r[l] = new[m]
      OBVIOUS
    <2>1. k # Len(s) + m
      BY <1>3
    <2> QED BY <1>2, <2>1
  <1>5. \A c \in {t} \cup Range(new) : \E j \in DOMAIN r : r[j] = c
    BY <1>1, <1>2 DEF Range
  <1>6. \A j \in DOMAIN r :
          r[j] \in {t} \cup Range(new) \/ \E k \in DOMAIN tasks \ {i} : r[j] = tasks[k]
    BY <1>1, <1>2 DEF Range
  <1>7. \A k, m \in DOMAIN s : k # m =>
          \E j, l \in DOMAIN r : j # l /\ r[j] = s[k] /\ r[l] = s[m]
    BY <1>2
  <1>8. \A k \in DOMAIN tasks \ {i}, c \in {t} \cup Range(new) :
          \E j, l \in DOMAIN r : j # l /\ r[j] = tasks[k] /\ r[l] = c
    <2> SUFFICES ASSUME NEW k \in DOMAIN tasks \ {i}, NEW c \in {t} \cup Range(new)
                 PROVE  \E j, l \in DOMAIN r : j # l /\ r[j] = tasks[k] /\ r[l] = c
      OBVIOUS
    <2>1. k \in DOMAIN s /\ s[k] = tasks[k] /\ i \in DOMAIN s /\ s[i] = t /\ k # i
      BY <1>1
    <2>2. CASE c = t
      BY <1>7, <2>1, <2>2
    <2>3. CASE c \in Range(new)
      BY <1>4, <2>1, <2>3 DEF Range
    <2> QED BY <2>2, <2>3
  <1>9. \A k, m \in DOMAIN tasks \ {i} : k # m =>
          \E j, l \in DOMAIN r : j # l /\ r[j] = tasks[k] /\ r[l] = tasks[m]
    BY <1>1, <1>7
  <1>10. \A k \in DOMAIN tasks \ {i} : \E j \in DOMAIN r : r[j] = tasks[k]
    BY <1>1, <1>2
  <1>101. \E f : Comes(f, i, {t} \cup Range(new))
    <2> DEFINE f == [j \in DOMAIN r |-> j]
    <2>1. f \in [DOMAIN r -> Nat] /\ \A j, l \in DOMAIN r : j < l => f[j] < f[l]
      BY <1>3
    <2>2. ASSUME NEW j \in DOMAIN r
          PROVE  \/ f[j] \in DOMAIN tasks \ {i} /\ r[j] = tasks[f[j]]
                 \/ f[j] = i /\ r[j] \in {t} \cup Range(new) /\ r[j].pc # "start"
                 \/ f[j] > Len(tasks) /\ r[j] \in {t} \cup Range(new) /\ r[j].pc = "start"
      <3>1. f[j] = j
        OBVIOUS
      <3>2. CASE j \in DOMAIN s /\ j # i
        BY <1>1, <1>2, <3>1, <3>2
      <3>3. CASE j \in DOMAIN s /\ j = i
        BY <1>1, <1>2, <3>1, <3>3
      <3>4. CASE j > Len(s) /\ j - Len(s) \in DOMAIN new /\ r[j] = new[j - Len(s)]
        BY <1>1, <3>1, <3>4 DEF Range
      <3> QED BY <1>2, <3>2, <3>3, <3>4
    <2>3. \A k \in DOMAIN tasks \ {i} : \E j \in DOMAIN r : f[j] = k
      BY <1>1, <1>2
    <2> HIDE DEF f
    <2>6. Comes(f, i, {t} \cup Range(new))
      BY <2>1, <2>2, <2>3 DEF Comes, r
    <2> QED BY <2>6
  <1>11. Turns(i, {t} \cup Range(new))
    BY <1>2, <1>5, <1>6, <1>8, <1>9, <1>10, <1>101 DEF Turns, r
  <1>12. Fifo'
    <2> SUFFICES ASSUME NEW j \in DOMAIN r, NEW l \in DOMAIN r, j < l, r[j].pc = "start"
                 PROVE  r[l].pc = "start"
      BY DEF Fifo, r
    <2>1. CASE l \in DOMAIN s
      <3>1. j \in DOMAIN s /\ r[j] = s[j] /\ r[l] = s[l]
        BY <1>2, <1>3, <2>1
      <3>2. j # i /\ s[j] = tasks[j] /\ tasks[j].pc = "start"
        BY <1>1, <3>1
      <3>3. ~(j < i)
        BY <1>1, <3>1, <3>2
      <3>4. l # i
        BY <1>1, <1>3, <3>2, <3>3
      <3> QED BY <1>1, <2>1, <3>1, <3>2, <3>4 DEF Fifo
    <2>2. CASE l \notin DOMAIN s
      BY <1>2, <2>2
    <2> QED BY <2>1, <2>2
  <1> QED BY <1>11, <1>12

\* One future ends, and may spawn others.
LEMMA Ended ==
  ASSUME tasks \in Seq(TaskSet), Fifo, NEW i \in DOMAIN tasks, NEW new \in Seq(TaskSet),
         Ends(i, new), \A k \in DOMAIN new : new[k].pc = "start"
  PROVE  Turns(i, Range(new)) /\ Fifo'
  <1> DEFINE s == RemoveAt(tasks, i)
             r == tasks'
  <1>1. /\ s \in Seq(TaskSet)
        /\ \A k \in DOMAIN s : \E j \in DOMAIN tasks \ {i} : s[k] = tasks[j]
        /\ \A j \in DOMAIN tasks \ {i} : \E k \in DOMAIN s : s[k] = tasks[j]
        /\ \A k, l \in DOMAIN s : k < l =>
             \E j, m \in DOMAIN tasks \ {i} : j < m /\ s[k] = tasks[j] /\ s[l] = tasks[m]
        /\ \A j, m \in DOMAIN tasks \ {i} : j < m =>
             \E k, l \in DOMAIN s : k < l /\ s[k] = tasks[j] /\ s[l] = tasks[m]
    <2>1. s \in Seq(TaskSet)
      BY Removed
    <2>2. \A k \in DOMAIN s : \E j \in DOMAIN tasks \ {i} : s[k] = tasks[j] /\ j >= k /\ j <= k + 1
      BY Remaining
    <2>3. \A j \in DOMAIN tasks \ {i} : \E k \in DOMAIN s : s[k] = tasks[j]
      BY Remaining
    <2>4. \A k, l \in DOMAIN s : k < l =>
             \E j, m \in DOMAIN tasks \ {i} : j < m /\ s[k] = tasks[j] /\ s[l] = tasks[m]
      BY Remaining
    <2>5. \A j, m \in DOMAIN tasks \ {i} : j < m =>
             \E k, l \in DOMAIN s : k < l /\ s[k] = tasks[j] /\ s[l] = tasks[m]
      BY Remaining
    <2> HIDE DEF s
    <2> QED BY <2>1, <2>2, <2>3, <2>4, <2>5
  <1> HIDE DEF s
  <1>2. /\ r \in Seq(TaskSet)
        /\ \A k \in DOMAIN s : k \in DOMAIN r /\ r[k] = s[k]
        /\ \A k \in DOMAIN new : Len(s) + k \in DOMAIN r /\ r[Len(s) + k] = new[k]
        /\ \A j \in DOMAIN r : \/ j \in DOMAIN s /\ r[j] = s[j]
                               \/ j > Len(s) /\ j - Len(s) \in DOMAIN new
                                    /\ r[j] = new[j - Len(s)]
    <2>1. r = s \o new
      BY DEF s, Ends
    <2>2. s \in Seq(TaskSet)
      BY <1>1
    <2> QED BY <2>1, <2>2, Concatenated
  <1>3. Len(s) \in Nat /\ DOMAIN s = 1 .. Len(s) /\ DOMAIN new = 1 .. Len(new)
        /\ Len(new) \in Nat /\ DOMAIN r \subseteq Nat /\ DOMAIN tasks \subseteq Nat
    BY <1>1, <1>2
  <1> HIDE DEF r
  <1>4. \A k \in DOMAIN s, m \in DOMAIN new :
          \E j, l \in DOMAIN r : j # l /\ r[j] = s[k] /\ r[l] = new[m]
    <2> SUFFICES ASSUME NEW k \in DOMAIN s, NEW m \in DOMAIN new
                 PROVE  \E j, l \in DOMAIN r : j # l /\ r[j] = s[k] /\ r[l] = new[m]
      OBVIOUS
    <2>1. k # Len(s) + m
      BY <1>3
    <2> QED BY <1>2, <2>1
  <1>5. \A c \in Range(new) : \E j \in DOMAIN r : r[j] = c
    BY <1>2 DEF Range
  <1>6. \A j \in DOMAIN r :
          r[j] \in Range(new) \/ \E k \in DOMAIN tasks \ {i} : r[j] = tasks[k]
    BY <1>1, <1>2 DEF Range
  <1>7. \A k, m \in DOMAIN tasks \ {i} : k # m =>
          \E j, l \in DOMAIN r : j # l /\ r[j] = tasks[k] /\ r[l] = tasks[m]
    <2>1. \A k, m \in DOMAIN tasks \ {i} : k < m =>
            \E j, l \in DOMAIN r : j # l /\ r[j] = tasks[k] /\ r[l] = tasks[m]
      <3> SUFFICES ASSUME NEW k \in DOMAIN tasks \ {i}, NEW m \in DOMAIN tasks \ {i}, k < m
                   PROVE  \E j, l \in DOMAIN r : j # l /\ r[j] = tasks[k] /\ r[l] = tasks[m]
        OBVIOUS
      <3>1. PICK j \in DOMAIN s, l \in DOMAIN s : j < l /\ s[j] = tasks[k] /\ s[l] = tasks[m]
        BY <1>1
      <3>2. j # l
        BY <1>3, <3>1
      <3> QED BY <1>2, <3>1, <3>2
    <2>2. \A k, m \in DOMAIN tasks : k # m => k < m \/ m < k
      BY <1>3
    <2> QED BY <2>1, <2>2
  <1>8. \A k \in DOMAIN tasks \ {i}, c \in Range(new) :
          \E j, l \in DOMAIN r : j # l /\ r[j] = tasks[k] /\ r[l] = c
    <2> SUFFICES ASSUME NEW k \in DOMAIN tasks \ {i}, NEW m \in DOMAIN new
                 PROVE  \E j, l \in DOMAIN r : j # l /\ r[j] = tasks[k] /\ r[l] = new[m]
      BY DEF Range
    <2>1. PICK h \in DOMAIN s : s[h] = tasks[k]
      BY <1>1
    <2> QED BY <1>4, <2>1
  <1>9. \A k \in DOMAIN tasks \ {i} : \E j \in DOMAIN r : r[j] = tasks[k]
    BY <1>1, <1>2
  <1>91. \E f : Comes(f, i, Range(new))
    <2> DEFINE f == [j \in DOMAIN r |-> IF j < i THEN j ELSE j + 1]
    <2>1. i \in Nat /\ Len(tasks) \in Nat /\ DOMAIN tasks = 1 .. Len(tasks)
          /\ Len(s) = Len(tasks) - 1
      BY Removed DEF s
    <2>2. f \in [DOMAIN r -> Nat] /\ \A j, l \in DOMAIN r : j < l => f[j] < f[l]
      BY <1>3, <2>1
    <2>3. \A j \in DOMAIN s : s[j] = IF j < i THEN tasks[j] ELSE tasks[j + 1]
      BY Removed DEF s
    <2>4. ASSUME NEW j \in DOMAIN r
          PROVE  \/ f[j] \in DOMAIN tasks \ {i} /\ r[j] = tasks[f[j]]
                 \/ f[j] > Len(tasks) /\ r[j] \in Range(new) /\ r[j].pc = "start"
      <3>1. f[j] = (IF j < i THEN j ELSE j + 1) /\ j \in Nat
        BY <1>3
      <3>2. CASE j \in DOMAIN s
        <4>1. f[j] \in DOMAIN tasks \ {i}
          BY <1>3, <2>1, <3>1, <3>2
        <4>2. r[j] = tasks[f[j]]
          BY <1>2, <2>3, <3>1, <3>2
        <4> QED BY <4>1, <4>2
      <3>3. CASE j > Len(s) /\ j - Len(s) \in DOMAIN new /\ r[j] = new[j - Len(s)]
        <4>1. f[j] > Len(tasks)
          BY <1>3, <2>1, <3>1, <3>3
        <4> QED BY <3>3, <4>1 DEF Range
      <3> QED BY <1>2, <3>2, <3>3
    <2>5. ASSUME NEW k \in DOMAIN tasks \ {i}
          PROVE  \E j \in DOMAIN r : f[j] = k
      <3>1. PICK j : j = IF k < i THEN k ELSE k - 1
        OBVIOUS
      <3>2. j \in DOMAIN s
        BY <1>3, <2>1, <3>1
      <3>3. j \in DOMAIN r
        BY <1>2, <3>2
      <3>4. (IF j < i THEN j ELSE j + 1) = k
        BY <2>1, <3>1
      <3> QED BY <3>3, <3>4
    <2> HIDE DEF f
    <2>6. Comes(f, i, Range(new))
      BY <2>2, <2>4, <2>5 DEF Comes, r
    <2> QED BY <2>6
  <1>10. Turns(i, Range(new))
    BY <1>2, <1>5, <1>6, <1>7, <1>8, <1>9, <1>91 DEF Turns, r
  <1>11. Fifo'
    <2> SUFFICES ASSUME NEW j \in DOMAIN r, NEW l \in DOMAIN r, j < l, r[j].pc = "start"
                 PROVE  r[l].pc = "start"
      BY DEF Fifo, r
    <2>1. CASE l \in DOMAIN s
      <3>1. j \in DOMAIN s /\ r[j] = s[j] /\ r[l] = s[l]
        BY <1>2, <1>3, <2>1
      <3>2. PICK k \in DOMAIN tasks, m \in DOMAIN tasks :
              k < m /\ s[j] = tasks[k] /\ s[l] = tasks[m]
        BY <1>1, <2>1, <3>1
      <3> QED BY <3>1, <3>2 DEF Fifo
    <2>2. CASE l \notin DOMAIN s
      BY <1>2, <2>2
    <2> QED BY <2>1, <2>2
  <1> QED BY <1>10, <1>11

-----------------------------------------------------------------------------
(* What grows.                                                             *)

\* Drivers, tabs and versions are never taken back, and keep what they are of.
DriversGrow ==
  /\ Len(drivers) <= Len(drivers')
  /\ \A d \in DOMAIN drivers : d \in DOMAIN drivers' /\ drivers'[d].conn = drivers[d].conn
TabGrows ==
  \A n \in DOMAIN tab : /\ n \in DOMAIN tab' /\ tab'[n].conn = tab[n].conn
                        /\ tab'[n].db = tab[n].db /\ tab'[n].nr >= tab[n].nr
VersionGrows == \A p \in Conns \X Dbs : version[p] <= version'[p]

Grows == DriversGrow /\ TabGrows /\ VersionGrows

\* What a future is about stays.
LEMMA FitsStays ==
  ASSUME Typed, Typed', Grows, NEW t, Fits(t)
  PROVE  Fits(t)'
  <1>1. Len(drivers) \in Nat /\ Len(drivers') \in Nat
    BY DEF Typed, SessionTyped
  <1>2. t.driver \in 0 .. Len(drivers')
    <2>1. t.driver \in 0 .. Len(drivers) /\ Len(drivers) <= Len(drivers')
      BY DEF Fits, Grows, DriversGrow
    <2> QED BY <1>1, <2>1
  <1>3. t.tab \in DOMAIN tab => t.tab \in DOMAIN tab' /\ tab'[t.tab].conn = tab[t.tab].conn
    BY DEF Grows, TabGrows
  <1> QED BY <1>2, <1>3 DEF Fits, Concerns

\* If those that change fit, all do.
LEMMA TasksStay ==
  ASSUME Typed, Typed', Tasks, Grows, NEW i, NEW C, Turns(i, C), \A c \in C : Fits(c)'
  PROVE  Tasks'
  <1>1. ASSUME NEW t, t \in C \/ \E k \in DOMAIN tasks \ {i} : t = tasks[k]
        PROVE  Fits(t)'
    <2>1. CASE t \in C
      BY <2>1
    <2>2. CASE \E k \in DOMAIN tasks \ {i} : t = tasks[k]
      <3>1. Fits(t)
        BY <2>2 DEF Tasks
      <3> QED BY <3>1, FitsStays
    <2> QED BY <1>1, <2>1, <2>2
  <1>2. tasks' \in Seq(TaskSet)
    BY DEF Turns
  <1>3. ASSUME NEW j \in DOMAIN tasks'
        PROVE  Fits(tasks[j])'
    <2>1. PICK t : t = tasks'[j]
      OBVIOUS
    <2>2. t \in C \/ \E k \in DOMAIN tasks \ {i} : t = tasks[k]
      BY <2>1 DEF Turns
    <2>3. Fits(t)'
      BY <1>1, <2>2
    <2> QED BY <2>1, <2>3
  <1> QED BY <1>2, <1>3 DEF Tasks

-----------------------------------------------------------------------------
(* The parts of the state, each as it stays or changes.                    *)

\* A session that is not touched.
LEMMA SessionSame ==
  ASSUME Typed, UNCHANGED <<app, drivers>>
  PROVE  SessionTyped' /\ DriversGrow
  <1>1. SessionTyped'
    BY DEF Typed, SessionTyped, ActiveIsOne
  <1>2. Len(drivers) <= Len(drivers)
    BY DEF Typed, SessionTyped
  <1> QED BY <1>1, <1>2 DEF DriversGrow

\* AppState without a session.
LEMMA NoAppTyped ==
  /\ NoApp \in AppSet /\ NoApp.id = NULL /\ NoApp.driver = 0 /\ NoApp.db = ""
  BY DEF NoApp, AppSet

\* The session is dropped.
LEMMA SessionDropped ==
  ASSUME Typed, app' = NoApp, UNCHANGED drivers
  PROVE  SessionTyped' /\ DriversGrow
  <1>1. Len(drivers) \in Nat /\ drivers \in Seq(DriverSet)
    BY DEF Typed, SessionTyped
  <1>2. 0 \in 0 .. Len(drivers) /\ Len(drivers) <= Len(drivers)
    BY <1>1
  <1>3. SessionTyped'
    BY <1>1, <1>2, NoAppTyped DEF SessionTyped, ActiveIsOne
  <1> QED BY <1>2, <1>3 DEF DriversGrow

\* The pool of a driver changes.
Pooled(d, p) == drivers' = [drivers EXCEPT ![d].pool = p]

\* Its connection, and all other drivers, stay.
LEMMA PoolChanged ==
  ASSUME Typed, UNCHANGED app, NEW d \in 0 .. Len(drivers), NEW p \in PoolSet,
         Pooled(d, p)
  PROVE  /\ SessionTyped' /\ DriversGrow
         /\ d \in DOMAIN drivers => drivers'[d].pool = p
         /\ \A e \in DOMAIN drivers \ {d} : drivers'[e] = drivers[e]
         /\ DOMAIN drivers' = DOMAIN drivers
  <1>1. drivers \in Seq(DriverSet) /\ Len(drivers) \in Nat /\ DOMAIN drivers = 1 .. Len(drivers)
    BY DEF Typed, SessionTyped
  <1>2. ASSUME NEW e \in DriverSet
        PROVE  /\ [e EXCEPT !.pool = p] \in DriverSet
               /\ [e EXCEPT !.pool = p].conn = e.conn /\ [e EXCEPT !.pool = p].pool = p
    BY DEF DriverSet
  <1>3. /\ drivers' \in Seq(DriverSet) /\ Len(drivers') = Len(drivers)
        /\ \A e \in DOMAIN drivers : e \in DOMAIN drivers' /\ drivers'[e].conn = drivers[e].conn
        /\ d \in DOMAIN drivers => drivers'[d].pool = p
        /\ \A e \in DOMAIN drivers \ {d} : drivers'[e] = drivers[e]
    <2>1. CASE d \in DOMAIN drivers
      <3> DEFINE r == [drivers[d] EXCEPT !.pool = p]
      <3>1. drivers' = [drivers EXCEPT ![d] = r]
        BY DEF Pooled
      <3>2. drivers[d] \in DriverSet
        BY <1>1, <2>1
      <3>3. r \in DriverSet /\ r.conn = drivers[d].conn /\ r.pool = p
        BY <1>2, <3>2
      <3> HIDE DEF r
      <3>4. /\ drivers' \in Seq(DriverSet) /\ Len(drivers') = Len(drivers)
            /\ DOMAIN drivers' = DOMAIN drivers
            /\ \A e \in DOMAIN drivers : drivers'[e] = IF e = d THEN r ELSE drivers[e]
        BY <1>1, <2>1, <3>1, <3>3
      <3> QED BY <2>1, <3>3, <3>4
    <2>2. CASE d \notin DOMAIN drivers
      <3>1. drivers' = drivers
        BY <2>2, <1>1 DEF Pooled
      <3> QED BY <1>1, <2>2, <3>1
    <2> QED BY <2>1, <2>2
  <1>4. Len(drivers) <= Len(drivers')
    BY <1>1, <1>3
  <1>5. app.driver # 0 => app.driver \in DOMAIN drivers
    <2>1. app.driver \in 0 .. Len(drivers)
      BY DEF Typed, SessionTyped
    <2> QED BY <1>1, <2>1
  <1>6. ActiveIsOne'
    <2>1. ActiveIsOne
      BY DEF Typed, SessionTyped
    <2> QED BY <1>3, <1>5, <2>1 DEF ActiveIsOne
  <1>7. SessionTyped'
    BY <1>3, <1>6 DEF Typed, SessionTyped
  <1>8. DOMAIN drivers' = DOMAIN drivers
    BY <1>1, <1>3
  <1> QED BY <1>3, <1>4, <1>7, <1>8 DEF DriversGrow

\* A new driver is made, for the session there is then.
LEMMA DriverMade ==
  ASSUME Typed, NEW c \in Conns, drivers' = Append(drivers, [conn |-> c, pool |-> Configured[c]]),
         app' = [id |-> c, driver |-> Len(drivers) + 1, db |-> Configured[c]]
  PROVE  /\ SessionTyped' /\ DriversGrow /\ app' \in AppSet
         /\ Len(drivers) + 1 # 0 /\ Len(drivers) + 1 \in DOMAIN drivers'
         /\ drivers'[Len(drivers) + 1] = [conn |-> c, pool |-> Configured[c]]
         /\ \A d \in DOMAIN drivers : drivers'[d] = drivers[d]
         /\ Len(drivers) + 1 \notin DOMAIN drivers
  <1> DEFINE r == [conn |-> c, pool |-> Configured[c]]
             n == Len(drivers)
  <1>1. drivers \in Seq(DriverSet) /\ n \in Nat
    BY DEF Typed, SessionTyped
  <1>2. Configured[c] \in Dbs \cup {""}
    BY ConstantsAre
  <1>3. r \in DriverSet
    BY <1>2 DEF DriverSet, PoolSet
  <1>4. r.conn = c
    OBVIOUS
  <1>5. drivers' = Append(drivers, r)
    OBVIOUS
  <1> HIDE DEF r
  <1>6. /\ drivers' \in Seq(DriverSet) /\ Len(drivers') = n + 1
        /\ drivers'[n + 1] = r /\ n + 1 \in DOMAIN drivers'
        /\ \A d \in DOMAIN drivers : d \in DOMAIN drivers' /\ drivers'[d] = drivers[d]
        /\ n + 1 \notin DOMAIN drivers
    BY <1>1, <1>3, <1>5
  <1>7. n <= n + 1 /\ n + 1 \in Nat /\ n + 1 # 0 /\ n + 1 \in 0 .. n + 1
    BY <1>1
  <1>8. app' \in AppSet
    BY <1>2, <1>7 DEF AppSet
  <1>9. app'.id = c /\ app'.driver = n + 1
    OBVIOUS
  <1>10. ActiveIsOne'
    BY <1>4, <1>6, <1>7, <1>9 DEF ActiveIsOne
  <1>11. SessionTyped'
    BY <1>6, <1>7, <1>8, <1>9, <1>10 DEF SessionTyped
  <1>12. DriversGrow
    BY <1>6, <1>7 DEF DriversGrow
  <1> QED BY <1>6, <1>7, <1>8, <1>11, <1>12 DEF r

\* The number of the last load of a tab is one.
LEMMA SameNumber ==
  ASSUME Typed
  PROVE  \A n \in DOMAIN tab : tab[n].nr \in Nat /\ tab[n].nr >= tab[n].nr
  <1>1. \A n \in DOMAIN tab : tab[n] \in TabSet
    BY DEF Typed, WindowTyped
  <1>2. \A u \in TabSet : u.nr \in Nat
    BY DEF TabSet
  <1>3. \A k \in Nat : k >= k
    OBVIOUS
  <1> QED BY <1>1, <1>2, <1>3

\* A window that is not touched.
LEMMA WindowSame ==
  ASSUME Typed, UNCHANGED window
  PROVE  WindowTyped' /\ TabGrows
  <1>1. WindowTyped' /\ tab' = tab
    BY DEF Typed, WindowTyped, window
  <1>2. \A n \in DOMAIN tab : tab[n].nr >= tab[n].nr
    BY SameNumber
  <1> QED BY <1>1, <1>2 DEF TabGrows

\* Tabs are closed or moved.
LEMMA TabsCut ==
  ASSUME Typed, UNCHANGED tab, tabs' \in Seq(DOMAIN tab), pages' \in Seq(DOMAIN tab)
  PROVE  WindowTyped' /\ TabGrows
  <1>1. WindowTyped'
    BY DEF Typed, WindowTyped
  <1>2. \A n \in DOMAIN tab : tab[n].nr >= tab[n].nr
    BY SameNumber
  <1> QED BY <1>1, <1>2 DEF TabGrows

\* One tab changes what it shows.
LEMMA TabChanged ==
  ASSUME Typed, NEW n \in DOMAIN tab, NEW u \in TabSet, tab' = [tab EXCEPT ![n] = u],
         UNCHANGED <<tabs, pages>>,
         u.conn = tab[n].conn, u.db = tab[n].db, u.nr >= tab[n].nr
  PROVE  WindowTyped' /\ TabGrows
  <1>1. tab \in Seq(TabSet) /\ tabs \in Seq(DOMAIN tab) /\ pages \in Seq(DOMAIN tab)
    BY DEF Typed, WindowTyped
  <1>2. tab' \in Seq(TabSet) /\ DOMAIN tab' = DOMAIN tab
    BY <1>1
  <1>3. \A m \in DOMAIN tab : tab[m].nr >= tab[m].nr
    BY SameNumber
  <1>4. \A m \in DOMAIN tab : tab'[m] = IF m = n THEN u ELSE tab[m]
    BY <1>1
  <1> QED BY <1>1, <1>2, <1>3, <1>4 DEF WindowTyped, TabGrows

\* A tab is made.
LEMMA TabMade ==
  ASSUME Typed, NEW u \in TabSet, tab' = Append(tab, u),
         tabs' = Append(tabs, Len(tab) + 1), pages' = Append(pages, Len(tab) + 1)
  PROVE  /\ WindowTyped' /\ TabGrows
         /\ Len(tab) \in Nat /\ Len(tab) + 1 \in DOMAIN tab' /\ tab'[Len(tab) + 1] = u
         /\ Len(tab') = Len(tab) + 1 /\ Len(tab) + 1 \notin DOMAIN tab
         /\ \A m \in DOMAIN tab : m \in DOMAIN tab' /\ tab'[m] = tab[m]
         /\ \A m \in DOMAIN tab' : m \in DOMAIN tab \/ m = Len(tab) + 1
  <1> DEFINE k == Len(tab) + 1
  <1>1. tab \in Seq(TabSet) /\ tabs \in Seq(DOMAIN tab) /\ pages \in Seq(DOMAIN tab)
    BY DEF Typed, WindowTyped
  <1>2. /\ tab' \in Seq(TabSet) /\ Len(tab) \in Nat /\ Len(tab') = k
        /\ k \in DOMAIN tab' /\ tab'[k] = u /\ k \notin DOMAIN tab
        /\ DOMAIN tab \subseteq DOMAIN tab'
        /\ \A m \in DOMAIN tab : m \in DOMAIN tab' /\ tab'[m] = tab[m]
        /\ \A m \in DOMAIN tab' : m \in DOMAIN tab \/ m = k
    BY <1>1
  <1> HIDE DEF k
  <1>3. tabs \in Seq(DOMAIN tab') /\ pages \in Seq(DOMAIN tab')
    BY <1>1, <1>2
  <1>4. tabs' \in Seq(DOMAIN tab') /\ pages' \in Seq(DOMAIN tab')
    BY <1>2, <1>3 DEF k
  <1>5. \A m \in DOMAIN tab : tab[m].nr >= tab[m].nr
    BY SameNumber
  <1> QED BY <1>2, <1>4, <1>5 DEF WindowTyped, TabGrows, k

\* The rest, when it is not touched.
LEMMA SavedSame ==
  ASSUME Typed, UNCHANGED saved
  PROVE  SavedTyped'
  BY DEF Typed, SavedTyped

\* No write.
LEMMA VersionSame ==
  ASSUME Typed, UNCHANGED version
  PROVE  VersionTyped' /\ VersionGrows
  <1>1. VersionTyped'
    BY DEF Typed, VersionTyped
  <1>2. \A p \in Conns \X Dbs : version[p] <= version[p]
    BY DEF Typed, VersionTyped
  <1> QED BY <1>1, <1>2 DEF VersionGrows

\* A write.
LEMMA VersionWritten ==
  ASSUME Typed, NEW p \in Conns \X Dbs, version' = [version EXCEPT ![p] = @ + 1]
  PROVE  /\ VersionTyped' /\ VersionGrows
         /\ version'[p] = version[p] + 1 /\ version'[p] \in Nat
  <1>1. version \in [Conns \X Dbs -> Nat]
    BY DEF Typed, VersionTyped
  <1>2. \A q \in Conns \X Dbs : version[q] \in Nat /\ version[q] + 1 \in Nat
                                /\ version[q] <= version[q] + 1 /\ version[q] <= version[q]
    BY <1>1
  <1>3. /\ version' \in [Conns \X Dbs -> Nat] /\ version'[p] = version[p] + 1
        /\ \A q \in Conns \X Dbs : q # p => version'[q] = version[q]
    BY <1>1, <1>2
  <1>4. VersionGrows
    BY <1>2, <1>3 DEF VersionGrows
  <1> QED BY <1>2, <1>3, <1>4 DEF VersionTyped

-----------------------------------------------------------------------------
(* Steps of one future.                                                    *)

Sound == Typed /\ Tasks /\ Fifo

\* A step after which all is of its type, and the future i became those of C.
Step(i, C) ==
  /\ Typed' /\ Grows /\ Turns(i, C) /\ Fifo'
  /\ \A c \in C : Fits(c)'

Earlier(i) == \A j \in DOMAIN tasks : j < i => tasks[j].pc # "start"

\* A step keeps what is of its type so.
LEMMA StepIsSound ==
  ASSUME Sound, NEW i, NEW C, Step(i, C)
  PROVE  Sound'
  BY TasksStay DEF Sound, Step

\* A future that is polled for the first time comes after all that were.
LEMMA StartsEarlier ==
  ASSUME Sound, NEW i, NEW kinds, Starts(i, kinds)
  PROVE  i \in DOMAIN tasks /\ tasks[i].pc = "start" /\ tasks[i].kind \in kinds /\ Earlier(i)
  <1>1. i \in DOMAIN tasks /\ tasks[i].pc = "start" /\ tasks[i].kind \in kinds
    BY DEF Starts, At
  <1>2. tasks \in Seq(TaskSet)
    BY DEF Sound, Tasks
  <1>3. \A j \in DOMAIN tasks : j < i => j \in 1 .. i - 1
    BY <1>1, <1>2
  <1>4. \A j \in 1 .. i - 1 : tasks[j].pc # "start"
    BY DEF Starts
  <1> QED BY <1>1, <1>3, <1>4 DEF Earlier

\* So does one that was polled before.
LEMMA PolledEarlier ==
  ASSUME Sound, NEW i \in DOMAIN tasks, tasks[i].pc # "start"
  PROVE  Earlier(i)
  BY DEF Sound, Fifo, Earlier

\* Every future is of its type.
LEMMA TaskTyped ==
  ASSUME Sound, NEW i \in DOMAIN tasks
  PROVE  /\ tasks[i] \in TaskSet /\ Fits(tasks[i])
         /\ tasks[i].driver \in 0 .. Len(drivers)
         /\ Concerns(tasks[i]) /\ Reaches(tasks[i])
  BY DEF Sound, Tasks, Fits

\* A future that goes on with what it is about.
LEMMA GoesStep ==
  ASSUME Sound, NEW i \in DOMAIN tasks, NEW t \in TaskSet, Goes(i, t), Earlier(i),
         Typed', Grows,
         t.kind = tasks[i].kind, t.conn = tasks[i].conn, t.tab = tasks[i].tab,
         t.pc # "start", Reaches(t), t.driver \in 0 .. Len(drivers')
  PROVE  Step(i, {t})
  <1>1. tasks \in Seq(TaskSet) /\ Fifo
    BY DEF Sound, Tasks
  <1>2. tasks' = [tasks EXCEPT ![i] = t] \o <<>>
    BY <1>1 DEF Goes
  <1>3. <<>> \in Seq(TaskSet) /\ Range(<<>>) = {} /\ DOMAIN <<>> = {}
    BY DEF Range
  <1>4. Turns(i, {t} \cup Range(<<>>)) /\ Fifo'
    <2> HIDE DEF Goes
    <2>1. \A j \in DOMAIN tasks : j < i => tasks[j].pc # "start"
      BY DEF Earlier
    <2> QED BY <1>1, <1>2, <1>3, <2>1, Moved
  <1>5. Turns(i, {t})
    <2>1. {t} \cup Range(<<>>) = {t}
      BY <1>3
    <2> QED BY <1>4, <2>1
  <1>6. PICK u : u = tasks[i]
    OBVIOUS
  <1>7. Fits(u)'
    BY <1>6, TaskTyped, FitsStays DEF Sound
  <1>8. Fits(t)'
    <2>1. Concerns(u)'
      BY <1>7 DEF Fits
    <2>2. Concerns(t)'
      BY <1>6, <2>1 DEF Concerns
    <2> QED BY <2>2 DEF Fits
  <1> QED BY <1>4, <1>5, <1>8 DEF Step

\* A future that goes on, and spawns others.
LEMMA GoesSpawningStep ==
  ASSUME Sound, NEW i \in DOMAIN tasks, NEW t \in TaskSet, NEW new \in Seq(TaskSet),
         tasks' = [tasks EXCEPT ![i] = t] \o new, Earlier(i), Typed', Grows,
         t.kind = tasks[i].kind, t.conn = tasks[i].conn, t.tab = tasks[i].tab,
         t.pc # "start", Reaches(t), t.driver \in 0 .. Len(drivers'),
         \A u \in Range(new) : u.pc = "start" /\ Fits(u)'
  PROVE  Step(i, {t} \cup Range(new))
  <1>1. tasks \in Seq(TaskSet) /\ Fifo
    BY DEF Sound, Tasks
  <1>2. \A k \in DOMAIN new : new[k].pc = "start"
    BY DEF Range
  <1>3. Turns(i, {t} \cup Range(new)) /\ Fifo'
    <2>1. \A j \in DOMAIN tasks : j < i => tasks[j].pc # "start"
      BY DEF Earlier
    <2> QED BY <1>1, <1>2, <2>1, Moved
  <1>4. PICK u : u = tasks[i]
    OBVIOUS
  <1>5. Fits(u)'
    BY <1>4, TaskTyped, FitsStays DEF Sound
  <1>6. Fits(t)'
    <2>1. Concerns(u)'
      BY <1>5 DEF Fits
    <2>2. Concerns(t)'
      BY <1>4, <2>1 DEF Concerns
    <2> QED BY <2>2 DEF Fits
  <1> QED BY <1>3, <1>6 DEF Step

\* A future that ends, and spawns others.
LEMMA EndsStep ==
  ASSUME Sound, NEW i \in DOMAIN tasks, NEW new \in Seq(TaskSet), Ends(i, new),
         Typed', Grows, \A u \in Range(new) : u.pc = "start" /\ Fits(u)'
  PROVE  Step(i, Range(new))
  <1>1. tasks \in Seq(TaskSet) /\ Fifo
    BY DEF Sound, Tasks
  <1>2. \A k \in DOMAIN new : new[k].pc = "start"
    BY DEF Range
  <1>3. Turns(i, Range(new)) /\ Fifo'
    BY <1>1, <1>2, Ended
  <1> QED BY <1>3 DEF Step

\* A future that ends.
LEMMA EndsAlone ==
  ASSUME Sound, NEW i \in DOMAIN tasks, Ends(i, <<>>), Typed', Grows
  PROVE  Step(i, {})
  <1>1. <<>> \in Seq(TaskSet) /\ Range(<<>>) = {}
    BY DEF Range
  <1>2. Step(i, Range(<<>>))
    BY <1>1, EndsStep
  <1> QED BY <1>1, <1>2

\* Futures that are spawned by the user.
LEMMA AddedStep ==
  ASSUME Sound, NEW new \in Seq(TaskSet), tasks' = tasks \o new,
         Typed', Grows, \A u \in Range(new) : u.pc = "start" /\ Fits(u)'
  PROVE  Step(0, Range(new))
  <1>1. tasks \in Seq(TaskSet) /\ Fifo
    BY DEF Sound, Tasks
  <1>2. \A k \in DOMAIN new : new[k].pc = "start"
    BY DEF Range
  <1>3. Turns(0, Range(new)) /\ Fifo'
    BY <1>1, <1>2, Added
  <1> QED BY <1>3 DEF Step

\* One future is spawned.
LEMMA AddedOne ==
  ASSUME Sound, NEW t \in TaskSet, tasks' = Append(tasks, t) \/ tasks' = tasks \o <<t>>,
         Typed', Grows, t.pc = "start", Fits(t)'
  PROVE  Step(0, {t})
  <1>1. tasks \in Seq(TaskSet)
    BY DEF Sound, Tasks
  <1>2. tasks' = tasks \o <<t>>
    BY <1>1
  <1>3. <<t>> \in Seq(TaskSet) /\ Range(<<t>>) = {t}
    BY DEF Range
  <1> HIDE DEF Range
  <1>4. Step(0, Range(<<t>>))
    <2>1. \A u \in Range(<<t>>) : u.pc = "start" /\ Fits(u)'
      BY <1>3
    <2> QED BY <1>2, <1>3, <2>1, AddedStep
  <1> QED BY <1>3, <1>4

\* None is.
LEMMA AddedNone ==
  ASSUME Sound, UNCHANGED tasks, Typed', Grows
  PROVE  Step(0, {})
  <1>1. tasks \in Seq(TaskSet)
    BY DEF Sound, Tasks
  <1>2. tasks' = tasks \o <<>>
    BY <1>1
  <1>3. <<>> \in Seq(TaskSet) /\ Range(<<>>) = {}
    BY DEF Range
  <1>4. Step(0, Range(<<>>))
    BY <1>2, <1>3, AddedStep
  <1> QED BY <1>3, <1>4

\* A future fits when it is spawned with what it is about.
LEMMA FreshFits ==
  ASSUME Typed', NEW t \in TaskSet, t.pc = "start", t.driver = 0, Concerns(t)'
  PROVE  Fits(t)'
  <1>1. Len(drivers') \in Nat
    BY DEF Typed, SessionTyped
  <1>2. 0 \in 0 .. Len(drivers')
    BY <1>1
  <1>3. Reaches(t)
    BY DEF Reaches
  <1> QED BY <1>2, <1>3 DEF Fits

-----------------------------------------------------------------------------
(* What is spawned fits.                                                   *)

\* Futures that are spawned are of these kinds and fit.
Fresh(new, kinds) ==
  /\ new \in Seq(TaskSet)
  /\ \A u \in Range(new) :
       /\ u.pc = "start" /\ u.kind \in kinds /\ u.driver = 0 /\ u.parts = <<>> /\ Fits(u)'

\* Futures that are spawned fit when each is spawned with what it is about.
LEMMA SpawnedFresh ==
  ASSUME Typed', NEW new, NEW kind, Spawns(new, kind),
         \A k \in DOMAIN new : Concerns(new[k])'
  PROVE  Fresh(new, {kind})
  <1>1. new \in Seq(TaskSet)
    BY DEF Spawns
  <1>2. ASSUME NEW u \in Range(new)
        PROVE  /\ u.pc = "start" /\ u.kind \in {kind} /\ u.driver = 0 /\ u.parts = <<>>
               /\ Fits(u)'
    <2>1. PICK k \in DOMAIN new : u = new[k]
      BY DEF Range
    <2>2. u \in TaskSet
      BY <1>1, <2>1
    <2>3. u.pc = "start" /\ u.kind = kind /\ u.driver = 0 /\ u.parts = <<>>
      BY <2>1 DEF Spawns
    <2>4. Concerns(u)'
      BY <2>1
    <2> QED BY <2>2, <2>3, <2>4, FreshFits
  <1> QED BY <1>1, <1>2 DEF Fresh

\* The list of schemas, if the active connection is saved.
LEMMA SchemaFresh ==
  ASSUME Typed', NEW a \in AppSet, NEW list, Range(list) \subseteq Conns
  PROVE  /\ Fresh(SchemaTask(a, list), {"schema"})
         /\ \A u \in Range(SchemaTask(a, list)) : u.conn = a.id /\ a.id \in Conns
  <1> DEFINE new == SchemaTask(a, list)
  <1>1. Spawns(new, "schema") /\ \A k \in DOMAIN new : new[k].conn = a.id /\ a.id \in Range(list)
    BY SchemaSpawned
  <1> HIDE DEF new
  <1>2. ASSUME NEW k \in DOMAIN new
        PROVE  Concerns(new[k])'
    <2>1. new[k].kind = "schema" /\ new[k].conn \in Conns
      BY <1>1 DEF Spawns
    <2> QED BY <2>1 DEF Concerns
  <1>3. Fresh(new, {"schema"})
    BY <1>1, <1>2, SpawnedFresh
  <1>4. \A u \in Range(new) : u.conn = a.id /\ a.id \in Conns
    BY <1>1 DEF Range
  <1> QED BY <1>3, <1>4 DEF new

\* The list of databases.
LEMMA DatabasesFresh ==
  ASSUME Typed', NEW a \in AppSet
  PROVE  Fresh(DatabasesTask(a), {"databases"})
  <1> DEFINE new == DatabasesTask(a)
  <1>1. Spawns(new, "databases")
    BY DatabasesSpawned
  <1> HIDE DEF new
  <1>2. ASSUME NEW k \in DOMAIN new
        PROVE  Concerns(new[k])'
    <2>1. new[k].kind = "databases"
      BY <1>1 DEF Spawns
    <2> QED BY <2>1 DEF Concerns
  <1>3. Fresh(new, {"databases"})
    BY <1>1, <1>2, SpawnedFresh
  <1> QED BY <1>3 DEF new

\* One after the other.
LEMMA BothFresh ==
  ASSUME NEW a, NEW b, NEW k, NEW l, Fresh(a, k), Fresh(b, l)
  PROVE  Fresh(a \o b, k \cup l) /\ Range(a \o b) = Range(a) \cup Range(b)
  <1>1. a \in Seq(TaskSet) /\ b \in Seq(TaskSet)
    BY DEF Fresh
  <1>2. a \o b \in Seq(TaskSet)
    BY <1>1
  <1>3. Range(a \o b) = Range(a) \cup Range(b)
    <2>1. \A i \in DOMAIN a : \E j \in DOMAIN (a \o b) : (a \o b)[j] = a[i]
      BY <1>1, Concatenated
    <2>2. \A i \in DOMAIN b : \E j \in DOMAIN (a \o b) : (a \o b)[j] = b[i]
      <3>1. \A i \in DOMAIN b : Len(a) + i \in DOMAIN (a \o b) /\ (a \o b)[Len(a) + i] = b[i]
        BY <1>1, Concatenated
      <3> QED BY <3>1
    <2>3. \A j \in DOMAIN (a \o b) : \/ \E i \in DOMAIN a : (a \o b)[j] = a[i]
                                     \/ \E i \in DOMAIN b : (a \o b)[j] = b[i]
      <3>1. \A j \in DOMAIN (a \o b) :
              \/ j \in DOMAIN a /\ (a \o b)[j] = a[j]
              \/ j > Len(a) /\ j - Len(a) \in DOMAIN b /\ (a \o b)[j] = b[j - Len(a)]
        BY <1>1, Concatenated
      <3> QED BY <3>1
    <2> QED BY <2>1, <2>2, <2>3 DEF Range
  <1> QED BY <1>2, <1>3 DEF Fresh

\* A load of a tab for a table.
LEMMA LoadFresh ==
  ASSUME Typed', NEW n \in DOMAIN tab', tab'[n].conn # NULL, NEW u \in TabSet
  PROVE  /\ Fresh(LoadTask(n, u), {"load"})
         /\ app.id = NULL => Range(LoadTask(n, u)) = {}
         /\ app.id # NULL => Range(LoadTask(n, u)) # {}
         /\ \A t \in Range(LoadTask(n, u)) : t.tab = n /\ t.nr = u.nr + 1
  <1>0. PICK new : new = LoadTask(n, u)
    OBVIOUS
  <1>1. n \in Nat
    BY DEF Typed, WindowTyped
  <1>2. Spawns(new, "load")
    BY <1>0, <1>1, LoadSpawned
  <1>3. (app.id = NULL => new = <<>>) /\ (app.id # NULL => DOMAIN new = {1})
    BY <1>0, <1>1, LoadSpawned
  <1>4. \A k \in DOMAIN new : new[k].tab = n
    BY <1>0, <1>1, LoadSpawned
  <1>5. \A k \in DOMAIN new : new[k].nr = u.nr + 1
    BY <1>0, <1>1, LoadSpawned
  <1>6. ASSUME NEW k \in DOMAIN new
        PROVE  Concerns(new[k])'
    <2>1. new[k].kind = "load" /\ new[k].tab = n
      BY <1>2, <1>4 DEF Spawns
    <2> QED BY <2>1 DEF Concerns
  <1>7. Fresh(new, {"load"})
    BY <1>2, <1>6, SpawnedFresh
  <1>8. app.id = NULL => Range(new) = {}
    BY <1>3 DEF Range
  <1>9. app.id # NULL => Range(new) # {}
    BY <1>3 DEF Range
  <1>10. \A t \in Range(new) : t.tab = n /\ t.nr = u.nr + 1
    BY <1>4, <1>5 DEF Range
  <1> QED BY <1>0, <1>7, <1>8, <1>9, <1>10

\* What a step is made of when the futures that are spawned are fresh.
LEMMA EndsFresh ==
  ASSUME Sound, NEW i \in DOMAIN tasks, NEW new, NEW kinds, Ends(i, new), Fresh(new, kinds),
         Typed', Grows
  PROVE  Step(i, Range(new))
  BY EndsStep DEF Fresh

\* The same for the user.
LEMMA AddedFresh ==
  ASSUME Sound, NEW new, NEW kinds, tasks' = tasks \o new, Fresh(new, kinds), Typed', Grows
  PROVE  Step(0, Range(new))
  BY AddedStep DEF Fresh

-----------------------------------------------------------------------------
(* What the futures become.                                                *)

\* A step that leaves the rest alone.
LEMMA AllSame ==
  ASSUME Typed, UNCHANGED <<app, drivers, window, saved, version>>
  PROVE  Typed' /\ Grows
  <1>1. SessionTyped' /\ DriversGrow
    BY SessionSame
  <1>2. WindowTyped' /\ TabGrows
    BY WindowSame
  <1>3. SavedTyped'
    BY SavedSame
  <1>4. VersionTyped' /\ VersionGrows
    BY VersionSame
  <1> QED BY <1>1, <1>2, <1>3, <1>4 DEF Typed, Grows

\* A step that only changes what a tab shows.
LEMMA TabOnly ==
  ASSUME Typed, WindowTyped', TabGrows, UNCHANGED <<app, drivers, saved, version>>
  PROVE  Typed' /\ Grows
  <1>1. SessionTyped' /\ DriversGrow
    BY SessionSame
  <1>2. SavedTyped'
    BY SavedSame
  <1>3. VersionTyped' /\ VersionGrows
    BY VersionSame
  <1> QED BY <1>1, <1>2, <1>3 DEF Typed, Grows

\* A step of the session.
LEMMA SessionOnly ==
  ASSUME Typed, SessionTyped', DriversGrow, UNCHANGED <<window, saved, version>>
  PROVE  Typed' /\ Grows
  <1>1. WindowTyped' /\ TabGrows
    BY WindowSame
  <1>2. SavedTyped'
    BY SavedSame
  <1>3. VersionTyped' /\ VersionGrows
    BY VersionSame
  <1> QED BY <1>1, <1>2, <1>3 DEF Typed, Grows

\* A future goes to its next wait, with a driver.
AtWait(t, pc, d) == [t EXCEPT !.pc = pc, !.driver = d]

\* All else of it stays.
LEMMA AtWaitTyped ==
  ASSUME NEW t \in TaskSet, NEW pc \in Pcs, NEW d \in Nat
  PROVE  /\ AtWait(t, pc, d) \in TaskSet
         /\ AtWait(t, pc, d).kind = t.kind /\ AtWait(t, pc, d).conn = t.conn
         /\ AtWait(t, pc, d).db = t.db /\ AtWait(t, pc, d).tab = t.tab
         /\ AtWait(t, pc, d).pc = pc /\ AtWait(t, pc, d).driver = d
         /\ AtWait(t, pc, d).nr = t.nr /\ AtWait(t, pc, d).parts = t.parts
         /\ AtWait(t, pc, d).id = t.id /\ AtWait(t, pc, d).version = t.version
         /\ AtWait(t, pc, d).page = t.page /\ AtWait(t, pc, d).sort = t.sort
         /\ AtWait(t, pc, d).from = t.from
  <1>1. AtWait(t, pc, d) \in TaskSet
    BY DEF AtWait, TaskSet
  <1>2. /\ AtWait(t, pc, d).kind = t.kind /\ AtWait(t, pc, d).conn = t.conn
        /\ AtWait(t, pc, d).db = t.db /\ AtWait(t, pc, d).tab = t.tab
        /\ AtWait(t, pc, d).pc = pc /\ AtWait(t, pc, d).driver = d
    BY DEF AtWait, TaskSet
  <1>3. /\ AtWait(t, pc, d).nr = t.nr /\ AtWait(t, pc, d).parts = t.parts
        /\ AtWait(t, pc, d).id = t.id /\ AtWait(t, pc, d).version = t.version
        /\ AtWait(t, pc, d).page = t.page /\ AtWait(t, pc, d).sort = t.sort
        /\ AtWait(t, pc, d).from = t.from
    BY DEF AtWait, TaskSet
  <1> QED BY <1>1, <1>2, <1>3

\* The same without a change of the driver.
LEMMA PcOnly ==
  ASSUME NEW t \in TaskSet, NEW pc
  PROVE  [t EXCEPT !.pc = pc] = AtWait(t, pc, t.driver)
  BY DEF AtWait, TaskSet

\* A load or a query that begins.
LEMMA WorkTyped ==
  ASSUME NEW t \in TaskSet, NEW a \in AppSet
  PROVE  /\ Work(t, a) \in TaskSet
         /\ Work(t, a).kind = t.kind /\ Work(t, a).conn = t.conn
         /\ Work(t, a).db = t.db /\ Work(t, a).tab = t.tab
         /\ Work(t, a).driver = a.driver /\ Work(t, a).id = a.id
         /\ Work(t, a).nr = t.nr /\ Work(t, a).parts = t.parts
         /\ \/ Work(t, a).pc = "run" /\ InDatabase(t, a)
            \/ Work(t, a).pc = "swap" /\ ~InDatabase(t, a) /\ t.db \in Dbs
  <1>1. a.id \in Conns \cup {NULL} /\ a.driver \in Nat
    BY DEF AppSet
  <1>2. PICK pc : pc = IF InDatabase(t, a) THEN "run" ELSE "swap"
    OBVIOUS
  <1>3. pc \in Pcs
    BY <1>2 DEF Pcs
  <1>4. Work(t, a) = [t EXCEPT !.pc = pc, !.driver = a.driver, !.id = a.id]
    BY <1>2 DEF Work
  <1>5. Work(t, a) \in TaskSet
    BY <1>1, <1>3, <1>4 DEF TaskSet
  <1>6. /\ Work(t, a).kind = t.kind /\ Work(t, a).conn = t.conn
        /\ Work(t, a).db = t.db /\ Work(t, a).tab = t.tab
        /\ Work(t, a).driver = a.driver /\ Work(t, a).id = a.id
        /\ Work(t, a).nr = t.nr /\ Work(t, a).parts = t.parts /\ Work(t, a).pc = pc
    BY <1>4 DEF TaskSet
  <1>7. t.db \in Dbs \cup {""}
    BY DEF TaskSet
  <1>8. ~InDatabase(t, a) => t.db \in Dbs
    BY <1>7 DEF InDatabase
  <1> QED BY <1>2, <1>5, <1>6, <1>8

\* AppState is of its type.
LEMMA AppTyped ==
  ASSUME Typed
  PROVE  /\ app \in AppSet /\ app.driver \in Nat /\ app.driver \in 0 .. Len(drivers)
         /\ app.driver # 0 => app.driver \in DOMAIN drivers
         /\ app.id # NULL => app.driver # 0 /\ drivers[app.driver].conn = app.id
         /\ app.driver = 0 => app = NoApp
         /\ app.id \in Conns \cup {NULL} /\ app.db \in Dbs \cup {""}
  <1>1. /\ app \in AppSet /\ app.driver \in 0 .. Len(drivers) /\ drivers \in Seq(DriverSet)
        /\ ActiveIsOne
    BY DEF Typed, SessionTyped
  <1>2. app.driver \in Nat /\ app.id \in Conns \cup {NULL} /\ app.db \in Dbs \cup {""}
    BY <1>1 DEF AppSet
  <1>3. app.driver # 0 => app.driver \in DOMAIN drivers
    BY <1>1
  <1> QED BY <1>1, <1>2, <1>3 DEF ActiveIsOne

\* The session is dropped; its pool is still to be closed.
Dropping(i) == AtWait(tasks[i], IF app.driver = 0 THEN "dial" ELSE "leave", app.driver)

\* A connect, or a query that needs one, drops the session there is.
LEMMA ConnectsStep ==
  ASSUME Sound, NEW i, Starts(i, {"connect"}) \/ Starts(i, {"query"}), Connects(i)
  PROVE  Step(i, {Dropping(i)})
  <1>1. /\ i \in DOMAIN tasks /\ tasks[i].pc = "start" /\ Earlier(i)
        /\ tasks[i].kind \in {"connect", "query"}
    BY StartsEarlier
  <1>2. tasks[i] \in TaskSet /\ Fits(tasks[i])
    BY <1>1, TaskTyped
  <1>3. PICK pc : pc = IF app.driver = 0 THEN "dial" ELSE "leave"
    OBVIOUS
  <1>4. pc \in {"dial", "leave"} /\ pc \in Pcs
    BY <1>3 DEF Pcs
  <1>5. Typed /\ app.driver \in Nat /\ app.driver \in 0 .. Len(drivers)
    BY AppTyped DEF Sound
  <1>6. PICK t : t = AtWait(tasks[i], pc, app.driver)
    OBVIOUS
  <1>7. Goes(i, t) /\ t = Dropping(i)
    BY <1>3, <1>6 DEF Connects, Dropping, AtWait
  <1>8. Typed' /\ Grows
    <2>1. SessionTyped' /\ DriversGrow
      BY <1>5, SessionDropped DEF Connects
    <2> QED BY <1>5, <2>1, SessionOnly DEF Connects, Same
  <1>9. /\ t \in TaskSet /\ t.kind = tasks[i].kind /\ t.conn = tasks[i].conn
        /\ t.tab = tasks[i].tab /\ t.pc = pc /\ t.driver = app.driver
    BY <1>2, <1>4, <1>5, <1>6, AtWaitTyped
  <1>10. t.driver \in 0 .. Len(drivers')
    BY <1>5, <1>9 DEF Connects
  <1>11. t.pc # "start" /\ Reaches(t)
    BY <1>1, <1>4, <1>9 DEF Reaches
  <1>12. Step(i, {t})
    BY <1>1, <1>7, <1>8, <1>9, <1>10, <1>11, GoesStep
  <1> QED BY <1>7, <1>12

\* A load or a query begins in the session there is.
LEMMA BeginsStep ==
  ASSUME Sound, NEW i \in DOMAIN tasks, tasks[i].kind \in {"load", "query"}, Earlier(i),
         NEW t \in TaskSet, Goes(i, t), t.kind = tasks[i].kind, t.conn = tasks[i].conn,
         t.tab = tasks[i].tab, t.driver = app.driver,
         t.pc = "run" \/ (t.pc = "swap" /\ t.db \in Dbs),
         UNCHANGED <<app, drivers, window, saved, version>>
  PROVE  Step(i, {t})
  <1>1. Typed' /\ Grows
    BY AllSame DEF Sound
  <1>2. t.driver \in 0 .. Len(drivers')
    BY AppTyped DEF Sound
  <1>3. t.pc # "start" /\ Reaches(t)
    BY DEF Reaches
  <1> QED BY <1>1, <1>2, <1>3, GoesStep

\* A query begins in the session of its connection.
LEMMA QueryBeginsStep ==
  ASSUME Sound, NEW i, Starts(i, {"query"}), app.id = tasks[i].conn, Goes(i, Work(tasks[i], app)),
         UNCHANGED <<app, drivers, window, saved, version>>
  PROVE  Step(i, {Work(tasks[i], app)}) /\ app.driver # 0
  <1>1. i \in DOMAIN tasks /\ tasks[i].pc = "start" /\ Earlier(i) /\ tasks[i].kind = "query"
    BY StartsEarlier
  <1>2. tasks[i] \in TaskSet /\ app \in AppSet
    BY <1>1, TaskTyped, AppTyped DEF Sound
  <1>3. PICK t : t = Work(tasks[i], app)
    OBVIOUS
  <1>4. /\ t \in TaskSet /\ t.kind = tasks[i].kind /\ t.conn = tasks[i].conn
        /\ t.tab = tasks[i].tab /\ t.db = tasks[i].db /\ t.driver = app.driver
        /\ (t.pc = "run" \/ (t.pc = "swap" /\ t.db \in Dbs))
    <2>1. /\ t \in TaskSet /\ t.kind = tasks[i].kind /\ t.conn = tasks[i].conn
          /\ t.tab = tasks[i].tab /\ t.db = tasks[i].db /\ t.driver = app.driver
      BY <1>2, <1>3, WorkTyped
    <2>2. t.pc = "run" \/ (t.pc = "swap" /\ tasks[i].db \in Dbs)
      BY <1>2, <1>3, WorkTyped
    <2> QED BY <2>1, <2>2
  <1>5. Step(i, {t})
    <2>1. Goes(i, t)
      BY <1>3
    <2>2. tasks[i].kind \in {"load", "query"}
      BY <1>1
    <2> QED BY <1>1, <1>4, <2>1, <2>2, BeginsStep
  <1>6. tasks[i].conn \in Conns
    <2>1. Concerns(tasks[i])
      BY <1>1, TaskTyped
    <2> QED BY <1>1, <2>1 DEF Concerns
  <1>7. NULL \notin Conns
    BY ConstantsAre
  <1>8. app.driver # 0
    BY <1>6, <1>7, AppTyped DEF Sound
  <1> QED BY <1>3, <1>5, <1>8

\* A load takes the page and the order of its tab.
LoadWork(i) ==
  [Work(tasks[i], app) EXCEPT !.page = tab[tasks[i].tab].page, !.sort = tab[tasks[i].tab].sort]

Paged(t, p, s) == [t EXCEPT !.page = p, !.sort = s]

\* All else of it stays.
LEMMA PageTyped ==
  ASSUME NEW t \in TaskSet, NEW p \in 0 .. MaxPage, NEW s \in BOOLEAN
  PROVE  /\ Paged(t, p, s) \in TaskSet
         /\ Paged(t, p, s).kind = t.kind
         /\ Paged(t, p, s).conn = t.conn
         /\ Paged(t, p, s).db = t.db
         /\ Paged(t, p, s).tab = t.tab
         /\ Paged(t, p, s).driver = t.driver
         /\ Paged(t, p, s).id = t.id
         /\ Paged(t, p, s).nr = t.nr
         /\ Paged(t, p, s).pc = t.pc
         /\ Paged(t, p, s).page = p
         /\ Paged(t, p, s).sort = s
  <1> DEFINE u == Paged(t, p, s)
  <1>1. u \in TaskSet
    BY DEF TaskSet, Paged
  <1>2. u.kind = t.kind /\ u.conn = t.conn /\ u.db = t.db /\ u.tab = t.tab
    BY DEF TaskSet, Paged
  <1>3. u.driver = t.driver /\ u.id = t.id /\ u.nr = t.nr /\ u.pc = t.pc
    BY DEF TaskSet, Paged
  <1>4. u.page = p /\ u.sort = s
    BY DEF TaskSet, Paged
  <1> HIDE DEF u
  <1> QED BY <1>1, <1>2, <1>3, <1>4 DEF u

\* The tabs of the futures are there.
LEMMA TaskTab ==
  ASSUME Sound, NEW i \in DOMAIN tasks,
         tasks[i].kind \in {"load", "query", "structure", "row", "write"}
  PROVE  /\ tasks[i].tab \in DOMAIN tab /\ tab[tasks[i].tab] \in TabSet
         /\ tab[tasks[i].tab].page \in 0 .. MaxPage /\ tab[tasks[i].tab].sort \in BOOLEAN
         /\ (tasks[i].kind = "query") <=> (tab[tasks[i].tab].conn = NULL)
  <1>1. tasks[i].tab \in DOMAIN tab
    BY TaskTyped DEF Concerns
  <1>2. tab \in Seq(TabSet)
    BY DEF Sound, Typed, WindowTyped
  <1>3. tab[tasks[i].tab] \in TabSet
    BY <1>1, <1>2
  <1>4. tab[tasks[i].tab].page \in 0 .. MaxPage /\ tab[tasks[i].tab].sort \in BOOLEAN
    BY <1>3 DEF TabSet
  <1>5. (tasks[i].kind = "query") <=> (tab[tasks[i].tab].conn = NULL)
    BY TaskTyped DEF Concerns
  <1> QED BY <1>1, <1>3, <1>4, <1>5

\* A load begins with the page and the order of its tab.
LEMMA LoadBeginsStep ==
  ASSUME Sound, NEW i, Starts(i, {"load"}), app.driver # 0, Goes(i, LoadWork(i)),
         UNCHANGED <<app, drivers, window, saved, version>>
  PROVE  Step(i, {LoadWork(i)})
  <1>1. i \in DOMAIN tasks /\ tasks[i].pc = "start" /\ Earlier(i) /\ tasks[i].kind = "load"
    BY StartsEarlier
  <1>2. tasks[i] \in TaskSet /\ app \in AppSet
    BY <1>1, TaskTyped, AppTyped DEF Sound
  <1>3. PICK w : w = Work(tasks[i], app)
    OBVIOUS
  <1>4. /\ w \in TaskSet /\ w.kind = tasks[i].kind /\ w.conn = tasks[i].conn
        /\ w.tab = tasks[i].tab /\ w.db = tasks[i].db /\ w.driver = app.driver
        /\ (w.pc = "run" \/ (w.pc = "swap" /\ w.db \in Dbs))
    <2>1. /\ w \in TaskSet /\ w.kind = tasks[i].kind /\ w.conn = tasks[i].conn
          /\ w.tab = tasks[i].tab /\ w.db = tasks[i].db /\ w.driver = app.driver
      BY <1>2, <1>3, WorkTyped
    <2>2. w.pc = "run" \/ (w.pc = "swap" /\ tasks[i].db \in Dbs)
      BY <1>2, <1>3, WorkTyped
    <2> QED BY <2>1, <2>2
  <1>5. PICK t : t = LoadWork(i)
    OBVIOUS
  <1>6. /\ t \in TaskSet /\ t.kind = w.kind /\ t.conn = w.conn /\ t.tab = w.tab
        /\ t.db = w.db /\ t.driver = w.driver /\ t.pc = w.pc
    <2>1. tab[tasks[i].tab].page \in 0 .. MaxPage /\ tab[tasks[i].tab].sort \in BOOLEAN
      BY <1>1, TaskTab
    <2>2. PICK p, s : p = tab[tasks[i].tab].page /\ s = tab[tasks[i].tab].sort
      OBVIOUS
    <2>3. t = Paged(w, p, s)
      BY <1>3, <1>5, <2>2 DEF LoadWork, Paged
    <2>4. w \in TaskSet /\ p \in 0 .. MaxPage /\ s \in BOOLEAN
      BY <1>4, <2>1, <2>2
    <2> QED BY <2>3, <2>4, PageTyped
  <1>7. Goes(i, t)
    BY <1>5
  <1>8. Step(i, {t})
    <2>1. tasks[i].kind \in {"load", "query"}
      BY <1>1
    <2>2. /\ t.kind = tasks[i].kind /\ t.conn = tasks[i].conn /\ t.tab = tasks[i].tab
          /\ t.driver = app.driver /\ (t.pc = "run" \/ (t.pc = "swap" /\ t.db \in Dbs))
      BY <1>4, <1>6
    <2> QED BY <1>1, <1>6, <1>7, <2>1, <2>2, BeginsStep
  <1> QED BY <1>5, <1>8

\* A call is made of the driver there is.
LEMMA CallsStep ==
  ASSUME Sound, NEW i \in DOMAIN tasks, Earlier(i), NEW t \in TaskSet, t.kind = tasks[i].kind,
         t.conn = tasks[i].conn, t.tab = tasks[i].tab,
         t.kind \notin {"connect", "disconnect"}, NEW d \in 0 .. Len(drivers),
         Goes(i, AtWait(t, "run", d)), UNCHANGED <<app, drivers, window, saved, version>>
  PROVE  Step(i, {AtWait(t, "run", d)})
  <1>1. Typed' /\ Grows
    BY AllSame DEF Sound
  <1>2. d \in Nat /\ "run" \in Pcs
    <2>1. Len(drivers) \in Nat
      BY DEF Sound, Typed, SessionTyped
    <2> QED BY <2>1 DEF Pcs
  <1>3. PICK u : u = AtWait(t, "run", d)
    OBVIOUS
  <1>4. /\ u \in TaskSet /\ u.kind = t.kind /\ u.conn = t.conn /\ u.tab = t.tab
        /\ u.pc = "run" /\ u.driver = d
    BY <1>2, <1>3, AtWaitTyped
  <1>5. u.driver \in 0 .. Len(drivers')
    BY <1>4
  <1>6. u.pc # "start" /\ Reaches(u)
    BY <1>4 DEF Reaches
  <1>7. Step(i, {u})
    BY <1>1, <1>3, <1>4, <1>5, <1>6, GoesStep
  <1> QED BY <1>3, <1>7

\* An error is shown.
Failed(u) == [u EXCEPT !.grid = "error"]

\* A tab that shows an error keeps all else.
LEMMA FailedTyped ==
  ASSUME NEW u \in TabSet
  PROVE  /\ Failed(u) \in TabSet /\ Failed(u).conn = u.conn /\ Failed(u).db = u.db
         /\ Failed(u).nr = u.nr /\ Failed(u).page = u.page /\ Failed(u).sort = u.sort
         /\ Failed(u).grid = "error" /\ Failed(u).shown = u.shown /\ Failed(u).wrote = u.wrote
  <1>1. Failed(u) \in TabSet
    BY DEF Failed, TabSet
  <1>2. /\ Failed(u).conn = u.conn /\ Failed(u).db = u.db
        /\ Failed(u).nr = u.nr /\ Failed(u).page = u.page /\ Failed(u).sort = u.sort
    BY DEF Failed, TabSet
  <1>3. Failed(u).grid = "error" /\ Failed(u).shown = u.shown /\ Failed(u).wrote = u.wrote
    BY DEF Failed, TabSet
  <1> QED BY <1>1, <1>2, <1>3

\* The tab of a load or a query that fails.
LEMMA FailedTab ==
  ASSUME Sound, NEW i \in DOMAIN tasks, Fails(i)
  PROVE  /\ tasks[i].kind \in {"load", "query"} =>
              tab' = [tab EXCEPT ![tasks[i].tab] = Failed(tab[tasks[i].tab])]
         /\ tasks[i].kind \notin {"load", "query"} => tab' = tab
         /\ UNCHANGED <<app, drivers, tabs, pages, saved, version>> /\ Ends(i, <<>>)
  <1>1. tasks[i].kind \in {"load", "query"} =>
          tab' = [tab EXCEPT ![tasks[i].tab] = Failed(tab[tasks[i].tab])]
    BY DEF Fails, Failed
  <1>2. tasks[i].kind \notin {"load", "query"} => tab' = tab
    BY DEF Fails
  <1>3. UNCHANGED <<app, drivers, tabs, pages, saved, version>> /\ Ends(i, <<>>)
    BY DEF Fails
  <1> QED BY <1>1, <1>2, <1>3

\* A future that fails ends, and spawns none.
LEMMA FailsStep ==
  ASSUME Sound, NEW i \in DOMAIN tasks, Fails(i)
  PROVE  Step(i, {})
  <1>1. Typed' /\ Grows
    <2>1. CASE tasks[i].kind \in {"load", "query"}
      <3>1. PICK n : n = tasks[i].tab
        OBVIOUS
      <3>2. n \in DOMAIN tab /\ tab[n] \in TabSet
        BY <2>1, <3>1, TaskTab
      <3>3. PICK u : u = Failed(tab[n])
        OBVIOUS
      <3>4. u \in TabSet /\ u.conn = tab[n].conn /\ u.db = tab[n].db /\ u.nr = tab[n].nr
        BY <3>2, <3>3, FailedTyped
      <3>5. u.nr >= tab[n].nr
        BY <3>2, <3>4, SameNumber DEF Sound
      <3>6. tab' = [tab EXCEPT ![n] = u] /\ UNCHANGED <<tabs, pages>>
        BY <2>1, <3>1, <3>3, FailedTab
      <3>7. WindowTyped' /\ TabGrows
        BY <3>2, <3>4, <3>5, <3>6, TabChanged DEF Sound
      <3> QED BY <3>7, FailedTab, TabOnly DEF Sound
    <2>2. CASE tasks[i].kind \notin {"load", "query"}
      <3>1. UNCHANGED window
        BY <2>2, FailedTab DEF window
      <3> QED BY <3>1, FailedTab, AllSame DEF Sound
    <2> QED BY <2>1, <2>2
  <1>2. Ends(i, <<>>)
    BY FailedTab
  <1> QED BY <1>1, <1>2, EndsAlone

\* The tabs of a connection are closed.
LEMMA CloseForTyped ==
  ASSUME Typed, NEW c, CloseFor(c)
  PROVE  tabs' \in Seq(DOMAIN tab) /\ pages' \in Seq(DOMAIN tab)
  <1>1. tabs \in Seq(DOMAIN tab) /\ pages \in Seq(DOMAIN tab)
    BY DEF Typed, WindowTyped
  <1>2. PICK mine : tabs' = Without(tabs, mine) /\ pages' = Without(pages, mine)
    BY DEF CloseFor
  <1> QED BY <1>1, <1>2, WithoutKeeps

\* The saved connections are connections.
LEMMA SavedConns ==
  ASSUME Typed
  PROVE  Range(saved) \subseteq Conns
  BY DEF Typed, SavedTyped, Range

\* What a disconnect ends with, whatever was made active meanwhile.
LEMMA DisconnectEndsStep ==
  ASSUME Sound, NEW i \in DOMAIN tasks, SessionTyped', DriversGrow, CloseFor(tasks[i].conn),
         UNCHANGED <<tab, saved, version>>, NEW new, NEW kinds, Ends(i, new),
         Typed' => Fresh(new, kinds)
  PROVE  Step(i, Range(new))
  <1>1. WindowTyped' /\ TabGrows
    BY CloseForTyped, TabsCut DEF Sound
  <1>2. SavedTyped'
    BY SavedSame DEF Sound
  <1>3. VersionTyped' /\ VersionGrows
    BY VersionSame DEF Sound
  <1>4. Typed' /\ Grows
    BY <1>1, <1>2, <1>3 DEF Typed, Grows
  <1> QED BY <1>4, EndsFresh

\* A disconnect of no session ends at once.
LEMMA DisconnectedStep ==
  ASSUME Sound, NEW i, Starts(i, {"disconnect"}), app' = NoApp, Disconnected(i), UNCHANGED drivers
  PROVE  Step(i, Range(DatabasesTask(NoApp)))
  <1>1. i \in DOMAIN tasks
    BY StartsEarlier
  <1>2. SessionTyped' /\ DriversGrow
    BY SessionDropped DEF Sound
  <1>3. PICK new : new = DatabasesTask(NoApp)
    OBVIOUS
  <1>4. Typed' => Fresh(new, {"databases"})
    BY <1>3, DatabasesFresh, NoAppTyped
  <1>5. /\ CloseFor(tasks[i].conn) /\ UNCHANGED <<tab, saved, version>> /\ Ends(i, new)
    BY <1>3 DEF Disconnected, Same
  <1>6. Step(i, Range(new))
    BY <1>1, <1>2, <1>4, <1>5, DisconnectEndsStep
  <1> QED BY <1>3, <1>6

\* A disconnect ends when the pool is closed.
LEMMA LeavesDisconnectStep ==
  ASSUME Sound, NEW i, Leave(i), tasks[i].kind = "disconnect"
  PROVE  Step(i, Range(SchemaTask(app, saved) \o DatabasesTask(app)))
  <1>1. i \in DOMAIN tasks
    BY DEF Leave, At
  <1>2. SessionTyped' /\ DriversGrow
    <2>1. PICK d : d = tasks[i].driver
      OBVIOUS
    <2>2. d \in 0 .. Len(drivers)
      BY <1>1, <2>1, TaskTyped
    <2>3. Closed \in PoolSet
      BY DEF PoolSet
    <2>4. Pooled(d, Closed) /\ UNCHANGED app
      BY <2>1 DEF Leave, Pooled
    <2> QED BY <2>2, <2>3, <2>4, PoolChanged DEF Sound
  <1>3. PICK a, list : a = app /\ list = saved
    OBVIOUS
  <1>4. a \in AppSet /\ Range(list) \subseteq Conns
    BY <1>3, AppTyped, SavedConns DEF Sound
  <1>5. PICK new : new = SchemaTask(a, list) \o DatabasesTask(a)
    OBVIOUS
  <1>6. Typed' => Fresh(new, {"schema"} \cup {"databases"})
    BY <1>4, <1>5, SchemaFresh, DatabasesFresh, BothFresh
  <1>7. /\ CloseFor(tasks[i].conn) /\ UNCHANGED <<tab, saved, version>> /\ Ends(i, new)
    BY <1>3, <1>5 DEF Leave, Same
  <1>8. Step(i, Range(new))
    BY <1>1, <1>2, <1>6, <1>7, DisconnectEndsStep
  <1> QED BY <1>3, <1>5, <1>8

\* Who disconnects drops the session first.
LEMMA DropsStep ==
  ASSUME Sound, NEW i, Starts(i, {"disconnect"}), app.driver # 0, app' = NoApp,
         Goes(i, AtWait(tasks[i], "leave", app.driver)),
         UNCHANGED <<drivers, window, saved, version>>
  PROVE  Step(i, {AtWait(tasks[i], "leave", app.driver)})
  <1>1. /\ i \in DOMAIN tasks /\ tasks[i].pc = "start" /\ Earlier(i)
        /\ tasks[i].kind = "disconnect"
    BY StartsEarlier
  <1>2. tasks[i] \in TaskSet /\ "leave" \in Pcs
    BY <1>1, TaskTyped DEF Pcs
  <1>3. Typed /\ app.driver \in Nat /\ app.driver \in 0 .. Len(drivers)
    BY AppTyped DEF Sound
  <1>4. PICK t : t = AtWait(tasks[i], "leave", app.driver)
    OBVIOUS
  <1>5. Typed' /\ Grows
    <2>1. SessionTyped' /\ DriversGrow
      BY <1>3, SessionDropped
    <2> QED BY <1>3, <2>1, SessionOnly
  <1>6. /\ t \in TaskSet /\ t.kind = tasks[i].kind /\ t.conn = tasks[i].conn
        /\ t.tab = tasks[i].tab /\ t.pc = "leave" /\ t.driver = app.driver
    BY <1>2, <1>3, <1>4, AtWaitTyped
  <1>7. t.driver \in 0 .. Len(drivers')
    BY <1>3, <1>6
  <1>8. t.pc # "start" /\ Reaches(t)
    BY <1>1, <1>6 DEF Reaches
  <1>9. Step(i, {t})
    BY <1>1, <1>4, <1>5, <1>6, <1>7, <1>8, GoesStep
  <1> QED BY <1>4, <1>9

\* The future i with another program counter.
Pc(i, pc) == AtWait(tasks[i], pc, tasks[i].driver)

\* All else of it stays.
LEMMA PcTyped ==
  ASSUME Sound, NEW i \in DOMAIN tasks, NEW pc \in Pcs
  PROVE  /\ Pc(i, pc) \in TaskSet /\ [tasks[i] EXCEPT !.pc = pc] = Pc(i, pc)
         /\ Pc(i, pc).kind = tasks[i].kind /\ Pc(i, pc).conn = tasks[i].conn
         /\ Pc(i, pc).tab = tasks[i].tab /\ Pc(i, pc).db = tasks[i].db
         /\ Pc(i, pc).pc = pc /\ Pc(i, pc).driver = tasks[i].driver
         /\ Pc(i, pc).parts = tasks[i].parts
  <1>1. tasks[i] \in TaskSet
    BY TaskTyped
  <1>2. tasks[i].driver \in Nat
    BY <1>1 DEF TaskSet
  <1>3. [tasks[i] EXCEPT !.pc = pc] = Pc(i, pc)
    BY <1>1, PcOnly DEF Pc
  <1>4. /\ Pc(i, pc) \in TaskSet
        /\ Pc(i, pc).kind = tasks[i].kind /\ Pc(i, pc).conn = tasks[i].conn
        /\ Pc(i, pc).tab = tasks[i].tab /\ Pc(i, pc).db = tasks[i].db
        /\ Pc(i, pc).pc = pc /\ Pc(i, pc).driver = tasks[i].driver
        /\ Pc(i, pc).parts = tasks[i].parts
    BY <1>1, <1>2, AtWaitTyped DEF Pc
  <1> QED BY <1>3, <1>4

\* A future that only goes to its next wait.
LEMMA PcStep ==
  ASSUME Sound, NEW i \in DOMAIN tasks, tasks[i].pc # "start", NEW pc \in Pcs \ {"start"},
         Goes(i, Pc(i, pc)), Typed', Grows, Reaches(Pc(i, pc))
  PROVE  Step(i, {Pc(i, pc)})
  <1>1. PICK t : t = Pc(i, pc)
    OBVIOUS
  <1>2. /\ t \in TaskSet /\ t.kind = tasks[i].kind /\ t.conn = tasks[i].conn
        /\ t.tab = tasks[i].tab /\ t.pc = pc /\ t.driver = tasks[i].driver
    BY <1>1, PcTyped
  <1>3. t.driver \in 0 .. Len(drivers')
    <2>1. Fits(tasks[i])
      BY TaskTyped
    <2>2. PICK u : u = tasks[i]
      OBVIOUS
    <2>3. Fits(u)'
      BY <2>1, <2>2, FitsStays DEF Sound
    <2> QED BY <1>2, <2>2, <2>3 DEF Fits
  <1>4. Earlier(i)
    BY PolledEarlier
  <1>5. Step(i, {t})
    BY <1>1, <1>2, <1>3, <1>4, GoesStep
  <1> QED BY <1>1, <1>5

\* A connect goes on when the pool is closed.
LEMMA LeavesStep ==
  ASSUME Sound, NEW i, Leave(i), tasks[i].kind # "disconnect"
  PROVE  Step(i, {Pc(i, "dial")})
  <1>1. i \in DOMAIN tasks /\ tasks[i].pc = "leave" /\ "dial" \in Pcs
    BY DEF Leave, At, Pcs
  <1>2. SessionTyped' /\ DriversGrow
    <2>1. PICK d : d = tasks[i].driver
      OBVIOUS
    <2>2. d \in 0 .. Len(drivers)
      BY <1>1, <2>1, TaskTyped
    <2>3. Closed \in PoolSet
      BY DEF PoolSet
    <2>4. Pooled(d, Closed) /\ UNCHANGED app
      BY <2>1 DEF Leave, Pooled
    <2> QED BY <2>2, <2>3, <2>4, PoolChanged DEF Sound
  <1>3. Typed' /\ Grows
    BY <1>2, SessionOnly DEF Sound, Leave, Same
  <1>4. Goes(i, Pc(i, "dial"))
    <2>1. Goes(i, [tasks[i] EXCEPT !.pc = "dial"])
      BY DEF Leave
    <2> QED BY <1>1, <2>1, PcTyped
  <1>5. Reaches(Pc(i, "dial"))
    <2>1. Reaches(tasks[i])
      BY <1>1, TaskTyped
    <2>2. Pc(i, "dial").pc = "dial" /\ Pc(i, "dial").kind = tasks[i].kind
      BY <1>1, PcTyped
    <2> QED BY <1>1, <2>1, <2>2 DEF Reaches
  <1> QED BY <1>1, <1>3, <1>4, <1>5, PcStep

\* The pool of a driver is changed.
LEMMA SwapsStep ==
  ASSUME Sound, NEW i, Swap(i)
  PROVE  Step(i, {Pc(i, "note")})
  <1>1. i \in DOMAIN tasks /\ tasks[i].pc = "swap" /\ "note" \in Pcs
    BY DEF Swap, At, Pcs
  <1>2. tasks[i].kind \in {"load", "query"} /\ tasks[i].db \in Dbs
    <2>1. Reaches(tasks[i])
      BY <1>1, TaskTyped
    <2> QED BY <1>1, <2>1 DEF Reaches
  <1>3. SessionTyped' /\ DriversGrow
    <2>1. PICK d, p : d = tasks[i].driver /\ p = tasks[i].db
      OBVIOUS
    <2>2. d \in 0 .. Len(drivers)
      BY <1>1, <2>1, TaskTyped
    <2>3. p \in PoolSet
      BY <1>2, <2>1 DEF PoolSet
    <2>4. Pooled(d, p) /\ UNCHANGED app
      BY <2>1 DEF Swap, Pooled
    <2> QED BY <2>2, <2>3, <2>4, PoolChanged DEF Sound
  <1>4. Typed' /\ Grows
    BY <1>3, SessionOnly DEF Sound, Swap, Same
  <1>5. Goes(i, Pc(i, "note"))
    <2>1. Goes(i, [tasks[i] EXCEPT !.pc = "note"])
      BY DEF Swap
    <2> QED BY <1>1, <2>1, PcTyped
  <1>6. Reaches(Pc(i, "note"))
    <2>1. /\ Pc(i, "note").pc = "note" /\ Pc(i, "note").kind = tasks[i].kind
          /\ Pc(i, "note").db = tasks[i].db
      BY <1>1, PcTyped
    <2> QED BY <1>2, <2>1 DEF Reaches
  <1> QED BY <1>1, <1>4, <1>5, <1>6, PcStep

\* What a new session is followed by.
Landing(a) == SchemaTask(a, saved) \o DatabasesTask(a)

\* They fit.
LEMMA LandingFresh ==
  ASSUME Typed, Typed', NEW a \in AppSet
  PROVE  /\ Fresh(Landing(a), {"schema", "databases"})
         /\ \A u \in Range(Landing(a)) : u.kind = "schema" => u.conn = a.id
  <1>1. PICK list : list = saved
    OBVIOUS
  <1>2. Range(list) \subseteq Conns
    BY <1>1, SavedConns
  <1>3. PICK s, d : s = SchemaTask(a, list) /\ d = DatabasesTask(a)
    OBVIOUS
  <1>4. Fresh(s, {"schema"}) /\ \A u \in Range(s) : u.conn = a.id
    BY <1>2, <1>3, SchemaFresh
  <1>5. Fresh(d, {"databases"})
    BY <1>3, DatabasesFresh
  <1>6. Fresh(s \o d, {"schema"} \cup {"databases"}) /\ Range(s \o d) = Range(s) \cup Range(d)
    BY <1>4, <1>5, BothFresh
  <1>7. {"schema"} \cup {"databases"} = {"schema", "databases"}
    OBVIOUS
  <1>8. \A u \in Range(d) : u.kind = "databases"
    BY <1>5 DEF Fresh
  <1>9. Landing(a) = s \o d
    BY <1>1, <1>3 DEF Landing
  <1> QED BY <1>4, <1>6, <1>7, <1>8, <1>9

\* The new session is of its type.
LEMMA DialSession ==
  ASSUME Sound, NEW i, Dial(i)
  PROVE  /\ i \in DOMAIN tasks /\ tasks[i].pc = "dial" /\ tasks[i].conn \in Conns
         /\ tasks[i].kind \in {"connect", "query"}
         /\ drivers' = Append(drivers, [conn |-> tasks[i].conn, pool |-> Configured[tasks[i].conn]])
         /\ app' = [id |-> tasks[i].conn, driver |-> Len(drivers) + 1,
                    db |-> Configured[tasks[i].conn]]
         /\ Typed' /\ Grows /\ app' \in AppSet
  <1>1. i \in DOMAIN tasks /\ tasks[i].pc = "dial"
    BY DEF Dial, At
  <1>2. tasks[i].kind \in {"connect", "query"}
    <2>1. Reaches(tasks[i])
      BY <1>1, TaskTyped
    <2> QED BY <1>1, <2>1 DEF Reaches
  <1>3. tasks[i].conn \in Conns
    <2>1. Concerns(tasks[i])
      BY <1>1, TaskTyped
    <2> QED BY <1>2, <2>1 DEF Concerns
  <1>4. /\ drivers' = Append(drivers, [conn |-> tasks[i].conn, pool |-> Configured[tasks[i].conn]])
        /\ app' = [id |-> tasks[i].conn, driver |-> Len(drivers) + 1,
                   db |-> Configured[tasks[i].conn]]
    BY DEF Dial
  <1>5. SessionTyped' /\ DriversGrow /\ app' \in AppSet
    <2>1. PICK c : c = tasks[i].conn
      OBVIOUS
    <2>2. c \in Conns
      BY <1>3, <2>1
    <2>3. /\ drivers' = Append(drivers, [conn |-> c, pool |-> Configured[c]])
          /\ app' = [id |-> c, driver |-> Len(drivers) + 1, db |-> Configured[c]]
      BY <1>4, <2>1
    <2> QED BY <2>2, <2>3, DriverMade DEF Sound
  <1>6. Typed' /\ Grows
    BY <1>5, SessionOnly DEF Sound, Dial, Same
  <1> QED BY <1>1, <1>2, <1>3, <1>4, <1>5, <1>6

\* A connect ends with it.
LEMMA DialsConnectStep ==
  ASSUME Sound, NEW i, Dial(i), tasks[i].kind = "connect", NEW a, a = app'
  PROVE  Step(i, Range(Landing(a)))
  <1>1. i \in DOMAIN tasks /\ Typed' /\ Grows /\ a \in AppSet
    BY DialSession
  <1>2. PICK new : new = Landing(a)
    OBVIOUS
  <1>3. Fresh(new, {"schema", "databases"})
    BY <1>1, <1>2, LandingFresh DEF Sound
  <1>4. Ends(i, new)
    BY <1>2 DEF Dial, Landing
  <1>5. Step(i, Range(new))
    BY <1>1, <1>3, <1>4, EndsFresh
  <1> QED BY <1>2, <1>5

\* A query goes on in it.
LEMMA DialsQueryStep ==
  ASSUME Sound, NEW i, Dial(i), tasks[i].kind # "connect", NEW a, a = app'
  PROVE  Step(i, {Work(tasks[i], a)} \cup Range(Landing(a)))
  <1>1. /\ i \in DOMAIN tasks /\ tasks[i].pc = "dial" /\ tasks[i].kind \in {"connect", "query"}
        /\ Typed' /\ Grows /\ a \in AppSet
    BY DialSession
  <1>2. tasks[i].kind = "query" /\ tasks[i] \in TaskSet /\ Earlier(i)
    BY <1>1, TaskTyped, PolledEarlier
  <1>3. PICK new : new = Landing(a)
    OBVIOUS
  <1>4. Fresh(new, {"schema", "databases"})
    BY <1>1, <1>3, LandingFresh DEF Sound
  <1>5. PICK t : t = Work(tasks[i], a)
    OBVIOUS
  <1>6. /\ t \in TaskSet /\ t.kind = tasks[i].kind /\ t.conn = tasks[i].conn
        /\ t.tab = tasks[i].tab /\ t.driver = a.driver
        /\ (t.pc = "run" \/ (t.pc = "swap" /\ t.db \in Dbs))
    <2>1. /\ t \in TaskSet /\ t.kind = tasks[i].kind /\ t.conn = tasks[i].conn
          /\ t.tab = tasks[i].tab /\ t.driver = a.driver /\ t.db = tasks[i].db
      BY <1>1, <1>2, <1>5, WorkTyped
    <2>2. t.pc = "run" \/ (t.pc = "swap" /\ tasks[i].db \in Dbs)
      BY <1>1, <1>2, <1>5, WorkTyped
    <2> QED BY <2>1, <2>2
  <1>7. t.pc # "start" /\ Reaches(t)
    BY <1>2, <1>6 DEF Reaches
  <1>8. t.driver \in 0 .. Len(drivers')
    <2>1. app'.driver \in 0 .. Len(drivers')
      BY <1>1 DEF Typed, SessionTyped
    <2> QED BY <1>6, <2>1
  <1>9. tasks' = [tasks EXCEPT ![i] = t] \o new
    BY <1>2, <1>3, <1>5 DEF Dial, Landing
  <1>10. new \in Seq(TaskSet) /\ \A u \in Range(new) : u.pc = "start" /\ Fits(u)'
    BY <1>4 DEF Fresh
  <1>11. Step(i, {t} \cup Range(new))
    BY <1>1, <1>2, <1>6, <1>7, <1>8, <1>9, <1>10, GoesSpawningStep
  <1> QED BY <1>3, <1>5, <1>11

\* The database is noted for the session there is.
LEMMA NoteSession ==
  ASSUME Sound, NEW i, Note(i)
  PROVE  /\ i \in DOMAIN tasks /\ tasks[i].pc = "note" /\ tasks[i].db \in Dbs
         /\ tasks[i].kind \in {"load", "query"}
         /\ app' \in AppSet /\ app'.id = app.id /\ app'.driver = app.driver
         /\ app'.db = IF app.driver = 0 THEN app.db ELSE tasks[i].db
         /\ Typed' /\ Grows
  <1>1. i \in DOMAIN tasks /\ tasks[i].pc = "note"
    BY DEF Note, At
  <1>2. tasks[i].kind \in {"load", "query"} /\ tasks[i].db \in Dbs
    <2>1. Reaches(tasks[i])
      BY <1>1, TaskTyped
    <2> QED BY <1>1, <2>1 DEF Reaches
  <1>3. app \in AppSet
    BY AppTyped DEF Sound
  <1>4. /\ app' \in AppSet /\ app'.id = app.id /\ app'.driver = app.driver
        /\ app'.db = IF app.driver = 0 THEN app.db ELSE tasks[i].db
        /\ app.driver = 0 => app' = app
    <2>1. app' = IF app.driver = 0 THEN app ELSE [app EXCEPT !.db = tasks[i].db]
      BY DEF Note
    <2> QED BY <1>2, <1>3, <2>1 DEF AppSet
  <1>5. UNCHANGED <<drivers, window, saved, version>>
    BY DEF Note, Same
  <1>6. SessionTyped' /\ DriversGrow
    <2>1. drivers \in Seq(DriverSet) /\ app.driver \in 0 .. Len(drivers) /\ ActiveIsOne
      BY DEF Sound, Typed, SessionTyped
    <2>2. ActiveIsOne'
      BY <1>4, <1>5, <2>1 DEF ActiveIsOne
    <2>3. SessionTyped'
      BY <1>4, <1>5, <2>1, <2>2 DEF SessionTyped
    <2>4. Len(drivers) <= Len(drivers)
      BY <2>1
    <2> QED BY <1>5, <2>3, <2>4 DEF DriversGrow
  <1>7. Typed' /\ Grows
    BY <1>5, <1>6, SessionOnly DEF Sound
  <1> QED BY <1>1, <1>2, <1>4, <1>7

\* The future goes on, and a list of databases is spawned.
LEMMA NotesStep ==
  ASSUME Sound, NEW i, Note(i), NEW a, a = app'
  PROVE  Step(i, {AtWait(tasks[i], "run", app.driver)} \cup Range(DatabasesTask(a)))
  <1>1. /\ i \in DOMAIN tasks /\ tasks[i].pc = "note" /\ tasks[i].kind \in {"load", "query"}
        /\ Typed' /\ Grows /\ a \in AppSet /\ a.driver = app.driver
    BY NoteSession
  <1>2. tasks[i] \in TaskSet /\ Earlier(i) /\ "run" \in Pcs /\ app.driver \in Nat
    BY <1>1, TaskTyped, PolledEarlier, AppTyped DEF Pcs, Sound
  <1>3. PICK new : new = DatabasesTask(a)
    OBVIOUS
  <1>4. Fresh(new, {"databases"})
    BY <1>1, <1>3, DatabasesFresh
  <1>5. PICK t : t = AtWait(tasks[i], "run", app.driver)
    OBVIOUS
  <1>6. /\ t \in TaskSet /\ t.kind = tasks[i].kind /\ t.conn = tasks[i].conn
        /\ t.tab = tasks[i].tab /\ t.driver = app.driver /\ t.pc = "run"
    BY <1>2, <1>5, AtWaitTyped
  <1>7. t.pc # "start" /\ Reaches(t)
    BY <1>1, <1>6 DEF Reaches
  <1>8. t.driver \in 0 .. Len(drivers')
    <2>1. app'.driver \in 0 .. Len(drivers')
      BY <1>1 DEF Typed, SessionTyped
    <2> QED BY <1>1, <1>6, <2>1
  <1>9. tasks' = [tasks EXCEPT ![i] = t] \o new
    BY <1>3, <1>5 DEF Note, AtWait
  <1>10. new \in Seq(TaskSet) /\ \A u \in Range(new) : u.pc = "start" /\ Fits(u)'
    BY <1>4 DEF Fresh
  <1>11. Step(i, {t} \cup Range(new))
    BY <1>1, <1>2, <1>6, <1>7, <1>8, <1>9, <1>10, GoesSpawningStep
  <1> QED BY <1>3, <1>5, <1>11

-----------------------------------------------------------------------------
(* The answers.                                                            *)

\* The place of a driver, and what its catalog reads are about.
LEMMA PlaceTyped ==
  ASSUME Sound, NEW i \in DOMAIN tasks, tasks[i].driver # 0
  PROVE  /\ tasks[i].driver \in DOMAIN drivers
         /\ Place(tasks[i].driver) \in Spot /\ Named(i) \in Spot
         /\ (Pool(i) # Closed /\ Pool(i) # "") => Place(tasks[i].driver) \in Conns \X Dbs
         /\ Place(tasks[i].driver)[1] = drivers[tasks[i].driver].conn
         /\ Place(tasks[i].driver)[2] = Pool(i)
  <1>1. drivers \in Seq(DriverSet) /\ tasks[i].driver \in 0 .. Len(drivers)
    BY TaskTyped DEF Sound, Typed, SessionTyped
  <1>2. PICK d : d = tasks[i].driver
    OBVIOUS
  <1>3. d \in DOMAIN drivers /\ drivers[d] \in DriverSet
    BY <1>1, <1>2
  <1>4. drivers[d].conn \in Conns /\ drivers[d].pool \in PoolSet
    BY <1>3 DEF DriverSet
  <1>5. Place(d) \in Spot
    BY <1>4 DEF Place, Spot
  <1>6. Named(i) \in Spot
    <2>1. tasks[i].db \in Dbs \cup {""}
      BY TaskTyped DEF TaskSet
    <2>2. tasks[i].db \in PoolSet
      BY <2>1 DEF PoolSet
    <2>3. <<drivers[d].conn, tasks[i].db>> \in Spot
      BY <1>4, <2>2 DEF Spot
    <2> QED BY <1>2, <1>5, <2>3 DEF Named
  <1>7. Pool(i) = drivers[d].pool
    BY <1>2 DEF Pool
  <1>8. (Pool(i) # Closed /\ Pool(i) # "") => Place(d) \in Conns \X Dbs
    BY <1>4, <1>7 DEF Place, PoolSet
  <1>9. Place(d)[1] = drivers[d].conn /\ Place(d)[2] = Pool(i)
    BY <1>7 DEF Place
  <1> QED BY <1>2, <1>3, <1>5, <1>6, <1>8, <1>9

\* A pool that is open has a driver.
LEMMA OpenPool ==
  ASSUME NEW i, Pool(i) # Closed
  PROVE  tasks[i].driver # 0
  BY DEF Pool

\* A future with an answer.
Got(t, from, v) == [t EXCEPT !.pc = "show", !.from = from, !.version = v]
WroteAt(t, parts, v) == [t EXCEPT !.pc = "show", !.parts = parts, !.version = v]
Learnt(t, pc, parts, d) == [t EXCEPT !.parts = parts, !.driver = d, !.pc = pc]

\* All else of the future stays.
LEMMA GotTyped ==
  ASSUME NEW t \in TaskSet, NEW from \in Spot \cup {NULL}, NEW v \in Nat
  PROVE  /\ Got(t, from, v) \in TaskSet
         /\ Got(t, from, v).kind = t.kind /\ Got(t, from, v).conn = t.conn
         /\ Got(t, from, v).tab = t.tab /\ Got(t, from, v).db = t.db
         /\ Got(t, from, v).driver = t.driver /\ Got(t, from, v).id = t.id
         /\ Got(t, from, v).page = t.page /\ Got(t, from, v).sort = t.sort
         /\ Got(t, from, v).nr = t.nr /\ Got(t, from, v).pc = "show"
         /\ Got(t, from, v).from = from /\ Got(t, from, v).version = v
  <1>1. Got(t, from, v) \in TaskSet
    BY DEF Got, TaskSet, Pcs
  <1>2. /\ Got(t, from, v).kind = t.kind /\ Got(t, from, v).conn = t.conn
        /\ Got(t, from, v).tab = t.tab /\ Got(t, from, v).db = t.db
        /\ Got(t, from, v).driver = t.driver /\ Got(t, from, v).id = t.id
    BY DEF Got, TaskSet
  <1>3. /\ Got(t, from, v).page = t.page /\ Got(t, from, v).sort = t.sort
        /\ Got(t, from, v).nr = t.nr /\ Got(t, from, v).pc = "show"
        /\ Got(t, from, v).from = from /\ Got(t, from, v).version = v
    BY DEF Got, TaskSet
  <1> QED BY <1>1, <1>2, <1>3

\* All else of the future stays.
LEMMA WroteTyped ==
  ASSUME NEW t \in TaskSet, NEW parts \in PartSet, NEW v \in Nat
  PROVE  /\ WroteAt(t, parts, v) \in TaskSet
         /\ WroteAt(t, parts, v).kind = t.kind /\ WroteAt(t, parts, v).conn = t.conn
         /\ WroteAt(t, parts, v).tab = t.tab /\ WroteAt(t, parts, v).db = t.db
         /\ WroteAt(t, parts, v).driver = t.driver /\ WroteAt(t, parts, v).pc = "show"
         /\ WroteAt(t, parts, v).parts = parts /\ WroteAt(t, parts, v).version = v
         /\ WroteAt(t, parts, v).nr = t.nr
  <1>1. WroteAt(t, parts, v) \in TaskSet
    BY DEF WroteAt, TaskSet, Pcs
  <1>2. /\ WroteAt(t, parts, v).kind = t.kind /\ WroteAt(t, parts, v).conn = t.conn
        /\ WroteAt(t, parts, v).tab = t.tab /\ WroteAt(t, parts, v).db = t.db
        /\ WroteAt(t, parts, v).driver = t.driver /\ WroteAt(t, parts, v).pc = "show"
    BY DEF WroteAt, TaskSet
  <1>3. /\ WroteAt(t, parts, v).parts = parts /\ WroteAt(t, parts, v).version = v
        /\ WroteAt(t, parts, v).nr = t.nr
    BY DEF WroteAt, TaskSet
  <1> QED BY <1>1, <1>2, <1>3

\* All else of the future stays.
LEMMA LearntTyped ==
  ASSUME NEW t \in TaskSet, NEW pc \in Pcs, NEW parts \in PartSet, NEW d \in Nat
  PROVE  /\ Learnt(t, pc, parts, d) \in TaskSet
         /\ Learnt(t, pc, parts, d).kind = t.kind /\ Learnt(t, pc, parts, d).conn = t.conn
         /\ Learnt(t, pc, parts, d).tab = t.tab /\ Learnt(t, pc, parts, d).db = t.db
         /\ Learnt(t, pc, parts, d).driver = d /\ Learnt(t, pc, parts, d).pc = pc
         /\ Learnt(t, pc, parts, d).parts = parts /\ Learnt(t, pc, parts, d).nr = t.nr
  <1>1. Learnt(t, pc, parts, d) \in TaskSet
    BY DEF Learnt, TaskSet
  <1>2. /\ Learnt(t, pc, parts, d).kind = t.kind /\ Learnt(t, pc, parts, d).conn = t.conn
        /\ Learnt(t, pc, parts, d).tab = t.tab /\ Learnt(t, pc, parts, d).db = t.db
        /\ Learnt(t, pc, parts, d).driver = d /\ Learnt(t, pc, parts, d).pc = pc
        /\ Learnt(t, pc, parts, d).parts = parts /\ Learnt(t, pc, parts, d).nr = t.nr
    BY DEF Learnt, TaskSet
  <1> QED BY <1>1, <1>2

\* A future that has been polled goes on with its answer.
LEMMA AnsweredStep ==
  ASSUME Sound, NEW i \in DOMAIN tasks, tasks[i].pc # "start", NEW t \in TaskSet, Goes(i, t),
         t.kind = tasks[i].kind, t.conn = tasks[i].conn, t.tab = tasks[i].tab,
         t.pc # "start", Reaches(t), t.driver \in 0 .. Len(drivers),
         UNCHANGED <<app, drivers, window, saved>>, VersionTyped', VersionGrows
  PROVE  Step(i, {t})
  <1>1. SessionTyped' /\ DriversGrow
    BY SessionSame DEF Sound
  <1>2. WindowTyped' /\ TabGrows
    BY WindowSame DEF Sound
  <1>3. SavedTyped'
    BY SavedSame DEF Sound
  <1>4. Typed' /\ Grows
    BY <1>1, <1>2, <1>3 DEF Typed, Grows
  <1>5. Earlier(i)
    BY PolledEarlier
  <1>6. t.driver \in 0 .. Len(drivers')
    OBVIOUS
  <1> QED BY <1>4, <1>5, <1>6, GoesStep

RunsTask(i) ==
  Got(tasks[i], Place(tasks[i].driver), IF Pool(i) = "" THEN 0 ELSE version[Place(tasks[i].driver)])

\* A statement is answered.
LEMMA RunsStep ==
  ASSUME Sound, NEW i, Runs(i)
  PROVE  /\ Step(i, {RunsTask(i)}) /\ i \in DOMAIN tasks /\ tasks[i].driver # 0
         /\ tasks[i].kind \in {"load", "query"} /\ tasks[i].pc = "run"
         /\ (IF Pool(i) = "" THEN 0 ELSE version[Place(tasks[i].driver)]) \in Nat
  <1>1. /\ i \in DOMAIN tasks /\ tasks[i].pc = "run" /\ tasks[i].kind \in {"load", "query"}
        /\ Pool(i) # Closed /\ UNCHANGED <<app, drivers, window, saved, version>>
    BY DEF Runs, Answers, At
  <1>2. tasks[i].driver # 0
    BY <1>1, OpenPool
  <1>3. PICK from, v : /\ from = Place(tasks[i].driver)
                       /\ v = IF Pool(i) = "" THEN 0 ELSE version[Place(tasks[i].driver)]
    OBVIOUS
  <1>4. from \in Spot \cup {NULL}
    BY <1>1, <1>2, <1>3, PlaceTyped
  <1>5. v \in Nat
    <2>1. version \in [Conns \X Dbs -> Nat]
      BY DEF Sound, Typed, VersionTyped
    <2>2. Pool(i) # "" => Place(tasks[i].driver) \in Conns \X Dbs
      BY <1>1, <1>2, PlaceTyped
    <2> QED BY <1>3, <2>1, <2>2
  <1>6. PICK t : t = Got(tasks[i], from, v)
    OBVIOUS
  <1>7. t = RunsTask(i) /\ Goes(i, t)
    BY <1>3, <1>6 DEF Runs, RunsTask, Got
  <1>8. tasks[i] \in TaskSet /\ tasks[i].driver \in 0 .. Len(drivers)
    BY <1>1, TaskTyped
  <1>9. /\ t \in TaskSet /\ t.kind = tasks[i].kind /\ t.conn = tasks[i].conn
        /\ t.tab = tasks[i].tab /\ t.driver = tasks[i].driver /\ t.pc = "show"
    <2>1. PICK b : b = tasks[i]
      OBVIOUS
    <2>2. b \in TaskSet /\ t = Got(b, from, v)
      BY <1>6, <1>8, <2>1
    <2>3. /\ t \in TaskSet /\ t.kind = b.kind /\ t.conn = b.conn
          /\ t.tab = b.tab /\ t.driver = b.driver /\ t.pc = "show"
      BY <1>4, <1>5, <2>2, GotTyped
    <2> QED BY <2>1, <2>3
  <1>10. t.pc # "start" /\ Reaches(t)
    BY <1>1, <1>9 DEF Reaches
  <1>11. VersionTyped' /\ VersionGrows
    BY <1>1, VersionSame DEF Sound
  <1>12. tasks[i].pc # "start" /\ t.driver \in 0 .. Len(drivers)
    BY <1>1, <1>8, <1>9
  <1>13. Step(i, {t})
    BY <1>1, <1>7, <1>9, <1>10, <1>11, <1>12, AnsweredStep
  <1> QED BY <1>1, <1>2, <1>3, <1>5, <1>7, <1>13

\* Sequences of places grow by one.
LEMMA PartsTyped ==
  ASSUME NEW t \in TaskSet, NEW p \in Spot \cup {NULL}
  PROVE  Append(t.parts, p) \in PartSet /\ Len(t.parts) \in Nat
  <1>1. t.parts \in PartSet
    BY DEF TaskSet
  <1> QED BY <1>1 DEF PartSet

WritesTask(i) ==
  WroteAt(tasks[i], Append(tasks[i].parts, Place(tasks[i].driver)),
          version[Place(tasks[i].driver)] + 1)

\* A write is done.
LEMMA WritesStep ==
  ASSUME Sound, NEW i, Writes(i)
  PROVE  /\ Step(i, {WritesTask(i)}) /\ i \in DOMAIN tasks /\ tasks[i].driver # 0
         /\ tasks[i].kind = "write" /\ tasks[i].pc = "run"
         /\ Place(tasks[i].driver) \in Conns \X Dbs
         /\ version[Place(tasks[i].driver)] + 1 \in Nat
         /\ version'[Place(tasks[i].driver)] = version[Place(tasks[i].driver)] + 1
  <1>1. /\ i \in DOMAIN tasks /\ tasks[i].pc = "run" /\ tasks[i].kind = "write"
        /\ Pool(i) # Closed /\ Pool(i) # "" /\ UNCHANGED <<app, drivers, window, saved>>
    BY DEF Writes, Answers, At
  <1>2. tasks[i].driver # 0
    BY <1>1, OpenPool
  <1>3. PICK p : p = Place(tasks[i].driver)
    OBVIOUS
  <1>4. p \in Conns \X Dbs /\ p \in Spot \cup {NULL}
    BY <1>1, <1>2, <1>3, PlaceTyped
  <1>5. version' = [version EXCEPT ![p] = @ + 1]
    BY <1>3 DEF Writes
  <1>6. /\ VersionTyped' /\ VersionGrows
        /\ version'[p] = version[p] + 1 /\ version'[p] \in Nat
    BY <1>4, <1>5, VersionWritten DEF Sound
  <1>7. PICK v : v = version'[p]
    OBVIOUS
  <1>8. v \in Nat /\ v = version[p] + 1
    BY <1>6, <1>7
  <1>9. tasks[i] \in TaskSet /\ tasks[i].driver \in 0 .. Len(drivers)
    BY <1>1, TaskTyped
  <1>10. PICK parts : parts = Append(tasks[i].parts, p)
    OBVIOUS
  <1>11. parts \in PartSet
    BY <1>4, <1>9, <1>10, PartsTyped
  <1>12. PICK t : t = WroteAt(tasks[i], parts, v)
    OBVIOUS
  <1>13. t = WritesTask(i)
    BY <1>3, <1>8, <1>10, <1>12 DEF WritesTask
  <1>14. Goes(i, t)
    BY <1>3, <1>7, <1>10, <1>12 DEF Writes, WroteAt
  <1>15. /\ t \in TaskSet /\ t.kind = tasks[i].kind /\ t.conn = tasks[i].conn
         /\ t.tab = tasks[i].tab /\ t.driver = tasks[i].driver /\ t.pc = "show"
    <2>1. v \in Nat
      BY <1>8
    <2>2. tasks[i] \in TaskSet
      BY <1>9
    <2> QED BY <1>11, <1>12, <2>1, <2>2, WroteTyped
  <1>16. t.pc # "start" /\ Reaches(t)
    BY <1>1, <1>15 DEF Reaches
  <1>17. tasks[i].pc # "start" /\ t.driver \in 0 .. Len(drivers)
    BY <1>1, <1>9, <1>15
  <1>18. Step(i, {t})
    BY <1>1, <1>6, <1>14, <1>15, <1>16, <1>17, AnsweredStep
  <1> QED BY <1>1, <1>2, <1>3, <1>4, <1>6, <1>8, <1>13, <1>18

LearnsTask(i) ==
  Learnt(tasks[i], "show", Append(tasks[i].parts, Named(i)), tasks[i].driver)

\* The columns for a dialog are read.
LEMMA LearnsStep ==
  ASSUME Sound, NEW i, ReadsColumns(i)
  PROVE  /\ Step(i, {LearnsTask(i)}) /\ i \in DOMAIN tasks /\ tasks[i].driver # 0
         /\ tasks[i].kind = "row" /\ tasks[i].pc = "run"
  <1>1. /\ i \in DOMAIN tasks /\ tasks[i].pc = "run" /\ tasks[i].kind = "row"
        /\ Pool(i) # Closed /\ UNCHANGED <<app, drivers, window, saved, version>>
    BY DEF ReadsColumns, Answers, At
  <1>2. tasks[i].driver # 0
    BY <1>1, OpenPool
  <1>3. tasks[i] \in TaskSet /\ tasks[i].driver \in 0 .. Len(drivers)
    BY <1>1, TaskTyped
  <1>4. tasks[i].driver \in Nat
    BY <1>3 DEF TaskSet
  <1>5. PICK parts : parts = Append(tasks[i].parts, Named(i))
    OBVIOUS
  <1>6. parts \in PartSet
    <2>1. Named(i) \in Spot \cup {NULL}
      BY <1>1, <1>2, PlaceTyped
    <2> QED BY <1>3, <1>5, <2>1, PartsTyped
  <1>7. PICK t : t = Learnt(tasks[i], "show", parts, tasks[i].driver)
    OBVIOUS
  <1>8. t = LearnsTask(i)
    BY <1>5, <1>7 DEF LearnsTask
  <1>9. Goes(i, t)
    <2>1. t = [tasks[i] EXCEPT !.pc = "show", !.parts = parts]
      BY <1>3, <1>7 DEF Learnt, TaskSet
    <2>2. Goes(i, [tasks[i] EXCEPT !.pc = "show", !.parts = parts])
      BY <1>5 DEF ReadsColumns
    <2> QED BY <2>1, <2>2
  <1>10. /\ t \in TaskSet /\ t.kind = tasks[i].kind /\ t.conn = tasks[i].conn
         /\ t.tab = tasks[i].tab /\ t.driver = tasks[i].driver /\ t.pc = "show"
    <2>1. "show" \in Pcs
      BY DEF Pcs
    <2> QED BY <1>3, <1>4, <1>6, <1>7, <2>1, LearntTyped
  <1>11. t.pc # "start" /\ Reaches(t)
    BY <1>1, <1>10 DEF Reaches
  <1>12. VersionTyped' /\ VersionGrows
    BY <1>1, VersionSame DEF Sound
  <1>13. tasks[i].pc # "start" /\ t.driver \in 0 .. Len(drivers)
    BY <1>1, <1>3, <1>10
  <1>14. Step(i, {t})
    BY <1>1, <1>9, <1>10, <1>11, <1>12, <1>13, AnsweredStep
  <1> QED BY <1>1, <1>2, <1>8, <1>14

\* A part of a structure is read, or fails.
LEMMA StructureStep ==
  ASSUME Sound, NEW i, ReadsStructure(i)
  PROVE  \E t \in TaskSet :
           /\ Step(i, {t}) /\ i \in DOMAIN tasks /\ tasks[i].pc = "run"
           /\ tasks[i].kind = "structure" /\ t.kind = "structure" /\ t.pc \in {"run", "show"}
           /\ t.tab = tasks[i].tab
  <1>1. /\ i \in DOMAIN tasks /\ tasks[i].pc = "run" /\ tasks[i].kind = "structure"
        /\ UNCHANGED <<app, drivers, window, saved, version>>
    BY DEF ReadsStructure, At, Same
  <1>2. tasks[i] \in TaskSet
    BY <1>1, TaskTyped
  <1>3. PICK part \in {NULL, IF Pool(i) = Closed THEN NULL ELSE Named(i)} :
          Goes(i, [tasks[i] EXCEPT !.parts = Append(@, part), !.driver = app.driver,
                                   !.pc = IF Len(tasks[i].parts) = 2 THEN "show" ELSE "run"])
    BY DEF ReadsStructure
  <1>4. part \in Spot \cup {NULL}
    <2>1. Pool(i) # Closed => Named(i) \in Spot
      BY <1>1, OpenPool, PlaceTyped
    <2> QED BY <1>3, <2>1
  <1>5. PICK parts, pc : /\ parts = Append(tasks[i].parts, part)
                         /\ pc = IF Len(tasks[i].parts) = 2 THEN "show" ELSE "run"
    OBVIOUS
  <1>6. parts \in PartSet
    BY <1>2, <1>4, <1>5, PartsTyped
  <1>7. pc \in {"run", "show"} /\ pc \in Pcs
    BY <1>5 DEF Pcs
  <1>8. app.driver \in Nat /\ app.driver \in 0 .. Len(drivers)
    BY AppTyped DEF Sound
  <1>9. PICK t : t = Learnt(tasks[i], pc, parts, app.driver)
    OBVIOUS
  <1>10. Goes(i, t)
    BY <1>3, <1>5, <1>9 DEF Learnt
  <1>11. /\ t \in TaskSet /\ t.kind = tasks[i].kind /\ t.conn = tasks[i].conn
         /\ t.tab = tasks[i].tab /\ t.driver = app.driver /\ t.pc = pc
    BY <1>2, <1>6, <1>7, <1>8, <1>9, LearntTyped
  <1>12. t.pc # "start" /\ Reaches(t)
    BY <1>1, <1>7, <1>11 DEF Reaches
  <1>13. VersionTyped' /\ VersionGrows
    BY <1>1, VersionSame DEF Sound
  <1>14. tasks[i].pc # "start" /\ t.driver \in 0 .. Len(drivers)
    BY <1>1, <1>8, <1>11
  <1>15. Step(i, {t})
    BY <1>1, <1>10, <1>11, <1>12, <1>13, <1>14, AnsweredStep
  <1> QED BY <1>1, <1>7, <1>11, <1>15

-----------------------------------------------------------------------------
(* What is shown.                                                          *)

ShownTab(u, t) == [u EXCEPT !.grid = "rows", !.shown = Shown(t)]
WroteTab(u, t) == [u EXCEPT !.wrote = [parts |-> t.parts, version |-> t.version]]
LearntTab(u, t) == [u EXCEPT !.structure = t.parts]

\* What is remembered of an answer is of its type.
LEMMA ShownTyped ==
  ASSUME NEW t \in TaskSet
  PROVE  Shown(t) \in ShownSet
  BY DEF Shown, TaskSet, ShownSet

\* A tab that shows rows keeps all else.
LEMMA ShownTabTyped ==
  ASSUME NEW u \in TabSet, NEW t \in TaskSet
  PROVE  /\ ShownTab(u, t) \in TabSet
         /\ ShownTab(u, t).conn = u.conn /\ ShownTab(u, t).db = u.db
         /\ ShownTab(u, t).nr = u.nr /\ ShownTab(u, t).page = u.page
         /\ ShownTab(u, t).sort = u.sort /\ ShownTab(u, t).grid = "rows"
         /\ ShownTab(u, t).shown = Shown(t) /\ ShownTab(u, t).wrote = u.wrote
  <1>1. PICK s : s = Shown(t)
    OBVIOUS
  <1>2. s \in ShownSet \cup {NULL}
    BY <1>1, ShownTyped
  <1>3. ShownTab(u, t) = [u EXCEPT !.grid = "rows", !.shown = s]
    BY <1>1 DEF ShownTab
  <1>4. ShownTab(u, t) \in TabSet
    BY <1>2, <1>3 DEF TabSet
  <1>5. /\ ShownTab(u, t).conn = u.conn /\ ShownTab(u, t).db = u.db
        /\ ShownTab(u, t).nr = u.nr /\ ShownTab(u, t).page = u.page
    BY <1>3 DEF TabSet
  <1>6. /\ ShownTab(u, t).sort = u.sort /\ ShownTab(u, t).grid = "rows"
        /\ ShownTab(u, t).shown = s /\ ShownTab(u, t).wrote = u.wrote
    BY <1>3 DEF TabSet
  <1> QED BY <1>1, <1>4, <1>5, <1>6

\* A tab that was written from keeps all else.
LEMMA WroteTabTyped ==
  ASSUME NEW u \in TabSet, NEW t \in TaskSet
  PROVE  /\ WroteTab(u, t) \in TabSet
         /\ WroteTab(u, t).conn = u.conn /\ WroteTab(u, t).db = u.db
         /\ WroteTab(u, t).nr = u.nr /\ WroteTab(u, t).page = u.page
         /\ WroteTab(u, t).sort = u.sort /\ WroteTab(u, t).grid = u.grid
         /\ WroteTab(u, t).shown = u.shown
         /\ WroteTab(u, t).wrote = [parts |-> t.parts, version |-> t.version]
  <1>1. PICK w : w = [parts |-> t.parts, version |-> t.version]
    OBVIOUS
  <1>2. w \in WroteSet \cup {NULL}
    <2>1. t.parts \in PartSet /\ t.version \in Nat
      BY DEF TaskSet
    <2> QED BY <1>1, <2>1 DEF WroteSet
  <1>3. WroteTab(u, t) = [u EXCEPT !.wrote = w]
    BY <1>1 DEF WroteTab
  <1>4. WroteTab(u, t) \in TabSet
    BY <1>2, <1>3 DEF TabSet
  <1>5. /\ WroteTab(u, t).conn = u.conn /\ WroteTab(u, t).db = u.db
        /\ WroteTab(u, t).nr = u.nr /\ WroteTab(u, t).page = u.page
        /\ WroteTab(u, t).sort = u.sort /\ WroteTab(u, t).grid = u.grid
        /\ WroteTab(u, t).shown = u.shown /\ WroteTab(u, t).wrote = w
    BY <1>3 DEF TabSet
  <1> QED BY <1>1, <1>4, <1>5

\* A tab that shows a structure keeps all else.
LEMMA LearntTabTyped ==
  ASSUME NEW u \in TabSet, NEW t \in TaskSet
  PROVE  /\ LearntTab(u, t) \in TabSet
         /\ LearntTab(u, t).conn = u.conn /\ LearntTab(u, t).db = u.db
         /\ LearntTab(u, t).nr = u.nr /\ LearntTab(u, t).page = u.page
         /\ LearntTab(u, t).sort = u.sort /\ LearntTab(u, t).grid = u.grid
         /\ LearntTab(u, t).shown = u.shown /\ LearntTab(u, t).wrote = u.wrote
  <1>1. t.parts \in PartSet
    BY DEF TaskSet
  <1>2. LearntTab(u, t) \in TabSet
    BY <1>1 DEF TabSet, LearntTab
  <1>3. /\ LearntTab(u, t).conn = u.conn /\ LearntTab(u, t).db = u.db
        /\ LearntTab(u, t).nr = u.nr /\ LearntTab(u, t).page = u.page
        /\ LearntTab(u, t).sort = u.sort /\ LearntTab(u, t).grid = u.grid
        /\ LearntTab(u, t).shown = u.shown /\ LearntTab(u, t).wrote = u.wrote
    BY DEF TabSet, LearntTab
  <1> QED BY <1>2, <1>3

\* The grid of a tab that is loaded again.
LoadingTab(u, id) == [u EXCEPT !.grid = IF id = NULL THEN "error" ELSE "loading", !.nr = @ + 1]

\* A tab that is loaded keeps all but its number and its grid.
LEMMA LoadingTyped ==
  ASSUME NEW u \in TabSet, NEW id
  PROVE  /\ LoadingTab(u, id) \in TabSet
         /\ LoadingTab(u, id).conn = u.conn /\ LoadingTab(u, id).db = u.db
         /\ LoadingTab(u, id).page = u.page /\ LoadingTab(u, id).sort = u.sort
         /\ LoadingTab(u, id).shown = u.shown /\ LoadingTab(u, id).wrote = u.wrote
         /\ LoadingTab(u, id).grid = (IF id = NULL THEN "error" ELSE "loading")
         /\ LoadingTab(u, id).nr = u.nr + 1 /\ LoadingTab(u, id).nr >= u.nr
  <1>1. PICK g, k : g = (IF id = NULL THEN "error" ELSE "loading") /\ k = u.nr + 1
    OBVIOUS
  <1>2. g \in {"empty", "loading", "error", "rows"}
    BY <1>1
  <1>3. u.nr \in Nat
    BY DEF TabSet
  <1>4. k \in Nat /\ k >= u.nr
    BY <1>1, <1>3
  <1>5. LoadingTab(u, id) = [u EXCEPT !.grid = g, !.nr = k]
    BY <1>1 DEF LoadingTab, TabSet
  <1>6. LoadingTab(u, id) \in TabSet
    <2>1. k \in Nat
      BY <1>4
    <2> QED BY <1>2, <1>5, <2>1 DEF TabSet
  <1>7. /\ LoadingTab(u, id).conn = u.conn /\ LoadingTab(u, id).db = u.db
        /\ LoadingTab(u, id).page = u.page /\ LoadingTab(u, id).sort = u.sort
    BY <1>5 DEF TabSet
  <1>8. /\ LoadingTab(u, id).shown = u.shown /\ LoadingTab(u, id).wrote = u.wrote
        /\ LoadingTab(u, id).grid = g /\ LoadingTab(u, id).nr = k
    BY <1>5 DEF TabSet
  <1> QED BY <1>1, <1>4, <1>6, <1>7, <1>8

\* This is what a load does to a tab.
LEMMA LoadingIs ==
  ASSUME NEW u
  PROVE  Loading(u) = LoadingTab(u, app.id)
  BY DEF Loading, LoadingTab

\* A future shows its answer in its tab and ends.
LEMMA ShowsStep ==
  ASSUME Sound, NEW i \in DOMAIN tasks, NEW n \in DOMAIN tab, NEW u \in TabSet,
         u.conn = tab[n].conn, u.db = tab[n].db, u.nr >= tab[n].nr,
         tab' = [tab EXCEPT ![n] = u], NEW new, NEW kinds, Ends(i, new),
         Typed' => Fresh(new, kinds),
         UNCHANGED <<app, drivers, tabs, pages, saved, version>>
  PROVE  Step(i, Range(new)) /\ Typed'
  <1>1. WindowTyped' /\ TabGrows
    BY TabChanged DEF Sound
  <1>2. Typed' /\ Grows
    BY <1>1, TabOnly DEF Sound
  <1> QED BY <1>2, EndsFresh

\* To spawn nothing.
LEMMA NothingFresh ==
  ASSUME NEW kinds
  PROVE  Fresh(<<>>, kinds) /\ Range(<<>>) = {}
  BY DEF Fresh, Range

\* Rows are shown.
LEMMA ShowRowsStep ==
  ASSUME Sound, NEW i, ShowRows(i)
  PROVE  /\ Step(i, {}) /\ i \in DOMAIN tasks /\ tasks[i].pc = "show"
         /\ tasks[i].kind \in {"load", "query"}
         /\ tab' = [tab EXCEPT ![tasks[i].tab] = ShownTab(tab[tasks[i].tab], tasks[i])]
  <1>1. i \in DOMAIN tasks /\ tasks[i].pc = "show" /\ tasks[i].kind \in {"load", "query"}
    BY DEF ShowRows, Shows, At
  <1>2. tasks[i] \in TaskSet /\ tasks[i].tab \in DOMAIN tab /\ tab[tasks[i].tab] \in TabSet
    BY <1>1, TaskTyped, TaskTab
  <1>3. PICK n, u : n = tasks[i].tab /\ u = ShownTab(tab[tasks[i].tab], tasks[i])
    OBVIOUS
  <1>4. tab' = [tab EXCEPT ![n] = u]
    BY <1>3 DEF ShowRows, ShownTab
  <1>5. u \in TabSet /\ u.conn = tab[n].conn /\ u.db = tab[n].db /\ u.nr = tab[n].nr
    BY <1>2, <1>3, ShownTabTyped
  <1>6. n \in DOMAIN tab /\ u.nr >= tab[n].nr
    <2>1. n \in DOMAIN tab
      BY <1>2, <1>3
    <2> QED BY <1>5, <2>1, SameNumber DEF Sound
  <1>7. Ends(i, <<>>) /\ UNCHANGED <<app, drivers, tabs, pages, saved, version>>
    BY DEF ShowRows, Same
  <1>8. Step(i, Range(<<>>))
    BY <1>1, <1>4, <1>5, <1>6, <1>7, NothingFresh, ShowsStep
  <1> QED BY <1>1, <1>3, <1>4, <1>8, NothingFresh

WrittenTab(i) == LoadingTab(WroteTab(tab[tasks[i].tab], tasks[i]), app.id)
WrittenLoad(i) == LoadTask(tasks[i].tab, WroteTab(tab[tasks[i].tab], tasks[i]))

\* A write is shown, and its tab loaded again.
LEMMA ShowWrittenStep ==
  ASSUME Sound, NEW i, ShowWritten(i)
  PROVE  /\ Step(i, Range(WrittenLoad(i))) /\ i \in DOMAIN tasks /\ tasks[i].pc = "show"
         /\ tasks[i].kind = "write"
         /\ tab' = [tab EXCEPT ![tasks[i].tab] = WrittenTab(i)]
         /\ Fresh(WrittenLoad(i), {"load"})
         /\ app.id # NULL => Range(WrittenLoad(i)) # {}
         /\ \A t \in Range(WrittenLoad(i)) :
              t.tab = tasks[i].tab /\ t.nr = tab[tasks[i].tab].nr + 1
  <1>1. i \in DOMAIN tasks /\ tasks[i].pc = "show" /\ tasks[i].kind = "write"
    BY DEF ShowWritten, Shows, At
  <1>2. /\ tasks[i] \in TaskSet /\ tasks[i].tab \in DOMAIN tab /\ tab[tasks[i].tab] \in TabSet
        /\ tab[tasks[i].tab].conn # NULL
    BY <1>1, TaskTyped, TaskTab
  <1>3. PICK n, w : n = tasks[i].tab /\ w = WroteTab(tab[tasks[i].tab], tasks[i])
    OBVIOUS
  <1>4. w \in TabSet /\ w.conn = tab[n].conn /\ w.db = tab[n].db /\ w.nr = tab[n].nr
    BY <1>2, <1>3, WroteTabTyped
  <1>5. PICK u : u = LoadingTab(w, app.id)
    OBVIOUS
  <1>6. u \in TabSet /\ u.conn = w.conn /\ u.db = w.db /\ u.nr >= w.nr
    BY <1>4, <1>5, LoadingTyped
  <1>7. u = WrittenTab(i)
    BY <1>3, <1>5 DEF WrittenTab
  <1>8. tab' = [tab EXCEPT ![n] = u] /\ Ends(i, LoadTask(n, w))
    BY <1>3, <1>5, LoadingIs DEF ShowWritten, WroteTab
  <1>9. UNCHANGED <<app, drivers, tabs, pages, saved, version>>
    BY DEF ShowWritten, Same
  <1>10. n \in DOMAIN tab /\ u.conn = tab[n].conn /\ u.db = tab[n].db /\ u.nr >= tab[n].nr
    BY <1>2, <1>3, <1>4, <1>6
  <1>11. Typed' => /\ Fresh(LoadTask(n, w), {"load"})
                   /\ app.id # NULL => Range(LoadTask(n, w)) # {}
                   /\ \A t \in Range(LoadTask(n, w)) : t.tab = n /\ t.nr = w.nr + 1
    <2> SUFFICES ASSUME Typed'
                 PROVE  /\ Fresh(LoadTask(n, w), {"load"})
                        /\ app.id # NULL => Range(LoadTask(n, w)) # {}
                        /\ \A t \in Range(LoadTask(n, w)) : t.tab = n /\ t.nr = w.nr + 1
      OBVIOUS
    <2>1. tab \in Seq(TabSet)
      BY DEF Sound, Typed, WindowTyped
    <2>2. n \in DOMAIN tab' /\ tab'[n] = u
      BY <1>8, <1>10, <2>1
    <2>3. n \in DOMAIN tab' /\ tab'[n].conn # NULL
      BY <1>2, <1>3, <1>10, <2>2
    <2> QED BY <1>4, <2>3, LoadFresh
  <1>12. PICK new : new = LoadTask(n, w)
    OBVIOUS
  <1>13. Step(i, Range(new)) /\ Typed'
    <2>1. Typed' => Fresh(new, {"load"})
      BY <1>11, <1>12
    <2>2. Ends(i, new)
      BY <1>8, <1>12
    <2>3. tab' = [tab EXCEPT ![n] = u]
      BY <1>8
    <2> QED BY <1>1, <1>6, <1>9, <1>10, <2>1, <2>2, <2>3, ShowsStep
  <1>14. new = WrittenLoad(i)
    BY <1>3, <1>12 DEF WrittenLoad
  <1>15. /\ Fresh(new, {"load"})
         /\ app.id # NULL => Range(new) # {}
         /\ \A t \in Range(new) : t.tab = n /\ t.nr = tab[n].nr + 1
    <2>1. /\ Fresh(new, {"load"})
          /\ app.id # NULL => Range(new) # {}
          /\ \A t \in Range(new) : t.tab = n /\ t.nr = w.nr + 1
      BY <1>11, <1>12, <1>13
    <2> QED BY <1>4, <2>1
  <1> QED BY <1>1, <1>3, <1>7, <1>8, <1>13, <1>14, <1>15

\* A structure is shown.
LEMMA ShowStructureStep ==
  ASSUME Sound, NEW i, ShowStructure(i)
  PROVE  /\ Step(i, {}) /\ i \in DOMAIN tasks /\ tasks[i].pc = "show"
         /\ tasks[i].kind = "structure"
         /\ tab' = [tab EXCEPT ![tasks[i].tab] = LearntTab(tab[tasks[i].tab], tasks[i])]
  <1>1. i \in DOMAIN tasks /\ tasks[i].pc = "show" /\ tasks[i].kind = "structure"
    BY DEF ShowStructure, Shows, At
  <1>2. tasks[i] \in TaskSet /\ tasks[i].tab \in DOMAIN tab /\ tab[tasks[i].tab] \in TabSet
    BY <1>1, TaskTyped, TaskTab
  <1>3. PICK n, u : n = tasks[i].tab /\ u = LearntTab(tab[tasks[i].tab], tasks[i])
    OBVIOUS
  <1>4. tab' = [tab EXCEPT ![n] = u]
    BY <1>3 DEF ShowStructure, LearntTab
  <1>5. u \in TabSet /\ u.conn = tab[n].conn /\ u.db = tab[n].db /\ u.nr = tab[n].nr
    BY <1>2, <1>3, LearntTabTyped
  <1>6. n \in DOMAIN tab /\ u.nr >= tab[n].nr
    <2>1. n \in DOMAIN tab
      BY <1>2, <1>3
    <2> QED BY <1>5, <2>1, SameNumber DEF Sound
  <1>7. Ends(i, <<>>) /\ UNCHANGED <<app, drivers, tabs, pages, saved, version>>
    BY DEF ShowStructure, Same
  <1>8. Step(i, Range(<<>>))
    BY <1>1, <1>4, <1>5, <1>6, <1>7, NothingFresh, ShowsStep
  <1> QED BY <1>1, <1>3, <1>4, <1>8, NothingFresh

\* A future that ends without a trace in the window.
LEMMA EndsQuietly ==
  ASSUME Sound, NEW i \in DOMAIN tasks, NEW new, NEW kinds, Ends(i, new), Typed' => Fresh(new, kinds),
         UNCHANGED <<app, drivers, window, saved>>, VersionTyped', VersionGrows
  PROVE  Step(i, Range(new)) /\ Typed'
  <1>1. SessionTyped' /\ DriversGrow
    BY SessionSame DEF Sound
  <1>2. WindowTyped' /\ TabGrows
    BY WindowSame DEF Sound
  <1>3. SavedTyped'
    BY SavedSame DEF Sound
  <1>4. Typed' /\ Grows
    BY <1>1, <1>2, <1>3 DEF Typed, Grows
  <1> QED BY <1>4, EndsFresh

\* The same when it spawns none.
LEMMA EndsQuietlyAlone ==
  ASSUME Sound, NEW i \in DOMAIN tasks, Ends(i, <<>>),
         UNCHANGED <<app, drivers, window, saved>>, VersionTyped', VersionGrows
  PROVE  Step(i, {})
  <1>1. Step(i, Range(<<>>))
    BY NothingFresh, EndsQuietly
  <1> QED BY <1>1, NothingFresh

\* A list is shown.
LEMMA ListsStep ==
  ASSUME Sound, NEW i, ShowSchema(i) \/ ShowTables(i) \/ ShowDatabases(i)
  PROVE  Step(i, {}) /\ i \in DOMAIN tasks /\ tasks[i].pc = "run" /\ tasks[i].driver # 0
  <1>1. /\ i \in DOMAIN tasks /\ tasks[i].pc = "run" /\ Pool(i) # Closed
        /\ Ends(i, <<>>) /\ UNCHANGED <<app, drivers, window, saved, version>>
    BY DEF ShowSchema, ShowTables, ShowDatabases, Lists, At, Same
  <1>2. VersionTyped' /\ VersionGrows
    BY <1>1, VersionSame DEF Sound
  <1>3. Step(i, {})
    BY <1>1, <1>2, EndsQuietlyAlone
  <1> QED BY <1>1, <1>3, OpenPool

\* A write that fails may have had its effect.
LEMMA WriteFailsStep ==
  ASSUME Sound, NEW i, At(i, "run"), tasks[i].kind = "write", Pool(i) \notin {Closed, ""},
         version' = [version EXCEPT ![Place(tasks[i].driver)] = @ + 1], Ends(i, <<>>),
         UNCHANGED <<app, drivers, window, saved>>
  PROVE  Step(i, {}) /\ i \in DOMAIN tasks
  <1>1. i \in DOMAIN tasks /\ tasks[i].driver # 0
    BY OpenPool DEF At
  <1>2. PICK p : p = Place(tasks[i].driver)
    OBVIOUS
  <1>3. p \in Conns \X Dbs
    BY <1>1, <1>2, PlaceTyped
  <1>4. VersionTyped' /\ VersionGrows
    <2>1. version' = [version EXCEPT ![p] = @ + 1]
      BY <1>2
    <2> QED BY <1>3, <2>1, VersionWritten DEF Sound
  <1> QED BY <1>1, <1>4, EndsQuietlyAlone

\* A dialog opens.
LEMMA DialogStep ==
  ASSUME Sound, NEW i, ShowDialog(i)
  PROVE  /\ Step(i, {Pc(i, "ask")}) /\ i \in DOMAIN tasks /\ tasks[i].pc = "show"
         /\ tasks[i].kind = "row"
  <1>1. i \in DOMAIN tasks /\ tasks[i].pc = "show" /\ tasks[i].kind = "row" /\ "ask" \in Pcs
    BY DEF ShowDialog, Shows, At, Pcs
  <1>2. Typed' /\ Grows
    BY AllSame DEF Sound, ShowDialog, Same
  <1>3. Goes(i, Pc(i, "ask"))
    <2>1. Goes(i, [tasks[i] EXCEPT !.pc = "ask"])
      BY DEF ShowDialog
    <2> QED BY <1>1, <2>1, PcTyped
  <1>4. Reaches(Pc(i, "ask"))
    <2>1. Pc(i, "ask").pc = "ask" /\ Pc(i, "ask").kind = "row"
      BY <1>1, PcTyped
    <2> QED BY <2>1 DEF Reaches
  <1> QED BY <1>1, <1>2, <1>3, <1>4, PcStep

\* The write that a dialog asks for.
WriteTask(i) == [Task("write") EXCEPT !.tab = tasks[i].tab, !.parts = tasks[i].parts]

\* The write of a dialog is of its tab, with the columns it read.
LEMMA WriteTaskTyped ==
  ASSUME Sound, NEW i \in DOMAIN tasks
  PROVE  /\ WriteTask(i) \in TaskSet /\ WriteTask(i).kind = "write" /\ WriteTask(i).pc = "start"
         /\ WriteTask(i).tab = tasks[i].tab /\ WriteTask(i).parts = tasks[i].parts
         /\ WriteTask(i).driver = 0
  <1>1. tasks[i].tab \in Nat /\ tasks[i].parts \in PartSet
    BY TaskTyped DEF TaskSet
  <1>2. Task("write") \in TaskSet
    BY NewTask DEF Kinds
  <1>3. WriteTask(i) \in TaskSet
    BY <1>1, <1>2 DEF WriteTask, TaskSet
  <1> QED BY <1>3 DEF WriteTask, Task

\* The user accepts.
LEMMA AcceptStep ==
  ASSUME Sound, NEW i, Accept(i)
  PROVE  /\ Step(i, {WriteTask(i)}) /\ i \in DOMAIN tasks /\ tasks[i].pc = "ask"
         /\ tasks[i].kind = "row"
  <1>1. i \in DOMAIN tasks /\ tasks[i].pc = "ask"
    BY DEF Accept, At
  <1>2. tasks[i].kind = "row"
    <2>1. Reaches(tasks[i])
      BY <1>1, TaskTyped
    <2> QED BY <1>1, <2>1 DEF Reaches
  <1>3. PICK t : t = WriteTask(i)
    OBVIOUS
  <1>4. /\ t \in TaskSet /\ t.kind = "write" /\ t.pc = "start" /\ t.tab = tasks[i].tab
        /\ t.driver = 0
    BY <1>1, <1>3, WriteTaskTyped
  <1>5. Ends(i, <<t>>)
    BY <1>3 DEF Accept, WriteTask
  <1>6. Typed' /\ Grows
    BY AllSame DEF Sound, Accept, Same
  <1>7. Fits(t)'
    <2>1. tasks[i].tab \in DOMAIN tab /\ tab[tasks[i].tab].conn # NULL
      BY <1>1, <1>2, TaskTab
    <2>2. t.tab \in DOMAIN tab' /\ tab'[t.tab].conn # NULL
      BY <1>4, <1>6, <2>1 DEF Grows, TabGrows
    <2>3. Concerns(t)'
      BY <1>4, <2>2 DEF Concerns
    <2> QED BY <1>4, <1>6, <2>3, FreshFits
  <1>8. <<t>> \in Seq(TaskSet) /\ Range(<<t>>) = {t}
    BY <1>4 DEF Range
  <1>9. Step(i, Range(<<t>>))
    <2>1. \A u \in Range(<<t>>) : u.pc = "start" /\ Fits(u)'
      BY <1>4, <1>7, <1>8
    <2>2. <<t>> \in Seq(TaskSet)
      BY <1>8
    <2> QED BY <1>1, <1>5, <1>6, <2>1, <2>2, EndsStep
  <1> QED BY <1>1, <1>2, <1>3, <1>8, <1>9

\* The user cancels.
LEMMA CancelStep ==
  ASSUME Sound, NEW i, Cancel(i)
  PROVE  Step(i, {}) /\ i \in DOMAIN tasks /\ tasks[i].pc = "ask"
  <1>1. /\ i \in DOMAIN tasks /\ tasks[i].pc = "ask" /\ Ends(i, <<>>)
        /\ UNCHANGED <<app, drivers, window, saved, version>>
    BY DEF Cancel, At, Same
  <1>2. VersionTyped' /\ VersionGrows
    BY <1>1, VersionSame DEF Sound
  <1> QED BY <1>1, <1>2, EndsQuietlyAlone

\* An element that is not there can be appended.
LEMMA OneAppended ==
  ASSUME NEW s \in Seq(Conns), IsInjective(s), NEW e \in Conns, e \notin Range(s),
         NEW r, r = Append(s, e)
  PROVE  r \in Seq(Conns) /\ IsInjective(r)
  <1>1. \A i, j \in DOMAIN s : s[i] = s[j] => i = j
    BY DEF IsInjective
  <1>2. \A i \in DOMAIN s : s[i] # e
    BY DEF Range
  <1>3. r \in Seq(Conns) /\ Len(s) \in Nat
    OBVIOUS
  <1>4. \A i \in DOMAIN r : \/ i \in DOMAIN s /\ r[i] = s[i]
                            \/ i = Len(s) + 1 /\ r[i] = e
    OBVIOUS
  <1>5. ASSUME NEW i \in DOMAIN r, NEW j \in DOMAIN r, r[i] = r[j]
        PROVE  i = j
    <2>1. CASE i \in DOMAIN s /\ r[i] = s[i] /\ j \in DOMAIN s /\ r[j] = s[j]
      BY <1>1, <1>5, <2>1
    <2>2. CASE r[i] = e /\ j \in DOMAIN s /\ r[j] = s[j]
      BY <1>2, <1>5, <2>2
    <2>3. CASE r[j] = e /\ i \in DOMAIN s /\ r[i] = s[i]
      BY <1>2, <1>5, <2>3
    <2>4. CASE i = Len(s) + 1 /\ j = Len(s) + 1
      BY <2>4
    <2> QED BY <1>4, <2>1, <2>2, <2>3, <2>4
  <1>6. \A i, j \in DOMAIN r : r[i] = r[j] => i = j
    BY <1>5
  <1>7. IsInjective(r)
    BY <1>6, Zenon DEF IsInjective
  <1> QED BY <1>3, <1>7

-----------------------------------------------------------------------------
(* What the user does.                                                     *)

\* A future that is spawned for a connection, a database or a tab.
ForConn(kind, c) == [Task(kind) EXCEPT !.conn = c]
ForDb(kind, c, d) == [Task(kind) EXCEPT !.conn = c, !.db = d]
ForTab(kind, n, d) == [Task(kind) EXCEPT !.tab = n, !.db = d]

\* A future for a connection is of its type.
LEMMA ForConnTyped ==
  ASSUME NEW kind \in Kinds, NEW c \in Conns
  PROVE  /\ ForConn(kind, c) \in TaskSet
         /\ ForConn(kind, c).kind = kind /\ ForConn(kind, c).pc = "start"
         /\ ForConn(kind, c).driver = 0 /\ ForConn(kind, c).conn = c
         /\ ForConn(kind, c).parts = <<>>
  <1>1. Task(kind) \in TaskSet
    BY NewTask
  <1>2. ForConn(kind, c) \in TaskSet
    BY <1>1 DEF ForConn, TaskSet
  <1> QED BY <1>2 DEF ForConn, Task

\* A future for a database is of its type.
LEMMA ForDbTyped ==
  ASSUME NEW kind \in Kinds, NEW c \in Conns, NEW d \in Dbs
  PROVE  /\ ForDb(kind, c, d) \in TaskSet
         /\ ForDb(kind, c, d).kind = kind /\ ForDb(kind, c, d).pc = "start"
         /\ ForDb(kind, c, d).driver = 0 /\ ForDb(kind, c, d).conn = c
         /\ ForDb(kind, c, d).parts = <<>>
  <1>1. Task(kind) \in TaskSet
    BY NewTask
  <1>2. ForDb(kind, c, d) \in TaskSet
    BY <1>1 DEF ForDb, TaskSet
  <1> QED BY <1>2 DEF ForDb, Task

\* A future for a tab is of its type.
LEMMA ForTabTyped ==
  ASSUME NEW kind \in Kinds, NEW n \in Nat, NEW d \in Dbs \cup {""}
  PROVE  ForTab(kind, n, d) \in TaskSet
  <1>1. Task(kind) \in TaskSet
    BY NewTask
  <1> QED BY <1>1 DEF ForTab, TaskSet

\* And is for that tab.
LEMMA ForTabFields ==
  ASSUME NEW kind, NEW n, NEW d
  PROVE  /\ ForTab(kind, n, d).kind = kind /\ ForTab(kind, n, d).pc = "start"
         /\ ForTab(kind, n, d).driver = 0 /\ ForTab(kind, n, d).tab = n
         /\ ForTab(kind, n, d).db = d /\ ForTab(kind, n, d).parts = <<>>
  BY DEF ForTab, Task

\* A step of the user: the session stays, futures are spawned.
UserStep(C) ==
  /\ Step(0, C)
  /\ \A t \in C : /\ t.pc = "start" /\ t.kind # "write" /\ t.parts = <<>>
                  /\ t.kind \in {"schema", "tables"} => t.conn = app'.id
  /\ app'.driver = app.driver /\ app'.db = app.db /\ (app'.id = app.id \/ app'.id = NULL)
  /\ UNCHANGED <<drivers, version, failed>>

\* One future that fits is spawned.
LEMMA UserSpawns ==
  ASSUME Sound, NEW t \in TaskSet, tasks' = Append(tasks, t), t.pc = "start", t.driver = 0,
         t.kind # "write", t.parts = <<>>,
         t.kind \in {"schema", "tables"} => t.conn = app.id, Typed' => Concerns(t)',
         Typed', Grows, UNCHANGED <<app, drivers, version, failed>>
  PROVE  UserStep({t})
  <1>1. Fits(t)'
    BY FreshFits
  <1>2. Step(0, {t})
    BY <1>1, AddedOne
  <1> QED BY <1>2 DEF UserStep

\* One future for a connection.
LEMMA UserConnects ==
  ASSUME Sound,
         \/ \E c \in Conns : connect_to_selected(c)
         \/ disconnect_active
         \/ \E c \in Conns, d \in Dbs : load_tables_for(c, d)
  PROVE  /\ \E t : UserStep({t}) /\ t.kind \in {"connect", "disconnect", "tables"}
         /\ UNCHANGED <<tab, tabs, pages, moved>>
  <1>1. PICK t \in TaskSet :
          /\ t.kind \in {"connect", "disconnect", "tables"} /\ t.pc = "start" /\ t.driver = 0
          /\ t.parts = <<>>
          /\ t.conn \in Conns /\ (t.kind = "tables" => t.conn = app.id)
          /\ tasks' = Append(tasks, t)
    <2>1. ASSUME NEW c \in Conns, connect_to_selected(c)
          PROVE  tasks' = Append(tasks, ForConn("connect", c))
      BY <2>1 DEF connect_to_selected, ForConn
    <2>2. ASSUME disconnect_active
          PROVE  app.id \in Conns /\ tasks' = Append(tasks, ForConn("disconnect", app.id))
      <3>1. app.id \in Conns
        BY <2>2, AppTyped DEF disconnect_active, Sound
      <3> QED BY <2>2, <3>1 DEF disconnect_active, ForConn
    <2>3. ASSUME NEW c \in Conns, NEW d \in Dbs, load_tables_for(c, d)
          PROVE  c = app.id /\ tasks' = Append(tasks, ForDb("tables", c, d))
      BY <2>3 DEF load_tables_for, ForDb
    <2>4. {"connect", "disconnect", "tables"} \subseteq Kinds
      BY DEF Kinds
    <2>5. CASE \E c \in Conns : connect_to_selected(c)
      <3>1. PICK c \in Conns : connect_to_selected(c)
        BY <2>5
      <3>2. PICK t : t = ForConn("connect", c)
        OBVIOUS
      <3>3. /\ t \in TaskSet /\ t.kind = "connect" /\ t.pc = "start" /\ t.driver = 0
            /\ t.conn = c /\ t.parts = <<>>
        BY <2>4, <3>2, ForConnTyped
      <3> QED BY <2>1, <3>1, <3>2, <3>3
    <2>6. CASE disconnect_active
      <3>1. PICK c : c = app.id
        OBVIOUS
      <3>2. PICK t : t = ForConn("disconnect", c)
        OBVIOUS
      <3>3. /\ t \in TaskSet /\ t.kind = "disconnect" /\ t.pc = "start" /\ t.driver = 0
            /\ t.conn = c /\ t.parts = <<>>
        BY <2>2, <2>4, <2>6, <3>1, <3>2, ForConnTyped
      <3> QED BY <2>2, <2>6, <3>1, <3>2, <3>3
    <2>7. CASE \E c \in Conns, d \in Dbs : load_tables_for(c, d)
      <3>1. PICK c \in Conns, d \in Dbs : load_tables_for(c, d)
        BY <2>7
      <3>2. PICK t : t = ForDb("tables", c, d)
        OBVIOUS
      <3>3. /\ t \in TaskSet /\ t.kind = "tables" /\ t.pc = "start" /\ t.driver = 0
            /\ t.conn = c /\ t.parts = <<>>
        BY <2>4, <3>2, ForDbTyped
      <3> QED BY <2>3, <3>1, <3>2, <3>3
    <2> QED BY <2>5, <2>6, <2>7
  <1>2. UNCHANGED <<app, drivers, window, saved, version, failed, moved>>
    BY DEF connect_to_selected, disconnect_active, load_tables_for
  <1>3. Typed' /\ Grows
    BY <1>2, AllSame DEF Sound
  <1>4. Concerns(t)'
    BY <1>1 DEF Concerns
  <1>5. UserStep({t})
    BY <1>1, <1>2, <1>3, <1>4, UserSpawns
  <1>6. UNCHANGED <<tab, tabs, pages, moved>>
    BY <1>2 DEF window
  <1> QED BY <1>1, <1>5, <1>6

\* One future for a tab.
LEMMA UserAsks ==
  ASSUME Sound, NEW n \in DOMAIN tab, load_table_structure_into_tab(n) \/ open_row_editor(n)
  PROVE  /\ \E t : UserStep({t}) /\ t.kind \in {"structure", "row"} /\ t.tab = n /\ t.db = tab[n].db
         /\ UNCHANGED <<tab, tabs, pages, moved>>
  <1>1. tab[n] \in TabSet /\ n \in Nat
    BY DEF Sound, Typed, WindowTyped
  <1>2. PICK kind, d : /\ kind \in {"structure", "row"} /\ d = tab[n].db
                       /\ tasks' = Append(tasks, ForTab(kind, n, d))
    BY DEF load_table_structure_into_tab, open_row_editor, ForTab
  <1>3. (d \in Dbs \/ d = "") /\ tab[n].conn # NULL
    <2>1. tab[n].db \in Dbs \cup {""}
      BY <1>1 DEF TabSet
    <2> QED BY <1>2, <2>1 DEF load_table_structure_into_tab, open_row_editor, IsTable
  <1>4. UNCHANGED <<app, drivers, window, saved, version, failed, moved>>
    BY DEF load_table_structure_into_tab, open_row_editor
  <1>5. Typed' /\ Grows
    BY <1>4, AllSame DEF Sound
  <1>6. PICK t : t = ForTab(kind, n, d)
    OBVIOUS
  <1>7. /\ t \in TaskSet /\ t.kind = kind /\ t.pc = "start" /\ t.driver = 0 /\ t.tab = n
        /\ t.db = d /\ t.parts = <<>>
    <2>1. kind \in Kinds
      BY <1>2 DEF Kinds
    <2>2. n \in Nat /\ d \in Dbs \cup {""}
      BY <1>1, <1>3
    <2>3. ForTab(kind, n, d) \in TaskSet
      BY <2>1, <2>2, ForTabTyped
    <2> QED BY <1>6, <2>3, ForTabFields
  <1>8. Concerns(t)'
    <2>1. n \in DOMAIN tab' /\ tab'[n].conn # NULL
      BY <1>3, <1>5 DEF Grows, TabGrows
    <2> QED BY <1>2, <1>7, <2>1 DEF Concerns
  <1>9. tasks' = Append(tasks, t)
    BY <1>2, <1>6
  <1>10. t.kind \notin {"schema", "tables", "write"}
    BY <1>2, <1>7
  <1>11. UserStep({t})
    BY <1>4, <1>5, <1>7, <1>8, <1>9, <1>10, UserSpawns
  <1>12. UNCHANGED <<tab, tabs, pages, moved>>
    BY <1>4 DEF window
  <1> QED BY <1>2, <1>7, <1>11, <1>12

\* Futures that are fresh.
LEMMA UserFresh ==
  ASSUME Sound, Typed', Grows, NEW new, NEW kinds, Fresh(new, kinds), tasks' = tasks \o new,
         app'.driver = app.driver, app'.db = app.db, app'.id = app.id \/ app'.id = NULL,
         "tables" \notin kinds, "write" \notin kinds,
         \A u \in Range(new) : u.kind = "schema" => u.conn = app'.id,
         UNCHANGED <<drivers, version, failed>>
  PROVE  UserStep(Range(new))
  <1>1. Step(0, Range(new))
    BY AddedFresh
  <1>2. \A u \in Range(new) :
          u.pc = "start" /\ u.kind # "tables" /\ u.kind # "write" /\ u.parts = <<>>
    BY DEF Fresh
  <1> QED BY <1>1, <1>2 DEF UserStep

\* The list of saved connections changes, or only its panel.
LEMMA UserRedraws ==
  ASSUME Sound,
         \/ \E c \in Conns : delete_connection(c) \/ open_dialog(c)
         \/ refresh_schema_tree
  PROVE  /\ \E C : UserStep(C) /\ \A t \in C : t.kind = "schema"
         /\ UNCHANGED <<tab, tabs, pages, moved>>
  <1>1. /\ saved' \in Seq(Conns) /\ IsInjective(saved')
        /\ app' = app \/ (app' = [app EXCEPT !.id = NULL])
        /\ tasks' = tasks \o SchemaTask(app', saved')
        /\ UNCHANGED <<drivers, window, version, failed, moved>>
    <2>1. saved \in Seq(Conns) /\ IsInjective(saved)
      BY DEF Sound, Typed, SavedTyped
    <2>2. ASSUME NEW c \in Conns, delete_connection(c)
          PROVE  saved' \in Seq(Conns) /\ IsInjective(saved')
      <3>1. PICK out : saved' = Without(saved, out)
        BY <2>2 DEF delete_connection
      <3> QED BY <2>1, <3>1, WithoutKeeps
    <2>3. ASSUME NEW c \in Conns, open_dialog(c)
          PROVE  saved' \in Seq(Conns) /\ IsInjective(saved')
      <3>1. CASE c \in Range(saved)
        BY <2>1, <2>3, <3>1 DEF open_dialog
      <3>2. CASE c \notin Range(saved)
        <4>1. saved' = Append(saved, c)
          BY <2>3, <3>2 DEF open_dialog
        <4>2. saved \in Seq(Conns) /\ IsInjective(saved) /\ c \notin Range(saved)
          BY <2>1, <3>2
        <4>3. PICK s : s = saved
          OBVIOUS
        <4>4. \A r : r = Append(s, c) => r \in Seq(Conns) /\ IsInjective(r)
          BY <4>2, <4>3, OneAppended
        <4> QED BY <4>1, <4>3, <4>4
      <3> QED BY <3>1, <3>2
    <2>4. ASSUME refresh_schema_tree
          PROVE  saved' = saved /\ app' = app
      BY <2>4 DEF refresh_schema_tree
    <2>5. saved' \in Seq(Conns) /\ IsInjective(saved')
      BY <2>1, <2>2, <2>3, <2>4
    <2>6. app' = app \/ (app' = [app EXCEPT !.id = NULL])
      BY DEF delete_connection, open_dialog, refresh_schema_tree
    <2>7. tasks' = tasks \o SchemaTask(app', saved')
      BY <2>4 DEF delete_connection, open_dialog, refresh_schema_tree
    <2>8. UNCHANGED <<drivers, window, version, failed, moved>>
      BY DEF delete_connection, open_dialog, refresh_schema_tree
    <2> QED BY <2>5, <2>6, <2>7, <2>8
  <1>2. /\ app' \in AppSet /\ app'.driver = app.driver /\ app'.db = app.db
        /\ app'.id = app.id \/ app'.id = NULL
        /\ app.driver = 0 => app' = NoApp
    <2>1. app \in AppSet
      BY AppTyped DEF Sound
    <2>2. app.driver = 0 => app = NoApp
      BY AppTyped DEF Sound
    <2>3. CASE app' = app
      BY <2>1, <2>2, <2>3
    <2>4. CASE app' = [app EXCEPT !.id = NULL]
      <3>1. app' \in AppSet /\ app'.driver = app.driver /\ app'.db = app.db /\ app'.id = NULL
        BY <2>1, <2>4 DEF AppSet
      <3>2. app.driver = 0 => app'.driver = 0 /\ app'.db = "" /\ app'.id = NULL
        BY <2>2, <3>1, NoAppTyped
      <3>3. ASSUME NEW a \in AppSet, a.driver = 0, a.db = "", a.id = NULL
            PROVE  a = NoApp
        BY <3>3 DEF AppSet, NoApp
      <3> QED BY <3>1, <3>2, <3>3
    <2> QED BY <1>1, <2>3, <2>4
  <1>3. SessionTyped' /\ DriversGrow
    <2>1. drivers \in Seq(DriverSet) /\ app.driver \in 0 .. Len(drivers) /\ ActiveIsOne
      BY DEF Sound, Typed, SessionTyped
    <2>2. ActiveIsOne'
      BY <1>1, <1>2, <2>1 DEF ActiveIsOne
    <2>3. SessionTyped'
      BY <1>1, <1>2, <2>1, <2>2 DEF SessionTyped
    <2>4. Len(drivers) <= Len(drivers)
      BY <2>1
    <2> QED BY <1>1, <2>3, <2>4 DEF DriversGrow
  <1>4. Typed' /\ Grows
    <2>1. WindowTyped' /\ TabGrows
      BY <1>1, WindowSame DEF Sound
    <2>2. VersionTyped' /\ VersionGrows
      BY <1>1, VersionSame DEF Sound
    <2>3. SavedTyped'
      BY <1>1 DEF SavedTyped
    <2> QED BY <1>3, <2>1, <2>2, <2>3 DEF Typed, Grows
  <1>5. PICK a, list : a = app' /\ list = saved'
    OBVIOUS
  <1>6. a \in AppSet /\ Range(list) \subseteq Conns
    BY <1>1, <1>2, <1>5 DEF Range
  <1>7. PICK new : new = SchemaTask(a, list)
    OBVIOUS
  <1>8. Fresh(new, {"schema"}) /\ \A u \in Range(new) : u.conn = a.id
    BY <1>4, <1>6, <1>7, SchemaFresh
  <1>9. tasks' = tasks \o new /\ "tables" \notin {"schema"} /\ "write" \notin {"schema"}
        /\ \A u \in Range(new) : u.kind = "schema" => u.conn = app'.id
    BY <1>1, <1>5, <1>7, <1>8
  <1>10. UserStep(Range(new))
    BY <1>1, <1>2, <1>4, <1>8, <1>9, UserFresh
  <1>11. \A t \in Range(new) : t.kind = "schema"
    BY <1>8 DEF Fresh
  <1>12. UNCHANGED <<tab, tabs, pages, moved>>
    BY <1>1 DEF window
  <1> QED BY <1>10, <1>11, <1>12

\* The tab that a reload is of, with the page and the order it asks for.
TurnsTo(n, u) ==
  /\ n \in DOMAIN tab /\ u \in TabSet /\ tab[n].conn # NULL
  /\ u.conn = tab[n].conn /\ u.db = tab[n].db /\ u.nr = tab[n].nr
  /\ u.shown = tab[n].shown /\ u.wrote = tab[n].wrote /\ u.grid = tab[n].grid

\* A tab on another page, or in another order, keeps all else.
LEMMA TurnedTyped ==
  ASSUME NEW u \in TabSet, NEW p \in 0 .. MaxPage
  PROVE  /\ [u EXCEPT !.page = p] \in TabSet /\ [u EXCEPT !.sort = TRUE, !.page = p] \in TabSet
         /\ [u EXCEPT !.page = p].conn = u.conn /\ [u EXCEPT !.page = p].db = u.db
         /\ [u EXCEPT !.page = p].nr = u.nr /\ [u EXCEPT !.page = p].shown = u.shown
         /\ [u EXCEPT !.page = p].wrote = u.wrote /\ [u EXCEPT !.page = p].grid = u.grid
         /\ [u EXCEPT !.sort = TRUE, !.page = p].conn = u.conn
         /\ [u EXCEPT !.sort = TRUE, !.page = p].db = u.db
         /\ [u EXCEPT !.sort = TRUE, !.page = p].nr = u.nr
         /\ [u EXCEPT !.sort = TRUE, !.page = p].shown = u.shown
         /\ [u EXCEPT !.sort = TRUE, !.page = p].wrote = u.wrote
         /\ [u EXCEPT !.sort = TRUE, !.page = p].grid = u.grid
  <1>1. [u EXCEPT !.page = p] \in TabSet
    BY DEF TabSet
  <1>2. [u EXCEPT !.sort = TRUE, !.page = p] \in TabSet
    BY DEF TabSet
  <1>3. /\ [u EXCEPT !.page = p].conn = u.conn /\ [u EXCEPT !.page = p].db = u.db
        /\ [u EXCEPT !.page = p].nr = u.nr /\ [u EXCEPT !.page = p].shown = u.shown
        /\ [u EXCEPT !.page = p].wrote = u.wrote /\ [u EXCEPT !.page = p].grid = u.grid
    BY DEF TabSet
  <1>4. /\ [u EXCEPT !.sort = TRUE, !.page = p].conn = u.conn
        /\ [u EXCEPT !.sort = TRUE, !.page = p].db = u.db
        /\ [u EXCEPT !.sort = TRUE, !.page = p].nr = u.nr
        /\ [u EXCEPT !.sort = TRUE, !.page = p].shown = u.shown
        /\ [u EXCEPT !.sort = TRUE, !.page = p].wrote = u.wrote
        /\ [u EXCEPT !.sort = TRUE, !.page = p].grid = u.grid
    BY DEF TabSet
  <1> QED BY <1>1, <1>2, <1>3, <1>4

Reloads(n, u) ==
  /\ TurnsTo(n, u) /\ Reload(n, u)
  /\ UNCHANGED <<saved, app, drivers, tabs, pages, panel, editor, version, moved, failed>>

\* Pages, the order and F5 load a tab that is there again.
LEMMA UserTurns ==
  ASSUME Sound,
         \/ \E n \in DOMAIN tab : next_page_for(n) \/ prev_page_for(n) \/ apply_sort_for(n)
         \/ \E i \in DOMAIN tabs : reload_active_data_tab(i)
  PROVE  \E n, u : Reloads(n, u)
  <1>1. /\ \A n \in DOMAIN tab : tab[n] \in TabSet
        /\ \A i \in DOMAIN tabs : tabs[i] \in DOMAIN tab
    BY DEF Sound, Typed, WindowTyped
  <1>2. \A u \in TabSet : u.page \in 0 .. MaxPage
    BY DEF TabSet
  <1>3. MaxPage \in Nat
    BY ConstantsAre
  <1>4. ASSUME NEW n \in DOMAIN tab, next_page_for(n)
        PROVE  \E u : Reloads(n, u)
    <2>1. PICK p : p = tab[n].page + 1
      OBVIOUS
    <2>2. p \in 0 .. MaxPage
      <3>1. tab[n].page \in 0 .. MaxPage /\ tab[n].page < MaxPage
        BY <1>1, <1>2, <1>4 DEF next_page_for
      <3> QED BY <1>3, <2>1, <3>1
    <2>3. PICK u : u = [tab[n] EXCEPT !.page = p]
      OBVIOUS
    <2>4. TurnsTo(n, u)
      <3>1. tab[n].conn # NULL
        BY <1>4 DEF next_page_for, IsTable
      <3> QED BY <1>1, <2>2, <2>3, <3>1, TurnedTyped DEF TurnsTo
    <2>5. Reload(n, u)
      BY <1>4, <2>1, <2>3 DEF next_page_for
    <2> QED BY <1>4, <2>4, <2>5 DEF Reloads, next_page_for
  <1>5. ASSUME NEW n \in DOMAIN tab, prev_page_for(n)
        PROVE  \E u : Reloads(n, u)
    <2>1. PICK p : p = tab[n].page - 1
      OBVIOUS
    <2>2. p \in 0 .. MaxPage
      <3>1. tab[n].page \in 0 .. MaxPage /\ tab[n].page > 0
        BY <1>1, <1>2, <1>5 DEF prev_page_for
      <3> QED BY <1>3, <2>1, <3>1
    <2>3. PICK u : u = [tab[n] EXCEPT !.page = p]
      OBVIOUS
    <2>4. TurnsTo(n, u)
      <3>1. tab[n].conn # NULL
        BY <1>5 DEF prev_page_for, IsTable
      <3> QED BY <1>1, <2>2, <2>3, <3>1, TurnedTyped DEF TurnsTo
    <2>5. Reload(n, u)
      BY <1>5, <2>1, <2>3 DEF prev_page_for
    <2> QED BY <1>5, <2>4, <2>5 DEF Reloads, prev_page_for
  <1>6. ASSUME NEW n \in DOMAIN tab, apply_sort_for(n)
        PROVE  \E u : Reloads(n, u)
    <2>1. PICK p : p = 0
      OBVIOUS
    <2>2. p \in 0 .. MaxPage
      BY <1>3, <2>1
    <2>3. PICK u : u = [tab[n] EXCEPT !.sort = TRUE, !.page = p]
      OBVIOUS
    <2>4. TurnsTo(n, u)
      <3>1. tab[n].conn # NULL
        BY <1>6 DEF apply_sort_for, IsTable
      <3> QED BY <1>1, <2>2, <2>3, <3>1, TurnedTyped DEF TurnsTo
    <2>5. Reload(n, u)
      BY <1>6, <2>1, <2>3 DEF apply_sort_for
    <2> QED BY <1>6, <2>4, <2>5 DEF Reloads, apply_sort_for
  <1>7. ASSUME NEW i \in DOMAIN tabs, reload_active_data_tab(i)
        PROVE  \E n, u : Reloads(n, u)
    <2>1. PICK n, u : n = tabs[i] /\ u = tab[tabs[i]]
      OBVIOUS
    <2>2. n \in DOMAIN tab /\ u \in TabSet
      BY <1>1, <2>1
    <2>3. TurnsTo(n, u)
      BY <1>7, <2>1, <2>2 DEF TurnsTo, reload_active_data_tab, IsTable
    <2> QED BY <1>7, <2>1, <2>3 DEF Reloads, reload_active_data_tab
  <1> QED BY <1>4, <1>5, <1>6, <1>7

\* The load is spawned, and the tab says so.
LEMMA UserReloads ==
  ASSUME Sound, NEW n, NEW u, Reloads(n, u)
  PROVE  /\ UserStep(Range(LoadTask(n, u))) /\ Fresh(LoadTask(n, u), {"load"})
         /\ tab' = [tab EXCEPT ![n] = LoadingTab(u, app.id)]
         /\ app.id # NULL => Range(LoadTask(n, u)) # {}
         /\ \A t \in Range(LoadTask(n, u)) : t.tab = n /\ t.nr = u.nr + 1
  <1>1. /\ n \in DOMAIN tab /\ u \in TabSet /\ tab[n].conn # NULL
        /\ u.conn = tab[n].conn /\ u.db = tab[n].db /\ u.nr = tab[n].nr
    BY DEF Reloads, TurnsTo
  <1>2. PICK w : w = LoadingTab(u, app.id)
    OBVIOUS
  <1>3. w \in TabSet /\ w.conn = u.conn /\ w.db = u.db /\ w.nr >= u.nr
    BY <1>1, <1>2, LoadingTyped
  <1>4. tab' = [tab EXCEPT ![n] = w] /\ tasks' = tasks \o LoadTask(n, u)
    BY <1>2, LoadingIs DEF Reloads, Reload
  <1>5. Typed' /\ Grows
    <2>1. w.conn = tab[n].conn /\ w.db = tab[n].db /\ w.nr >= tab[n].nr
      BY <1>1, <1>3
    <2>2. UNCHANGED <<tabs, pages>> /\ UNCHANGED <<app, drivers, saved, version>>
      BY DEF Reloads
    <2>3. WindowTyped' /\ TabGrows
      BY <1>1, <1>3, <1>4, <2>1, <2>2, TabChanged DEF Sound
    <2> QED BY <2>2, <2>3, TabOnly DEF Sound
  <1>6. n \in DOMAIN tab' /\ tab'[n].conn # NULL
    BY <1>1, <1>5 DEF Grows, TabGrows
  <1>7. PICK new : new = LoadTask(n, u)
    OBVIOUS
  <1>8. Fresh(new, {"load"})
    BY <1>1, <1>5, <1>6, <1>7, LoadFresh
  <1>9. /\ app.id # NULL => Range(new) # {}
        /\ \A t \in Range(new) : t.tab = n /\ t.nr = u.nr + 1
    BY <1>1, <1>5, <1>6, <1>7, LoadFresh
  <1>10. UserStep(Range(new))
    <2>1. UNCHANGED <<app, drivers, version, failed>>
      BY DEF Reloads
    <2>2. \A t \in Range(new) : t.kind = "schema" => t.conn = app'.id
      BY <1>8 DEF Fresh
    <2>3. tasks' = tasks \o new /\ "tables" \notin {"load"} /\ "write" \notin {"load"}
      BY <1>4, <1>7
    <2>4. app'.driver = app.driver /\ app'.db = app.db /\ app'.id = app.id
      BY <2>1
    <2> QED BY <1>5, <1>8, <2>1, <2>2, <2>3, <2>4, UserFresh
  <1> QED BY <1>2, <1>4, <1>7, <1>8, <1>9, <1>10

\* What a new tab has of a page and of a structure.
LEMMA EmptyTab == 0 \in 0 .. MaxPage /\ <<>> \in PartSet
  <1>1. MaxPage \in Nat
    BY ConstantsAre
  <1>2. 0 \in 0 .. MaxPage
    BY <1>1
  <1> QED BY <1>2 DEF PartSet

\* A table is opened in a tab of its own.
LEMMA NewTabTyped ==
  ASSUME NEW c \in Conns \cup {NULL}, NEW d \in Dbs \cup {""}
  PROVE  /\ NewTab(c, d) \in TabSet
         /\ NewTab(c, d).conn = c /\ NewTab(c, d).db = d /\ NewTab(c, d).nr = 0
         /\ NewTab(c, d).shown = NULL /\ NewTab(c, d).wrote = NULL
  <1>1. 0 \in 0 .. MaxPage /\ <<>> \in PartSet
    BY EmptyTab
  <1>2. NewTab(c, d) \in TabSet
    BY <1>1 DEF NewTab, TabSet
  <1> QED BY <1>2 DEF NewTab

\* The tab is new, and is loaded if there is a session.
LEMMA UserOpens ==
  ASSUME Sound, NEW c \in Conns, NEW d \in Dbs, focus_or_open_table_tab(c, d)
  PROVE  \E C : \E u \in TabSet :
            /\ UserStep(C) /\ tab' = Append(tab, u) /\ u.conn = c
            /\ u.shown = NULL /\ u.wrote = NULL
            /\ u.grid \in {"error", "loading"}
            /\ u.grid = "loading" => C # {}
            /\ \A t \in C : t.kind = "load" /\ t.tab = Len(tab) + 1 /\ t.nr = u.nr
  <1>1. PICK w : w = NewTab(c, d)
    OBVIOUS
  <1>2. /\ w \in TabSet /\ w.conn = c /\ w.db = d /\ w.nr = 0 /\ w.shown = NULL /\ w.wrote = NULL
    BY <1>1, NewTabTyped
  <1>3. PICK u : u = LoadingTab(w, app.id)
    OBVIOUS
  <1>4. /\ u \in TabSet /\ u.conn = c /\ u.shown = NULL /\ u.wrote = NULL
        /\ u.grid = (IF app.id = NULL THEN "error" ELSE "loading")
    BY <1>2, <1>3, LoadingTyped
  <1>5. u.nr = w.nr + 1
    BY <1>2, <1>3, LoadingTyped
  <1>6. /\ tab' = Append(tab, u) /\ tabs' = Append(tabs, Len(tab'))
        /\ pages' = Append(pages, Len(tab')) /\ tasks' = tasks \o LoadTask(Len(tab'), w)
    BY <1>1, <1>3, LoadingIs DEF focus_or_open_table_tab
  <1>7. Len(tab') = Len(tab) + 1
    <2>1. tab \in Seq(TabSet)
      BY DEF Sound, Typed, WindowTyped
    <2> QED BY <1>4, <1>6, <2>1
  <1>8. PICK n : n = Len(tab) + 1
    OBVIOUS
  <1>9. WindowTyped' /\ TabGrows /\ n \in DOMAIN tab' /\ tab'[n] = u
    <2>1. tabs' = Append(tabs, Len(tab) + 1) /\ pages' = Append(pages, Len(tab) + 1)
      BY <1>6, <1>7
    <2>2. tab' = Append(tab, u) /\ u \in TabSet
      BY <1>4, <1>6
    <2> QED BY <1>8, <2>1, <2>2, TabMade DEF Sound
  <1>10. UNCHANGED <<saved, app, drivers, version, failed>>
    BY DEF focus_or_open_table_tab
  <1>11. Typed' /\ Grows
    BY <1>9, <1>10, TabOnly DEF Sound
  <1>12. tab'[n].conn # NULL
    BY <1>4, <1>9, ConstantsAre
  <1>13. PICK new : new = LoadTask(n, w)
    OBVIOUS
  <1>14. Fresh(new, {"load"})
    BY <1>2, <1>9, <1>11, <1>12, <1>13, LoadFresh
  <1>15. /\ app.id # NULL => Range(new) # {}
         /\ \A t \in Range(new) : t.tab = n /\ t.nr = w.nr + 1
    BY <1>2, <1>9, <1>11, <1>12, <1>13, LoadFresh
  <1>16. UserStep(Range(new))
    <2>1. \A t \in Range(new) : t.kind = "schema" => t.conn = app'.id
      BY <1>14 DEF Fresh
    <2>2. tasks' = tasks \o new /\ "tables" \notin {"load"} /\ "write" \notin {"load"}
      BY <1>6, <1>7, <1>8, <1>13
    <2>3. app'.driver = app.driver /\ app'.db = app.db /\ app'.id = app.id
      BY <1>10
    <2> QED BY <1>10, <1>11, <1>14, <2>1, <2>2, <2>3, UserFresh
  <1>17. \A t \in Range(new) : t.kind = "load" /\ t.tab = Len(tab) + 1 /\ t.nr = u.nr
    BY <1>5, <1>8, <1>14, <1>15 DEF Fresh
  <1>18. u.grid \in {"error", "loading"} /\ (u.grid = "loading" => Range(new) # {})
    BY <1>4, <1>15
  <1>19. PICK C : C = Range(new)
    OBVIOUS
  <1>20. UserStep(C)
    BY <1>16, <1>19
  <1>21. /\ tab' = Append(tab, u) /\ u.conn = c
         /\ u.shown = NULL /\ u.wrote = NULL
    BY <1>4, <1>6
  <1>22. u.grid = "loading" => C # {}
    BY <1>18, <1>19
  <1>23. \A t \in C : t.kind = "load" /\ t.tab = Len(tab) + 1 /\ t.nr = u.nr
    BY <1>17, <1>19
  <1> QED BY <1>4, <1>18, <1>20, <1>21, <1>22, <1>23

\* The user closes a tab, or moves it.
LEMMA UserCloses ==
  ASSUME Sound, NEW i \in DOMAIN tabs,
         close_data_tab(i) \/ \E k \in DOMAIN tabs : reorder(i, k)
  PROVE  UserStep({}) /\ UNCHANGED <<app, tab>>
  <1>1. tabs \in Seq(DOMAIN tab) /\ pages \in Seq(DOMAIN tab)
    BY DEF Sound, Typed, WindowTyped
  <1>2. tabs' \in Seq(DOMAIN tab) /\ pages' \in Seq(DOMAIN tab)
    <2>1. CASE close_data_tab(i)
      <3>1. i \in DOMAIN pages /\ pages' = RemoveAt(pages, i) /\ tabs' = RemoveAt(tabs, i)
        BY <2>1 DEF close_data_tab, CloseAt
      <3> QED BY <1>1, <3>1, Removed
    <2>2. CASE \E k \in DOMAIN tabs : reorder(i, k)
      <3>1. PICK k \in DOMAIN tabs : reorder(i, k)
        BY <2>2
      <3>2. /\ i \in DOMAIN pages /\ k \in DOMAIN pages /\ tabs' = tabs
            /\ pages' = InsertAt(RemoveAt(pages, i), k, pages[i])
        BY <3>1 DEF reorder
      <3>3. PICK r, e : r = RemoveAt(pages, i) /\ e = pages[i]
        OBVIOUS
      <3>4. r \in Seq(DOMAIN tab) /\ Len(r) = Len(pages) - 1 /\ e \in DOMAIN tab
        BY <1>1, <3>2, <3>3, Removed
      <3>5. k \in 1 .. Len(r) + 1 /\ Len(r) \in Nat
        BY <1>1, <3>2, <3>4
      <3>6. SubSeq(r, 1, k - 1) \in Seq(DOMAIN tab) /\ SubSeq(r, k, Len(r)) \in Seq(DOMAIN tab)
        BY <3>4, <3>5
      <3>7. pages' = SubSeq(r, 1, k - 1) \o <<e>> \o SubSeq(r, k, Len(r))
        BY <3>2, <3>3 DEF InsertAt
      <3> QED BY <1>1, <3>2, <3>4, <3>6, <3>7
    <2> QED BY <2>1, <2>2
  <1>3. UNCHANGED <<tab, tasks>> /\ UNCHANGED <<app, drivers, saved, version, failed>>
    BY DEF close_data_tab, reorder
  <1>4. Typed' /\ Grows
    BY <1>2, <1>3, TabsCut, TabOnly DEF Sound
  <1>5. Step(0, {})
    BY <1>3, <1>4, AddedNone
  <1> QED BY <1>3, <1>5 DEF UserStep

\* A query tab is made.
LEMMA UserEdits ==
  ASSUME Sound, create_query_tab
  PROVE  \E C : UserStep(C) /\ UNCHANGED <<app, tab>> /\ \A t \in C : t.kind = "databases"
  <1>1. UNCHANGED <<saved, app, drivers, window, version, failed>>
    BY DEF create_query_tab
  <1>2. Typed' /\ Grows
    BY <1>1, AllSame DEF Sound
  <1>3. PICK a, new : a = app /\ new = DatabasesTask(a)
    OBVIOUS
  <1>4. a \in AppSet
    BY <1>3, AppTyped DEF Sound
  <1>5. Fresh(new, {"databases"})
    BY <1>2, <1>3, <1>4, DatabasesFresh
  <1>6. tasks' = tasks \o new /\ "tables" \notin {"databases"} /\ "write" \notin {"databases"}
    BY <1>3 DEF create_query_tab
  <1>7. \A u \in Range(new) : u.kind = "databases"
    BY <1>5 DEF Fresh
  <1>8. \A u \in Range(new) : u.kind = "schema" => u.conn = app'.id
    BY <1>7
  <1>9. app'.driver = app.driver /\ app'.db = app.db /\ app'.id = app.id
    BY <1>1
  <1>10. UserStep(Range(new))
    BY <1>1, <1>2, <1>5, <1>6, <1>8, <1>9, UserFresh
  <1> QED BY <1>1, <1>7, <1>10 DEF window

\* The database a query is for.
DbSet == Dbs \cup {""}

\* The future of a query, and its tab.
QueryTask(c, d, n, nr) == [Task("query") EXCEPT !.conn = c, !.db = d, !.tab = n, !.nr = nr]
QueryTab(u, nr) == [u EXCEPT !.grid = "loading", !.nr = nr]

\* The future of a query is of its type.
LEMMA QueryTaskTyped ==
  ASSUME NEW c \in Conns, NEW d \in DbSet, NEW n \in Nat, NEW nr \in Nat
  PROVE  QueryTask(c, d, n, nr) \in TaskSet
  <1>1. Task("query") \in TaskSet
    BY NewTask DEF Kinds
  <1> QED BY <1>1 DEF QueryTask, TaskSet, DbSet

\* And is for its tab.
LEMMA QueryTaskFields ==
  ASSUME NEW c, NEW d, NEW n, NEW nr
  PROVE  /\ QueryTask(c, d, n, nr).kind = "query" /\ QueryTask(c, d, n, nr).pc = "start"
         /\ QueryTask(c, d, n, nr).driver = 0 /\ QueryTask(c, d, n, nr).tab = n
         /\ QueryTask(c, d, n, nr).conn = c /\ QueryTask(c, d, n, nr).db = d
         /\ QueryTask(c, d, n, nr).nr = nr /\ QueryTask(c, d, n, nr).parts = <<>>
  BY DEF QueryTask, Task

\* A tab with a query under way keeps all else.
LEMMA QueryTabTyped ==
  ASSUME NEW u \in TabSet, NEW nr \in Nat
  PROVE  /\ QueryTab(u, nr) \in TabSet
         /\ QueryTab(u, nr).conn = u.conn /\ QueryTab(u, nr).db = u.db
         /\ QueryTab(u, nr).shown = u.shown /\ QueryTab(u, nr).wrote = u.wrote
         /\ QueryTab(u, nr).grid = "loading" /\ QueryTab(u, nr).nr = nr
         /\ QueryTab(u, nr).page = u.page /\ QueryTab(u, nr).sort = u.sort
  <1>1. QueryTab(u, nr) \in TabSet
    BY DEF QueryTab, TabSet
  <1> QED BY <1>1 DEF QueryTab, TabSet

\* What a query does to the tabs.
QueryShown(t, u) ==
  /\ u.grid = "loading" /\ u.conn = NULL /\ t.nr = u.nr
  /\ \/ tab' = Append(tab, u) /\ u.shown = NULL /\ u.wrote = NULL /\ t.tab = Len(tab) + 1
     \/ /\ t.tab \in DOMAIN tab /\ tab' = [tab EXCEPT ![t.tab] = u]
        /\ tab[t.tab].conn = NULL /\ u.nr = tab[t.tab].nr + 1
        /\ u.shown = tab[t.tab].shown /\ u.wrote = tab[t.tab].wrote

\* A query is run in the tab for results.
LEMMA UserRuns ==
  ASSUME Sound, NEW c \in Conns, NEW d \in DbSet, run_query(c, d)
  PROVE  \E t \in TaskSet : \E u \in TabSet :
           UserStep({t}) /\ t.kind = "query" /\ QueryShown(t, u) /\ UNCHANGED app
  <1>1. UNCHANGED <<saved, app, drivers, version, failed>>
    BY DEF run_query
  <1>2. tab \in Seq(TabSet) /\ Len(tab) \in Nat /\ \A i \in DOMAIN tabs : tabs[i] \in DOMAIN tab
    BY DEF Sound, Typed, WindowTyped
  <1>3. PICK open : open = {t \in Range(tabs) : ~IsTable(t)}
    OBVIOUS
  <1>4. CASE open = {}
    <2>1. PICK n, nr : n = Len(tab) + 1 /\ nr = 1
      OBVIOUS
    <2>2. PICK w, u, t : w = NewTab(NULL, "") /\ u = QueryTab(w, nr) /\ t = QueryTask(c, d, n, nr)
      OBVIOUS
    <2>3. /\ tab' = Append(tab, u) /\ tabs' = Append(tabs, n) /\ pages' = Append(pages, n)
          /\ tasks' = Append(tasks, t)
      BY <1>3, <1>4, <2>1, <2>2 DEF run_query, QueryTab, QueryTask
    <2>4. w \in TabSet /\ w.conn = NULL /\ w.shown = NULL /\ w.wrote = NULL
      BY <2>2, NewTabTyped
    <2>5. n \in Nat /\ nr \in Nat
      BY <1>2, <2>1
    <2>6. /\ u \in TabSet /\ u.conn = NULL /\ u.shown = NULL /\ u.wrote = NULL
          /\ u.grid = "loading" /\ u.nr = nr
      BY <2>2, <2>4, <2>5, QueryTabTyped
    <2>7. t \in TaskSet
      BY <2>2, <2>5, QueryTaskTyped
    <2>8. /\ t.kind = "query" /\ t.pc = "start" /\ t.driver = 0 /\ t.tab = n /\ t.conn = c
          /\ t.nr = nr /\ t.parts = <<>>
      <3>1. t = QueryTask(c, d, n, nr)
        BY <2>2
      <3> QED BY <3>1, QueryTaskFields
    <2>9. WindowTyped' /\ TabGrows /\ n \in DOMAIN tab' /\ tab'[n] = u
      <3>1. tabs' = Append(tabs, Len(tab) + 1) /\ pages' = Append(pages, Len(tab) + 1)
        BY <2>1, <2>3
      <3> QED BY <2>1, <2>3, <2>6, <3>1, TabMade DEF Sound
    <2>10. Typed' /\ Grows
      BY <1>1, <2>9, TabOnly DEF Sound
    <2>11. Concerns(t)'
      BY <2>6, <2>8, <2>9 DEF Concerns
    <2>12. UserStep({t})
      BY <1>1, <2>3, <2>7, <2>8, <2>10, <2>11, UserSpawns
    <2>13. QueryShown(t, u)
      BY <2>1, <2>3, <2>6, <2>8 DEF QueryShown
    <2> QED BY <1>1, <2>6, <2>7, <2>8, <2>12, <2>13
  <1>5. CASE open # {}
    <2>1. PICK n, nr : n = (CHOOSE t \in open : TRUE) /\ nr = tab[n].nr + 1
      OBVIOUS
    <2>2. n \in DOMAIN tab /\ tab[n].conn = NULL
      <3>1. n \in open
        BY <1>5, <2>1
      <3> QED BY <1>2, <1>3, <3>1 DEF Range, IsTable
    <2>3. PICK w, u, t : w = tab[n] /\ u = QueryTab(w, nr) /\ t = QueryTask(c, d, n, nr)
      OBVIOUS
    <2>4. /\ tab' = [tab EXCEPT ![n] = u] /\ UNCHANGED <<tabs, pages>>
          /\ tasks' = Append(tasks, t)
      BY <1>3, <1>5, <2>1, <2>3 DEF run_query, QueryTab, QueryTask
    <2>5. w \in TabSet
      BY <1>2, <2>2, <2>3
    <2>6. n \in Nat /\ nr \in Nat /\ nr >= w.nr
      <3>1. w.nr \in Nat
        BY <2>5 DEF TabSet
      <3> QED BY <1>2, <2>1, <2>2, <2>3, <3>1
    <2>7. /\ u \in TabSet /\ u.conn = w.conn /\ u.db = w.db /\ u.shown = w.shown
          /\ u.wrote = w.wrote /\ u.grid = "loading" /\ u.nr = nr
      BY <2>3, <2>5, <2>6, QueryTabTyped
    <2>8. t \in TaskSet
      BY <2>3, <2>6, QueryTaskTyped
    <2>9. /\ t.kind = "query" /\ t.pc = "start" /\ t.driver = 0 /\ t.tab = n /\ t.conn = c
          /\ t.nr = nr /\ t.parts = <<>>
      BY <2>3, QueryTaskFields
    <2>10. Typed' /\ Grows
      <3>1. u.conn = tab[n].conn /\ u.db = tab[n].db /\ u.nr >= tab[n].nr
        BY <2>3, <2>6, <2>7
      <3>2. WindowTyped' /\ TabGrows
        BY <2>2, <2>4, <2>7, <3>1, TabChanged DEF Sound
      <3> QED BY <1>1, <3>2, TabOnly DEF Sound
    <2>11. Concerns(t)'
      <3>1. n \in DOMAIN tab' /\ tab'[n].conn = NULL
        BY <2>2, <2>10 DEF Grows, TabGrows
      <3> QED BY <2>9, <3>1 DEF Concerns
    <2>12. UserStep({t})
      BY <1>1, <2>4, <2>8, <2>9, <2>10, <2>11, UserSpawns
    <2>13. QueryShown(t, u)
      BY <2>1, <2>2, <2>3, <2>4, <2>7, <2>9 DEF QueryShown
    <2> QED BY <1>1, <2>7, <2>8, <2>9, <2>12, <2>13
  <1> QED BY <1>4, <1>5

\* Whatever the user does.
LEMMA UserSteps ==
  ASSUME Sound, User
  PROVE  \E C : UserStep(C)
  <1>1. CASE \/ \E c \in Conns : connect_to_selected(c)
             \/ disconnect_active
             \/ \E c \in Conns, d \in Dbs : load_tables_for(c, d)
    BY <1>1, UserConnects
  <1>2. CASE \/ \E c \in Conns : delete_connection(c) \/ open_dialog(c)
             \/ refresh_schema_tree
    BY <1>2, UserRedraws
  <1>3. CASE create_query_tab
    BY <1>3, UserEdits
  <1>4. CASE \E c \in Conns, d \in Dbs : focus_or_open_table_tab(c, d)
    BY <1>4, UserOpens
  <1>5. CASE \E c \in Conns, d \in Dbs \cup {""} : run_query(c, d)
    <2>1. PICK c \in Conns, d \in Dbs \cup {""} : run_query(c, d)
      BY <1>5
    <2>2. d \in DbSet
      BY DEF DbSet
    <2> QED BY <2>1, <2>2, UserRuns
  <1>6. CASE \/ \E n \in DOMAIN tab : next_page_for(n) \/ prev_page_for(n) \/ apply_sort_for(n)
             \/ \E i \in DOMAIN tabs : reload_active_data_tab(i)
    BY <1>6, UserTurns, UserReloads
  <1>7. CASE \E n \in DOMAIN tab : \/ load_table_structure_into_tab(n) \/ open_row_editor(n)
                                   \/ confirm_delete_row(n)
    BY <1>7, UserAsks DEF confirm_delete_row
  <1>8. CASE \E i \in DOMAIN tabs : \/ close_data_tab(i)
                                    \/ \E k \in DOMAIN tabs : reorder(i, k)
    BY <1>8, UserCloses
  <1> QED BY <1>1, <1>2, <1>3, <1>4, <1>5, <1>6, <1>7, <1>8 DEF User

-----------------------------------------------------------------------------
(* Whatever happens, the state is of its type.                             *)

\* A query begins.
LEMMA StartQueryStep ==
  ASSUME Sound, NEW i, StartQuery(i)
  PROVE  \/ Connects(i) /\ Step(i, {Dropping(i)})
         \/ /\ Goes(i, Work(tasks[i], app)) /\ Step(i, {Work(tasks[i], app)})
            /\ app.driver # 0 /\ app.id = tasks[i].conn /\ i \in DOMAIN tasks
            /\ UNCHANGED <<app, drivers, window, panel, editor, failed, saved, version, moved>>
  <1>1. Starts(i, {"query"}) /\ i \in DOMAIN tasks
    BY DEF StartQuery, Starts, At
  <1>2. CASE app.id # tasks[i].conn
    <2>1. Connects(i)
      BY <1>2 DEF StartQuery
    <2> QED BY <1>1, <2>1, ConnectsStep
  <1>3. CASE app.id = tasks[i].conn
    <2>1. /\ Goes(i, Work(tasks[i], app))
          /\ UNCHANGED <<app, drivers, window, panel, editor, failed, saved, version, moved>>
      BY <1>3 DEF StartQuery, Same
    <2>2. Step(i, {Work(tasks[i], app)}) /\ app.driver # 0
      BY <1>1, <1>3, <2>1, QueryBeginsStep
    <2> QED BY <1>1, <1>3, <2>1, <2>2
  <1> QED BY <1>2, <1>3

\* A load begins.
LEMMA StartLoadStep ==
  ASSUME Sound, NEW i, StartLoad(i)
  PROVE  \/ Fails(i) /\ Step(i, {}) /\ tasks[i].pc = "start" /\ i \in DOMAIN tasks
         \/ /\ Goes(i, LoadWork(i)) /\ Step(i, {LoadWork(i)}) /\ app.driver # 0
            /\ i \in DOMAIN tasks
            /\ UNCHANGED <<app, drivers, window, panel, editor, failed, saved, version, moved>>
  <1>1. Starts(i, {"load"}) /\ i \in DOMAIN tasks /\ tasks[i].pc = "start"
    BY DEF StartLoad, Starts, At
  <1>2. CASE app.driver = 0
    <2>1. Fails(i)
      BY <1>2 DEF StartLoad
    <2> QED BY <1>1, <2>1, FailsStep
  <1>3. CASE app.driver # 0
    <2>1. /\ Goes(i, LoadWork(i))
          /\ UNCHANGED <<app, drivers, window, panel, editor, failed, saved, version, moved>>
      BY <1>3 DEF StartLoad, Same, LoadWork
    <2>2. Step(i, {LoadWork(i)})
      BY <1>1, <1>3, <2>1, LoadBeginsStep
    <2> QED BY <1>1, <1>3, <2>1, <2>2
  <1> QED BY <1>2, <1>3

\* A call begins with the driver that is active.
CallsTo(i, t) ==
  /\ i \in DOMAIN tasks /\ tasks[i].pc = "start" /\ Goes(i, t) /\ Step(i, {t})
  /\ t \in TaskSet /\ t.kind = tasks[i].kind /\ t.conn = tasks[i].conn
  /\ t.tab = tasks[i].tab /\ t.parts = tasks[i].parts
  /\ t.kind # "schema" => t.db = tasks[i].db
  /\ t.pc = "run" /\ t.driver = app.driver /\ app.driver # 0
  /\ UNCHANGED <<app, drivers, window, panel, editor, failed, saved, version, moved>>

\* The call is a step.
LEMMA CallsToStep ==
  ASSUME Sound, NEW i, Starts(i, Kinds \ {"connect", "disconnect"}), app.driver # 0,
         NEW t \in TaskSet, t.kind = tasks[i].kind, t.conn = tasks[i].conn,
         t.tab = tasks[i].tab, t.parts = tasks[i].parts,
         t.kind # "schema" => t.db = tasks[i].db, Calls(i, t, app.driver)
  PROVE  \E u : CallsTo(i, u)
  <1>1. /\ i \in DOMAIN tasks /\ tasks[i].pc = "start" /\ Earlier(i)
        /\ tasks[i].kind \notin {"connect", "disconnect"}
    BY StartsEarlier
  <1>2. app.driver \in 0 .. Len(drivers) /\ app.driver \in Nat
    BY AppTyped DEF Sound
  <1>3. PICK d : d = app.driver
    OBVIOUS
  <1>4. PICK u : u = AtWait(t, "run", d)
    OBVIOUS
  <1>5. /\ Goes(i, u)
        /\ UNCHANGED <<app, drivers, window, panel, editor, failed, saved, version, moved>>
    BY <1>3, <1>4 DEF Calls, AtWait
  <1>6. Step(i, {u})
    BY <1>1, <1>2, <1>3, <1>4, <1>5, CallsStep
  <1>7. /\ u \in TaskSet /\ u.kind = t.kind /\ u.conn = t.conn /\ u.tab = t.tab
        /\ u.parts = t.parts /\ u.pc = "run" /\ u.driver = d /\ u.db = t.db
    <2>1. "run" \in Pcs /\ d \in Nat
      BY <1>2, <1>3 DEF Pcs
    <2> QED BY <1>4, <2>1, AtWaitTyped
  <1> QED BY <1>1, <1>3, <1>5, <1>6, <1>7 DEF CallsTo

\* The task of a list of a schema, which takes its database when it starts.
WithDb(t, d) == [t EXCEPT !.db = d]

\* All else of it stays.
LEMMA WithDbTyped ==
  ASSUME NEW t \in TaskSet, NEW d \in DbSet
  PROVE  /\ WithDb(t, d) \in TaskSet /\ WithDb(t, d).kind = t.kind
         /\ WithDb(t, d).conn = t.conn /\ WithDb(t, d).tab = t.tab
         /\ WithDb(t, d).parts = t.parts
  <1>1. WithDb(t, d) \in TaskSet
    BY DEF WithDb, TaskSet, DbSet
  <1> QED BY <1>1 DEF WithDb, TaskSet

\* A call begins, or fails without a driver.
LEMMA StartCallStep ==
  ASSUME Sound, NEW i, StartCall(i) \/ StartDatabases(i)
  PROVE  \/ Fails(i) /\ Step(i, {}) /\ tasks[i].pc = "start" /\ i \in DOMAIN tasks
         \/ \E t : CallsTo(i, t)
  <1>1. /\ i \in DOMAIN tasks /\ tasks[i].pc = "start"
        /\ Starts(i, Kinds \ {"connect", "disconnect"})
    BY DEF StartCall, StartDatabases, Starts, At, Kinds
  <1>2. tasks[i] \in TaskSet
    BY <1>1, TaskTyped
  <1>3. ASSUME NEW d \in DbSet
        PROVE  WithDb(tasks[i], d) \in TaskSet
    BY <1>2, WithDbTyped
  <1>4. PICK d : d = IF app.id \in Range(saved) THEN Configured[app.id] ELSE app.db
    OBVIOUS
  <1>5. d \in DbSet
    <2>1. app.db \in DbSet
      BY AppTyped DEF Sound, DbSet
    <2>2. app.id \in Range(saved) => Configured[app.id] \in DbSet
      <3>1. Range(saved) \subseteq Conns
        BY SavedConns DEF Sound
      <3>2. \A c \in Conns : Configured[c] \in DbSet
        BY ConstantsAre DEF DbSet
      <3> QED BY <3>1, <3>2
    <2> QED BY <1>4, <2>1, <2>2
  <1>6. PICK t : t = IF tasks[i].kind = "schema" THEN WithDb(tasks[i], d) ELSE tasks[i]
    OBVIOUS
  <1>7. /\ t \in TaskSet /\ t.kind = tasks[i].kind /\ t.conn = tasks[i].conn
        /\ t.tab = tasks[i].tab /\ t.parts = tasks[i].parts
        /\ t.kind # "schema" => t.db = tasks[i].db
    BY <1>2, <1>5, <1>6, WithDbTyped
  <1>8. CASE Fails(i)
    BY <1>1, <1>8, FailsStep
  <1>9. CASE app.driver # 0 /\ Calls(i, t, app.driver)
    BY <1>1, <1>7, <1>9, CallsToStep
  <1>10. Fails(i) \/ (app.driver # 0 /\ Calls(i, t, app.driver))
    <2>1. CASE StartCall(i)
      <3>1. Calls(i, t, app.driver)
        BY <1>4, <1>6, <2>1 DEF StartCall, WithDb
      <3> QED BY <3>1 DEF Calls
    <2>2. CASE StartDatabases(i)
      <3>1. tasks[i].kind = "databases"
        BY <2>2 DEF StartDatabases, Starts
      <3>2. Calls(i, t, IF app.id = NULL THEN 0 ELSE app.driver)
        BY <1>6, <2>2, <3>1 DEF StartDatabases
      <3> QED BY <3>2 DEF Calls
    <2> QED BY <2>1, <2>2
  <1> QED BY <1>8, <1>9, <1>10

\* A disconnect begins.
LEMMA StartDisconnectStep ==
  ASSUME Sound, NEW i, StartDisconnect(i)
  PROVE  /\ i \in DOMAIN tasks /\ tasks[i].pc = "start" /\ tasks[i].kind = "disconnect"
         /\ app' = NoApp /\ UNCHANGED drivers
         /\ \/ app.driver = 0 /\ Disconnected(i) /\ Step(i, Range(DatabasesTask(NoApp)))
            \/ /\ app.driver # 0 /\ Step(i, {AtWait(tasks[i], "leave", app.driver)})
               /\ UNCHANGED <<window, panel, editor, failed, saved, version, moved>>
  <1>1. Starts(i, {"disconnect"}) /\ app' = NoApp
    BY DEF StartDisconnect
  <1>2. i \in DOMAIN tasks /\ tasks[i].pc = "start" /\ tasks[i].kind = "disconnect"
    BY <1>1 DEF Starts, At
  <1>3. CASE app.driver = 0
    <2>1. Disconnected(i) /\ UNCHANGED drivers
      BY <1>3 DEF StartDisconnect
    <2> QED BY <1>1, <1>2, <1>3, <2>1, DisconnectedStep
  <1>4. CASE app.driver # 0
    <2>1. /\ Goes(i, AtWait(tasks[i], "leave", app.driver))
          /\ UNCHANGED <<drivers, window, panel, editor, failed, saved, version, moved>>
      BY <1>4 DEF StartDisconnect, Same, AtWait
    <2> QED BY <1>1, <1>2, <1>4, <2>1, DropsStep
  <1> QED BY <1>3, <1>4

\* A call fails.
LEMMA CallFailsStep ==
  ASSUME Sound, NEW i, CallFails(i)
  PROVE  Step(i, {}) /\ i \in DOMAIN tasks
  <1>1. CASE i \in DOMAIN tasks /\ Fails(i)
    BY <1>1, FailsStep
  <1>2. CASE /\ At(i, "run") /\ tasks[i].kind = "write" /\ Pool(i) \notin {Closed, ""}
             /\ version' = [version EXCEPT ![Place(tasks[i].driver)] = @ + 1]
             /\ Ends(i, <<>>)
             /\ UNCHANGED <<saved, app, drivers, window, panel, editor, moved, failed>>
    BY <1>2, WriteFailsStep
  <1> QED BY <1>1, <1>2 DEF CallFails

\* Every step of a future is one.
LEMMA FutureSteps ==
  ASSUME Sound, NEW i, Future(i)
  PROVE  \E C : Step(i, C)
  <1>1. CASE StartConnect(i)
    BY <1>1, ConnectsStep DEF StartConnect
  <1>2. CASE StartQuery(i)
    BY <1>2, StartQueryStep
  <1>3. CASE StartLoad(i)
    BY <1>3, StartLoadStep
  <1>4. CASE StartCall(i) \/ StartDatabases(i)
    BY <1>4, StartCallStep DEF CallsTo
  <1>5. CASE StartDisconnect(i)
    BY <1>5, StartDisconnectStep
  <1>6. CASE Leave(i)
    BY <1>6, LeavesDisconnectStep, LeavesStep
  <1>7. CASE Dial(i)
    <2>1. PICK a : a = app'
      OBVIOUS
    <2> QED BY <1>7, <2>1, DialsConnectStep, DialsQueryStep
  <1>8. CASE Swap(i)
    BY <1>8, SwapsStep
  <1>9. CASE Note(i)
    <2>1. PICK a : a = app'
      OBVIOUS
    <2> QED BY <1>9, <2>1, NotesStep
  <1>10. CASE Runs(i)
    BY <1>10, RunsStep
  <1>11. CASE Writes(i)
    BY <1>11, WritesStep
  <1>12. CASE ReadsColumns(i)
    BY <1>12, LearnsStep
  <1>13. CASE ReadsStructure(i)
    BY <1>13, StructureStep
  <1>14. CASE CallFails(i)
    BY <1>14, CallFailsStep
  <1>15. CASE ShowRows(i)
    BY <1>15, ShowRowsStep
  <1>16. CASE ShowWritten(i)
    BY <1>16, ShowWrittenStep
  <1>17. CASE ShowSchema(i) \/ ShowTables(i) \/ ShowDatabases(i)
    BY <1>17, ListsStep
  <1>18. CASE ShowStructure(i)
    BY <1>18, ShowStructureStep
  <1>19. CASE ShowDialog(i)
    BY <1>19, DialogStep
  <1> QED BY <1>1, <1>2, <1>3, <1>4, <1>5, <1>6, <1>7, <1>8, <1>9, <1>10, <1>11, <1>12,
             <1>13, <1>14, <1>15, <1>16, <1>17, <1>18, <1>19 DEF Future

\* Every step of the system is one.
LEMMA NextSteps ==
  ASSUME Sound, Next
  PROVE  \E i, C : Step(i, C)
  <1>1. CASE User
    BY <1>1, UserSteps DEF UserStep
  <1>2. CASE \E i \in DOMAIN tasks : Future(i)
    BY <1>2, FutureSteps
  <1>3. CASE \E i \in DOMAIN tasks : Accept(i) \/ Cancel(i)
    BY <1>3, AcceptStep, CancelStep
  <1> QED BY <1>1, <1>2, <1>3 DEF Next, Runtime

\* When the program is started.
LEMMA InitSound ==
  ASSUME Init
  PROVE  Sound
  <1>1. SessionTyped
    <2>1. drivers = <<>> /\ app = NoApp
      BY DEF Init
    <2>2. drivers \in Seq(DriverSet) /\ Len(drivers) = 0
      BY <2>1
    <2>3. 0 \in 0 .. 0
      OBVIOUS
    <2> QED BY <2>1, <2>2, <2>3, NoAppTyped DEF SessionTyped, ActiveIsOne
  <1>2. WindowTyped
    BY DEF Init, WindowTyped
  <1>3. SavedTyped
    BY ConstantsAre DEF Init, SavedTyped
  <1>4. VersionTyped
    BY DEF Init, VersionTyped
  <1>5. DatabasesTask(NoApp) \in Seq(TaskSet)
        /\ \A k \in DOMAIN DatabasesTask(NoApp) :
             /\ DatabasesTask(NoApp)[k].kind = "databases"
             /\ DatabasesTask(NoApp)[k].pc = "start" /\ DatabasesTask(NoApp)[k].driver = 0
    BY NoAppTyped, DatabasesSpawned DEF Spawns
  <1>6. tasks = DatabasesTask(NoApp)
    BY DEF Init
  <1>7. ASSUME NEW k \in DOMAIN tasks
        PROVE  Fits(tasks[k])
    <2>1. /\ tasks[k] \in TaskSet /\ tasks[k].kind = "databases" /\ tasks[k].pc = "start"
          /\ tasks[k].driver = 0
      BY <1>5, <1>6
    <2>2. 0 \in 0 .. Len(drivers)
      <3>1. Len(drivers) = 0
        BY DEF Init
      <3> QED BY <3>1
    <2> QED BY <2>1, <2>2 DEF Fits, Concerns, Reaches
  <1>8. Tasks /\ Fifo
    BY <1>5, <1>6, <1>7 DEF Tasks, Fifo
  <1> QED BY <1>1, <1>2, <1>3, <1>4, <1>8 DEF Sound, Typed

\* The bound on what the user does.
Counted == count \in 0 .. MaxEvents

\* The user does no more.
LEMMA CountedStays ==
  ASSUME Counted, [Next]_vars
  PROVE  Counted'
  <1>1. MaxEvents \in Nat
    BY ConstantsAre
  <1>2. CASE \E event : Does(event)
    <2>1. count < MaxEvents /\ count' = count + 1
      BY <1>2 DEF Does
    <2> QED BY <1>1, <2>1 DEF Counted
  <1>3. CASE UNCHANGED count
    BY <1>3 DEF Counted
  <1>4. User => \E event : Does(event)
    BY DEF User, connect_to_selected, disconnect_active, delete_connection, open_dialog,
           refresh_schema_tree, load_tables_for, focus_or_open_table_tab, next_page_for,
           prev_page_for, apply_sort_for, reload_active_data_tab, close_data_tab, reorder,
           load_table_structure_into_tab, open_row_editor, confirm_delete_row,
           create_query_tab, run_query
  <1>5. CASE UNCHANGED vars
    BY <1>3, <1>5 DEF vars
  <1>6. CASE Runtime
    BY <1>3, <1>6 DEF Runtime
  <1>7. CASE \E i \in DOMAIN tasks : Accept(i) \/ Cancel(i)
    BY <1>3, <1>7 DEF Accept, Cancel
  <1> QED BY <1>2, <1>4, <1>5, <1>6, <1>7 DEF Next

\* Nothing changes.
LEMMA Stutters ==
  ASSUME Sound, UNCHANGED vars
  PROVE  Sound'
  BY DEF vars, window, Sound, Typed, SessionTyped, ActiveIsOne, WindowTyped, SavedTyped,
         VersionTyped, Tasks, Fits, Concerns, Reaches, Fifo

\* The state is of its type.
LEMMA SoundIsTyped == Sound /\ Counted => TypeOK
  <1> SUFFICES ASSUME Sound, Counted PROVE TypeOK
    OBVIOUS
  <1>1. Range(saved) \subseteq Conns /\ IsInjective(saved)
    BY SavedConns DEF Sound, Typed, SavedTyped
  <1>2. app.id \in Conns \cup {NULL} /\ app.driver \in 0 .. Len(drivers)
    BY AppTyped DEF Sound
  <1>3. \A i \in DOMAIN drivers : drivers[i].pool \in PoolSet
    <2>1. drivers \in Seq(DriverSet)
      BY DEF Sound, Typed, SessionTyped
    <2>2. \A d \in DriverSet : d.pool \in PoolSet
      BY DEF DriverSet
    <2> QED BY <2>1, <2>2
  <1>4. \A i \in DOMAIN tasks : tasks[i].pc \in Pcs
    <2>1. tasks \in Seq(TaskSet)
      BY DEF Sound, Tasks
    <2>2. \A t \in TaskSet : t.pc \in Pcs
      BY DEF TaskSet
    <2> QED BY <2>1, <2>2
  <1>5. tabs \in Seq(DOMAIN tab) /\ pages \in Seq(DOMAIN tab) /\ tab \in Seq(TabSet)
    BY DEF Sound, Typed, WindowTyped
  <1>6. Range(tabs) \cup Range(pages) \subseteq DOMAIN tab
    BY <1>5 DEF Range
  <1>7. \A u \in TabSet : /\ u.grid \in {"empty", "loading", "error", "rows"}
                          /\ u.page \in 0 .. MaxPage
    BY DEF TabSet
  <1>8. \A n \in DOMAIN tab : /\ tab[n].grid \in {"empty", "loading", "error", "rows"}
                              /\ tab[n].page \in 0 .. MaxPage
    BY <1>5, <1>7
  <1> QED BY <1>1, <1>2, <1>3, <1>4, <1>6, <1>8 DEF TypeOK, Pcs, Counted, PoolSet

-----------------------------------------------------------------------------
(* The session: what holds while switches of it do not overlap.            *)

\* A future that switches the session has it for itself.
Lone(list) ==
  \A i, j \in DOMAIN list : i # j /\ Switching(list[i]) =>
    ~Switching(list[j]) /\ ~Using(list[j]) /\ ~Listing(list[j])

\* Who dials has dropped the session; who changes its database changes that of
\* the active driver; who lists does so for the connection of its row.
Knows(t) ==
  /\ t.pc \in {"leave", "dial"} => app = NoApp
  /\ t.pc = "swap" => t.driver = app.driver /\ app.driver # 0
  /\ t.pc = "note" => /\ t.driver = app.driver /\ app.driver # 0
                      /\ drivers[t.driver].pool = t.db
  /\ Listing(t) => app.driver = 0 \/ drivers[app.driver].conn = t.conn
  /\ (t.pc = "run" /\ t.kind \in {"schema", "tables"}) =>
       t.driver \in DOMAIN drivers /\ drivers[t.driver].conn = t.conn

\* What AppState notes.
NoteTrue ==
  (app.driver # 0 /\ ~\E i \in DOMAIN tasks : tasks[i].pc = "note") =>
    app.db = drivers[app.driver].pool

Calm == Lone(tasks) /\ (\A i \in DOMAIN tasks : Knows(tasks[i])) /\ NoteTrue

\* What the history says of a step that did not overlap another.
LEMMA NotRaced ==
  ASSUME Noted, ~raced'
  PROVE  ~raced /\ ~Races(tasks') /\ Lone(tasks')
  <1>1. ~raced /\ ~Races(tasks')
    BY Zenon DEF Noted
  <1> QED BY <1>1 DEF Races, Lone

\* The others are at no wait that a switch could disturb.
LEMMA OthersBefore ==
  ASSUME Lone(tasks), NEW i \in DOMAIN tasks, Switching(tasks[i]), NEW k \in DOMAIN tasks \ {i}
  PROVE  ~Switching(tasks[k]) /\ ~Using(tasks[k]) /\ ~Listing(tasks[k])
  BY DEF Lone

\* The same after a step that leaves one at such a wait.
LEMMA OthersAfter ==
  ASSUME NEW i, NEW C, Turns(i, C), Lone(tasks'), NEW c \in C, Switching(c),
         NEW k \in DOMAIN tasks \ {i}
  PROVE  ~Switching(tasks[k]) /\ ~Using(tasks[k]) /\ ~Listing(tasks[k])
  <1>1. PICK j \in DOMAIN tasks', l \in DOMAIN tasks' :
          j # l /\ tasks'[j] = tasks[k] /\ tasks'[l] = c
    BY DEF Turns
  <1> QED BY <1>1 DEF Lone

\* A future that is at no such wait knows what it knew.
LEMMA StillKnows ==
  ASSUME NEW u, Knows(u), ~Switching(u), ~Listing(u), DriversGrow
  PROVE  Knows(u)'
  BY DEF Knows, Switching, Listing, DriversGrow

\* The session stays, but for the id of a connection that is deleted.
SessionStays ==
  /\ app'.driver = app.driver /\ app'.db = app.db /\ (app = NoApp => app' = NoApp)
  /\ UNCHANGED drivers

\* While the session stays, all futures know what they knew.
LEMMA KnowsOn ==
  ASSUME NEW u, Knows(u), SessionStays
  PROVE  Knows(u)'
  BY DEF Knows, Listing, SessionStays

\* Most futures have nothing to know.
LEMMA KnowsNothing ==
  ASSUME NEW u, \/ u.pc \in {"show", "ask"}
                \/ u.pc \in {"start", "run"} /\ u.kind \notin {"schema", "tables"}
  PROVE  Knows(u)'
  BY DEF Knows, Listing

\* Who will list the active connection.
LEMMA KnowsItsRow ==
  ASSUME SessionTyped', NEW u, u.pc = "start", u.conn \in Conns, u.conn = app'.id
  PROVE  Knows(u)'
  <1>1. app'.id # NULL
    BY ConstantsAre
  <1>2. drivers'[app'.driver].conn = u.conn
    BY <1>1 DEF SessionTyped, ActiveIsOne
  <1> QED BY <1>2 DEF Knows, Listing

\* All futures know, if those that changed do.
LEMMA AllKnow ==
  ASSUME NEW i, NEW C, Turns(i, C), \A c \in C : Knows(c)',
         \A k \in DOMAIN tasks \ {i} : \A u : u = tasks[k] => Knows(u)'
  PROVE  (\A j \in DOMAIN tasks : Knows(tasks[j]))'
  <1>1. ASSUME NEW j \in DOMAIN tasks'
        PROVE  Knows(tasks[j])'
    <2>1. PICK u : u = tasks'[j]
      OBVIOUS
    <2>2. u \in C \/ \E k \in DOMAIN tasks \ {i} : u = tasks[k]
      BY <2>1 DEF Turns
    <2>3. Knows(u)'
      BY <2>2
    <2> QED BY <2>1, <2>3
  <1> QED BY <1>1

\* A step that leaves the session alone.
LEMMA CalmOn ==
  ASSUME Sound, Calm, NEW i, NEW C, Step(i, C), SessionStays, Lone(tasks'),
         i \in DOMAIN tasks => tasks[i].pc # "note", \A c \in C : Knows(c)'
  PROVE  Calm'
  <1>1. Turns(i, C)
    BY DEF Step
  <1>2. \A k \in DOMAIN tasks \ {i} : \A u : u = tasks[k] => Knows(u)'
    <2> SUFFICES ASSUME NEW k \in DOMAIN tasks \ {i}, NEW u, u = tasks[k]
                 PROVE  Knows(u)'
      OBVIOUS
    <2>1. Knows(u)
      BY DEF Calm
    <2> QED BY <2>1, KnowsOn
  <1>3. NoteTrue'
    <2> SUFFICES ASSUME app'.driver # 0, ~\E j \in DOMAIN tasks' : tasks'[j].pc = "note"
                 PROVE  app'.db = drivers'[app'.driver].pool
      BY DEF NoteTrue
    <2>1. ASSUME NEW k \in DOMAIN tasks
          PROVE  tasks[k].pc # "note"
      <3>1. CASE k = i
        BY <3>1
      <3>2. CASE k # i
        <4>1. PICK j \in DOMAIN tasks' : tasks'[j] = tasks[k]
          BY <1>1, <3>2 DEF Turns
        <4> QED BY <4>1
      <3> QED BY <3>1, <3>2
    <2> QED BY <2>1 DEF Calm, NoteTrue, SessionStays
  <1>4. (\A j \in DOMAIN tasks : Knows(tasks[j]))'
    BY <1>1, <1>2, AllKnow
  <1>5. Lone(tasks)'
    OBVIOUS
  <1> QED BY <1>3, <1>4, <1>5 DEF Calm

\* A step that changes the session, by a future that has it for itself before
\* the step or after it.
LEMMA CalmAgain ==
  ASSUME Sound, Calm, NEW i, NEW C, Step(i, C), Lone(tasks'),
         (i \in DOMAIN tasks /\ Switching(tasks[i])) \/ \E c \in C : Switching(c),
         \A c \in C : Knows(c)', NoteTrue'
  PROVE  Calm'
  <1>1. Turns(i, C) /\ DriversGrow
    BY DEF Step, Grows
  <1>2. \A k \in DOMAIN tasks \ {i} : \A u : u = tasks[k] => Knows(u)'
    <2> SUFFICES ASSUME NEW k \in DOMAIN tasks \ {i}, NEW u, u = tasks[k]
                 PROVE  Knows(u)'
      OBVIOUS
    <2>1. Knows(u)
      BY DEF Calm
    <2>2. ~Switching(u) /\ ~Listing(u)
      <3>1. CASE i \in DOMAIN tasks /\ Switching(tasks[i])
        BY <3>1, OthersBefore DEF Calm
      <3>2. CASE \E c \in C : Switching(c)
        BY <1>1, <3>2, OthersAfter
      <3> QED BY <3>1, <3>2
    <2> QED BY <1>1, <2>1, <2>2, StillKnows
  <1>3. (\A j \in DOMAIN tasks : Knows(tasks[j]))'
    BY <1>1, <1>2, AllKnow
  <1>4. Lone(tasks)'
    OBVIOUS
  <1> QED BY <1>3, <1>4 DEF Calm

\* Futures that are fresh, for a list of the active connection if for any.
LEMMA FreshKnows ==
  ASSUME SessionTyped', NEW new, NEW kinds, Fresh(new, kinds), "tables" \notin kinds,
         \A u \in Range(new) : u.kind = "schema" => u.conn = app'.id
  PROVE  \A u \in Range(new) : Knows(u)'
  <1> SUFFICES ASSUME NEW u \in Range(new) PROVE Knows(u)'
    OBVIOUS
  <1>1. u.pc = "start" /\ u.kind # "tables" /\ Fits(u)'
    BY DEF Fresh
  <1>2. CASE u.kind = "schema"
    <2>1. u.conn = app'.id
      BY <1>2
    <2>2. u.conn \in Conns
      BY <1>1, <1>2 DEF Fits, Concerns
    <2> QED BY <1>1, <2>1, <2>2, KnowsItsRow
  <1>3. CASE u.kind # "schema"
    BY <1>1, <1>3, KnowsNothing
  <1> QED BY <1>2, <1>3

\* What the user does.
LEMMA CalmUser ==
  ASSUME Sound, Calm, NEW C, UserStep(C), Lone(tasks')
  PROVE  Calm'
  <1>1. Step(0, C) /\ SessionTyped'
    BY DEF UserStep, Step, Typed
  <1>2. 0 \notin DOMAIN tasks
    <2>1. tasks \in Seq(TaskSet)
      BY DEF Sound, Tasks
    <2> QED BY <2>1
  <1>3. SessionStays
    <2>1. app = NoApp => app' = NoApp
      <3>1. app'.driver = 0 => app' = NoApp
        BY <1>1 DEF SessionTyped, ActiveIsOne
      <3> QED BY <3>1, NoAppTyped DEF UserStep
    <2> QED BY <2>1 DEF UserStep, SessionStays
  <1>4. ASSUME NEW c \in C
        PROVE  Knows(c)'
    <2>1. c.pc = "start" /\ (c.kind \in {"schema", "tables"} => c.conn = app'.id)
      BY DEF UserStep
    <2>2. CASE c.kind \in {"schema", "tables"}
      <3>1. Fits(c)'
        BY <1>1 DEF Step
      <3>2. c.conn \in Conns
        BY <2>2, <3>1 DEF Fits, Concerns
      <3> QED BY <1>1, <2>1, <2>2, <3>2, KnowsItsRow
    <2>3. CASE c.kind \notin {"schema", "tables"}
      BY <2>1, <2>3, KnowsNothing
    <2> QED BY <2>2, <2>3
  <1> QED BY <1>1, <1>2, <1>3, <1>4, CalmOn

\* A session that is not touched stays.
LEMMA SessionUnchanged ==
  ASSUME UNCHANGED <<app, drivers>>
  PROVE  SessionStays
  BY DEF SessionStays

\* A future that ends without touching it.
LEMMA CalmAlone ==
  ASSUME Sound, Calm, NEW i, Step(i, {}), UNCHANGED <<app, drivers>>, Lone(tasks'),
         i \in DOMAIN tasks => tasks[i].pc # "note"
  PROVE  Calm'
  BY CalmOn, SessionUnchanged

\* Who connects drops the session.
LEMMA CalmConnects ==
  ASSUME Sound, Calm, NEW i, Connects(i), Step(i, {Dropping(i)}), i \in DOMAIN tasks, Lone(tasks')
  PROVE  Calm'
  <1>1. app' = NoApp /\ UNCHANGED drivers
    BY DEF Connects
  <1>2. PICK c : c = Dropping(i)
    OBVIOUS
  <1>3. c.pc \in {"leave", "dial"}
    <2>1. PICK pc, d : pc = (IF app.driver = 0 THEN "dial" ELSE "leave") /\ d = app.driver
      OBVIOUS
    <2>2. c = AtWait(tasks[i], pc, d)
      BY <1>2, <2>1 DEF Dropping
    <2>3. tasks[i] \in TaskSet /\ pc \in Pcs /\ d \in Nat
      BY <2>1, TaskTyped, AppTyped DEF Sound, Pcs
    <2>4. c.pc = pc
      BY <2>2, <2>3, AtWaitTyped
    <2> QED BY <2>1, <2>4
  <1>4. Knows(c)' /\ Switching(c)
    BY <1>1, <1>3 DEF Knows, Switching, Listing
  <1>5. NoteTrue'
    BY <1>1, NoAppTyped DEF NoteTrue
  <1>6. Step(i, {c})
    BY <1>2
  <1> QED BY <1>4, <1>5, <1>6, CalmAgain

\* The same for who disconnects.
LEMMA CalmDisconnect ==
  ASSUME Sound, Calm, NEW i, StartDisconnect(i), Lone(tasks')
  PROVE  Calm'
  <1>1. /\ i \in DOMAIN tasks /\ tasks[i].pc = "start" /\ app' = NoApp /\ UNCHANGED drivers
    BY StartDisconnectStep
  <1>2. CASE app.driver = 0 /\ Disconnected(i) /\ Step(i, Range(DatabasesTask(NoApp)))
    <2>1. app = NoApp
      BY <1>2, AppTyped DEF Sound
    <2>2. SessionStays
      BY <1>1, <2>1 DEF SessionStays
    <2>3. SessionTyped' /\ Typed'
      BY <1>2 DEF Step, Typed
    <2>4. Fresh(DatabasesTask(NoApp), {"databases"})
      BY <2>3, NoAppTyped, DatabasesFresh
    <2>5. \A u \in Range(DatabasesTask(NoApp)) : u.kind = "databases"
      BY <2>4 DEF Fresh
    <2>6. \A u \in Range(DatabasesTask(NoApp)) : Knows(u)'
      BY <2>3, <2>4, <2>5, FreshKnows
    <2> QED BY <1>1, <1>2, <2>2, <2>6, CalmOn
  <1>3. CASE app.driver # 0 /\ Step(i, {AtWait(tasks[i], "leave", app.driver)})
    <2>1. PICK c, d : d = app.driver /\ c = AtWait(tasks[i], "leave", d)
      OBVIOUS
    <2>2. tasks[i] \in TaskSet /\ "leave" \in Pcs /\ d \in Nat
      BY <1>1, <2>1, TaskTyped, AppTyped DEF Sound, Pcs
    <2>3. c.pc = "leave"
      BY <2>1, <2>2, AtWaitTyped
    <2>4. Knows(c)' /\ Switching(c)
      BY <1>1, <2>3 DEF Knows, Switching, Listing
    <2>5. NoteTrue'
      BY <1>1, NoAppTyped DEF NoteTrue
    <2>6. Step(i, {c})
      BY <1>3, <2>1
    <2> QED BY <2>4, <2>5, <2>6, CalmAgain
  <1> QED BY <1>2, <1>3, StartDisconnectStep

\* A pool is closed, by who has dropped its session.
LEMMA CalmLeaves ==
  ASSUME Sound, Calm, NEW i, Leave(i), Lone(tasks')
  PROVE  Calm'
  <1>1. /\ i \in DOMAIN tasks /\ tasks[i].pc = "leave" /\ UNCHANGED app
    BY DEF Leave, At
  <1>2. Switching(tasks[i]) /\ app = NoApp
    BY <1>1 DEF Switching, Calm, Knows
  <1>3. NoteTrue'
    BY <1>1, <1>2, NoAppTyped DEF NoteTrue
  <1>4. CASE tasks[i].kind = "disconnect"
    <2>1. PICK a, new : a = app /\ new = SchemaTask(a, saved) \o DatabasesTask(a)
      OBVIOUS
    <2>2. Step(i, Range(new))
      BY <1>4, <2>1, LeavesDisconnectStep
    <2>3. Typed' /\ SessionTyped'
      BY <2>2 DEF Step, Typed
    <2>4. a \in AppSet
      BY <2>1, AppTyped DEF Sound
    <2>5. new = Landing(a)
      BY <2>1 DEF Landing
    <2>6. Fresh(new, {"schema", "databases"}) /\ \A u \in Range(new) : u.kind = "schema" => u.conn = a.id
      BY <2>3, <2>4, <2>5, LandingFresh DEF Sound
    <2>7. \A u \in Range(new) : Knows(u)'
      BY <1>1, <2>1, <2>3, <2>6, FreshKnows
    <2> QED BY <1>1, <1>2, <1>3, <2>2, <2>7, CalmAgain
  <1>5. CASE tasks[i].kind # "disconnect"
    <2>1. PICK c : c = Pc(i, "dial")
      OBVIOUS
    <2>2. Step(i, {c})
      BY <1>5, <2>1, LeavesStep
    <2>3. c.pc = "dial"
      BY <1>1, <2>1, PcTyped DEF Pcs
    <2>4. Knows(c)'
      BY <1>1, <1>2, <2>3 DEF Knows, Listing
    <2> QED BY <1>1, <1>2, <1>3, <2>2, <2>4, CalmAgain
  <1> QED BY <1>4, <1>5

\* A new session.
LEMMA CalmDials ==
  ASSUME Sound, Calm, NEW i, Dial(i), Lone(tasks')
  PROVE  Calm'
  <1>1. /\ i \in DOMAIN tasks /\ tasks[i].pc = "dial" /\ tasks[i].conn \in Conns
        /\ drivers' = Append(drivers, [conn |-> tasks[i].conn, pool |-> Configured[tasks[i].conn]])
        /\ app' = [id |-> tasks[i].conn, driver |-> Len(drivers) + 1,
                   db |-> Configured[tasks[i].conn]]
        /\ Typed' /\ Grows /\ app' \in AppSet
    BY DialSession
  <1>2. Switching(tasks[i])
    BY <1>1 DEF Switching
  <1>3. /\ drivers'[Len(drivers) + 1] = [conn |-> tasks[i].conn, pool |-> Configured[tasks[i].conn]]
    BY <1>1, DriverMade DEF Sound
  <1>4. app'.driver = Len(drivers) + 1 /\ app'.db = Configured[tasks[i].conn]
    BY <1>1
  <1>5. NoteTrue'
    BY <1>3, <1>4 DEF NoteTrue
  <1>6. PICK a : a = app'
    OBVIOUS
  <1>7. /\ Fresh(Landing(a), {"schema", "databases"})
        /\ \A u \in Range(Landing(a)) : u.kind = "schema" => u.conn = a.id
    BY <1>1, <1>6, LandingFresh DEF Sound
  <1>8. \A u \in Range(Landing(a)) : Knows(u)'
    BY <1>1, <1>6, <1>7, FreshKnows DEF Typed
  <1>9. CASE tasks[i].kind = "connect"
    <2>1. Step(i, Range(Landing(a)))
      BY <1>6, <1>9, DialsConnectStep
    <2> QED BY <1>1, <1>2, <1>5, <1>8, <2>1, CalmAgain
  <1>10. CASE tasks[i].kind # "connect"
    <2>1. Step(i, {Work(tasks[i], a)} \cup Range(Landing(a)))
      BY <1>6, <1>10, DialsQueryStep
    <2>2. PICK c : c = Work(tasks[i], a)
      OBVIOUS
    <2>3. tasks[i] \in TaskSet /\ a \in AppSet /\ tasks[i].kind = "query"
      BY <1>1, <1>6, <1>10, TaskTyped, DialSession
    <2>4. c.kind = tasks[i].kind /\ c.driver = a.driver /\ c.pc \in {"run", "swap"}
      BY <2>2, <2>3, WorkTyped
    <2>5. a.driver = app'.driver /\ a.driver # 0
      <3>1. Len(drivers) + 1 # 0
        BY <1>1, DriverMade DEF Sound
      <3> QED BY <1>4, <1>6, <3>1
    <2>6. Knows(c)'
      BY <2>3, <2>4, <2>5 DEF Knows, Listing
    <2>7. \A u \in {c} \cup Range(Landing(a)) : Knows(u)'
      BY <1>8, <2>6
    <2>8. Step(i, {c} \cup Range(Landing(a)))
      BY <2>1, <2>2
    <2> QED BY <1>1, <1>2, <1>5, <2>7, <2>8, CalmAgain
  <1> QED BY <1>9, <1>10

\* Another database.
LEMMA CalmSwaps ==
  ASSUME Sound, Calm, NEW i, Swap(i), Lone(tasks')
  PROVE  Calm'
  <1>1. /\ i \in DOMAIN tasks /\ tasks[i].pc = "swap" /\ UNCHANGED app
        /\ Pooled(tasks[i].driver, tasks[i].db)
    BY DEF Swap, At, Pooled
  <1>2. Switching(tasks[i]) /\ tasks[i].driver = app.driver /\ app.driver # 0
    BY <1>1 DEF Switching, Calm, Knows
  <1>3. PICK c : c = Pc(i, "note")
    OBVIOUS
  <1>4. Step(i, {c})
    BY <1>3, SwapsStep
  <1>5. c.pc = "note" /\ c.driver = tasks[i].driver /\ c.db = tasks[i].db
    BY <1>1, <1>3, PcTyped DEF Pcs
  <1>6. drivers'[tasks[i].driver].pool = tasks[i].db
    <2>1. PICK d, p : d = tasks[i].driver /\ p = tasks[i].db
      OBVIOUS
    <2>2. d \in 0 .. Len(drivers) /\ d \in DOMAIN drivers
      BY <1>1, <1>2, <2>1, AppTyped, TaskTyped DEF Sound
    <2>3. p \in PoolSet
      <3>1. tasks[i] \in TaskSet
        BY <1>1, TaskTyped
      <3> QED BY <2>1, <3>1 DEF TaskSet, PoolSet
    <2>4. Typed
      BY DEF Sound
    <2> QED BY <1>1, <2>1, <2>2, <2>3, <2>4, PoolChanged
  <1>7. Knows(c)'
    BY <1>1, <1>2, <1>5, <1>6 DEF Knows, Listing
  <1>8. NoteTrue'
    <2>1. PICK j \in DOMAIN tasks' : tasks'[j] = c
      BY <1>4 DEF Step, Turns
    <2> QED BY <1>5, <2>1 DEF NoteTrue
  <1> QED BY <1>1, <1>2, <1>4, <1>7, <1>8, CalmAgain

\* AppState notes it.
LEMMA CalmNotes ==
  ASSUME Sound, Calm, NEW i, Note(i), Lone(tasks')
  PROVE  Calm'
  <1>1. /\ i \in DOMAIN tasks /\ tasks[i].pc = "note" /\ tasks[i].kind \in {"load", "query"}
        /\ app' \in AppSet /\ app'.id = app.id /\ app'.driver = app.driver
        /\ app'.db = IF app.driver = 0 THEN app.db ELSE tasks[i].db
        /\ Typed' /\ Grows
    BY NoteSession
  <1>2. /\ Switching(tasks[i]) /\ tasks[i].driver = app.driver /\ app.driver # 0
        /\ drivers[tasks[i].driver].pool = tasks[i].db
    BY <1>1 DEF Switching, Calm, Knows
  <1>3. UNCHANGED drivers
    BY DEF Note
  <1>4. NoteTrue'
    BY <1>1, <1>2, <1>3 DEF NoteTrue
  <1>5. PICK a : a = app'
    OBVIOUS
  <1>6. PICK c, d : d = app.driver /\ c = AtWait(tasks[i], "run", d)
    OBVIOUS
  <1>7. Step(i, {c} \cup Range(DatabasesTask(a)))
    BY <1>5, <1>6, NotesStep
  <1>8. c.pc = "run" /\ c.kind = tasks[i].kind
    <2>1. tasks[i] \in TaskSet /\ "run" \in Pcs /\ d \in Nat
      BY <1>1, <1>6, TaskTyped, AppTyped DEF Sound, Pcs
    <2> QED BY <1>6, <2>1, AtWaitTyped
  <1>9. Knows(c)'
    BY <1>1, <1>8, KnowsNothing
  <1>10. Fresh(DatabasesTask(a), {"databases"})
    BY <1>1, <1>5, DatabasesFresh
  <1>11. \A u \in Range(DatabasesTask(a)) : Knows(u)'
    <2>1. \A u \in Range(DatabasesTask(a)) : u.kind = "databases"
      BY <1>10 DEF Fresh
    <2> QED BY <1>1, <1>10, <2>1, FreshKnows DEF Typed
  <1>12. \A u \in {c} \cup Range(DatabasesTask(a)) : Knows(u)'
    BY <1>9, <1>11
  <1> QED BY <1>1, <1>2, <1>4, <1>7, <1>12, CalmAgain

\* A load or a query begins in the session there is.
LEMMA CalmWorks ==
  ASSUME Sound, Calm, NEW i \in DOMAIN tasks, tasks[i].pc = "start", NEW c, Step(i, {c}),
         c.driver = app.driver, app.driver # 0, c.kind \in {"load", "query"},
         c.pc \in {"run", "swap"}, UNCHANGED <<app, drivers>>, Lone(tasks')
  PROVE  Calm'
  <1>1. Knows(c)'
    BY DEF Knows, Listing
  <1> QED BY <1>1, CalmOn, SessionUnchanged

\* Both begin so, connect or fail.
LEMMA CalmStarts ==
  ASSUME Sound, Calm, NEW i, StartQuery(i) \/ StartLoad(i), Lone(tasks')
  PROVE  Calm'
  <1>1. i \in DOMAIN tasks /\ tasks[i].pc = "start" /\ tasks[i].kind \in {"query", "load"}
    BY DEF StartQuery, StartLoad, Starts, At
  <1>2. tasks[i] \in TaskSet /\ app \in AppSet
    BY <1>1, TaskTyped, AppTyped DEF Sound
  <1>3. PICK w, a : a = app /\ w = Work(tasks[i], a)
    OBVIOUS
  <1>4. w \in TaskSet /\ w.kind = tasks[i].kind /\ w.driver = a.driver /\ w.pc \in {"run", "swap"}
    BY <1>2, <1>3, WorkTyped
  <1>5. CASE StartQuery(i)
    <2>1. CASE Connects(i) /\ Step(i, {Dropping(i)})
      BY <1>1, <2>1, CalmConnects
    <2>2. CASE Step(i, {w}) /\ app.driver # 0 /\ UNCHANGED <<app, drivers>>
      BY <1>1, <1>3, <1>4, <2>2, CalmWorks
    <2> QED BY <1>3, <1>5, <2>1, <2>2, StartQueryStep
  <1>6. CASE StartLoad(i)
    <2>1. CASE Fails(i) /\ Step(i, {})
      <3>1. UNCHANGED <<app, drivers>>
        BY <2>1 DEF Fails
      <3> QED BY <1>1, <2>1, <3>1, CalmAlone
    <2>2. CASE Step(i, {LoadWork(i)}) /\ app.driver # 0 /\ UNCHANGED <<app, drivers>>
      <3>1. tasks[i].kind = "load"
        BY <1>6 DEF StartLoad, Starts
      <3>2. PICK p, s : p = tab[tasks[i].tab].page /\ s = tab[tasks[i].tab].sort
        OBVIOUS
      <3>3. p \in 0 .. MaxPage /\ s \in BOOLEAN
        BY <1>1, <3>1, <3>2, TaskTab
      <3>4. PICK c : c = Paged(w, p, s)
        OBVIOUS
      <3>5. LoadWork(i) = c
        BY <1>3, <3>2, <3>4 DEF LoadWork, Paged
      <3>6. c.kind = w.kind /\ c.driver = w.driver /\ c.pc = w.pc
        BY <1>4, <3>3, <3>4, PageTyped
      <3>7. Step(i, {c})
        BY <2>2, <3>5
      <3> QED BY <1>1, <1>3, <1>4, <2>2, <3>6, <3>7, CalmWorks
    <2> QED BY <1>6, <2>1, <2>2, StartLoadStep
  <1> QED BY <1>5, <1>6

\* A call begins.
LEMMA CalmCalls ==
  ASSUME Sound, Calm, NEW i, StartCall(i) \/ StartDatabases(i), Lone(tasks')
  PROVE  Calm'
  <1>1. CASE Fails(i) /\ Step(i, {}) /\ tasks[i].pc = "start"
    <2>1. UNCHANGED <<app, drivers>>
      BY <1>1 DEF Fails
    <2> QED BY <1>1, <2>1, CalmAlone
  <1>2. CASE \E t : CallsTo(i, t)
    <2>1. PICK t : CallsTo(i, t)
      BY <1>2
    <2>2. /\ i \in DOMAIN tasks /\ tasks[i].pc = "start" /\ Step(i, {t})
          /\ t.kind = tasks[i].kind /\ t.conn = tasks[i].conn /\ t.pc = "run"
          /\ t.driver = app.driver /\ app.driver # 0 /\ UNCHANGED <<app, drivers>>
      BY <2>1 DEF CallsTo
    <2>3. t.kind \in {"schema", "tables"} => drivers[app.driver].conn = t.conn
      BY <2>2 DEF Calm, Knows, Listing
    <2>4. app.driver \in DOMAIN drivers
      BY <2>2, AppTyped DEF Sound
    <2>5. Knows(t)'
      BY <2>2, <2>3, <2>4 DEF Knows, Listing
    <2> QED BY <2>2, <2>5, CalmOn, SessionUnchanged
  <1> QED BY <1>1, <1>2, StartCallStep

\* An answer makes a future know no more of the session.
LEMMA AnswerKnows ==
  ASSUME Sound, Calm, NEW i \in DOMAIN tasks, tasks[i].pc # "note", NEW c, Step(i, {c}),
         UNCHANGED <<app, drivers>>, Lone(tasks'),
         \/ c.pc \in {"show", "ask"}
         \/ c.pc \in {"start", "run"} /\ c.kind \notin {"schema", "tables"}
  PROVE  Calm'
  <1>1. Knows(c)'
    BY KnowsNothing
  <1> QED BY <1>1, CalmOn, SessionUnchanged

\* The driver answers.
LEMMA CalmAnswers ==
  ASSUME Sound, Calm, NEW i, Lone(tasks'),
         Runs(i) \/ Writes(i) \/ ReadsColumns(i) \/ ReadsStructure(i)
  PROVE  Calm'
  <1>1. UNCHANGED <<app, drivers>> /\ i \in DOMAIN tasks /\ tasks[i].pc = "run"
    BY DEF Runs, Writes, ReadsColumns, ReadsStructure, Answers, At
  <1>2. PICK t : t = tasks[i]
    OBVIOUS
  <1>3. t \in TaskSet
    BY <1>1, <1>2, TaskTyped
  <1>4. CASE Runs(i)
    <2>1. PICK from, v : from = Place(t.driver) /\ v = IF Pool(i) = "" THEN 0 ELSE version[Place(t.driver)]
      OBVIOUS
    <2>2. v \in Nat /\ t.driver # 0
      BY <1>2, <1>4, <2>1, RunsStep
    <2>3. from \in Spot \cup {NULL}
      BY <1>1, <1>2, <2>1, <2>2, PlaceTyped
    <2>4. PICK c : c = Got(t, from, v)
      OBVIOUS
    <2>5. c.pc = "show"
      BY <1>3, <2>2, <2>3, <2>4, GotTyped
    <2>6. Step(i, {c})
      BY <1>2, <1>4, <2>1, <2>4, RunsStep DEF RunsTask
    <2> QED BY <1>1, <2>5, <2>6, AnswerKnows
  <1>5. CASE Writes(i)
    <2>1. PICK p, v : p = Place(t.driver) /\ v = version[p] + 1
      OBVIOUS
    <2>2. v \in Nat /\ t.driver # 0
      BY <1>2, <1>5, <2>1, WritesStep
    <2>3. p \in Spot \cup {NULL}
      BY <1>1, <1>2, <2>1, <2>2, PlaceTyped
    <2>4. PICK c, parts : parts = Append(t.parts, p) /\ c = WroteAt(t, parts, v)
      OBVIOUS
    <2>5. c.pc = "show"
      BY <1>3, <2>2, <2>3, <2>4, PartsTyped, WroteTyped
    <2>6. Step(i, {c})
      BY <1>2, <1>5, <2>1, <2>4, WritesStep DEF WritesTask
    <2> QED BY <1>1, <2>5, <2>6, AnswerKnows
  <1>6. CASE ReadsColumns(i)
    <2>1. PICK p, d : p = Named(i) /\ d = t.driver
      OBVIOUS
    <2>2. t.driver # 0
      BY <1>2, <1>6, LearnsStep
    <2>3. p \in Spot \cup {NULL}
      BY <1>1, <1>2, <2>1, <2>2, PlaceTyped
    <2>4. d \in Nat /\ "show" \in Pcs
      BY <1>3, <2>1 DEF TaskSet, Pcs
    <2>5. PICK c, parts : parts = Append(t.parts, p) /\ c = Learnt(t, "show", parts, d)
      OBVIOUS
    <2>6. c.pc = "show"
      BY <1>3, <2>3, <2>4, <2>5, PartsTyped, LearntTyped
    <2>7. Step(i, {c})
      BY <1>2, <1>6, <2>1, <2>5, LearnsStep DEF LearnsTask
    <2> QED BY <1>1, <2>6, <2>7, AnswerKnows
  <1>7. CASE ReadsStructure(i)
    <2>1. PICK c : Step(i, {c}) /\ c.kind = "structure" /\ c.pc \in {"run", "show"}
      BY <1>7, StructureStep
    <2> QED BY <1>1, <2>1, AnswerKnows
  <1> QED BY <1>4, <1>5, <1>6, <1>7

\* A call fails.
LEMMA CalmFails ==
  ASSUME Sound, Calm, NEW i, Lone(tasks'), CallFails(i)
  PROVE  Calm'
  <1>1. UNCHANGED <<app, drivers>> /\ tasks[i].pc # "note"
    BY DEF CallFails, Fails, At
  <1> QED BY <1>1, CallFailsStep, CalmAlone

\* An answer is shown.
LEMMA CalmShows ==
  ASSUME Sound, Calm, NEW i, Lone(tasks'),
         \/ ShowRows(i) \/ ShowWritten(i) \/ ShowStructure(i) \/ ShowDialog(i)
         \/ ShowSchema(i) \/ ShowTables(i) \/ ShowDatabases(i)
  PROVE  Calm'
  <1>1. UNCHANGED <<app, drivers>> /\ i \in DOMAIN tasks /\ tasks[i].pc \in {"show", "run"}
    BY DEF ShowRows, ShowWritten, ShowStructure, ShowDialog, ShowSchema, ShowTables,
           ShowDatabases, Shows, Lists, At
  <1>2. tasks[i].pc # "note"
    BY <1>1
  <1>3. CASE Step(i, {})
    BY <1>1, <1>2, <1>3, CalmAlone
  <1>4. CASE ShowWritten(i)
    <2>1. PICK new : new = WrittenLoad(i)
      OBVIOUS
    <2>2. Step(i, Range(new)) /\ Fresh(new, {"load"})
      BY <1>4, <2>1, ShowWrittenStep
    <2>3. \A u \in Range(new) : Knows(u)'
      <3> SUFFICES ASSUME NEW u \in Range(new) PROVE Knows(u)'
        OBVIOUS
      <3>1. u.pc = "start" /\ u.kind = "load"
        BY <2>2 DEF Fresh
      <3> QED BY <3>1, KnowsNothing
    <2> QED BY <1>1, <1>2, <2>2, <2>3, CalmOn, SessionUnchanged
  <1>5. CASE ShowDialog(i)
    <2>1. PICK c : c = Pc(i, "ask")
      OBVIOUS
    <2>2. c.pc = "ask"
      BY <1>1, <2>1, PcTyped DEF Pcs
    <2>3. Step(i, {c})
      BY <1>5, <2>1, DialogStep
    <2> QED BY <1>1, <1>2, <2>2, <2>3, AnswerKnows
  <1> QED BY <1>3, <1>4, <1>5, ShowRowsStep, ShowStructureStep, ListsStep

\* A dialog is answered.
LEMMA CalmDialog ==
  ASSUME Sound, Calm, NEW i, Lone(tasks'), Accept(i) \/ Cancel(i)
  PROVE  Calm'
  <1>1. UNCHANGED <<app, drivers>> /\ i \in DOMAIN tasks /\ tasks[i].pc # "note"
    BY DEF Accept, Cancel, At
  <1>2. CASE Cancel(i)
    BY <1>1, <1>2, CancelStep, CalmAlone
  <1>3. CASE Accept(i)
    <2>1. PICK c : c = WriteTask(i)
      OBVIOUS
    <2>2. c.pc = "start" /\ c.kind = "write"
      BY <1>1, <2>1, WriteTaskTyped
    <2>3. Step(i, {c})
      BY <1>3, <2>1, AcceptStep
    <2> QED BY <1>1, <2>2, <2>3, AnswerKnows
  <1> QED BY <1>2, <1>3

\* Whatever happens, unless it overlaps a switch.
LEMMA CalmFutures ==
  ASSUME Sound, Calm, NEW i \in DOMAIN tasks, Lone(tasks'), Future(i)
  PROVE  Calm'
  <1>1. CASE StartConnect(i)
    BY <1>1, ConnectsStep, CalmConnects DEF StartConnect
  <1>2. CASE Runs(i) \/ Writes(i) \/ ReadsColumns(i) \/ ReadsStructure(i)
    BY <1>2, CalmAnswers
  <1>3. CASE \/ ShowRows(i) \/ ShowWritten(i) \/ ShowStructure(i) \/ ShowDialog(i)
             \/ ShowSchema(i) \/ ShowTables(i) \/ ShowDatabases(i)
    BY <1>3, CalmShows
  <1>4. CASE StartQuery(i) \/ StartLoad(i)
    BY <1>4, CalmStarts
  <1>5. CASE StartCall(i) \/ StartDatabases(i)
    BY <1>5, CalmCalls
  <1> QED BY <1>1, <1>2, <1>3, <1>4, <1>5, CalmDisconnect, CalmLeaves, CalmDials, CalmSwaps,
             CalmNotes, CalmFails DEF Future

\* While no switches overlap, the session is calm.
LEMMA CalmNext ==
  ASSUME Sound, ~raced => Calm, Next
  PROVE  ~raced' => Calm'
  <1> SUFFICES ASSUME ~raced' PROVE Calm'
    OBVIOUS
  <1>1. Noted
    BY DEF Next, Runtime
  <1>2. Lone(tasks') /\ Calm
    BY <1>1, NotRaced
  <1>3. CASE User
    BY <1>2, <1>3, UserSteps, CalmUser
  <1>4. CASE \E i \in DOMAIN tasks : Future(i)
    BY <1>2, <1>4, CalmFutures
  <1>5. CASE \E i \in DOMAIN tasks : Accept(i) \/ Cancel(i)
    BY <1>2, <1>5, CalmDialog
  <1> QED BY <1>3, <1>4, <1>5 DEF Next, Runtime

\* When the program is started it is.
LEMMA CalmAtFirst ==
  ASSUME Init
  PROVE  Calm
  <1>1. app = NoApp /\ app.driver = 0
    BY NoAppTyped DEF Init
  <1>2. \A i \in DOMAIN tasks : tasks[i].pc = "start" /\ tasks[i].kind = "databases"
    BY NoAppTyped, DatabasesSpawned DEF Init, Spawns
  <1>3. Lone(tasks)
    BY <1>2 DEF Lone, Switching
  <1>4. \A i \in DOMAIN tasks : Knows(tasks[i])
    BY <1>2 DEF Knows, Listing
  <1> QED BY <1>1, <1>3, <1>4 DEF Calm, NoteTrue

-----------------------------------------------------------------------------
(* The connection panel.                                                   *)

\* The rows are there, and those of tables are their connection's.
TreeTyped == DOMAIN tree = Conns /\ \A c \in Conns : "dbs" \in DOMAIN tree[c]
Own(c, row) == \A d \in DOMAIN row.dbs : row.dbs[d][1] = "tables" => row.dbs[d][2] = <<c, d>>
Owned == \A c \in Conns : Own(c, tree[c])

RowsTyped(rows) == DOMAIN rows = Conns /\ \A c \in Conns : "dbs" \in DOMAIN rows[c]
RowsOwned(rows) == \A c \in Conns : Own(c, rows[c])

\* An empty row.
LEMMA EmptyRow ==
  ASSUME NEW kind
  PROVE  "dbs" \in DOMAIN Row(kind) /\ DOMAIN Row(kind).dbs = {}
  BY DEF Row

\* A panel drawn anew has no tables.
LEMMA RedrawnOwned ==
  ASSUME NEW id, NEW list, NEW rows, rows = Redrawn(id, list)
  PROVE  RowsTyped(rows) /\ RowsOwned(rows)
  <1>1. DOMAIN rows = Conns
    BY DEF Redrawn
  <1>2. ASSUME NEW c \in Conns
        PROVE  \E kind : rows[c] = Row(kind)
    <2>1. rows[c] = IF c \notin Range(list) THEN Row("absent")
                    ELSE IF c = id THEN Row("loading") ELSE Row("plain")
      BY DEF Redrawn
    <2> QED BY <2>1
  <1>3. ASSUME NEW c \in Conns
        PROVE  "dbs" \in DOMAIN rows[c] /\ Own(c, rows[c])
    <2>1. PICK kind : rows[c] = Row(kind)
      BY <1>2
    <2> QED BY <2>1, EmptyRow DEF Own
  <1> QED BY <1>1, <1>3 DEF RowsTyped, RowsOwned

\* A row is replaced.
LEMMA UnderOwned ==
  ASSUME TreeTyped, NEW c, NEW row, NEW rows, rows = Under(tree, c, row), "dbs" \in DOMAIN row
  PROVE  RowsTyped(rows) /\ (Owned /\ Own(c, row) => RowsOwned(rows))
  <1>1. rows = tree \/ rows = [tree EXCEPT ![c] = row]
    BY DEF Under
  <1>2. CASE rows = tree
    BY <1>2 DEF TreeTyped, Owned, RowsTyped, RowsOwned
  <1>3. CASE rows = [tree EXCEPT ![c] = row]
    <2>1. DOMAIN rows = Conns /\ \A k \in Conns : rows[k] = IF k = c THEN row ELSE tree[k]
      BY <1>3 DEF TreeTyped
    <2> QED BY <2>1 DEF TreeTyped, Owned, RowsTyped, RowsOwned
  <1> QED BY <1>1, <1>2, <1>3

\* What is under a database is replaced.
LEMMA UnderDatabaseOwned ==
  ASSUME TreeTyped, NEW c, NEW d, NEW what, NEW rows, rows = UnderDatabase(c, d, what)
  PROVE  /\ RowsTyped(rows)
         /\ (Owned /\ (what[1] = "tables" => what[2] = <<c, d>>)) => RowsOwned(rows)
  <1>1. CASE rows = tree
    BY <1>1 DEF TreeTyped, Owned, RowsTyped, RowsOwned
  <1>2. CASE rows = [tree EXCEPT ![c].dbs[d] = what]
    <2>1. PICK old : old = tree[c].dbs
      OBVIOUS
    <2>2. PICK new : new = [old EXCEPT ![d] = what]
      OBVIOUS
    <2>3. PICK row : row = [tree[c] EXCEPT !.dbs = new]
      OBVIOUS
    <2>4. rows = [tree EXCEPT ![c] = row]
      BY <1>2, <2>1, <2>2, <2>3
    <2>5. DOMAIN rows = Conns /\ \A k \in Conns : rows[k] = IF k = c THEN row ELSE tree[k]
      BY <2>4 DEF TreeTyped
    <2>6. c \in Conns => "dbs" \in DOMAIN row /\ row.dbs = new
      BY <2>3 DEF TreeTyped
    <2>7. DOMAIN new = DOMAIN old /\ \A e \in DOMAIN old : new[e] = IF e = d THEN what ELSE old[e]
      BY <2>2
    <2>8. RowsTyped(rows)
      BY <2>5, <2>6 DEF TreeTyped, RowsTyped
    <2>9. ASSUME Owned, what[1] = "tables" => what[2] = <<c, d>>, c \in Conns
          PROVE  Own(c, row)
      <3>1. Own(c, tree[c])
        BY <2>9 DEF Owned
      <3> QED BY <2>1, <2>6, <2>7, <2>9, <3>1 DEF Own
    <2>10. (Owned /\ (what[1] = "tables" => what[2] = <<c, d>>)) => RowsOwned(rows)
      BY <2>5, <2>9 DEF Owned, RowsOwned
    <2> QED BY <2>8, <2>10
  <1> QED BY <1>1, <1>2 DEF UnderDatabase

\* What a step does to the rows.
Rows(own) == TreeTyped' /\ (Owned /\ own => Owned')

\* Rows that are not touched.
LEMMA RowsSame ==
  ASSUME TreeTyped, UNCHANGED tree
  PROVE  Rows(TRUE)
  BY DEF TreeTyped, Owned, Rows

\* All rows anew.
LEMMA RowsRedrawn ==
  ASSUME NEW id, NEW list, tree' = Redrawn(id, list)
  PROVE  Rows(TRUE)
  <1>1. PICK rows : rows = tree'
    OBVIOUS
  <1>2. PICK a, b : a = id /\ b = list
    OBVIOUS
  <1>3. rows = Redrawn(id, list)
    BY <1>1
  <1>4. RowsTyped(rows) /\ RowsOwned(rows)
    BY <1>3, RedrawnOwned
  <1> QED BY <1>1, <1>4 DEF RowsTyped, RowsOwned, TreeTyped, Owned, Rows

\* One row.
LEMMA RowsUnder ==
  ASSUME TreeTyped, NEW c, NEW row, tree' = Under(tree, c, row), "dbs" \in DOMAIN row
  PROVE  Rows(Own(c, row))
  <1>1. PICK rows : rows = tree'
    OBVIOUS
  <1>2. RowsTyped(rows) /\ (Owned /\ Own(c, row) => RowsOwned(rows))
    BY <1>1, UnderOwned
  <1> QED BY <1>1, <1>2 DEF RowsTyped, RowsOwned, TreeTyped, Owned, Rows

\* One database of a row.
LEMMA RowsUnderDatabase ==
  ASSUME TreeTyped, NEW c, NEW d, NEW what, tree' = UnderDatabase(c, d, what)
  PROVE  Rows(what[1] = "tables" => what[2] = <<c, d>>)
  <1>1. PICK rows : rows = tree'
    OBVIOUS
  <1>2. /\ RowsTyped(rows)
        /\ (Owned /\ (what[1] = "tables" => what[2] = <<c, d>>)) => RowsOwned(rows)
    BY <1>1, UnderDatabaseOwned
  <1> QED BY <1>1, <1>2 DEF RowsTyped, RowsOwned, TreeTyped, Owned, Rows

\* Rows that are empty, and what is said of a database that has no tables yet.
LEMMA NoTables ==
  /\ \A kind, c : "dbs" \in DOMAIN Row(kind) /\ Own(c, Row(kind))
  /\ <<"loading">>[1] # "tables" /\ <<"error">>[1] # "tables"
  BY EmptyRow DEF Own

\* The user puts no tables under a row.
LEMMA RowsUser ==
  ASSUME TreeTyped, User
  PROVE  Rows(TRUE)
  <1>1. CASE \E id, list : tree' = Redrawn(id, list)
    BY <1>1, RowsRedrawn
  <1>2. CASE tree' = Under(tree, app.id, Row("loading"))
    BY <1>2, RowsUnder, NoTables DEF Rows
  <1>3. CASE \E c \in Conns, d \in Dbs : load_tables_for(c, d)
    <2>1. PICK c \in Conns, d \in Dbs : load_tables_for(c, d)
      BY <1>3
    <2>2. tree' = UnderDatabase(c, d, <<"loading">>)
      BY <2>1 DEF load_tables_for, UnderDatabase
    <2> QED BY <2>2, RowsUnderDatabase, NoTables DEF Rows
  <1>4. CASE UNCHANGED tree
    BY <1>4, RowsSame
  <1>5. CASE \E c \in Conns : delete_connection(c) \/ open_dialog(c)
    BY <1>1, <1>5 DEF delete_connection, open_dialog, Refresh
  <1>6. CASE refresh_schema_tree
    BY <1>1, <1>2, <1>6 DEF refresh_schema_tree, Refresh
  <1>7. CASE \/ \E c \in Conns : connect_to_selected(c)
             \/ disconnect_active \/ create_query_tab
             \/ \E c \in Conns, d \in Dbs : focus_or_open_table_tab(c, d)
    BY <1>4, <1>7 DEF connect_to_selected, disconnect_active, create_query_tab,
                      focus_or_open_table_tab, panel
  <1>8. CASE \/ \E c \in Conns, d \in Dbs \cup {""} : run_query(c, d)
             \/ \E n \in DOMAIN tab :
                  \/ next_page_for(n) \/ prev_page_for(n) \/ apply_sort_for(n)
                  \/ load_table_structure_into_tab(n) \/ open_row_editor(n) \/ confirm_delete_row(n)
             \/ \E i \in DOMAIN tabs :
                  \/ reload_active_data_tab(i) \/ close_data_tab(i)
                  \/ \E k \in DOMAIN tabs : reorder(i, k)
    <2>1. UNCHANGED panel
      BY <1>8 DEF run_query, next_page_for, prev_page_for, apply_sort_for,
                  load_table_structure_into_tab, open_row_editor, confirm_delete_row,
                  reload_active_data_tab, close_data_tab, reorder
    <2> QED BY <1>4, <2>1 DEF panel
  <1> QED BY <1>3, <1>5, <1>6, <1>7, <1>8 DEF User

\* Nor does an error.
LEMMA RowsFail ==
  ASSUME TreeTyped, NEW i, Fails(i)
  PROVE  Rows(TRUE)
  <1>1. CASE tree' = Under(tree, tasks[i].conn, Row("error"))
    BY <1>1, RowsUnder, NoTables DEF Rows
  <1>2. CASE tree' = UnderDatabase(tasks[i].conn, tasks[i].db, <<"error">>)
    BY <1>2, RowsUnderDatabase, NoTables DEF Rows
  <1>3. CASE UNCHANGED tree
    BY <1>3, RowsSame
  <1>4. \/ tree' = Under(tree, tasks[i].conn, Row("error"))
        \/ tree' = UnderDatabase(tasks[i].conn, tasks[i].db, <<"error">>)
        \/ tree' = tree
    <2>1. tree' = CASE tasks[i].kind = "schema" -> Under(tree, tasks[i].conn, Row("error"))
               [] tasks[i].kind = "tables" -> UnderDatabase(tasks[i].conn, tasks[i].db, <<"error">>)
               [] OTHER -> tree
      BY DEF Fails
    <2> QED BY <2>1
  <1> QED BY <1>1, <1>2, <1>3, <1>4

\* Lists are of the driver of the future, which is that of its row's connection.
LEMMA RowsListed ==
  ASSUME TreeTyped, NEW i, ShowSchema(i) \/ ShowTables(i)
  PROVE  Rows(Calm)
  <1>1. /\ i \in DOMAIN tasks /\ tasks[i].pc = "run" /\ tasks[i].kind \in {"schema", "tables"}
    BY DEF ShowSchema, ShowTables, Lists, At
  <1>2. PICK c, d : c = tasks[i].conn /\ d = tasks[i].driver
    OBVIOUS
  <1>3. Calm => drivers[d].conn = c
    BY <1>1, <1>2 DEF Calm, Knows
  <1>4. CASE ShowSchema(i)
    <2>1. PICK row : row = SchemaRow(tasks[i])
      OBVIOUS
    <2>2. tree' = Under(tree, c, row)
      BY <1>2, <1>4, <2>1 DEF ShowSchema
    <2>3. "dbs" \in DOMAIN row
      BY <2>1 DEF SchemaRow
    <2>4. ASSUME Calm, NEW e \in DOMAIN row.dbs, row.dbs[e][1] = "tables"
          PROVE  row.dbs[e][2] = <<c, e>>
      <3>1. \/ row.dbs[e] = <<"placeholder">> \/ row.dbs[e] = <<"empty">>
            \/ row.dbs[e] = <<"tables", <<drivers[d].conn, e>>>>
        BY <1>2, <2>1, <2>4 DEF SchemaRow
      <3>2. row.dbs[e] = <<"tables", <<c, e>>>>
        BY <1>3, <2>4, <3>1
      <3> QED BY <3>2
    <2>5. Calm => Own(c, row)
      BY <2>4 DEF Own
    <2>6. Rows(Own(c, row))
      BY <2>2, <2>3, RowsUnder
    <2> QED BY <2>5, <2>6 DEF Rows
  <1>5. CASE ShowTables(i)
    <2>1. PICK e, what : e = tasks[i].db /\ what = <<"tables", <<drivers[d].conn, e>>>>
      OBVIOUS
    <2>2. tree' = UnderDatabase(c, e, what)
      BY <1>2, <1>5, <2>1 DEF ShowTables
    <2>3. Calm => what[2] = <<c, e>>
      BY <1>3, <2>1
    <2>4. Rows(what[1] = "tables" => what[2] = <<c, e>>)
      BY <2>2, RowsUnderDatabase
    <2> QED BY <2>3, <2>4 DEF Rows
  <1> QED BY <1>4, <1>5

\* Only the lists do, of the connection of the row.
LEMMA RowsFuture ==
  ASSUME TreeTyped, NEW i \in DOMAIN tasks, Future(i)
  PROVE  Rows(Calm)
  <1> USE DEF panel
  <1>1. CASE Fails(i)
    BY <1>1, RowsFail DEF Rows
  <1>2. CASE \E id, list : tree' = Redrawn(id, list)
    BY <1>2, RowsRedrawn DEF Rows
  <1>3. CASE UNCHANGED tree
    BY <1>3, RowsSame DEF Rows
  <1>4. CASE StartConnect(i) \/ StartQuery(i)
    BY <1>3, <1>4 DEF StartConnect, StartQuery, Connects
  <1>5. CASE StartLoad(i)
    BY <1>1, <1>3, <1>5 DEF StartLoad
  <1>6. CASE StartCall(i) \/ StartDatabases(i)
    BY <1>1, <1>3, <1>6 DEF StartCall, StartDatabases, Calls
  <1>7. CASE StartDisconnect(i) \/ Leave(i) \/ Dial(i)
    BY <1>2, <1>3, <1>7 DEF StartDisconnect, Disconnected, Leave, Dial, Refresh
  <1>8. CASE Swap(i) \/ Note(i)
    BY <1>3, <1>8 DEF Swap, Note
  <1>9. CASE Runs(i) \/ Writes(i) \/ ReadsColumns(i) \/ ReadsStructure(i)
    BY <1>3, <1>9 DEF Runs, Writes, ReadsColumns, ReadsStructure, Answers
  <1>10. CASE CallFails(i)
    BY <1>1, <1>3, <1>10 DEF CallFails
  <1>11. CASE \/ ShowRows(i) \/ ShowWritten(i) \/ ShowStructure(i) \/ ShowDialog(i)
              \/ ShowDatabases(i)
    BY <1>3, <1>11 DEF ShowRows, ShowWritten, ShowStructure, ShowDialog, ShowDatabases
  <1>12. CASE ShowSchema(i) \/ ShowTables(i)
    BY <1>12, RowsListed
  <1> QED BY <1>4, <1>5, <1>6, <1>7, <1>8, <1>9, <1>10, <1>11, <1>12 DEF Future

\* Rows under a connection are its own, unless switches overlapped.
LEMMA RowsNext ==
  ASSUME TreeTyped, ~raced => Calm /\ Owned, Next
  PROVE  TreeTyped' /\ (~raced' => Owned')
  <1>1. Noted
    BY DEF Next, Runtime
  <1>2. ~raced' => ~raced
    BY <1>1, NotRaced
  <1>3. Rows(Calm)
    <2>1. CASE User
      BY <2>1, RowsUser DEF Rows
    <2>2. CASE \E i \in DOMAIN tasks : Future(i)
      BY <2>2, RowsFuture
    <2>3. CASE \E i \in DOMAIN tasks : Accept(i) \/ Cancel(i)
      <3>1. UNCHANGED tree
        BY <2>3 DEF Accept, Cancel, panel
      <3> QED BY <3>1, RowsSame DEF Rows
    <2> QED BY <2>1, <2>2, <2>3 DEF Next, Runtime
  <1> QED BY <1>2, <1>3 DEF Rows

-----------------------------------------------------------------------------
(* The mark of the connected one.                                          *)

\* The panel is right, or a connect failed, or one is under way.
Marked ==
  \/ failed \/ mark = app.id
  \/ \E i \in DOMAIN tasks : tasks[i].pc \in {"leave", "dial"}

\* A step that leaves the mark and the id.
LEMMA MarkOn ==
  ASSUME Marked, NEW i, NEW C, Step(i, C), mark' = mark, app'.id = app.id, failed => failed',
         (i \in DOMAIN tasks /\ tasks[i].pc \in {"leave", "dial"}) =>
           failed' \/ \E c \in C : c.pc \in {"leave", "dial"}
  PROVE  Marked'
  <1>1. Turns(i, C)
    BY DEF Step
  <1>2. CASE failed \/ mark = app.id
    BY <1>2 DEF Marked
  <1>3. CASE \E k \in DOMAIN tasks : tasks[k].pc \in {"leave", "dial"}
    <2>1. PICK k \in DOMAIN tasks : tasks[k].pc \in {"leave", "dial"}
      BY <1>3
    <2>2. CASE k # i
      <3>1. PICK j \in DOMAIN tasks' : tasks'[j] = tasks[k]
        BY <1>1, <2>2 DEF Turns
      <3> QED BY <2>1, <3>1 DEF Marked
    <2>3. CASE k = i
      <3>1. CASE failed'
        BY <3>1 DEF Marked
      <3>2. CASE \E c \in C : c.pc \in {"leave", "dial"}
        <4>1. PICK c \in C : c.pc \in {"leave", "dial"}
          BY <3>2
        <4>2. PICK j \in DOMAIN tasks' : tasks'[j] = c
          BY <1>1 DEF Turns
        <4> QED BY <4>1, <4>2 DEF Marked
      <3> QED BY <2>1, <2>3, <3>1, <3>2
    <2> QED BY <2>2, <2>3
  <1> QED BY <1>2, <1>3 DEF Marked

\* The panel is drawn anew.
LEMMA MarkRedrawn ==
  ASSUME mark' = app'.id
  PROVE  Marked'
  BY DEF Marked

\* A future drops the session, or is about to make a new one.
LEMMA MarkDrops ==
  ASSUME NEW i, NEW C, Step(i, C), NEW c \in C, c.pc \in {"leave", "dial"}
  PROVE  Marked'
  <1>1. PICK j \in DOMAIN tasks' : tasks'[j] = c
    BY DEF Step, Turns
  <1> QED BY <1>1 DEF Marked

\* The user leaves the mark, or has the panel drawn anew.
LEMMA MarkUser ==
  ASSUME Sound, Marked, User
  PROVE  Marked'
  <1>1. PICK C : UserStep(C)
    BY UserSteps
  <1>2. CASE mark' = app'.id
    BY <1>2, MarkRedrawn
  <1>3. CASE mark' = mark /\ app' = app
    <2>1. Step(0, C) /\ failed' = failed
      BY <1>1 DEF UserStep
    <2>2. 0 \notin DOMAIN tasks
      <3>1. tasks \in Seq(TaskSet)
        BY DEF Sound, Tasks
      <3> QED BY <3>1
    <2> QED BY <1>3, <2>1, <2>2, MarkOn
  <1>4. mark' = app'.id \/ (mark' = mark /\ app' = app)
    <2> USE DEF panel
    <2>1. CASE \E c \in Conns : delete_connection(c) \/ open_dialog(c)
      BY <2>1 DEF delete_connection, open_dialog, Refresh
    <2>2. CASE refresh_schema_tree
      BY <2>2 DEF refresh_schema_tree, Refresh
    <2>3. CASE \/ \E c \in Conns : connect_to_selected(c)
               \/ disconnect_active \/ create_query_tab
               \/ \E c \in Conns, d \in Dbs : load_tables_for(c, d) \/ focus_or_open_table_tab(c, d)
      BY <2>3 DEF connect_to_selected, disconnect_active, create_query_tab,
                  load_tables_for, focus_or_open_table_tab
    <2>4. CASE \/ \E c \in Conns, d \in Dbs \cup {""} : run_query(c, d)
               \/ \E n \in DOMAIN tab :
                    \/ next_page_for(n) \/ prev_page_for(n) \/ apply_sort_for(n)
                    \/ load_table_structure_into_tab(n) \/ open_row_editor(n)
                    \/ confirm_delete_row(n)
               \/ \E i \in DOMAIN tabs :
                    \/ reload_active_data_tab(i) \/ close_data_tab(i)
                    \/ \E k \in DOMAIN tabs : reorder(i, k)
      BY <2>4 DEF run_query, next_page_for, prev_page_for, apply_sort_for,
                  load_table_structure_into_tab, open_row_editor, confirm_delete_row,
                  reload_active_data_tab, close_data_tab, reorder
    <2> QED BY <2>1, <2>2, <2>3, <2>4 DEF User
  <1> QED BY <1>2, <1>3, <1>4

\* A connect that fails is noted.
LEMMA MarkFails ==
  ASSUME Sound, Marked, NEW i \in DOMAIN tasks, Fails(i), tasks[i].pc # "leave"
  PROVE  Marked'
  <1>1. Step(i, {}) /\ mark' = mark /\ app' = app
    BY FailsStep DEF Fails
  <1>2. (failed => failed') /\ (tasks[i].pc = "dial" => failed')
    BY Zenon DEF Fails
  <1> QED BY <1>1, <1>2, MarkOn

\* A step of a future that neither drops the session nor makes one.
LEMMA MarkQuiet ==
  ASSUME Marked, NEW i, NEW C, Step(i, C), UNCHANGED <<mark, failed>>, app'.id = app.id,
         tasks[i].pc \notin {"leave", "dial"}
  PROVE  Marked'
  BY MarkOn

\* A future leaves the mark and the id, drops the session, or draws the panel.
LEMMA MarkFuture ==
  ASSUME Sound, Marked, NEW i \in DOMAIN tasks, Future(i)
  PROVE  Marked'
  <1> USE DEF panel
  <1>1. CASE Fails(i) /\ tasks[i].pc # "leave"
    BY <1>1, MarkFails
  <1>2. CASE UNCHANGED <<mark, failed>> /\ app'.id = app.id /\ tasks[i].pc \notin {"leave", "dial"}
    BY <1>2, FutureSteps, MarkQuiet
  <1>3. CASE mark' = app'.id
    BY <1>3, MarkRedrawn
  <1>4. CASE Connects(i) /\ Step(i, {Dropping(i)})
    <2>1. PICK pc, d, c : /\ pc = (IF app.driver = 0 THEN "dial" ELSE "leave") /\ d = app.driver
                          /\ c = AtWait(tasks[i], pc, d)
      OBVIOUS
    <2>2. tasks[i] \in TaskSet /\ pc \in Pcs /\ d \in Nat
      BY <2>1, TaskTyped, AppTyped DEF Sound, Pcs
    <2>3. c.pc = pc
      BY <2>1, <2>2, AtWaitTyped
    <2>4. Step(i, {c})
      BY <1>4, <2>1 DEF Dropping
    <2> QED BY <2>1, <2>3, <2>4, MarkDrops
  <1>5. CASE StartConnect(i)
    BY <1>4, <1>5, ConnectsStep DEF StartConnect
  <1>6. CASE StartQuery(i)
    <2>1. tasks[i].pc = "start"
      BY <1>6 DEF StartQuery, Starts, At
    <2>2. CASE UNCHANGED <<app, panel, failed>>
      BY <1>2, <2>1, <2>2
    <2> QED BY <1>4, <1>6, <2>2, StartQueryStep
  <1>7. CASE StartLoad(i)
    <2>1. tasks[i].pc = "start"
      BY <1>7 DEF StartLoad, Starts, At
    <2>2. CASE UNCHANGED <<app, panel, failed>>
      BY <1>2, <2>1, <2>2
    <2> QED BY <1>1, <1>7, <2>1, <2>2, StartLoadStep
  <1>8. CASE StartCall(i) \/ StartDatabases(i)
    <2>1. tasks[i].pc = "start"
      BY <1>8 DEF StartCall, StartDatabases, Starts, At
    <2>2. CASE UNCHANGED <<app, panel, failed>>
      BY <1>2, <2>1, <2>2
    <2> QED BY <1>1, <1>8, <2>1, <2>2, StartCallStep DEF CallsTo
  <1>9. CASE StartDisconnect(i)
    <2>1. CASE Disconnected(i)
      <3>1. mark' = NULL /\ app' = NoApp
        BY <1>9, <2>1, NoAppTyped DEF StartDisconnect, Disconnected, Refresh
      <3> QED BY <1>3, <3>1, NoAppTyped
    <2>2. CASE Step(i, {AtWait(tasks[i], "leave", app.driver)})
      <3>1. PICK d, c : d = app.driver /\ c = AtWait(tasks[i], "leave", d)
        OBVIOUS
      <3>2. tasks[i] \in TaskSet /\ "leave" \in Pcs /\ d \in Nat
        BY <3>1, TaskTyped, AppTyped DEF Sound, Pcs
      <3>3. c.pc = "leave"
        BY <3>1, <3>2, AtWaitTyped
      <3>4. Step(i, {c})
        BY <2>2, <3>1
      <3> QED BY <3>3, <3>4, MarkDrops
    <2> QED BY <1>9, <2>1, <2>2, StartDisconnectStep
  <1>10. CASE Leave(i)
    <2>1. CASE tasks[i].kind = "disconnect"
      <3>1. mark' = app.id /\ app' = app
        BY <1>10, <2>1 DEF Leave, Refresh
      <3> QED BY <1>3, <3>1
    <2>2. CASE tasks[i].kind # "disconnect"
      <3>1. PICK c : c = Pc(i, "dial")
        OBVIOUS
      <3>2. c.pc = "dial"
        BY <3>1, PcTyped DEF Pcs
      <3>3. Step(i, {c})
        BY <1>10, <2>2, <3>1, LeavesStep
      <3> QED BY <3>2, <3>3, MarkDrops
    <2> QED BY <2>1, <2>2
  <1>11. CASE Dial(i)
    BY <1>3, <1>11 DEF Dial, Refresh
  <1>12. CASE Swap(i)
    BY <1>2, <1>12 DEF Swap, At
  <1>13. CASE Note(i)
    BY <1>2, <1>13, NoteSession DEF Note, At
  <1>14. CASE Runs(i) \/ Writes(i) \/ ReadsColumns(i) \/ ReadsStructure(i)
    BY <1>2, <1>14 DEF Runs, Writes, ReadsColumns, ReadsStructure, Answers, At
  <1>15. CASE CallFails(i)
    <2>1. CASE Fails(i) /\ tasks[i].pc \in {"dial", "swap", "run"}
      BY <1>1, <2>1
    <2>2. CASE At(i, "run") /\ UNCHANGED <<app, panel, failed>>
      BY <1>2, <2>2 DEF At
    <2> QED BY <1>15, <2>1, <2>2 DEF CallFails
  <1>16. CASE \/ ShowRows(i) \/ ShowWritten(i) \/ ShowStructure(i) \/ ShowDialog(i)
              \/ ShowSchema(i) \/ ShowTables(i) \/ ShowDatabases(i)
    BY <1>2, <1>16 DEF ShowRows, ShowWritten, ShowStructure, ShowDialog, ShowSchema,
           ShowTables, ShowDatabases, Shows, Lists, At
  <1> QED BY <1>5, <1>6, <1>7, <1>8, <1>9, <1>10, <1>11, <1>12, <1>13, <1>14, <1>15, <1>16
          DEF Future

\* The panel is right after every step, or is about to be.
LEMMA MarkNext ==
  ASSUME Sound, Marked, Next
  PROVE  Marked'
  <1>1. CASE \E i \in DOMAIN tasks : Accept(i) \/ Cancel(i)
    <2>1. PICK i \in DOMAIN tasks : Accept(i) \/ Cancel(i)
      BY <1>1
    <2>2. UNCHANGED <<mark, failed, app>> /\ tasks[i].pc = "ask"
      BY <2>1 DEF Accept, Cancel, At, panel
    <2>3. \E C : Step(i, C)
      BY <2>1, AcceptStep, CancelStep
    <2> QED BY <2>2, <2>3, MarkQuiet
  <1> QED BY <1>1, MarkUser, MarkFuture DEF Next, Runtime

-----------------------------------------------------------------------------
(* The session is one.                                                     *)

SessionInv ==
  /\ Sound /\ Counted
  /\ TreeTyped /\ Marked
  /\ ~raced => Calm /\ Owned

\* When the program is started.
LEMMA SessionInit == Init => SessionInv
  <1> SUFFICES ASSUME Init PROVE SessionInv
    OBVIOUS
  <1>1. Sound /\ Calm
    BY InitSound, CalmAtFirst
  <1>2. Counted
    <2>1. MaxEvents \in Nat
      BY ConstantsAre
    <2>2. 0 \in 0 .. MaxEvents
      BY <2>1
    <2> QED BY <2>2 DEF Init, Counted
  <1>3. TreeTyped /\ Owned
    <2>1. PICK rows : rows = Redrawn(NULL, Start)
      OBVIOUS
    <2>2. RowsTyped(rows) /\ RowsOwned(rows) /\ tree = rows
      BY <2>1, RedrawnOwned DEF Init
    <2> QED BY <2>2 DEF RowsTyped, RowsOwned, TreeTyped, Owned
  <1>4. Marked
    BY NoAppTyped DEF Init, Marked
  <1> QED BY <1>1, <1>2, <1>3, <1>4 DEF SessionInv

\* After every step.
LEMMA SessionNext == SessionInv /\ [Next]_vars => SessionInv'
  <1>1. ASSUME SessionInv, Next
        PROVE  SessionInv'
    <2>1. Sound /\ Counted /\ TreeTyped /\ Marked /\ (~raced => Calm /\ Owned)
      BY <1>1 DEF SessionInv
    <2>2. Sound'
      BY <1>1, <2>1, NextSteps, StepIsSound
    <2>3. Counted'
      BY <1>1, <2>1, CountedStays
    <2>4. TreeTyped' /\ (~raced' => Owned')
      BY <1>1, <2>1, RowsNext
    <2>5. Marked'
      BY <1>1, <2>1, MarkNext
    <2>6. ~raced' => Calm'
      BY <1>1, <2>1, CalmNext
    <2> QED BY <2>2, <2>3, <2>4, <2>5, <2>6 DEF SessionInv
  <1>2. ASSUME SessionInv, UNCHANGED vars
        PROVE  SessionInv'
    <2>1. Sound' /\ Counted'
      BY <1>2, Stutters, CountedStays DEF SessionInv
    <2>2. UNCHANGED <<tasks, app, drivers, raced, failed>> /\ UNCHANGED panel
      BY <1>2 DEF vars
    <2>3. TreeTyped' /\ Marked'
      BY <1>2, <2>2 DEF SessionInv, TreeTyped, Marked, panel
    <2>4. ~raced' => Calm' /\ Owned'
      BY <1>2, <2>2 DEF SessionInv, Calm, Lone, Knows, Listing, NoteTrue, Owned, Own, panel
    <2> QED BY <2>1, <2>3, <2>4 DEF SessionInv
  <1> QED BY <1>1, <1>2

\* In every state of every behaviour.
LEMMA SessionAlways == Spec => []SessionInv
  BY SessionInit, SessionNext, PTL DEF Spec

\* Whatever operations overlap, the window's session is one: the active id is
\* the driver's; unless switches overlapped, AppState notes the database of its
\* pool and the rows under a connection are its own; and at rest the panel marks
\* the connected one, unless a connect failed (lifecycle.rs, schema.rs).
THEOREM SessionOne == Spec => []SessionIsOne
  <1>1. SessionInv => SessionIsOne
    <2> SUFFICES ASSUME SessionInv PROVE SessionIsOne
      OBVIOUS
    <2>1. TypeOK
      BY SoundIsTyped DEF SessionInv
    <2>2. ActiveIsOne
      BY DEF SessionInv, Sound, Typed, SessionTyped
    <2>3. NoteIsTrue
      BY DEF SessionInv, Calm, NoteTrue, NoteIsTrue
    <2>4. TreeIsOwn
      BY DEF SessionInv, Owned, Own, TreeIsOwn
    <2>5. MarkIsActive
      <3>1. tasks = <<>> => DOMAIN tasks = {}
        OBVIOUS
      <3> QED BY <3>1 DEF SessionInv, Marked, MarkIsActive
    <2> QED BY <2>1, <2>2, <2>3, <2>4, <2>5 DEF SessionIsOne
  <1> QED BY <1>1, SessionAlways, PTL

-----------------------------------------------------------------------------
(* What a grid shows.                                                      *)

\* A load of a tab that no later one was asked for has the page and the order of
\* the tab, and an answer it has is no older than the tab's last write.
LoadFits(t, u) ==
  /\ t.nr <= u.nr
  /\ t.nr = u.nr =>
       /\ t.pc # "start" => t.page = u.page /\ t.sort = u.sort
       /\ (t.pc = "show" /\ u.wrote # NULL /\ t.from = u.wrote.parts[2]) =>
            t.version >= u.wrote.version

\* A write knows where its columns were read, and then where it went.
WriteFits(t) ==
  /\ (t.kind = "row" /\ t.pc \in {"start", "run"}) => t.parts = <<>>
  /\ ((t.kind = "row" /\ t.pc \in {"show", "ask"}) \/ (t.kind = "write" /\ t.pc # "show")) =>
       Len(t.parts) = 1
  /\ (t.kind = "write" /\ t.pc = "show") =>
       /\ Len(t.parts) = 2 /\ t.parts[2] \in Conns \X Dbs
       /\ t.version <= version[t.parts[2]]

\* What was written from a tab.
WrittenFits(u) ==
  /\ u.conn = NULL => u.wrote = NULL
  /\ u.wrote # NULL => /\ u.wrote.parts[2] \in Conns \X Dbs
                       /\ u.wrote.version <= version[u.wrote.parts[2]]

\* What a tab of a table shows fits as a load does.
RowsFit(u) ==
  (u.conn # NULL /\ u.grid = "rows") =>
       /\ u.shown.nr <= u.nr
       /\ u.shown.nr = u.nr =>
            /\ u.shown.page = u.page /\ u.shown.sort = u.sort
            /\ (u.wrote # NULL /\ u.shown.from = u.wrote.parts[2]) =>
                 u.shown.version >= u.wrote.version

TabFits(u) == WrittenFits(u) /\ RowsFit(u)

TaskFits(t) == (t.kind = "load" => LoadFits(t, tab[t.tab])) /\ WriteFits(t)

ShowsTrue ==
  /\ \A i \in DOMAIN tasks : TaskFits(tasks[i])
  /\ \A n \in DOMAIN tab : TabFits(tab[n])
  /\ LoadingIsLoaded

\* A tab that is asked for again has a new number; else what loads are held
\* against stays.
Keeps(u, v) ==
  \/ v.nr > u.nr
  \/ v.nr = u.nr /\ v.page = u.page /\ v.sort = u.sort /\ v.wrote = u.wrote

\* A load that fits still does.
LEMMA LoadStaysFit ==
  ASSUME NEW t \in TaskSet, NEW u \in TabSet, NEW v \in TabSet, LoadFits(t, u), Keeps(u, v)
  PROVE  LoadFits(t, v)
  <1>1. t.nr \in Nat /\ u.nr \in Nat /\ v.nr \in Nat
    BY DEF TaskSet, TabSet
  <1>2. CASE v.nr > u.nr
    <2>1. t.nr <= v.nr /\ t.nr # v.nr
      BY <1>1, <1>2 DEF LoadFits
    <2> QED BY <2>1 DEF LoadFits
  <1>3. CASE v.nr = u.nr /\ v.page = u.page /\ v.sort = u.sort /\ v.wrote = u.wrote
    BY <1>3 DEF LoadFits
  <1> QED BY <1>2, <1>3 DEF Keeps

\* Versions grow.
LEMMA NoOlder ==
  ASSUME Typed, Typed', VersionGrows, NEW p \in Conns \X Dbs, NEW v \in Nat, v <= version[p]
  PROVE  v <= version'[p]
  <1>1. version[p] \in Nat /\ version'[p] \in Nat
    BY DEF Typed, VersionTyped
  <1>2. version[p] <= version'[p]
    BY DEF VersionGrows
  <1> QED BY <1>1, <1>2

\* A write that fits still does.
LEMMA WriteStaysFit ==
  ASSUME Typed, Typed', VersionGrows, NEW t \in TaskSet, WriteFits(t)
  PROVE  WriteFits(t)'
  <1>1. CASE t.kind = "write" /\ t.pc = "show"
    <2>1. t.version \in Nat
      BY DEF TaskSet
    <2>2. Len(t.parts) = 2 /\ t.parts[2] \in Conns \X Dbs /\ t.version <= version[t.parts[2]]
      BY <1>1 DEF WriteFits
    <2>3. t.version <= version'[t.parts[2]]
      BY <2>1, <2>2, NoOlder
    <2> QED BY <1>1, <2>2, <2>3 DEF WriteFits
  <1>2. CASE ~(t.kind = "write" /\ t.pc = "show")
    BY <1>2 DEF WriteFits
  <1> QED BY <1>1, <1>2

\* What was written from a tab still fits.
LEMMA WrittenStaysFit ==
  ASSUME Typed, Typed', VersionGrows, NEW u \in TabSet, WrittenFits(u)
  PROVE  WrittenFits(u)'
  <1>1. CASE u.wrote # NULL
    <2>1. u.wrote.version \in Nat
      BY <1>1 DEF TabSet, WroteSet
    <2>2. u.wrote.parts[2] \in Conns \X Dbs /\ u.wrote.version <= version[u.wrote.parts[2]]
      BY <1>1 DEF WrittenFits
    <2>3. u.wrote.version <= version'[u.wrote.parts[2]]
      BY <2>1, <2>2, NoOlder
    <2> QED BY <1>1, <2>2, <2>3 DEF WrittenFits
  <1>2. CASE u.wrote = NULL
    BY <1>2 DEF WrittenFits
  <1> QED BY <1>1, <1>2

\* A tab that fits still does.
LEMMA TabStaysFit ==
  ASSUME Typed, Typed', VersionGrows, NEW u \in TabSet, TabFits(u)
  PROVE  TabFits(u)'
  <1>1. WrittenFits(u)'
    BY WrittenStaysFit DEF TabFits
  <1>2. RowsFit(u)'
    BY DEF TabFits, RowsFit
  <1> QED BY <1>1, <1>2 DEF TabFits

\* A tab whose grid does not show rows fits if its write does.
LEMMA TabEmptyFits ==
  ASSUME Typed, Typed', VersionGrows, NEW w \in TabSet, TabFits(w), NEW u \in TabSet,
         u.conn = w.conn, u.wrote = w.wrote, u.grid # "rows"
  PROVE  TabFits(u)'
  <1>1. WrittenFits(u)
    BY DEF TabFits, WrittenFits
  <1>2. WrittenFits(u)'
    BY <1>1, WrittenStaysFit
  <1>3. RowsFit(u)'
    BY DEF RowsFit
  <1> QED BY <1>2, <1>3 DEF TabFits

\* A tab from which nothing was written yet, and which shows nothing.
LEMMA TabNewFits ==
  ASSUME NEW u, u.wrote = NULL, u.grid # "rows"
  PROVE  TabFits(u)'
  BY DEF TabFits, WrittenFits, RowsFit

\* What loads, after the future i became those of C.
LoadsOn(i, C) ==
  \A n \in DOMAIN tab' : tab'[n].grid = "loading" =>
    \/ \E c \in C : c.tab = n /\ c.kind \in {"load", "query"}
    \/ /\ n \in DOMAIN tab /\ tab[n].grid = "loading"
       /\ ~(i \in DOMAIN tasks /\ tasks[i].tab = n /\ tasks[i].kind \in {"load", "query"})

\* It has an operation that will end it.
LEMMA LoadingOn ==
  ASSUME LoadingIsLoaded, NEW i, NEW C, Turns(i, C), LoadsOn(i, C)
  PROVE  LoadingIsLoaded'
  <1> SUFFICES ASSUME NEW n \in DOMAIN tab', tab'[n].grid = "loading"
               PROVE  \E j \in DOMAIN tasks' :
                        tasks'[j].tab = n /\ tasks'[j].kind \in {"load", "query"}
    BY DEF LoadingIsLoaded
  <1>1. CASE \E c \in C : c.tab = n /\ c.kind \in {"load", "query"}
    BY <1>1 DEF Turns
  <1>2. CASE /\ n \in DOMAIN tab /\ tab[n].grid = "loading"
             /\ ~(i \in DOMAIN tasks /\ tasks[i].tab = n /\ tasks[i].kind \in {"load", "query"})
    <2>1. PICK k \in DOMAIN tasks : tasks[k].tab = n /\ tasks[k].kind \in {"load", "query"}
      BY <1>2 DEF LoadingIsLoaded
    <2>2. k \in DOMAIN tasks \ {i}
      BY <1>2, <2>1
    <2> QED BY <2>1, <2>2 DEF Turns
  <1> QED BY <1>1, <1>2 DEF LoadsOn

\* All fits if that which changed does.
LEMMA ShowsOn ==
  ASSUME Sound, ShowsTrue, NEW i, NEW C, Step(i, C),
         \A n \in DOMAIN tab : Keeps(tab[n], tab'[n]),
         \A n \in DOMAIN tab' : TabFits(tab[n])',
         \A c \in C : (c.kind = "load" => LoadFits(c, tab'[c.tab])) /\ WriteFits(c)',
         LoadsOn(i, C)
  PROVE  ShowsTrue'
  <1>1. Typed /\ Typed' /\ Grows /\ Turns(i, C)
    BY DEF Sound, Step
  <1>2. LoadingIsLoaded'
    BY <1>1, LoadingOn DEF ShowsTrue
  <1>3. ASSUME NEW k \in DOMAIN tasks, NEW t, t = tasks[k]
        PROVE  (t.kind = "load" => LoadFits(t, tab'[t.tab])) /\ WriteFits(t)'
    <2>1. t \in TaskSet /\ Concerns(t)
      BY <1>3, TaskTyped
    <2>2. (t.kind = "load" => LoadFits(t, tab[t.tab])) /\ WriteFits(t)
      BY <1>3 DEF ShowsTrue, TaskFits
    <2>3. WriteFits(t)'
      BY <1>1, <2>1, <2>2, WriteStaysFit DEF Grows
    <2>4. CASE t.kind = "load"
      <3>1. PICK u, v : u = tab[t.tab] /\ v = tab'[t.tab]
        OBVIOUS
      <3>2. t.tab \in DOMAIN tab /\ t.tab \in DOMAIN tab'
        BY <1>1, <2>1, <2>4 DEF Concerns, Grows, TabGrows
      <3>3. u \in TabSet /\ v \in TabSet
        BY <1>1, <3>1, <3>2 DEF Typed, WindowTyped
      <3>4. Keeps(u, v) /\ LoadFits(t, u)
        BY <2>2, <2>4, <3>1, <3>2
      <3>5. LoadFits(t, v)
        BY <2>1, <3>3, <3>4, LoadStaysFit
      <3> QED BY <2>3, <3>1, <3>5
    <2> QED BY <2>3, <2>4
  <1>4. ASSUME NEW j \in DOMAIN tasks'
        PROVE  TaskFits(tasks[j])'
    <2>1. PICK t : t = tasks'[j]
      OBVIOUS
    <2>2. t \in C \/ \E k \in DOMAIN tasks : t = tasks[k]
      BY <1>1, <2>1 DEF Turns
    <2>3. (t.kind = "load" => LoadFits(t, tab'[t.tab])) /\ WriteFits(t)'
      BY <1>3, <2>2
    <2> QED BY <2>1, <2>3 DEF TaskFits
  <1> QED BY <1>2, <1>4 DEF ShowsTrue

\* A step that leaves the tabs alone.
LEMMA ShowsQuietly ==
  ASSUME Sound, ShowsTrue, NEW i, NEW C, Step(i, C), UNCHANGED tab,
         \A c \in C : (c.kind = "load" => LoadFits(c, tab[c.tab])) /\ WriteFits(c)',
         (i \in DOMAIN tasks /\ tasks[i].kind \in {"load", "query"}) =>
           \E c \in C : c.tab = tasks[i].tab /\ c.kind \in {"load", "query"}
  PROVE  ShowsTrue'
  <1>1. \A n \in DOMAIN tab : Keeps(tab[n], tab'[n])
    BY DEF Keeps
  <1>2. ASSUME NEW n \in DOMAIN tab'
        PROVE  TabFits(tab[n])'
    <2>1. PICK u : u = tab[n]
      OBVIOUS
    <2>2. u \in TabSet /\ TabFits(u)
      BY <2>1 DEF ShowsTrue, Sound, Typed, WindowTyped
    <2>3. TabFits(u)'
      BY <2>2, TabStaysFit DEF Sound, Step, Grows
    <2>4. u = tab'[n]
      BY <2>1
    <2> QED BY <2>3, <2>4
  <1>3. LoadsOn(i, C)
    BY DEF LoadsOn
  <1>4. \A c \in C : (c.kind = "load" => LoadFits(c, tab'[c.tab])) /\ WriteFits(c)'
    OBVIOUS
  <1> QED BY <1>1, <1>2, <1>3, <1>4, ShowsOn

\* A step that changes one tab.
LEMMA ShowsInTab ==
  ASSUME Sound, ShowsTrue, NEW i, NEW C, Step(i, C), NEW n \in DOMAIN tab, NEW v \in TabSet,
         tab' = [tab EXCEPT ![n] = v], Keeps(tab[n], v), TabFits(v)',
         \A c \in C : (c.kind = "load" => LoadFits(c, tab'[c.tab])) /\ WriteFits(c)',
         LoadsOn(i, C)
  PROVE  ShowsTrue'
  <1>1. /\ DOMAIN tab' = DOMAIN tab /\ tab'[n] = v
        /\ \A m \in DOMAIN tab \ {n} : tab'[m] = tab[m]
    BY DEF Sound, Typed, WindowTyped
  <1>2. \A m \in DOMAIN tab : Keeps(tab[m], tab'[m])
    <2>1. \A u : Keeps(u, u)
      <3>1. ASSUME NEW u
            PROVE  Keeps(u, u)
        BY DEF Keeps
      <3> QED BY <3>1
    <2> QED BY <1>1, <2>1
  <1>3. ASSUME NEW m \in DOMAIN tab'
        PROVE  TabFits(tab[m])'
    <2>1. CASE m = n
      BY <1>1, <2>1
    <2>2. CASE m # n
      <3>1. PICK u : u = tab[m]
        OBVIOUS
      <3>2. u \in TabSet /\ TabFits(u)
        BY <1>1, <3>1 DEF ShowsTrue, Sound, Typed, WindowTyped
      <3>3. TabFits(u)'
        BY <3>2, TabStaysFit DEF Sound, Step, Grows
      <3>4. u = tab'[m]
        BY <1>1, <2>2, <3>1
      <3> QED BY <3>3, <3>4
    <2> QED BY <2>1, <2>2
  <1> QED BY <1>2, <1>3, ShowsOn

\* Futures are numbered from one.
LEMMA NoneIsZero ==
  ASSUME Sound
  PROVE  0 \notin DOMAIN tasks
  BY DEF Sound, Tasks

\* Of most futures there is nothing to fit.
LEMMA PlainFits ==
  ASSUME NEW c, \/ c.kind \notin {"load", "row", "write"}
                \/ c.kind = "row" /\ c.pc \in {"start", "run"} /\ c.parts = <<>>
  PROVE  (c.kind = "load" => LoadFits(c, tab'[c.tab])) /\ WriteFits(c)'
  BY DEF WriteFits

\* A load that is spawned for the last time fits.
LEMMA FreshLoadFits ==
  ASSUME NEW c, NEW u \in TabSet, c.kind = "load", c.pc = "start", c.nr = u.nr
  PROVE  LoadFits(c, u) /\ WriteFits(c)'
  <1>1. u.nr \in Nat
    BY DEF TabSet
  <1>2. c.nr <= u.nr
    BY <1>1
  <1> QED BY <1>2 DEF LoadFits, WriteFits

\* A tab is made.
LEMMA ShowsInNewTab ==
  ASSUME Sound, ShowsTrue, NEW C, Step(0, C), NEW v \in TabSet,
         tab' = Append(tab, v), TabFits(v)',
         \A c \in C : (c.kind = "load" => LoadFits(c, tab'[c.tab])) /\ WriteFits(c)',
         v.grid = "loading" =>
           \E c \in C : c.tab = Len(tab) + 1 /\ c.kind \in {"load", "query"}
  PROVE  ShowsTrue'
  <1>1. /\ tab'[Len(tab) + 1] = v
        /\ \A m \in DOMAIN tab : tab'[m] = tab[m]
        /\ \A m \in DOMAIN tab' : m \in DOMAIN tab \/ m = Len(tab) + 1
    BY DEF Sound, Typed, WindowTyped
  <1>2. \A m \in DOMAIN tab : Keeps(tab[m], tab'[m])
    <2>1. ASSUME NEW u
          PROVE  Keeps(u, u)
      BY DEF Keeps
    <2> QED BY <1>1, <2>1
  <1>3. ASSUME NEW m \in DOMAIN tab'
        PROVE  TabFits(tab[m])'
    <2>1. CASE m = Len(tab) + 1
      BY <1>1, <2>1
    <2>2. CASE m \in DOMAIN tab
      <3>1. PICK u : u = tab[m]
        OBVIOUS
      <3>2. u \in TabSet /\ TabFits(u)
        BY <2>2, <3>1 DEF ShowsTrue, Sound, Typed, WindowTyped
      <3>3. TabFits(u)'
        BY <3>2, TabStaysFit DEF Sound, Step, Grows
      <3>4. u = tab'[m]
        BY <1>1, <2>2, <3>1
      <3> QED BY <3>3, <3>4
    <2> QED BY <1>1, <2>1, <2>2
  <1>4. LoadsOn(0, C)
    BY <1>1, NoneIsZero DEF LoadsOn
  <1> QED BY <1>2, <1>3, <1>4, ShowsOn

\* What the user spawns.
LEMMA UserSpawned ==
  ASSUME NEW C, UserStep(C), NEW c \in C
  PROVE  c.pc = "start" /\ c.kind # "write" /\ c.parts = <<>>
  BY Zenon DEF UserStep

\* The user leaves the tabs alone.
LEMMA ShowsUserQuietly ==
  ASSUME Sound, ShowsTrue, NEW C, UserStep(C), UNCHANGED tab,
         \A c \in C : c.kind # "load"
  PROVE  ShowsTrue'
  <1>1. ASSUME NEW c \in C
        PROVE  (c.kind = "load" => LoadFits(c, tab[c.tab])) /\ WriteFits(c)'
    <2>1. c.kind # "write" /\ c.pc = "start" /\ c.parts = <<>> /\ c.kind # "load"
      BY UserSpawned
    <2> QED BY <2>1 DEF WriteFits
  <1> QED BY <1>1, NoneIsZero, ShowsQuietly DEF UserStep

\* The user asks for a tab to be loaded again.
LEMMA ShowsReloads ==
  ASSUME Sound, ShowsTrue, NEW n, NEW u, Reloads(n, u)
  PROVE  ShowsTrue'
  <1>1. PICK new, v : new = LoadTask(n, u) /\ v = LoadingTab(u, app.id)
    OBVIOUS
  <1>2. /\ UserStep(Range(new)) /\ Fresh(new, {"load"}) /\ tab' = [tab EXCEPT ![n] = v]
        /\ app.id # NULL => Range(new) # {}
        /\ \A t \in Range(new) : t.tab = n /\ t.nr = u.nr + 1
    BY <1>1, UserReloads
  <1>3. /\ n \in DOMAIN tab /\ u \in TabSet /\ u.conn = tab[n].conn /\ u.nr = tab[n].nr
        /\ u.wrote = tab[n].wrote
    BY DEF Reloads, TurnsTo
  <1>4. /\ v \in TabSet /\ v.conn = u.conn /\ v.wrote = u.wrote /\ v.nr = u.nr + 1
        /\ v.grid = IF app.id = NULL THEN "error" ELSE "loading"
    BY <1>1, <1>3, LoadingTyped
  <1>5. PICK w : w = tab[n]
    OBVIOUS
  <1>6. w \in TabSet /\ TabFits(w)
    BY <1>3, <1>5 DEF ShowsTrue, Sound, Typed, WindowTyped
  <1>7. Step(0, Range(new))
    BY <1>2 DEF UserStep
  <1>8. TabFits(v)'
    <2>1. v.conn = w.conn /\ v.wrote = w.wrote /\ v.grid # "rows"
      BY <1>3, <1>4, <1>5
    <2> QED BY <1>4, <1>6, <1>7, <2>1, TabEmptyFits DEF Sound, Step, Grows
  <1>9. Keeps(w, v)
    <2>1. w.nr \in Nat /\ v.nr = w.nr + 1
      BY <1>3, <1>4, <1>5, <1>6 DEF TabSet
    <2>2. v.nr > w.nr
      BY <2>1
    <2> QED BY <2>2 DEF Keeps
  <1>10. /\ DOMAIN tab' = DOMAIN tab /\ tab'[n] = v
         /\ \A m \in DOMAIN tab \ {n} : tab'[m] = tab[m]
    BY <1>2, <1>3 DEF Sound, Typed, WindowTyped
  <1>11. ASSUME NEW c \in Range(new)
         PROVE  (c.kind = "load" => LoadFits(c, tab'[c.tab])) /\ WriteFits(c)'
    <2>1. c.kind = "load" /\ c.pc = "start" /\ c.tab = n /\ c.nr = v.nr
      BY <1>2, <1>4 DEF Fresh
    <2>2. LoadFits(c, v) /\ WriteFits(c)'
      BY <1>4, <2>1, FreshLoadFits
    <2> QED BY <1>10, <2>1, <2>2
  <1>12. LoadsOn(0, Range(new))
    <2>1. ASSUME NEW m \in DOMAIN tab', tab'[m].grid = "loading", m = n
          PROVE  \E c \in Range(new) : c.tab = n /\ c.kind \in {"load", "query"}
      <3>1. app.id # NULL
        BY <1>4, <1>10, <2>1
      <3>2. \A c \in Range(new) : c.tab = n /\ c.kind \in {"load", "query"}
        BY <1>2 DEF Fresh
      <3> QED BY <1>2, <3>1, <3>2
    <2> QED BY <1>10, <2>1, NoneIsZero DEF LoadsOn
  <1>13. Keeps(tab[n], v)
    BY <1>5, <1>9
  <1> QED BY <1>2, <1>3, <1>4, <1>7, <1>8, <1>11, <1>12, <1>13, ShowsInTab

\* The user opens a table.
LEMMA ShowsOpens ==
  ASSUME Sound, ShowsTrue, NEW c \in Conns, NEW d \in Dbs, focus_or_open_table_tab(c, d)
  PROVE  ShowsTrue'
  <1>1. PICK C : \E u \in TabSet :
            /\ UserStep(C) /\ tab' = Append(tab, u) /\ u.conn = c
            /\ u.shown = NULL /\ u.wrote = NULL
            /\ u.grid \in {"error", "loading"}
            /\ u.grid = "loading" => C # {}
            /\ \A t \in C : t.kind = "load" /\ t.tab = Len(tab) + 1 /\ t.nr = u.nr
    BY UserOpens
  <1>2. PICK u \in TabSet :
            /\ UserStep(C) /\ tab' = Append(tab, u) /\ u.conn = c
            /\ u.shown = NULL /\ u.wrote = NULL
            /\ u.grid \in {"error", "loading"}
            /\ u.grid = "loading" => C # {}
            /\ \A t \in C : t.kind = "load" /\ t.tab = Len(tab) + 1 /\ t.nr = u.nr
    BY <1>1
  <1>3. TabFits(u)'
    BY <1>2, TabNewFits
  <1>4. tab'[Len(tab) + 1] = u
    BY <1>2 DEF Sound, Typed, WindowTyped
  <1>5. ASSUME NEW t \in C
        PROVE  (t.kind = "load" => LoadFits(t, tab'[t.tab])) /\ WriteFits(t)'
    <2>1. t.kind = "load" /\ t.pc = "start" /\ t.tab = Len(tab) + 1 /\ t.nr = u.nr
      BY <1>2, UserSpawned
    <2>2. LoadFits(t, u) /\ WriteFits(t)'
      BY <2>1, FreshLoadFits
    <2> QED BY <1>4, <2>1, <2>2
  <1>6. u.grid = "loading" =>
          \E t \in C : t.tab = Len(tab) + 1 /\ t.kind \in {"load", "query"}
    BY <1>2
  <1>7. Step(0, C)
    BY <1>2 DEF UserStep
  <1> QED BY <1>2, <1>3, <1>5, <1>6, <1>7, ShowsInNewTab

\* The user runs a query.
LEMMA ShowsRuns ==
  ASSUME Sound, ShowsTrue, NEW c \in Conns, NEW d \in DbSet, run_query(c, d)
  PROVE  ShowsTrue'
  <1>1. PICK t \in TaskSet : \E u \in TabSet :
           UserStep({t}) /\ t.kind = "query" /\ QueryShown(t, u)
    BY UserRuns
  <1>2. PICK u \in TabSet : UserStep({t}) /\ t.kind = "query" /\ QueryShown(t, u)
    BY <1>1
  <1>3. Step(0, {t}) /\ u.grid = "loading" /\ u.conn = NULL
    BY <1>2 DEF UserStep, QueryShown
  <1>4. \A x \in {t} : (x.kind = "load" => LoadFits(x, tab'[x.tab])) /\ WriteFits(x)'
    BY <1>2, PlainFits
  <1>5. CASE /\ tab' = Append(tab, u) /\ u.shown = NULL /\ u.wrote = NULL
             /\ t.tab = Len(tab) + 1
    <2>1. TabFits(u)'
      BY <1>3, <1>5, TabNewFits
    <2> QED BY <1>2, <1>3, <1>4, <1>5, <2>1, ShowsInNewTab
  <1>6. CASE /\ t.tab \in DOMAIN tab /\ tab' = [tab EXCEPT ![t.tab] = u]
             /\ tab[t.tab].conn = NULL /\ u.nr = tab[t.tab].nr + 1
             /\ u.shown = tab[t.tab].shown /\ u.wrote = tab[t.tab].wrote
    <2>1. PICK n, w : n = t.tab /\ w = tab[n]
      OBVIOUS
    <2>2. w \in TabSet /\ TabFits(w)
      BY <1>6, <2>1 DEF ShowsTrue, Sound, Typed, WindowTyped
    <2>3. TabFits(u)'
      <3>1. u.conn = w.conn /\ u.wrote = w.wrote /\ u.grid # "rows"
        BY <1>3, <1>6, <2>1
      <3> QED BY <1>3, <2>2, <3>1, TabEmptyFits DEF Sound, Step, Grows
    <2>4. Keeps(tab[n], u)
      <3>1. w.nr \in Nat
        BY <2>2 DEF TabSet
      <3>2. u.nr > w.nr
        BY <1>6, <2>1, <3>1
      <3> QED BY <2>1, <3>2 DEF Keeps
    <2>5. LoadsOn(0, {t})
      <3>1. DOMAIN tab' = DOMAIN tab /\ \A m \in DOMAIN tab \ {n} : tab'[m] = tab[m]
        BY <1>6, <2>1 DEF Sound, Typed, WindowTyped
      <3> QED BY <1>2, <2>1, <3>1, NoneIsZero DEF LoadsOn
    <2> QED BY <1>3, <1>4, <1>6, <2>1, <2>3, <2>4, <2>5, ShowsInTab
  <1> QED BY <1>2, <1>5, <1>6 DEF QueryShown

\* Whatever the user does.
LEMMA ShowsUser ==
  ASSUME Sound, ShowsTrue, User
  PROVE  ShowsTrue'
  <1>1. CASE \/ \E c \in Conns : connect_to_selected(c)
             \/ disconnect_active
             \/ \E c \in Conns, d \in Dbs : load_tables_for(c, d)
    <2>1. PICK t : UserStep({t}) /\ t.kind \in {"connect", "disconnect", "tables"}
      BY <1>1, UserConnects
    <2>2. UNCHANGED tab
      BY <1>1, UserConnects
    <2> QED BY <2>1, <2>2, ShowsUserQuietly
  <1>2. CASE \/ \E c \in Conns : delete_connection(c) \/ open_dialog(c)
             \/ refresh_schema_tree
    <2>1. PICK C : UserStep(C) /\ \A t \in C : t.kind = "schema"
      BY <1>2, UserRedraws
    <2>2. UNCHANGED tab
      BY <1>2, UserRedraws
    <2> QED BY <2>1, <2>2, ShowsUserQuietly
  <1>3. CASE create_query_tab
    <2>1. PICK C : UserStep(C) /\ UNCHANGED tab /\ \A t \in C : t.kind = "databases"
      BY <1>3, UserEdits
    <2> QED BY <2>1, ShowsUserQuietly
  <1>4. CASE \E c \in Conns, d \in Dbs : focus_or_open_table_tab(c, d)
    BY <1>4, ShowsOpens
  <1>5. CASE \E c \in Conns, d \in Dbs \cup {""} : run_query(c, d)
    <2>1. PICK c \in Conns, d \in Dbs \cup {""} : run_query(c, d)
      BY <1>5
    <2>2. d \in DbSet
      BY DEF DbSet
    <2> QED BY <2>1, <2>2, ShowsRuns
  <1>6. CASE \/ \E n \in DOMAIN tab : next_page_for(n) \/ prev_page_for(n) \/ apply_sort_for(n)
             \/ \E i \in DOMAIN tabs : reload_active_data_tab(i)
    BY <1>6, UserTurns, ShowsReloads
  <1>7. CASE \E n \in DOMAIN tab : \/ load_table_structure_into_tab(n) \/ open_row_editor(n)
                                   \/ confirm_delete_row(n)
    <2>1. PICK n \in DOMAIN tab : load_table_structure_into_tab(n) \/ open_row_editor(n)
      BY <1>7 DEF confirm_delete_row
    <2>2. PICK t : UserStep({t}) /\ t.kind \in {"structure", "row"}
      BY <2>1, UserAsks
    <2>3. UNCHANGED tab
      BY <2>1, UserAsks
    <2> QED BY <2>2, <2>3, ShowsUserQuietly
  <1>8. CASE \E i \in DOMAIN tabs : \/ close_data_tab(i)
                                    \/ \E k \in DOMAIN tabs : reorder(i, k)
    <2>1. UserStep({}) /\ UNCHANGED tab
      BY <1>8, UserCloses
    <2> QED BY <2>1, ShowsUserQuietly
  <1> QED BY <1>1, <1>2, <1>3, <1>4, <1>5, <1>6, <1>7, <1>8 DEF User

\* A future goes on, and may spawn lists.
LEMMA ShowsMoves ==
  ASSUME Sound, ShowsTrue, NEW i \in DOMAIN tasks, NEW C, Step(i, C), UNCHANGED tab,
         NEW c \in C, c.kind = tasks[i].kind, c.tab = tasks[i].tab,
         c.kind = "load" => LoadFits(c, tab[c.tab]), WriteFits(c)',
         \A x \in C : x = c \/ x.kind \notin {"load", "row", "write"}
  PROVE  ShowsTrue'
  <1>1. ASSUME NEW x \in C
        PROVE  (x.kind = "load" => LoadFits(x, tab[x.tab])) /\ WriteFits(x)'
    <2>1. CASE x = c
      BY <2>1
    <2>2. CASE x.kind \notin {"load", "row", "write"}
      BY <2>2, PlainFits
    <2> QED BY <2>1, <2>2
  <1> QED BY <1>1, ShowsQuietly

\* A future that is not about a grid goes on or ends, and may spawn lists.
LEMMA ShowsPlainly ==
  ASSUME Sound, ShowsTrue, NEW i \in DOMAIN tasks, NEW C, Step(i, C), UNCHANGED tab,
         tasks[i].kind \notin {"load", "query"},
         \A x \in C : x.kind \notin {"load", "row", "write"}
  PROVE  ShowsTrue'
  <1>1. ASSUME NEW x \in C
        PROVE  (x.kind = "load" => LoadFits(x, tab[x.tab])) /\ WriteFits(x)'
    BY PlainFits
  <1> QED BY <1>1, ShowsQuietly

\* A load has the page and the order it has.
LEMMA LoadMovesFit ==
  ASSUME NEW t, NEW c, NEW u, LoadFits(t, u), t.pc # "start", c.pc # "show",
         c.nr = t.nr, c.page = t.page, c.sort = t.sort
  PROVE  LoadFits(c, u)
  BY DEF LoadFits

\* What a future that goes on knows of its tab.
LEMMA TaskShows ==
  ASSUME Sound, ShowsTrue, NEW i \in DOMAIN tasks
  PROVE  /\ WriteFits(tasks[i])
         /\ tasks[i].kind = "load" =>
              LoadFits(tasks[i], tab[tasks[i].tab]) /\ tab[tasks[i].tab].conn # NULL
         /\ tasks[i].kind \in {"load", "query", "structure", "row", "write"} =>
              TabFits(tab[tasks[i].tab])
  <1>1. TaskFits(tasks[i]) /\ Concerns(tasks[i])
    BY TaskTyped DEF ShowsTrue
  <1> QED BY <1>1 DEF TaskFits, ShowsTrue, Concerns

\* A session is dropped.
LEMMA ShowsConnects ==
  ASSUME Sound, ShowsTrue, NEW i \in DOMAIN tasks, tasks[i].kind \in {"connect", "query"},
         NEW pc \in Pcs, NEW d \in Nat, NEW c, c = AtWait(tasks[i], pc, d), NEW C, Step(i, C),
         c \in C, UNCHANGED tab, \A x \in C : x = c \/ x.kind \notin {"load", "row", "write"}
  PROVE  ShowsTrue'
  <1>1. tasks[i] \in TaskSet
    BY TaskTyped
  <1>2. c.kind = tasks[i].kind /\ c.tab = tasks[i].tab
    BY <1>1, AtWaitTyped
  <1>3. (c.kind = "load" => LoadFits(c, tab[c.tab])) /\ WriteFits(c)'
    BY <1>2 DEF WriteFits
  <1> QED BY <1>2, <1>3, ShowsMoves

\* A load goes to its next wait.
LEMMA ShowsWaits ==
  ASSUME Sound, ShowsTrue, NEW i \in DOMAIN tasks, tasks[i].kind \in {"load", "query"},
         tasks[i].pc # "start", NEW pc \in Pcs \ {"show"}, NEW d \in Nat,
         NEW c, c = AtWait(tasks[i], pc, d), NEW C, Step(i, C), c \in C, UNCHANGED tab,
         \A x \in C : x = c \/ x.kind \notin {"load", "row", "write"}
  PROVE  ShowsTrue'
  <1>1. tasks[i] \in TaskSet
    BY TaskTyped
  <1>2. /\ c.kind = tasks[i].kind /\ c.tab = tasks[i].tab /\ c.pc # "show"
        /\ c.nr = tasks[i].nr /\ c.page = tasks[i].page /\ c.sort = tasks[i].sort
    BY <1>1, AtWaitTyped
  <1>3. c.kind = "load" => LoadFits(c, tab[c.tab])
    <2>1. c.kind = "load" => LoadFits(tasks[i], tab[tasks[i].tab])
      BY <1>2, TaskShows
    <2> QED BY <1>2, <2>1, LoadMovesFit
  <1>4. WriteFits(c)'
    BY <1>2 DEF WriteFits
  <1> QED BY <1>2, <1>3, <1>4, ShowsMoves

\* A load or a query begins.
LEMMA ShowsWorks ==
  ASSUME Sound, ShowsTrue, NEW i \in DOMAIN tasks, NEW c, NEW C, Step(i, C), c \in C,
         UNCHANGED tab, c.kind = tasks[i].kind, c.tab = tasks[i].tab, c.kind \in {"load", "query"},
         c.kind = "load" => /\ c.nr = tasks[i].nr /\ c.pc # "show"
                            /\ c.page = tab[c.tab].page /\ c.sort = tab[c.tab].sort,
         \A x \in C : x = c \/ x.kind \notin {"load", "row", "write"}
  PROVE  ShowsTrue'
  <1>1. c.kind = "load" => LoadFits(c, tab[c.tab])
    <2>1. c.kind = "load" => LoadFits(tasks[i], tab[c.tab])
      BY TaskShows
    <2> QED BY <2>1 DEF LoadFits
  <1>2. WriteFits(c)'
    BY DEF WriteFits
  <1> QED BY <1>1, <1>2, ShowsMoves

\* A future fails.
LEMMA ShowsFails ==
  ASSUME Sound, ShowsTrue, NEW i \in DOMAIN tasks, Fails(i)
  PROVE  ShowsTrue'
  <1>1. Step(i, {})
    BY FailsStep
  <1>2. CASE tasks[i].kind \in {"load", "query"}
    <2>1. PICK n, w : n = tasks[i].tab /\ w = tab[n]
      OBVIOUS
    <2>2. n \in DOMAIN tab /\ w \in TabSet /\ TabFits(w)
      BY <1>2, <2>1, TaskTab, TaskShows
    <2>3. PICK v : v = Failed(w)
      OBVIOUS
    <2>4. tab' = [tab EXCEPT ![n] = v]
      BY <1>2, <2>1, <2>3, FailedTab
    <2>5. /\ v \in TabSet /\ v.conn = w.conn /\ v.nr = w.nr /\ v.page = w.page
          /\ v.sort = w.sort /\ v.grid = "error" /\ v.wrote = w.wrote
      BY <2>2, <2>3, FailedTyped
    <2>6. TabFits(v)'
      BY <1>1, <2>2, <2>5, TabEmptyFits DEF Sound, Step, Grows
    <2>7. Keeps(tab[n], v)
      BY <2>1, <2>5 DEF Keeps
    <2>8. LoadsOn(i, {})
      <3>1. DOMAIN tab' = DOMAIN tab /\ tab'[n] = v /\ \A m \in DOMAIN tab \ {n} : tab'[m] = tab[m]
        BY <2>2, <2>4 DEF Sound, Typed, WindowTyped
      <3> QED BY <2>1, <2>5, <3>1 DEF LoadsOn
    <2> QED BY <1>1, <2>2, <2>4, <2>5, <2>6, <2>7, <2>8, ShowsInTab
  <1>3. CASE tasks[i].kind \notin {"load", "query"}
    <2>1. UNCHANGED tab
      BY <1>3, FailedTab
    <2> QED BY <1>1, <1>3, <2>1, ShowsPlainly
  <1> QED BY <1>2, <1>3

\* A call fails, also a write that had its effect.
LEMMA ShowsCallFails ==
  ASSUME Sound, ShowsTrue, NEW i, CallFails(i)
  PROVE  ShowsTrue'
  <1>1. CASE i \in DOMAIN tasks /\ Fails(i)
    BY <1>1, ShowsFails
  <1>2. CASE /\ At(i, "run") /\ tasks[i].kind = "write" /\ Pool(i) \notin {Closed, ""}
             /\ version' = [version EXCEPT ![Place(tasks[i].driver)] = @ + 1]
             /\ Ends(i, <<>>)
             /\ UNCHANGED <<saved, app, drivers, window, panel, editor, moved, failed>>
    <2>1. Step(i, {}) /\ i \in DOMAIN tasks
      BY <1>2, WriteFailsStep
    <2>2. UNCHANGED tab
      BY <1>2 DEF window
    <2>3. tasks[i].kind \notin {"load", "query"}
      BY <1>2
    <2> QED BY <2>1, <2>2, <2>3, ShowsPlainly
  <1> QED BY <1>1, <1>2 DEF CallFails

\* A connect, a query or a load begins.
LEMMA ShowsStarts ==
  ASSUME Sound, ShowsTrue, NEW i, StartConnect(i) \/ StartQuery(i) \/ StartLoad(i)
  PROVE  ShowsTrue'
  <1>1. i \in DOMAIN tasks /\ tasks[i].kind \in {"connect", "query", "load"}
    BY StartsEarlier DEF StartConnect, StartQuery, StartLoad
  <1>2. PICK t : t = tasks[i]
    OBVIOUS
  <1>3. t \in TaskSet
    BY <1>1, <1>2, TaskTyped
  <1>4. CASE Connects(i) /\ Step(i, {Dropping(i)}) /\ t.kind \in {"connect", "query"}
    <2>1. PICK pc, d, c : pc = (IF app.driver = 0 THEN "dial" ELSE "leave") /\ d = app.driver
                          /\ c = AtWait(t, pc, d)
      OBVIOUS
    <2>2. pc \in Pcs /\ d \in Nat
      BY <2>1, AppTyped DEF Sound, Pcs
    <2>3. Step(i, {c})
      BY <1>2, <1>4, <2>1 DEF Dropping
    <2>4. UNCHANGED tab
      BY <1>4 DEF Connects, window
    <2> QED BY <1>1, <1>2, <1>4, <2>1, <2>2, <2>3, <2>4, ShowsConnects
  <1>5. CASE StartQuery(i) /\ Step(i, {Work(t, app)}) /\ UNCHANGED window
    <2>1. PICK a, c : a = app /\ c = Work(t, a)
      OBVIOUS
    <2>2. a \in AppSet
      BY <2>1, AppTyped DEF Sound
    <2>3. t.kind = "query"
      BY <1>2, <1>5 DEF StartQuery, Starts
    <2>4. c.kind = t.kind /\ c.tab = t.tab /\ c.kind = "query"
      BY <1>3, <2>1, <2>2, <2>3, WorkTyped
    <2>5. Step(i, {c}) /\ UNCHANGED tab
      BY <1>5, <2>1 DEF window
    <2> QED BY <1>1, <1>2, <2>4, <2>5, ShowsWorks
  <1>6. CASE StartLoad(i) /\ Step(i, {LoadWork(i)}) /\ UNCHANGED window
    <2>1. PICK a, n, u, w, c : a = app /\ n = t.tab /\ u = tab[n] /\ w = Work(t, a)
                               /\ c = Paged(w, u.page, u.sort)
      OBVIOUS
    <2>2. a \in AppSet
      BY <2>1, AppTyped DEF Sound
    <2>3. t.kind = "load"
      BY <1>2, <1>6 DEF StartLoad, Starts
    <2>4. /\ w \in TaskSet /\ w.kind = t.kind /\ w.tab = t.tab /\ w.nr = t.nr
          /\ w.pc # "show"
      BY <1>3, <2>1, <2>2, WorkTyped
    <2>5. u.page \in 0 .. MaxPage /\ u.sort \in BOOLEAN
      BY <1>1, <1>2, <2>1, <2>3, TaskTab
    <2>6. /\ c.kind = w.kind /\ c.tab = w.tab /\ c.nr = w.nr /\ c.pc = w.pc
          /\ c.page = u.page /\ c.sort = u.sort
      BY <2>1, <2>4, <2>5, PageTyped
    <2>7. Step(i, {c}) /\ UNCHANGED tab
      BY <1>2, <1>6, <2>1 DEF LoadWork, Paged, window
    <2>8. c.page = tab[c.tab].page /\ c.sort = tab[c.tab].sort
      BY <2>1, <2>4, <2>6
    <2>9. c.kind = tasks[i].kind /\ c.tab = tasks[i].tab /\ c.nr = tasks[i].nr /\ c.pc # "show"
      BY <1>2, <2>4, <2>6
    <2>10. c.kind = "load"
      BY <1>2, <2>3, <2>9
    <2>11. c.kind = "load" => /\ c.nr = tasks[i].nr /\ c.pc # "show"
                              /\ c.page = tab[c.tab].page /\ c.sort = tab[c.tab].sort
      BY <2>8, <2>9
    <2>12. \A x \in {c} : x = c \/ x.kind \notin {"load", "row", "write"}
      OBVIOUS
    <2>13. c.kind = tasks[i].kind /\ c.tab = tasks[i].tab /\ c.kind \in {"load", "query"}
      BY <2>9, <2>10
    <2> QED BY <1>1, <2>7, <2>11, <2>12, <2>13, ShowsWorks
  <1>7. CASE Fails(i)
    BY <1>1, <1>7, ShowsFails
  <1>8. CASE StartConnect(i)
    <2>1. t.kind = "connect" /\ Connects(i)
      BY <1>2, <1>8 DEF StartConnect, Starts
    <2> QED BY <1>4, <1>8, <2>1, ConnectsStep DEF StartConnect
  <1>9. CASE StartQuery(i)
    <2>1. t.kind = "query"
      BY <1>2, <1>9 DEF StartQuery, Starts
    <2> QED BY <1>2, <1>4, <1>5, <1>9, <2>1, StartQueryStep
  <1>10. CASE StartLoad(i)
    BY <1>6, <1>7, <1>10, StartLoadStep
  <1> QED BY <1>8, <1>9, <1>10

\* A call begins with the parts its future has.
LEMMA ShowsCalls ==
  ASSUME Sound, ShowsTrue, NEW i, StartCall(i) \/ StartDatabases(i)
  PROVE  ShowsTrue'
  <1>1. i \in DOMAIN tasks
    BY StartsEarlier DEF StartCall, StartDatabases
  <1>2. tasks[i].kind \notin {"load", "query"}
    BY StartsEarlier DEF StartCall, StartDatabases
  <1>3. CASE Fails(i)
    BY <1>1, <1>3, ShowsFails
  <1>4. CASE \E t : CallsTo(i, t)
    <2>1. PICK c : CallsTo(i, c)
      BY <1>4
    <2>2. Step(i, {c}) /\ UNCHANGED tab /\ c.kind = tasks[i].kind /\ c.tab = tasks[i].tab
      BY <2>1 DEF CallsTo, window
    <2>3. WriteFits(c)'
      <3>1. WriteFits(tasks[i])
        BY <1>1, TaskShows
      <3>2. c.parts = tasks[i].parts /\ c.pc = "run" /\ tasks[i].pc = "start"
        BY <2>1 DEF CallsTo
      <3> QED BY <2>2, <3>1, <3>2 DEF WriteFits
    <2>4. c.kind # "load"
      BY <1>2, <2>2
    <2>5. \A x \in {c} : x = c \/ x.kind \notin {"load", "row", "write"}
      OBVIOUS
    <2> QED BY <1>1, <2>2, <2>3, <2>4, <2>5, ShowsMoves
  <1> QED BY <1>3, <1>4, StartCallStep

\* What is spawned for lists says nothing of grids.
LEMMA ListsPlain ==
  ASSUME NEW new, NEW kinds, Fresh(new, kinds), kinds \cap {"load", "row", "write"} = {}
  PROVE  \A x \in Range(new) : x.kind \notin {"load", "row", "write"}
  BY DEF Fresh

\* A disconnect begins, and ends, and a session is left.
LEMMA ShowsLeaves ==
  ASSUME Sound, ShowsTrue, NEW i, StartDisconnect(i) \/ Leave(i)
  PROVE  ShowsTrue'
  <1>1. i \in DOMAIN tasks
    BY StartsEarlier DEF StartDisconnect, Leave, At
  <1>2. PICK t : t = tasks[i]
    OBVIOUS
  <1>3. t \in TaskSet /\ Reaches(t)
    BY <1>1, <1>2, TaskTyped
  <1>4. CASE StartDisconnect(i)
    <2>1. t.kind = "disconnect"
      BY <1>2, <1>4, StartDisconnectStep
    <2>2. CASE Disconnected(i) /\ Step(i, Range(DatabasesTask(NoApp)))
      <3>1. UNCHANGED tab
        BY <2>2 DEF Disconnected
      <3>2. Fresh(DatabasesTask(NoApp), {"databases"})
        BY <2>2, NoAppTyped, DatabasesFresh DEF Step
      <3>3. \A x \in Range(DatabasesTask(NoApp)) : x.kind \notin {"load", "row", "write"}
        BY <3>2, ListsPlain
      <3> QED BY <1>1, <1>2, <2>1, <2>2, <3>1, <3>3, ShowsPlainly
    <2>3. CASE Step(i, {AtWait(tasks[i], "leave", app.driver)}) /\ UNCHANGED window
      <3>1. PICK d, c : d = app.driver /\ c = AtWait(t, "leave", d)
        OBVIOUS
      <3>2. d \in Nat /\ "leave" \in Pcs
        BY <3>1, AppTyped DEF Sound, Pcs
      <3>3. c.kind = "disconnect"
        BY <1>3, <2>1, <3>1, <3>2, AtWaitTyped
      <3>4. Step(i, {c}) /\ UNCHANGED tab
        BY <1>2, <2>3, <3>1 DEF window
      <3>5. \A x \in {c} : x.kind \notin {"load", "row", "write"}
        BY <3>3
      <3> QED BY <1>1, <1>2, <2>1, <3>4, <3>5, ShowsPlainly
    <2> QED BY <1>4, <2>2, <2>3, StartDisconnectStep
  <1>5. CASE Leave(i) /\ tasks[i].kind = "disconnect"
    <2>1. PICK a, new : a = app /\ new = SchemaTask(a, saved) \o DatabasesTask(a)
      OBVIOUS
    <2>2. Step(i, Range(new))
      BY <1>5, <2>1, LeavesDisconnectStep
    <2>3. UNCHANGED tab
      BY <1>5 DEF Leave
    <2>4. a \in AppSet
      BY <2>1, AppTyped DEF Sound
    <2>5. new = Landing(a)
      BY <2>1 DEF Landing
    <2>6. Fresh(new, {"schema", "databases"})
      BY <2>2, <2>4, <2>5, LandingFresh DEF Sound, Step
    <2>7. \A x \in Range(new) : x.kind \notin {"load", "row", "write"}
      BY <2>6, ListsPlain
    <2> QED BY <1>1, <1>5, <2>2, <2>3, <2>7, ShowsPlainly
  <1>6. CASE Leave(i) /\ tasks[i].kind # "disconnect"
    <2>1. PICK d, c : d = t.driver /\ c = AtWait(t, "dial", d)
      OBVIOUS
    <2>2. Step(i, {c})
      BY <1>2, <1>6, <2>1, LeavesStep DEF Pc
    <2>3. UNCHANGED tab
      BY <1>6 DEF Leave, window
    <2>4. t.kind \in {"connect", "query"}
      BY <1>2, <1>3, <1>6 DEF Leave, At, Reaches
    <2>5. d \in Nat /\ "dial" \in Pcs
      BY <1>3, <2>1 DEF TaskSet, Pcs
    <2> QED BY <1>1, <1>2, <2>1, <2>2, <2>3, <2>4, <2>5, ShowsConnects
  <1> QED BY <1>4, <1>5, <1>6

\* A new session.
LEMMA ShowsDials ==
  ASSUME Sound, ShowsTrue, NEW i, Dial(i)
  PROVE  ShowsTrue'
  <1>1. /\ i \in DOMAIN tasks /\ tasks[i].kind \in {"connect", "query"}
        /\ Typed' /\ app' \in AppSet
    BY DialSession
  <1>2. PICK a, t : a = app' /\ t = tasks[i]
    OBVIOUS
  <1>3. a \in AppSet /\ t \in TaskSet
    BY <1>1, <1>2, TaskTyped
  <1>4. Fresh(Landing(a), {"schema", "databases"})
    BY <1>1, <1>3, LandingFresh DEF Sound
  <1>5. \A x \in Range(Landing(a)) : x.kind \notin {"load", "row", "write"}
    BY <1>4, ListsPlain
  <1>6. UNCHANGED tab
    BY DEF Dial, window
  <1>7. CASE tasks[i].kind = "connect"
    <2>1. Step(i, Range(Landing(a)))
      BY <1>2, <1>7, DialsConnectStep
    <2> QED BY <1>1, <1>5, <1>6, <1>7, <2>1, ShowsPlainly
  <1>8. CASE tasks[i].kind = "query"
    <2>1. PICK c : c = Work(t, a)
      OBVIOUS
    <2>2. c.kind = "query" /\ c.tab = t.tab
      BY <1>2, <1>3, <1>8, <2>1, WorkTyped
    <2>3. Step(i, {c} \cup Range(Landing(a)))
      BY <1>2, <1>8, <2>1, DialsQueryStep
    <2>4. PICK C : C = {c} \cup Range(Landing(a))
      OBVIOUS
    <2>5. Step(i, C) /\ c \in C /\ \A x \in C : x = c \/ x.kind \notin {"load", "row", "write"}
      BY <1>5, <2>3, <2>4
    <2> QED BY <1>1, <1>2, <1>6, <1>8, <2>2, <2>5, ShowsWorks
  <1> QED BY <1>1, <1>7, <1>8

\* Another database, and that it is noted.
LEMMA ShowsSwaps ==
  ASSUME Sound, ShowsTrue, NEW i, Swap(i) \/ Note(i)
  PROVE  ShowsTrue'
  <1>1. i \in DOMAIN tasks /\ tasks[i].pc \in {"swap", "note"} /\ UNCHANGED tab
    BY DEF Swap, Note, At, window
  <1>2. PICK t : t = tasks[i]
    OBVIOUS
  <1>3. t \in TaskSet /\ Reaches(t)
    BY <1>1, <1>2, TaskTyped
  <1>4. t.kind \in {"load", "query"} /\ t.pc # "start"
    BY <1>1, <1>2, <1>3 DEF Reaches
  <1>5. CASE Swap(i)
    <2>1. PICK d, c : d = t.driver /\ c = AtWait(t, "note", d)
      OBVIOUS
    <2>2. Step(i, {c})
      BY <1>2, <1>5, <2>1, SwapsStep DEF Pc
    <2>3. d \in Nat /\ "note" \in Pcs \ {"show"}
      BY <1>3, <2>1 DEF TaskSet, Pcs
    <2> QED BY <1>1, <1>2, <1>4, <2>1, <2>2, <2>3, ShowsWaits
  <1>6. CASE Note(i)
    <2>1. PICK a, d, c, C : a = app' /\ d = app.driver /\ c = AtWait(t, "run", d)
                            /\ C = {c} \cup Range(DatabasesTask(a))
      OBVIOUS
    <2>2. Step(i, C) /\ c \in C
      BY <1>2, <1>6, <2>1, NotesStep
    <2>3. d \in Nat /\ "run" \in Pcs \ {"show"}
      BY <2>1, AppTyped DEF Sound, Pcs
    <2>4. a \in AppSet /\ Typed'
      BY <1>6, <2>1, NoteSession
    <2>5. Fresh(DatabasesTask(a), {"databases"})
      BY <2>4, DatabasesFresh
    <2>6. \A x \in Range(DatabasesTask(a)) : x.kind \notin {"load", "row", "write"}
      BY <2>5, ListsPlain
    <2>7. \A x \in C : x = c \/ x.kind \notin {"load", "row", "write"}
      BY <2>1, <2>6
    <2> QED BY <1>1, <1>2, <1>4, <2>1, <2>2, <2>3, <2>7, ShowsWaits
  <1> QED BY <1>5, <1>6

\* A load that is answered fits: what was written was written before.
LEMMA AnswerFits ==
  ASSUME NEW t \in TaskSet, NEW u \in TabSet, LoadFits(t, u), t.pc = "run", WrittenFits(u),
         NEW p \in Spot, NEW v \in Nat, p \in Conns \X Dbs => v = version[p]
  PROVE  LoadFits(Got(t, p, v), u)
  <1>1. PICK c : c = Got(t, p, v)
    OBVIOUS
  <1>2. /\ c.nr = t.nr /\ c.page = t.page /\ c.sort = t.sort /\ c.pc = "show"
        /\ c.from = p /\ c.version = v
    BY <1>1, GotTyped
  <1>3. t.nr <= u.nr /\ (t.nr = u.nr => t.page = u.page /\ t.sort = u.sort)
    BY DEF LoadFits
  <1>4. (u.wrote # NULL /\ p = u.wrote.parts[2]) => v >= u.wrote.version
    <2> SUFFICES ASSUME u.wrote # NULL, p = u.wrote.parts[2]
                 PROVE  v >= u.wrote.version
      OBVIOUS
    <2>1. p \in Conns \X Dbs /\ u.wrote.version <= version[p]
      BY DEF WrittenFits
    <2>2. u.wrote.version \in Nat
      BY DEF TabSet, WroteSet
    <2> QED BY <2>1, <2>2
  <1>5. LoadFits(c, u)
    BY <1>2, <1>3, <1>4 DEF LoadFits
  <1> QED BY <1>1, <1>5

\* Rows, or a statement's answer.
LEMMA ShowsRan ==
  ASSUME Sound, ShowsTrue, NEW i, Runs(i)
  PROVE  ShowsTrue'
  <1>1. PICK t, p, v, c : /\ t = tasks[i] /\ p = Place(t.driver)
                          /\ v = (IF Pool(i) = "" THEN 0 ELSE version[p]) /\ c = Got(t, p, v)
    OBVIOUS
  <1>2. /\ Step(i, {c}) /\ i \in DOMAIN tasks /\ t.driver # 0
        /\ t.kind \in {"load", "query"} /\ t.pc = "run" /\ v \in Nat
    BY <1>1, RunsStep DEF RunsTask
  <1>3. t \in TaskSet /\ p \in Spot /\ p[2] = Pool(i)
    BY <1>1, <1>2, TaskTyped, PlaceTyped
  <1>4. c.kind = t.kind /\ c.tab = t.tab
    <2>1. c = Got(t, p, v) /\ p \in Spot \cup {NULL}
      BY <1>1, <1>3
    <2> QED BY <1>2, <1>3, <2>1, GotTyped
  <1>5. UNCHANGED tab
    BY DEF Runs, Answers, window
  <1>6. ASSUME c.kind = "load"
        PROVE  LoadFits(c, tab[c.tab])
    <2>1. PICK u : u = tab[t.tab]
      OBVIOUS
    <2>2. LoadFits(t, u) /\ WrittenFits(u)
      BY <1>1, <1>2, <1>4, <1>6, <2>1, TaskShows DEF TabFits
    <2>3. u \in TabSet
      BY <1>1, <1>2, <2>1, TaskTab
    <2>4. p \in Conns \X Dbs => v = version[p]
      <3>1. p \in Conns \X Dbs => p[2] # ""
        BY ConstantsAre
      <3> QED BY <1>1, <1>3, <3>1
    <2>5. LoadFits(c, u)
      BY <1>1, <1>2, <1>3, <2>2, <2>3, <2>4, AnswerFits
    <2> QED BY <1>4, <2>1, <2>5
  <1>7. WriteFits(c)'
    BY <1>2, <1>4 DEF WriteFits
  <1>8. c.kind = tasks[i].kind /\ c.tab = tasks[i].tab
    BY <1>1, <1>4
  <1>9. \A x \in {c} : x = c \/ x.kind \notin {"load", "row", "write"}
    OBVIOUS
  <1> QED BY <1>2, <1>5, <1>6, <1>7, <1>8, <1>9, ShowsMoves

\* A write.
LEMMA ShowsWrites ==
  ASSUME Sound, ShowsTrue, NEW i, Writes(i)
  PROVE  ShowsTrue'
  <1>1. PICK t, p, parts, v, c : /\ t = tasks[i] /\ p = Place(t.driver)
                                 /\ parts = Append(t.parts, p) /\ v = version[p] + 1
                                 /\ c = WroteAt(t, parts, v)
    OBVIOUS
  <1>2. /\ Step(i, {c}) /\ i \in DOMAIN tasks /\ t.driver # 0
        /\ t.kind = "write" /\ t.pc = "run" /\ p \in Conns \X Dbs
        /\ v \in Nat /\ version'[p] = v
    BY <1>1, WritesStep DEF WritesTask
  <1>3. t \in TaskSet /\ p \in Spot
    BY <1>1, <1>2, TaskTyped, PlaceTyped
  <1>4. parts \in PartSet
    BY <1>1, <1>3, PartsTyped
  <1>5. c.kind = t.kind /\ c.tab = t.tab /\ c.parts = parts /\ c.version = v /\ c.pc = "show"
    <2>1. c = WroteAt(t, parts, v)
      BY <1>1
    <2> QED BY <1>2, <1>3, <1>4, <2>1, WroteTyped
  <1>6. Len(parts) = 2 /\ parts[2] = p
    <2>1. Len(t.parts) = 1
      BY <1>1, <1>2, TaskShows DEF WriteFits
    <2>2. t.parts \in PartSet
      BY <1>3 DEF TaskSet
    <2> QED BY <1>1, <1>3, <2>1, <2>2 DEF PartSet
  <1>7. v <= version'[p]
    BY <1>2
  <1>8. WriteFits(c)'
    BY <1>2, <1>5, <1>6, <1>7 DEF WriteFits
  <1>9. UNCHANGED tab
    BY DEF Writes, Answers, window
  <1>10. c.kind = tasks[i].kind /\ c.tab = tasks[i].tab /\ c.kind # "load"
    BY <1>1, <1>2, <1>5
  <1>11. \A x \in {c} : x = c \/ x.kind \notin {"load", "row", "write"}
    OBVIOUS
  <1> QED BY <1>2, <1>8, <1>9, <1>10, <1>11, ShowsMoves

\* Columns, for a dialog.
LEMMA ShowsColumns ==
  ASSUME Sound, ShowsTrue, NEW i, ReadsColumns(i)
  PROVE  ShowsTrue'
  <1>1. PICK t, p, parts, d, c : /\ t = tasks[i] /\ p = Named(i)
                                 /\ parts = Append(t.parts, p) /\ d = t.driver
                                 /\ c = Learnt(t, "show", parts, d)
    OBVIOUS
  <1>2. Step(i, {c}) /\ i \in DOMAIN tasks /\ t.driver # 0 /\ t.kind = "row" /\ t.pc = "run"
    BY <1>1, LearnsStep DEF LearnsTask
  <1>3. t \in TaskSet /\ p \in Spot
    BY <1>1, <1>2, TaskTyped, PlaceTyped
  <1>4. parts \in PartSet /\ d \in Nat /\ "show" \in Pcs
    BY <1>1, <1>3, PartsTyped DEF TaskSet, Pcs
  <1>5. c.kind = t.kind /\ c.tab = t.tab /\ c.parts = parts /\ c.pc = "show"
    <2>1. c = Learnt(t, "show", parts, d)
      BY <1>1
    <2> QED BY <1>3, <1>4, <2>1, LearntTyped
  <1>6. Len(parts) = 1
    <2>1. t.parts = <<>>
      BY <1>1, <1>2, TaskShows DEF WriteFits
    <2> QED BY <1>1, <2>1
  <1>7. WriteFits(c)'
    BY <1>2, <1>5, <1>6 DEF WriteFits
  <1>8. UNCHANGED tab
    BY DEF ReadsColumns, Answers, window
  <1>9. c.kind = tasks[i].kind /\ c.tab = tasks[i].tab /\ c.kind # "load"
    BY <1>1, <1>2, <1>5
  <1>10. \A x \in {c} : x = c \/ x.kind \notin {"load", "row", "write"}
    OBVIOUS
  <1> QED BY <1>2, <1>7, <1>8, <1>9, <1>10, ShowsMoves

\* A part of a structure.
LEMMA ShowsParts ==
  ASSUME Sound, ShowsTrue, NEW i, ReadsStructure(i)
  PROVE  ShowsTrue'
  <1>1. PICK c : /\ Step(i, {c}) /\ i \in DOMAIN tasks /\ tasks[i].kind = "structure"
                 /\ c.kind = "structure"
    BY StructureStep
  <1>2. UNCHANGED tab
    BY DEF ReadsStructure, window
  <1>3. tasks[i].kind \notin {"load", "query"}
    BY <1>1
  <1>4. \A x \in {c} : x.kind \notin {"load", "row", "write"}
    BY <1>1
  <1> QED BY <1>1, <1>2, <1>3, <1>4, ShowsPlainly

\* A list is shown.
LEMMA ShowsLists ==
  ASSUME Sound, ShowsTrue, NEW i, ShowSchema(i) \/ ShowTables(i) \/ ShowDatabases(i)
  PROVE  ShowsTrue'
  <1>1. Step(i, {}) /\ i \in DOMAIN tasks
    BY ListsStep
  <1>2. tasks[i].kind \in {"schema", "tables", "databases"} /\ UNCHANGED tab
    BY DEF ShowSchema, ShowTables, ShowDatabases, Lists, window
  <1>3. tasks[i].kind \notin {"load", "query"}
    BY <1>2
  <1> QED BY <1>1, <1>2, <1>3, ShowsPlainly

\* A dialog opens, and is answered.
LEMMA ShowsDialog ==
  ASSUME Sound, ShowsTrue, NEW i, ShowDialog(i) \/ Accept(i) \/ Cancel(i)
  PROVE  ShowsTrue'
  <1>1. i \in DOMAIN tasks /\ tasks[i].pc \in {"show", "ask"} /\ tasks[i].kind = "row"
    <2>1. CASE Cancel(i)
      <3>1. i \in DOMAIN tasks /\ tasks[i].pc = "ask"
        BY <2>1 DEF Cancel, At
      <3> QED BY <3>1, TaskTyped DEF Reaches
    <2> QED BY <2>1, DialogStep, AcceptStep
  <1>2. UNCHANGED tab
    BY DEF ShowDialog, Accept, Cancel, window
  <1>3. PICK t : t = tasks[i]
    OBVIOUS
  <1>4. Len(t.parts) = 1 /\ t \in TaskSet
    BY <1>1, <1>3, TaskShows, TaskTyped DEF WriteFits
  <1>5. CASE ShowDialog(i)
    <2>1. PICK c : c = Pc(i, "ask")
      OBVIOUS
    <2>2. c.kind = "row" /\ c.tab = tasks[i].tab /\ c.pc = "ask" /\ c.parts = t.parts
      BY <1>1, <1>3, <2>1, PcTyped DEF Pcs
    <2>3. Step(i, {c})
      BY <1>5, <2>1, DialogStep
    <2>4. WriteFits(c)'
      BY <1>4, <2>2 DEF WriteFits
    <2>5. c.kind = tasks[i].kind /\ c.kind # "load"
      BY <1>1, <2>2
    <2>6. \A x \in {c} : x = c \/ x.kind \notin {"load", "row", "write"}
      OBVIOUS
    <2> QED BY <1>1, <1>2, <2>2, <2>3, <2>4, <2>5, <2>6, ShowsMoves
  <1>6. CASE Accept(i)
    <2>1. PICK c : c = WriteTask(i)
      OBVIOUS
    <2>2. Step(i, {c})
      BY <1>6, <2>1, AcceptStep
    <2>3. c.kind = "write" /\ c.pc = "start" /\ c.parts = t.parts
      BY <1>1, <1>3, <2>1, WriteTaskTyped
    <2>4. WriteFits(c)'
      BY <1>4, <2>3 DEF WriteFits
    <2>5. \A x \in {c} : (x.kind = "load" => LoadFits(x, tab[x.tab])) /\ WriteFits(x)'
      BY <2>3, <2>4
    <2>6. tasks[i].kind \notin {"load", "query"}
      BY <1>1
    <2> QED BY <1>2, <2>2, <2>5, <2>6, ShowsQuietly
  <1>7. CASE Cancel(i)
    <2>1. Step(i, {})
      BY <1>7, CancelStep
    <2>2. tasks[i].kind \notin {"load", "query"}
      BY <1>1
    <2> QED BY <1>1, <1>2, <2>1, <2>2, ShowsPlainly
  <1> QED BY <1>5, <1>6, <1>7

\* Rows shown fit as the load did.
LEMMA RowsShownFit ==
  ASSUME NEW t \in TaskSet, NEW u \in TabSet, WrittenFits(u), t.pc = "show",
         u.conn # NULL => LoadFits(t, u)
  PROVE  TabFits(ShownTab(u, t))
  <1>1. PICK v : v = ShownTab(u, t)
    OBVIOUS
  <1>2. /\ v.conn = u.conn /\ v.nr = u.nr /\ v.page = u.page /\ v.sort = u.sort
        /\ v.wrote = u.wrote /\ v.shown = Shown(t)
    BY <1>1, ShownTabTyped
  <1>3. WrittenFits(v)
    BY <1>2 DEF WrittenFits
  <1>4. /\ Shown(t).nr = t.nr /\ Shown(t).page = t.page /\ Shown(t).sort = t.sort
        /\ Shown(t).from = t.from /\ Shown(t).version = t.version
    BY DEF Shown
  <1>5. RowsFit(v)
    BY <1>2, <1>4 DEF RowsFit, LoadFits
  <1> QED BY <1>1, <1>3, <1>5 DEF TabFits

\* Rows are shown.
LEMMA ShowsRows ==
  ASSUME Sound, ShowsTrue, NEW i, ShowRows(i)
  PROVE  ShowsTrue'
  <1>1. PICK t, n, u, v : t = tasks[i] /\ n = t.tab /\ u = tab[n] /\ v = ShownTab(u, t)
    OBVIOUS
  <1>2. /\ Step(i, {}) /\ i \in DOMAIN tasks /\ t.pc = "show" /\ t.kind \in {"load", "query"}
        /\ tab' = [tab EXCEPT ![n] = v]
    BY <1>1, ShowRowsStep
  <1>3. t \in TaskSet /\ n \in DOMAIN tab /\ u \in TabSet /\ (t.kind = "query" => u.conn = NULL)
    BY <1>1, <1>2, TaskTyped, TaskTab
  <1>4. TabFits(u) /\ (t.kind = "load" => LoadFits(t, u))
    BY <1>1, <1>2, TaskShows
  <1>5. v \in TabSet /\ v.nr = u.nr /\ v.page = u.page /\ v.sort = u.sort /\ v.wrote = u.wrote
        /\ v.grid = "rows"
    <2>1. v = ShownTab(u, t)
      BY <1>1
    <2> QED BY <1>3, <2>1, ShownTabTyped
  <1>6. TabFits(v)'
    <2>1. WrittenFits(u) /\ (u.conn # NULL => LoadFits(t, u))
      BY <1>2, <1>3, <1>4 DEF TabFits
    <2>2. v = ShownTab(u, t)
      BY <1>1
    <2>3. TabFits(v)
      BY <1>2, <1>3, <2>1, <2>2, RowsShownFit
    <2> QED BY <1>2, <1>5, <2>3, TabStaysFit DEF Sound, Step, Grows
  <1>7. Keeps(tab[n], v)
    BY <1>1, <1>5 DEF Keeps
  <1>8. LoadsOn(i, {})
    <2>1. DOMAIN tab' = DOMAIN tab /\ tab'[n] = v /\ \A m \in DOMAIN tab \ {n} : tab'[m] = tab[m]
      BY <1>2, <1>3 DEF Sound, Typed, WindowTyped
    <2>2. tasks[i].tab = n
      BY <1>1
    <2> QED BY <1>5, <2>1, <2>2 DEF LoadsOn
  <1> QED BY <1>2, <1>3, <1>5, <1>6, <1>7, <1>8, ShowsInTab

\* A structure is shown.
LEMMA ShowsStructure ==
  ASSUME Sound, ShowsTrue, NEW i, ShowStructure(i)
  PROVE  ShowsTrue'
  <1>1. PICK t, n, u, v : t = tasks[i] /\ n = t.tab /\ u = tab[n] /\ v = LearntTab(u, t)
    OBVIOUS
  <1>2. /\ Step(i, {}) /\ i \in DOMAIN tasks /\ t.kind = "structure"
        /\ tab' = [tab EXCEPT ![n] = v]
    BY <1>1, ShowStructureStep
  <1>3. t \in TaskSet /\ n \in DOMAIN tab /\ u \in TabSet
    BY <1>1, <1>2, TaskTyped, TaskTab
  <1>4. TabFits(u)
    BY <1>1, <1>2, TaskShows
  <1>5. v \in TabSet /\ v.nr = u.nr /\ v.page = u.page /\ v.sort = u.sort /\ v.wrote = u.wrote
        /\ v.grid = u.grid /\ v.conn = u.conn /\ v.shown = u.shown
    <2>1. v = LearntTab(u, t)
      BY <1>1
    <2> QED BY <1>3, <2>1, LearntTabTyped
  <1>6. TabFits(v)'
    <2>1. TabFits(v)
      BY <1>4, <1>5 DEF TabFits, WrittenFits, RowsFit
    <2> QED BY <1>2, <1>5, <2>1, TabStaysFit DEF Sound, Step, Grows
  <1>7. Keeps(tab[n], v)
    BY <1>1, <1>5 DEF Keeps
  <1>8. LoadsOn(i, {})
    <2>1. DOMAIN tab' = DOMAIN tab /\ tab'[n] = v /\ \A m \in DOMAIN tab \ {n} : tab'[m] = tab[m]
      BY <1>2, <1>3 DEF Sound, Typed, WindowTyped
    <2>2. \A m \in DOMAIN tab' : tab'[m].grid = tab[m].grid
      BY <1>1, <1>5, <2>1
    <2>3. tasks[i].kind \notin {"load", "query"}
      BY <1>1, <1>2
    <2> QED BY <2>1, <2>2, <2>3 DEF LoadsOn
  <1> QED BY <1>2, <1>3, <1>5, <1>6, <1>7, <1>8, ShowsInTab

\* What was written from a tab fits when it is noted.
LEMMA WrittenShownFits ==
  ASSUME Typed, Typed', VersionGrows, NEW t \in TaskSet, NEW u \in TabSet, NEW v,
         t.kind = "write", t.pc = "show", WriteFits(t), u.conn # NULL,
         v.conn = u.conn, v.wrote = [parts |-> t.parts, version |-> t.version],
         v.grid # "rows"
  PROVE  TabFits(v)'
  <1>1. WriteFits(t)'
    BY WriteStaysFit
  <1>2. t.parts[2] \in Conns \X Dbs /\ t.version <= version'[t.parts[2]]
    BY <1>1 DEF WriteFits
  <1>3. v.wrote.parts = t.parts /\ v.wrote.version = t.version
    OBVIOUS
  <1>4. WrittenFits(v)'
    BY <1>2, <1>3 DEF WrittenFits
  <1> QED BY <1>4 DEF TabFits, RowsFit

\* A write is noted, and its tab loaded again.
LEMMA ShowsWritten ==
  ASSUME Sound, ShowsTrue, NEW i, ShowWritten(i)
  PROVE  ShowsTrue'
  <1>1. PICK t, n, u, w, v, new : /\ t = tasks[i] /\ n = t.tab /\ u = tab[n]
                                  /\ w = WroteTab(u, t) /\ v = LoadingTab(w, app.id)
                                  /\ new = LoadTask(n, w)
    OBVIOUS
  <1>2. /\ Step(i, Range(new)) /\ i \in DOMAIN tasks /\ t.pc = "show" /\ t.kind = "write"
        /\ tab' = [tab EXCEPT ![n] = v] /\ Fresh(new, {"load"})
        /\ app.id # NULL => Range(new) # {}
        /\ \A x \in Range(new) : x.tab = n /\ x.nr = u.nr + 1
    BY <1>1, ShowWrittenStep DEF WrittenTab, WrittenLoad
  <1>3. t \in TaskSet /\ n \in DOMAIN tab /\ u \in TabSet /\ u.conn # NULL
    BY <1>1, <1>2, TaskTyped, TaskTab
  <1>4. WriteFits(t)
    BY <1>1, <1>2, TaskShows
  <1>5. /\ w \in TabSet /\ w.nr = u.nr /\ w.conn = u.conn
        /\ w.wrote = [parts |-> t.parts, version |-> t.version]
    <2>1. w = WroteTab(u, t)
      BY <1>1
    <2> QED BY <1>3, <2>1, WroteTabTyped
  <1>6. /\ v \in TabSet /\ v.nr = w.nr + 1 /\ v.conn = w.conn /\ v.wrote = w.wrote
        /\ v.grid = IF app.id = NULL THEN "error" ELSE "loading"
    <2>1. v = LoadingTab(w, app.id)
      BY <1>1
    <2> QED BY <1>5, <2>1, LoadingTyped
  <1>7. TabFits(v)'
    <2>1. v.grid # "rows" /\ v.conn = u.conn /\ v.wrote = [parts |-> t.parts, version |-> t.version]
      BY <1>5, <1>6
    <2> QED BY <1>2, <1>3, <1>4, <2>1, WrittenShownFits DEF Sound, Step, Grows
  <1>8. Keeps(tab[n], v)
    <2>1. u.nr \in Nat
      BY <1>3 DEF TabSet
    <2>2. v.nr > u.nr
      BY <1>5, <1>6, <2>1
    <2> QED BY <1>1, <2>2 DEF Keeps
  <1>9. DOMAIN tab' = DOMAIN tab /\ tab'[n] = v /\ \A m \in DOMAIN tab \ {n} : tab'[m] = tab[m]
    BY <1>2, <1>3 DEF Sound, Typed, WindowTyped
  <1>10. ASSUME NEW c \in Range(new)
         PROVE  (c.kind = "load" => LoadFits(c, tab'[c.tab])) /\ WriteFits(c)'
    <2>1. c.kind = "load" /\ c.pc = "start" /\ c.tab = n /\ c.nr = v.nr
      BY <1>2, <1>5, <1>6 DEF Fresh
    <2>2. LoadFits(c, v) /\ WriteFits(c)'
      BY <1>6, <2>1, FreshLoadFits
    <2> QED BY <1>9, <2>1, <2>2
  <1>11. LoadsOn(i, Range(new))
    <2>1. ASSUME NEW m \in DOMAIN tab', tab'[m].grid = "loading", m = n
          PROVE  \E c \in Range(new) : c.tab = n /\ c.kind \in {"load", "query"}
      <3>1. app.id # NULL
        BY <1>6, <1>9, <2>1
      <3>2. \A c \in Range(new) : c.tab = n /\ c.kind \in {"load", "query"}
        BY <1>2 DEF Fresh
      <3> QED BY <1>2, <3>1, <3>2
    <2>2. tasks[i].kind \notin {"load", "query"}
      BY <1>1, <1>2
    <2> QED BY <1>9, <2>1, <2>2 DEF LoadsOn
  <1> QED BY <1>2, <1>3, <1>6, <1>7, <1>8, <1>10, <1>11, ShowsInTab

\* Whatever happens, grids show the answers of their own last operations.
LEMMA ShowsNext ==
  ASSUME Sound, ShowsTrue, Next
  PROVE  ShowsTrue'
  <1>1. CASE User
    BY <1>1, ShowsUser
  <1>2. ASSUME NEW i \in DOMAIN tasks, Future(i)
        PROVE  ShowsTrue'
    BY <1>2, ShowsStarts, ShowsCalls, ShowsLeaves, ShowsDials, ShowsSwaps, ShowsRan,
       ShowsWrites, ShowsColumns, ShowsParts, ShowsCallFails, ShowsRows, ShowsWritten,
       ShowsLists, ShowsStructure, ShowsDialog DEF Future
  <1>3. ASSUME NEW i \in DOMAIN tasks, Accept(i) \/ Cancel(i)
        PROVE  ShowsTrue'
    BY <1>3, ShowsDialog
  <1> QED BY <1>1, <1>2, <1>3 DEF Next, Runtime

\* When the program is started there are none.
LEMMA ShowsAtFirst ==
  ASSUME Init
  PROVE  ShowsTrue
  <1>1. tab = <<>> /\ tasks = DatabasesTask(NoApp)
    BY DEF Init
  <1>2. Spawns(DatabasesTask(NoApp), "databases")
    BY NoAppTyped, DatabasesSpawned
  <1>3. \A i \in DOMAIN tasks : tasks[i].kind = "databases"
    BY <1>1, <1>2 DEF Spawns
  <1>4. \A i \in DOMAIN tasks : TaskFits(tasks[i])
    BY <1>3 DEF TaskFits, WriteFits
  <1>5. DOMAIN tab = {}
    BY <1>1
  <1> QED BY <1>4, <1>5 DEF ShowsTrue, LoadingIsLoaded

-----------------------------------------------------------------------------
(* Where the answers of a grid are from.                                   *)

\* A load is answered by the session it began in, a query by its connection,
\* and both in their database.
PlaceFits(t) ==
  t.kind \in {"load", "query"} =>
    /\ t.pc \in {"swap", "note", "run"} =>
         /\ t.driver \in DOMAIN drivers
         /\ IF t.kind = "load" THEN t.id \in {NULL, drivers[t.driver].conn}
            ELSE t.conn = drivers[t.driver].conn
    /\ (t.pc = "run" /\ t.db # "") => drivers[t.driver].pool = t.db
    /\ t.pc = "show" =>
         /\ IF t.kind = "load" THEN t.id \in {NULL, t.from[1]} ELSE t.conn = t.from[1]
         /\ t.db # "" => t.from[2] = t.db

\* So was what a tab shows.
PlaceShown(u) ==
  u.shown # NULL =>
    /\ IF u.conn # NULL THEN u.shown.id \in {NULL, u.shown.from[1]}
       ELSE u.shown.from[1] = u.shown.conn
    /\ u.shown.db # "" => u.shown.from[2] = u.shown.db

TasksPlaced == \A i \in DOMAIN tasks : PlaceFits(tasks[i])
TabsPlaced == \A n \in DOMAIN tab : PlaceShown(tab[n])

PoolsStay == \A d \in DOMAIN drivers : drivers'[d].pool = drivers[d].pool

\* A future fits while its pool stays, or if it does not use it yet.
LEMMA PlaceStays ==
  ASSUME NEW t, PlaceFits(t), DriversGrow, PoolsStay \/ ~Using(t)
  PROVE  PlaceFits(t)'
  <1>1. CASE t.kind \in {"load", "query"} /\ t.pc \in {"swap", "note", "run"}
    <2>1. /\ t.driver \in DOMAIN drivers /\ t.driver \in DOMAIN drivers'
          /\ drivers'[t.driver].conn = drivers[t.driver].conn
          /\ IF t.kind = "load" THEN t.id \in {NULL, drivers[t.driver].conn}
             ELSE t.conn = drivers[t.driver].conn
      BY <1>1 DEF PlaceFits, DriversGrow
    <2>2. ASSUME t.pc = "run", t.db # ""
          PROVE  drivers'[t.driver].pool = t.db
      <3>1. drivers[t.driver].pool = t.db
        BY <1>1, <2>2 DEF PlaceFits
      <3>2. Using(t)
        BY <1>1, <2>2 DEF Using
      <3> QED BY <2>1, <3>1, <3>2 DEF PoolsStay
    <2>3. t.pc # "show"
      BY <1>1
    <2> QED BY <2>1, <2>2, <2>3 DEF PlaceFits
  <1>2. CASE ~(t.kind \in {"load", "query"} /\ t.pc \in {"swap", "note", "run"})
    BY <1>2 DEF PlaceFits
  <1> QED BY <1>1, <1>2

\* All futures fit if those that changed do.
LEMMA PlacesOn ==
  ASSUME TasksPlaced, NEW i, NEW C, Step(i, C), \A c \in C : PlaceFits(c)',
         PoolsStay \/ \A k \in DOMAIN tasks \ {i} : ~Using(tasks[k])
  PROVE  TasksPlaced'
  <1>1. Turns(i, C) /\ DriversGrow
    BY DEF Step, Grows
  <1>2. ASSUME NEW j \in DOMAIN tasks'
        PROVE  PlaceFits(tasks[j])'
    <2>1. PICK t : t = tasks'[j]
      OBVIOUS
    <2>2. CASE t \in C
      BY <2>1, <2>2
    <2>3. CASE \E k \in DOMAIN tasks \ {i} : t = tasks[k]
      <3>1. PICK k \in DOMAIN tasks \ {i} : t = tasks[k]
        BY <2>3
      <3>2. PlaceFits(t) /\ (PoolsStay \/ ~Using(t))
        BY <3>1 DEF TasksPlaced
      <3>3. PlaceFits(t)'
        BY <1>1, <3>2, PlaceStays
      <3> QED BY <2>1, <3>3
    <2> QED BY <1>1, <2>1, <2>2, <2>3 DEF Turns
  <1> QED BY <1>2 DEF TasksPlaced

\* Most futures have no place.
LEMMA NoPlace ==
  ASSUME NEW u, u.kind \notin {"load", "query"} \/ u.pc \in {"start", "leave", "dial"}
  PROVE  PlaceFits(u)'
  BY DEF PlaceFits

\* A step that leaves the drivers alone and has none.
LEMMA PlacesQuietly ==
  ASSUME TasksPlaced, NEW i, NEW C, Step(i, C), UNCHANGED drivers,
         \A c \in C : c.kind \notin {"load", "query"} \/ c.pc \in {"start", "leave", "dial"}
  PROVE  TasksPlaced'
  <1>1. \A c \in C : PlaceFits(c)'
    BY NoPlace
  <1>2. PoolsStay
    BY DEF PoolsStay
  <1> QED BY <1>1, <1>2, PlacesOn

\* None switches while the one that changed uses the session.
LEMMA UsersAlone ==
  ASSUME NEW i, NEW C, Turns(i, C), Lone(tasks'), NEW c \in C, Using(c),
         NEW k \in DOMAIN tasks \ {i}
  PROVE  ~Switching(tasks[k])
  <1>1. PICK j, l \in DOMAIN tasks' : j # l /\ tasks'[j] = tasks[k] /\ tasks'[l] = c
    BY DEF Turns
  <1> QED BY <1>1 DEF Lone

\* Who begins in the session is in its pool's database.
LEMMA InItsPool ==
  ASSUME Calm, NEW i \in DOMAIN tasks, tasks[i].pc = "start", NEW c, NEW C, Turns(i, C), c \in C,
         Lone(tasks'), Using(c), app.driver # 0
  PROVE  app.db = drivers[app.driver].pool
  <1>1. ASSUME NEW k \in DOMAIN tasks, tasks[k].pc = "note"
        PROVE  FALSE
    <2>1. k # i /\ Switching(tasks[k])
      BY <1>1 DEF Switching
    <2> QED BY <2>1, UsersAlone
  <1> QED BY <1>1 DEF Calm, NoteTrue

\* A load or a query that begins fits the session there is.
LEMMA WorkFits ==
  ASSUME Sound, Calm, NEW i \in DOMAIN tasks, tasks[i].pc = "start", NEW t, t = tasks[i],
         t.kind \in {"load", "query"}, t.kind = "query" => app.id = t.conn,
         app.driver # 0, NEW c, NEW C, Turns(i, C), c \in C, Lone(tasks'), UNCHANGED drivers,
         c.kind = t.kind, c.conn = t.conn, c.db = t.db, c.driver = app.driver, c.id = app.id,
         c.pc = "swap" \/ (c.pc = "run" /\ InDatabase(t, app))
  PROVE  PlaceFits(c)'
  <1>1. /\ app.driver \in DOMAIN drivers
        /\ app.id # NULL => drivers[app.driver].conn = app.id
    BY AppTyped DEF Sound
  <1>2. t.kind = "query" => t.conn # NULL
    <2>1. Concerns(t)
      BY TaskTyped
    <2> QED BY <2>1, ConstantsAre DEF Concerns
  <1>3. ASSUME c.pc = "run", c.db # ""
        PROVE  drivers[app.driver].pool = c.db
    <2>1. app.db = t.db
      BY <1>3 DEF InDatabase
    <2>2. Using(c)
      BY <1>3 DEF Using
    <2> QED BY <2>1, <2>2, InItsPool
  <1>4. PICK d, e : d = app.driver /\ e = drivers[d]
    OBVIOUS
  <1>5. d \in DOMAIN drivers' /\ drivers'[d] = e /\ c.driver = d
    BY <1>1, <1>4
  <1>6. IF c.kind = "load" THEN c.id \in {NULL, e.conn} ELSE c.conn = e.conn
    BY <1>1, <1>2, <1>4
  <1>7. (c.pc = "run" /\ c.db # "") => e.pool = c.db
    BY <1>3, <1>4
  <1>8. c.pc # "show"
    OBVIOUS
  <1> QED BY <1>5, <1>6, <1>7, <1>8 DEF PlaceFits

\* A query or a load begins.
LEMMA PlacedStarts ==
  ASSUME Sound, Calm, TasksPlaced, NEW i, Lone(tasks'),
         StartConnect(i) \/ StartQuery(i) \/ StartLoad(i)
  PROVE  TasksPlaced'
  <1>1. i \in DOMAIN tasks /\ tasks[i].pc = "start"
    BY StartsEarlier DEF StartConnect, StartQuery, StartLoad
  <1>2. PICK t, a : t = tasks[i] /\ a = app
    OBVIOUS
  <1>3. t \in TaskSet /\ a \in AppSet
    BY <1>1, <1>2, TaskTyped, AppTyped DEF Sound
  <1>4. CASE Connects(i) /\ Step(i, {Dropping(i)})
    <2>1. PICK pc, d, c : pc = (IF app.driver = 0 THEN "dial" ELSE "leave") /\ d = app.driver
                          /\ c = AtWait(t, pc, d)
      OBVIOUS
    <2>2. pc \in Pcs /\ d \in Nat /\ pc \in {"leave", "dial"}
      BY <2>1, AppTyped DEF Sound, Pcs
    <2>3. c.pc = pc
      BY <1>3, <2>1, <2>2, AtWaitTyped
    <2>4. Step(i, {c}) /\ UNCHANGED drivers
      BY <1>2, <1>4, <2>1 DEF Dropping, Connects
    <2> QED BY <2>2, <2>3, <2>4, PlacesQuietly
  <1>5. CASE StartQuery(i) /\ Step(i, {Work(t, app)}) /\ UNCHANGED drivers /\ a.id = t.conn /\ a.driver # 0
    <2>1. PICK c : c = Work(t, a)
      OBVIOUS
    <2>2. t.kind = "query"
      BY <1>2, <1>5 DEF StartQuery, Starts
    <2>3. /\ c.kind = t.kind /\ c.conn = t.conn /\ c.db = t.db /\ c.driver = a.driver /\ c.id = a.id
          /\ c.pc = "swap" \/ (c.pc = "run" /\ InDatabase(t, a))
      BY <1>3, <2>1, WorkTyped
    <2>4. Step(i, {c}) /\ Turns(i, {c})
      BY <1>2, <1>5, <2>1 DEF Step
    <2>5. PlaceFits(c)'
      BY <1>1, <1>2, <1>5, <2>2, <2>3, <2>4, WorkFits
    <2> QED BY <1>5, <2>4, <2>5, PlacesOn DEF PoolsStay
  <1>6. CASE StartLoad(i) /\ Step(i, {LoadWork(i)}) /\ UNCHANGED drivers /\ a.driver # 0
    <2>1. PICK n, u, w, c : n = t.tab /\ u = tab[n] /\ w = Work(t, a)
                            /\ c = Paged(w, u.page, u.sort)
      OBVIOUS
    <2>2. t.kind = "load"
      BY <1>2, <1>6 DEF StartLoad, Starts
    <2>3. /\ w \in TaskSet /\ w.kind = t.kind /\ w.conn = t.conn /\ w.db = t.db
          /\ w.driver = a.driver /\ w.id = a.id
          /\ w.pc = "swap" \/ (w.pc = "run" /\ InDatabase(t, a))
      BY <1>3, <2>1, WorkTyped
    <2>4. u.page \in 0 .. MaxPage /\ u.sort \in BOOLEAN
      BY <1>1, <1>2, <2>1, <2>2, TaskTab
    <2>5. /\ c.kind = w.kind /\ c.conn = w.conn /\ c.db = w.db /\ c.driver = w.driver
          /\ c.id = w.id /\ c.pc = w.pc
      BY <2>1, <2>3, <2>4, PageTyped
    <2>6. Step(i, {c}) /\ Turns(i, {c})
      BY <1>2, <1>6, <2>1 DEF LoadWork, Paged, Step
    <2>7. /\ c.kind = t.kind /\ c.conn = t.conn /\ c.db = t.db /\ c.driver = app.driver /\ c.id = app.id
          /\ c.pc = "swap" \/ (c.pc = "run" /\ InDatabase(t, app))
      BY <1>2, <2>3, <2>5
    <2>8. PlaceFits(c)'
      BY <1>1, <1>2, <1>6, <2>2, <2>6, <2>7, WorkFits
    <2> QED BY <1>6, <2>6, <2>8, PlacesOn DEF PoolsStay
  <1>7. CASE Fails(i)
    <2>1. Step(i, {}) /\ UNCHANGED drivers
      BY <1>1, <1>7, FailsStep DEF Fails
    <2> QED BY <2>1, PlacesQuietly
  <1>8. CASE StartConnect(i)
    BY <1>4, <1>8, ConnectsStep DEF StartConnect
  <1>9. CASE StartQuery(i)
    BY <1>2, <1>4, <1>5, <1>9, StartQueryStep
  <1>10. CASE StartLoad(i)
    BY <1>2, <1>6, <1>7, <1>10, StartLoadStep
  <1> QED BY <1>8, <1>9, <1>10

\* A call begins: it is of another kind.
LEMMA PlacedCalls ==
  ASSUME Sound, TasksPlaced, NEW i, StartCall(i) \/ StartDatabases(i)
  PROVE  TasksPlaced'
  <1>1. CASE Fails(i) /\ Step(i, {})
    BY <1>1, PlacesQuietly DEF Fails
  <1>2. CASE \E t : CallsTo(i, t)
    <2>1. PICK c : CallsTo(i, c)
      BY <1>2
    <2>2. Step(i, {c}) /\ UNCHANGED drivers /\ c.kind = tasks[i].kind
      BY <2>1 DEF CallsTo
    <2>3. tasks[i].kind \notin {"load", "query"}
      BY StartsEarlier DEF StartCall, StartDatabases
    <2> QED BY <2>2, <2>3, PlacesQuietly
  <1> QED BY <1>1, <1>2, StartCallStep

\* What is spawned has no place yet.
LEMMA SpawnedPlace ==
  ASSUME NEW new, NEW kinds, Fresh(new, kinds)
  PROVE  \A u \in Range(new) : u.pc \in {"start", "leave", "dial"}
  BY DEF Fresh

\* A session is left by who has it for itself.
LEMMA PlacedLeaves ==
  ASSUME Sound, Calm, TasksPlaced, NEW i, StartDisconnect(i) \/ Leave(i)
  PROVE  TasksPlaced'
  <1>1. CASE StartDisconnect(i)
    <2>1. i \in DOMAIN tasks /\ tasks[i].kind = "disconnect" /\ UNCHANGED drivers
      BY <1>1, StartDisconnectStep
    <2>2. CASE Step(i, Range(DatabasesTask(NoApp)))
      <3>1. Fresh(DatabasesTask(NoApp), {"databases"})
        BY <2>2, NoAppTyped, DatabasesFresh DEF Step
      <3> QED BY <2>1, <2>2, <3>1, SpawnedPlace, PlacesQuietly
    <2>3. CASE Step(i, {AtWait(tasks[i], "leave", app.driver)})
      <3>1. PICK t, d, c : t = tasks[i] /\ d = app.driver /\ c = AtWait(t, "leave", d)
        OBVIOUS
      <3>2. t \in TaskSet /\ d \in Nat /\ "leave" \in Pcs
        BY <2>1, <3>1, TaskTyped, AppTyped DEF Sound, Pcs
      <3>3. c.pc = "leave"
        BY <3>1, <3>2, AtWaitTyped
      <3>4. Step(i, {c})
        BY <2>3, <3>1
      <3> QED BY <2>1, <3>3, <3>4, PlacesQuietly
    <2> QED BY <1>1, <2>2, <2>3, StartDisconnectStep
  <1>2. CASE Leave(i)
    <2>1. i \in DOMAIN tasks /\ tasks[i].pc = "leave"
      BY <1>2 DEF Leave, At
    <2>2. \A k \in DOMAIN tasks \ {i} : ~Using(tasks[k])
      BY <2>1, OthersBefore DEF Calm, Switching
    <2>3. CASE tasks[i].kind = "disconnect"
      <3>1. PICK a, new : a = app /\ new = SchemaTask(a, saved) \o DatabasesTask(a)
        OBVIOUS
      <3>2. Step(i, Range(new))
        BY <1>2, <2>3, <3>1, LeavesDisconnectStep
      <3>3. a \in AppSet
        BY <3>1, AppTyped DEF Sound
      <3>4. Fresh(Landing(a), {"schema", "databases"})
        BY <3>2, <3>3, LandingFresh DEF Sound, Step
      <3>5. new = Landing(a)
        BY <3>1 DEF Landing
      <3>6. \A u \in Range(new) : u.pc \in {"start", "leave", "dial"}
        BY <3>4, <3>5, SpawnedPlace
      <3>7. \A u \in Range(new) : PlaceFits(u)'
        BY <3>6, NoPlace
      <3> QED BY <2>2, <3>2, <3>7, PlacesOn
    <2>4. CASE tasks[i].kind # "disconnect"
      <3>1. PICK c : c = Pc(i, "dial")
        OBVIOUS
      <3>2. Step(i, {c})
        BY <1>2, <2>4, <3>1, LeavesStep
      <3>3. c.pc = "dial"
        BY <2>1, <3>1, PcTyped DEF Pcs
      <3>4. PlaceFits(c)'
        BY <3>3, NoPlace
      <3> QED BY <2>2, <3>2, <3>4, PlacesOn
    <2> QED BY <2>3, <2>4
  <1> QED BY <1>1, <1>2

\* A new session, in which the query that made it begins.
LEMMA PlacedDials ==
  ASSUME Sound, TasksPlaced, NEW i, Dial(i)
  PROVE  TasksPlaced'
  <1>1. /\ i \in DOMAIN tasks /\ tasks[i].conn \in Conns
        /\ tasks[i].kind \in {"connect", "query"}
        /\ drivers' = Append(drivers, [conn |-> tasks[i].conn, pool |-> Configured[tasks[i].conn]])
        /\ app' = [id |-> tasks[i].conn, driver |-> Len(drivers) + 1,
                   db |-> Configured[tasks[i].conn]]
        /\ Typed' /\ app' \in AppSet
    BY DialSession
  <1>2. PICK t, a, x, d : /\ t = tasks[i] /\ a = app' /\ x = t.conn /\ d = Len(drivers) + 1
    OBVIOUS
  <1>3. /\ d \in DOMAIN drivers' /\ drivers'[d] = [conn |-> x, pool |-> Configured[x]]
        /\ \A e \in DOMAIN drivers : drivers'[e] = drivers[e]
    BY <1>1, <1>2, DriverMade DEF Sound
  <1>4. PoolsStay
    BY <1>3 DEF PoolsStay
  <1>5. a.id = x /\ a.driver = d /\ a.db = Configured[x] /\ a \in AppSet /\ t \in TaskSet
    BY <1>1, <1>2, TaskTyped
  <1>6. Fresh(Landing(a), {"schema", "databases"})
    BY <1>1, <1>5, LandingFresh DEF Sound
  <1>7. \A u \in Range(Landing(a)) : PlaceFits(u)'
    BY <1>6, SpawnedPlace, NoPlace
  <1>8. CASE t.kind = "connect"
    <2>1. Step(i, Range(Landing(a)))
      BY <1>2, <1>8, DialsConnectStep
    <2> QED BY <1>4, <1>7, <2>1, PlacesOn
  <1>9. CASE t.kind = "query"
    <2>1. PICK c, C : c = Work(t, a) /\ C = {c} \cup Range(Landing(a))
      OBVIOUS
    <2>2. Step(i, C)
      BY <1>2, <1>9, <2>1, DialsQueryStep
    <2>3. /\ c.kind = "query" /\ c.conn = x /\ c.driver = d /\ c.db = t.db
          /\ c.pc = "swap" \/ (c.pc = "run" /\ InDatabase(t, a))
      <3>1. c = Work(t, a)
        BY <2>1
      <3> QED BY <1>2, <1>5, <1>9, <3>1, WorkTyped
    <2>4. (c.pc = "run" /\ c.db # "") => c.db = Configured[x]
      BY <1>5, <2>3 DEF InDatabase
    <2>5. PICK e : e = drivers'[d]
      OBVIOUS
    <2>6. e.conn = x /\ e.pool = Configured[x]
      BY <1>3, <2>5
    <2>7. PlaceFits(c)'
      BY <1>3, <2>3, <2>4, <2>5, <2>6 DEF PlaceFits
    <2>8. \A u \in C : PlaceFits(u)'
      BY <1>7, <2>1, <2>7
    <2> QED BY <1>4, <2>2, <2>8, PlacesOn
  <1> QED BY <1>1, <1>2, <1>8, <1>9

\* Another database, of who has the session for itself.
LEMMA PlacedSwaps ==
  ASSUME Sound, Calm, TasksPlaced, NEW i, Swap(i)
  PROVE  TasksPlaced'
  <1>1. i \in DOMAIN tasks /\ tasks[i].pc = "swap"
    BY DEF Swap, At
  <1>2. \A k \in DOMAIN tasks \ {i} : ~Using(tasks[k])
    BY <1>1, OthersBefore DEF Calm, Switching
  <1>3. PICK t, c : t = tasks[i] /\ c = Pc(i, "note")
    OBVIOUS
  <1>4. Step(i, {c})
    BY <1>3, SwapsStep
  <1>5. c.pc = "note" /\ c.kind = t.kind /\ c.conn = t.conn /\ c.driver = t.driver /\ c.id = t.id
    <2>1. t \in TaskSet /\ t.driver \in Nat /\ "note" \in Pcs
      BY <1>1, <1>3, TaskTyped DEF TaskSet, Pcs
    <2>2. c = AtWait(t, "note", t.driver)
      BY <1>3 DEF Pc
    <2> QED BY <2>1, <2>2, AtWaitTyped
  <1>6. PlaceFits(t) /\ ~Using(t) /\ t.pc = "swap"
    BY <1>1, <1>3 DEF TasksPlaced, Using
  <1>7. PlaceFits(t)'
    BY <1>4, <1>6, PlaceStays DEF Step, Grows
  <1>8. PlaceFits(c)'
    BY <1>5, <1>6, <1>7 DEF PlaceFits
  <1> QED BY <1>2, <1>4, <1>8, PlacesOn

\* It is noted, and the answer will be from there.
LEMMA PlacedNotes ==
  ASSUME Sound, Calm, TasksPlaced, NEW i, Note(i)
  PROVE  TasksPlaced'
  <1>1. i \in DOMAIN tasks /\ tasks[i].pc = "note" /\ UNCHANGED drivers
    BY DEF Note, At
  <1>2. PICK t, d, a, c, C : /\ t = tasks[i] /\ d = app.driver /\ a = app'
                             /\ c = AtWait(t, "run", d) /\ C = {c} \cup Range(DatabasesTask(a))
    OBVIOUS
  <1>3. Step(i, C)
    BY <1>2, NotesStep
  <1>4. t.driver = d /\ d # 0 /\ drivers[d].pool = t.db /\ PlaceFits(t) /\ t.pc = "note"
    <2>1. Knows(t)
      BY <1>1, <1>2 DEF Calm
    <2> QED BY <1>1, <1>2, <2>1 DEF Knows, TasksPlaced
  <1>5. /\ c.pc = "run" /\ c.kind = t.kind /\ c.conn = t.conn /\ c.driver = d /\ c.id = t.id
        /\ c.db = t.db
    <2>1. t \in TaskSet /\ d \in Nat /\ "run" \in Pcs
      BY <1>1, <1>2, TaskTyped, AppTyped DEF Sound, Pcs
    <2>2. c = AtWait(t, "run", d)
      BY <1>2
    <2> QED BY <2>1, <2>2, AtWaitTyped
  <1>6. PlaceFits(c)
    BY <1>4, <1>5 DEF PlaceFits
  <1>7. PoolsStay /\ DriversGrow
    BY <1>1, <1>3 DEF PoolsStay, Step, Grows
  <1>8. PlaceFits(c)'
    BY <1>6, <1>7, PlaceStays
  <1>9. Fresh(DatabasesTask(a), {"databases"})
    <2>1. a \in AppSet /\ Typed'
      BY <1>2, NoteSession
    <2> QED BY <2>1, DatabasesFresh
  <1>10. \A u \in Range(DatabasesTask(a)) : PlaceFits(u)'
    BY <1>9, SpawnedPlace, NoPlace
  <1>11. \A u \in C : PlaceFits(u)'
    BY <1>2, <1>8, <1>10
  <1> QED BY <1>3, <1>7, <1>11, PlacesOn

\* A statement is answered from its place.
LEMMA PlacedRuns ==
  ASSUME Sound, TasksPlaced, NEW i, Runs(i)
  PROVE  TasksPlaced'
  <1>1. PICK t, p, v, c : /\ t = tasks[i] /\ p = Place(t.driver)
                          /\ v = (IF Pool(i) = "" THEN 0 ELSE version[p]) /\ c = Got(t, p, v)
    OBVIOUS
  <1>2. /\ Step(i, {c}) /\ i \in DOMAIN tasks /\ t.driver # 0
        /\ t.kind \in {"load", "query"} /\ t.pc = "run" /\ v \in Nat
    BY <1>1, RunsStep DEF RunsTask
  <1>3. t \in TaskSet /\ p \in Spot /\ p[1] = drivers[t.driver].conn /\ p[2] = drivers[t.driver].pool
    BY <1>1, <1>2, TaskTyped, PlaceTyped DEF Place
  <1>4. /\ c.kind = t.kind /\ c.conn = t.conn /\ c.id = t.id /\ c.db = t.db /\ c.from = p
        /\ c.pc = "show"
    <2>1. c = Got(t, p, v) /\ p \in Spot \cup {NULL}
      BY <1>1, <1>3
    <2> QED BY <1>2, <1>3, <2>1, GotTyped
  <1>5. /\ IF t.kind = "load" THEN t.id \in {NULL, p[1]} ELSE t.conn = p[1]
        /\ t.db # "" => p[2] = t.db
    <2>1. PlaceFits(t)
      BY <1>1, <1>2 DEF TasksPlaced
    <2> QED BY <1>2, <1>3, <2>1 DEF PlaceFits
  <1>6. PlaceFits(c)'
    BY <1>4, <1>5 DEF PlaceFits
  <1>7. UNCHANGED drivers
    BY DEF Runs, Answers
  <1> QED BY <1>2, <1>6, <1>7, PlacesOn DEF PoolsStay

\* All other steps leave the pools alone.
LEMMA PlacedRest ==
  ASSUME Sound, TasksPlaced, NEW i,
         \/ Writes(i) \/ ReadsColumns(i) \/ ReadsStructure(i) \/ CallFails(i)
         \/ ShowRows(i) \/ ShowWritten(i) \/ ShowStructure(i) \/ ShowDialog(i)
         \/ ShowSchema(i) \/ ShowTables(i) \/ ShowDatabases(i) \/ Accept(i) \/ Cancel(i)
  PROVE  TasksPlaced'
  <1>1. UNCHANGED drivers
    BY DEF Writes, ReadsColumns, ReadsStructure, Answers, CallFails, Fails, ShowRows,
           ShowWritten, ShowStructure, ShowDialog, ShowSchema, ShowTables, ShowDatabases,
           Accept, Cancel
  <1>2. CASE Step(i, {})
    BY <1>1, <1>2, PlacesQuietly
  <1>3. PICK t : t = tasks[i]
    OBVIOUS
  <1>4. CASE Writes(i)
    <2>1. PICK p, parts, v, c : /\ p = Place(t.driver) /\ parts = Append(t.parts, p)
                                /\ v = version[p] + 1 /\ c = WroteAt(t, parts, v)
      OBVIOUS
    <2>2. /\ Step(i, {c}) /\ i \in DOMAIN tasks /\ t.driver # 0 /\ t.kind = "write"
          /\ v \in Nat
      BY <1>3, <1>4, <2>1, WritesStep DEF WritesTask
    <2>3. t \in TaskSet /\ p \in Spot
      BY <1>3, <2>1, <2>2, TaskTyped, PlaceTyped
    <2>4. parts \in PartSet
      BY <2>1, <2>3, PartsTyped
    <2>5. c = WroteAt(t, parts, v)
      BY <2>1
    <2>6. c.kind = "write"
      BY <2>2, <2>3, <2>4, <2>5, WroteTyped
    <2> QED BY <1>1, <2>2, <2>6, PlacesQuietly
  <1>5. CASE ReadsColumns(i)
    <2>1. PICK p, parts, d, c : /\ p = Named(i) /\ parts = Append(t.parts, p) /\ d = t.driver
                                /\ c = Learnt(t, "show", parts, d)
      OBVIOUS
    <2>2. Step(i, {c}) /\ i \in DOMAIN tasks /\ t.driver # 0 /\ t.kind = "row"
      BY <1>3, <1>5, <2>1, LearnsStep DEF LearnsTask
    <2>3. t \in TaskSet /\ p \in Spot
      BY <1>3, <2>1, <2>2, TaskTyped, PlaceTyped
    <2>4. parts \in PartSet /\ d \in Nat /\ "show" \in Pcs
      BY <2>1, <2>3, PartsTyped DEF TaskSet, Pcs
    <2>5. c = Learnt(t, "show", parts, d)
      BY <2>1
    <2>6. c.kind = "row"
      BY <2>2, <2>3, <2>4, <2>5, LearntTyped
    <2> QED BY <1>1, <2>2, <2>6, PlacesQuietly
  <1>6. CASE ReadsStructure(i)
    <2>1. PICK c : Step(i, {c}) /\ c.kind = "structure"
      BY <1>6, StructureStep
    <2> QED BY <1>1, <2>1, PlacesQuietly
  <1>7. CASE ShowWritten(i)
    <2>1. Step(i, Range(WrittenLoad(i))) /\ Fresh(WrittenLoad(i), {"load"})
      BY <1>7, ShowWrittenStep
    <2> QED BY <1>1, <2>1, SpawnedPlace, PlacesQuietly
  <1>8. CASE ShowDialog(i)
    <2>1. Step(i, {Pc(i, "ask")}) /\ i \in DOMAIN tasks /\ tasks[i].kind = "row"
      BY <1>8, DialogStep
    <2>2. Pc(i, "ask").kind = "row"
      BY <2>1, PcTyped DEF Pcs
    <2> QED BY <1>1, <2>1, <2>2, PlacesQuietly
  <1>9. CASE Accept(i)
    <2>1. Step(i, {WriteTask(i)}) /\ i \in DOMAIN tasks
      BY <1>9, AcceptStep
    <2>2. WriteTask(i).kind = "write"
      BY <2>1, WriteTaskTyped
    <2> QED BY <1>1, <2>1, <2>2, PlacesQuietly
  <1>10. CASE CallFails(i)
    BY <1>2, <1>10, CallFailsStep
  <1>11. CASE ShowRows(i) \/ ShowStructure(i) \/ Cancel(i)
    BY <1>2, <1>11, ShowRowsStep, ShowStructureStep, CancelStep
  <1>12. CASE ShowSchema(i) \/ ShowTables(i) \/ ShowDatabases(i)
    BY <1>2, <1>12, ListsStep
  <1> QED BY <1>4, <1>5, <1>6, <1>7, <1>8, <1>9, <1>10, <1>11, <1>12

\* While no switches overlap, loads and queries are answered from their places.
LEMMA PlacedNext ==
  ASSUME Sound, ~raced => Calm /\ TasksPlaced, Next
  PROVE  ~raced' => TasksPlaced'
  <1> SUFFICES ASSUME ~raced' PROVE TasksPlaced'
    OBVIOUS
  <1>1. Noted
    BY DEF Next, Runtime
  <1>2. Lone(tasks') /\ Calm /\ TasksPlaced
    BY <1>1, NotRaced
  <1>3. CASE User
    <2>1. PICK C : UserStep(C)
      BY <1>3, UserSteps
    <2>2. Step(0, C) /\ UNCHANGED drivers
      BY <2>1 DEF UserStep
    <2>3. \A c \in C : c.pc = "start"
      BY <2>1, UserSpawned
    <2> QED BY <1>2, <2>2, <2>3, PlacesQuietly
  <1>4. ASSUME NEW i \in DOMAIN tasks, Future(i)
        PROVE  TasksPlaced'
    BY <1>2, <1>4, PlacedStarts, PlacedCalls, PlacedLeaves, PlacedDials, PlacedSwaps,
       PlacedNotes, PlacedRuns, PlacedRest DEF Future
  <1>5. ASSUME NEW i \in DOMAIN tasks, Accept(i) \/ Cancel(i)
        PROVE  TasksPlaced'
    BY <1>2, <1>5, PlacedRest
  <1> QED BY <1>3, <1>4, <1>5 DEF Next, Runtime

-----------------------------------------------------------------------------
(* What tabs remember.                                                     *)

\* A tab shows what it showed, and was written what was written; a new one shows
\* nothing.
Recalls(u, v) == v.shown = u.shown /\ v.wrote = u.wrote
Remembers ==
  \A n \in DOMAIN tab' :
    \/ n \in DOMAIN tab /\ Recalls(tab[n], tab'[n])
    \/ n \notin DOMAIN tab /\ tab'[n].shown = NULL /\ tab'[n].wrote = NULL

\* Tabs that are left alone.
LEMMA RemembersAll ==
  ASSUME UNCHANGED tab
  PROVE  Remembers
  BY DEF Remembers, Recalls

\* One that changes.
LEMMA RemembersOne ==
  ASSUME Sound, NEW n \in DOMAIN tab, NEW v, tab' = [tab EXCEPT ![n] = v], Recalls(tab[n], v)
  PROVE  Remembers
  <1>1. DOMAIN tab' = DOMAIN tab /\ tab'[n] = v /\ \A m \in DOMAIN tab \ {n} : tab'[m] = tab[m]
    BY DEF Sound, Typed, WindowTyped
  <1>2. ASSUME NEW m \in DOMAIN tab'
        PROVE  Recalls(tab[m], tab'[m])
    <2>1. CASE m = n
      BY <1>1, <2>1
    <2>2. CASE m # n
      BY <1>1, <2>2 DEF Recalls
    <2> QED BY <2>1, <2>2
  <1> QED BY <1>1, <1>2 DEF Remembers

\* One that is made.
LEMMA RemembersNew ==
  ASSUME Sound, NEW v, tab' = Append(tab, v), v.shown = NULL, v.wrote = NULL
  PROVE  Remembers
  <1>1. /\ tab'[Len(tab) + 1] = v /\ Len(tab) + 1 \notin DOMAIN tab
        /\ \A m \in DOMAIN tab : tab'[m] = tab[m]
        /\ \A m \in DOMAIN tab' : m \in DOMAIN tab \/ m = Len(tab) + 1
    BY DEF Sound, Typed, WindowTyped
  <1> QED BY <1>1 DEF Remembers, Recalls

\* The user changes neither.
LEMMA RemembersUser ==
  ASSUME Sound, User
  PROVE  Remembers
  <1>1. CASE \E c \in Conns, d \in Dbs : focus_or_open_table_tab(c, d)
    <2>1. PICK c \in Conns, d \in Dbs : focus_or_open_table_tab(c, d)
      BY <1>1
    <2>2. PICK u : tab' = Append(tab, u) /\ u.shown = NULL /\ u.wrote = NULL
      BY <2>1, UserOpens
    <2> QED BY <2>2, RemembersNew
  <1>2. CASE \E c \in Conns, d \in Dbs \cup {""} : run_query(c, d)
    <2>1. PICK c \in Conns, d \in Dbs \cup {""} : run_query(c, d)
      BY <1>2
    <2>2. d \in DbSet
      BY DEF DbSet
    <2>3. PICK t, u : QueryShown(t, u)
      BY <2>1, <2>2, UserRuns
    <2>4. CASE tab' = Append(tab, u) /\ u.shown = NULL /\ u.wrote = NULL
      BY <2>4, RemembersNew
    <2>5. CASE /\ t.tab \in DOMAIN tab /\ tab' = [tab EXCEPT ![t.tab] = u]
               /\ u.shown = tab[t.tab].shown /\ u.wrote = tab[t.tab].wrote
      BY <2>5, RemembersOne DEF Recalls
    <2> QED BY <2>3, <2>4, <2>5 DEF QueryShown
  <1>3. CASE \/ \E n \in DOMAIN tab : next_page_for(n) \/ prev_page_for(n) \/ apply_sort_for(n)
             \/ \E i \in DOMAIN tabs : reload_active_data_tab(i)
    <2>1. PICK n, u : Reloads(n, u)
      BY <1>3, UserTurns
    <2>2. PICK v : v = LoadingTab(u, app.id)
      OBVIOUS
    <2>3. tab' = [tab EXCEPT ![n] = v]
      BY <2>1, <2>2, UserReloads
    <2>4. n \in DOMAIN tab /\ u \in TabSet /\ u.shown = tab[n].shown /\ u.wrote = tab[n].wrote
      BY <2>1 DEF Reloads, TurnsTo
    <2>5. v.shown = u.shown /\ v.wrote = u.wrote
      BY <2>2, <2>4, LoadingTyped
    <2> QED BY <2>3, <2>4, <2>5, RemembersOne DEF Recalls
  <1>4. CASE \/ \E c \in Conns : connect_to_selected(c) \/ delete_connection(c) \/ open_dialog(c)
             \/ disconnect_active \/ refresh_schema_tree \/ create_query_tab
             \/ \E c \in Conns, d \in Dbs : load_tables_for(c, d)
             \/ \E n \in DOMAIN tab :
                  \/ load_table_structure_into_tab(n) \/ open_row_editor(n) \/ confirm_delete_row(n)
             \/ \E i \in DOMAIN tabs :
                  \/ close_data_tab(i)
                  \/ \E k \in DOMAIN tabs : reorder(i, k)
    <2>1. UNCHANGED tab
      BY <1>4 DEF connect_to_selected, delete_connection, open_dialog, disconnect_active,
         refresh_schema_tree, create_query_tab, load_tables_for, load_table_structure_into_tab,
         open_row_editor, confirm_delete_row, close_data_tab, reorder, window
    <2> QED BY <2>1, RemembersAll
  <1> QED BY <1>1, <1>2, <1>3, <1>4 DEF User

\* A failure shows an error only.
LEMMA RemembersFailed ==
  ASSUME Sound, NEW i \in DOMAIN tasks, Fails(i)
  PROVE  Remembers
  <1>1. CASE tasks[i].kind \in {"load", "query"}
    <2>1. PICK n, u, v : n = tasks[i].tab /\ u = tab[n] /\ v = Failed(u)
      OBVIOUS
    <2>2. n \in DOMAIN tab /\ u \in TabSet
      BY <1>1, <2>1, TaskTab
    <2>3. tab' = [tab EXCEPT ![n] = v]
      BY <1>1, <2>1, FailedTab
    <2>4. v.shown = u.shown /\ v.wrote = u.wrote
      BY <2>1, <2>2, FailedTyped
    <2>5. Recalls(tab[n], v)
      BY <2>1, <2>4 DEF Recalls
    <2> QED BY <2>2, <2>3, <2>5, RemembersOne
  <1>2. CASE tasks[i].kind \notin {"load", "query"}
    BY <1>2, FailedTab, RemembersAll
  <1> QED BY <1>1, <1>2

\* Only answers of loads, queries and writes change what a tab remembers.
LEMMA RemembersFuture ==
  ASSUME Sound, NEW i \in DOMAIN tasks, Future(i)
  PROVE  Remembers \/ ShowRows(i) \/ ShowWritten(i)
  <1> USE DEF window
  <1>1. CASE Fails(i)
    BY <1>1, RemembersFailed
  <1>2. CASE UNCHANGED tab
    BY <1>2, RemembersAll
  <1>3. CASE StartConnect(i) \/ StartQuery(i)
    BY <1>2, <1>3 DEF StartConnect, StartQuery, Connects
  <1>4. CASE StartLoad(i)
    BY <1>1, <1>2, <1>4 DEF StartLoad
  <1>5. CASE StartCall(i) \/ StartDatabases(i)
    BY <1>1, <1>2, <1>5 DEF StartCall, StartDatabases, Calls
  <1>6. CASE StartDisconnect(i) \/ Leave(i) \/ Dial(i)
    BY <1>2, <1>6 DEF StartDisconnect, Disconnected, Leave, Dial
  <1>7. CASE Swap(i) \/ Note(i)
    BY <1>2, <1>7 DEF Swap, Note
  <1>8. CASE Runs(i) \/ Writes(i) \/ ReadsColumns(i) \/ ReadsStructure(i)
    BY <1>2, <1>8 DEF Runs, Writes, ReadsColumns, ReadsStructure, Answers
  <1>9. CASE CallFails(i)
    BY <1>1, <1>2, <1>9 DEF CallFails
  <1>10. CASE ShowDialog(i) \/ ShowSchema(i) \/ ShowTables(i) \/ ShowDatabases(i)
    BY <1>2, <1>10 DEF ShowDialog, ShowSchema, ShowTables, ShowDatabases
  <1>11. CASE ShowStructure(i)
    <2>1. PICK t, n, u, v : t = tasks[i] /\ n = t.tab /\ u = tab[n] /\ v = LearntTab(u, t)
      OBVIOUS
    <2>2. t.kind = "structure" /\ tab' = [tab EXCEPT ![n] = v]
      BY <1>11, <2>1, ShowStructureStep
    <2>3. t \in TaskSet /\ n \in DOMAIN tab /\ u \in TabSet
      BY <2>1, <2>2, TaskTyped, TaskTab
    <2>4. v.shown = u.shown /\ v.wrote = u.wrote
      <3>1. v = LearntTab(u, t)
        BY <2>1
      <3> QED BY <2>3, <3>1, LearntTabTyped
    <2>5. Recalls(tab[n], v)
      BY <2>1, <2>4 DEF Recalls
    <2> QED BY <2>2, <2>3, <2>5, RemembersOne
  <1> QED BY <1>3, <1>4, <1>5, <1>6, <1>7, <1>8, <1>9, <1>10, <1>11 DEF Future

\* Nor does an answer to a dialog.
LEMMA RemembersDialog ==
  ASSUME NEW i, Accept(i) \/ Cancel(i)
  PROVE  Remembers
  BY RemembersAll DEF Accept, Cancel, window

-----------------------------------------------------------------------------
(* Grids are true.                                                         *)

\* What tabs remember stays where it was from.
LEMMA TabsPlacedOn ==
  ASSUME Sound, TabsPlaced, Remembers, TabGrows
  PROVE  TabsPlaced'
  <1>1. ASSUME NEW n \in DOMAIN tab'
        PROVE  PlaceShown(tab'[n])
    <2>1. PICK v : v = tab'[n]
      OBVIOUS
    <2>2. CASE n \in DOMAIN tab
      <3>1. PICK u : u = tab[n]
        OBVIOUS
      <3>2. v.shown = u.shown /\ v.conn = u.conn /\ PlaceShown(u)
        BY <2>1, <2>2, <3>1 DEF Remembers, Recalls, TabGrows, TabsPlaced
      <3>3. PlaceShown(v)
        BY <3>2 DEF PlaceShown
      <3> QED BY <2>1, <3>3
    <2>3. CASE n \notin DOMAIN tab
      BY <2>3 DEF Remembers, PlaceShown
    <2> QED BY <2>2, <2>3
  <1> QED BY <1>1 DEF TabsPlaced

\* One tab shows something else.
LEMMA TabPlaced ==
  ASSUME Sound, TabsPlaced, NEW n \in DOMAIN tab, NEW v, tab' = [tab EXCEPT ![n] = v],
         PlaceShown(v)
  PROVE  TabsPlaced'
  <1>1. DOMAIN tab' = DOMAIN tab /\ tab'[n] = v /\ \A m \in DOMAIN tab \ {n} : tab'[m] = tab[m]
    BY DEF Sound, Typed, WindowTyped
  <1>2. ASSUME NEW m \in DOMAIN tab'
        PROVE  PlaceShown(tab'[m])
    <2>1. CASE m = n
      BY <1>1, <2>1
    <2>2. CASE m # n
      BY <1>1, <2>2 DEF TabsPlaced
    <2> QED BY <2>1, <2>2
  <1> QED BY <1>2 DEF TabsPlaced

\* Rows that are shown are from where their load was.
LEMMA RowsPlaced ==
  ASSUME Sound, TasksPlaced, TabsPlaced, NEW i, ShowRows(i)
  PROVE  TabsPlaced'
  <1>1. PICK t, n, u, v : t = tasks[i] /\ n = t.tab /\ u = tab[n] /\ v = ShownTab(u, t)
    OBVIOUS
  <1>2. /\ i \in DOMAIN tasks /\ t.pc = "show" /\ t.kind \in {"load", "query"}
        /\ tab' = [tab EXCEPT ![n] = v]
    BY <1>1, ShowRowsStep
  <1>3. /\ t \in TaskSet /\ n \in DOMAIN tab /\ u \in TabSet
        /\ (t.kind = "query") <=> (u.conn = NULL)
    BY <1>1, <1>2, TaskTyped, TaskTab
  <1>4. PlaceFits(t)
    BY <1>1, <1>2 DEF TasksPlaced
  <1>5. v.conn = u.conn /\ v.shown = Shown(t)
    <2>1. v = ShownTab(u, t)
      BY <1>1
    <2> QED BY <1>3, <2>1, ShownTabTyped
  <1>6. /\ Shown(t).conn = t.conn /\ Shown(t).db = t.db /\ Shown(t).id = t.id
        /\ Shown(t).from = t.from
    BY DEF Shown
  <1>7. PlaceShown(v)
    BY <1>2, <1>3, <1>4, <1>5, <1>6 DEF PlaceFits, PlaceShown
  <1> QED BY <1>2, <1>3, <1>7, TabPlaced

\* A tab that a write is noted in shows what it did.
LEMMA WrittenPlaced ==
  ASSUME Sound, TabsPlaced, NEW i, ShowWritten(i)
  PROVE  TabsPlaced'
  <1>1. PICK t, n, u, w, v : /\ t = tasks[i] /\ n = t.tab /\ u = tab[n]
                             /\ w = WroteTab(u, t) /\ v = LoadingTab(w, app.id)
    OBVIOUS
  <1>2. i \in DOMAIN tasks /\ t.kind = "write" /\ tab' = [tab EXCEPT ![n] = v]
    BY <1>1, ShowWrittenStep DEF WrittenTab
  <1>3. t \in TaskSet /\ n \in DOMAIN tab /\ u \in TabSet
    BY <1>1, <1>2, TaskTyped, TaskTab
  <1>4. w \in TabSet /\ w.conn = u.conn /\ w.shown = u.shown
    <2>1. w = WroteTab(u, t)
      BY <1>1
    <2> QED BY <1>3, <2>1, WroteTabTyped
  <1>5. v.conn = w.conn /\ v.shown = w.shown
    <2>1. v = LoadingTab(w, app.id)
      BY <1>1
    <2> QED BY <1>4, <2>1, LoadingTyped
  <1>6. PlaceShown(u)
    BY <1>1, <1>3 DEF TabsPlaced
  <1>7. PlaceShown(v)
    BY <1>4, <1>5, <1>6 DEF PlaceShown
  <1> QED BY <1>2, <1>3, <1>7, TabPlaced

\* While no switches overlap, tabs show what is from their places.
LEMMA TabsPlacedNext ==
  ASSUME Sound, ~raced => Calm /\ TasksPlaced /\ TabsPlaced, Next
  PROVE  ~raced' => TabsPlaced'
  <1> SUFFICES ASSUME ~raced' PROVE TabsPlaced'
    OBVIOUS
  <1>1. Noted
    BY DEF Next, Runtime
  <1>2. TasksPlaced /\ TabsPlaced
    BY <1>1, NotRaced
  <1>3. TabGrows
    BY NextSteps DEF Step, Grows
  <1>4. CASE User
    BY <1>2, <1>3, <1>4, RemembersUser, TabsPlacedOn
  <1>5. ASSUME NEW i \in DOMAIN tasks, Future(i)
        PROVE  TabsPlaced'
    BY <1>2, <1>3, <1>5, RemembersFuture, TabsPlacedOn, RowsPlaced, WrittenPlaced
  <1>6. ASSUME NEW i \in DOMAIN tasks, Accept(i) \/ Cancel(i)
        PROVE  TabsPlaced'
    BY <1>2, <1>3, <1>6, RemembersDialog, TabsPlacedOn
  <1> QED BY <1>4, <1>5, <1>6 DEF Next, Runtime

\* When the program is started there are none.
LEMMA PlacedAtFirst ==
  ASSUME Init
  PROVE  TasksPlaced /\ TabsPlaced
  <1>1. tab = <<>> /\ tasks = DatabasesTask(NoApp)
    BY DEF Init
  <1>2. \A i \in DOMAIN tasks : tasks[i].kind = "databases"
    BY <1>1, NoAppTyped, DatabasesSpawned DEF Spawns
  <1>3. \A i \in DOMAIN tasks : PlaceFits(tasks[i])
    BY <1>2 DEF PlaceFits
  <1>4. DOMAIN tab = {}
    BY <1>1
  <1> QED BY <1>3, <1>4 DEF TasksPlaced, TabsPlaced

GridInv ==
  /\ Sound /\ ShowsTrue
  /\ ~raced => Calm /\ TasksPlaced /\ TabsPlaced

\* When the program is started.
LEMMA GridInit == Init => GridInv
  <1> SUFFICES ASSUME Init PROVE GridInv
    OBVIOUS
  <1> QED BY InitSound, ShowsAtFirst, CalmAtFirst, PlacedAtFirst DEF GridInv

\* Nothing changes.
LEMMA GridStutters ==
  ASSUME GridInv, UNCHANGED vars
  PROVE  GridInv'
  <1>1. Sound'
    BY Stutters DEF GridInv
  <1>2. UNCHANGED <<app, drivers, tasks, tab, version, raced>>
    BY DEF vars, window
  <1>3. ShowsTrue'
    BY <1>2 DEF GridInv, ShowsTrue, TaskFits, WriteFits, TabFits, WrittenFits, LoadingIsLoaded,
       LoadFits, RowsFit
  <1>4. Calm' = Calm
    BY <1>2 DEF Calm, Lone, Knows, NoteTrue, Listing
  <1>5. TasksPlaced' = TasksPlaced /\ TabsPlaced' = TabsPlaced
    BY <1>2 DEF TasksPlaced, PlaceFits, TabsPlaced, PlaceShown
  <1> QED BY <1>1, <1>2, <1>3, <1>4, <1>5, Zenon DEF GridInv

\* After every step.
LEMMA GridNext == GridInv /\ [Next]_vars => GridInv'
  <1> SUFFICES ASSUME GridInv, [Next]_vars PROVE GridInv'
    OBVIOUS
  <1>1. CASE UNCHANGED vars
    BY <1>1, GridStutters
  <1>2. CASE Next
    <2>1. Sound'
      BY <1>2, NextSteps, StepIsSound DEF GridInv
    <2>2. ShowsTrue'
      BY <1>2, ShowsNext DEF GridInv
    <2>3. ~raced' => Calm'
      BY <1>2, CalmNext DEF GridInv
    <2>4. ~raced' => TasksPlaced'
      BY <1>2, PlacedNext DEF GridInv
    <2>5. ~raced' => TabsPlaced'
      BY <1>2, TabsPlacedNext DEF GridInv
    <2> QED BY <2>1, <2>2, <2>3, <2>4, <2>5 DEF GridInv
  <1> QED BY <1>1, <1>2

\* In every state of every behaviour.
LEMMA GridAlways == Spec => []GridInv
  BY GridInit, GridNext, PTL DEF Spec

\* From which all that is said of grids follows.
LEMMA GridHolds ==
  ASSUME GridInv
  PROVE  GridIsTrue
  <1>1. Sound /\ ShowsTrue /\ (~raced => TabsPlaced)
    BY DEF GridInv
  <1>2. ASSUME NEW n \in DOMAIN tab, NEW u, u = tab[n]
        PROVE  u \in TabSet /\ WrittenFits(u) /\ RowsFit(u) /\ (~raced => PlaceShown(u))
    BY <1>1, <1>2 DEF Sound, Typed, WindowTyped, ShowsTrue, TabFits, TabsPlaced
  <1>3. ShowsItsPage
    <2> SUFFICES ASSUME NEW n \in DOMAIN tab, IsTable(n), tab[n].grid = "rows",
                        tab[n].shown.nr = tab[n].nr
                 PROVE  tab[n].shown.page = tab[n].page /\ tab[n].shown.sort = tab[n].sort
      BY DEF ShowsItsPage
    <2> QED BY <1>2 DEF RowsFit, IsTable
  <1>4. ShowsItsPlace
    <2> SUFFICES ASSUME NEW n \in DOMAIN tab, ~raced, tab[n].shown # NULL
                 PROVE  /\ IF IsTable(n) THEN tab[n].shown.id \in {NULL, tab[n].shown.from[1]}
                           ELSE tab[n].shown.from[1] = tab[n].shown.conn
                        /\ tab[n].shown.db # "" => tab[n].shown.from[2] = tab[n].shown.db
      BY DEF ShowsItsPlace
    <2> QED BY <1>2 DEF PlaceShown, IsTable
  <1>5. ShowsItsWrite
    <2> SUFFICES ASSUME NEW n \in DOMAIN tab, tab[n].grid = "rows", tab[n].wrote # NULL,
                        tab[n].shown.nr = tab[n].nr,
                        tab[n].shown.from = tab[n].wrote.parts[2]
                 PROVE  tab[n].shown.version >= tab[n].wrote.version
      BY DEF ShowsItsWrite
    <2>1. tab[n].conn # NULL
      BY <1>2 DEF WrittenFits
    <2> QED BY <1>2, <2>1 DEF RowsFit
  <1>6. LoadingIsLoaded
    BY <1>1 DEF ShowsTrue
  <1> QED BY <1>3, <1>4, <1>5, <1>6 DEF GridIsTrue

\* Whatever operations overlap, what a grid shows is the answer of its own last
\* operation: a grid that loads has one under way; the page, the order and the
\* writes are those of its tab; and unless switches overlapped, rows are from the
\* session the load began in and the database asked for (data_tabs.rs
\* load_table_data_into_tab, query.rs run_query).
THEOREM GridTrue == Spec => []GridIsTrue
  BY GridAlways, GridHolds, PTL

-----------------------------------------------------------------------------
(* What a write is aimed at.                                               *)

\* What may switch the session, and what may be disturbed by it.
Movers == {"connect", "disconnect", "load", "query"}
Actors == Movers \cup {"row", "write"}

\* What a catalog read of a place is about, for a tab of database d.
Target(place, d) == IF place[1] \in ByName THEN <<place[1], d>> ELSE place

\* A dialog, from when its columns are read, and a write until it is made.
Aiming(t) ==
  \/ t.kind = "row" /\ t.pc \in {"run", "show", "ask"}
  \/ t.kind = "write" /\ t.pc \in {"start", "run"}

\* Its columns are those of the table that the active session has for its tab.
AimFits(t) ==
  /\ t.kind = "row" => t.db = tab[t.tab].db
  /\ Aiming(t) =>
       /\ app.driver # 0
       /\ t.pc = "run" => t.driver = app.driver
       /\ ~(t.kind = "row" /\ t.pc = "run") =>
            t.parts[1] = Target(Place(app.driver), tab[t.tab].db)
  /\ (t.kind = "write" /\ t.pc = "show") => t.parts[1] = Target(t.parts[2], tab[t.tab].db)

\* So was what a tab was written.
AimWrote(u) == u.wrote # NULL => u.wrote.parts[1] = Target(u.wrote.parts[2], u.db)

\* While a dialog is open nothing is under way that may switch the session.
Sole ==
  \A i, j \in DOMAIN tasks : i # j /\ tasks[i].pc = "ask" => tasks[j].kind \notin Actors

\* Nor before a write that it spawned.
Before ==
  \A i, j \in DOMAIN tasks :
    j < i /\ tasks[i].kind = "write" /\ tasks[i].pc = "start" => tasks[j].kind \notin Movers

TasksAimed == \A i \in DOMAIN tasks : AimFits(tasks[i])
TabsAimed == \A n \in DOMAIN tab : AimWrote(tab[n])
Aimed == Sole /\ Before /\ TasksAimed

AimStays == app'.driver = app.driver /\ UNCHANGED drivers

\* None is aiming while another may switch the session.
LEMMA NoneAims ==
  ASSUME Sound, Aimed, Lone(tasks), Lone(tasks'), NEW i \in DOMAIN tasks, tasks[i].kind \in Movers,
         Earlier(i), NEW C, Turns(i, C), Switching(tasks[i]) \/ \E c \in C : Switching(c)
  PROVE  \A k \in DOMAIN tasks \ {i} : ~Aiming(tasks[k])
  <1> SUFFICES ASSUME NEW k \in DOMAIN tasks \ {i}, Aiming(tasks[k]) PROVE FALSE
    OBVIOUS
  <1>1. ~Using(tasks[k])
    BY OthersBefore, OthersAfter
  <1>2. CASE tasks[k].pc = "ask"
    BY <1>2 DEF Aimed, Sole, Actors
  <1>3. CASE tasks[k].kind = "write" /\ tasks[k].pc = "start"
    <2>1. k \in Nat /\ i \in Nat
      BY DEF Sound, Tasks
    <2>2. ~(k < i)
      BY <1>3 DEF Earlier
    <2>3. i < k
      BY <2>1, <2>2
    <2> QED BY <1>3, <2>3 DEF Aimed, Before
  <1> QED BY <1>1, <1>2, <1>3 DEF Aiming, Using

\* A future fits while the session stays, or if it does not aim.
LEMMA AimFitsOn ==
  ASSUME NEW t, AimFits(t), Concerns(t), TabGrows, AimStays \/ ~Aiming(t)
  PROVE  AimFits(t)'
  <1>1. CASE t.kind \in {"row", "write"}
    <2>1. PICK d : d = tab[t.tab].db
      OBVIOUS
    <2>2. tab'[t.tab].db = d
      BY <1>1, <2>1 DEF Concerns, TabGrows
    <2>3. t.kind = "row" => t.db = d
      BY <2>1 DEF AimFits
    <2>4. (t.kind = "write" /\ t.pc = "show") => t.parts[1] = Target(t.parts[2], d)
      BY <2>1 DEF AimFits
    <2>5. CASE Aiming(t)
      <3>1. PICK a, p : a = app.driver /\ p = Place(a)
        OBVIOUS
      <3>2. app'.driver = a /\ drivers' = drivers
        BY <2>5, <3>1 DEF AimStays
      <3>3. /\ a # 0
            /\ t.pc = "run" => t.driver = a
            /\ ~(t.kind = "row" /\ t.pc = "run") => t.parts[1] = Target(p, d)
        BY <2>1, <2>5, <3>1 DEF AimFits
      <3>4. Place(app.driver)' = p
        BY <3>1, <3>2 DEF Place
      <3> QED BY <2>2, <2>3, <2>4, <3>2, <3>3, <3>4 DEF AimFits, Aiming
    <2>6. CASE ~Aiming(t)
      BY <2>2, <2>3, <2>4, <2>6 DEF AimFits, Aiming
    <2> QED BY <2>5, <2>6
  <1>2. CASE t.kind \notin {"row", "write"}
    BY <1>2 DEF AimFits, Aiming
  <1> QED BY <1>1, <1>2

\* All futures fit if those that changed do.
LEMMA TasksAimedOn ==
  ASSUME Sound, TasksAimed, NEW i, NEW C, Step(i, C), \A c \in C : AimFits(c)',
         AimStays \/ \A k \in DOMAIN tasks \ {i} : ~Aiming(tasks[k])
  PROVE  TasksAimed'
  <1>1. Turns(i, C) /\ TabGrows
    BY DEF Step, Grows
  <1>2. ASSUME NEW j \in DOMAIN tasks'
        PROVE  AimFits(tasks[j])'
    <2>1. PICK t : t = tasks'[j]
      OBVIOUS
    <2>2. CASE t \in C
      BY <2>1, <2>2
    <2>3. CASE \E k \in DOMAIN tasks \ {i} : t = tasks[k]
      <3>1. PICK k \in DOMAIN tasks \ {i} : t = tasks[k]
        BY <2>3
      <3>2. AimFits(t) /\ (AimStays \/ ~Aiming(t)) /\ Concerns(t)
        BY <3>1, TaskTyped DEF TasksAimed
      <3>3. AimFits(t)'
        BY <1>1, <3>2, AimFitsOn
      <3> QED BY <2>1, <3>3
    <2> QED BY <1>1, <2>1, <2>2, <2>3 DEF Turns
  <1> QED BY <1>2 DEF TasksAimed

\* None is spawned before a write that is to begin.
LEMMA BeforeOn ==
  ASSUME Sound, Before, NEW i, NEW C, Step(i, C),
         \A c \in C : /\ c.pc = "start" => c.kind # "write"
                      /\ c.pc # "start" => i \in DOMAIN tasks /\ c.kind = tasks[i].kind
  PROVE  Before'
  <1>1. PICK f : Comes(f, i, C)
    BY DEF Step, Turns
  <1> SUFFICES ASSUME NEW l \in DOMAIN tasks', NEW j \in DOMAIN tasks', j < l,
                      tasks'[l].kind = "write", tasks'[l].pc = "start"
               PROVE  tasks'[j].kind \notin Movers
    BY DEF Before
  <1>2. PICK m, k : m = f[j] /\ k = f[l]
    OBVIOUS
  <1>3. m < k
    BY <1>1, <1>2 DEF Comes
  <1>4. k \in DOMAIN tasks \ {i} /\ tasks'[l] = tasks[k]
    BY <1>1, <1>2 DEF Comes
  <1>5. \/ m \in DOMAIN tasks \ {i} /\ tasks'[j] = tasks[m]
        \/ m = i /\ i \in DOMAIN tasks /\ tasks'[j] \in C /\ tasks'[j].pc # "start"
        \/ m > Len(tasks)
    BY <1>1, <1>2 DEF Comes
  <1>6. ~(m > Len(tasks))
    <2>1. k \in 1 .. Len(tasks) /\ Len(tasks) \in Nat
      BY <1>4 DEF Sound, Tasks
    <2>2. m \in Nat
      BY <1>1, <1>2 DEF Comes
    <2> QED BY <1>3, <2>1, <2>2
  <1>7. m \in DOMAIN tasks /\ tasks'[j].kind = tasks[m].kind
    BY <1>5, <1>6
  <1> QED BY <1>3, <1>4, <1>7 DEF Before

\* An open dialog stays the only one.
LEMMA SoleOn ==
  ASSUME Sound, Sole, NEW i, NEW C, Step(i, C), \A c \in C : c.pc # "ask",
         \/ ~Dialog
         \/ i \in DOMAIN tasks /\ tasks[i].kind \in Actors
         \/ \A c \in C : c.kind \notin Actors
  PROVE  Sole'
  <1>1. PICK f : Comes(f, i, C)
    BY DEF Step, Turns
  <1> SUFFICES ASSUME NEW l \in DOMAIN tasks', NEW j \in DOMAIN tasks', l # j,
                      tasks'[l].pc = "ask"
               PROVE  tasks'[j].kind \notin Actors
    BY DEF Sole
  <1>2. PICK m, k : m = f[j] /\ k = f[l]
    OBVIOUS
  <1>3. k \in DOMAIN tasks \ {i} /\ tasks[k].pc = "ask"
    BY <1>1, <1>2 DEF Comes
  <1>4. m # k
    <2>1. m \in Nat /\ k \in Nat /\ j \in Nat /\ l \in Nat
      <3>1. DOMAIN tasks' \subseteq Nat
        BY DEF Step, Turns
      <3> QED BY <1>1, <1>2, <3>1 DEF Comes
    <2>2. (j < l => m < k) /\ (l < j => k < m)
      BY <1>1, <1>2 DEF Comes
    <2> QED BY <2>1, <2>2
  <1>5. Dialog
    BY <1>3 DEF Dialog
  <1>6. i \in DOMAIN tasks => tasks[i].kind \notin Actors
    BY <1>3 DEF Sole
  <1>7. \A c \in C : c.kind \notin Actors
    BY <1>5, <1>6
  <1>8. \/ m \in DOMAIN tasks \ {i} /\ tasks'[j] = tasks[m]
        \/ tasks'[j] \in C
    BY <1>1, <1>2 DEF Comes
  <1> QED BY <1>3, <1>4, <1>7, <1>8 DEF Sole

\* A step that opens no dialog and accepts none.
LEMMA AimedOn ==
  ASSUME Sound, Aimed, NEW i, NEW C, Step(i, C), \A c \in C : AimFits(c)',
         AimStays \/ \A k \in DOMAIN tasks \ {i} : ~Aiming(tasks[k]),
         \A c \in C : /\ c.pc # "ask" /\ (c.pc = "start" => c.kind # "write")
                      /\ c.pc # "start" => i \in DOMAIN tasks /\ c.kind = tasks[i].kind,
         \/ ~Dialog
         \/ i \in DOMAIN tasks /\ tasks[i].kind \in Actors
         \/ \A c \in C : c.kind \notin Actors
  PROVE  Aimed'
  <1>1. TasksAimed'
    BY TasksAimedOn DEF Aimed
  <1>2. Before'
    BY BeforeOn DEF Aimed
  <1>3. Sole'
    BY SoleOn DEF Aimed
  <1> QED BY <1>1, <1>2, <1>3 DEF Aimed

\* Most futures aim at nothing.
LEMMA AimsAtNothing ==
  ASSUME NEW u, u.kind \notin {"row", "write"}
  PROVE  AimFits(u)'
  BY DEF AimFits, Aiming

\* A future goes on, and may spawn lists.
LEMMA AimedGoes ==
  ASSUME Sound, Aimed, NEW i \in DOMAIN tasks, NEW C, Step(i, C), NEW c \in C,
         c.kind = tasks[i].kind, c.pc \notin {"start", "ask"}, AimFits(c)',
         \A x \in C : x = c \/ (x.pc = "start" /\ x.kind \notin Actors),
         AimStays \/ \A k \in DOMAIN tasks \ {i} : ~Aiming(tasks[k])
  PROVE  Aimed'
  <1>1. ASSUME NEW x \in C
        PROVE  AimFits(x)'
    <2>1. CASE x = c
      BY <2>1
    <2>2. CASE x.kind \notin Actors
      <3>1. x.kind \notin {"row", "write"}
        BY <2>2 DEF Actors
      <3> QED BY <3>1, AimsAtNothing
    <2> QED BY <2>1, <2>2
  <1>2. \A x \in C : /\ x.pc # "ask" /\ (x.pc = "start" => x.kind # "write")
                     /\ x.pc # "start" => i \in DOMAIN tasks /\ x.kind = tasks[i].kind
    BY DEF Actors
  <1>3. (i \in DOMAIN tasks /\ tasks[i].kind \in Actors) \/ \A x \in C : x.kind \notin Actors
    OBVIOUS
  <1> QED BY <1>1, <1>2, <1>3, AimedOn

\* A future ends, and may spawn lists.
LEMMA AimedEnds ==
  ASSUME Sound, Aimed, NEW i, NEW C, Step(i, C),
         \A x \in C : x.pc = "start" /\ x.kind \notin Actors,
         AimStays \/ \A k \in DOMAIN tasks \ {i} : ~Aiming(tasks[k])
  PROVE  Aimed'
  <1>1. ASSUME NEW x \in C
        PROVE  AimFits(x)'
    <2>1. x.kind \notin {"row", "write"}
      BY DEF Actors
    <2> QED BY <2>1, AimsAtNothing
  <1>2. \A x \in C : /\ x.pc # "ask" /\ (x.pc = "start" => x.kind # "write")
                     /\ x.pc # "start" => i \in DOMAIN tasks /\ x.kind = tasks[i].kind
    BY DEF Actors
  <1> QED BY <1>1, <1>2, AimedOn

\* Lists that are spawned.
LEMMA ListsIdle ==
  ASSUME NEW new, NEW kinds, Fresh(new, kinds), kinds \cap Actors = {}
  PROVE  \A x \in Range(new) : x.pc = "start" /\ x.kind \notin Actors
  BY DEF Fresh

\* A session that is not touched stays aimed at.
LEMMA AimUnchanged ==
  ASSUME UNCHANGED <<app, drivers>>
  PROVE  AimStays
  BY DEF AimStays

\* None aims when there is no session.
LEMMA NoAim ==
  ASSUME TasksAimed, app.driver = 0
  PROVE  \A k \in DOMAIN tasks : ~Aiming(tasks[k])
  BY DEF TasksAimed, AimFits

\* A failure.
LEMMA AimedFails ==
  ASSUME Sound, Aimed, NEW i \in DOMAIN tasks, Fails(i)
  PROVE  Aimed'
  <1>1. Step(i, {}) /\ UNCHANGED <<app, drivers>>
    BY FailsStep DEF Fails
  <1> QED BY <1>1, AimUnchanged, AimedEnds

\* The user spawns what aims at nothing yet, and not from an open dialog.
LEMMA AimedUser ==
  ASSUME Sound, Aimed, User
  PROVE  Aimed'
  <1>1. ~Dialog
    BY DEF User, Does, connect_to_selected, delete_connection, open_dialog, disconnect_active,
       refresh_schema_tree, create_query_tab, load_tables_for, focus_or_open_table_tab, run_query,
       next_page_for, prev_page_for, apply_sort_for, load_table_structure_into_tab,
       open_row_editor, confirm_delete_row, reload_active_data_tab, close_data_tab, reorder
  <1>2. ASSUME NEW C, UserStep(C), \A c \in C : c.kind = "row" => c.db = tab'[c.tab].db
        PROVE  Aimed'
    <2>1. \A c \in C : c.pc = "start" /\ c.kind # "write"
      BY <1>2, UserSpawned
    <2>2. \A c \in C : AimFits(c)'
      BY <1>2, <2>1 DEF AimFits, Aiming
    <2>3. AimStays /\ Step(0, C)
      BY <1>2 DEF AimStays, UserStep
    <2>4. \A c \in C : /\ c.pc # "ask" /\ (c.pc = "start" => c.kind # "write")
                       /\ c.pc # "start" => 0 \in DOMAIN tasks /\ c.kind = tasks[0].kind
      BY <2>1
    <2> QED BY <1>1, <2>2, <2>3, <2>4, AimedOn
  <1>3. CASE \/ \E c \in Conns : connect_to_selected(c)
             \/ disconnect_active
             \/ \E c \in Conns, d \in Dbs : load_tables_for(c, d)
    <2>1. PICK t : UserStep({t}) /\ t.kind \in {"connect", "disconnect", "tables"}
      BY <1>3, UserConnects
    <2> QED BY <1>2, <2>1
  <1>4. CASE \/ \E c \in Conns : delete_connection(c) \/ open_dialog(c)
             \/ refresh_schema_tree
    <2>1. PICK C : UserStep(C) /\ \A t \in C : t.kind = "schema"
      BY <1>4, UserRedraws
    <2> QED BY <1>2, <2>1
  <1>5. CASE create_query_tab
    <2>1. PICK C : UserStep(C) /\ \A t \in C : t.kind = "databases"
      BY <1>5, UserEdits
    <2> QED BY <1>2, <2>1
  <1>6. CASE \E c \in Conns, d \in Dbs : focus_or_open_table_tab(c, d)
    <2>1. PICK C : UserStep(C) /\ \A t \in C : t.kind = "load"
      BY <1>6, UserOpens
    <2> QED BY <1>2, <2>1
  <1>7. CASE \E c \in Conns, d \in Dbs \cup {""} : run_query(c, d)
    <2>1. PICK c \in Conns, d \in Dbs \cup {""} : run_query(c, d)
      BY <1>7
    <2>2. d \in DbSet
      BY DEF DbSet
    <2>3. PICK t : UserStep({t}) /\ t.kind = "query"
      BY <2>1, <2>2, UserRuns
    <2> QED BY <1>2, <2>3
  <1>8. CASE \/ \E n \in DOMAIN tab : next_page_for(n) \/ prev_page_for(n) \/ apply_sort_for(n)
             \/ \E i \in DOMAIN tabs : reload_active_data_tab(i)
    <2>1. PICK n, u : Reloads(n, u)
      BY <1>8, UserTurns
    <2>2. UserStep(Range(LoadTask(n, u))) /\ Fresh(LoadTask(n, u), {"load"})
      BY <2>1, UserReloads
    <2>3. \A t \in Range(LoadTask(n, u)) : t.kind = "load"
      BY <2>2 DEF Fresh
    <2> QED BY <1>2, <2>2, <2>3
  <1>9. CASE \E n \in DOMAIN tab : \/ load_table_structure_into_tab(n) \/ open_row_editor(n)
                                   \/ confirm_delete_row(n)
    <2>1. PICK n \in DOMAIN tab : load_table_structure_into_tab(n) \/ open_row_editor(n)
      BY <1>9 DEF confirm_delete_row
    <2>2. PICK t : UserStep({t}) /\ t.tab = n /\ t.db = tab[n].db
      BY <2>1, UserAsks
    <2>3. UNCHANGED tab
      BY <2>1, UserAsks
    <2>4. t.db = tab'[t.tab].db
      BY <2>2, <2>3
    <2> QED BY <1>2, <2>2, <2>4
  <1>10. CASE \E i \in DOMAIN tabs : \/ close_data_tab(i)
                                     \/ \E k \in DOMAIN tabs : reorder(i, k)
    <2>1. UserStep({})
      BY <1>10, UserCloses
    <2> QED BY <1>2, <2>1
  <1> QED BY <1>3, <1>4, <1>5, <1>6, <1>7, <1>8, <1>9, <1>10 DEF User

\* A connect, a query or a load begins.
LEMMA AimedStarts ==
  ASSUME Sound, Aimed, NEW i, Lone(tasks), Lone(tasks'),
         StartConnect(i) \/ StartQuery(i) \/ StartLoad(i)
  PROVE  Aimed'
  <1>1. i \in DOMAIN tasks /\ tasks[i].pc = "start" /\ Earlier(i)
        /\ tasks[i].kind \in {"connect", "query", "load"}
    BY StartsEarlier DEF StartConnect, StartQuery, StartLoad
  <1>2. PICK t, a : t = tasks[i] /\ a = app
    OBVIOUS
  <1>3. t \in TaskSet /\ a \in AppSet
    BY <1>1, <1>2, TaskTyped, AppTyped DEF Sound
  <1>4. CASE Connects(i) /\ Step(i, {Dropping(i)})
    <2>1. PICK pc, d, c : pc = (IF app.driver = 0 THEN "dial" ELSE "leave") /\ d = app.driver
                          /\ c = AtWait(t, pc, d)
      OBVIOUS
    <2>2. pc \in Pcs /\ d \in Nat /\ pc \in {"leave", "dial"}
      BY <2>1, AppTyped DEF Sound, Pcs
    <2>3. c.pc = pc /\ c.kind = t.kind
      BY <1>3, <2>1, <2>2, AtWaitTyped
    <2>4. Step(i, {c}) /\ Turns(i, {c})
      BY <1>2, <1>4, <2>1 DEF Dropping, Step
    <2>5. Switching(c) /\ c \in {c} /\ tasks[i].kind \in Movers
      BY <1>1, <2>2, <2>3 DEF Switching, Movers
    <2>6. \A k \in DOMAIN tasks \ {i} : ~Aiming(tasks[k])
      BY <1>1, <2>4, <2>5, NoneAims
    <2>7. AimFits(c)' /\ c.kind = tasks[i].kind /\ c.pc \notin {"start", "ask"}
      BY <1>1, <1>2, <2>2, <2>3, AimsAtNothing
    <2> QED BY <1>1, <2>4, <2>6, <2>7, AimedGoes
  <1>5. ASSUME NEW c, Step(i, {c}), UNCHANGED <<app, drivers>>, c.kind = t.kind,
               c.pc \in {"run", "swap"}
        PROVE  Aimed'
    <2>1. AimFits(c)' /\ c.kind = tasks[i].kind /\ c.pc \notin {"start", "ask"}
      BY <1>1, <1>2, <1>5, AimsAtNothing
    <2> QED BY <1>1, <1>5, <2>1, AimUnchanged, AimedGoes
  <1>6. CASE Step(i, {Work(t, app)}) /\ UNCHANGED <<app, drivers>>
    <2>1. PICK c : c = Work(t, a)
      OBVIOUS
    <2>2. c.kind = t.kind /\ c.pc \in {"run", "swap"}
      BY <1>3, <2>1, WorkTyped
    <2>3. Step(i, {c})
      BY <1>2, <1>6, <2>1
    <2> QED BY <1>5, <1>6, <2>2, <2>3
  <1>7. CASE t.kind = "load" /\ Step(i, {LoadWork(i)}) /\ UNCHANGED <<app, drivers>>
    <2>1. PICK n, u, w, c : n = t.tab /\ u = tab[n] /\ w = Work(t, a)
                            /\ c = Paged(w, u.page, u.sort)
      OBVIOUS
    <2>2. w \in TaskSet /\ w.kind = t.kind /\ w.pc \in {"run", "swap"}
      BY <1>3, <2>1, WorkTyped
    <2>3. u.page \in 0 .. MaxPage /\ u.sort \in BOOLEAN
      BY <1>1, <1>2, <1>7, <2>1, TaskTab
    <2>4. c.kind = t.kind /\ c.pc \in {"run", "swap"}
      BY <2>1, <2>2, <2>3, PageTyped
    <2>5. Step(i, {c})
      BY <1>2, <1>7, <2>1 DEF LoadWork, Paged
    <2> QED BY <1>5, <1>7, <2>4, <2>5
  <1>8. CASE StartConnect(i)
    BY <1>4, <1>8, ConnectsStep DEF StartConnect
  <1>9. CASE StartQuery(i)
    BY <1>2, <1>4, <1>6, <1>9, StartQueryStep
  <1>10. CASE StartLoad(i)
    <2>1. t.kind = "load"
      BY <1>2, <1>10 DEF StartLoad, Starts
    <2> QED BY <1>1, <1>7, <1>10, <2>1, StartLoadStep, AimedFails
  <1> QED BY <1>8, <1>9, <1>10

\* What is aimed at stays where nothing it depends on changes.
LEMMA AimFitsSame ==
  ASSUME NEW c, AimFits(c), UNCHANGED <<app, drivers, tab>>
  PROVE  AimFits(c)'
  <1>1. Place(app.driver)' = Place(app.driver)
    BY DEF Place
  <1> QED BY <1>1 DEF AimFits, Aiming

\* Every future fits.
LEMMA TaskAims ==
  ASSUME Aimed, NEW i \in DOMAIN tasks
  PROVE  AimFits(tasks[i])
  BY DEF Aimed, TasksAimed

\* A call begins with the driver that is active.
LEMMA AimedCalls ==
  ASSUME Sound, Aimed, NEW i, StartCall(i) \/ StartDatabases(i)
  PROVE  Aimed'
  <1>1. CASE Fails(i) /\ i \in DOMAIN tasks
    BY <1>1, AimedFails
  <1>2. CASE \E c : CallsTo(i, c)
    <2>1. PICK c, t, d : CallsTo(i, c) /\ t = tasks[i] /\ d = app.driver
      BY <1>2
    <2>2. /\ i \in DOMAIN tasks /\ Step(i, {c}) /\ t.pc = "start" /\ c.kind = t.kind
          /\ c.tab = t.tab /\ c.parts = t.parts /\ c.pc = "run" /\ c.driver = d /\ d # 0
          /\ c.kind # "schema" => c.db = t.db
      BY <2>1 DEF CallsTo
    <2>3. UNCHANGED <<app, drivers, tab>>
      BY <2>1 DEF CallsTo, window
    <2>4. AimFits(t)
      BY <2>1, <2>2, TaskAims
    <2>5. AimFits(c)
      BY <2>1, <2>2, <2>4 DEF AimFits, Aiming
    <2>6. AimFits(c)'
      BY <2>3, <2>5, AimFitsSame
    <2>7. c.kind = tasks[i].kind /\ c.pc \notin {"start", "ask"} /\ i \in DOMAIN tasks
      BY <2>1, <2>2
    <2>8. AimStays
      BY <2>3, AimUnchanged
    <2> QED BY <2>2, <2>6, <2>7, <2>8, AimedGoes
  <1> QED BY <1>1, <1>2, StartCallStep

\* A session is left: none aims at it.
LEMMA AimedLeaves ==
  ASSUME Sound, Calm, Aimed, NEW i, StartDisconnect(i) \/ Leave(i), Lone(tasks')
  PROVE  Aimed'
  <1>1. CASE StartDisconnect(i)
    <2>1. /\ i \in DOMAIN tasks /\ tasks[i].pc = "start" /\ tasks[i].kind = "disconnect"
          /\ app' = NoApp /\ UNCHANGED drivers
      BY <1>1, StartDisconnectStep
    <2>2. CASE app.driver = 0 /\ Step(i, Range(DatabasesTask(NoApp)))
      <3>1. Fresh(DatabasesTask(NoApp), {"databases"})
        BY <2>2, NoAppTyped, DatabasesFresh DEF Step
      <3>2. AimStays
        BY <2>1, <2>2, NoAppTyped DEF AimStays
      <3>3. {"databases"} \cap Actors = {}
        BY DEF Actors, Movers
      <3>4. \A x \in Range(DatabasesTask(NoApp)) : x.pc = "start" /\ x.kind \notin Actors
        BY <3>1, <3>3, ListsIdle
      <3> QED BY <2>2, <3>2, <3>4, AimedEnds
    <2>3. CASE Step(i, {AtWait(tasks[i], "leave", app.driver)})
      <3>1. PICK t, d, c : t = tasks[i] /\ d = app.driver /\ c = AtWait(t, "leave", d)
        OBVIOUS
      <3>2. t \in TaskSet /\ d \in Nat /\ "leave" \in Pcs
        BY <2>1, <3>1, TaskTyped, AppTyped DEF Sound, Pcs
      <3>3. c.pc = "leave" /\ c.kind = t.kind
        BY <3>1, <3>2, AtWaitTyped
      <3>4. Step(i, {c}) /\ Turns(i, {c})
        BY <2>3, <3>1 DEF Step
      <3>5. Switching(c) /\ c \in {c} /\ tasks[i].kind \in Movers
        BY <2>1, <3>3 DEF Switching, Movers
      <3>6. Earlier(i)
        BY <1>1, StartsEarlier DEF StartDisconnect
      <3>7. \A k \in DOMAIN tasks \ {i} : ~Aiming(tasks[k])
        BY <2>1, <3>4, <3>5, <3>6, NoneAims DEF Calm
      <3>8. AimFits(c)' /\ c.kind = tasks[i].kind /\ c.pc \notin {"start", "ask"}
        BY <2>1, <3>1, <3>3, AimsAtNothing
      <3> QED BY <2>1, <3>4, <3>7, <3>8, AimedGoes
    <2> QED BY <1>1, <2>2, <2>3, StartDisconnectStep
  <1>2. CASE Leave(i)
    <2>1. i \in DOMAIN tasks /\ tasks[i].pc = "leave"
      BY <1>2 DEF Leave, At
    <2>2. app = NoApp
      BY <2>1 DEF Calm, Knows
    <2>3. \A k \in DOMAIN tasks \ {i} : ~Aiming(tasks[k])
      BY <2>2, NoAppTyped, NoAim DEF Aimed
    <2>4. CASE tasks[i].kind = "disconnect"
      <3>1. PICK a, new : a = app /\ new = SchemaTask(a, saved) \o DatabasesTask(a)
        OBVIOUS
      <3>2. Step(i, Range(new))
        BY <1>2, <2>4, <3>1, LeavesDisconnectStep
      <3>3. a \in AppSet
        BY <3>1, AppTyped DEF Sound
      <3>4. Fresh(Landing(a), {"schema", "databases"})
        BY <3>2, <3>3, LandingFresh DEF Sound, Step
      <3>5. new = Landing(a)
        BY <3>1 DEF Landing
      <3>6. {"schema", "databases"} \cap Actors = {}
        BY DEF Actors, Movers
      <3>7. \A x \in Range(new) : x.pc = "start" /\ x.kind \notin Actors
        BY <3>4, <3>5, <3>6, ListsIdle
      <3> QED BY <2>3, <3>2, <3>7, AimedEnds
    <2>5. CASE tasks[i].kind # "disconnect"
      <3>1. PICK c : c = Pc(i, "dial")
        OBVIOUS
      <3>2. Step(i, {c})
        BY <1>2, <2>5, <3>1, LeavesStep
      <3>3. c.pc = "dial" /\ c.kind = tasks[i].kind
        BY <2>1, <3>1, PcTyped DEF Pcs
      <3>4. Reaches(tasks[i])
        BY <2>1, TaskTyped
      <3>5. c.kind \notin {"row", "write"}
        BY <2>1, <3>3, <3>4 DEF Reaches
      <3>6. AimFits(c)' /\ c.pc \notin {"start", "ask"}
        BY <3>3, <3>5, AimsAtNothing
      <3> QED BY <2>1, <2>3, <3>2, <3>3, <3>6, AimedGoes
    <2> QED BY <2>4, <2>5
  <1> QED BY <1>1, <1>2

\* A new session: none aimed while there was none.
LEMMA AimedDials ==
  ASSUME Sound, Calm, Aimed, NEW i, Dial(i)
  PROVE  Aimed'
  <1>1. /\ i \in DOMAIN tasks /\ tasks[i].pc = "dial" /\ tasks[i].kind \in {"connect", "query"}
        /\ Typed' /\ app' \in AppSet
    BY DialSession
  <1>2. app = NoApp
    BY <1>1 DEF Calm, Knows
  <1>3. \A k \in DOMAIN tasks \ {i} : ~Aiming(tasks[k])
    BY <1>2, NoAppTyped, NoAim DEF Aimed
  <1>4. PICK t, a : t = tasks[i] /\ a = app'
    OBVIOUS
  <1>5. a \in AppSet /\ t \in TaskSet
    BY <1>1, <1>4, TaskTyped
  <1>6. Fresh(Landing(a), {"schema", "databases"})
    BY <1>1, <1>5, LandingFresh DEF Sound
  <1>7. {"schema", "databases"} \cap Actors = {}
    BY DEF Actors, Movers
  <1>8. \A x \in Range(Landing(a)) : x.pc = "start" /\ x.kind \notin Actors
    BY <1>6, <1>7, ListsIdle
  <1>9. CASE t.kind = "connect"
    <2>1. Step(i, Range(Landing(a)))
      BY <1>4, <1>9, DialsConnectStep
    <2> QED BY <1>3, <1>8, <2>1, AimedEnds
  <1>10. CASE t.kind = "query"
    <2>1. PICK c, C : c = Work(t, a) /\ C = {c} \cup Range(Landing(a))
      OBVIOUS
    <2>2. Step(i, C)
      BY <1>4, <1>10, <2>1, DialsQueryStep
    <2>3. c.kind = t.kind /\ c.pc \in {"run", "swap"}
      BY <1>5, <2>1, WorkTyped
    <2>4. AimFits(c)' /\ c.kind = tasks[i].kind /\ c.pc \notin {"start", "ask"} /\ c \in C
      BY <1>4, <1>10, <2>1, <2>3, AimsAtNothing
    <2>5. \A x \in C : x = c \/ (x.pc = "start" /\ x.kind \notin Actors)
      BY <1>8, <2>1
    <2> QED BY <1>1, <1>3, <2>2, <2>4, <2>5, AimedGoes
  <1> QED BY <1>1, <1>4, <1>9, <1>10

\* Another database, of who has the session for itself.
LEMMA AimedSwaps ==
  ASSUME Sound, Calm, Aimed, NEW i, Swap(i), Lone(tasks')
  PROVE  Aimed'
  <1>1. i \in DOMAIN tasks /\ tasks[i].pc = "swap"
    BY DEF Swap, At
  <1>2. PICK c : c = Pc(i, "note")
    OBVIOUS
  <1>3. Step(i, {c}) /\ Turns(i, {c})
    BY <1>2, SwapsStep DEF Step
  <1>4. c.pc = "note" /\ c.kind = tasks[i].kind
    BY <1>1, <1>2, PcTyped DEF Pcs
  <1>5. tasks[i].kind \in {"load", "query"}
    <2>1. Reaches(tasks[i])
      BY <1>1, TaskTyped
    <2> QED BY <1>1, <2>1 DEF Reaches
  <1>6. tasks[i].kind \in Movers /\ Switching(tasks[i]) /\ Earlier(i)
    BY <1>1, <1>5, PolledEarlier DEF Movers, Switching
  <1>7. \A k \in DOMAIN tasks \ {i} : ~Aiming(tasks[k])
    BY <1>1, <1>3, <1>6, NoneAims DEF Calm
  <1>8. AimFits(c)' /\ c.pc \notin {"start", "ask"}
    BY <1>4, <1>5, AimsAtNothing
  <1> QED BY <1>1, <1>3, <1>4, <1>7, <1>8, AimedGoes

\* It is noted: the driver and its pool are the same.
LEMMA AimedNotes ==
  ASSUME Sound, Aimed, NEW i, Note(i)
  PROVE  Aimed'
  <1>1. PICK d, a, c, C : /\ d = app.driver /\ a = app'
                          /\ c = AtWait(tasks[i], "run", d) /\ C = {c} \cup Range(DatabasesTask(a))
    OBVIOUS
  <1>2. /\ i \in DOMAIN tasks /\ tasks[i].kind \in {"load", "query"} /\ a \in AppSet
        /\ app'.driver = app.driver /\ Typed'
    BY <1>1, NoteSession
  <1>3. AimStays
    BY <1>2 DEF AimStays, Note
  <1>4. Step(i, C) /\ c \in C
    BY <1>1, NotesStep
  <1>5. c.pc = "run" /\ c.kind = tasks[i].kind
    <2>1. tasks[i] \in TaskSet /\ d \in Nat /\ "run" \in Pcs
      BY <1>1, <1>2, TaskTyped, AppTyped DEF Sound, Pcs
    <2>2. c = AtWait(tasks[i], "run", d)
      BY <1>1
    <2> QED BY <2>1, <2>2, AtWaitTyped
  <1>6. AimFits(c)' /\ c.pc \notin {"start", "ask"}
    BY <1>2, <1>5, AimsAtNothing
  <1>7. Fresh(DatabasesTask(a), {"databases"})
    BY <1>2, DatabasesFresh
  <1>8. {"databases"} \cap Actors = {}
    BY DEF Actors, Movers
  <1>9. \A x \in Range(DatabasesTask(a)) : x.pc = "start" /\ x.kind \notin Actors
    BY <1>7, <1>8, ListsIdle
  <1>10. \A x \in C : x = c \/ (x.pc = "start" /\ x.kind \notin Actors)
    BY <1>1, <1>9
  <1> QED BY <1>2, <1>3, <1>4, <1>5, <1>6, <1>10, AimedGoes

\* The first elements of a sequence that grows.
LEMMA Grown ==
  ASSUME NEW S, NEW s \in Seq(S), NEW e \in S, NEW r, r = Append(s, e)
  PROVE  /\ Len(s) = 0 => r[1] = e
         /\ Len(s) = 1 => r[1] = s[1] /\ r[2] = e
  OBVIOUS

\* A statement is answered: nobody aims at what it read.
LEMMA AimedRuns ==
  ASSUME Sound, Aimed, NEW i, Runs(i)
  PROVE  Aimed'
  <1>1. PICK t, p, v, c : /\ t = tasks[i] /\ p = Place(t.driver)
                          /\ v = (IF Pool(i) = "" THEN 0 ELSE version[p]) /\ c = Got(t, p, v)
    OBVIOUS
  <1>2. /\ Step(i, {c}) /\ i \in DOMAIN tasks /\ t.driver # 0
        /\ t.kind \in {"load", "query"} /\ v \in Nat
    BY <1>1, RunsStep DEF RunsTask
  <1>3. t \in TaskSet /\ p \in Spot
    BY <1>1, <1>2, TaskTyped, PlaceTyped
  <1>4. c.kind = t.kind /\ c.pc = "show"
    <2>1. c = Got(t, p, v) /\ p \in Spot \cup {NULL}
      BY <1>1, <1>3
    <2> QED BY <1>2, <1>3, <2>1, GotTyped
  <1>5. AimStays
    BY AimUnchanged DEF Runs, Answers
  <1>6. AimFits(c)' /\ c.kind = tasks[i].kind /\ c.pc \notin {"start", "ask"}
    BY <1>1, <1>2, <1>4, AimsAtNothing
  <1> QED BY <1>2, <1>5, <1>6, AimedGoes

\* A write goes where its columns were read.
LEMMA AimedWrites ==
  ASSUME Sound, ShowsTrue, Aimed, NEW i, Writes(i)
  PROVE  Aimed'
  <1>1. PICK t, d, p, parts, v, c : /\ t = tasks[i] /\ d = t.driver /\ p = Place(d)
                                    /\ parts = Append(t.parts, p) /\ v = version[p] + 1
                                    /\ c = WroteAt(t, parts, v)
    OBVIOUS
  <1>2. /\ Step(i, {c}) /\ i \in DOMAIN tasks /\ d # 0
        /\ t.kind = "write" /\ t.pc = "run" /\ v \in Nat
    BY <1>1, WritesStep DEF WritesTask
  <1>3. t \in TaskSet /\ p \in Spot
    BY <1>1, <1>2, TaskTyped, PlaceTyped
  <1>4. parts \in PartSet
    BY <1>1, <1>3, PartsTyped
  <1>5. c.kind = t.kind /\ c.tab = t.tab /\ c.parts = parts /\ c.pc = "show"
    <2>1. c = WroteAt(t, parts, v)
      BY <1>1
    <2> QED BY <1>2, <1>3, <1>4, <2>1, WroteTyped
  <1>6. parts[1] = t.parts[1] /\ parts[2] = p
    <2>1. Len(t.parts) = 1
      BY <1>1, <1>2, TaskShows DEF WriteFits
    <2>2. t.parts \in Seq(Spot \cup {NULL})
      BY <1>3 DEF TaskSet, PartSet
    <2>3. p \in Spot \cup {NULL} /\ parts = Append(t.parts, p)
      BY <1>1, <1>3
    <2> QED BY <2>1, <2>2, <2>3, Grown
  <1>7. UNCHANGED <<app, drivers, tab>>
    BY DEF Writes, Answers, window
  <1>8. t.parts[1] = Target(p, tab[t.tab].db)
    <2>1. AimFits(t)
      BY <1>1, <1>2, TaskAims
    <2>2. d = app.driver /\ t.parts[1] = Target(Place(app.driver), tab[t.tab].db)
      BY <1>1, <1>2, <2>1 DEF AimFits, Aiming
    <2> QED BY <1>1, <2>2
  <1>9. AimFits(c)
    BY <1>2, <1>5, <1>6, <1>8 DEF AimFits, Aiming
  <1>10. AimFits(c)'
    BY <1>7, <1>9, AimFitsSame
  <1>11. AimStays
    BY <1>7, AimUnchanged
  <1>12. c.kind = tasks[i].kind /\ c.pc \notin {"start", "ask"}
    BY <1>1, <1>5
  <1> QED BY <1>2, <1>10, <1>11, <1>12, AimedGoes

\* The columns a dialog reads are those of the table its tab is of.
LEMMA AimedColumns ==
  ASSUME Sound, ShowsTrue, Aimed, NEW i, ReadsColumns(i)
  PROVE  Aimed'
  <1>1. PICK t, p, parts, d, c : /\ t = tasks[i] /\ p = Named(i)
                                 /\ parts = Append(t.parts, p) /\ d = t.driver
                                 /\ c = Learnt(t, "show", parts, d)
    OBVIOUS
  <1>2. Step(i, {c}) /\ i \in DOMAIN tasks /\ d # 0 /\ t.kind = "row" /\ t.pc = "run"
    BY <1>1, LearnsStep DEF LearnsTask
  <1>3. t \in TaskSet /\ p \in Spot
    BY <1>1, <1>2, TaskTyped, PlaceTyped
  <1>4. parts \in PartSet /\ d \in Nat /\ "show" \in Pcs
    BY <1>1, <1>3, PartsTyped DEF TaskSet, Pcs
  <1>5. c.kind = t.kind /\ c.tab = t.tab /\ c.db = t.db /\ c.parts = parts /\ c.pc = "show"
    <2>1. c = Learnt(t, "show", parts, d)
      BY <1>1
    <2> QED BY <1>3, <1>4, <2>1, LearntTyped
  <1>6. parts[1] = p
    <2>1. t.parts = <<>>
      BY <1>1, <1>2, TaskShows DEF WriteFits
    <2> QED BY <1>1, <2>1
  <1>7. UNCHANGED <<app, drivers, tab>>
    BY DEF ReadsColumns, Answers, window
  <1>8. d = app.driver /\ app.driver # 0 /\ t.db = tab[t.tab].db
    <2>1. AimFits(t)
      BY <1>1, <1>2, TaskAims
    <2> QED BY <1>1, <1>2, <2>1 DEF AimFits, Aiming
  <1>9. p = Target(Place(d), t.db)
    BY <1>1 DEF Named, Target, Place
  <1>10. AimFits(c)
    BY <1>2, <1>5, <1>6, <1>8, <1>9 DEF AimFits, Aiming
  <1>11. AimFits(c)'
    BY <1>7, <1>10, AimFitsSame
  <1>12. AimStays
    BY <1>7, AimUnchanged
  <1>13. c.kind = tasks[i].kind /\ c.pc \notin {"start", "ask"}
    BY <1>1, <1>5
  <1> QED BY <1>2, <1>11, <1>12, <1>13, AimedGoes

\* All other answers leave what is aimed at alone.
LEMMA AimedRest ==
  ASSUME Sound, Aimed, NEW i,
         \/ ReadsStructure(i) \/ CallFails(i) \/ ShowRows(i) \/ ShowWritten(i)
         \/ ShowStructure(i) \/ ShowSchema(i) \/ ShowTables(i) \/ ShowDatabases(i) \/ Cancel(i)
  PROVE  Aimed'
  <1>1. UNCHANGED <<app, drivers>>
    BY DEF ReadsStructure, CallFails, Fails, ShowRows, ShowWritten, ShowStructure, ShowSchema,
           ShowTables, ShowDatabases, Cancel
  <1>2. AimStays
    BY <1>1, AimUnchanged
  <1>3. CASE Step(i, {})
    BY <1>2, <1>3, AimedEnds
  <1>4. CASE ReadsStructure(i)
    <2>1. PICK c : /\ Step(i, {c}) /\ i \in DOMAIN tasks /\ c.kind = "structure"
                   /\ tasks[i].kind = "structure" /\ c.pc \in {"run", "show"}
      BY <1>4, StructureStep
    <2>2. AimFits(c)' /\ c.kind = tasks[i].kind /\ c.pc \notin {"start", "ask"}
      BY <2>1, AimsAtNothing
    <2> QED BY <1>2, <2>1, <2>2, AimedGoes
  <1>5. CASE ShowWritten(i)
    <2>1. /\ Step(i, Range(WrittenLoad(i))) /\ i \in DOMAIN tasks /\ tasks[i].kind = "write"
          /\ Fresh(WrittenLoad(i), {"load"})
      BY <1>5, ShowWrittenStep
    <2>2. PICK C : C = Range(WrittenLoad(i))
      OBVIOUS
    <2>3. \A x \in C : x.pc = "start" /\ x.kind = "load"
      BY <2>1, <2>2 DEF Fresh
    <2>4. \A x \in C : AimFits(x)'
      BY <2>3, AimsAtNothing
    <2>5. \A x \in C : /\ x.pc # "ask" /\ (x.pc = "start" => x.kind # "write")
                       /\ x.pc # "start" => i \in DOMAIN tasks /\ x.kind = tasks[i].kind
      BY <2>3
    <2>6. tasks[i].kind \in Actors /\ Step(i, C)
      BY <2>1, <2>2 DEF Actors
    <2> QED BY <1>2, <2>1, <2>4, <2>5, <2>6, AimedOn
  <1>6. CASE CallFails(i)
    BY <1>3, <1>6, CallFailsStep
  <1>7. CASE ShowRows(i) \/ ShowStructure(i) \/ Cancel(i)
    BY <1>3, <1>7, ShowRowsStep, ShowStructureStep, CancelStep
  <1>8. CASE ShowSchema(i) \/ ShowTables(i) \/ ShowDatabases(i)
    BY <1>3, <1>8, ListsStep
  <1> QED BY <1>4, <1>5, <1>6, <1>7, <1>8

\* The positions of a list where something holds, which are finite.
LEMMA Positions ==
  ASSUME NEW S, NEW s \in Seq(S), NEW T \in SUBSET DOMAIN s
  PROVE  IsFiniteSet(T) /\ Cardinality(T) \in Nat
  <1>1. Len(s) \in Nat /\ DOMAIN s = 1 .. Len(s)
    OBVIOUS
  <1>2. IsFiniteSet(1 .. Len(s))
    BY <1>1, FS_Interval
  <1>3. IsFiniteSet(T)
    BY <1>1, <1>2, FS_Subset
  <1> QED BY <1>3, FS_CardinalityType

\* When one more dialog is open than before, and no switches overlap, it is the
\* only operation on the session.
LEMMA AsksAlone ==
  ASSUME tasks \in Seq(TaskSet), tasks' \in Seq(TaskSet), ~Races(tasks'),
         NEW i \in DOMAIN tasks, tasks[i].pc # "ask",
         DOMAIN tasks' = DOMAIN tasks, tasks'[i].pc = "ask", tasks'[i].kind \in Actors,
         \A k \in DOMAIN tasks \ {i} : tasks'[k] = tasks[k],
         NEW j \in DOMAIN tasks', j # i
  PROVE  tasks'[j].kind \notin Actors
  <1>1. PICK A, B, C : /\ A = {k \in DOMAIN tasks : tasks[k].pc = "ask"}
                       /\ B = {k \in DOMAIN tasks' : tasks'[k].pc = "ask"}
                       /\ C = {k \in DOMAIN tasks' : tasks'[k].kind \in Actors}
    OBVIOUS
  <1>2. /\ IsFiniteSet(A) /\ Cardinality(A) \in Nat
        /\ IsFiniteSet(C) /\ Cardinality(C) \in Nat
    <2>1. A \in SUBSET DOMAIN tasks /\ C \in SUBSET DOMAIN tasks'
      BY <1>1
    <2> QED BY <2>1, Positions
  <1>3. B = A \cup {i} /\ i \notin A /\ i \in C
    BY <1>1
  <1>4. Cardinality(B) = Cardinality(A) + 1
    BY <1>2, <1>3, FS_AddElement
  <1>5. Cardinality(B) > Cardinality(A)
    BY <1>2, <1>4
  <1>6. ~(Cardinality(C) > 1)
    <2>1. C = {k \in DOMAIN tasks' :
                 tasks'[k].kind \in {"connect", "disconnect", "load", "query", "row", "write"}}
      BY <1>1 DEF Actors, Movers
    <2> QED BY <1>1, <1>5, <2>1 DEF Races
  <1>7. C = {i}
    <2>1. {i} \in SUBSET C /\ Cardinality({i}) = 1
      BY <1>3, FS_Singleton
    <2>2. 1 <= Cardinality(C)
      BY <1>2, <2>1, FS_Subset
    <2>3. Cardinality(C) = Cardinality({i})
      BY <1>2, <1>6, <2>1, <2>2
    <2> QED BY <1>2, <2>1, <2>3, FS_Subset
  <1> QED BY <1>1, <1>7

\* A dialog opens.
LEMMA AimedDialog ==
  ASSUME Sound, Aimed, NEW i, ShowDialog(i), ~Races(tasks')
  PROVE  Aimed'
  <1>1. PICK t, c : t = tasks[i] /\ c = Pc(i, "ask")
    OBVIOUS
  <1>2. Step(i, {c}) /\ i \in DOMAIN tasks /\ t.pc = "show" /\ t.kind = "row"
    BY <1>1, DialogStep
  <1>3. /\ c.kind = "row" /\ c.pc = "ask" /\ c.tab = t.tab /\ c.db = t.db /\ c.parts = t.parts
        /\ [tasks[i] EXCEPT !.pc = "ask"] = c
    BY <1>1, <1>2, PcTyped DEF Pcs
  <1>4. UNCHANGED <<app, drivers, tab>>
    BY DEF ShowDialog, window
  <1>5. AimFits(t)
    BY <1>1, <1>2, TaskAims
  <1>6. AimFits(c)
    BY <1>2, <1>3, <1>5 DEF AimFits, Aiming
  <1>7. AimFits(c)' /\ AimStays
    BY <1>4, <1>6, AimFitsSame, AimUnchanged
  <1>8. TasksAimed'
    BY <1>2, <1>7, TasksAimedOn DEF Aimed
  <1>9. Before'
    <2>1. \A x \in {c} : /\ x.pc = "start" => x.kind # "write"
                         /\ x.pc # "start" => i \in DOMAIN tasks /\ x.kind = tasks[i].kind
      BY <1>1, <1>2, <1>3
    <2> QED BY <1>2, <2>1, BeforeOn DEF Aimed
  <1>10. /\ tasks \in Seq(TaskSet) /\ tasks' \in Seq(TaskSet) /\ DOMAIN tasks' = DOMAIN tasks
         /\ tasks'[i] = c /\ \A k \in DOMAIN tasks \ {i} : tasks'[k] = tasks[k]
    <2>1. tasks \in Seq(TaskSet) /\ tasks' \in Seq(TaskSet)
      BY <1>2 DEF Sound, Tasks, Step, Turns
    <2>2. tasks' = [tasks EXCEPT ![i] = c]
      BY <1>3 DEF ShowDialog, Goes
    <2> QED BY <1>2, <2>1, <2>2
  <1>11. \A j \in DOMAIN tasks' \ {i} : tasks'[j].kind \notin Actors
    <2>1. tasks'[i].pc = "ask" /\ tasks'[i].kind \in Actors /\ tasks[i].pc # "ask"
      BY <1>1, <1>2, <1>3, <1>10 DEF Actors
    <2> QED BY <1>2, <1>10, <2>1, AsksAlone
  <1>12. Sole'
    <2> SUFFICES ASSUME NEW l \in DOMAIN tasks', NEW j \in DOMAIN tasks', l # j,
                        tasks'[l].pc = "ask"
                 PROVE  tasks'[j].kind \notin Actors
      BY DEF Sole
    <2>1. l = i
      <3> SUFFICES ASSUME l # i PROVE FALSE
        OBVIOUS
      <3>1. l \in DOMAIN tasks /\ tasks'[l] = tasks[l]
        BY <1>10
      <3>2. Reaches(tasks[l])
        BY <3>1, TaskTyped
      <3>3. tasks'[l].kind = "row"
        BY <3>1, <3>2 DEF Reaches
      <3> QED BY <1>11, <3>3 DEF Actors
    <2> QED BY <1>11, <2>1
  <1> QED BY <1>8, <1>9, <1>12 DEF Aimed

\* The user accepts: there was nothing else on the session.
LEMMA AimedAccept ==
  ASSUME Sound, Aimed, NEW i, Accept(i)
  PROVE  Aimed'
  <1>1. PICK t, c : t = tasks[i] /\ c = WriteTask(i)
    OBVIOUS
  <1>2. Step(i, {c}) /\ i \in DOMAIN tasks /\ t.pc = "ask" /\ t.kind = "row"
    BY <1>1, AcceptStep
  <1>3. c.kind = "write" /\ c.pc = "start" /\ c.tab = t.tab /\ c.parts = t.parts
    BY <1>1, <1>2, WriteTaskTyped
  <1>4. UNCHANGED <<app, drivers, tab>>
    BY DEF Accept, window
  <1>5. AimFits(t)
    BY <1>1, <1>2, TaskAims
  <1>6. AimFits(c)
    BY <1>2, <1>3, <1>5 DEF AimFits, Aiming
  <1>7. AimFits(c)' /\ AimStays
    BY <1>4, <1>6, AimFitsSame, AimUnchanged
  <1>8. TasksAimed'
    BY <1>2, <1>7, TasksAimedOn DEF Aimed
  <1>9. \A k \in DOMAIN tasks \ {i} : tasks[k].kind \notin Actors
    BY <1>1, <1>2 DEF Aimed, Sole
  <1>10. \A j \in DOMAIN tasks' : tasks'[j] = c \/ tasks'[j].kind \notin Actors
    BY <1>2, <1>9 DEF Step, Turns
  <1>11. Before'
    BY <1>3, <1>10 DEF Before, Actors, Movers
  <1>12. Sole'
    <2>1. ASSUME NEW l \in DOMAIN tasks', tasks'[l].pc = "ask"
          PROVE  FALSE
      <3>1. Reaches(tasks[l])'
        BY <1>2, <2>1, StepIsSound, TaskTyped DEF Sound, Tasks, Fits
      <3>2. tasks'[l].kind = "row"
        BY <2>1, <3>1 DEF Reaches
      <3> QED BY <1>3, <1>10, <2>1, <3>2 DEF Actors
    <2> QED BY <2>1 DEF Sole
  <1> QED BY <1>8, <1>11, <1>12 DEF Aimed

\* While no switches overlap, writes go where their columns were read.
LEMMA AimedNext ==
  ASSUME Sound, ShowsTrue, ~raced => Calm /\ Aimed, Next
  PROVE  ~raced' => Aimed'
  <1> SUFFICES ASSUME ~raced' PROVE Aimed'
    OBVIOUS
  <1>1. Noted
    BY DEF Next, Runtime
  <1>2. Lone(tasks') /\ ~Races(tasks') /\ Calm /\ Aimed
    BY <1>1, NotRaced
  <1>3. Lone(tasks)
    BY <1>2 DEF Calm
  <1>4. CASE User
    BY <1>2, <1>4, AimedUser
  <1>5. ASSUME NEW i \in DOMAIN tasks, Future(i)
        PROVE  Aimed'
    BY <1>2, <1>3, <1>5, AimedStarts, AimedCalls, AimedLeaves, AimedDials, AimedSwaps,
       AimedNotes, AimedRuns, AimedWrites, AimedColumns, AimedRest, AimedDialog DEF Future
  <1>6. ASSUME NEW i \in DOMAIN tasks, Accept(i) \/ Cancel(i)
        PROVE  Aimed'
    BY <1>2, <1>6, AimedAccept, AimedRest
  <1> QED BY <1>4, <1>5, <1>6 DEF Next, Runtime

\* What tabs were written stays.
LEMMA TabsAimedOn ==
  ASSUME TabsAimed, Remembers, TabGrows
  PROVE  TabsAimed'
  <1>1. ASSUME NEW n \in DOMAIN tab'
        PROVE  AimWrote(tab'[n])
    <2>1. PICK v : v = tab'[n]
      OBVIOUS
    <2>2. CASE n \in DOMAIN tab
      <3>1. PICK u : u = tab[n]
        OBVIOUS
      <3>2. v.wrote = u.wrote /\ v.db = u.db /\ AimWrote(u)
        BY <2>1, <2>2, <3>1 DEF Remembers, Recalls, TabGrows, TabsAimed
      <3>3. AimWrote(v)
        BY <3>2 DEF AimWrote
      <3> QED BY <2>1, <3>3
    <2>3. CASE n \notin DOMAIN tab
      BY <2>3 DEF Remembers, AimWrote
    <2> QED BY <2>2, <2>3
  <1> QED BY <1>1 DEF TabsAimed

\* One tab was written something else.
LEMMA TabAimed ==
  ASSUME Sound, TabsAimed, NEW n \in DOMAIN tab, NEW v, tab' = [tab EXCEPT ![n] = v],
         AimWrote(v)
  PROVE  TabsAimed'
  <1>1. DOMAIN tab' = DOMAIN tab /\ tab'[n] = v /\ \A m \in DOMAIN tab \ {n} : tab'[m] = tab[m]
    BY DEF Sound, Typed, WindowTyped
  <1>2. ASSUME NEW m \in DOMAIN tab'
        PROVE  AimWrote(tab'[m])
    <2>1. CASE m = n
      BY <1>1, <2>1
    <2>2. CASE m # n
      BY <1>1, <2>2 DEF TabsAimed
    <2> QED BY <2>1, <2>2
  <1> QED BY <1>2 DEF TabsAimed

\* Rows are shown in a tab that was written the same.
LEMMA RowsAimed ==
  ASSUME Sound, TabsAimed, NEW i, ShowRows(i)
  PROVE  TabsAimed'
  <1>1. PICK t, n, u, v : t = tasks[i] /\ n = t.tab /\ u = tab[n] /\ v = ShownTab(u, t)
    OBVIOUS
  <1>2. i \in DOMAIN tasks /\ t.kind \in {"load", "query"} /\ tab' = [tab EXCEPT ![n] = v]
    BY <1>1, ShowRowsStep
  <1>3. t \in TaskSet /\ n \in DOMAIN tab /\ u \in TabSet
    BY <1>1, <1>2, TaskTyped, TaskTab
  <1>4. v.wrote = u.wrote /\ v.db = u.db
    <2>1. v = ShownTab(u, t)
      BY <1>1
    <2> QED BY <1>3, <2>1, ShownTabTyped
  <1>5. AimWrote(u)
    BY <1>1, <1>3 DEF TabsAimed
  <1>6. AimWrote(v)
    BY <1>4, <1>5 DEF AimWrote
  <1> QED BY <1>2, <1>3, <1>6, TabAimed

\* A write that is noted went where its columns were read.
LEMMA WrittenAimed ==
  ASSUME Sound, Aimed, TabsAimed, NEW i, ShowWritten(i)
  PROVE  TabsAimed'
  <1>1. PICK t, n, u, w, v : /\ t = tasks[i] /\ n = t.tab /\ u = tab[n]
                             /\ w = WroteTab(u, t) /\ v = LoadingTab(w, app.id)
    OBVIOUS
  <1>2. /\ i \in DOMAIN tasks /\ t.kind = "write" /\ t.pc = "show"
        /\ tab' = [tab EXCEPT ![n] = v]
    BY <1>1, ShowWrittenStep DEF WrittenTab
  <1>3. t \in TaskSet /\ n \in DOMAIN tab /\ u \in TabSet
    BY <1>1, <1>2, TaskTyped, TaskTab
  <1>4. /\ w \in TabSet /\ w.db = u.db
        /\ w.wrote = [parts |-> t.parts, version |-> t.version]
    <2>1. w = WroteTab(u, t)
      BY <1>1
    <2> QED BY <1>3, <2>1, WroteTabTyped
  <1>5. v.wrote = w.wrote /\ v.db = w.db
    <2>1. v = LoadingTab(w, app.id)
      BY <1>1
    <2> QED BY <1>4, <2>1, LoadingTyped
  <1>6. t.parts[1] = Target(t.parts[2], u.db)
    <2>1. AimFits(t)
      BY <1>1, <1>2, TaskAims
    <2> QED BY <1>1, <1>2, <2>1 DEF AimFits
  <1>7. AimWrote(v)
    BY <1>4, <1>5, <1>6 DEF AimWrote
  <1> QED BY <1>2, <1>3, <1>7, TabAimed

\* While no switches overlap, tabs were written what their columns were read of.
LEMMA TabsAimedNext ==
  ASSUME Sound, ~raced => Aimed /\ TabsAimed, Next
  PROVE  ~raced' => TabsAimed'
  <1> SUFFICES ASSUME ~raced' PROVE TabsAimed'
    OBVIOUS
  <1>1. Noted
    BY DEF Next, Runtime
  <1>2. Aimed /\ TabsAimed
    BY <1>1, NotRaced
  <1>3. TabGrows
    BY NextSteps DEF Step, Grows
  <1>4. CASE User
    BY <1>2, <1>3, <1>4, RemembersUser, TabsAimedOn
  <1>5. ASSUME NEW i \in DOMAIN tasks, Future(i)
        PROVE  TabsAimed'
    BY <1>2, <1>3, <1>5, RemembersFuture, TabsAimedOn, RowsAimed, WrittenAimed
  <1>6. ASSUME NEW i \in DOMAIN tasks, Accept(i) \/ Cancel(i)
        PROVE  TabsAimed'
    BY <1>2, <1>3, <1>6, RemembersDialog, TabsAimedOn
  <1> QED BY <1>4, <1>5, <1>6 DEF Next, Runtime

AimInv ==
  /\ Sound /\ ShowsTrue
  /\ ~raced => Calm /\ Aimed /\ TabsAimed

\* When the program is started.
LEMMA AimInit == Init => AimInv
  <1> SUFFICES ASSUME Init PROVE AimInv
    OBVIOUS
  <1>1. tab = <<>> /\ tasks = DatabasesTask(NoApp)
    BY DEF Init
  <1>2. \A i \in DOMAIN tasks : tasks[i].kind = "databases" /\ tasks[i].pc = "start"
    BY <1>1, NoAppTyped, DatabasesSpawned DEF Spawns
  <1>3. Aimed
    BY <1>2 DEF Aimed, Sole, Before, TasksAimed, AimFits, Aiming
  <1>4. DOMAIN tab = {}
    BY <1>1
  <1>5. TabsAimed
    BY <1>4 DEF TabsAimed
  <1> QED BY <1>3, <1>5, InitSound, ShowsAtFirst, CalmAtFirst DEF AimInv

\* Nothing changes.
LEMMA AimStutters ==
  ASSUME AimInv, UNCHANGED vars
  PROVE  AimInv'
  <1>1. Sound'
    BY Stutters DEF AimInv
  <1>2. UNCHANGED <<app, drivers, tasks, tab, version, raced>>
    BY DEF vars, window
  <1>3. ShowsTrue'
    BY <1>2 DEF AimInv, ShowsTrue, TaskFits, WriteFits, TabFits, WrittenFits, LoadingIsLoaded,
       LoadFits, RowsFit
  <1>4. Calm' = Calm
    BY <1>2 DEF Calm, Lone, Knows, NoteTrue, Listing
  <1>5. Aimed' = Aimed /\ TabsAimed' = TabsAimed
    BY <1>2 DEF Aimed, Sole, Before, TasksAimed, AimFits, Place, TabsAimed
  <1> QED BY <1>1, <1>2, <1>3, <1>4, <1>5, Zenon DEF AimInv

\* After every step.
LEMMA AimNext == AimInv /\ [Next]_vars => AimInv'
  <1> SUFFICES ASSUME AimInv, [Next]_vars PROVE AimInv'
    OBVIOUS
  <1>1. CASE UNCHANGED vars
    BY <1>1, AimStutters
  <1>2. CASE Next
    <2>1. Sound'
      BY <1>2, NextSteps, StepIsSound DEF AimInv
    <2>2. ShowsTrue'
      BY <1>2, ShowsNext DEF AimInv
    <2>3. ~raced' => Calm'
      BY <1>2, CalmNext DEF AimInv
    <2>4. ~raced' => Aimed'
      BY <1>2, AimedNext DEF AimInv
    <2>5. ~raced' => TabsAimed'
      BY <1>2, TabsAimedNext DEF AimInv
    <2> QED BY <2>1, <2>2, <2>3, <2>4, <2>5 DEF AimInv
  <1> QED BY <1>1, <1>2

\* In every state of every behaviour.
LEMMA AimAlways == Spec => []AimInv
  BY AimInit, AimNext, PTL DEF Spec

\* From which it follows for every tab.
LEMMA AimHolds ==
  ASSUME AimInv
  PROVE  WritesWhatItRead
  <1> SUFFICES ASSUME NEW n \in DOMAIN tab, ~raced, tab[n].wrote # NULL, NEW p,
                      p = tab[n].wrote.parts
               PROVE  p[1] = IF p[2][1] \in ByName THEN <<p[2][1], tab[n].db>> ELSE p[2]
    BY DEF WritesWhatItRead
  <1>1. AimWrote(tab[n])
    BY DEF AimInv, TabsAimed
  <1> QED BY <1>1 DEF AimWrote, Target

\* The table a write changes is the one its columns and keys were read from,
\* unless switches of the session overlapped the dialog when it opened or each
\* other: from the read to the write nothing switches (crud.rs open_row_editor,
\* submit, confirm_delete_row).
THEOREM WritesTrue == Spec => []WritesWhatItRead
  BY AimAlways, AimHolds, PTL

-----------------------------------------------------------------------------
(* What is closed.                                                         *)

\* The numbers of tabs are those of pages while the user moves none.
Matched == ~moved => pages = tabs

\* The user opens and closes both alike.
LEMMA MatchedUser ==
  ASSUME Matched, User
  PROVE  Matched'
  <1>1. CASE UNCHANGED <<tabs, pages, moved>>
    BY <1>1 DEF Matched
  <1>2. CASE \/ \E c \in Conns : connect_to_selected(c) \/ delete_connection(c) \/ open_dialog(c)
             \/ disconnect_active \/ refresh_schema_tree \/ create_query_tab
             \/ \E c \in Conns, d \in Dbs : load_tables_for(c, d)
    BY <1>1, <1>2 DEF connect_to_selected, delete_connection, open_dialog, disconnect_active,
       refresh_schema_tree, create_query_tab, load_tables_for, window
  <1>3. CASE \E c \in Conns, d \in Dbs : focus_or_open_table_tab(c, d)
    BY <1>3 DEF focus_or_open_table_tab, Matched
  <1>4. CASE \E c \in Conns, d \in Dbs \cup {""} : run_query(c, d)
    <2>1. PICK c, d : run_query(c, d)
      BY <1>4
    <2>2. PICK n : \/ tabs' = Append(tabs, n) /\ pages' = Append(pages, n)
                   \/ UNCHANGED <<tabs, pages>>
      BY <2>1 DEF run_query
    <2>3. moved' = moved
      BY <2>1 DEF run_query
    <2> QED BY <2>2, <2>3 DEF Matched
  <1>5. CASE \/ \E n \in DOMAIN tab :
                  \/ next_page_for(n) \/ prev_page_for(n) \/ apply_sort_for(n)
                  \/ load_table_structure_into_tab(n) \/ open_row_editor(n) \/ confirm_delete_row(n)
             \/ \E i \in DOMAIN tabs : reload_active_data_tab(i)
    BY <1>1, <1>5 DEF next_page_for, prev_page_for, apply_sort_for, load_table_structure_into_tab,
       open_row_editor, confirm_delete_row, reload_active_data_tab, window
  <1>6. CASE \E i \in DOMAIN tabs : close_data_tab(i)
    BY <1>6 DEF close_data_tab, CloseAt, Matched
  <1>7. CASE \E i, k \in DOMAIN tabs : reorder(i, k)
    BY <1>7 DEF reorder, Matched
  <1> QED BY <1>2, <1>3, <1>4, <1>5, <1>6, <1>7 DEF User

\* Only a disconnect closes tabs by itself.
LEMMA MatchedFuture ==
  ASSUME Matched, NEW i, Future(i) \/ Accept(i) \/ Cancel(i)
  PROVE  Matched'
  <1>1. CASE UNCHANGED <<tabs, pages, moved>>
    BY <1>1 DEF Matched
  <1>2. CASE CloseFor(tasks[i].conn) /\ UNCHANGED moved
    BY <1>2 DEF CloseFor, Matched
  <1>3. CASE Fails(i)
    BY <1>1, <1>3 DEF Fails
  <1>4. CASE StartConnect(i) \/ StartQuery(i) \/ StartLoad(i) \/ StartCall(i) \/ StartDatabases(i)
    BY <1>1, <1>3, <1>4 DEF StartConnect, StartQuery, StartLoad, StartCall, StartDatabases, Calls,
       Connects, Same, window
  <1>5. CASE StartDisconnect(i) \/ Leave(i)
    BY <1>1, <1>2, <1>5 DEF StartDisconnect, Disconnected, Leave, Same, window
  <1>6. CASE Dial(i) \/ Swap(i) \/ Note(i)
    BY <1>1, <1>6 DEF Dial, Swap, Note, Same, window
  <1>7. CASE Runs(i) \/ Writes(i) \/ ReadsColumns(i) \/ ReadsStructure(i) \/ CallFails(i)
    BY <1>1, <1>3, <1>7 DEF Runs, Writes, ReadsColumns, ReadsStructure, CallFails, Answers, Same,
       window
  <1>8. CASE \/ ShowRows(i) \/ ShowWritten(i) \/ ShowSchema(i) \/ ShowTables(i)
             \/ ShowDatabases(i) \/ ShowStructure(i) \/ ShowDialog(i) \/ Accept(i) \/ Cancel(i)
    BY <1>1, <1>8 DEF ShowRows, ShowWritten, ShowSchema, ShowTables, ShowDatabases, ShowStructure,
       ShowDialog, Accept, Cancel, Same, window
  <1> QED BY <1>4, <1>5, <1>6, <1>7, <1>8 DEF Future

\* Whatever happens.
LEMMA MatchedNext ==
  ASSUME Matched, Next
  PROVE  Matched'
  BY MatchedUser, MatchedFuture DEF Next, Runtime

\* Disconnects of c that are under way are not fewer after a step of another
\* future.
LEMMA LeavingStays ==
  ASSUME Sound, NEW i, NEW C, Step(i, C), NEW c,
         i \in DOMAIN tasks => ~(tasks[i].kind = "disconnect" /\ tasks[i].conn = c)
  PROVE  ~(Leaving(tasks', c) < Leaving(tasks, c))
  <1>1. PICK f : Comes(f, i, C)
    BY DEF Step, Turns
  <1>2. PICK D, E :
          /\ D = {k \in DOMAIN tasks : tasks[k].kind = "disconnect" /\ tasks[k].conn = c}
          /\ E = {k \in DOMAIN tasks' : tasks'[k].kind = "disconnect" /\ tasks'[k].conn = c}
    OBVIOUS
  <1>3. tasks \in Seq(TaskSet) /\ tasks' \in Seq(TaskSet)
    BY DEF Sound, Tasks, Step, Turns
  <1>4. /\ IsFiniteSet(E) /\ Cardinality(E) \in Nat /\ Cardinality(D) \in Nat
    <2>1. D \in SUBSET DOMAIN tasks /\ E \in SUBSET DOMAIN tasks'
      BY <1>2
    <2> QED BY <1>3, <2>1, Positions
  <1>5. ASSUME NEW k \in D
        PROVE  \E j \in E : f[j] = k
    <2>1. k \in DOMAIN tasks \ {i}
      BY <1>2
    <2>2. PICK j \in DOMAIN tasks' : f[j] = k
      BY <1>1, <2>1 DEF Comes
    <2>3. ~(k > Len(tasks))
      BY <1>3, <2>1
    <2>4. tasks'[j] = tasks[k]
      BY <1>1, <2>1, <2>2, <2>3 DEF Comes
    <2> QED BY <1>2, <2>2, <2>4
  <1> DEFINE g == [k \in D |-> CHOOSE j \in E : f[j] = k]
  <1>6. \A k \in D : g[k] \in E /\ f[g[k]] = k
    BY <1>5
  <1>7. g \in [D -> E]
    BY <1>6
  <1> HIDE DEF g
  <1>8. g \in Injection(D, E)
    <2>1. \A a, b \in D : g[a] = g[b] => a = b
      BY <1>6
    <2> QED BY <1>7, <2>1, Fun_IsInj
  <1>9. Cardinality(D) <= Cardinality(E)
    BY <1>4, <1>8, FS_Injection
  <1>10. Leaving(tasks, c) = Cardinality(D) /\ Leaving(tasks', c) = Cardinality(E)
    BY <1>2 DEF Leaving
  <1> QED BY <1>4, <1>9, <1>10

\* A disconnect that has begun only waits for its pool.
LEMMA Disconnects ==
  ASSUME Sound, NEW i \in DOMAIN tasks, tasks[i].kind = "disconnect",
         Future(i) \/ Accept(i) \/ Cancel(i)
  PROVE  StartDisconnect(i) \/ Leave(i)
  <1>1. tasks[i].pc \notin {"dial", "swap", "note", "run", "show", "ask"}
    <2>1. Reaches(tasks[i])
      BY TaskTyped
    <2> QED BY <2>1 DEF Reaches
  <1>2. ~(StartConnect(i) \/ StartQuery(i) \/ StartLoad(i) \/ StartCall(i) \/ StartDatabases(i))
    BY DEF StartConnect, StartQuery, StartLoad, StartCall, StartDatabases, Starts
  <1>3. ~(Dial(i) \/ Swap(i) \/ Note(i))
    BY <1>1 DEF Dial, Swap, Note, At
  <1>4. ~(Runs(i) \/ Writes(i) \/ ReadsColumns(i) \/ ReadsStructure(i) \/ CallFails(i))
    BY <1>1 DEF Runs, Writes, ReadsColumns, ReadsStructure, CallFails, Answers, At
  <1>5. ~(\/ ShowRows(i) \/ ShowWritten(i) \/ ShowSchema(i) \/ ShowTables(i)
          \/ ShowDatabases(i) \/ ShowStructure(i) \/ ShowDialog(i) \/ Accept(i) \/ Cancel(i))
    BY <1>1 DEF ShowRows, ShowWritten, ShowSchema, ShowTables, ShowDatabases, ShowStructure,
       ShowDialog, Accept, Cancel, Shows, Lists, At
  <1> QED BY <1>2, <1>3, <1>4, <1>5 DEF Future

\* No tab of the connection is left when its tabs are closed.
LEMMA ClosedFor ==
  ASSUME Sound, NEW c, CloseFor(c), UNCHANGED tab
  PROVE  \A n \in Range(tabs') : tab'[n].conn # c
  <1>1. PICK mine : /\ mine = {i \in DOMAIN tabs : tab[tabs[i]].conn = c}
                    /\ tabs' = Without(tabs, mine)
    BY DEF CloseFor
  <1>2. tabs \in Seq(DOMAIN tab)
    BY DEF Sound, Typed, WindowTyped
  <1>3. Range(tabs') = {tabs[i] : i \in DOMAIN tabs \ mine}
    BY <1>1, <1>2, WithoutKeeps
  <1> QED BY <1>1, <1>3

\* A disconnect that goes on is still under way.
LEMMA LeavingGoes ==
  ASSUME Sound, NEW i \in DOMAIN tasks, NEW t, t.kind = tasks[i].kind, t.conn = tasks[i].conn,
         Goes(i, t), NEW c
  PROVE  ~(Leaving(tasks', c) < Leaving(tasks, c))
  <1>1. PICK D : D = {k \in DOMAIN tasks : tasks[k].kind = "disconnect" /\ tasks[k].conn = c}
    OBVIOUS
  <1>2. tasks \in Seq(TaskSet)
    BY DEF Sound, Tasks
  <1>3. DOMAIN tasks' = DOMAIN tasks /\ \A k \in DOMAIN tasks :
          tasks'[k].kind = tasks[k].kind /\ tasks'[k].conn = tasks[k].conn
    BY <1>2 DEF Goes
  <1>4. D = {k \in DOMAIN tasks' : tasks'[k].kind = "disconnect" /\ tasks'[k].conn = c}
    BY <1>1, <1>3
  <1>5. Leaving(tasks, c) = Cardinality(D) /\ Leaving(tasks', c) = Cardinality(D)
    BY <1>1, <1>4 DEF Leaving
  <1>6. Cardinality(D) \in Nat
    BY <1>1, <1>2, Positions
  <1> QED BY <1>5, <1>6

\* When a disconnect ends, its tabs are closed.
LEMMA LeavingEnds ==
  ASSUME Sound, NEW i \in DOMAIN tasks, Future(i) \/ Accept(i) \/ Cancel(i), NEW c,
         Leaving(tasks', c) < Leaving(tasks, c)
  PROVE  \A n \in Range(tabs') : tab'[n].conn # c
  <1>1. PICK C : Step(i, C)
    BY FutureSteps, AcceptStep, CancelStep
  <1>2. tasks[i].kind = "disconnect" /\ tasks[i].conn = c
    BY <1>1, LeavingStays
  <1>3. CASE StartDisconnect(i)
    <2>1. CASE Disconnected(i)
      BY <1>2, <2>1, ClosedFor DEF Disconnected
    <2>2. CASE Goes(i, [tasks[i] EXCEPT !.pc = "leave", !.driver = app.driver])
      <3>1. PICK d, t : d = app.driver /\ t = AtWait(tasks[i], "leave", d)
        OBVIOUS
      <3>2. tasks[i] \in TaskSet /\ d \in Nat /\ "leave" \in Pcs
        BY <3>1, TaskTyped, AppTyped DEF Sound, Pcs
      <3>3. t.kind = tasks[i].kind /\ t.conn = tasks[i].conn
        BY <3>1, <3>2, AtWaitTyped
      <3>4. Goes(i, t)
        BY <2>2, <3>1 DEF AtWait
      <3> QED BY <3>3, <3>4, LeavingGoes
    <2> QED BY <1>3, <2>1, <2>2 DEF StartDisconnect
  <1>4. CASE Leave(i)
    BY <1>2, <1>4, ClosedFor DEF Leave
  <1> QED BY <1>2, <1>3, <1>4, Disconnects

\* What a step may do to tabs and pages.
LEMMA ClosingStep ==
  ASSUME Sound, Matched, Next, ~moved'
  PROVE  /\ pages' = tabs'
         /\ \A c \in Conns : Leaving(tasks', c) < Leaving(tasks, c) =>
              \A n \in Range(pages') : tab'[n].conn # c
  <1>1. pages' = tabs'
    BY MatchedNext DEF Matched
  <1>2. ASSUME NEW c \in Conns, Leaving(tasks', c) < Leaving(tasks, c)
        PROVE  \A n \in Range(tabs') : tab'[n].conn # c
    <2>1. CASE User
      <3>1. PICK C : Step(0, C)
        BY <2>1, UserSteps DEF UserStep
      <3>2. 0 \notin DOMAIN tasks
        BY NoneIsZero
      <3> QED BY <1>2, <3>1, <3>2, LeavingStays
    <2>2. CASE \E i \in DOMAIN tasks : Future(i) \/ Accept(i) \/ Cancel(i)
      BY <1>2, <2>2, LeavingEnds
    <2> QED BY <2>1, <2>2 DEF Next, Runtime
  <1> QED BY <1>1, <1>2

CloseInv == Sound /\ Matched

\* In every state of every behaviour.
LEMMA CloseAlways == Spec => []CloseInv
  <1>1. Init => CloseInv
    BY InitSound DEF Init, Matched, CloseInv
  <1>2. CloseInv /\ [Next]_vars => CloseInv'
    <2> SUFFICES ASSUME CloseInv, [Next]_vars PROVE CloseInv'
      OBVIOUS
    <2>1. CASE UNCHANGED vars
      <3>1. Sound'
        BY <2>1, Stutters DEF CloseInv
      <3>2. Matched'
        BY <2>1 DEF CloseInv, Matched, vars, window
      <3> QED BY <3>1, <3>2 DEF CloseInv
    <2>2. CASE Next
      <3>1. Sound'
        BY <2>2, NextSteps, StepIsSound DEF CloseInv
      <3>2. Matched'
        BY <2>2, MatchedNext DEF CloseInv
      <3> QED BY <3>1, <3>2 DEF CloseInv
    <2> QED BY <2>1, <2>2
  <1> QED BY <1>1, <1>2, PTL DEF Spec

\* Tabs and pages have the same numbers unless the user moved a tab, whatever is
\* closed, and when a disconnect ends no page of its connection is left
\* (data_tabs.rs attach_data_tab, close_data_tabs_for_connection).
THEOREM ClosingExact == Spec => ClosingIsExact
  <1>1. CloseInv /\ [Next]_vars =>
          [~moved' =>
             /\ pages' = tabs'
             /\ \A c \in Conns : Leaving(tasks', c) < Leaving(tasks, c) =>
                  \A n \in Range(pages') : tab'[n].conn # c]_vars
    BY ClosingStep DEF CloseInv
  <1> QED BY <1>1, CloseAlways, PTL DEF Spec, ClosingIsExact
=============================================================================
