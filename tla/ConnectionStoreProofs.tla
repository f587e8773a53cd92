----------------------- MODULE ConnectionStoreProofs -----------------------
(***************************************************************************)
(* The connection store for any processes, connections and passwords, and  *)
(* any number of operations, crashes and failures.                         *)
(*                                                                         *)
(* The invariant says at which point of its operation each process is and  *)
(* what the list it holds has to do with the file (ListAt): as long as no  *)
(* list out of date was written, a process that is not behind holds what   *)
(* the file will be.  Of the two entries of the keyring it says that they  *)
(* hold what an operation that ended may have left, or one under way has   *)
(* put there (KeyringAt), and of every password that it was kept, and on   *)
(* which machine (Kept).                                                   *)
(***************************************************************************)
EXTENDS ConnectionStore, FiniteSetTheorems, SequenceTheorems, FunctionTheorems,
        WellFoundedInduction, TLAPS

Labels == {"idle", "down", "load", "trunc", "write", "setp", "setf", "delp",
           "delf", "getp", "getf"}

Secret == Versions \cup {NULL}

FileTyped ==
  /\ file = NULL \/ file \in Seq(Entries \cup {End})
  /\ list \in [Processes -> Seq(Entries)]
  /\ acked \in SUBSET Entries /\ behind \in SUBSET Processes
  /\ raced \in BOOLEAN /\ torn \in BOOLEAN

KeysTyped ==
  /\ primary \in [Ids -> Secret]
  /\ fallback \in [Ids -> Fallbacks \cup {NULL}]
  /\ ring \in BOOLEAN /\ machine \in Nat
  /\ secret \in [Ids -> SUBSET Secret] /\ left \in [Ids -> BOOLEAN]
  /\ issued \in [Ids -> SUBSET (Versions \X Nat)]

OpsTyped ==
  /\ op \in [Processes -> [kind : {"none", "save", "delete", "connect"},
                           id : Ids \cup {NULL}, v : Secret, keep : BOOLEAN]]
  /\ pc \in [Processes -> Labels]
  /\ got \in [Processes -> [id : Ids, pw : Secret] \cup {NULL}]
  /\ mixed \in SUBSET Processes
  /\ count \in 0 .. MaxOps /\ faults \in 0 .. MaxFaults

Typed == FileTyped /\ KeysTyped /\ OpsTyped

\* Which operation a process may be at a point of.
PointOf(p) ==
  /\ pc[p] \in {"idle", "down"} <=> op[p].kind = "none"
  /\ op[p].kind # "none" => op[p].id \in Ids
  /\ op[p].kind = "save" => op[p].v \in Versions
  /\ pc[p] \in {"trunc", "write"} => op[p].kind \in {"save", "delete"}
  /\ pc[p] \in {"setp", "setf"} => op[p].kind = "save" /\ op[p].keep
  /\ pc[p] \in {"delp", "delf"} => op[p].kind = "delete"
  /\ pc[p] \in {"getp", "getf"} => op[p].kind = "connect"
  /\ p = Gtk => pc[p] \notin {"load", "getp", "getf"}
  /\ p # Gtk => pc[p] # "down"

OpAt == \A p \in Processes : PointOf(p)

\* A file is not removed under a process that writes it.
FileThere == \A p \in Processes : pc[p] = "write" => file # NULL

\* No two entries of a list have one id.
Unique(connections) ==
  \A i, j \in DOMAIN connections : connections[i].id = connections[j].id => i = j

ListsUnique == \A p \in Processes : Unique(list[p])

\* A file that can be read has the connections acknowledged, unless a list out
\* of date was written; a list that is not out of date has what the file will.
ListAt(p) ==
  /\ pc[p] \in {"trunc", "write"} => Range(list[p]) = Asked(p)
  /\ pc[p] = "write" => file = <<>>
  /\ p = Gtk =>
       /\ pc[p] \in {"idle", "setp", "setf"} => Range(list[p]) = acked
       /\ pc[p] \in {"delp", "delf"} => Range(list[p]) = Asked(p)

NothingLost ==
  ~raced =>
    /\ Readable => Range(Loaded) = acked
    /\ \A p \in Processes \ behind : ListAt(p)

\* What the entries of a connection may hold: what operations that ended may
\* have left, and what those under way have put there.
Allowed(id) ==
  secret[id] \cup {Value(q) : q \in {r \in Processes : Changes(r, id) /\ Pending(r)}}

\* The fallback entry is of another machine.
Foreign(id) ==
  primary[id] = NULL /\ fallback[id] # NULL /\ fallback[id].key.machine # machine

\* The primary entry comes first; between the two steps of a deletion the
\* fallback one does not count.  An operation that nothing overlaps has made
\* the entries what it says.
KeyringAt(id) ==
  ~left[id] =>
    /\ primary[id] # NULL => primary[id] \in Allowed(id)
    /\ (primary[id] = NULL /\ \A q \in Processes : Changes(q, id) => pc[q] # "delf") =>
         load_password(id) \in Allowed(id) \/ Foreign(id)
    /\ \A q \in Processes : (Changes(q, id) /\ q \notin mixed) =>
         /\ pc[q] = "delf" => primary[id] = NULL
         /\ q = Gtk /\ pc[q] \in {"trunc", "write"} => load_password(id) = Value(q)

\* Two operations on one password overlap.
OverlapsMixed ==
  \A p, q \in Processes, id \in Ids :
    (Changes(p, id) /\ Changes(q, id) /\ p # q) => p \in mixed

\* No fallback entry is of a machine to come.
MadeHere == \A id \in Ids : fallback[id] # NULL => fallback[id].key.machine <= machine

KeyringSoFar == OverlapsMixed /\ MadeHere /\ \A id \in Ids : KeyringAt(id)

\* Whatever the keyring holds was stored, for that connection, and a fallback
\* entry on the machine of its key.
Kept ==
  /\ \A id \in Ids :
       /\ primary[id] # NULL => <<primary[id], Anywhere>> \in issued[id]
       /\ fallback[id] # NULL =>
            <<fallback[id].plain, fallback[id].key.machine>> \in issued[id]
       /\ fallback[id] # NULL => fallback[id].aad = id
  /\ GotWasKept

IInv ==
  /\ Typed /\ OpAt /\ FileThere /\ ListsUnique /\ IdsUnique /\ StaysReadable /\ NothingLost
  /\ KeyringSoFar /\ Kept

-----------------------------------------------------------------------------
(* Sequences and their first elements.                                     *)

\* A set of numbers that is not empty has a least one.
LEMMA Least ==
  ASSUME NEW T \in SUBSET Nat, T # {}
  PROVE  \E n \in T : \A m \in T : n <= m
  <1>1. IsWellFoundedOn(OpToRel(<, Nat), Nat)
    BY NatLessThanWellFounded
  <1>2. PICK n \in T : \A m \in T : <<m, n>> \notin OpToRel(<, Nat)
    BY <1>1, WFMin
  <1>3. ASSUME NEW m \in T
        PROVE  n <= m
    <2>1. n \in Nat /\ m \in Nat /\ ~(m < n)
      BY <1>2 DEF OpToRel
    <2> QED BY <2>1
  <1> QED BY <1>3

\* The place of the first element with an id, 0 if there is none.
LEMMA PositionOf ==
  ASSUME NEW s \in Seq(Entries), NEW id
  PROVE  IF \E i \in DOMAIN s : s[i].id = id
         THEN /\ Position(s, id) \in DOMAIN s
              /\ s[Position(s, id)].id = id
         ELSE Position(s, id) = 0
  <1> DEFINE I == {i \in 1 .. Len(s) : s[i].id = id}
  <1>1. Position(s, id) = IF I # {} THEN Min(I) ELSE 0
    BY DEF Position, SelectInSeq
  <1>2. DOMAIN s = 1 .. Len(s)
    BY LenProperties
  <1>3. CASE I # {}
    <2>1. \E n \in I : \A m \in I : n <= m
      <3>1. I \in SUBSET Nat
        BY LenProperties
      <3> HIDE DEF I
      <3> QED BY <1>3, <3>1, Least
    <2>2. Min(I) \in I
      BY <2>1 DEF Min
    <2> QED BY <1>1, <1>2, <1>3, <2>2
  <1>4. CASE I = {}
    BY <1>1, <1>2, <1>4
  <1> QED BY <1>3, <1>4

\* Upsert leaves one entry with the id, the given one.
LEMMA UpsertKeeps ==
  ASSUME NEW s \in Seq(Entries), Unique(s), NEW c \in Entries
  PROVE  /\ Upsert(s, c) \in Seq(Entries) /\ Unique(Upsert(s, c))
         /\ Range(Upsert(s, c)) = {e \in Range(s) : e.id # c.id} \cup {c}
  <1> DEFINE t == Upsert(s, c)
             k == Position(s, c.id)
  <1>1. Len(s) \in Nat /\ DOMAIN s = 1 .. Len(s) /\ \A i \in DOMAIN s : s[i] \in Entries
    BY LenProperties
  <1>2. CASE \E i \in DOMAIN s : s[i].id = c.id
    <2>1. k \in DOMAIN s /\ s[k].id = c.id
      BY <1>2, PositionOf
    <2>2. t = [s EXCEPT ![k] = c]
      <3>1. k # 0
        BY <1>1, <2>1
      <3> HIDE DEF k
      <3>2. t = IF k = 0 THEN Append(s, c) ELSE ReplaceAt(s, k, c)
        BY DEF Upsert, k
      <3> QED BY <3>1, <3>2 DEF ReplaceAt
    <2>3. /\ DOMAIN t = DOMAIN s /\ t[k] = c
          /\ \A i \in DOMAIN s \ {k} : t[i] = s[i]
      BY <2>1, <2>2
    <2>4. t \in Seq(Entries)
      BY <2>1, <2>2
    <2>5. \A i \in DOMAIN s : s[i].id = c.id <=> i = k
      BY <2>1 DEF Unique
    <2>6. Unique(t)
      BY <2>1, <2>3, <2>5 DEF Unique
    <2>7. Range(t) = {e \in Range(s) : e.id # c.id} \cup {c}
      BY <2>1, <2>3, <2>5 DEF Range
    <2> QED BY <2>4, <2>6, <2>7
  <1>3. CASE ~\E i \in DOMAIN s : s[i].id = c.id
    <2>1. t = Append(s, c)
      BY <1>3, PositionOf DEF Upsert
    <2>2. /\ t \in Seq(Entries) /\ DOMAIN t = DOMAIN s \cup {Len(s) + 1}
          /\ t[Len(s) + 1] = c /\ \A i \in DOMAIN s : t[i] = s[i]
      BY <1>1, <2>1
    <2>3. Unique(t)
      BY <1>3, <2>2 DEF Unique
    <2>4. Range(t) = {e \in Range(s) : e.id # c.id} \cup {c}
      BY <1>3, <2>2 DEF Range
    <2> QED BY <2>2, <2>3, <2>4
  <1> QED BY <1>2, <1>3

\* The lists that retain goes through, of the first k entries.
Keeps(f, s, id, k) ==
  f = [n \in 0 .. k |->
        IF n = 0 THEN <<>>
        ELSE IF s[n].id = id THEN f[n - 1]
        ELSE Append(f[n - 1], s[n])]

\* They exist: retain ends.
LEMMA KeepsExists ==
  ASSUME NEW s, NEW id, NEW k \in Nat
  PROVE  \E f : Keeps(f, s, id, k)
  <1> DEFINE T == {n \in Nat : ~\E f : Keeps(f, s, id, n)}
  <1> SUFFICES ASSUME T # {} PROVE FALSE
    OBVIOUS
  <1>1. PICK m \in T : \A n \in T : m <= n
    BY Least
  <1>2. m # 0
    <2>1. Keeps([n \in 0 .. 0 |-> <<>>], s, id, 0)
      BY DEF Keeps
    <2> QED BY <2>1
  <1>3. PICK f : Keeps(f, s, id, m - 1)
    <2>1. m - 1 \in Nat /\ m - 1 \notin T
      BY <1>1, <1>2
    <2> QED BY <2>1
  <1> DEFINE last == IF s[m].id = id THEN f[m - 1] ELSE Append(f[m - 1], s[m])
             g == [n \in 0 .. m |-> IF n = m THEN last ELSE f[n]]
             At(h, n) == IF n = 0 THEN <<>>
                         ELSE IF s[n].id = id THEN h[n - 1]
                         ELSE Append(h[n - 1], s[n])
  <1>4. \A n \in 0 .. m - 1 : f[n] = At(f, n)
    BY <1>3 DEF Keeps
  <1>5. g[m] = last /\ \A n \in 0 .. m - 1 : g[n] = f[n]
    BY <1>1
  <1>6. ASSUME NEW n \in 0 .. m
        PROVE  g[n] = At(g, n)
    <2>1. CASE n = m
      <3>1. m - 1 \in 0 .. m - 1
        BY <1>1, <1>2
      <3> QED BY <1>2, <1>5, <2>1, <3>1
    <2>2. CASE n # m
      <3>1. n \in 0 .. m - 1 /\ (n # 0 => n - 1 \in 0 .. m - 1)
        BY <1>1, <2>2
      <3> HIDE DEF g
      <3> QED BY <1>4, <1>5, <3>1
    <2> QED BY <2>1, <2>2
  <1>7. g = [n \in 0 .. m |-> g[n]]
    OBVIOUS
  <1>8. Keeps(g, s, id, m)
    <2> HIDE DEF g
    <2> QED BY <1>6, <1>7 DEF Keeps
  <1> QED BY <1>1, <1>8

\* Retain leaves out the entries with the id, and no others.
LEMMA RetainKeeps ==
  ASSUME NEW s \in Seq(Entries), Unique(s), NEW id
  PROVE  /\ Retain(s, id) \in Seq(Entries) /\ Unique(Retain(s, id))
         /\ Range(Retain(s, id)) = {e \in Range(s) : e.id # id}
  <1>1. Len(s) \in Nat /\ DOMAIN s = 1 .. Len(s) /\ \A i \in DOMAIN s : s[i] \in Entries
    BY LenProperties
  <1>2. PICK f : Keeps(f, s, id, Len(s)) /\ Retain(s, id) = f[Len(s)]
    <2> DEFINE kept[n \in 0 .. Len(s)] ==
                 IF n = 0 THEN <<>>
                 ELSE IF s[n].id = id THEN kept[n - 1]
                 ELSE Append(kept[n - 1], s[n])
    <2>1. Retain(s, id) = kept[Len(s)]
      BY DEF Retain
    <2>2. \E f : Keeps(f, s, id, Len(s))
      BY <1>1, KeepsExists
    <2>3. Keeps(kept, s, id, Len(s))
      BY <2>2 DEF Keeps
    <2> QED BY <2>1, <2>3
  <1> DEFINE Good(n) == /\ f[n] \in Seq(Entries) /\ Unique(f[n])
                        /\ Range(f[n]) = {s[i] : i \in {j \in 1 .. n : s[j].id # id}}
  <1>3. \A n \in 0 .. Len(s) : Good(n)
    <2> DEFINE T == {n \in 0 .. Len(s) : ~Good(n)}
    <2> SUFFICES ASSUME T # {} PROVE FALSE
      OBVIOUS
    <2>1. PICK m \in T : \A n \in T : m <= n
      <3>1. T \in SUBSET Nat
        OBVIOUS
      <3> HIDE DEF T
      <3> QED BY <3>1, Least
    <2>2. CASE m = 0
      <3>1. f[0] = <<>>
        BY <1>1, <1>2 DEF Keeps
      <3>2. Good(0)
        BY <3>1 DEF Unique, Range
      <3> QED BY <2>2, <3>2
    <2>3. CASE m # 0
      <3>1. m \in 1 .. Len(s) /\ m - 1 \in 0 .. Len(s) /\ Good(m - 1)
        <4> HIDE DEF Good
        <4> QED BY <1>1, <2>1, <2>3
      <3>2. f[m] = IF s[m].id = id THEN f[m - 1] ELSE Append(f[m - 1], s[m])
        BY <1>2, <2>3, <3>1 DEF Keeps
      <3> DEFINE t == f[m - 1]
      <3>3. /\ t \in Seq(Entries) /\ Unique(t)
            /\ Range(t) = {s[i] : i \in {j \in 1 .. m - 1 : s[j].id # id}}
        BY <3>1
      <3>4. 1 .. m = (1 .. m - 1) \cup {m}
        BY <3>1
      <3>5. CASE s[m].id = id
        BY <3>2, <3>3, <3>4, <3>5
      <3>6. CASE s[m].id # id
        <4>1. Len(t) \in Nat /\ DOMAIN t = 1 .. Len(t)
          BY <3>3, LenProperties
        <4>2. /\ f[m] \in Seq(Entries) /\ DOMAIN f[m] = DOMAIN t \cup {Len(t) + 1}
              /\ f[m][Len(t) + 1] = s[m] /\ \A i \in DOMAIN t : f[m][i] = t[i]
          BY <1>1, <3>1, <3>2, <3>3, <3>6, <4>1
        <4>3. Range(f[m]) = Range(t) \cup {s[m]}
          BY <4>2 DEF Range
        <4>4. \A e \in Range(t) : e.id # s[m].id
          BY <1>1, <3>1, <3>3 DEF Unique
        <4>5. Unique(f[m])
          <5> SUFFICES ASSUME NEW i \in DOMAIN f[m], NEW j \in DOMAIN f[m],
                              f[m][i].id = f[m][j].id
                       PROVE  i = j
            BY DEF Unique
          <5>1. ASSUME NEW l \in DOMAIN t
                PROVE  f[m][l] = t[l] /\ t[l].id # s[m].id
            BY <4>2, <4>4 DEF Range
          <5>2. CASE i \in DOMAIN t /\ j \in DOMAIN t
            BY <3>3, <5>1, <5>2 DEF Unique
          <5>3. CASE ~(i \in DOMAIN t /\ j \in DOMAIN t)
            BY <4>1, <4>2, <5>1, <5>3
          <5> QED BY <5>2, <5>3
        <4>6. Range(f[m]) = {s[i] : i \in {j \in 1 .. m : s[j].id # id}}
          BY <3>3, <3>4, <3>6, <4>3
        <4> QED BY <4>2, <4>5, <4>6
      <3> QED BY <3>5, <3>6
    <2> QED BY <2>2, <2>3
  <1>4. Good(Len(s))
    <2> HIDE DEF Good
    <2> QED BY <1>1, <1>3
  <1>5. Range(f[Len(s)]) = {e \in Range(s) : e.id # id}
    <2>1. Range(f[Len(s)]) = {s[i] : i \in {j \in 1 .. Len(s) : s[j].id # id}}
      BY <1>4
    <2>2. Range(s) = {s[i] : i \in 1 .. Len(s)}
      BY <1>1 DEF Range
    <2> QED BY <2>1, <2>2
  <1> QED BY <1>2, <1>4, <1>5

-----------------------------------------------------------------------------
(* The file.                                                               *)

Texts == Seq(Entries \cup {End})

\* A text that can be read: the closing brackets are its last token only.
Whole(text) ==
  \E n \in DOMAIN text : n = Len(text) /\ SelectInSeq(text, LAMBDA e : e = End) = n

\* The closing brackets are no entry, and no file is not an empty one.
LEMMA Tokens ==
  End \notin Entries /\ NULL \notin Texts /\ <<>> # NULL
  <1>1. NULL \notin Versions /\ NULL \notin Texts
    BY StoreAssumption DEF Texts
  <1>2. <<>> \in Texts
    BY EmptySeq DEF Texts
  <1> QED BY <1>1, <1>2 DEF End, Entries

\* A text is whole when its one End is its last token.
LEMMA WholeMeans ==
  ASSUME NEW text \in Texts
  PROVE  Whole(text) <=> /\ Len(text) > 0 /\ text[Len(text)] = End
                         /\ \A i \in 1 .. Len(text) - 1 : text[i] # End
  <1> DEFINE I == {i \in 1 .. Len(text) : text[i] = End}
             first == IF I # {} THEN Min(I) ELSE 0
  <1>1. Len(text) \in Nat /\ DOMAIN text = 1 .. Len(text)
    BY LenProperties DEF Texts
  <1>2. Whole(text) <=> Len(text) > 0 /\ first = Len(text)
    <2>1. SelectInSeq(text, LAMBDA e : e = End) = first
      BY DEF SelectInSeq
    <2> HIDE DEF first
    <2>2. Whole(text) <=> Len(text) \in DOMAIN text /\ first = Len(text)
      BY <2>1 DEF Whole
    <2>3. Len(text) \in DOMAIN text <=> Len(text) > 0
      BY <1>1
    <2> QED BY <2>2, <2>3
  <1>3. I # {} => first \in I /\ \A i \in I : first <= i
    <2> SUFFICES ASSUME I # {}
                 PROVE  Min(I) \in I /\ \A i \in I : Min(I) <= i
      OBVIOUS
    <2>1. \E n \in I : \A m \in I : n <= m
      <3>1. I \in SUBSET Nat
        BY <1>1
      <3> HIDE DEF I
      <3> QED BY <3>1, Least
    <2> QED BY <2>1 DEF Min
  <1>4. I = {} => first = 0
    OBVIOUS
  <1> HIDE DEF first
  <1>5. ASSUME Len(text) > 0, first = Len(text)
        PROVE  text[Len(text)] = End /\ \A i \in 1 .. Len(text) - 1 : text[i] # End
    <2>1. I # {}
      BY <1>4, <1>5
    <2> QED BY <1>1, <1>3, <1>5, <2>1
  <1>6. ASSUME Len(text) > 0, text[Len(text)] = End,
               \A i \in 1 .. Len(text) - 1 : text[i] # End
        PROVE  first = Len(text)
    <2>1. Len(text) \in I
      BY <1>1, <1>6
    <2>2. first \in I
      BY <1>3, <2>1
    <2>3. first \in 1 .. Len(text) /\ text[first] = End
      BY <2>2
    <2>4. first \notin 1 .. Len(text) - 1
      BY <1>6, <2>3
    <2>5. first \in Nat /\ 1 <= first /\ first <= Len(text) /\ Len(text) \in Nat
      BY <1>1, <2>3
    <2>6. ~(first < Len(text))
      BY <2>4, <2>5
    <2> QED BY <2>5, <2>6
  <1> QED BY <1>2, <1>5, <1>6

\* What is read of it are entries.
LEMMA WholeList ==
  ASSUME NEW text \in Texts, Whole(text)
  PROVE  Front(text) \in Seq(Entries)
  <1>1. Len(text) \in Nat \ {0} /\ \A i \in 1 .. Len(text) : text[i] \in Entries \cup {End}
    BY WholeMeans, LenProperties DEF Texts
  <1>2. \A i \in 1 .. Len(text) - 1 : text[i] \in Entries
    BY <1>1, WholeMeans
  <1>3. /\ Len(Front(text)) = Len(text) - 1 /\ Front(text) \in Texts
        /\ \A i \in 1 .. Len(text) - 1 : Front(text)[i] = text[i]
    <2>1. \A i \in 1 .. Len(text) - 1 : text[i] \in Entries \cup {End}
      BY <1>1
    <2>2. Len(text) - 1 \in Int /\ 1 \in Int
      BY <1>1
    <2>3. /\ SubSeq(text, 1, Len(text) - 1) \in Seq(Entries \cup {End})
          /\ Len(SubSeq(text, 1, Len(text) - 1))
               = IF 1 <= Len(text) - 1 THEN (Len(text) - 1) - 1 + 1 ELSE 0
          /\ \A i \in 1 .. (Len(text) - 1) - 1 + 1 :
               SubSeq(text, 1, Len(text) - 1)[i] = text[1 + i - 1]
      BY <2>1, <2>2, SubSeqProperties
    <2>4. (Len(text) - 1) - 1 + 1 = Len(text) - 1 /\ \A i \in 1 .. Len(text) - 1 : 1 + i - 1 = i
      BY <1>1
    <2>5. Len(Front(text)) = Len(text) - 1
      <3>1. PICK n \in Nat \ {0} : n = Len(text)
        BY <1>1
      <3>2. Len(Front(text)) = IF 1 <= n - 1 THEN (n - 1) - 1 + 1 ELSE 0
        BY <2>3, <3>1 DEF Front
      <3> QED BY <3>1, <3>2
    <2>6. \A i \in 1 .. Len(text) - 1 : Front(text)[i] = text[i]
      BY <2>3, <2>4 DEF Front
    <2> QED BY <2>3, <2>5, <2>6 DEF Front, Texts
  <1>4. Front(text) = [i \in 1 .. Len(text) - 1 |-> Front(text)[i]]
    BY <1>1, <1>3, LenProperties DEF Texts
  <1> QED BY <1>1, <1>2, <1>3, <1>4

\* A list that is written to an empty file is read back.
LEMMA TextWhole ==
  ASSUME NEW s \in Seq(Entries)
  PROVE  /\ Text(s) \in Texts /\ Len(Text(s)) = Len(s) + 1 /\ Whole(Text(s))
         /\ Front(Text(s)) = s
  <1>1. Len(s) \in Nat /\ DOMAIN s = 1 .. Len(s) /\ \A i \in 1 .. Len(s) : s[i] \in Entries
    BY LenProperties
  <1>2. /\ Text(s) \in Texts /\ Len(Text(s)) = Len(s) + 1
        /\ \A i \in 1 .. Len(s) : Text(s)[i] = s[i]
        /\ Text(s)[Len(s) + 1] = End
    <2>1. s \in Texts
      BY <1>1 DEF Texts
    <2> QED BY <1>1, <2>1 DEF Text, Texts
  <1>3. Whole(Text(s))
    BY <1>1, <1>2, WholeMeans, Tokens
  <1>4. Front(Text(s)) = s
    <2>1. Front(Text(s)) \in Seq(Entries)
      BY <1>2, <1>3, WholeList
    <2>2. /\ Len(Front(Text(s))) = Len(s)
          /\ \A i \in 1 .. Len(s) : Front(Text(s))[i] = s[i]
      BY <1>1, <1>2 DEF Front, Texts
    <2> QED BY <1>1, <2>1, <2>2, SeqEqual
  <1> QED BY <1>2, <1>3, <1>4

\* Written over what another process wrote it is read back, or not at all.
LEMMA OverText ==
  ASSUME NEW s \in Seq(Entries), NEW f \in Texts
  PROVE  LET text == Text(s)
             over == text \o SubSeq(f, Len(text) + 1, Len(f))
         IN  /\ over \in Texts
             /\ Whole(over) => over = text
             /\ f = <<>> => over = text
  <1> DEFINE text == Text(s)
             rest == SubSeq(f, Len(text) + 1, Len(f))
             over == text \o rest
  <1>1. /\ text \in Texts /\ Len(text) \in Nat \ {0} /\ text[Len(text)] = End
    <2>1. text \in Texts /\ Whole(text)
      BY TextWhole
    <2> QED BY <2>1, WholeMeans, LenProperties DEF Texts
  <1>2. rest \in Texts /\ Len(f) \in Nat
    <2>1. Len(f) \in Nat
      BY LenProperties DEF Texts
    <2> QED BY <1>1, <2>1, SubSeqProperties DEF Texts
  <1> HIDE DEF text, rest
  <1>3. /\ over \in Texts /\ Len(over) = Len(text) + Len(rest)
        /\ \A i \in 1 .. Len(text) : over[i] = text[i]
    BY <1>1, <1>2, ConcatProperties DEF Texts
  <1>4. Len(rest) \in Nat /\ (Len(rest) = 0 => rest = <<>>)
    BY <1>2, EmptySeq, LenProperties DEF Texts
  <1>5. ASSUME Whole(over)
        PROVE  Len(rest) = 0
    <2>1. \A i \in 1 .. Len(over) - 1 : over[i] # End
      BY <1>3, <1>5, WholeMeans
    <2>2. over[Len(text)] = End
      BY <1>1, <1>3
    <2> QED BY <1>1, <1>3, <1>4, <2>1, <2>2
  <1>6. Len(rest) = 0 => over = text
    BY <1>1, <1>4 DEF Texts
  <1>7. f = <<>> => Len(rest) = 0
    BY <1>1 DEF rest
  <1> QED BY <1>3, <1>5, <1>6, <1>7 DEF text, rest

\* The number of entries of a list without repeated ids.
LEMMA UniqueCounts ==
  ASSUME NEW s \in Seq(Entries), Unique(s)
  PROVE  Cardinality(Range(s)) = Len(s)
  <1>1. Len(s) \in Nat /\ s \in [1 .. Len(s) -> Entries] /\ DOMAIN s = 1 .. Len(s)
    BY LenProperties
  <1>2. s \in Surjection(1 .. Len(s), Range(s))
    BY <1>1 DEF Range, Surjection
  <1>3. IsInjective(s)
    BY <1>1 DEF Unique, IsInjective
  <1>4. s \in Bijection(1 .. Len(s), Range(s))
    BY <1>2, <1>3 DEF Bijection, Injection, Surjection
  <1>5. ExistsBijection(1 .. Len(s), Range(s))
    BY <1>4 DEF ExistsBijection
  <1> QED BY <1>1, <1>5, FS_CountingElements

\* Readable, and the list of a file that is.
LEMMA ReadableIs ==
  ASSUME Typed
  PROVE  /\ Readable <=> file = NULL \/ Whole(file)
         /\ Readable => Loaded \in Seq(Entries)
         /\ file = <<>> => ~Readable
  <1>1. Readable <=> file = NULL \/ Whole(file)
    BY DEF Readable, Whole
  <1>2. file # NULL => file \in Texts
    BY DEF Typed, FileTyped, Texts
  <1>3. Readable => Loaded \in Seq(Entries)
    BY <1>1, <1>2, WholeList, EmptySeq DEF Loaded
  <1>4. ~Whole(<<>>)
    <2>1. <<>> \in Texts /\ Len(<<>>) = 0
      BY EmptySeq DEF Texts
    <2> QED BY <2>1, WholeMeans
  <1> QED BY <1>1, <1>3, <1>4, Tokens


-----------------------------------------------------------------------------
(* The steps, and their types.                                             *)

\* Every step is one of these.
LEMMA Steps ==
  ASSUME Next
  PROVE  \/ \E p \in Workers, id \in Ids, v \in Versions, keep \in BOOLEAN :
              save_connection(p, id, v, keep)
         \/ \E p \in Workers, id \in Ids : delete_connection(p, id) \/ get_or_connect(p, id)
         \/ \E id \in Ids, v \in Versions : open_dialog(id, v)
         \/ \E id \in Ids : gtk_delete_connection(id)
         \/ MainWindow_new
         \/ \E p \in Processes : Step(p) \/ WriteFails(p) \/ Crash(p)
         \/ RingChanges \/ Moves
  BY DEF Next

\* The window is one of the processes, and so is every worker.
LEMMA GtkIsProcess == Gtk \in Processes /\ Workers \subseteq Processes
  BY DEF Processes

USE DEF process, keyring, passwords, history, Idle, NoOp, Goto, Done, Secrets, Fault,
  Leaves

USE GtkIsProcess

\* What begins an operation, and at which point.
Begins ==
  \E p \in Processes, kind \in {"save", "delete", "connect"}, id \in Ids, v \in Secret,
     keep \in BOOLEAN, label \in {"load", "setp", "delp"} :
    /\ Begin(p, kind, id, v, keep, label)
    /\ \/ p \in Workers /\ label = "load" /\ (kind = "save" => v \in Versions) /\ UNCHANGED list
       \/ p = Gtk /\ kind = "save" /\ keep /\ label = "setp" /\ v \in Versions /\ UNCHANGED list
       \/ p = Gtk /\ kind = "delete" /\ label = "delp" /\ gtk_delete_connection(id)

\* Every step begins an operation or is one of these.
LEMMA Beginnings ==
  ASSUME Next
  PROVE  \/ Begins \/ MainWindow_new \/ RingChanges \/ Moves
         \/ \E p \in Processes : Step(p) \/ WriteFails(p) \/ Crash(p)
  <1>1. ASSUME NEW p \in Workers, NEW id \in Ids, NEW v \in Versions, NEW keep \in BOOLEAN,
               save_connection(p, id, v, keep)
        PROVE  Begins
    BY <1>1 DEF save_connection, Begins, Secret
  <1>2. ASSUME NEW p \in Workers, NEW id \in Ids, delete_connection(p, id)
        PROVE  Begins
    BY <1>2 DEF delete_connection, Begins, Secret
  <1>3. ASSUME NEW p \in Workers, NEW id \in Ids, get_or_connect(p, id)
        PROVE  Begins
    BY <1>3 DEF get_or_connect, Begins, Secret
  <1>4. ASSUME NEW id \in Ids, NEW v \in Versions, open_dialog(id, v)
        PROVE  Begins
    BY <1>4 DEF open_dialog, Begins, Secret
  <1>5. ASSUME NEW id \in Ids, gtk_delete_connection(id)
        PROVE  Begins
    BY <1>5 DEF gtk_delete_connection, Begins, Secret
  <1> QED BY <1>1, <1>2, <1>3, <1>4, <1>5, Steps

\* Counting one more stays within a bound that is not reached.
LEMMA OneMore ==
  ASSUME NEW bound \in {MaxOps, MaxFaults}, NEW n \in 0 .. bound, n < bound
  PROVE  n + 1 \in 0 .. bound
  <1>1. bound \in Nat
    BY StoreAssumption
  <1> QED BY <1>1

\* Operations, their points and the passwords read keep their form.
LEMMA OpsStay ==
  ASSUME IInv, Next
  PROVE  OpsTyped'
  <1> USE DEF IInv, Typed
  <1>1. CASE Begins
    <2>1. PICK p \in Processes, kind \in {"save", "delete", "connect"}, id \in Ids, v \in Secret,
               keep \in BOOLEAN, label \in {"load", "setp", "delp"} :
            Begin(p, kind, id, v, keep, label)
      BY <1>1 DEF Begins
    <2>2. count' \in 0 .. MaxOps
      <3>1. count \in 0 .. MaxOps /\ count < MaxOps /\ count' = count + 1
        BY <2>1 DEF Begin, OpsTyped
      <3> QED BY <3>1, OneMore
    <2> QED BY <2>1, <2>2 DEF Begin, OpsTyped, Labels
  <1>2. ASSUME Fault
        PROVE  faults' \in 0 .. MaxFaults
    <2>1. faults \in 0 .. MaxFaults /\ faults < MaxFaults /\ faults' = faults + 1
      BY <1>2 DEF OpsTyped
    <2> QED BY <2>1, OneMore
  <1>3. CASE MainWindow_new
    BY <1>3 DEF MainWindow_new, OpsTyped, Labels
  <1>4. CASE RingChanges
    BY <1>2, <1>4 DEF RingChanges, OpsTyped
  <1>5. CASE Moves
    BY <1>2, <1>5 DEF Moves, OpsTyped
  <1>6. ASSUME NEW p \in Processes, Crash(p)
        PROVE  OpsTyped'
    BY <1>2, <1>6 DEF Crash, OpsTyped, Labels, Secret
  <1>7. ASSUME NEW p \in Processes, NEW label \in Labels, NEW ok \in BOOLEAN,
               \/ Goto(p, label) \/ Done(p)
               \/ /\ pc' = [pc EXCEPT ![p] = label] /\ op' = [op EXCEPT ![p].keep = ok]
                  /\ UNCHANGED mixed,
               UNCHANGED count, faults' \in 0 .. MaxFaults,
               got' \in [Processes -> [id : Ids, pw : Secret] \cup {NULL}]
        PROVE  OpsTyped'
    <2>1. op' \in [Processes -> [kind : {"none", "save", "delete", "connect"},
                                 id : Ids \cup {NULL}, v : Secret, keep : BOOLEAN]]
      <3>1. CASE Goto(p, label)
        BY <3>1 DEF OpsTyped
      <3>2. CASE Done(p)
        <4>1. NoOp \in [kind : {"none", "save", "delete", "connect"},
                        id : Ids \cup {NULL}, v : Secret, keep : BOOLEAN]
          BY DEF Secret
        <4> QED BY <3>2, <4>1 DEF OpsTyped
      <3>3. CASE op' = [op EXCEPT ![p].keep = ok]
        BY <3>3 DEF OpsTyped
      <3> QED BY <1>7, <3>1, <3>2, <3>3
    <2>2. pc' \in [Processes -> Labels] /\ mixed' \in SUBSET Processes
      BY <1>7 DEF OpsTyped, Labels
    <2> QED BY <1>7, <2>1, <2>2 DEF OpsTyped
  <1>8. ASSUME NEW p \in Processes, WriteFails(p)
        PROVE  OpsTyped'
    <2>1. faults' \in 0 .. MaxFaults
      BY <1>2, <1>8 DEF WriteFails
    <2>2. Done(p) /\ UNCHANGED <<count, got>> /\ "idle" \in Labels
      BY <1>8 DEF WriteFails, Labels
    <2>3. got \in [Processes -> [id : Ids, pw : Secret] \cup {NULL}]
      BY DEF OpsTyped
    <2> HIDE DEF Done
    <2> QED BY <1>7, <2>1, <2>2, <2>3
  <1>9. ASSUME NEW p \in Processes, Step(p)
        PROVE  OpsTyped'
    <2>1. faults' \in 0 .. MaxFaults /\ UNCHANGED count
      BY <1>9 DEF Step, Load, Truncate, Write, SetPrimary, SetFallback, DeletePrimary,
         DeleteFallback, GetPrimary, GetFallback, OpsTyped
    <2>2. got' \in [Processes -> [id : Ids, pw : Secret] \cup {NULL}]
      <3>1. CASE GetPrimary(p) \/ GetFallback(p)
        <4>1. op[p].id \in Ids
          BY <3>1 DEF GetPrimary, GetFallback, OpAt, PointOf
        <4>2. primary[op[p].id] \in Secret
          BY <4>1 DEF KeysTyped
        <4>3. fallback[op[p].id] # NULL =>
                 fallback_decrypt_v1(op[p].id, fallback[op[p].id]) \in Secret
          BY <4>1 DEF KeysTyped, Secret, Fallbacks, fallback_decrypt_v1
        <4> QED BY <3>1, <4>1, <4>2, <4>3 DEF GetPrimary, GetFallback, OpsTyped, Secret
      <3>2. CASE UNCHANGED got
        BY <3>2 DEF OpsTyped
      <3> QED BY <1>9, <3>1, <3>2 DEF Step, Load, Truncate, Write, SetPrimary, SetFallback,
                 DeletePrimary, DeleteFallback
    <2>3. \E label \in Labels, ok \in BOOLEAN :
            \/ Goto(p, label) \/ Done(p)
            \/ /\ pc' = [pc EXCEPT ![p] = label] /\ op' = [op EXCEPT ![p].keep = ok]
               /\ UNCHANGED mixed
      BY <1>9 DEF Step, Load, Truncate, Write, SetPrimary, SetFallback, DeletePrimary,
         DeleteFallback, GetPrimary, GetFallback, Stored, Labels
    <2> HIDE DEF Done, Goto
    <2> QED BY <1>7, <2>1, <2>2, <2>3
  <1> HIDE DEF Fault
  <1> QED BY <1>1, <1>3, <1>4, <1>5, <1>6, <1>8, <1>9, Beginnings

\* The file is made of whole tokens, and lists of whole entries.
LEMMA FileStays ==
  ASSUME IInv, Next
  PROVE  FileTyped'
  <1> USE DEF IInv, Typed
  <1>1. CASE Begins
    <2>1. PICK p \in Processes, kind \in {"save", "delete", "connect"}, id \in Ids, v \in Secret,
               keep \in BOOLEAN, label \in {"load", "setp", "delp"} :
            /\ Begin(p, kind, id, v, keep, label)
            /\ UNCHANGED list \/ gtk_delete_connection(id)
      BY <1>1 DEF Begins
    <2>2. Retain(list[Gtk], id) \in Seq(Entries)
      BY RetainKeeps DEF FileTyped, ListsUnique
    <2>3. list' \in [Processes -> Seq(Entries)]
      BY <2>1, <2>2 DEF gtk_delete_connection, FileTyped
    <2> QED BY <2>1, <2>3 DEF Begin, FileTyped
  <1>2. CASE MainWindow_new
    <2>1. load.connections \in Seq(Entries)
      BY ReadableIs, EmptySeq DEF load
    <2> QED BY <1>2, <2>1 DEF MainWindow_new, FileTyped
  <1>3. CASE RingChanges \/ Moves
    BY <1>3 DEF RingChanges, Moves, FileTyped
  <1>4. ASSUME NEW p \in Processes, WriteFails(p) \/ Crash(p)
        PROVE  FileTyped'
    <2>0. <<>> \in Seq(Entries)
      BY EmptySeq
    <2>1. list' \in [Processes -> Seq(Entries)]
      <3>1. CASE WriteFails(p)
        BY <2>0, <3>1 DEF WriteFails, FileTyped
      <3>2. CASE Crash(p)
        BY <2>0, <3>2 DEF Crash, FileTyped
      <3> QED BY <1>4, <3>1, <3>2
    <2> QED BY <1>4, <2>1 DEF WriteFails, Crash, FileTyped
  <1>5. ASSUME NEW p \in Processes, Load(p)
        PROVE  FileTyped'
    <2>1. load.ok => load.connections \in Seq(Entries) /\ Unique(load.connections)
      BY ReadableIs DEF load, IdsUnique, Unique
    <2>2. load.ok /\ op[p].kind = "save" =>
            Upsert(load.connections, [id |-> op[p].id, v |-> op[p].v]) \in Seq(Entries)
      BY <2>1, UpsertKeeps DEF OpAt, PointOf, Entries
    <2>3. load.ok => Retain(load.connections, op[p].id) \in Seq(Entries)
      BY <2>1, RetainKeeps
    <2>4. list' = list \/ \E l \in Seq(Entries) : list' = [list EXCEPT ![p] = l]
      <3>1. CASE ~load.ok
        BY <1>5, <3>1 DEF Load
      <3>2. CASE load.ok /\ op[p].kind = "save"
        BY <1>5, <2>2, <3>2 DEF Load
      <3>3. CASE load.ok /\ op[p].kind = "delete"
        BY <1>5, <2>3, <3>3 DEF Load
      <3>4. CASE load.ok /\ op[p].kind \notin {"save", "delete"}
        BY <1>5, <3>4, EmptySeq DEF Load
      <3> QED BY <3>1, <3>2, <3>3, <3>4
    <2> QED BY <1>5, <2>4 DEF Load, FileTyped
  <1>6. ASSUME NEW p \in Processes, Truncate(p)
        PROVE  FileTyped'
    BY <1>6, EmptySeq DEF Truncate, FileTyped, Holders
  <1>7. ASSUME NEW p \in Processes, Write(p)
        PROVE  FileTyped'
    <2>1. file' \in Seq(Entries \cup {End})
      <3>1. list[p] \in Seq(Entries) /\ file \in Texts
        BY <1>7 DEF Write, FileTyped, FileThere, Texts
      <3>2. file' \in Texts
        BY <1>7, <3>1, OverText DEF Write, Over
      <3> QED BY <3>2 DEF Texts
    <2>2. Asked(p) \in SUBSET Entries
      BY <1>7 DEF Write, Asked, FileTyped, OpAt, PointOf, Entries
    <2>3. list' \in [Processes -> Seq(Entries)]
      BY <1>7, EmptySeq DEF Write, FileTyped
    <2> QED BY <1>7, <2>1, <2>2, <2>3 DEF Write, FileTyped, Holders
  <1>8. ASSUME NEW p \in Processes, SetPrimary(p) \/ SetFallback(p)
        PROVE  FileTyped'
    <2>1. Upsert(list[p], [id |-> op[p].id, v |-> op[p].v]) \in Seq(Entries)
      <3>1. [id |-> op[p].id, v |-> op[p].v] \in Entries
        BY <1>8 DEF SetPrimary, SetFallback, OpAt, PointOf, Entries
      <3> QED BY <3>1, UpsertKeeps DEF ListsUnique, FileTyped
    <2>2. list' \in [Processes -> Seq(Entries)]
      BY <1>8, <2>1 DEF SetPrimary, SetFallback, Stored, upsert_connection, FileTyped
    <2> QED BY <1>8, <2>2 DEF SetPrimary, SetFallback, FileTyped
  <1>9. ASSUME NEW p \in Processes, \/ DeletePrimary(p) \/ DeleteFallback(p)
                                    \/ GetPrimary(p) \/ GetFallback(p)
        PROVE  FileTyped'
    BY <1>9 DEF DeletePrimary, DeleteFallback, GetPrimary, GetFallback, FileTyped
  <1> QED BY <1>1, <1>2, <1>3, <1>4, <1>5, <1>6, <1>7, <1>8, <1>9, Beginnings DEF Step

\* The keyring holds passwords, and fallback entries made of them.
LEMMA KeysStay ==
  ASSUME IInv, Next
  PROVE  KeysTyped'
  <1> USE DEF IInv, Typed
  <1>1. CASE Begins
    BY <1>1 DEF Begins, Begin, KeysTyped
  <1>2. CASE MainWindow_new
    BY <1>2 DEF MainWindow_new, KeysTyped
  <1>3. CASE RingChanges \/ Moves
    <2>1. machine' \in Nat
      BY <1>3 DEF RingChanges, Moves, KeysTyped
    <2> QED BY <1>3, <2>1 DEF RingChanges, Moves, KeysTyped
  <1>5. ASSUME NEW p \in Processes, Load(p) \/ Truncate(p) \/ GetPrimary(p) \/ GetFallback(p)
        PROVE  KeysTyped'
    BY <1>5 DEF Load, Truncate, GetPrimary, GetFallback, KeysTyped
  <1>6. ASSUME NEW p \in Processes, Settled(p) \/ UNCHANGED secret
        PROVE  secret' \in [Ids -> SUBSET Secret]
    <2>1. Value(p) \in Secret
      BY DEF Value, OpsTyped, Secret
    <2> QED BY <1>6, <2>1 DEF Settled, KeysTyped
  <1>7. ASSUME NEW p \in Processes, Write(p)
        PROVE  KeysTyped'
    <2>1. Settled(p) \/ UNCHANGED secret
      BY <1>7 DEF Write
    <2> QED BY <1>6, <1>7, <2>1 DEF Write, KeysTyped
  <1>4. ASSUME NEW p \in Processes, WriteFails(p) \/ Crash(p)
        PROVE  KeysTyped'
    <2>1. Settled(p) \/ UNCHANGED secret
      BY <1>4 DEF WriteFails, Crash
    <2>2. left' \in [Ids -> BOOLEAN]
      BY <1>4 DEF WriteFails, Crash, Leaves, KeysTyped
    <2> QED BY <1>4, <1>6, <2>1, <2>2 DEF WriteFails, Crash, KeysTyped
  <1>8. ASSUME NEW p \in Processes, SetPrimary(p)
        PROVE  KeysTyped'
    <2>1. op[p].id \in Ids /\ op[p].v \in Versions /\ op[p].v \in Secret
      BY <1>8 DEF SetPrimary, OpAt, PointOf, Secret
    <2>2. Settled(p) \/ UNCHANGED secret
      BY <1>8 DEF SetPrimary, Stored
    <2>3. primary' \in [Ids -> Secret] /\ left' \in [Ids -> BOOLEAN]
      BY <1>8, <2>1 DEF SetPrimary, Leaves, KeysTyped
    <2>4. issued' \in [Ids -> SUBSET (Versions \X Nat)]
      BY <1>8, <2>1 DEF SetPrimary, Stored, KeysTyped, Anywhere
    <2> QED BY <1>6, <1>8, <2>2, <2>3, <2>4 DEF SetPrimary, KeysTyped
  <1>9. ASSUME NEW p \in Processes, SetFallback(p)
        PROVE  KeysTyped'
    <2>1. op[p].id \in Ids /\ op[p].v \in Versions
      BY <1>9 DEF SetFallback, OpAt, PointOf
    <2>2. Settled(p) \/ UNCHANGED secret
      BY <1>9 DEF SetFallback, Stored
    <2>3. fallback' \in [Ids -> Fallbacks \cup {NULL}]
      BY <1>9, <2>1 DEF SetFallback, Stored, KeysTyped, fallback_encrypt_v1, derive_key,
         Fallbacks, Keys
    <2>4. issued' \in [Ids -> SUBSET (Versions \X Nat)]
      BY <1>9, <2>1 DEF SetFallback, Stored, KeysTyped
    <2>5. left' \in [Ids -> BOOLEAN]
      BY <1>9, <2>1 DEF SetFallback, Leaves, KeysTyped
    <2> QED BY <1>6, <1>9, <2>2, <2>3, <2>4, <2>5 DEF SetFallback, KeysTyped
  <1>10. ASSUME NEW p \in Processes, DeletePrimary(p)
         PROVE  KeysTyped'
    BY <1>10 DEF DeletePrimary, Leaves, KeysTyped, Secret
  <1>11. ASSUME NEW p \in Processes, DeleteFallback(p)
         PROVE  KeysTyped'
    <2>1. Settled(p) \/ UNCHANGED secret
      BY <1>11 DEF DeleteFallback
    <2> QED BY <1>6, <1>11, <2>1 DEF DeleteFallback, Leaves, KeysTyped
  <1> QED BY <1>1, <1>2, <1>3, <1>4, <1>5, <1>7, <1>8, <1>9, <1>10, <1>11, Beginnings
          DEF Step

\* A process is only at the points of its operation.
LEMMA OpAtStays ==
  ASSUME IInv, Next
  PROVE  OpAt'
  <1> USE DEF IInv, Typed, OpsTyped, Labels
  <1> SUFFICES ASSUME NEW q \in Processes
               PROVE  PointOf(q)'
    BY DEF OpAt
  <1>1. PointOf(q)
    BY DEF OpAt
  <1>2. CASE UNCHANGED <<pc, op>>
    BY <1>1, <1>2 DEF PointOf
  <1>3. CASE Begins
    <2>1. PICK p \in Processes, kind \in {"save", "delete", "connect"}, id \in Ids, v \in Secret,
               keep \in BOOLEAN, label \in {"load", "setp", "delp"} :
            /\ Begin(p, kind, id, v, keep, label)
            /\ \/ p \in Workers /\ label = "load" /\ (kind = "save" => v \in Versions)
               \/ p = Gtk /\ kind = "save" /\ keep /\ label = "setp" /\ v \in Versions
               \/ p = Gtk /\ kind = "delete" /\ label = "delp"
      BY <1>3 DEF Begins
    <2>2. /\ op' = [op EXCEPT ![p] = [kind |-> kind, id |-> id, v |-> v, keep |-> keep]]
          /\ pc' = [pc EXCEPT ![p] = label]
      BY <2>1 DEF Begin
    <2>3. Gtk \notin Workers
      BY StoreAssumption
    <2> QED BY <1>1, <2>1, <2>2, <2>3 DEF PointOf
  <1>4. ASSUME NEW p \in Processes, Done(p), p = Gtk => pc[p] # "down"
        PROVE  PointOf(q)'
    BY <1>1, <1>4 DEF PointOf
  <1>5. ASSUME NEW p \in Processes, NEW label \in Labels, Goto(p, label),
               label \notin {"idle", "down"}, pc[p] \notin {"idle", "down"},
               label \in {"trunc", "write"} => op[p].kind \in {"save", "delete"},
               label \in {"setp", "setf"} => op[p].kind = "save" /\ op[p].keep,
               label \in {"delp", "delf"} => op[p].kind = "delete",
               label \in {"getp", "getf"} => op[p].kind = "connect",
               p = Gtk => label \notin {"load", "getp", "getf"}
        PROVE  PointOf(q)'
    BY <1>1, <1>5 DEF PointOf
  <1>6. CASE MainWindow_new
    BY <1>1, <1>6 DEF MainWindow_new, PointOf
  <1>7. ASSUME NEW p \in Processes, Crash(p)
        PROVE  PointOf(q)'
    BY <1>1, <1>7 DEF Crash, PointOf
  <1>8. ASSUME NEW p \in Processes, WriteFails(p)
        PROVE  PointOf(q)'
    BY <1>4, <1>8 DEF WriteFails
  <1>9. ASSUME NEW p \in Processes, Step(p)
        PROVE  PointOf(q)'
    <2>1. PointOf(p)
      BY DEF OpAt
    <2>2. CASE Load(p)
      <3>1. op[p].kind \in {"save", "delete", "connect"} /\ p # Gtk
        BY <2>1, <2>2 DEF Load, PointOf
      <3> QED BY <1>4, <1>5, <2>2, <3>1 DEF Load
    <2>3. CASE Truncate(p) \/ Write(p)
      BY <1>4, <1>5, <2>1, <2>3 DEF Truncate, Write, PointOf
    <2>4. CASE SetPrimary(p) \/ SetFallback(p)
      <3>1. CASE /\ p = Gtk /\ pc' = [pc EXCEPT ![p] = "trunc"]
                 /\ \E ok \in BOOLEAN : op' = [op EXCEPT ![p].keep = ok]
        BY <1>1, <2>1, <2>4, <3>1 DEF SetPrimary, SetFallback, Stored, PointOf
      <3> QED BY <1>4, <1>5, <2>1, <2>4, <3>1 DEF SetPrimary, SetFallback, Stored, PointOf
    <2>5. CASE DeletePrimary(p) \/ DeleteFallback(p)
      BY <1>4, <1>5, <2>1, <2>5 DEF DeletePrimary, DeleteFallback, PointOf
    <2>6. CASE GetPrimary(p) \/ GetFallback(p)
      BY <1>4, <1>5, <2>1, <2>6 DEF GetPrimary, GetFallback, PointOf
    <2> QED BY <1>9, <2>2, <2>3, <2>4, <2>5, <2>6 DEF Step
  <1> QED BY <1>2, <1>3, <1>6, <1>7, <1>8, <1>9, Beginnings DEF RingChanges, Moves

\* The file a process opened is there until it has written it.
LEMMA FileThereStays ==
  ASSUME IInv, Next
  PROVE  FileThere'
  <1> USE DEF IInv, Typed
  <1>1. ASSUME NEW p \in Processes, Write(p)
        PROVE  file' # NULL
    <2>1. list[p] \in Seq(Entries) /\ file \in Texts
      BY <1>1 DEF Write, FileTyped, FileThere, Texts
    <2>2. file' \in Texts
      BY <1>1, <2>1, OverText DEF Write, Over
    <2> QED BY <2>2, Tokens
  <1>2. ASSUME NEW p \in Processes, Truncate(p)
        PROVE  file' # NULL
    BY <1>2, Tokens DEF Truncate
  <1>3. CASE file' = file /\ \A q \in Processes : pc'[q] = "write" => pc[q] = "write"
    BY <1>3 DEF FileThere
  <1>4. CASE Begins \/ MainWindow_new \/ RingChanges \/ Moves
    BY <1>3, <1>4 DEF Begins, Begin, MainWindow_new, RingChanges, Moves, OpsTyped
  <1>5. ASSUME NEW p \in Processes, WriteFails(p) \/ Crash(p)
        PROVE  FileThere'
    BY <1>3, <1>5 DEF WriteFails, Crash, OpsTyped
  <1>6. ASSUME NEW p \in Processes, Step(p)
        PROVE  FileThere'
    BY <1>1, <1>2, <1>3, <1>6
       DEF Step, Load, SetPrimary, SetFallback, DeletePrimary, DeleteFallback,
           GetPrimary, GetFallback, Stored, OpsTyped, FileThere
  <1> QED BY <1>4, <1>5, <1>6, Beginnings

-----------------------------------------------------------------------------
(* The connections.                                                        *)

\* A list without repeated ids stays one.
LEMMA ListsStayUnique ==
  ASSUME IInv, Next
  PROVE  ListsUnique'
  <1> USE DEF IInv, Typed
  <1>1. ASSUME NEW p \in Processes, NEW l, Unique(l), list' = [list EXCEPT ![p] = l]
        PROVE  ListsUnique'
    BY <1>1 DEF ListsUnique, FileTyped, Unique
  <1>2. CASE UNCHANGED list
    BY <1>2 DEF ListsUnique, Unique
  <1>3. Unique(<<>>)
    BY DEF Unique
  <1>4. ASSUME NEW l, l = load.connections
        PROVE  l \in Seq(Entries) /\ Unique(l)
    BY <1>3, <1>4, ReadableIs, EmptySeq DEF load, IdsUnique, Unique
  <1>5. CASE Begins
    <2>1. CASE \E id \in Ids : gtk_delete_connection(id)
      BY <1>1, <2>1, RetainKeeps DEF gtk_delete_connection, ListsUnique, FileTyped
    <2> QED BY <1>2, <1>5, <2>1 DEF Begins
  <1>6. CASE MainWindow_new
    BY <1>1, <1>4, <1>6 DEF MainWindow_new
  <1>7. ASSUME NEW p \in Processes, WriteFails(p) \/ Crash(p) \/ Write(p)
        PROVE  ListsUnique'
    <2>1. CASE p = Gtk /\ ~Crash(p)
      BY <1>1, <1>2, <1>7, <2>1 DEF WriteFails, Write, FileTyped, ListsUnique
    <2>2. CASE p # Gtk \/ Crash(p)
      BY <1>1, <1>3, <1>7, <2>2 DEF WriteFails, Write, Crash
    <2> QED BY <2>1, <2>2
  <1>8. ASSUME NEW p \in Processes, Load(p)
        PROVE  ListsUnique'
    <2>1. load.ok /\ op[p].kind = "save" =>
            Unique(Upsert(load.connections, [id |-> op[p].id, v |-> op[p].v]))
      BY <1>4, UpsertKeeps DEF OpAt, PointOf, Entries
    <2>2. Unique(Retain(load.connections, op[p].id))
      BY <1>4, RetainKeeps
    <2> QED BY <1>1, <1>2, <1>3, <1>8, <2>1, <2>2 DEF Load
  <1>9. ASSUME NEW p \in Processes, SetPrimary(p) \/ SetFallback(p)
        PROVE  ListsUnique'
    <2>1. [id |-> op[p].id, v |-> op[p].v] \in Entries
      BY <1>9 DEF SetPrimary, SetFallback, OpAt, PointOf, Entries
    <2>2. Unique(Upsert(list[p], [id |-> op[p].id, v |-> op[p].v]))
      BY <2>1, UpsertKeeps DEF ListsUnique, FileTyped
    <2> QED BY <1>1, <1>2, <1>9, <2>2 DEF SetPrimary, SetFallback, Stored, upsert_connection
  <1>10. ASSUME NEW p \in Processes, \/ Truncate(p) \/ DeletePrimary(p) \/ DeleteFallback(p)
                                     \/ GetPrimary(p) \/ GetFallback(p)
         PROVE  ListsUnique'
    BY <1>2, <1>10 DEF Truncate, DeletePrimary, DeleteFallback, GetPrimary, GetFallback
  <1> QED BY <1>2, <1>5, <1>6, <1>7, <1>8, <1>9, <1>10, Beginnings
          DEF Step, RingChanges, Moves

\* A file that can be read after a write is what was written.
LEMMA WriteReads ==
  ASSUME IInv, NEW p \in Processes, Write(p)
  PROVE  /\ Readable' => Loaded' = list[p]
         /\ file = <<>> => Readable'
  <1> USE DEF IInv, Typed
  <1>1. list[p] \in Seq(Entries) /\ file \in Texts /\ file' = Over(Text(list[p]))
    BY DEF Write, FileTyped, FileThere, Texts
  <1>2. PICK l \in Seq(Entries) : l = list[p]
    BY <1>1
  <1>3. /\ file' \in Texts /\ (Whole(file') => file' = Text(l))
        /\ (file = <<>> => file' = Text(l))
    BY <1>1, <1>2, OverText DEF Over
  <1>4. Whole(Text(l)) /\ Front(Text(l)) = l
    BY TextWhole
  <1>5. file' # NULL
    BY <1>3, Tokens
  <1>6. Readable' <=> Whole(file')
    BY <1>5 DEF Readable, Whole, SelectInSeq
  <1>7. Loaded' = Front(file')
    BY <1>5 DEF Loaded
  <1> QED BY <1>2, <1>3, <1>4, <1>6, <1>7

\* A truncated file cannot be read.
LEMMA TruncateUnreads ==
  ASSUME NEW p, Truncate(p)
  PROVE  ~Readable'
  <1>1. <<>> \in Texts /\ Len(<<>>) = 0
    BY EmptySeq DEF Texts
  <1>2. ~Whole(<<>>)
    BY <1>1, WholeMeans
  <1> QED BY <1>2, Tokens DEF Truncate, Readable, Whole

\* Only Truncate and Write change the file.
LEMMA FileChanges ==
  ASSUME Next
  PROVE  UNCHANGED file \/ \E p \in Processes : Truncate(p) \/ Write(p)
  <1>1. Begins => UNCHANGED file
    BY DEF Begins, Begin
  <1>2. MainWindow_new \/ RingChanges \/ Moves => UNCHANGED file
    BY DEF MainWindow_new, RingChanges, Moves
  <1>3. ASSUME NEW p \in Processes, WriteFails(p) \/ Crash(p)
        PROVE  UNCHANGED file
    BY <1>3 DEF WriteFails, Crash
  <1>4. ASSUME NEW p \in Processes, Step(p), ~Truncate(p), ~Write(p)
        PROVE  UNCHANGED file
    BY <1>4 DEF Step, Load, SetPrimary, SetFallback, DeletePrimary, DeleteFallback,
       GetPrimary, GetFallback
  <1> QED BY <1>1, <1>2, <1>3, <1>4, Beginnings

\* No file gets two entries with one id.
LEMMA IdsStayUnique ==
  ASSUME IInv, Next
  PROVE  IdsUnique'
  <1>1. ASSUME NEW p \in Processes, Write(p)
        PROVE  IdsUnique'
    BY <1>1, WriteReads DEF IInv, ListsUnique, Unique, IdsUnique
  <1>2. ASSUME NEW p \in Processes, Truncate(p)
        PROVE  IdsUnique'
    BY <1>2, TruncateUnreads DEF IdsUnique
  <1>3. CASE UNCHANGED file
    BY <1>3 DEF IInv, IdsUnique, Readable, Loaded, SelectInSeq
  <1> QED BY <1>1, <1>2, <1>3, FileChanges

\* A file that is not touched reads the same.
LEMMA SameFile ==
  ASSUME UNCHANGED file
  PROVE  Readable' = Readable /\ Loaded' = Loaded
  BY DEF Readable, Loaded, SelectInSeq

\* A process that is not touched, with the file and what is acknowledged, keeps
\* what is known of its list.
LEMMA SameList ==
  ASSUME NEW q, ListAt(q), UNCHANGED <<acked, file>>,
         pc'[q] = pc[q], list'[q] = list[q], op'[q] = op[q]
  PROVE  ListAt(q)'
  BY DEF ListAt, Asked

\* What a file that can be read, and lists that are not out of date, say of the
\* connections acknowledged.
LEMMA NothingIsLost ==
  ASSUME IInv, Next
  PROVE  NothingLost'
  <1> USE DEF IInv, Typed, OpsTyped
  <1>1. ASSUME UNCHANGED <<file, raced, acked, behind>>, NEW p \in Processes,
               \A q \in Processes \ {p} : pc'[q] = pc[q] /\ list'[q] = list[q] /\ op'[q] = op[q],
               ~raced /\ p \notin behind => ListAt(p)'
        PROVE  NothingLost'
    <2>1. Readable' = Readable /\ Loaded' = Loaded
      BY <1>1, SameFile
    <2> SUFFICES ASSUME ~raced', NEW q \in Processes \ behind'
                 PROVE  ListAt(q)'
      BY <1>1, <2>1 DEF NothingLost
    <2>2. CASE q = p
      BY <1>1, <2>2
    <2>3. CASE q # p
      BY <1>1, <2>3, SameList DEF NothingLost
    <2> QED BY <2>2, <2>3
  <1>2. CASE Begins
    <2>1. PICK p \in Processes, kind \in {"save", "delete", "connect"}, id \in Ids, v \in Secret,
               keep \in BOOLEAN, label \in {"load", "setp", "delp"} :
            /\ Begin(p, kind, id, v, keep, label)
            /\ \/ p \in Workers /\ label = "load" /\ UNCHANGED list
               \/ p = Gtk /\ label = "setp" /\ UNCHANGED list
               \/ p = Gtk /\ kind = "delete" /\ label = "delp" /\ gtk_delete_connection(id)
      BY <1>2 DEF Begins
    <2>2. /\ op' = [op EXCEPT ![p] = [kind |-> kind, id |-> id, v |-> v, keep |-> keep]]
          /\ pc' = [pc EXCEPT ![p] = label] /\ pc[p] = "idle"
          /\ UNCHANGED <<file, raced, acked, behind>>
      BY <2>1 DEF Begin
    <2>3. ASSUME ~raced, p \notin behind
          PROVE  ListAt(p)'
      <3>1. p = Gtk => Range(list[p]) = acked
        BY <2>2, <2>3 DEF NothingLost, ListAt
      <3>2. CASE p \in Workers /\ label = "load" /\ UNCHANGED list
        BY <2>2, <3>2, StoreAssumption DEF ListAt
      <3>3. CASE p = Gtk /\ label = "setp" /\ UNCHANGED list
        BY <2>2, <3>1, <3>3 DEF ListAt
      <3>4. CASE p = Gtk /\ kind = "delete" /\ label = "delp" /\ gtk_delete_connection(id)
        <4>1. Range(Retain(list[p], id)) = {e \in acked : e.id # id}
          BY <3>1, <3>4, RetainKeeps DEF FileTyped, ListsUnique
        <4>2. list'[p] = Retain(list[p], id)
          BY <3>4 DEF gtk_delete_connection, FileTyped
        <4>3. Asked(p)' = {e \in acked : e.id # id}
          BY <2>2, <3>4 DEF Asked
        <4> QED BY <2>2, <3>4, <4>1, <4>2, <4>3 DEF ListAt
      <3> QED BY <2>1, <3>2, <3>3, <3>4
    <2>4. \A q \in Processes \ {p} : pc'[q] = pc[q] /\ list'[q] = list[q] /\ op'[q] = op[q]
      BY <2>1, <2>2 DEF gtk_delete_connection, FileTyped
    <2> QED BY <1>1, <2>2, <2>3, <2>4
  <1>3. CASE MainWindow_new
    <2>1. /\ UNCHANGED <<file, raced, acked>> /\ op' = op
          /\ pc' = [pc EXCEPT ![Gtk] = "idle"]
          /\ list' = [list EXCEPT ![Gtk] = load.connections]
          /\ behind' = IF load.ok THEN behind ELSE behind \cup {Gtk}
      BY <1>3 DEF MainWindow_new
    <2>2. Readable' = Readable /\ Loaded' = Loaded
      BY <2>1, SameFile
    <2>3. ASSUME ~raced, load.ok
          PROVE  ListAt(Gtk)'
      <3>1. Range(load.connections) = acked
        BY <2>3 DEF load, NothingLost
      <3> QED BY <2>1, <3>1 DEF ListAt, FileTyped
    <2>4. ASSUME ~raced, NEW q \in Processes \ behind, q # Gtk
          PROVE  ListAt(q)'
      <3>1. ListAt(q)
        BY <2>4 DEF NothingLost
      <3> QED BY <2>1, <2>4, <3>1, SameList DEF FileTyped
    <2>5. ~raced => \A q \in Processes \ behind' : ListAt(q)'
      BY <2>1, <2>3, <2>4
    <2> QED BY <2>1, <2>2, <2>5 DEF NothingLost
  <1>4. CASE RingChanges \/ Moves
    <2>1. UNCHANGED <<file, raced, acked, behind, pc, list, op>>
      BY <1>4 DEF RingChanges, Moves
    <2>2. ~raced /\ Gtk \notin behind => ListAt(Gtk)'
      BY <2>1, SameList DEF NothingLost
    <2> QED BY <1>1, <2>1, <2>2
  <1>5. ASSUME NEW p \in Processes, WriteFails(p) \/ Crash(p)
        PROVE  NothingLost'
    <2>1. /\ UNCHANGED <<file, raced, acked>>
          /\ \A q \in Processes \ {p} : /\ pc'[q] = pc[q] /\ list'[q] = list[q] /\ op'[q] = op[q]
                                        /\ q \notin behind' => q \notin behind
      BY <1>5 DEF WriteFails, Crash, FileTyped
    <2>2. Readable' = Readable /\ Loaded' = Loaded
      BY <2>1, SameFile
    <2>3. p \notin behind' => pc'[p] = "down" \/ (p # Gtk /\ pc'[p] = "idle")
      BY <1>5 DEF WriteFails, Crash, FileTyped
    <2>4. p \notin behind' => ListAt(p)'
      BY <2>3 DEF ListAt
    <2>5. ASSUME ~raced, NEW q \in Processes \ behind', q # p
          PROVE  ListAt(q)'
      BY <2>1, <2>5, SameList DEF NothingLost
    <2>6. ~raced => \A q \in Processes \ behind' : ListAt(q)'
      BY <2>4, <2>5
    <2> QED BY <2>1, <2>2, <2>6 DEF NothingLost
  <1>6. ASSUME NEW p \in Processes, Load(p)
        PROVE  NothingLost'
    <2>1. p # Gtk /\ op[p].id \in Ids /\ pc[p] = "load"
      BY <1>6 DEF Load, OpAt, PointOf
    <2>2. \A q \in Processes \ {p} : pc'[q] = pc[q] /\ list'[q] = list[q] /\ op'[q] = op[q]
      BY <1>6 DEF Load, FileTyped
    <2>3. ASSUME ~raced, pc'[p] \in {"trunc", "write"}
          PROVE  pc'[p] = "trunc" /\ Range(list'[p]) = Asked(p)'
      <3>1. /\ load.ok /\ op' = op /\ pc'[p] = "trunc" /\ acked' = acked
            /\ op[p].kind \in {"save", "delete"}
            /\ op[p].kind = "save" =>
                 list'[p] = Upsert(load.connections, [id |-> op[p].id, v |-> op[p].v])
            /\ op[p].kind = "delete" => list'[p] = Retain(load.connections, op[p].id)
        BY <1>6, <2>3 DEF Load, OpAt, PointOf, FileTyped
      <3>2. Asked(p)' = Asked(p)
        BY <3>1 DEF Asked
      <3>3. PICK l : l = load.connections
        OBVIOUS
      <3>4. l \in Seq(Entries) /\ Unique(l) /\ Range(l) = acked
        BY <2>3, <3>1, <3>3, ReadableIs DEF load, NothingLost, IdsUnique, Unique
      <3>5. CASE op[p].kind = "save"
        <4>1. [id |-> op[p].id, v |-> op[p].v] \in Entries
          BY <3>5 DEF OpAt, PointOf, Entries
        <4> QED BY <3>1, <3>2, <3>3, <3>4, <3>5, <4>1, UpsertKeeps DEF Asked
      <3>6. CASE op[p].kind = "delete"
        BY <3>1, <3>2, <3>3, <3>4, <3>6, RetainKeeps DEF Asked
      <3> QED BY <3>1, <3>5, <3>6
    <2>4. ~raced /\ p \notin behind => ListAt(p)'
      BY <2>1, <2>3 DEF ListAt
    <2>5. UNCHANGED <<file, raced, acked, behind>>
      BY <1>6 DEF Load
    <2> QED BY <1>1, <2>2, <2>4, <2>5
  <1>7. ASSUME NEW p \in Processes, Truncate(p)
        PROVE  NothingLost'
    <2>1. /\ pc[p] = "trunc" /\ file' = <<>> /\ UNCHANGED <<list, acked, raced, op>>
          /\ behind' = behind \cup Holders(p) /\ pc' = [pc EXCEPT ![p] = "write"]
      BY <1>7 DEF Truncate
    <2>2. ~Readable'
      BY <1>7, TruncateUnreads
    <2>3. ASSUME ~raced, NEW q \in Processes \ behind'
          PROVE  ListAt(q)'
      <3>1. CASE q = p
        BY <2>1, <2>3, <3>1 DEF NothingLost, ListAt, Asked
      <3>2. CASE q # p
        BY <2>1, <2>3, <3>2 DEF ListAt, Holders
      <3> QED BY <3>1, <3>2
    <2> QED BY <2>1, <2>2, <2>3 DEF NothingLost
  <1>8. ASSUME NEW p \in Processes, Write(p)
        PROVE  NothingLost'
    <2>1. /\ acked' = Asked(p) /\ raced' = (raced \/ p \in behind) /\ pc[p] = "write"
          /\ \A q \in Processes \ {p} : pc'[q] = pc[q]
          /\ behind' = (behind \cup Holders(p)) \ (Workers \cap {p})
          /\ p = Gtk => list'[p] = list[p] /\ pc'[p] = "idle"
          /\ pc'[p] \in {"idle", "delp", "setp"} /\ (p = Gtk => pc'[p] = "idle")
      BY <1>8 DEF Write, FileTyped
    <2> SUFFICES ASSUME ~raced'
                 PROVE  /\ Readable' => Range(Loaded') = acked'
                        /\ \A q \in Processes \ behind' : ListAt(q)'
      BY DEF NothingLost
    <2>2. ListAt(p)
      BY <2>1 DEF NothingLost
    <2>3. Range(list[p]) = acked'
      BY <2>1, <2>2 DEF ListAt
    <2>4. Readable' => Range(Loaded') = acked'
      BY <1>8, <2>3, WriteReads
    <2>5. ASSUME NEW q \in Processes \ behind'
          PROVE  ListAt(q)'
      <3>1. CASE q = p
        BY <2>1, <2>3, <3>1 DEF ListAt
      <3>2. CASE q # p
        BY <2>1, <2>5, <3>2 DEF ListAt, Holders
      <3> QED BY <3>1, <3>2
    <2> QED BY <2>4, <2>5
  <1>9. ASSUME NEW p \in Processes, SetPrimary(p) \/ SetFallback(p)
        PROVE  NothingLost'
    <2>1. /\ UNCHANGED <<file, raced, acked, behind>>
          /\ \A q \in Processes \ {p} : pc'[q] = pc[q] /\ list'[q] = list[q] /\ op'[q] = op[q]
      BY <1>9 DEF SetPrimary, SetFallback, Stored, FileTyped
    <2>2. [id |-> op[p].id, v |-> op[p].v] \in Entries /\ op[p].kind = "save"
          /\ pc[p] \in {"setp", "setf"}
      BY <1>9 DEF SetPrimary, SetFallback, OpAt, PointOf, Entries
    <2>3. ASSUME ~raced, p \notin behind
          PROVE  ListAt(p)'
      <3>1. CASE p # Gtk
        <4>1. pc'[p] \in {"idle", "setf"}
          BY <1>9, <3>1 DEF SetPrimary, SetFallback, Stored
        <4> QED BY <3>1, <4>1 DEF ListAt
      <3>2. CASE p = Gtk
        <4>1. Range(list[p]) = acked
          BY <2>2, <2>3, <3>2 DEF NothingLost, ListAt
        <4>2. CASE pc'[p] = "setf" /\ list' = list
          BY <2>1, <4>1, <4>2 DEF ListAt
        <4>3. CASE /\ pc'[p] = "trunc"
                   /\ op'[p].kind = op[p].kind /\ op'[p].id = op[p].id /\ op'[p].v = op[p].v
                   /\ list'[p] = Upsert(list[p], [id |-> op[p].id, v |-> op[p].v])
          <5>1. Range(list'[p]) = Asked(p)
            BY <2>2, <4>1, <4>3, UpsertKeeps DEF ListsUnique, FileTyped, Asked
          <5>2. Asked(p)' = Asked(p)
            BY <2>1, <4>3 DEF Asked
          <5> QED BY <4>3, <5>1, <5>2 DEF ListAt
        <4> QED BY <1>9, <3>2, <4>2, <4>3
                DEF SetPrimary, SetFallback, Stored, upsert_connection, FileTyped
      <3> QED BY <3>1, <3>2
    <2> QED BY <1>1, <2>1, <2>3
  <1>10. ASSUME NEW p \in Processes, \/ DeletePrimary(p) \/ DeleteFallback(p)
                                     \/ GetPrimary(p) \/ GetFallback(p)
         PROVE  NothingLost'
    <2>1. /\ UNCHANGED <<file, raced, acked, behind, list>>
          /\ \A q \in Processes \ {p} : pc'[q] = pc[q] /\ op'[q] = op[q]
      BY <1>10 DEF DeletePrimary, DeleteFallback, GetPrimary, GetFallback
    <2>2. ASSUME ~raced, p \notin behind
          PROVE  ListAt(p)'
      <3>1. CASE p # Gtk
        <4>1. pc'[p] \in {"delf", "getf", "idle"}
          BY <1>10, <3>1 DEF DeletePrimary, DeleteFallback, GetPrimary, GetFallback
        <4> QED BY <3>1, <4>1 DEF ListAt
      <3>2. CASE p = Gtk
        <4>1. pc[p] \in {"delp", "delf"} /\ op' = op /\ pc'[p] \in {"delf", "trunc"}
          BY <1>10, <3>2 DEF DeletePrimary, DeleteFallback, GetPrimary, GetFallback, OpAt, PointOf
        <4>2. Range(list[p]) = Asked(p)
          BY <2>2, <3>2, <4>1 DEF NothingLost, ListAt
        <4>3. Asked(p)' = Asked(p)
          BY <2>1, <4>1 DEF Asked
        <4> QED BY <2>1, <4>1, <4>2, <4>3 DEF ListAt
      <3> QED BY <3>1, <3>2
    <2> QED BY <1>1, <2>1, <2>2
  <1> QED BY <1>2, <1>3, <1>4, <1>5, <1>6, <1>7, <1>8, <1>9, <1>10, Beginnings DEF Step

\* Only a process that fails or dies over the file, or two that write it at a
\* time, leave it unreadable.
LEMMA ReadableStays ==
  ASSUME IInv, Next
  PROVE  StaysReadable'
  <1> USE DEF IInv, Typed, OpsTyped
  <1>1. ASSUME UNCHANGED <<file, raced>>, torn => torn',
               ASSUME NEW q \in Processes, pc[q] = "write" PROVE pc'[q] = "write" \/ torn'
        PROVE  StaysReadable'
    <2>1. Writing => Writing' \/ torn'
      BY <1>1 DEF Writing
    <2> QED BY <1>1, <2>1, SameFile DEF StaysReadable
  <1>2. CASE Begins \/ MainWindow_new \/ RingChanges \/ Moves
    <2>1. UNCHANGED <<file, raced, torn>>
      BY <1>2 DEF Begins, Begin, MainWindow_new, RingChanges, Moves
    <2>2. ASSUME NEW q \in Processes, pc[q] = "write"
          PROVE  pc'[q] = "write"
      BY <1>2, <2>2 DEF Begins, Begin, MainWindow_new, RingChanges, Moves
    <2> QED BY <1>1, <2>1, <2>2
  <1>3. ASSUME NEW p \in Processes, WriteFails(p) \/ Crash(p)
        PROVE  StaysReadable'
    BY <1>1, <1>3 DEF WriteFails, Crash
  <1>4. ASSUME NEW p \in Processes, Truncate(p)
        PROVE  StaysReadable'
    BY <1>4 DEF Truncate, StaysReadable, Writing
  <1>5. ASSUME NEW p \in Processes, Write(p)
        PROVE  StaysReadable'
    <2>1. ~raced' => ~raced /\ p \notin behind /\ pc[p] = "write"
      BY <1>5 DEF Write
    <2>2. ~raced' => file = <<>>
      BY <2>1 DEF NothingLost, ListAt
    <2> QED BY <1>5, <2>2, WriteReads DEF StaysReadable
  <1>6. ASSUME NEW p \in Processes,
               \/ Load(p) \/ SetPrimary(p) \/ SetFallback(p) \/ DeletePrimary(p)
               \/ DeleteFallback(p) \/ GetPrimary(p) \/ GetFallback(p)
        PROVE  StaysReadable'
    <2>1. UNCHANGED <<file, raced, torn>>
      BY <1>6 DEF Load, SetPrimary, SetFallback, DeletePrimary, DeleteFallback,
         GetPrimary, GetFallback
    <2>2. pc[p] # "write" /\ \A q \in Processes \ {p} : pc'[q] = pc[q]
      BY <1>6 DEF Load, SetPrimary, SetFallback, DeletePrimary, DeleteFallback,
         GetPrimary, GetFallback, Stored
    <2> QED BY <1>1, <2>1, <2>2
  <1> QED BY <1>2, <1>3, <1>4, <1>5, <1>6, Beginnings DEF Step

-----------------------------------------------------------------------------
(* The keyring.                                                            *)


\* A step of a process under way leaves the operations of others alone, ends its
\* own or goes on with it.
LEMMA StepOf ==
  ASSUME IInv, NEW p \in Processes, Step(p) \/ WriteFails(p) \/ Crash(p)
  PROVE  /\ \A q \in Processes \ {p} : pc'[q] = pc[q] /\ op'[q] = op[q]
         /\ mixed \ {p} \subseteq mixed'
         /\ \A id \in Ids : Changes(p, id)' =>
              Changes(p, id) /\ Value(p)' = Value(p) /\ mixed' = mixed
  <1> USE DEF IInv, Typed, OpsTyped
  <1>1. CASE op' = op /\ mixed' = mixed /\ \E label \in Labels : pc' = [pc EXCEPT ![p] = label]
    BY <1>1 DEF Changes, Value
  <1>2. CASE /\ op' = [op EXCEPT ![p] = NoOp] /\ mixed' = mixed \ {p}
             /\ \E label \in Labels : pc' = [pc EXCEPT ![p] = label]
    BY <1>2 DEF Changes, Value
  <1>3. CASE /\ mixed' = mixed /\ op[p].keep
             /\ \E ok \in BOOLEAN : op' = [op EXCEPT ![p].keep = ok]
             /\ \E label \in Labels : pc' = [pc EXCEPT ![p] = label]
    BY <1>3 DEF Changes, Value
  <1>4. CASE WriteFails(p) \/ Crash(p)
    BY <1>2, <1>4 DEF WriteFails, Crash, Labels
  <1>5. CASE SetPrimary(p) \/ SetFallback(p)
    <2>1. op[p].keep
      BY <1>5 DEF SetPrimary, SetFallback, OpAt, PointOf
    <2> QED BY <1>1, <1>2, <1>3, <1>5, <2>1 DEF SetPrimary, SetFallback, Stored, Labels
  <1>6. CASE Step(p) /\ ~SetPrimary(p) /\ ~SetFallback(p)
    BY <1>1, <1>2, <1>6 DEF Step, Load, Truncate, Write, DeletePrimary, DeleteFallback,
       GetPrimary, GetFallback, Labels
  <1> QED BY <1>4, <1>5, <1>6

\* Operations on one password that are both under way are known to overlap.
LEMMA OverlapsStay ==
  ASSUME IInv, Next
  PROVE  OverlapsMixed'
  <1> USE DEF IInv, Typed, OpsTyped, KeyringSoFar, OverlapsMixed
  <1>1. CASE Begins
    <2>1. PICK p \in Processes, kind \in {"save", "delete", "connect"}, id \in Ids, v \in Secret,
               keep \in BOOLEAN, label \in {"load", "setp", "delp"} :
            Begin(p, kind, id, v, keep, label)
      BY <1>1 DEF Begins
    <2> DEFINE others == {q \in Processes : Changes(q, id)}
    <2>2. /\ op' = [op EXCEPT ![p] = [kind |-> kind, id |-> id, v |-> v, keep |-> keep]]
          /\ mixed' = mixed \cup (IF others # {} /\ (kind = "delete" \/ (kind = "save" /\ keep))
                                  THEN others \cup {p} ELSE {})
      BY <2>1 DEF Begin
    <2>3. \A q \in Processes \ {p}, i \in Ids : Changes(q, i)' = Changes(q, i)
      BY <2>2 DEF Changes
    <2>4. \A i \in Ids : Changes(p, i)' =>
            i = id /\ (kind = "delete" \/ (kind = "save" /\ keep))
      BY <2>2 DEF Changes
    <2>5. ASSUME NEW q \in Processes, NEW r \in Processes, NEW i \in Ids,
                 Changes(q, i)', Changes(r, i)', q # r
          PROVE  q \in mixed'
      <3>1. CASE q # p /\ r # p
        BY <2>2, <2>3, <2>5, <3>1
      <3>2. CASE q = p
        BY <2>2, <2>3, <2>4, <2>5, <3>2
      <3>3. CASE r = p
        BY <2>2, <2>3, <2>4, <2>5, <3>3
      <3> QED BY <3>1, <3>2, <3>3
    <2> QED BY <2>5
  <1>2. CASE MainWindow_new \/ RingChanges \/ Moves
    BY <1>2 DEF MainWindow_new, RingChanges, Moves, Changes
  <1>3. ASSUME NEW p \in Processes, Step(p) \/ WriteFails(p) \/ Crash(p)
        PROVE  OverlapsMixed'
    <2>1. /\ \A q \in Processes \ {p} : op'[q] = op[q]
          /\ mixed \ {p} \subseteq mixed'
          /\ \A id \in Ids : Changes(p, id)' => Changes(p, id) /\ mixed' = mixed
      BY <1>3, StepOf
    <2>2. \A q \in Processes \ {p}, id \in Ids : Changes(q, id)' = Changes(q, id)
      BY <2>1 DEF Changes
    <2> QED BY <2>1, <2>2
  <1> QED BY <1>1, <1>2, <1>3, Beginnings

\* No entry is made on a machine to come.
LEMMA MadeHereStays ==
  ASSUME IInv, Next
  PROVE  MadeHere'
  <1> USE DEF IInv, Typed, KeyringSoFar, MadeHere
  <1>1. machine \in Nat
    BY DEF KeysTyped
  <1>2. CASE UNCHANGED <<fallback, machine>>
    BY <1>2
  <1>3. CASE Moves
    <2>1. \A id \in Ids : fallback[id] # NULL => fallback[id].key.machine \in Nat
      BY DEF KeysTyped, Fallbacks, Keys
    <2> QED BY <1>1, <1>3, <2>1 DEF Moves
  <1>4. ASSUME NEW p \in Processes, SetFallback(p)
        PROVE  MadeHere'
    <2>1. ASSUME NEW id \in Ids, fallback'[id] # NULL
          PROVE  fallback'[id].key.machine <= machine
      BY <1>1, <1>4, <2>1 DEF SetFallback, Stored, KeysTyped, fallback_encrypt_v1, derive_key
    <2> QED BY <1>4, <2>1 DEF SetFallback
  <1>5. ASSUME NEW p \in Processes, DeleteFallback(p)
        PROVE  MadeHere'
    <2>1. \A id \in Ids : fallback'[id] = fallback[id] \/ fallback'[id] = NULL
      BY <1>5 DEF DeleteFallback, KeysTyped
    <2> QED BY <1>5, <2>1 DEF DeleteFallback
  <1>6. CASE Begins \/ MainWindow_new \/ RingChanges
    BY <1>2, <1>6 DEF Begins, Begin, MainWindow_new, RingChanges
  <1>7. ASSUME NEW p \in Processes, WriteFails(p) \/ Crash(p)
        PROVE  MadeHere'
    BY <1>2, <1>7 DEF WriteFails, Crash
  <1>8. ASSUME NEW p \in Processes, Step(p), ~SetFallback(p), ~DeleteFallback(p)
        PROVE  MadeHere'
    BY <1>2, <1>8 DEF Step, Load, Truncate, Write, SetPrimary, DeletePrimary, GetPrimary,
       GetFallback
  <1> QED BY <1>3, <1>4, <1>5, <1>6, <1>7, <1>8, Beginnings

\* A step that leaves the entries of a connection alone, and neither ends nor
\* begins a change of them.
LEMMA KeyringLeft ==
  ASSUME IInv, NEW id \in Ids, NEW p \in Processes, UNCHANGED machine,
         primary'[id] = primary[id], fallback'[id] = fallback[id], secret'[id] = secret[id],
         left[id] => left'[id],
         \A q \in Processes \ {p} : pc'[q] = pc[q] /\ op'[q] = op[q],
         mixed \ {p} \subseteq mixed',
         Changes(p, id) /\ Pending(p) =>
           /\ Changes(p, id)' /\ Value(p)' = Value(p) /\ Pending(p)'
           /\ pc[p] = "delf" => pc'[p] = "delf",
         Changes(p, id)' /\ Pending(p)' =>
           /\ Changes(p, id) /\ Value(p)' = Value(p) /\ Pending(p)
           /\ pc'[p] = "delf" => pc[p] = "delf"
           /\ p \in mixed => p \in mixed'
  PROVE  KeyringAt(id)'
  <1> SUFFICES ASSUME ~left'[id]
               PROVE  /\ primary'[id] # NULL => primary'[id] \in Allowed(id)'
                      /\ (primary'[id] = NULL /\
                            \A q \in Processes : Changes(q, id)' => pc'[q] # "delf") =>
                           load_password(id)' \in Allowed(id)' \/ Foreign(id)'
                      /\ \A q \in Processes : (Changes(q, id)' /\ q \notin mixed') =>
                           /\ pc'[q] = "delf" => primary'[id] = NULL
                           /\ q = Gtk /\ pc'[q] \in {"trunc", "write"} =>
                                load_password(id)' = Value(q)'
    BY DEF KeyringAt
  <1>1. KeyringAt(id) /\ ~left[id]
    BY DEF IInv, KeyringSoFar
  <1>2. load_password(id)' = load_password(id) /\ Foreign(id)' = Foreign(id)
    BY DEF load_password, fallback_decrypt_v1, derive_key, Foreign
  <1>3. ASSUME NEW q \in Processes, q # p
        PROVE  /\ Changes(q, id)' = Changes(q, id) /\ Value(q)' = Value(q)
               /\ Pending(q)' = Pending(q) /\ (q \in mixed => q \in mixed')
    BY <1>3 DEF Changes, Value, Pending
  <1>4. ASSUME NEW q \in Processes, Changes(q, id), Pending(q)
        PROVE  Changes(q, id)' /\ Pending(q)' /\ Value(q)' = Value(q)
    BY <1>3, <1>4
  <1>5. ASSUME NEW q \in Processes, Changes(q, id)', Pending(q)'
        PROVE  /\ Changes(q, id) /\ Pending(q) /\ Value(q)' = Value(q)
               /\ q \in mixed => q \in mixed'
    BY <1>3, <1>5
  <1>6. Allowed(id) \subseteq Allowed(id)'
    BY <1>4 DEF Allowed
  <1>7. ASSUME NEW q \in Processes, Changes(q, id), pc[q] = "delf"
        PROVE  Changes(q, id)' /\ pc'[q] = "delf"
    BY <1>3, <1>7 DEF Pending
  <1>8. ASSUME NEW q \in Processes, Changes(q, id)', q \notin mixed'
        PROVE  /\ pc'[q] = "delf" => primary'[id] = NULL
               /\ q = Gtk /\ pc'[q] \in {"trunc", "write"} => load_password(id)' = Value(q)'
    <2>1. CASE pc'[q] = "delf"
      <3>1. Changes(q, id) /\ q \notin mixed
        BY <1>5, <1>8, <2>1 DEF Pending
      <3>2. pc[q] = "delf"
        BY <2>1, <1>8 DEF Pending
      <3> QED BY <1>1, <2>1, <3>1, <3>2 DEF KeyringAt
    <2>2. CASE q = Gtk /\ pc'[q] \in {"trunc", "write"}
      <3>1. Changes(q, id) /\ Pending(q) /\ Value(q)' = Value(q) /\ q \notin mixed
        BY <1>5, <1>8, <2>2 DEF Pending
      <3>2. pc[q] # "delf"
        BY <1>7, <2>2, <3>1
      <3>3. pc[q] \in {"trunc", "write"}
        BY <3>1, <3>2 DEF Pending
      <3> QED BY <1>1, <1>2, <2>2, <3>1, <3>3 DEF KeyringAt
    <2> QED BY <2>1, <2>2
  <1>9. primary'[id] # NULL => primary'[id] \in Allowed(id)'
    BY <1>1, <1>6 DEF KeyringAt
  <1>10. ASSUME primary'[id] = NULL, \A q \in Processes : Changes(q, id)' => pc'[q] # "delf"
         PROVE  load_password(id)' \in Allowed(id)' \/ Foreign(id)'
    <2>1. \A q \in Processes : Changes(q, id) => pc[q] # "delf"
      BY <1>7, <1>10
    <2> QED BY <1>1, <1>2, <1>6, <1>10, <2>1 DEF KeyringAt
  <1> QED BY <1>8, <1>9, <1>10

\* A step that makes the entries of a connection what the operation says, or of
\* one that others overlap leaves them; the operation ends, or the window goes
\* on to its list.
LEMMA KeyringChanged ==
  ASSUME IInv, NEW id \in Ids, NEW p \in Processes, Changes(p, id), UNCHANGED machine,
         \A q \in Processes \ {p} : pc'[q] = pc[q] /\ op'[q] = op[q],
         mixed \ {p} \subseteq mixed',
         ~left'[id] =>
           \/ load_password(id)' = Value(p)
           \/ /\ ~left[id] /\ p \in mixed /\ primary'[id] = primary[id]
              /\ primary[id] # NULL \/ (fallback'[id] = fallback[id] /\ pc[p] # "delf"),
         \/ /\ ~Changes(p, id)'
            /\ secret'[id] = IF p \in mixed THEN secret[id] \cup {Value(p)} ELSE {Value(p)}
         \/ /\ Value(p)' = Value(p) /\ Changes(p, id)' /\ mixed' = mixed
            /\ p = Gtk /\ pc'[p] \in {"trunc", "write"} /\ secret'[id] = secret[id]
  PROVE  KeyringAt(id)'
  <1> SUFFICES ASSUME ~left'[id]
               PROVE  /\ primary'[id] # NULL => primary'[id] \in Allowed(id)'
                      /\ (primary'[id] = NULL /\
                            \A q \in Processes : Changes(q, id)' => pc'[q] # "delf") =>
                           load_password(id)' \in Allowed(id)' \/ Foreign(id)'
                      /\ \A q \in Processes : (Changes(q, id)' /\ q \notin mixed') =>
                           /\ pc'[q] = "delf" => primary'[id] = NULL
                           /\ q = Gtk /\ pc'[q] \in {"trunc", "write"} =>
                                load_password(id)' = Value(q)'
    BY DEF KeyringAt
  <1>1. ASSUME NEW q \in Processes, q # p
        PROVE  /\ Changes(q, id)' = Changes(q, id) /\ Value(q)' = Value(q)
               /\ Pending(q)' = Pending(q) /\ pc'[q] = pc[q]
    BY <1>1 DEF Changes, Value, Pending
  <1>2. ASSUME NEW q \in Processes, q # p, Changes(q, id)'
        PROVE  p \in mixed /\ q \in mixed'
    <2>1. p \in mixed /\ q \in mixed
      BY <1>1, <1>2 DEF IInv, KeyringSoFar, OverlapsMixed
    <2> QED BY <1>2, <2>1
  <1>3. Value(p) \in Allowed(id)'
    BY DEF Allowed, Pending
  <1>4. ASSUME p \in mixed
        PROVE  Allowed(id) \subseteq Allowed(id)'
    BY <1>1, <1>3, <1>4 DEF Allowed
  <1>5. CASE load_password(id)' = Value(p)
    <2>1. primary'[id] # NULL => primary'[id] = Value(p)
      BY <1>5 DEF load_password
    <2>2. ASSUME NEW q \in Processes, Changes(q, id)', q \notin mixed'
          PROVE  /\ pc'[q] = "delf" => primary'[id] = NULL
                 /\ q = Gtk /\ pc'[q] \in {"trunc", "write"} => load_password(id)' = Value(q)'
      <3>1. q = p
        BY <1>2, <2>2
      <3> QED BY <1>5, <2>2, <3>1
    <2> QED BY <1>3, <1>5, <2>1, <2>2
  <1>6. CASE /\ ~left[id] /\ p \in mixed /\ primary'[id] = primary[id]
             /\ primary[id] # NULL \/ (fallback'[id] = fallback[id] /\ pc[p] # "delf")
    <2>1. KeyringAt(id)
      BY DEF IInv, KeyringSoFar
    <2>2. primary'[id] # NULL => primary'[id] \in Allowed(id)'
      BY <1>4, <1>6, <2>1 DEF KeyringAt
    <2>3. ASSUME primary'[id] = NULL, \A q \in Processes : Changes(q, id)' => pc'[q] # "delf"
          PROVE  load_password(id)' \in Allowed(id)' \/ Foreign(id)'
      <3>1. \A q \in Processes : Changes(q, id) => pc[q] # "delf"
        BY <1>1, <1>6, <2>3
      <3>2. load_password(id) \in Allowed(id) \/ Foreign(id)
        BY <1>6, <2>1, <2>3, <3>1 DEF KeyringAt
      <3>3. load_password(id)' = load_password(id) /\ Foreign(id)' = Foreign(id)
        BY <1>6, <2>3 DEF load_password, fallback_decrypt_v1, derive_key, Foreign
      <3> QED BY <1>4, <1>6, <3>2, <3>3
    <2>4. ASSUME NEW q \in Processes, Changes(q, id)'
          PROVE  q \in mixed'
      BY <1>2, <1>6, <2>4
    <2> QED BY <2>2, <2>3, <2>4
  <1> QED BY <1>5, <1>6

\* What the steps of one process do to the entries of its connection.
LEMMA KeyringOfStep ==
  ASSUME IInv, NEW p \in Processes, Step(p) \/ WriteFails(p) \/ Crash(p),
         NEW id \in Ids, Changes(p, id)
  PROVE  KeyringAt(id)'
  <1> USE DEF IInv, Typed, OpsTyped
  <1>1. /\ \A q \in Processes \ {p} : pc'[q] = pc[q] /\ op'[q] = op[q]
        /\ mixed \ {p} \subseteq mixed'
        /\ Changes(p, id)' => Value(p)' = Value(p) /\ mixed' = mixed
    BY StepOf
  <1>2. /\ op[p].id = id /\ op[p].kind \in {"save", "delete"} /\ op[p].v \in Secret
        /\ op[p].kind = "save" => op[p].keep /\ op[p].v \in Versions
        /\ pc[p] \notin {"idle", "down", "getp", "getf"}
    BY DEF Changes, OpAt, PointOf
  <1>3. KeyringAt(id)
    BY DEF KeyringSoFar
  <1>4. ASSUME Settled(p), op'[p] = NoOp
        PROVE  /\ ~Changes(p, id)'
               /\ secret'[id] = IF p \in mixed THEN secret[id] \cup {Value(p)} ELSE {Value(p)}
    BY <1>4 DEF Settled, Changes
  <1>5. ASSUME UNCHANGED <<machine>>, primary'[id] = primary[id], fallback'[id] = fallback[id],
               load_password(id)' \in {load_password(id)},
               ~left'[id] => ~left[id], p = Gtk /\ pc[p] \in {"trunc", "write"}
        PROVE  ~left'[id] =>
                 \/ load_password(id)' = Value(p)
                 \/ /\ ~left[id] /\ p \in mixed /\ primary'[id] = primary[id]
                    /\ fallback'[id] = fallback[id] /\ pc[p] # "delf"
    BY <1>3, <1>5 DEF KeyringAt
  <1>6. ASSUME NEW r, r = p, UNCHANGED <<machine, primary, fallback>>
        PROVE  load_password(id)' = load_password(id)
    BY <1>6 DEF load_password, fallback_decrypt_v1, derive_key
  <1>7. CASE Load(p) \/ GetPrimary(p) \/ GetFallback(p)
    <2>1. /\ UNCHANGED <<machine, primary, fallback, secret, left>> /\ pc[p] = "load"
          /\ pc'[p] \in {"idle", "trunc"} /\ p # Gtk
      BY <1>2, <1>7 DEF Load, GetPrimary, GetFallback, OpAt, PointOf
    <2>2. ~Pending(p) /\ ~Pending(p)'
      BY <2>1 DEF Pending
    <2> QED BY <1>1, <2>1, <2>2, KeyringLeft
  <1>8. CASE Truncate(p)
    <2>1. /\ UNCHANGED <<machine, primary, fallback, secret, left, op, mixed>>
          /\ pc[p] = "trunc" /\ pc'[p] = "write"
      BY <1>8 DEF Truncate
    <2>2. Pending(p)' = Pending(p) /\ Value(p)' = Value(p) /\ Changes(p, id)' = Changes(p, id)
      BY <2>1 DEF Pending, Value, Changes
    <2> QED BY <1>1, <2>1, <2>2, KeyringLeft
  <1>9. CASE Write(p)
    <2>1. UNCHANGED <<machine, primary, fallback, left>> /\ pc[p] = "write"
      BY <1>9 DEF Write
    <2>2. CASE p # Gtk
      <3>1. UNCHANGED <<secret, op>> /\ pc'[p] \in {"delp", "setp"}
        BY <1>2, <1>9, <2>2 DEF Write
      <3>2. ~Pending(p) /\ ~Pending(p)'
        BY <2>1, <2>2, <3>1 DEF Pending
      <3> QED BY <1>1, <2>1, <3>1, <3>2, KeyringLeft
    <2>3. CASE p = Gtk
      <3>1. Settled(p) /\ op'[p] = NoOp
        BY <1>9, <2>3 DEF Write
      <3> QED BY <1>1, <1>4, <1>5, <1>6, <2>1, <2>3, <3>1, KeyringChanged
    <2> QED BY <2>2, <2>3
  <1>10. CASE WriteFails(p)
    <2>1. /\ UNCHANGED <<machine, primary, fallback, left>> /\ pc[p] \in {"trunc", "write"}
          /\ op'[p] = NoOp /\ pc'[p] = "idle"
          /\ IF Pending(p) THEN Settled(p) ELSE UNCHANGED secret
      BY <1>10 DEF WriteFails
    <2>2. CASE Pending(p)
      <3>1. p = Gtk
        BY <2>1, <2>2 DEF Pending
      <3> QED BY <1>1, <1>4, <1>5, <1>6, <2>1, <2>2, <3>1, KeyringChanged
    <2>3. CASE ~Pending(p)
      <3>1. ~Pending(p)'
        BY <2>1 DEF Pending
      <3> QED BY <1>1, <2>1, <2>3, <3>1, KeyringLeft
    <2> QED BY <2>2, <2>3
  <1>11. CASE Crash(p)
    <2>1. /\ UNCHANGED <<machine, primary, fallback>>
          /\ op'[p] = NoOp /\ pc'[p] \in {"idle", "down"}
          /\ IF Pending(p) THEN Settled(p) ELSE UNCHANGED secret
          /\ pc[p] # "delf" => UNCHANGED left
          /\ pc[p] = "delf" => (left'[id] <=> (left[id] \/ fallback[id] # NULL))
      BY <1>2, <1>11 DEF Crash, Leaves, KeysTyped
    <2>2. CASE pc[p] = "delf"
      <3>1. Pending(p) /\ Value(p) = NULL
        BY <1>2, <2>2 DEF Pending, Value, OpAt, PointOf
      <3>2. ASSUME ~left'[id]
            PROVE  \/ load_password(id)' = Value(p)
                   \/ ~left[id] /\ p \in mixed /\ primary[id] # NULL
        <4>1. ~left[id] /\ fallback[id] = NULL
          BY <2>1, <2>2, <3>2
        <4>2. CASE primary[id] = NULL
          BY <2>1, <3>1, <4>1, <4>2 DEF load_password
        <4>3. CASE primary[id] # NULL
          BY <1>3, <2>2, <4>1, <4>3 DEF KeyringAt
        <4> QED BY <4>2, <4>3
      <3> QED BY <1>1, <1>4, <2>1, <3>1, <3>2, KeyringChanged
    <2>3. CASE pc[p] # "delf" /\ Pending(p)
      <3>1. p = Gtk /\ pc[p] \in {"trunc", "write"}
        BY <2>3 DEF Pending
      <3> QED BY <1>1, <1>4, <1>5, <1>6, <2>1, <2>3, <3>1, KeyringChanged
    <2>4. CASE ~Pending(p)
      <3>1. ~Pending(p)' /\ pc[p] # "delf"
        BY <2>1, <2>4 DEF Pending
      <3> QED BY <1>1, <2>1, <2>4, <3>1, KeyringLeft
    <2> QED BY <2>2, <2>3, <2>4
  <1>12. ASSUME Stored(p, TRUE), pc[p] \in {"setp", "setf"}, UNCHANGED machine,
                ~left'[id] => load_password(id)' = op[p].v
         PROVE  KeyringAt(id)'
    <2>1. op[p].kind = "save" /\ Value(p) = op[p].v
      BY <1>12 DEF OpAt, PointOf, Value
    <2>2. CASE p = Gtk
      <3>1. /\ pc'[p] = "trunc" /\ secret' = secret /\ mixed' = mixed
            /\ op' = [op EXCEPT ![p].keep = TRUE]
        BY <1>12, <2>2 DEF Stored
      <3>2. Changes(p, id)'
        BY <1>2, <2>1, <3>1 DEF Changes
      <3> QED BY <1>1, <1>12, <2>1, <2>2, <3>1, <3>2, KeyringChanged
    <2>3. CASE p # Gtk
      <3>1. Settled(p) /\ op'[p] = NoOp
        BY <1>12, <2>3 DEF Stored
      <3> QED BY <1>1, <1>4, <1>12, <2>1, <3>1, KeyringChanged
    <2> QED BY <2>2, <2>3
  <1>13. CASE SetPrimary(p)
    <2>1. pc[p] = "setp" /\ UNCHANGED <<machine, fallback>>
      BY <1>13 DEF SetPrimary
    <2>2. CASE ring
      <3>1. primary' = [primary EXCEPT ![op[p].id] = op[p].v] /\ Stored(p, TRUE)
        BY <1>13, <2>2 DEF SetPrimary
      <3>2. op[p].kind = "save" /\ op[p].v # NULL
        BY <1>2, <2>1, StoreAssumption DEF OpAt, PointOf
      <3>3. load_password(id)' = op[p].v
        BY <1>2, <3>1, <3>2 DEF load_password, KeysTyped
      <3> QED BY <1>12, <2>1, <3>1, <3>3
    <2>3. CASE ~ring
      <3>1. UNCHANGED <<primary, secret, left>> /\ pc'[p] = "setf"
        BY <1>13, <2>3 DEF SetPrimary
      <3>2. ~Pending(p) /\ ~Pending(p)'
        BY <2>1, <3>1 DEF Pending
      <3> QED BY <1>1, <2>1, <3>1, <3>2, KeyringLeft
    <2> QED BY <2>2, <2>3
  <1>14. CASE SetFallback(p)
    <2>1. pc[p] = "setf" /\ UNCHANGED <<machine, primary>>
      BY <1>14 DEF SetFallback
    <2>2. CASE ring
      <3>1. /\ fallback' = [fallback EXCEPT ![op[p].id] = fallback_encrypt_v1(op[p].id, op[p].v)]
            /\ Stored(p, TRUE) /\ (left'[id] <=> primary[id] # NULL)
        BY <1>2, <1>14, <2>2 DEF SetFallback, Leaves, KeysTyped
      <3>2. fallback'[id] = fallback_encrypt_v1(id, op[p].v) /\ fallback'[id] # NULL
        <4>1. fallback'[id] = fallback_encrypt_v1(id, op[p].v)
          BY <1>2, <3>1 DEF KeysTyped
        <4>2. fallback_encrypt_v1(id, op[p].v) # NULL
          BY <1>2, <2>1, StoreAssumption DEF fallback_encrypt_v1, derive_key, KeysTyped,
                Fallbacks, Keys, OpAt, PointOf
        <4> QED BY <4>1, <4>2
      <3>3. ~left'[id] => load_password(id)' = op[p].v
        BY <2>1, <3>1, <3>2 DEF load_password, fallback_decrypt_v1, fallback_encrypt_v1, derive_key
      <3> QED BY <1>12, <2>1, <3>1, <3>3
    <2>3. CASE ~ring
      <3>1. UNCHANGED <<fallback, left, secret>> /\ Stored(p, FALSE)
        BY <1>14, <2>3 DEF SetFallback, Stored
      <3>2. op[p].kind = "save"
        BY <2>1 DEF OpAt, PointOf
      <3>3. ~Changes(p, id)'
        BY <3>1, <3>2 DEF Stored, Changes
      <3>4. ~Pending(p)
        BY <2>1 DEF Pending
      <3> QED BY <1>1, <2>1, <3>1, <3>3, <3>4, KeyringLeft
    <2> QED BY <2>2, <2>3
  <1>15. CASE DeletePrimary(p)
    <2>1. /\ pc[p] = "delp" /\ UNCHANGED <<machine, fallback, secret, op, mixed>>
          /\ pc'[p] = "delf"
      BY <1>15 DEF DeletePrimary
    <2>2. ~left'[id] => primary'[id] = NULL
      BY <1>2, <1>15 DEF DeletePrimary, Leaves, KeysTyped
    <2>3. Changes(p, id)'
      BY <2>1 DEF Changes
    <2>4. ASSUME NEW q \in Processes, q # p, Changes(q, id)'
          PROVE  q \in mixed'
      <3>1. Changes(q, id)
        BY <2>1, <2>4 DEF Changes
      <3> QED BY <2>1, <2>4, <3>1 DEF KeyringSoFar, OverlapsMixed
    <2>5. p = Gtk => pc'[p] \notin {"trunc", "write"}
      BY <2>1
    <2> QED BY <2>1, <2>2, <2>3, <2>4, <2>5 DEF KeyringAt
  <1>16. CASE DeleteFallback(p)
    <2>1. /\ pc[p] = "delf" /\ UNCHANGED <<machine, primary>> /\ op[p].kind = "delete"
          /\ Value(p) = NULL
      BY <1>16 DEF DeleteFallback, OpAt, PointOf, Value
    <2>2. /\ ring => /\ fallback'[id] = NULL
                     /\ left'[id] <=> (left[id] /\ primary[id] # NULL)
          /\ ~ring => /\ fallback'[id] = fallback[id]
                      /\ left'[id] <=> (left[id] \/ fallback[id] # NULL)
      BY <1>2, <1>16 DEF DeleteFallback, Leaves, KeysTyped
    <2>3. ASSUME ~left'[id]
          PROVE  \/ load_password(id)' = Value(p)
                 \/ ~left[id] /\ p \in mixed /\ primary[id] # NULL
      <3>1. fallback'[id] = NULL /\ (primary[id] # NULL => ~left[id])
        BY <2>2, <2>3
      <3>2. CASE primary[id] = NULL
        BY <2>1, <3>1, <3>2 DEF load_password
      <3>3. CASE primary[id] # NULL
        BY <1>3, <2>1, <3>1, <3>3 DEF KeyringAt
      <3> QED BY <3>2, <3>3
    <2>4. CASE p = Gtk
      <3>1. pc'[p] = "trunc" /\ UNCHANGED <<op, mixed, secret>>
        BY <1>16, <2>4 DEF DeleteFallback
      <3>2. Changes(p, id)'
        BY <3>1 DEF Changes
      <3> QED BY <1>1, <2>1, <2>3, <2>4, <3>1, <3>2, KeyringChanged
    <2>5. CASE p # Gtk
      <3>1. Settled(p) /\ op'[p] = NoOp
        BY <1>16, <2>5 DEF DeleteFallback
      <3> QED BY <1>1, <1>4, <2>1, <2>3, <3>1, KeyringChanged
    <2> QED BY <2>4, <2>5
  <1> QED BY <1>7, <1>8, <1>9, <1>10, <1>11, <1>13, <1>14, <1>15, <1>16 DEF Step

\* A step of an operation leaves the entries of other connections alone.
LEMMA KeyringOfOthers ==
  ASSUME IInv, NEW p \in Processes, Step(p) \/ WriteFails(p) \/ Crash(p),
         NEW id \in Ids, ~Changes(p, id)
  PROVE  KeyringAt(id)'
  <1> USE DEF IInv, Typed, OpsTyped
  <1>1. /\ \A q \in Processes \ {p} : pc'[q] = pc[q] /\ op'[q] = op[q]
        /\ mixed \ {p} \subseteq mixed' /\ ~Changes(p, id)'
    BY StepOf
  <1>2. UNCHANGED machine
    BY DEF Step, Load, Truncate, Write, SetPrimary, SetFallback, DeletePrimary, DeleteFallback,
       GetPrimary, GetFallback, WriteFails, Crash
  <1>3. secret'[id] = secret[id]
    <2>1. UNCHANGED secret \/ Settled(p)
      BY DEF Step, Load, Truncate, Write, SetPrimary, SetFallback, Stored, DeletePrimary,
         DeleteFallback, GetPrimary, GetFallback, WriteFails, Crash
    <2> QED BY <2>1 DEF Settled
  <1>4. pc[p] \in {"setp", "setf", "delp", "delf"} => op[p].id # id
    BY DEF Changes, OpAt, PointOf
  <1>5. primary'[id] = primary[id] /\ fallback'[id] = fallback[id] /\ left'[id] = left[id]
    <2>1. CASE SetPrimary(p) \/ SetFallback(p)
      BY <1>4, <2>1 DEF SetPrimary, SetFallback, Leaves, KeysTyped
    <2>2. CASE DeletePrimary(p) \/ DeleteFallback(p)
      BY <1>4, <2>2 DEF DeletePrimary, DeleteFallback, Leaves, KeysTyped
    <2>3. CASE WriteFails(p) \/ Crash(p)
      BY <1>4, <2>3 DEF WriteFails, Crash, Leaves, KeysTyped
    <2>4. CASE Load(p) \/ Truncate(p) \/ Write(p) \/ GetPrimary(p) \/ GetFallback(p)
      BY <2>4 DEF Load, Truncate, Write, GetPrimary, GetFallback
    <2> QED BY <2>1, <2>2, <2>3, <2>4 DEF Step
  <1> QED BY <1>1, <1>2, <1>3, <1>5, KeyringLeft

\* The entries of each connection stay what its operations may have made them.
LEMMA KeyringStays ==
  ASSUME IInv, Next
  PROVE  KeyringSoFar'
  <1> USE DEF IInv, Typed, OpsTyped
  <1> SUFFICES ASSUME NEW id \in Ids
               PROVE  KeyringAt(id)'
    BY OverlapsStay, MadeHereStays DEF KeyringSoFar
  <1>1. CASE Begins
    <2>1. PICK p \in Processes, kind \in {"save", "delete", "connect"}, i \in Ids, v \in Secret,
               keep \in BOOLEAN, label \in {"load", "setp", "delp"} :
            Begin(p, kind, i, v, keep, label)
      BY <1>1 DEF Begins
    <2>2. /\ UNCHANGED <<primary, fallback, machine, secret, left>>
          /\ pc' = [pc EXCEPT ![p] = label] /\ pc[p] = "idle"
          /\ \A q \in Processes \ {p} : op'[q] = op[q]
          /\ mixed \subseteq mixed'
      BY <2>1 DEF Begin
    <2>3. ~Pending(p) /\ ~Pending(p)'
      BY <2>2 DEF Pending
    <2> QED BY <2>2, <2>3, KeyringLeft
  <1>2. CASE MainWindow_new
    <2>1. /\ UNCHANGED <<primary, fallback, machine, secret, left, op, mixed>>
          /\ pc' = [pc EXCEPT ![Gtk] = "idle"] /\ pc[Gtk] = "down"
      BY <1>2 DEF MainWindow_new
    <2>2. ~Pending(Gtk) /\ ~Pending(Gtk)'
      BY <2>1 DEF Pending
    <2> QED BY <2>1, <2>2, KeyringLeft
  <1>3. CASE RingChanges
    <2>1. UNCHANGED <<primary, fallback, machine, secret, left, op, mixed, pc>>
      BY <1>3 DEF RingChanges
    <2>2. /\ Pending(Gtk)' = Pending(Gtk) /\ Value(Gtk)' = Value(Gtk)
          /\ Changes(Gtk, id)' = Changes(Gtk, id)
      BY <2>1 DEF Pending, Value, Changes
    <2> QED BY <2>1, <2>2, KeyringLeft
  <1>4. CASE Moves
    <2>1. /\ UNCHANGED <<primary, fallback, secret, left, op, mixed, pc>> /\ machine' = machine + 1
          /\ \A q \in Processes : pc[q] \in {"idle", "down"}
      BY <1>4 DEF Moves, Processes
    <2>2. \A q \in Processes : ~Changes(q, id) /\ ~Changes(q, id)'
      BY <2>1 DEF Changes, OpAt, PointOf
    <2>3. Allowed(id)' = Allowed(id)
      BY <2>1, <2>2 DEF Allowed
    <2>4. KeyringAt(id) /\ (fallback[id] # NULL => fallback[id].key.machine <= machine)
      BY DEF KeyringSoFar, MadeHere
    <2>5. fallback[id] # NULL => fallback[id].key.machine # machine + 1
      BY <2>4 DEF KeysTyped, Fallbacks, Keys
    <2>6. ASSUME ~left'[id], primary[id] = NULL
          PROVE  load_password(id)' \in Allowed(id)' \/ Foreign(id)'
      <3>1. CASE fallback[id] # NULL
        BY <2>1, <2>5, <2>6, <3>1 DEF Foreign
      <3>2. CASE fallback[id] = NULL
        <4>1. load_password(id) \in Allowed(id)
          BY <2>1, <2>2, <2>4, <2>6, <3>2 DEF KeyringAt, Foreign
        <4> QED BY <2>1, <2>3, <2>6, <3>2, <4>1 DEF load_password
      <3> QED BY <3>1, <3>2
    <2> QED BY <2>1, <2>2, <2>3, <2>4, <2>6 DEF KeyringAt
  <1>5. ASSUME NEW p \in Processes, Step(p) \/ WriteFails(p) \/ Crash(p)
        PROVE  KeyringAt(id)'
    BY <1>5, KeyringOfStep, KeyringOfOthers
  <1> QED BY <1>1, <1>2, <1>3, <1>4, <1>5, Beginnings

\* Every password in the keyring was kept, and so is every one that is read.
LEMMA KeptStays ==
  ASSUME IInv, Next
  PROVE  Kept'
  <1> USE DEF IInv, Typed, OpsTyped
  <1>1. ASSUME UNCHANGED <<primary, fallback, machine>>,
               \A id \in Ids : issued[id] \subseteq issued'[id],
               \A q \in Processes : got'[q] = got[q] \/ got'[q] = NULL
        PROVE  Kept'
    <2>1. GotWasKept'
      BY <1>1 DEF Kept, GotWasKept
    <2> QED BY <1>1, <2>1 DEF Kept
  <1>2. CASE Begins \/ MainWindow_new \/ RingChanges
    BY <1>1, <1>2 DEF Begins, Begin, MainWindow_new, RingChanges
  <1>3. CASE Moves
    BY <1>3 DEF Moves, Kept, GotWasKept
  <1>4. ASSUME NEW p \in Processes, WriteFails(p) \/ Crash(p) \/ Load(p) \/ Truncate(p) \/ Write(p)
        PROVE  Kept'
    BY <1>1, <1>4 DEF WriteFails, Crash, Load, Truncate, Write
  <1>5. ASSUME UNCHANGED <<got, machine>>, \A id \in Ids : issued[id] \subseteq issued'[id]
        PROVE  GotWasKept'
    BY <1>5 DEF Kept, GotWasKept
  <1>6. ASSUME NEW p \in Processes, SetPrimary(p)
        PROVE  Kept'
    <2>1. op[p].id \in Ids
      BY <1>6 DEF SetPrimary, OpAt, PointOf
    <2>2. \A id \in Ids : issued[id] \subseteq issued'[id]
      BY <1>6 DEF SetPrimary, Stored, KeysTyped
    <2>3. GotWasKept'
      BY <1>5, <1>6, <2>2 DEF SetPrimary
    <2>4. ASSUME NEW id \in Ids
          PROVE  primary'[id] # NULL => <<primary'[id], Anywhere>> \in issued'[id]
      <3>1. CASE primary'[id] = primary[id]
        BY <2>2, <3>1 DEF Kept, Anywhere
      <3>2. CASE /\ primary' = [primary EXCEPT ![op[p].id] = op[p].v] /\ id = op[p].id
                 /\ issued' = [issued EXCEPT ![op[p].id] = @ \cup {<<op[p].v, Anywhere>>}]
        BY <3>2 DEF KeysTyped
      <3> QED BY <1>6, <3>1, <3>2 DEF SetPrimary, KeysTyped
    <2>5. UNCHANGED fallback
      BY <1>6 DEF SetPrimary
    <2> QED BY <2>2, <2>3, <2>4, <2>5 DEF Kept, Anywhere
  <1>7. ASSUME NEW p \in Processes, SetFallback(p)
        PROVE  Kept'
    <2>1. op[p].id \in Ids
      BY <1>7 DEF SetFallback, OpAt, PointOf
    <2>2. \A id \in Ids : issued[id] \subseteq issued'[id]
      BY <1>7 DEF SetFallback, Stored, KeysTyped
    <2>3. GotWasKept'
      BY <1>5, <1>7, <2>2 DEF SetFallback
    <2>4. ASSUME NEW id \in Ids
          PROVE  fallback'[id] # NULL =>
                   /\ <<fallback'[id].plain, fallback'[id].key.machine>> \in issued'[id]
                   /\ fallback'[id].aad = id
      <3>1. CASE fallback'[id] = fallback[id]
        BY <2>2, <3>1 DEF Kept
      <3>2. CASE /\ fallback' = [fallback EXCEPT ![op[p].id] =
                                 fallback_encrypt_v1(op[p].id, op[p].v)]
                 /\ issued' = [issued EXCEPT ![op[p].id] = @ \cup {<<op[p].v, machine>>}]
                 /\ id = op[p].id
        BY <3>2 DEF KeysTyped, fallback_encrypt_v1, derive_key
      <3> QED BY <1>7, <3>1, <3>2 DEF SetFallback, KeysTyped
    <2>5. UNCHANGED primary
      BY <1>7 DEF SetFallback
    <2> QED BY <2>2, <2>3, <2>4, <2>5 DEF Kept, Anywhere
  <1>8. ASSUME NEW p \in Processes, DeletePrimary(p) \/ DeleteFallback(p)
        PROVE  Kept'
    <2>1. UNCHANGED <<got, machine, issued>>
      BY <1>8 DEF DeletePrimary, DeleteFallback
    <2>2. GotWasKept'
      BY <1>5, <2>1
    <2>3. ASSUME NEW id \in Ids
          PROVE  /\ primary'[id] = primary[id] \/ primary'[id] = NULL
                 /\ fallback'[id] = fallback[id] \/ fallback'[id] = NULL
      BY <1>8 DEF DeletePrimary, DeleteFallback, KeysTyped
    <2> QED BY <2>1, <2>2, <2>3 DEF Kept, Anywhere
  <1>9. ASSUME NEW p \in Processes, NEW pw, UNCHANGED <<primary, fallback, machine, issued>>,
               got' = [got EXCEPT ![p] = [id |-> op[p].id, pw |-> pw]],
               pw # NULL => {<<pw, Anywhere>>, <<pw, machine>>} \cap issued[op[p].id] # {}
        PROVE  Kept'
    <2>1. ASSUME NEW q \in Workers, got'[q] # NULL, got'[q].pw # NULL
          PROVE  {<<got'[q].pw, Anywhere>>, <<got'[q].pw, machine>>} \cap issued[got'[q].id] # {}
      BY <1>9, <2>1 DEF Kept, GotWasKept
    <2>2. GotWasKept'
      BY <1>9, <2>1 DEF GotWasKept, Anywhere
    <2> QED BY <1>9, <2>2 DEF Kept
  <1>10. ASSUME NEW p \in Processes, GetPrimary(p)
         PROVE  Kept'
    <2>1. op[p].id \in Ids
      BY <1>10 DEF GetPrimary, OpAt, PointOf
    <2>2. CASE ring /\ primary[op[p].id] # NULL
      <3>1. <<primary[op[p].id], Anywhere>> \in issued[op[p].id]
        BY <2>1, <2>2 DEF Kept
      <3> QED BY <1>9, <1>10, <2>2, <3>1 DEF GetPrimary
    <2>3. CASE ~(ring /\ primary[op[p].id] # NULL)
      BY <1>1, <1>10, <2>3 DEF GetPrimary
    <2> QED BY <2>2, <2>3
  <1>11. ASSUME NEW p \in Processes, GetFallback(p)
         PROVE  Kept'
    <2>1. op[p].id \in Ids
      BY <1>11 DEF GetFallback, OpAt, PointOf
    <2> DEFINE pw == IF ring /\ fallback[op[p].id] # NULL
                     THEN fallback_decrypt_v1(op[p].id, fallback[op[p].id]) ELSE NULL
    <2>2. pw # NULL => <<pw, machine>> \in issued[op[p].id]
      <3>1. PICK id \in Ids : id = op[p].id
        BY <2>1
      <3>2. fallback[id] # NULL =>
              <<fallback[id].plain, fallback[id].key.machine>> \in issued[id]
        BY DEF Kept
      <3> QED BY <3>1, <3>2 DEF fallback_decrypt_v1, derive_key
    <2>3. UNCHANGED <<primary, fallback, machine, issued>>
          /\ got' = [got EXCEPT ![p] = [id |-> op[p].id, pw |-> pw]]
      BY <1>11 DEF GetFallback
    <2> HIDE DEF pw
    <2> QED BY <1>9, <2>2, <2>3
  <1> QED BY <1>2, <1>3, <1>4, <1>6, <1>7, <1>8, <1>10, <1>11, Beginnings DEF Step

-----------------------------------------------------------------------------
(* The invariant, and what it says.                                        *)

\* At the start nothing is stored and nobody is at work.
LEMMA InitHolds == Init => IInv
  <1> SUFFICES ASSUME Init PROVE IInv
    OBVIOUS
  <1> USE DEF Init
  <1>1. FileTyped
    BY EmptySeq DEF FileTyped
  <1>2. KeysTyped
    BY DEF KeysTyped, Secret
  <1>3. OpsTyped
    <2>1. 0 \in 0 .. MaxOps /\ 0 \in 0 .. MaxFaults
      BY StoreAssumption
    <2> QED BY <2>1 DEF OpsTyped, Labels, Secret
  <1>4. OpAt
    BY StoreAssumption DEF OpAt, PointOf, Processes
  <1>5. FileThere /\ ListsUnique
    BY DEF FileThere, ListsUnique, Unique
  <1>6. Readable /\ Loaded = <<>>
    BY DEF Readable, Loaded
  <1>7. IdsUnique /\ StaysReadable
    BY <1>6 DEF IdsUnique, StaysReadable
  <1>8. NothingLost
    <2>1. Range(<<>>) = {}
      BY DEF Range
    <2> QED BY <1>6, <2>1, StoreAssumption DEF NothingLost, ListAt, Processes
  <1>9. KeyringSoFar
    BY DEF KeyringSoFar, KeyringAt, OverlapsMixed, MadeHere, Allowed, Changes, load_password
  <1>10. Kept
    BY GtkIsProcess DEF Kept, GotWasKept
  <1> QED BY <1>1, <1>2, <1>3, <1>4, <1>5, <1>7, <1>8, <1>9, <1>10 DEF IInv, Typed

\* A step that changes nothing keeps it.
LEMMA StutterKeeps ==
  ASSUME IInv, UNCHANGED vars
  PROVE  IInv'
  <1> USE DEF vars
  <1>1. Typed' /\ OpAt' /\ FileThere' /\ ListsUnique'
    BY DEF IInv, Typed, FileTyped, KeysTyped, OpsTyped, OpAt, PointOf, FileThere,
       ListsUnique, Unique
  <1>2. Readable' = Readable /\ Loaded' = Loaded
    BY SameFile
  <1>3. IdsUnique' /\ StaysReadable'
    BY <1>2 DEF IInv, IdsUnique, StaysReadable, Writing
  <1>4. \A q \in Processes : ListAt(q) => ListAt(q)'
    BY SameList
  <1>5. NothingLost'
    BY <1>2, <1>4 DEF IInv, NothingLost
  <1>6. KeyringSoFar' /\ Kept'
    BY DEF IInv, KeyringSoFar, KeyringAt, OverlapsMixed, MadeHere, Allowed, Foreign, Changes,
       Pending, Value, load_password, fallback_decrypt_v1, derive_key, Kept, GotWasKept
  <1> QED BY <1>1, <1>3, <1>5, <1>6 DEF IInv

\* Whatever processes save, delete, connect, fail or die, the file and the
\* keyring stay as the invariant says.
THEOREM Invariant == Spec => []IInv
  <1>1. IInv /\ Next => Typed'
    BY FileStays, KeysStay, OpsStay DEF Typed
  <1>2. IInv /\ Next => IInv'
    BY <1>1, OpAtStays, FileThereStays, ListsStayUnique, IdsStayUnique, ReadableStays,
       NothingIsLost, KeyringStays, KeptStays DEF IInv
  <1>3. IInv /\ UNCHANGED vars => IInv'
    BY StutterKeeps
  <1>4. IInv /\ [Next]_vars => IInv'
    <2> HIDE DEF process, keyring, passwords, history
    <2> QED BY <1>2, <1>3
  <1> QED BY InitHolds, <1>4, PTL DEF Spec

\* A file holds whole entries, is unreadable only after a process failed or
\* died over it or two wrote it at a time, and never has an id twice
\* (connection.rs save and load, upsert in daemon.rs).
THEOREM FileSound == Spec => []FileIsSound
  <1>1. IInv => TypeOK
    <2> SUFFICES ASSUME IInv PROVE TypeOK
      OBVIOUS
    <2> USE DEF IInv, Typed
    <2>1. ASSUME NEW S, NEW s \in Seq(S)
          PROVE  Range(s) \subseteq S
      BY <2>1, LenProperties DEF Range
    <2>2. file # NULL => Range(file) \subseteq Entries \cup {End}
      BY <2>1 DEF FileTyped
    <2>3. \A p \in Processes : Range(list[p]) \subseteq Entries
      BY <2>1 DEF FileTyped
    <2>4. ASSUME NEW id \in Ids
          PROVE  /\ primary[id] \in Versions \cup {NULL}
                 /\ fallback[id] # NULL => fallback[id].aad = id /\ fallback[id].plain \in Versions
      BY DEF KeysTyped, Fallbacks, Secret, Kept
    <2>5. ASSUME NEW p \in Workers
          PROVE  pc[p] \in {"idle", "load", "trunc", "write", "setp", "setf", "delp", "delf",
                            "getp", "getf"}
      BY StoreAssumption DEF OpsTyped, Labels, OpAt, PointOf
    <2>6. count \in 0 .. MaxOps /\ faults \in 0 .. MaxFaults
      BY DEF OpsTyped
    <2> QED BY <2>2, <2>3, <2>4, <2>5, <2>6 DEF TypeOK
  <1>2. IInv => FileIsSound
    BY <1>1 DEF IInv, FileIsSound
  <1> QED BY Invariant, <1>2, PTL

\* Unless a list that was out of date was written, a file that can be read
\* has every connection saved and not deleted, once (connection.rs save).
THEOREM NothingIsLostSilently == Spec => []NothingLostSilently
  <1>1. IInv => NothingLostSilently
    <2> SUFFICES ASSUME IInv, ~raced, Readable
                 PROVE  Len(Loaded) = Cardinality(acked) /\ Range(Loaded) = acked
      BY DEF NothingLostSilently
    <2>1. Range(Loaded) = acked
      BY DEF IInv, NothingLost
    <2>2. Loaded \in Seq(Entries) /\ Unique(Loaded)
      BY ReadableIs DEF IInv, IdsUnique, Unique
    <2> QED BY <2>1, <2>2, UniqueCounts
  <1> QED BY Invariant, <1>1, PTL

\* However operations overlap, fail or die, and whenever the keyring is out of
\* reach, the two entries of a connection give a password that the last
\* operations on it left, and none after a deletion or on another machine; only an
\* entry that outlived an outage or a death is excepted (crypto.rs store_password,
\* load_password, delete_password).
THEOREM KeyringHolds == Spec => []KeyringAgrees
  <1>1. IInv => KeyringAgrees
    BY DEF IInv, KeyringAgrees, KeyringSoFar, KeyringAt, Allowed, Foreign, load_password
  <1> QED BY Invariant, <1>1, PTL

\* No connection is opened with a password that was not kept for it, or with a
\* fallback entry of another machine (crypto.rs fallback_decrypt_v1).
THEOREM OnlyKept == Spec => []GotWasKept
  <1>1. IInv => GotWasKept
    BY DEF IInv, Kept
  <1> QED BY Invariant, <1>1, PTL

=============================================================================
