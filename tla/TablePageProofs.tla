--------------------------- MODULE TablePageProofs ---------------------------
(***************************************************************************)
(* The data tabs for any connections, tables and sizes of answers, and any *)
(* number of requests, edits and answers in any order.                     *)
(*                                                                         *)
(* A grid is good when its rows are the beginning of one answer, its rest  *)
(* the remainder, and only the row under edit was typed in (Good): whatever *)
(* happens to a tab.  While the history is calm, a grid, a request and a    *)
(* dialog are also about the table of their own tab (Own, RequestTrue,     *)
(* DialogTrue), which is what a write is made from.                        *)
(***************************************************************************)
EXTENDS TablePage, FiniteSetTheorems, SequenceTheorems, WellFoundedInduction, TLAPS

Results == Conn \X {Result}

\* A place without a table is partial: nothing is loaded from it.
Place == [of : Table \cup ((Conn \cup {NULL}) \X {NULL}), no : 0 .. MaxPage]
Partial(of) == NULL \in {of[1], of[2]}

Fetch == [op : {"fetch"}, of : Table, no : 0 .. MaxPage, tab : Table, object : Nat]

WindowSet == [place : Place, pages : [Tab -> Grid \cup {NULL}], current : Tab \cup {NULL},
              sent : Fetch \cup {NULL}]

\* The rows of a grid are those of page p of t, in order.
FromOne(page, t, p) ==
  /\ \A i \in DOMAIN page.rows : RowOf(page.rows[i]) = [of |-> t, page |-> p, nr |-> i]
  /\ \A i \in DOMAIN page.rest :
       page.rest[i] = [of |-> t, page |-> p, nr |-> Len(page.rows) + i,
                       text |-> "loaded", original |-> "loaded"]

Good(page) ==
  /\ page \in Grid /\ page.edit \in 0 .. Len(page.rows)
  /\ Len(page.rows) + Len(page.rest) <= MaxRows
  /\ \E t \in Tab, p \in 0 .. MaxPage : FromOne(page, t, p)
  /\ \A i \in DOMAIN page.rows :
       page.rows[i].original # "typed" /\ (page.rows[i].text = "typed" => page.edit = i)

\* A grid of the tab t itself, with no edit that was refused.
Own(page, t) ==
  /\ page.structure \in {t, NULL}
  /\ \E p \in 0 .. MaxPage : FromOne(page, t, p)
  /\ \A i \in DOMAIN page.rows : "refused" \notin {page.rows[i].text, page.rows[i].original}

Honest(at, on, front) ==
  /\ at \in Place /\ on \in [Tab -> Grid \cup {NULL}] /\ front \in Tab \cup {NULL}
  /\ \A t \in Tab : on[t] # NULL => Good(on[t])
  /\ front # NULL => on[front] # NULL
  /\ front = NULL => \A t \in Tab : on[t] = NULL

\* The place is that of the table in front, and grids show their own tables.
Owned(on) == \A t \in Table : on[t] # NULL => Own(on[t], t)
Placed(at, front) == front \in Table => at.of = front \/ Partial(at.of)

RequestFits(call) ==
  /\ call.op \in {"fetch", "structure", "query", "write"}
  /\ call.tab \in Tab
  /\ call.op = "fetch" => call \in Fetch
  /\ call.op = "query" => call.of = call.tab /\ call.tab \in Results
  /\ call.op = "structure" => call.tab \in Table

RequestTrue(call) ==
  /\ call.op = "fetch" => call.of = call.tab
  /\ call.op = "structure" /\ ~Partial(call.of) => call.of = call.tab
  /\ call.op = "write" /\ ~Partial(call.of) =>
       /\ call.of = call.tab /\ call.columns \in {call.of, NULL}
       /\ (call.keys = NULL) = (call.chosen = NULL)
       /\ call.keys # NULL => /\ call.keys.row = call.chosen /\ call.chosen.of = call.of
                              /\ call.keys.text \in {"loaded", "saved"}

DialogFits ==
  dialog # NULL => /\ dialog.tab = current /\ current \in Table
                   /\ dialog.kind \in {"insert", "edit", "duplicate", "delete"}

\* The row that was chosen is the row that will be written.
DialogTrue ==
  dialog # NULL =>
    /\ dialog.kind \in {"insert", "duplicate"} => dialog.chosen = NULL
    /\ dialog.kind = "edit" =>
         /\ dialog.row \in DOMAIN pages[dialog.tab].rows /\ pages[dialog.tab].edit = 0
         /\ dialog.chosen = RowOf(pages[dialog.tab].rows[dialog.row])
    /\ dialog.kind = "delete" =>
         /\ dialog.keys # NULL /\ dialog.chosen # NULL
         /\ dialog.keys.row = dialog.chosen /\ dialog.chosen.of = dialog.tab
         /\ dialog.keys.text \in {"loaded", "saved"}
         /\ dialog.columns \in {dialog.tab, NULL}

IInv ==
  /\ connected \subseteq Conn /\ closed \in [Tab -> Nat] /\ calm \in BOOLEAN
  /\ Honest(place, pages, current)
  /\ \A call \in BagToSet(calls) : RequestFits(call)
  /\ DialogFits
  /\ calm => /\ Placed(place, current) /\ Owned(pages) /\ DialogTrue
             /\ \A call \in BagToSet(calls) : RequestTrue(call)

-----------------------------------------------------------------------------
(* Numbers and sequences.                                                  *)

\* A set of numbers that is not empty has a least one.
LEMMA Least ==
  ASSUME NEW T \in SUBSET Nat, T # {}
  PROVE  \E n \in T : \A m \in T : n <= m
  <1>1. IsWellFoundedOn(OpToRel(<, Nat), Nat)
    BY NatLessThanWellFounded
  <1>2. PICK n \in T : \A m \in T : <<m, n>> \notin OpToRel(<, Nat)
    BY <1>1, WFMin
  <1>3. ASSUME NEW m \in T
        PROVE  n <= m
    <2>1. n \in Nat /\ m \in Nat /\ ~(m < n)
      BY <1>2 DEF OpToRel
    <2> QED BY <2>1
  <1> QED BY <1>3

\* One more number than those that have a bound has one.
LEMMA BoundedStep ==
  ASSUME NEW m \in Nat, m # 0, NEW g \in [1 .. m -> Nat],
         \A h \in [1 .. m - 1 -> Nat] : \E b \in Nat : \A i \in 1 .. m - 1 : h[i] <= b
  PROVE  \E b \in Nat : \A i \in 1 .. m : g[i] <= b
  <1>1. [i \in 1 .. m - 1 |-> g[i]] \in [1 .. m - 1 -> Nat]
    OBVIOUS
  <1>2. PICK b \in Nat : \A i \in 1 .. m - 1 : [j \in 1 .. m - 1 |-> g[j]][i] <= b
    BY <1>1
  <1>3. \A i \in 1 .. m - 1 : g[i] <= b
    BY <1>2
  <1>4. g[m] \in Nat /\ \A i \in 1 .. m : g[i] \in Nat /\ (i = m \/ i \in 1 .. m - 1)
    OBVIOUS
  <1>5. b + g[m] \in Nat /\ \A i \in 1 .. m : g[i] <= b + g[m]
    BY <1>3, <1>4
  <1> QED BY <1>5

\* Finitely many numbers have a bound.
LEMMA Bounded ==
  ASSUME NEW n \in Nat, NEW f \in [1 .. n -> Nat]
  PROVE  \E b \in Nat : \A i \in 1 .. n : f[i] <= b
  <1> DEFINE All(m) == \A g \in [1 .. m -> Nat] : \E b \in Nat : \A i \in 1 .. m : g[i] <= b
             T == {m \in Nat : ~All(m)}
  <1>1. ASSUME NEW m \in T, \A k \in T : m <= k
        PROVE  FALSE
    <2>1. m \in Nat /\ ~All(m)
      OBVIOUS
    <2>2. m # 0
      BY <2>1
    <2>3. m - 1 \in Nat /\ m - 1 \notin T
      <3> HIDE DEF All
      <3> QED BY <1>1, <2>1, <2>2
    <2>4. All(m - 1)
      <3> HIDE DEF All
      <3> QED BY <2>3
    <2>5. All(m)
      BY <2>1, <2>2, <2>4, BoundedStep
    <2> QED BY <2>1, <2>5
  <1>2. T = {}
    <2>1. T \in SUBSET Nat
      OBVIOUS
    <2> HIDE DEF T
    <2> QED BY <1>1, <2>1, Least
  <1>3. All(n)
    <2> HIDE DEF All
    <2> QED BY <1>2
  <1> QED BY <1>3

\* MaxRows is the size of the largest answer.
LEMMA Largest ==
  MaxRows \in Nat /\ \A n \in Sizes : n \in 0 .. MaxRows
  <1>1. Sizes \subseteq Nat /\ Sizes # {} /\ IsFiniteSet(Sizes)
    BY TablePageAssumption
  <1>2. PICK n \in Nat : ExistsBijection(1 .. n, Sizes)
    BY <1>1, FS_NatBijection
  <1>3. PICK f \in [1 .. n -> Nat] : \A s \in Sizes : \E i \in 1 .. n : f[i] = s
    BY <1>1, <1>2 DEF ExistsBijection, Bijection, Injection, Surjection
  <1> DEFINE U == {b \in Nat : \A s \in Sizes : s <= b}
  <1>4. U # {}
    <2>1. PICK b \in Nat : \A i \in 1 .. n : f[i] <= b
      BY Bounded
    <2>2. b \in U
      BY <1>3, <2>1
    <2> QED BY <2>2
  <1>5. PICK m \in U : \A b \in U : m <= b
    BY <1>4, Least
  <1>6. m \in Sizes
    <2>1. SUFFICES ASSUME m \notin Sizes PROVE FALSE
      OBVIOUS
    <2>2. \A s \in Sizes : s \in Nat /\ s <= m /\ s # m
      BY <1>1, <2>1
    <2>3. m \in Nat /\ m # 0
      <3>1. PICK s \in Sizes : TRUE
        BY <1>1
      <3>2. s \in Nat /\ s <= m /\ s # m /\ m \in Nat
        BY <2>2
      <3> QED BY <3>2
    <2>4. m - 1 \in Nat /\ \A s \in Sizes : s <= m - 1
      BY <2>2, <2>3
    <2>5. m - 1 \in U
      BY <2>4
    <2>6. m <= m - 1
      BY <1>5, <2>5
    <2> QED BY <2>3, <2>6
  <1>7. \A s \in Sizes : m >= s
    BY <1>1, <1>5
  <1>8. MaxRows \in Sizes /\ \A s \in Sizes : MaxRows >= s
    <2>1. MaxRows = CHOOSE x \in Sizes : \A y \in Sizes : x >= y
      BY DEF MaxRows, Max
    <2> HIDE DEF U
    <2> QED BY <1>6, <1>7, <2>1
  <1> QED BY <1>1, <1>8

\* The first k elements of a sequence, and the others.
LEMMA Split ==
  ASSUME NEW S, NEW s \in Seq(S), NEW k \in 0 .. Len(s)
  PROVE  /\ SubSeq(s, 1, k) \in Seq(S) /\ Len(SubSeq(s, 1, k)) = k
         /\ DOMAIN SubSeq(s, 1, k) = 1 .. k
         /\ \A i \in 1 .. k : SubSeq(s, 1, k)[i] = s[i]
         /\ SubSeq(s, k + 1, Len(s)) \in Seq(S) /\ Len(SubSeq(s, k + 1, Len(s))) = Len(s) - k
         /\ DOMAIN SubSeq(s, k + 1, Len(s)) = 1 .. Len(s) - k
         /\ \A i \in 1 .. Len(s) - k : SubSeq(s, k + 1, Len(s))[i] = s[k + i]
  <1>1. Len(s) \in Nat /\ DOMAIN s = 1 .. Len(s) /\ \A i \in 1 .. Len(s) : s[i] \in S
    BY LenProperties
  <1>2. /\ SubSeq(s, 1, k) \in Seq(S) /\ Len(SubSeq(s, 1, k)) = k
        /\ \A i \in 1 .. k : SubSeq(s, 1, k)[i] = s[i]
    BY <1>1, SubSeqProperties
  <1>3. /\ SubSeq(s, k + 1, Len(s)) \in Seq(S) /\ Len(SubSeq(s, k + 1, Len(s))) = Len(s) - k
        /\ \A i \in 1 .. Len(s) - k : SubSeq(s, k + 1, Len(s))[i] = s[k + i]
    <2>1. \A i \in k + 1 .. Len(s) : s[i] \in S
      BY <1>1
    <2>2. /\ SubSeq(s, k + 1, Len(s)) \in Seq(S)
          /\ Len(SubSeq(s, k + 1, Len(s))) = IF k + 1 <= Len(s) THEN Len(s) - (k + 1) + 1 ELSE 0
          /\ \A i \in 1 .. Len(s) - (k + 1) + 1 :
               SubSeq(s, k + 1, Len(s))[i] = s[k + 1 + i - 1]
      BY <1>1, <2>1, SubSeqProperties
    <2>3. \A i \in 1 .. Len(s) - k : k + 1 + i - 1 = k + i
      BY <1>1
    <2>4. Len(s) - (k + 1) + 1 = Len(s) - k
      BY <1>1
    <2>5. (IF k + 1 <= Len(s) THEN Len(s) - (k + 1) + 1 ELSE 0) = Len(s) - k
      <3>1. k \in Nat /\ Len(s) \in Nat /\ k <= Len(s)
        BY <1>1
      <3>2. CASE k + 1 <= Len(s)
        BY <2>4, <3>2
      <3>3. CASE ~(k + 1 <= Len(s))
        <4>1. Len(s) - k = 0
          BY <3>1, <3>3
        <4> QED BY <3>3, <4>1
      <3> QED BY <3>2, <3>3
    <2>6. \A i \in 1 .. Len(s) - k : SubSeq(s, k + 1, Len(s))[i] = s[k + 1 + i - 1]
      BY <2>2, <2>4
    <2> QED BY <2>2, <2>3, <2>5, <2>6
  <1> QED BY <1>2, <1>3, LenProperties

\* The same for names of the two parts.
LEMMA Cut ==
  ASSUME NEW S, NEW s \in Seq(S), NEW k \in 0 .. Len(s),
         NEW a, a = SubSeq(s, 1, k), NEW b, b = SubSeq(s, k + 1, Len(s))
  PROVE  /\ a \in Seq(S) /\ Len(a) = k /\ DOMAIN a = 1 .. k /\ \A i \in 1 .. k : a[i] = s[i]
         /\ b \in Seq(S) /\ Len(b) = Len(s) - k /\ DOMAIN b = 1 .. Len(s) - k
         /\ \A i \in 1 .. Len(s) - k : b[i] = s[k + i]
  BY Split

\* A slice is no longer than what is left.
LEMMA Batch ==
  ASSUME NEW n \in Nat
  PROVE  (IF n <= Slice THEN n ELSE Slice) \in 0 .. n
  BY TablePageAssumption

-----------------------------------------------------------------------------
(* The grid of a page.                                                     *)

\* The parts of a grid have their types.
LEMMA GridIs ==
  ASSUME NEW page \in Grid
  PROVE  /\ page.rows \in Seq(Row) /\ page.rest \in Seq(Row) /\ page.edit \in Nat
         /\ page.no \in 0 .. MaxPage /\ page.structure \in Table \cup {NULL}
         /\ Len(page.rows) \in Nat /\ DOMAIN page.rows = 1 .. Len(page.rows)
         /\ Len(page.rest) \in Nat /\ DOMAIN page.rest = 1 .. Len(page.rest)
         /\ \A i \in 1 .. Len(page.rows) : page.rows[i] \in Row
         /\ \A i \in 1 .. Len(page.rest) : page.rest[i] \in Row
  <1>1. page.rows \in Seq(Row) /\ page.rest \in Seq(Row)
    BY DEF Grid
  <1>2. page.edit \in Nat /\ page.no \in 0 .. MaxPage /\ page.structure \in Table \cup {NULL}
    BY DEF Grid
  <1> QED BY <1>1, <1>2, LenProperties

\* A new page is good, and any tab's own.
LEMMA NewPageIsGood ==
  ASSUME NEW t \in Tab
  PROVE  NewPage \in Grid /\ Good(NewPage) /\ Own(NewPage, t) /\ NewPage.edit = 0 /\ NewPage.no = 0
  <1>1. 0 \in 0 .. MaxPage /\ MaxRows \in Nat
    BY TablePageAssumption, Largest
  <1>2. <<>> \in Seq(Row) /\ Len(<<>>) = 0 /\ DOMAIN <<>> = {}
    BY EmptySeq
  <1>3. NewPage \in Grid
    BY <1>1, <1>2 DEF NewPage, Grid
  <1>4. FromOne(NewPage, t, 0)
    BY <1>2 DEF NewPage, FromOne
  <1>5. 0 + 0 <= MaxRows /\ 0 \in 0 .. 0
    BY <1>1
  <1>6. Own(NewPage, t)
    BY <1>1, <1>2, <1>4 DEF NewPage, Own
  <1>7. Good(NewPage)
    BY <1>1, <1>2, <1>3, <1>4, <1>5 DEF Good, NewPage
  <1> QED BY <1>3, <1>6, <1>7 DEF NewPage

\* The same rows, with other texts.
SameRows(page, q) ==
  /\ Len(q.rows) = Len(page.rows) /\ q.rest = page.rest
  /\ \A i \in 1 .. Len(page.rows) : RowOf(q.rows[i]) = RowOf(page.rows[i])

\* A grid whose texts change is still good if only the row under edit is typed.
LEMMA TextsChange ==
  ASSUME NEW page, Good(page), NEW q \in Grid, SameRows(page, q),
         q.edit \in 0 .. Len(q.rows),
         \A i \in 1 .. Len(q.rows) :
           q.rows[i].original # "typed" /\ (q.rows[i].text = "typed" => q.edit = i)
  PROVE  /\ Good(q)
         /\ \A t : Own(page, t) /\ q.structure = page.structure
                   /\ (\A i \in 1 .. Len(q.rows) :
                         "refused" \notin {q.rows[i].text, q.rows[i].original}) => Own(q, t)
  <1>1. /\ DOMAIN q.rows = 1 .. Len(q.rows) /\ DOMAIN page.rows = 1 .. Len(page.rows)
        /\ Len(q.rows) = Len(page.rows) /\ q.rest = page.rest
        /\ \A i \in 1 .. Len(page.rows) : RowOf(q.rows[i]) = RowOf(page.rows[i])
    BY GridIs DEF SameRows, Good
  <1>2. ASSUME NEW t, NEW p, FromOne(page, t, p)
        PROVE  FromOne(q, t, p)
    BY <1>1, <1>2 DEF FromOne
  <1>3. \E t \in Tab, p \in 0 .. MaxPage : FromOne(q, t, p)
    BY <1>2 DEF Good
  <1>4. Len(q.rows) + Len(q.rest) <= MaxRows
    BY <1>1 DEF Good
  <1>5. Good(q)
    BY <1>1, <1>3, <1>4 DEF Good
  <1>6. ASSUME NEW t, Own(page, t), q.structure = page.structure,
               \A i \in 1 .. Len(q.rows) : "refused" \notin {q.rows[i].text, q.rows[i].original}
        PROVE  Own(q, t)
    <2>1. \E p \in 0 .. MaxPage : FromOne(q, t, p)
      BY <1>2, <1>6 DEF Own
    <2> QED BY <1>1, <1>6, <2>1 DEF Own
  <1> QED BY <1>5, <1>6

\* The grid with e the row under edit and another row i.
WithRow(page, e, i, row) ==
  [page EXCEPT !.edit = e, !.rows = [page.rows EXCEPT ![i] = row]]

\* One row of a grid gets other texts.
LEMMA RowChanges ==
  ASSUME NEW page \in Grid, NEW i \in 1 .. Len(page.rows), NEW e \in Nat,
         NEW row \in Row, RowOf(row) = RowOf(page.rows[i]),
         NEW q, q = WithRow(page, e, i, row)
  PROVE  /\ q \in Grid /\ SameRows(page, q) /\ q.edit = e /\ q.rows[i] = row
         /\ q.structure = page.structure /\ q.no = page.no
         /\ \A j \in 1 .. Len(page.rows) : j # i => q.rows[j] = page.rows[j]
  <1>1. page.rows \in Seq(Row)
    BY GridIs
  <1>2. PICK s \in Seq(Row) : s = page.rows
    BY <1>1
  <1>3. PICK t : t = [s EXCEPT ![i] = row]
    OBVIOUS
  <1>4. t \in Seq(Row) /\ Len(t) = Len(s) /\ t[i] = row /\ \A j \in 1 .. Len(s) : j # i => t[j] = s[j]
    BY <1>2, <1>3, ExceptSeq
  <1>5. q = [page EXCEPT !.edit = e, !.rows = t]
    BY <1>2, <1>3 DEF WithRow
  <1>6. q.rows = t /\ q.edit = e /\ q.rest = page.rest /\ q.structure = page.structure /\ q.no = page.no
    BY <1>5 DEF Grid
  <1>7. q \in Grid
    BY <1>4, <1>5 DEF Grid
  <1>8. SameRows(page, q)
    BY <1>2, <1>4, <1>6 DEF SameRows
  <1> QED BY <1>2, <1>4, <1>6, <1>7, <1>8

\* So does the row under edit, or the one that will be.
LEMMA RowEdited ==
  ASSUME NEW page, Good(page), NEW i \in 1 .. Len(page.rows), page.edit \in {0, i},
         NEW e \in {0, i}, NEW row \in Row, RowOf(row) = RowOf(page.rows[i]),
         row.original # "typed", row.text = "typed" => e = i,
         NEW q, q = WithRow(page, e, i, row)
  PROVE  /\ Good(q) /\ SameRows(page, q) /\ q.edit = e /\ q.rows[i] = row
         /\ q.structure = page.structure /\ q.no = page.no
         /\ \A j \in 1 .. Len(q.rows) : j # i => q.rows[j].text # "typed"
         /\ \A t : Own(page, t) /\ "refused" \notin {row.text, row.original} => Own(q, t)
  <1>1. /\ page \in Grid /\ DOMAIN page.rows = 1 .. Len(page.rows) /\ Len(page.rows) \in Nat
    BY GridIs DEF Good
  <1>2. e \in Nat /\ e \in 0 .. Len(page.rows)
    BY <1>1
  <1>3. /\ q \in Grid /\ SameRows(page, q) /\ q.edit = e /\ q.rows[i] = row
        /\ q.structure = page.structure /\ q.no = page.no
        /\ \A j \in 1 .. Len(page.rows) : j # i => q.rows[j] = page.rows[j]
    BY <1>1, <1>2, RowChanges
  <1>4. Len(q.rows) = Len(page.rows)
    BY <1>3 DEF SameRows
  <1>5. \A j \in 1 .. Len(q.rows) : j # i =>
          q.rows[j].original # "typed" /\ q.rows[j].text # "typed"
    BY <1>1, <1>3, <1>4 DEF Good
  <1>6. q.edit \in 0 .. Len(q.rows)
    BY <1>2, <1>3, <1>4
  <1>7. \A j \in 1 .. Len(q.rows) :
          q.rows[j].original # "typed" /\ (q.rows[j].text = "typed" => q.edit = j)
    BY <1>3, <1>4, <1>5
  <1>8. Good(q)
    BY <1>3, <1>6, <1>7, TextsChange
  <1>9. ASSUME NEW t, Own(page, t), "refused" \notin {row.text, row.original}
        PROVE  Own(q, t)
    <2>1. \A j \in 1 .. Len(page.rows) :
            "refused" \notin {page.rows[j].text, page.rows[j].original}
      BY <1>1, <1>9 DEF Own
    <2>2. \A j \in 1 .. Len(q.rows) : "refused" \notin {q.rows[j].text, q.rows[j].original}
      BY <1>3, <1>4, <1>9, <2>1
    <2> QED BY <1>3, <1>6, <1>7, <1>9, <2>2, TextsChange
  <1> QED BY <1>3, <1>5, <1>8, <1>9

\* The row under edit is given up: no row is typed in.
LEMMA EditEnds ==
  ASSUME NEW page, Good(page), NEW q, q = exit_edit_mode(page, FALSE)
  PROVE  /\ Good(q) /\ SameRows(page, q) /\ q.edit = 0
         /\ q.structure = page.structure /\ q.no = page.no
         /\ \A i \in 1 .. Len(q.rows) : q.rows[i].text # "typed"
         /\ \A t : Own(page, t) => Own(q, t)
  <1>1. /\ page \in Grid /\ page.edit \in 0 .. Len(page.rows)
        /\ DOMAIN page.rows = 1 .. Len(page.rows) /\ Len(page.rows) \in Nat
    BY GridIs DEF Good
  <1>2. CASE page.edit = 0
    <2>1. q = page
      BY <1>2 DEF exit_edit_mode
    <2>2. \A i \in 1 .. Len(page.rows) : page.rows[i].text # "typed"
      BY <1>1, <1>2 DEF Good
    <2>3. SameRows(page, q)
      BY <2>1 DEF SameRows
    <2> QED BY <1>2, <2>1, <2>2, <2>3
  <1>3. CASE page.edit # 0
    <2>1. PICK i \in 1 .. Len(page.rows) : i = page.edit
      BY <1>1, <1>3
    <2>2. page.rows[i] \in Row /\ page.rows[i].original # "typed"
      BY <1>1, GridIs DEF Good
    <2>3. PICK row : row = revertRow(page.rows[i])
      OBVIOUS
    <2>4. /\ row \in Row /\ RowOf(row) = RowOf(page.rows[i])
          /\ row.text = page.rows[i].original /\ row.original = page.rows[i].original
      BY <2>2, <2>3 DEF revertRow, RowOf, Row
    <2>5. q = WithRow(page, 0, i, row)
      BY <1>1, <1>3, <2>1, <2>3 DEF exit_edit_mode, Grid, WithRow
    <2>6. /\ Good(q) /\ SameRows(page, q) /\ q.edit = 0 /\ q.rows[i] = row
          /\ q.structure = page.structure /\ q.no = page.no
          /\ \A j \in 1 .. Len(q.rows) : j # i => q.rows[j].text # "typed"
          /\ \A t : Own(page, t) /\ "refused" \notin {row.text, row.original} => Own(q, t)
      <3>1. PICK e \in {0, i} : e = 0
        OBVIOUS
      <3>2. row.original # "typed" /\ (row.text = "typed" => e = i) /\ page.edit \in {0, i}
        BY <2>1, <2>2, <2>4
      <3>3. q = WithRow(page, e, i, row)
        BY <2>5, <3>1
      <3>4. /\ Good(q) /\ SameRows(page, q) /\ q.edit = e /\ q.rows[i] = row
            /\ q.structure = page.structure /\ q.no = page.no
            /\ \A j \in 1 .. Len(q.rows) : j # i => q.rows[j].text # "typed"
            /\ \A t : Own(page, t) /\ "refused" \notin {row.text, row.original} => Own(q, t)
        BY ONLY Good(page), i \in 1 .. Len(page.rows), <2>4, <3>1, <3>2, <3>3, RowEdited
      <3> QED BY ONLY <3>1, <3>4
    <2>7. ASSUME NEW t, Own(page, t)
          PROVE  "refused" \notin {row.text, row.original}
      BY <1>1, <2>4, <2>7 DEF Own
    <2>8. \A j \in 1 .. Len(q.rows) : q.rows[j].text # "typed"
      BY <2>2, <2>4, <2>6
    <2> QED BY <2>6, <2>7, <2>8
  <1> QED BY <1>2, <1>3

\* An edit begins: the text of the row is what it goes back to.
LEMMA EditBegins ==
  ASSUME NEW page, Good(page), page.edit = 0, NEW i \in 1 .. Len(page.rows),
         NEW q, q = enter_edit_mode(page, i)
  PROVE  /\ Good(q) /\ q.structure = page.structure /\ q.no = page.no
         /\ \A t : Own(page, t) => Own(q, t)
  <1>1. page \in Grid /\ DOMAIN page.rows = 1 .. Len(page.rows) /\ i # 0
    BY GridIs DEF Good
  <1>2. page.rows[i] \in Row /\ page.rows[i].text # "typed"
    BY <1>1, GridIs DEF Good
  <1>3. PICK row : row = [page.rows[i] EXCEPT !.original = page.rows[i].text]
    OBVIOUS
  <1>4. /\ row \in Row /\ RowOf(row) = RowOf(page.rows[i])
        /\ row.text = page.rows[i].text /\ row.original = page.rows[i].text
    BY <1>2, <1>3 DEF RowOf, Row
  <1>5. q = WithRow(page, i, i, row)
    BY <1>1, <1>3 DEF enter_edit_mode, Grid, WithRow
  <1>6. row.original # "typed" /\ (row.text = "typed" => i = i) /\ page.edit \in {0, i}
    BY <1>2, <1>4
  <1>7. /\ Good(q) /\ q.structure = page.structure /\ q.no = page.no
        /\ \A t : Own(page, t) /\ "refused" \notin {row.text, row.original} => Own(q, t)
    BY <1>4, <1>5, <1>6, RowEdited
  <1>8. ASSUME NEW t, Own(page, t)
        PROVE  "refused" \notin {row.text, row.original}
    BY <1>1, <1>4, <1>8 DEF Own
  <1> QED BY <1>7, <1>8

\* The row under edit.
LEMMA UnderEdit ==
  ASSUME NEW page, Good(page), page.edit # 0
  PROVE  /\ page \in Grid /\ page.edit \in 1 .. Len(page.rows)
         /\ DOMAIN page.rows = 1 .. Len(page.rows)
         /\ page.rows[page.edit] \in Row /\ page.rows[page.edit].original # "typed"
  <1>1. page \in Grid /\ page.edit \in 0 .. Len(page.rows) /\ Len(page.rows) \in Nat
    BY GridIs DEF Good
  <1>2. page.edit \in 1 .. Len(page.rows)
    BY <1>1
  <1> QED BY <1>1, <1>2, GridIs DEF Good

\* What is typed is in the row under edit.
LEMMA TextTyped ==
  ASSUME NEW page, Good(page), page.edit # 0,
         NEW q, q = [page EXCEPT !.rows[page.edit].text = "typed"]
  PROVE  /\ Good(q) /\ q.structure = page.structure /\ q.no = page.no
         /\ \A t : Own(page, t) => Own(q, t)
  <1>1. PICK i \in 1 .. Len(page.rows) : i = page.edit
    BY UnderEdit
  <1>2. /\ page \in Grid /\ DOMAIN page.rows = 1 .. Len(page.rows)
        /\ page.rows[i] \in Row /\ page.rows[i].original # "typed"
    BY <1>1, UnderEdit
  <1>3. PICK row : row = [page.rows[i] EXCEPT !.text = "typed"]
    OBVIOUS
  <1>4. /\ row \in Row /\ RowOf(row) = RowOf(page.rows[i])
        /\ row.text = "typed" /\ row.original = page.rows[i].original
    BY <1>2, <1>3 DEF RowOf, Row, Texts
  <1>5. q = WithRow(page, i, i, row)
    <2>1. [page EXCEPT !.edit = i] = page
      BY <1>1, <1>2 DEF Grid
    <2> QED BY <1>1, <1>2, <1>3, <2>1 DEF WithRow
  <1>6. /\ page.edit \in {0, i} /\ i \in {0, i}
        /\ row.original # "typed" /\ (row.text = "typed" => i = i)
    BY <1>1, <1>2, <1>4
  <1>7. /\ Good(q) /\ q.structure = page.structure /\ q.no = page.no
        /\ \A t : Own(page, t) /\ "refused" \notin {row.text, row.original} => Own(q, t)
    <2>1. Good(page)
      OBVIOUS
    <2> QED BY ONLY <1>1, <1>4, <1>5, <1>6, <2>1, RowEdited
  <1>8. ASSUME NEW t, Own(page, t)
        PROVE  "refused" \notin {row.text, row.original}
    BY <1>2, <1>4, <1>8 DEF Own
  <1> QED BY <1>7, <1>8

\* The grid with a text in the row under edit.
Edited(page, text) == [page EXCEPT !.rows[page.edit].text = text]

\* An edit is sent, or there is nothing to send.
LEMMA EditSent ==
  ASSUME NEW page, Good(page), page.edit # 0, NEW text \in Texts \ {"typed", "refused"},
         NEW q, \/ /\ ~Dirty(page.rows[page.edit])
                   /\ q = exit_edit_mode(page, TRUE)
                \/ q = exit_edit_mode(Edited(page, text), TRUE)
  PROVE  /\ Good(q) /\ q.structure = page.structure /\ q.no = page.no
         /\ \A t : Own(page, t) => Own(q, t)
  <1>1. PICK i \in 1 .. Len(page.rows) : i = page.edit
    BY UnderEdit
  <1>2. /\ page \in Grid /\ DOMAIN page.rows = 1 .. Len(page.rows) /\ i # 0
        /\ page.rows[i] \in Row /\ page.rows[i].original # "typed"
    BY <1>1, UnderEdit
  <1>3. PICK row : \/ row = page.rows[i] /\ ~Dirty(row) /\ q = exit_edit_mode(page, TRUE)
                   \/ /\ row = [page.rows[i] EXCEPT !.text = text]
                      /\ q = exit_edit_mode([page EXCEPT !.rows[i].text = text], TRUE)
    BY <1>1 DEF Edited
  <1>4. /\ row \in Row /\ RowOf(row) = RowOf(page.rows[i])
        /\ row.original = page.rows[i].original /\ row.text \in {text, row.original}
    BY <1>2, <1>3 DEF RowOf, Row, Texts, Dirty
  <1>5. q = WithRow(page, 0, i, row)
    <2>1. CASE row = page.rows[i] /\ q = exit_edit_mode(page, TRUE)
      BY <1>1, <1>2, <2>1 DEF exit_edit_mode, Grid, WithRow
    <2>2. CASE /\ row = [page.rows[i] EXCEPT !.text = text]
               /\ q = exit_edit_mode([page EXCEPT !.rows[i].text = text], TRUE)
      <3>1. PICK r : r = [page EXCEPT !.rows[i].text = text]
        OBVIOUS
      <3>2. r = [page EXCEPT !.rows = [page.rows EXCEPT ![i] = row]]
        BY <2>2, <3>1
      <3>3. PICK s \in Seq(Row) : s = [page.rows EXCEPT ![i] = row]
        BY <1>2, <1>4, GridIs, ExceptSeq
      <3>4. s[i] = row
        BY <1>2, <3>3
      <3>5. /\ r.edit = i /\ r.rows = s /\ DOMAIN r = DOMAIN page /\ r \in Grid
        BY <1>1, <1>2, <3>2, <3>3 DEF Grid
      <3>6. q = [r EXCEPT !.edit = 0, !.rows[i] = r.rows[i]]
        BY <1>2, <2>2, <3>1, <3>5 DEF exit_edit_mode
      <3>7. q = [r EXCEPT !.edit = 0]
        <4>1. [s EXCEPT ![i] = s[i]] = s
          BY <3>3
        <4>2. [r EXCEPT !.edit = 0, !.rows = s] = [r EXCEPT !.edit = 0]
          BY <3>5 DEF Grid
        <4> QED BY <3>5, <3>6, <4>1, <4>2 DEF Grid
      <3>8. [r EXCEPT !.edit = 0] = [page EXCEPT !.edit = 0, !.rows = s]
        BY <1>2, <3>2, <3>3 DEF Grid
      <3> QED BY <3>3, <3>7, <3>8 DEF WithRow
    <2> QED BY <1>3, <2>1, <2>2
  <1>6. page.edit \in {0, i} /\ row.original # "typed" /\ (row.text = "typed" => 0 = i)
    BY <1>1, <1>2, <1>4
  <1>7. /\ Good(q) /\ q.structure = page.structure /\ q.no = page.no
        /\ \A t : Own(page, t) /\ "refused" \notin {row.text, row.original} => Own(q, t)
    BY <1>4, <1>5, <1>6, RowEdited
  <1>8. ASSUME NEW t, Own(page, t)
        PROVE  "refused" \notin {row.text, row.original}
    BY <1>2, <1>4, <1>8 DEF Own
  <1> QED BY <1>7, <1>8

-----------------------------------------------------------------------------
(* Rows come into a grid.                                                  *)

\* An answer is a sequence of rows, numbered.
LEMMA PayloadIs ==
  ASSUME NEW t \in Tab, NEW p \in 0 .. MaxPage, NEW n \in Sizes
  PROVE  /\ Payload(t, p, n) \in Seq(Row) /\ Len(Payload(t, p, n)) = n
         /\ n \in Nat /\ n <= MaxRows
         /\ \A i \in 1 .. n :
              Payload(t, p, n)[i] = [of |-> t, page |-> p, nr |-> i,
                                     text |-> "loaded", original |-> "loaded"]
  <1>1. n \in Nat /\ n <= MaxRows
    BY Largest
  <1>2. \A i \in 1 .. n :
          [of |-> t, page |-> p, nr |-> i, text |-> "loaded", original |-> "loaded"] \in Row
    BY <1>1 DEF Row, Texts
  <1>3. Payload(t, p, n) \in [1 .. n -> Row]
    BY <1>2 DEF Payload
  <1>4. Payload(t, p, n) \in Seq(Row) /\ Len(Payload(t, p, n)) = n
    BY <1>1, <1>3, SeqDef, LenProperties
  <1> QED BY <1>1, <1>4 DEF Payload

\* An answer is shown: its first rows, none of them under edit.
LEMMA Filled ==
  ASSUME NEW page, Good(page), NEW t \in Tab, NEW p \in 0 .. MaxPage, NEW n \in Sizes,
         NEW q, q = setFromQueryPayload(page, Payload(t, p, n))
  PROVE  /\ Good(q) /\ q.edit = 0 /\ q.structure = page.structure /\ q.no = page.no
         /\ page.structure \in {t, NULL} => Own(q, t)
  <1>1. PICK s \in Seq(Row) : s = Payload(t, p, n)
    BY PayloadIs
  <1>2. /\ Len(s) \in Nat /\ Len(s) <= MaxRows
        /\ \A i \in 1 .. Len(s) : s[i] = [of |-> t, page |-> p, nr |-> i,
                                         text |-> "loaded", original |-> "loaded"]
    BY <1>1, PayloadIs
  <1>3. PICK k \in 0 .. Len(s) : k = IF Len(s) <= Slice THEN Len(s) ELSE Slice
    BY <1>2, Batch
  <1>4. PICK a : a = SubSeq(s, 1, k)
    OBVIOUS
  <1>5. PICK b : b = SubSeq(s, k + 1, Len(s))
    OBVIOUS
  <1>6. /\ a \in Seq(Row) /\ Len(a) = k /\ DOMAIN a = 1 .. k /\ \A i \in 1 .. k : a[i] = s[i]
        /\ b \in Seq(Row) /\ Len(b) = Len(s) - k /\ DOMAIN b = 1 .. Len(s) - k
        /\ \A i \in 1 .. Len(s) - k : b[i] = s[k + i]
    <2>1. s \in Seq(Row) /\ k \in 0 .. Len(s)
      OBVIOUS
    <2> QED BY ONLY <1>4, <1>5, <2>1, Cut
  <1>7. q = [page EXCEPT !.rows = a, !.rest = b, !.edit = 0]
    BY <1>1, <1>3, <1>4, <1>5 DEF setFromQueryPayload
  <1>8. page \in Grid
    BY DEF Good
  <1>9. /\ q \in Grid /\ q.rows = a /\ q.rest = b /\ q.edit = 0
        /\ q.structure = page.structure /\ q.no = page.no
    <2>1. a \in Seq(Row) /\ b \in Seq(Row)
      BY <1>6
    <2> QED BY ONLY <1>7, <1>8, <2>1 DEF Grid
  <1>10. \A i \in 1 .. k : /\ a[i] = [of |-> t, page |-> p, nr |-> i,
                                      text |-> "loaded", original |-> "loaded"]
                           /\ RowOf(a[i]) = [of |-> t, page |-> p, nr |-> i]
    <2>1. \A i \in 1 .. k : i \in 1 .. Len(s)
      BY <1>2
    <2>2. \A i \in 1 .. k : a[i] = [of |-> t, page |-> p, nr |-> i,
                                    text |-> "loaded", original |-> "loaded"]
      BY <1>2, <1>6, <2>1
    <2> QED BY <2>2 DEF RowOf
  <1>11. \A i \in 1 .. Len(s) - k :
           b[i] = [of |-> t, page |-> p, nr |-> k + i, text |-> "loaded", original |-> "loaded"]
    <2>1. \A i \in 1 .. Len(s) - k : k + i \in 1 .. Len(s)
      BY <1>2
    <2> QED BY <1>2, <1>6, <2>1
  <1>12. FromOne(q, t, p)
    BY <1>6, <1>9, <1>10, <1>11 DEF FromOne
  <1>13. q.edit \in 0 .. Len(q.rows) /\ Len(q.rows) + Len(q.rest) <= MaxRows
    <2>1. k + (Len(s) - k) <= MaxRows /\ 0 \in 0 .. k
      BY <1>2
    <2> QED BY <1>6, <1>9, <2>1
  <1>14. Good(q)
    BY <1>6, <1>9, <1>10, <1>12, <1>13 DEF Good
  <1>15. ASSUME page.structure \in {t, NULL}
         PROVE  Own(q, t)
    BY <1>6, <1>9, <1>10, <1>12, <1>15 DEF Own
  <1> QED BY <1>9, <1>14, <1>15

\* The next slice is put behind the rows there are.
LEMMA Flushed ==
  ASSUME NEW page, Good(page), NEW q, q = flushProgressiveBatch(page)
  PROVE  /\ Good(q) /\ q.edit = page.edit /\ q.structure = page.structure /\ q.no = page.no
         /\ Len(page.rows) <= Len(q.rows)
         /\ \A i \in 1 .. Len(page.rows) : q.rows[i] = page.rows[i]
         /\ \A t : Own(page, t) => Own(q, t)
  <1>1. PICK r \in Seq(Row) : r = page.rows
    BY GridIs DEF Good
  <1>2. PICK s \in Seq(Row) : s = page.rest
    BY GridIs DEF Good
  <1>3. /\ page \in Grid /\ Len(r) \in Nat /\ Len(s) \in Nat
        /\ DOMAIN r = 1 .. Len(r) /\ DOMAIN s = 1 .. Len(s)
    BY <1>1, <1>2, GridIs DEF Good
  <1>4. PICK k \in 0 .. Len(s) : k = IF Len(s) <= Slice THEN Len(s) ELSE Slice
    BY <1>3, Batch
  <1>5. PICK a : a = SubSeq(s, 1, k)
    OBVIOUS
  <1>6. PICK b : b = SubSeq(s, k + 1, Len(s))
    OBVIOUS
  <1>7. /\ a \in Seq(Row) /\ Len(a) = k /\ DOMAIN a = 1 .. k /\ \A i \in 1 .. k : a[i] = s[i]
        /\ b \in Seq(Row) /\ Len(b) = Len(s) - k /\ DOMAIN b = 1 .. Len(s) - k
        /\ \A i \in 1 .. Len(s) - k : b[i] = s[k + i]
    <2>1. s \in Seq(Row) /\ k \in 0 .. Len(s)
      OBVIOUS
    <2> QED BY ONLY <1>5, <1>6, <2>1, Cut
  <1>8. PICK c : c = r \o a
    OBVIOUS
  <1>9. /\ c \in Seq(Row) /\ Len(c) = Len(r) + k /\ DOMAIN c = 1 .. Len(r) + k
        /\ \A i \in 1 .. Len(r) : c[i] = r[i]
        /\ \A i \in Len(r) + 1 .. Len(r) + k : c[i] = a[i - Len(r)]
    <2>1. /\ c \in Seq(Row) /\ Len(c) = Len(r) + Len(a)
          /\ \A i \in 1 .. Len(r) + Len(a) : c[i] = IF i <= Len(r) THEN r[i] ELSE a[i - Len(r)]
      BY <1>7, <1>8, ConcatProperties
    <2>2. \A i \in 1 .. Len(r) : i \in 1 .. Len(r) + k /\ i <= Len(r)
      BY <1>3
    <2>3. \A i \in Len(r) + 1 .. Len(r) + k : i \in 1 .. Len(r) + k /\ ~(i <= Len(r))
      BY <1>3
    <2>4. DOMAIN c = 1 .. Len(c)
      BY <2>1, LenProperties
    <2> QED BY <1>7, <2>1, <2>2, <2>3, <2>4
  <1>10. q = [page EXCEPT !.rows = c, !.rest = b]
    BY <1>1, <1>2, <1>3, <1>4, <1>5, <1>6, <1>8 DEF flushProgressiveBatch, Grid
  <1>11. /\ q \in Grid /\ q.rows = c /\ q.rest = b /\ q.edit = page.edit
         /\ q.structure = page.structure /\ q.no = page.no
    BY <1>3, <1>7, <1>9, <1>10 DEF Grid
  <1>12. Len(r) <= Len(c) /\ Len(c) + Len(b) = Len(r) + Len(s)
    BY <1>3, <1>7, <1>9
  <1>13. \A i \in 1 .. k : i \in 1 .. Len(s)
    BY <1>3
  <1>14. ASSUME NEW t, NEW p, FromOne(page, t, p)
         PROVE  /\ FromOne(q, t, p)
                /\ \A i \in Len(r) + 1 .. Len(r) + k :
                     c[i].text = "loaded" /\ c[i].original = "loaded"
    <2>1. /\ \A i \in 1 .. Len(r) : RowOf(r[i]) = [of |-> t, page |-> p, nr |-> i]
          /\ \A i \in 1 .. Len(s) :
               s[i] = [of |-> t, page |-> p, nr |-> Len(r) + i,
                       text |-> "loaded", original |-> "loaded"]
      BY <1>1, <1>2, <1>3, <1>14 DEF FromOne
    <2>2. ASSUME NEW i \in Len(r) + 1 .. Len(r) + k
          PROVE  c[i] = [of |-> t, page |-> p, nr |-> i, text |-> "loaded", original |-> "loaded"]
      <3>1. i - Len(r) \in 1 .. k /\ Len(r) + (i - Len(r)) = i
        BY <1>3
      <3>2. PICK j \in 1 .. k : j = i - Len(r) /\ Len(r) + j = i
        BY <3>1
      <3>3. c[i] = a[j] /\ a[j] = s[j] /\ j \in 1 .. Len(s)
        BY <1>7, <1>9, <1>13, <3>2
      <3> QED BY <2>1, <3>2, <3>3
    <2>3. \A i \in 1 .. Len(r) + k : i \in 1 .. Len(r) \/ i \in Len(r) + 1 .. Len(r) + k
      BY <1>3
    <2>4. \A i \in 1 .. Len(r) + k : RowOf(c[i]) = [of |-> t, page |-> p, nr |-> i]
      <3>1. \A i \in 1 .. Len(r) : RowOf(c[i]) = [of |-> t, page |-> p, nr |-> i]
        BY <1>9, <2>1
      <3>2. ASSUME NEW i \in Len(r) + 1 .. Len(r) + k
            PROVE  RowOf(c[i]) = [of |-> t, page |-> p, nr |-> i]
        <4>1. c[i] = [of |-> t, page |-> p, nr |-> i, text |-> "loaded", original |-> "loaded"]
          BY <2>2
        <4> QED BY ONLY <4>1 DEF RowOf
      <3> QED BY <2>3, <3>1, <3>2
    <2>5. ASSUME NEW i \in 1 .. Len(s) - k
          PROVE  b[i] = [of |-> t, page |-> p, nr |-> Len(c) + i,
                         text |-> "loaded", original |-> "loaded"]
      <3>1. k + i \in 1 .. Len(s) /\ Len(r) + (k + i) = (Len(r) + k) + i
        BY <1>3
      <3>2. b[i] = s[k + i]
        BY <1>7
      <3>3. PICK j \in 1 .. Len(s) : j = k + i /\ Len(r) + j = Len(c) + i
        BY <1>9, <3>1
      <3> QED BY <2>1, <3>2, <3>3
    <2>6. FromOne(q, t, p)
      BY <1>7, <1>9, <1>11, <2>4, <2>5 DEF FromOne
    <2>7. ASSUME NEW i \in Len(r) + 1 .. Len(r) + k
          PROVE  c[i].text = "loaded" /\ c[i].original = "loaded"
      <3>1. c[i] = [of |-> t, page |-> p, nr |-> i, text |-> "loaded", original |-> "loaded"]
        BY <2>2
      <3> QED BY ONLY <3>1
    <2> QED BY <2>6, <2>7
  <1>15. \E t \in Tab, p \in 0 .. MaxPage : FromOne(q, t, p)
    BY <1>14 DEF Good
  <1>16. \A i \in Len(r) + 1 .. Len(r) + k : c[i].text = "loaded" /\ c[i].original = "loaded"
    BY <1>14 DEF Good
  <1>17. \A i \in 1 .. Len(c) : i \in 1 .. Len(r) \/ i \in Len(r) + 1 .. Len(r) + k
    BY <1>3, <1>9
  <1>18. \A i \in 1 .. Len(r) : r[i].original # "typed" /\ (r[i].text = "typed" => page.edit = i)
    BY <1>1, <1>3 DEF Good
  <1>19. \A i \in 1 .. Len(c) : c[i].original # "typed" /\ (c[i].text = "typed" => q.edit = i)
    BY <1>9, <1>11, <1>16, <1>17, <1>18
  <1>20. q.edit \in 0 .. Len(q.rows)
    <2>1. page.edit \in 0 .. Len(r) /\ Len(c) \in Nat
      BY <1>1, <1>9, LenProperties DEF Good
    <2>2. page.edit \in 0 .. Len(c)
      BY <1>3, <1>12, <2>1
    <2> QED BY <1>11, <2>2
  <1>21. Len(q.rows) + Len(q.rest) <= MaxRows
    BY <1>1, <1>2, <1>11, <1>12 DEF Good
  <1>22. DOMAIN q.rows = 1 .. Len(c)
    BY <1>9, <1>11
  <1>23. Good(q)
    BY <1>11, <1>15, <1>19, <1>20, <1>21, <1>22 DEF Good
  <1>24. ASSUME NEW t, Own(page, t)
         PROVE  Own(q, t)
    <2>1. \E p \in 0 .. MaxPage : FromOne(q, t, p)
      BY <1>14, <1>24 DEF Own
    <2>2. \A i \in 1 .. Len(r) : "refused" \notin {r[i].text, r[i].original}
      BY <1>1, <1>3, <1>24 DEF Own
    <2>3. \A i \in 1 .. Len(c) : "refused" \notin {c[i].text, c[i].original}
      BY <1>9, <1>16, <1>17, <2>2
    <2> QED BY <1>11, <1>22, <1>24, <2>1, <2>3 DEF Own
  <1> QED BY <1>1, <1>9, <1>11, <1>12, <1>23, <1>24

\* The rows of a refused edit are named so: the grid stays good.
LEMMA EditRefused ==
  ASSUME NEW page, Good(page), NEW row, NEW q, q = [page EXCEPT !.rows = Refused(@, row)]
  PROVE  Good(q)
  <1>1. PICK r \in Seq(Row) : r = page.rows
    BY GridIs DEF Good
  <1>2. /\ page \in Grid /\ Len(r) \in Nat /\ DOMAIN r = 1 .. Len(r)
        /\ \A i \in 1 .. Len(r) : r[i] \in Row
    BY <1>1, GridIs DEF Good
  <1>3. PICK s : s = Refused(r, row)
    OBVIOUS
  <1>4. /\ s \in [1 .. Len(r) -> Row]
        /\ \A i \in 1 .. Len(r) :
             /\ RowOf(s[i]) = RowOf(r[i])
             /\ s[i].text \in {r[i].text, "refused"} /\ s[i].original \in {r[i].original, "refused"}
    BY <1>2, <1>3 DEF Refused, Row, Texts, RowOf
  <1>5. s \in Seq(Row) /\ Len(s) = Len(r)
    BY <1>2, <1>4, SeqDef, LenProperties
  <1>6. q = [page EXCEPT !.rows = s]
    BY <1>1, <1>2, <1>3 DEF Grid
  <1>7. q \in Grid /\ q.rows = s /\ q.rest = page.rest /\ q.edit = page.edit
    BY <1>2, <1>5, <1>6 DEF Grid
  <1>8. SameRows(page, q)
    BY <1>1, <1>4, <1>5, <1>7 DEF SameRows
  <1>9. q.edit \in 0 .. Len(q.rows)
    BY <1>1, <1>5, <1>7 DEF Good
  <1>10. \A i \in 1 .. Len(r) : r[i].original # "typed" /\ (r[i].text = "typed" => page.edit = i)
    BY <1>1, <1>2 DEF Good
  <1>11. \A i \in 1 .. Len(q.rows) :
           q.rows[i].original # "typed" /\ (q.rows[i].text = "typed" => q.edit = i)
    BY <1>4, <1>5, <1>7, <1>10
  <1> QED BY <1>7, <1>8, <1>9, <1>11, TextsChange

-----------------------------------------------------------------------------
(* The window.                                                             *)

\* NULL is none of the values a variable or a field has instead of it.
LEMMA NotNull ==
  /\ NULL \notin Tab /\ NULL \notin Grid /\ NULL \notin Key /\ NULL \notin RowName
  /\ NULL \notin Conn /\ NULL \notin Name /\ Result \notin Name
  BY TablePageAssumption

\* A place is a table's or has no table: only the first is loaded from.
LEMMA PlaceIs ==
  ASSUME NEW at \in Place
  PROVE  /\ at.no \in 0 .. MaxPage
         /\ ~Partial(at.of) => at.of \in Table
         /\ at.of \notin Table => Partial(at.of)
         /\ at.of[1] \in Conn \cup {NULL} /\ at.of[2] \in Name \cup {NULL}
         /\ at.of = <<at.of[1], at.of[2]>>
  BY NotNull DEF Place, Partial, Table

\* Tabs of tables and of results.
LEMMA TabIs ==
  Table \subseteq Tab /\ Results \subseteq Tab /\ Table \cap Results = {}
  BY NotNull DEF Tab, Table, Results

\* A page gets another number.
LEMMA Renumbered ==
  ASSUME NEW page, Good(page), NEW n \in 0 .. MaxPage, NEW q, q = [page EXCEPT !.no = n]
  PROVE  /\ Good(q) /\ SameRows(page, q) /\ q.edit = page.edit
         /\ q.structure = page.structure /\ q.no = n /\ q.rows = page.rows
         /\ \A t : Own(page, t) => Own(q, t)
  <1>1. page \in Grid
    BY DEF Good
  <1>2. /\ q \in Grid /\ q.rows = page.rows /\ q.rest = page.rest /\ q.edit = page.edit
        /\ q.structure = page.structure /\ q.no = n
    BY <1>1 DEF Grid
  <1>3. \A t, p : FromOne(page, t, p) => FromOne(q, t, p)
    BY <1>2 DEF FromOne
  <1>4. Good(q)
    BY <1>2, <1>3 DEF Good
  <1>5. \A t : Own(page, t) => Own(q, t)
    BY <1>2, <1>3 DEF Own
  <1>6. SameRows(page, q)
    BY <1>2 DEF SameRows
  <1> QED BY <1>2, <1>4, <1>5, <1>6

\* One page of a window is replaced, and its tab may come to the front.
LEMMA PagePut ==
  ASSUME NEW at, NEW on, NEW front, Honest(at, on, front), NEW t \in Tab, NEW q, Good(q),
         NEW to, to = [on EXCEPT ![t] = q], NEW x \in Tab, x = t \/ x = front
  PROVE  /\ Honest(at, to, x) /\ to[t] = q /\ to \in [Tab -> Grid \cup {NULL}]
         /\ \A u \in Tab : u # t => to[u] = on[u]
         /\ Owned(on) /\ (t \in Table => Own(q, t)) => Owned(to)
  <1>1. /\ on \in [Tab -> Grid \cup {NULL}] /\ q \in Grid /\ q # NULL
        /\ \A u \in Tab : on[u] # NULL => Good(on[u])
    BY NotNull DEF Honest, Good
  <1>2. /\ to \in [Tab -> Grid \cup {NULL}] /\ to[t] = q
        /\ \A u \in Tab : u # t => to[u] = on[u]
    BY <1>1
  <1>3. \A u \in Tab : to[u] # NULL => Good(to[u])
    BY <1>1, <1>2
  <1>4. x # NULL /\ to[x] # NULL
    <2>1. x # t => x = front /\ on[x] # NULL
      BY NotNull DEF Honest
    <2> QED BY <1>1, <1>2, <2>1, NotNull
  <1>5. Honest(at, to, x)
    BY <1>2, <1>3, <1>4 DEF Honest
  <1>6. ASSUME Owned(on), t \in Table => Own(q, t)
        PROVE  Owned(to)
    BY <1>2, <1>6, TabIs DEF Owned
  <1> QED BY <1>2, <1>5, <1>6

\* The fields of a window.
LEMMA WindowIs ==
  ASSUME NEW w \in WindowSet
  PROVE  /\ w.place \in Place /\ w.pages \in [Tab -> Grid \cup {NULL}]
         /\ w.current \in Tab \cup {NULL} /\ w.sent \in Fetch \cup {NULL}
  BY DEF WindowSet

\* The place is read from the table in front.
LEMMA Synced ==
  ASSUME NEW w \in WindowSet,
         \A t \in Tab : w.pages[t] # NULL => Good(w.pages[t]),
         w.current # NULL => w.pages[w.current] # NULL,
         NEW x, x = sync_current_table_page(w)
  PROVE  /\ x \in WindowSet /\ x.pages = w.pages /\ x.current = w.current /\ x.sent = w.sent
         /\ w.current \in Table => x.place.of = w.current
         /\ w.current \notin Table => x = w
  <1>1. CASE w.current \in Table
    <2>1. w.current \in Tab /\ w.pages[w.current] # NULL
      BY <1>1, TabIs, NotNull
    <2>2. w.pages[w.current].no \in 0 .. MaxPage
      BY <2>1, GridIs DEF Good
    <2>3. PICK at : at = [of |-> w.current, no |-> w.pages[w.current].no]
      OBVIOUS
    <2>4. at \in Place /\ at.of = w.current
      BY <1>1, <2>2, <2>3 DEF Place
    <2>5. x = [w EXCEPT !.place = at]
      BY <1>1, <2>3 DEF sync_current_table_page
    <2>6. x \in WindowSet /\ x.place = at /\ x.pages = w.pages /\ x.current = w.current /\ x.sent = w.sent
      BY <2>4, <2>5 DEF WindowSet
    <2> QED BY <1>1, <2>4, <2>6
  <1>2. CASE w.current \notin Table
    BY <1>2 DEF sync_current_table_page
  <1> QED BY <1>1, <1>2

\* Another tab comes to the front.
LEMMA TabChosen ==
  ASSUME NEW w \in WindowSet,
         \A u \in Tab : w.pages[u] # NULL => Good(w.pages[u]),
         NEW t \in Tab, w.pages[t] # NULL,
         NEW x, x = setCurrentIndex(w, t)
  PROVE  /\ x \in WindowSet /\ x.pages = w.pages /\ x.current = t /\ x.sent = w.sent
         /\ Honest(x.place, x.pages, x.current)
         /\ w.current = t => x = w
         /\ w.current # t /\ t \in Table => x.place.of = t
         /\ t \notin Table => x.place = w.place
  <1>1. /\ x \in WindowSet /\ x.pages = w.pages /\ x.current = t /\ x.sent = w.sent
        /\ w.current = t => x = w
        /\ w.current # t /\ t \in Table => x.place.of = t
        /\ t \notin Table => x.place = w.place
    <2>1. CASE w.current = t
      BY <2>1 DEF setCurrentIndex
    <2>2. CASE w.current # t
      <3>1. PICK v : v = [w EXCEPT !.current = t]
        OBVIOUS
      <3>2. /\ v \in WindowSet /\ v.pages = w.pages /\ v.current = t /\ v.sent = w.sent
            /\ v.place = w.place
        BY <3>1 DEF WindowSet
      <3>3. x = sync_current_table_page(v)
        BY <2>2, <3>1 DEF setCurrentIndex
      <3>4. /\ x \in WindowSet /\ x.pages = v.pages /\ x.current = v.current /\ x.sent = v.sent
            /\ v.current \in Table => x.place.of = v.current
            /\ v.current \notin Table => x = v
        BY <3>2, <3>3, Synced
      <3> QED BY <2>2, <3>2, <3>4
    <2> QED BY <2>1, <2>2
  <1>2. Honest(x.place, x.pages, x.current)
    BY <1>1, NotNull, WindowIs DEF Honest
  <1> QED BY <1>1, <1>2

\* A tab is opened if there is none, and comes to the front.
LEMMA TabEnsured ==
  ASSUME NEW w \in WindowSet, Honest(w.place, w.pages, w.current), NEW t \in Tab,
         NEW x, x = ensure_table_tab(w, t)
  PROVE  /\ x \in WindowSet /\ x.current = t /\ x.sent = w.sent
         /\ Honest(x.place, x.pages, x.current)
         /\ w.current # t /\ t \in Table => x.place.of = t
         /\ w.current = t => x.place = w.place
         /\ t \notin Table => x.place = w.place
         /\ Owned(w.pages) => Owned(x.pages)
  <1>1. /\ w.pages \in [Tab -> Grid \cup {NULL}]
        /\ \A u \in Tab : w.pages[u] # NULL => Good(w.pages[u])
    BY DEF Honest
  <1>2. CASE w.pages[t] # NULL
    <2>1. x = setCurrentIndex(w, t)
      BY <1>2 DEF ensure_table_tab
    <2> QED BY <1>1, <1>2, <2>1, TabChosen
  <1>3. CASE w.pages[t] = NULL
    <2>1. PICK to : to = [w.pages EXCEPT ![t] = NewPage]
      OBVIOUS
    <2>2. /\ Honest(w.place, to, t) /\ to[t] = NewPage /\ to \in [Tab -> Grid \cup {NULL}]
          /\ Owned(w.pages) => Owned(to)
      BY <1>1, <2>1, NewPageIsGood, PagePut
    <2>3. PICK v : v = [w EXCEPT !.pages = to]
      OBVIOUS
    <2>4. /\ v \in WindowSet /\ v.pages = to /\ v.current = w.current /\ v.sent = w.sent
          /\ v.place = w.place
      BY <2>2, <2>3 DEF WindowSet
    <2>5. x = setCurrentIndex(v, t)
      BY <1>3, <2>1, <2>3 DEF ensure_table_tab
    <2>6. to[t] # NULL /\ \A u \in Tab : to[u] # NULL => Good(to[u])
      BY <2>2, NewPageIsGood, NotNull DEF Honest
    <2>7. /\ x \in WindowSet /\ x.pages = v.pages /\ x.current = t /\ x.sent = v.sent
          /\ Honest(x.place, x.pages, x.current)
          /\ v.current = t => x = v
          /\ v.current # t /\ t \in Table => x.place.of = t
          /\ t \notin Table => x.place = v.place
      BY <2>4, <2>5, <2>6, TabChosen
    <2> QED BY <2>2, <2>4, <2>7
  <1> QED BY <1>2, <1>3


\* What a load does to the page it loads into: it ends the edit.
LEMMA PageLoading ==
  ASSUME NEW page, Good(page), NEW n \in 0 .. MaxPage,
         NEW q, q = prepare_for_model_reset([page EXCEPT !.no = n])
  PROVE  /\ Good(q) /\ SameRows(page, q) /\ q.edit = 0 /\ q.structure = page.structure
         /\ \A t : Own(page, t) => Own(q, t)
  <1>1. PICK r : r = [page EXCEPT !.no = n]
    OBVIOUS
  <1>2. /\ Good(r) /\ r.structure = page.structure /\ r.rows = page.rows /\ SameRows(page, r)
        /\ \A t : Own(page, t) => Own(r, t)
    BY <1>1, Renumbered
  <1>3. q = exit_edit_mode(r, FALSE)
    BY <1>1 DEF prepare_for_model_reset
  <1>4. /\ Good(q) /\ SameRows(r, q) /\ q.edit = 0 /\ q.structure = r.structure
        /\ \A t : Own(r, t) => Own(q, t)
    BY <1>2, <1>3, EditEnds
  <1>5. SameRows(page, q)
    BY <1>2, <1>4 DEF SameRows
  <1> QED BY <1>2, <1>4, <1>5

\* A load under a table page: of the place, into the page in front.
LEMMA LoadsInFront ==
  ASSUME NEW w \in WindowSet, Honest(w.place, w.pages, w.current),
         w.current \in Table, ~Partial(w.place.of), closed \in [Tab -> Nat],
         NEW x, x = [w EXCEPT !.pages[w.current] =
                                prepare_for_model_reset([@ EXCEPT !.no = w.place.no]),
                              !.sent = Call("fetch", w.place.of, w.place.no, w.current)]
  PROVE  /\ x.place = w.place /\ x.current = w.current
         /\ x.sent \in Fetch /\ x.sent.of = w.place.of /\ x.sent.tab = w.current
         /\ x.pages \in [Tab -> Grid \cup {NULL}] /\ Honest(x.place, x.pages, x.current)
         /\ SameRows(w.pages[w.current], x.pages[w.current]) /\ x.pages[w.current].edit = 0
         /\ Owned(w.pages) => Owned(x.pages)
  <1>1. PICK t \in Table : t = w.current
    OBVIOUS
  <1>2. /\ t \in Tab /\ w.place.of \in Table /\ w.place.no \in 0 .. MaxPage
        /\ w.pages[t] # NULL /\ Good(w.pages[t])
    BY <1>1, WindowIs, PlaceIs, TabIs, NotNull DEF Honest
  <1>3. PICK q : q = prepare_for_model_reset([w.pages[t] EXCEPT !.no = w.place.no])
    OBVIOUS
  <1>4. /\ Good(q) /\ SameRows(w.pages[t], q) /\ q.edit = 0
        /\ \A u : Own(w.pages[t], u) => Own(q, u)
    BY <1>2, <1>3, PageLoading
  <1>5. PICK to : to = [w.pages EXCEPT ![t] = q]
    OBVIOUS
  <1>6. /\ Honest(w.place, to, t) /\ to[t] = q /\ to \in [Tab -> Grid \cup {NULL}]
        /\ Owned(w.pages) /\ Own(q, t) => Owned(to)
    <2>1. Honest(w.place, w.pages, w.current)
      OBVIOUS
    <2>2. PICK on : on = w.pages
      OBVIOUS
    <2>3. Honest(w.place, on, w.current) /\ to = [on EXCEPT ![t] = q] /\ t \in Tab /\ Good(q)
      BY ONLY <1>2, <1>4, <1>5, <2>1, <2>2
    <2>4. Honest(w.place, to, t) /\ to[t] = q /\ to \in [Tab -> Grid \cup {NULL}]
      <3>1. PICK front : front = w.current
        OBVIOUS
      <3>2. Honest(w.place, on, front) /\ t = t
        BY ONLY <2>3, <3>1
      <3>3. Honest(w.place, to, t)
        BY ONLY <2>3, <3>2, PagePut
      <3>4. to[t] = q /\ to \in [Tab -> Grid \cup {NULL}]
        BY ONLY <2>3 DEF Honest, Good
      <3> QED BY ONLY <3>3, <3>4
    <2>5. ASSUME Owned(on), Own(q, t)
          PROVE  Owned(to)
      BY ONLY <2>3, <2>5, PagePut
    <2> QED BY ONLY <2>2, <2>4, <2>5
  <1>7. PICK s : s = Call("fetch", w.place.of, w.place.no, t)
    OBVIOUS
  <1>8. s \in Fetch /\ s.of = w.place.of /\ s.tab = t
    <2>1. closed[t] \in Nat /\ t # NULL
      BY <1>2, NotNull
    <2>2. s = [op |-> "fetch", of |-> w.place.of, no |-> w.place.no, tab |-> t,
               object |-> closed[t]]
      BY <1>7, <2>1 DEF Call
    <2>3. PICK c \in Nat : c = closed[t]
      BY <2>1
    <2> QED BY <1>1, <1>2, <2>2, <2>3 DEF Fetch
  <1>9. x = [w EXCEPT !.pages = to, !.sent = s]
    BY <1>1, <1>3, <1>5, <1>7 DEF WindowSet
  <1>10. /\ x.place = w.place /\ x.current = w.current /\ x.pages = to /\ x.sent = s
    BY <1>9 DEF WindowSet
  <1>11. Owned(w.pages) => Owned(to)
    BY <1>1, <1>2, <1>4, <1>6 DEF Owned
  <1> QED BY <1>1, <1>4, <1>6, <1>8, <1>10, <1>11

\* A load changes nothing, or fetches what the place says into the page in
\* front, which keeps its rows and loses its edit.
LEMMA Loaded ==
  ASSUME NEW w \in WindowSet, Honest(w.place, w.pages, w.current), w.sent = NULL,
         closed \in [Tab -> Nat], NEW x, x = load_current_table_page(w)
  PROVE  /\ x.pages \in [Tab -> Grid \cup {NULL}] /\ Honest(x.place, x.pages, x.current)
         /\ x.sent # NULL => x.sent \in Fetch
         /\ w.current \in Table =>
              /\ x.place = w.place /\ x.current = w.current
              /\ \/ x.pages = w.pages
                 \/ /\ SameRows(w.pages[w.current], x.pages[w.current])
                    /\ x.pages[w.current].edit = 0
         /\ Owned(w.pages) => Owned(x.pages)
         /\ Placed(w.place, w.current) => /\ Placed(x.place, x.current)
                                          /\ x.sent # NULL => x.sent.of = x.sent.tab
  <1>1. CASE Partial(w.place.of)
    <2>1. x = w
      BY <1>1 DEF load_current_table_page, Partial
    <2> QED BY <2>1, WindowIs
  <1>2. CASE ~Partial(w.place.of) /\ w.current \in Table
    <2>1. x = [w EXCEPT !.pages[w.current] =
                          prepare_for_model_reset([@ EXCEPT !.no = w.place.no]),
                        !.sent = Call("fetch", w.place.of, w.place.no, w.current)]
      BY <1>2 DEF load_current_table_page, Partial
    <2> QED BY <1>2, <2>1, LoadsInFront DEF Placed
  <1>3. CASE ~Partial(w.place.of) /\ w.current \notin Table
    <2>1. PICK v : v = ensure_table_tab(w, w.place.of)
      OBVIOUS
    <2>2. w.place.of \in Table /\ w.place.of \in Tab /\ w.place.of # w.current
      BY <1>3, WindowIs, PlaceIs, TabIs
    <2>3. /\ v \in WindowSet /\ v.current = w.place.of
          /\ Honest(v.place, v.pages, v.current)
          /\ v.place.of = w.place.of
          /\ Owned(w.pages) => Owned(v.pages)
      BY <2>1, <2>2, TabEnsured
    <2>4. v.current \in Table /\ ~Partial(v.place.of)
      BY <1>3, <2>2, <2>3
    <2>5. x = [v EXCEPT !.pages[v.current] =
                          prepare_for_model_reset([@ EXCEPT !.no = v.place.no]),
                        !.sent = Call("fetch", v.place.of, v.place.no, v.current)]
      BY <1>3, <2>1 DEF load_current_table_page, Partial
    <2>6. /\ x.place = v.place /\ x.current = v.current
          /\ x.sent \in Fetch /\ x.sent.of = v.place.of /\ x.sent.tab = v.current
          /\ x.pages \in [Tab -> Grid \cup {NULL}] /\ Honest(x.place, x.pages, x.current)
          /\ Owned(v.pages) => Owned(x.pages)
      BY <2>3, <2>4, <2>5, LoadsInFront
    <2>7. Placed(x.place, x.current)
      BY <2>3, <2>6 DEF Placed
    <2> QED BY <1>3, <2>3, <2>6, <2>7
  <1> QED BY <1>1, <1>2, <1>3

\* The window as it stands.
LEMMA WindowNow ==
  ASSUME Honest(place, pages, current), NEW w, w = Window
  PROVE  /\ w \in WindowSet /\ w.place = place /\ w.pages = pages /\ w.current = current
         /\ w.sent = NULL
  <1>1. /\ place \in Place /\ pages \in [Tab -> Grid \cup {NULL}] /\ current \in Tab \cup {NULL}
    BY DEF Honest
  <1> QED BY <1>1 DEF Window, WindowSet

\* Tabs are deleted, and one that is left is in front.
LEMMA TabsGone ==
  ASSUME Honest(place, pages, current), NEW ts, NEW t \in Neighbours(ts),
         NEW x, x = Without(ts, t)
  PROVE  /\ x \in WindowSet /\ Honest(x.place, x.pages, x.current)
         /\ Owned(pages) => Owned(x.pages)
         /\ Placed(place, current) => Placed(x.place, x.current)
         /\ x.current \in Table => x.place.of = x.current
  <1>1. PICK w : w = Window
    OBVIOUS
  <1>2. /\ w \in WindowSet /\ w.place = place /\ w.pages = pages /\ w.current = current
        /\ w.sent = NULL
    BY <1>1, WindowNow
  <1>3. /\ place \in Place /\ pages \in [Tab -> Grid \cup {NULL}]
        /\ \A u \in Tab : pages[u] # NULL => Good(pages[u])
        /\ current \in Tab \cup {NULL} /\ (current # NULL => pages[current] # NULL)
        /\ current = NULL => \A u \in Tab : pages[u] = NULL
    BY DEF Honest
  <1>4. PICK to : to = [u \in Tab |-> IF u \in ts THEN NULL ELSE pages[u]]
    OBVIOUS
  <1>5. to \in [Tab -> Grid \cup {NULL}] /\ \A u \in Tab : to[u] = IF u \in ts THEN NULL ELSE pages[u]
    BY <1>3, <1>4
  <1>6. /\ t \in Tab \cup {NULL} /\ (t # NULL => to[t] # NULL)
        /\ t = NULL => \A u \in Tab : to[u] = NULL
    <2>1. CASE current \notin ts
      <3>1. t = current
        BY <2>1 DEF Neighbours
      <3>2. t # NULL => t \in Tab /\ t \notin ts
        BY <1>3, <2>1, <3>1
      <3> QED BY <1>3, <1>5, <3>1, <3>2
    <2>2. CASE current \in ts /\ \E u \in Tab \ ts : pages[u] # NULL
      <3>1. t \in {u \in Tab \ ts : pages[u] # NULL}
        BY <2>2 DEF Neighbours
      <3> QED BY <1>5, <3>1, NotNull
    <2>3. CASE current \in ts /\ \A u \in Tab \ ts : pages[u] = NULL
      <3>1. t = NULL
        BY <2>3 DEF Neighbours
      <3> QED BY <1>5, <2>3, <3>1
    <2> QED BY <2>1, <2>2, <2>3
  <1>7. PICK v : v = [w EXCEPT !.pages = to, !.current = t]
    OBVIOUS
  <1>8. v \in WindowSet /\ v.place = place /\ v.pages = to /\ v.current = t
    BY <1>2, <1>5, <1>6, <1>7 DEF WindowSet
  <1>9. x = sync_current_table_page(v)
    BY <1>1, <1>4, <1>7 DEF Without
  <1>10. \A u \in Tab : to[u] # NULL => Good(to[u])
    BY <1>3, <1>5
  <1>11. /\ x \in WindowSet /\ x.pages = to /\ x.current = t
         /\ t \in Table => x.place.of = t
    BY <1>6, <1>8, <1>9, <1>10, Synced
  <1>12. x.place \in Place /\ Honest(x.place, x.pages, x.current)
    BY <1>5, <1>6, <1>10, <1>11, WindowIs DEF Honest
  <1>13. Owned(pages) => Owned(x.pages)
    BY <1>5, <1>11, TabIs DEF Owned
  <1>14. Placed(x.place, x.current)
    BY <1>11 DEF Placed
  <1> QED BY <1>11, <1>12, <1>13, <1>14

-----------------------------------------------------------------------------
(* The requests under way.                                                 *)

\* What is sent comes in addition to what was.
LEMMA SendAdds ==
  ASSUME NEW bag, NEW sent, NEW call \in BagToSet(Send(bag, sent))
  PROVE  call \in BagToSet(bag) \/ (sent # NULL /\ call = sent)
  BY DEF Send, BagToSet, (+), SetToBag

\* What is answered is gone, or there once less: nothing comes in addition.
LEMMA AnswerTakes ==
  ASSUME NEW bag, NEW answered, NEW call \in BagToSet(bag (-) SetToBag({answered}))
  PROVE  call \in BagToSet(bag)
  BY DEF BagToSet, (-), SetToBag

-----------------------------------------------------------------------------
(* The invariant, of what a step leaves.                                   *)

\* The invariant holds of the values that the variables get.
LEMMA Kept ==
  ASSUME NEW at, at = place', NEW on, on = pages', NEW front, front = current',
         NEW bag, bag = calls',
         connected' \subseteq Conn, closed' \in [Tab -> Nat], calm' \in BOOLEAN,
         Honest(at, on, front), \A call \in BagToSet(bag) : RequestFits(call),
         DialogFits',
         calm' => /\ Placed(at, front) /\ Owned(on) /\ DialogTrue'
                  /\ \A call \in BagToSet(bag) : RequestTrue(call)
  PROVE  IInv'
  <1>1. Honest(place, pages, current)'
    BY DEF Honest
  <1>2. (\A call \in BagToSet(calls) : RequestFits(call))'
    BY DEF BagToSet
  <1>3. calm' => Placed(place, current)' /\ Owned(pages)'
    BY DEF Placed, Owned
  <1>4. calm' => (\A call \in BagToSet(calls) : RequestTrue(call))'
    BY DEF BagToSet
  <1> QED BY <1>1, <1>2, <1>3, <1>4 DEF IInv

\* What holds before a step, of values.
LEMMA Holds ==
  ASSUME IInv
  PROVE  /\ connected \subseteq Conn /\ closed \in [Tab -> Nat] /\ calm \in BOOLEAN
         /\ Honest(place, pages, current)
         /\ \A call \in BagToSet(calls) : RequestFits(call)
         /\ DialogFits
         /\ calm => Placed(place, current)
         /\ calm => Owned(pages)
         /\ calm => DialogTrue
         /\ calm => \A call \in BagToSet(calls) : RequestTrue(call)
  BY DEF IInv

\* A step of a user who has no dialog open, or who closes it.
LEMMA KeptWithoutDialog ==
  ASSUME IInv, dialog' = NULL,
         NEW at, at = place', NEW on, on = pages', NEW front, front = current',
         connected' \subseteq Conn, closed' \in [Tab -> Nat], calm' = calm,
         NEW sent, calls' = Send(calls, sent),
         Honest(at, on, front), sent # NULL => RequestFits(sent),
         calm => /\ Placed(at, front) /\ Owned(on)
                 /\ sent # NULL => RequestTrue(sent)
  PROVE  IInv'
  <1>1. PICK bag : bag = calls'
    OBVIOUS
  <1>2. \A call \in BagToSet(bag) : call \in BagToSet(calls) \/ (sent # NULL /\ call = sent)
    BY <1>1, SendAdds
  <1>3. \A call \in BagToSet(bag) : RequestFits(call)
    BY <1>2, Holds
  <1>4. calm => \A call \in BagToSet(bag) : RequestTrue(call)
    BY <1>2, Holds
  <1>5. DialogFits' /\ DialogTrue'
    BY DEF DialogFits, DialogTrue
  <1>6. calm' \in BOOLEAN
    BY Holds
  <1> QED BY <1>1, <1>3, <1>4, <1>5, <1>6, Kept

\* The same when nothing is sent.
LEMMA KeptSilently ==
  ASSUME IInv, dialog' = NULL,
         NEW at, at = place', NEW on, on = pages', NEW front, front = current',
         connected' \subseteq Conn, closed' \in [Tab -> Nat], calm' = calm, calls' = calls,
         Honest(at, on, front), calm => Placed(at, front) /\ Owned(on)
  PROVE  IInv'
  <1>1. PICK sent : sent = NULL
    OBVIOUS
  <1>2. calls' = Send(calls, sent)
    BY <1>1 DEF Send
  <1> QED BY <1>1, <1>2, KeptWithoutDialog

-----------------------------------------------------------------------------
(* The user's steps.                                                       *)

\* What a load sends.
LEMMA FetchFits ==
  ASSUME NEW sent \in Fetch
  PROVE  RequestFits(sent) /\ (sent.of = sent.tab => RequestTrue(sent))
  BY TabIs DEF Fetch, RequestFits, RequestTrue

\* A load from the window that a user's step has reached.
LEMMA LoadKeeps ==
  ASSUME IInv, dialog' = NULL, UNCHANGED <<connected, closed, calm>>,
         NEW w \in WindowSet, Honest(w.place, w.pages, w.current), w.sent = NULL, Loads(w),
         calm => Placed(w.place, w.current) /\ Owned(w.pages)
  PROVE  IInv'
  <1>1. PICK x : x = load_current_table_page(w)
    OBVIOUS
  <1>2. x.place = place' /\ x.pages = pages' /\ x.current = current' /\ calls' = Send(calls, x.sent)
    BY <1>1 DEF Loads, Becomes
  <1>3. closed \in [Tab -> Nat] /\ connected \subseteq Conn
    BY Holds
  <1>4. /\ Honest(x.place, x.pages, x.current)
        /\ x.sent # NULL => x.sent \in Fetch
        /\ Owned(w.pages) => Owned(x.pages)
        /\ Placed(w.place, w.current) => /\ Placed(x.place, x.current)
                                         /\ x.sent # NULL => x.sent.of = x.sent.tab
    BY <1>1, <1>3, Loaded
  <1>5. /\ x.sent # NULL => RequestFits(x.sent)
        /\ calm /\ x.sent # NULL => RequestTrue(x.sent)
    BY <1>4, FetchFits
  <1>6. PICK at : at = x.place
    OBVIOUS
  <1>7. PICK on : on = x.pages
    OBVIOUS
  <1>8. PICK front : front = x.current
    OBVIOUS
  <1>9. PICK sent : sent = x.sent
    OBVIOUS
  <1>10. Honest(at, on, front) /\ (calm => Placed(at, front) /\ Owned(on))
    BY <1>4, <1>6, <1>7, <1>8
  <1>11. /\ at = place' /\ on = pages' /\ front = current' /\ calls' = Send(calls, sent)
         /\ sent # NULL => RequestFits(sent)
         /\ calm /\ sent # NULL => RequestTrue(sent)
    BY <1>2, <1>5, <1>6, <1>7, <1>8, <1>9
  <1>12. connected' \subseteq Conn /\ closed' \in [Tab -> Nat]
    BY <1>3
  <1> QED BY <1>10, <1>11, <1>12, KeptWithoutDialog


\* One page is replaced where it is.
LEMMA PagePutNow ==
  ASSUME NEW at, NEW on, NEW front, Honest(at, on, front), NEW t \in Tab, on[t] # NULL,
         NEW q, Good(q), NEW to, to = [on EXCEPT ![t] = q]
  PROVE  /\ Honest(at, to, front) /\ to[t] = q
         /\ \A u \in Tab : u # t => to[u] = on[u]
         /\ Owned(on) /\ (t \in Table /\ Own(on[t], t) => Own(q, t)) => Owned(to)
  <1>1. front \in Tab
    BY DEF Honest
  <1>2. PICK x \in Tab : x = front
    BY <1>1
  <1>3. Honest(at, to, x)
    BY <1>2, PagePut
  <1>4. to[t] = q /\ \A u \in Tab : u # t => to[u] = on[u]
    BY DEF Honest
  <1>5. ASSUME Owned(on), t \in Table /\ Own(on[t], t) => Own(q, t)
        PROVE  Owned(to)
    BY <1>4, <1>5, TabIs DEF Owned
  <1> QED BY <1>2, <1>3, <1>4, <1>5

\* A step that replaces the page in front, the place being as it was.
LEMMA PageKeeps ==
  ASSUME IInv, dialog' = NULL, UNCHANGED <<connected, place, current, closed, calm>>,
         current \in Table, NEW q, PageBecomes(q), Good(q),
         Own(pages[current], current) => Own(q, current),
         NEW sent, calls' = Send(calls, sent),
         sent # NULL => RequestFits(sent), calm /\ sent # NULL => RequestTrue(sent)
  PROVE  IInv'
  <1>1. PICK t \in Table : t = current
    OBVIOUS
  <1>2. t \in Tab /\ t # NULL
    BY TabIs, NotNull
  <1>3. PICK at : at = place
    OBVIOUS
  <1>4. PICK on : on = pages
    OBVIOUS
  <1>5. PICK to : to = [on EXCEPT ![t] = q]
    OBVIOUS
  <1>6. /\ at = place' /\ to = pages' /\ t = current'
    BY <1>1, <1>3, <1>4, <1>5 DEF PageBecomes
  <1>7. Honest(at, on, t)
    BY <1>1, <1>3, <1>4, Holds
  <1>8. on[t] # NULL
    BY <1>2, <1>7 DEF Honest
  <1>9. Own(on[t], t) => Own(q, t)
    BY <1>1, <1>4
  <1>10. /\ Honest(at, to, t)
         /\ Owned(on) /\ (t \in Table /\ Own(on[t], t) => Own(q, t)) => Owned(to)
    <2>1. Good(q)
      OBVIOUS
    <2> QED BY ONLY <1>2, <1>5, <1>7, <1>8, <2>1, PagePutNow
  <1>11. calm => Owned(on) /\ Placed(at, t)
    BY <1>1, <1>3, <1>4, Holds
  <1>12. calm => Owned(to)
    BY <1>9, <1>10, <1>11
  <1>13. connected' \subseteq Conn /\ closed' \in [Tab -> Nat] /\ calm' = calm
    BY Holds
  <1> QED BY <1>6, <1>10, <1>11, <1>12, <1>13, KeptWithoutDialog

\* The page in front of the user.
LEMMA PageNow ==
  ASSUME IInv, current \in Table
  PROVE  Page = pages[current] /\ Good(Page) /\ (calm => Own(Page, current)) /\ current \in Tab
  BY Holds, TabIs, NotNull DEF Page, Honest, Owned

\* load_table_content.
LEMMA TableOpens ==
  ASSUME IInv, NEW t \in Table, load_table_content(t)
  PROVE  IInv'
  <1>1. dialog' = NULL /\ UNCHANGED <<connected, closed, calm>>
    BY DEF load_table_content, Act
  <1>2. PICK v : v = ensure_table_tab(Window, t)
    OBVIOUS
  <1>3. PICK w : w = [v EXCEPT !.place = [of |-> t, no |-> 0], !.pages[t].no = 0]
    OBVIOUS
  <1>4. Loads(w)
    BY <1>2, <1>3 DEF load_table_content
  <1>5. PICK z : z = Window
    OBVIOUS
  <1>6. /\ z \in WindowSet /\ z.place = place /\ z.pages = pages /\ z.current = current
        /\ z.sent = NULL
    BY <1>5, Holds, WindowNow
  <1>7. t \in Tab /\ t # NULL
    BY TabIs, NotNull
  <1>8. Honest(z.place, z.pages, z.current)
    BY <1>6, Holds
  <1>9. /\ v \in WindowSet /\ v.current = t /\ v.sent = NULL
        /\ Honest(v.place, v.pages, v.current)
        /\ Owned(z.pages) => Owned(v.pages)
    BY <1>2, <1>5, <1>6, <1>7, <1>8, TabEnsured
  <1>10. v.pages[t] # NULL /\ Good(v.pages[t]) /\ 0 \in 0 .. MaxPage
    BY <1>7, <1>9, TablePageAssumption DEF Honest
  <1>11. PICK q : q = [v.pages[t] EXCEPT !.no = 0]
    OBVIOUS
  <1>12. Good(q) /\ (Own(v.pages[t], t) => Own(q, t))
    BY <1>10, <1>11, Renumbered
  <1>13. PICK on : on = v.pages
    OBVIOUS
  <1>14. PICK to : to = [on EXCEPT ![t] = q]
    OBVIOUS
  <1>15. PICK at : at = [of |-> t, no |-> 0]
    OBVIOUS
  <1>16. at \in Place /\ at.of = t
    BY <1>10, <1>15 DEF Place
  <1>17. Honest(at, on, t)
    BY <1>9, <1>13, <1>16 DEF Honest
  <1>18. /\ Honest(at, to, t)
         /\ Owned(on) /\ (t \in Table /\ Own(on[t], t) => Own(q, t)) => Owned(to)
    <2>1. on[t] # NULL
      BY <1>10, <1>13
    <2>2. t \in Tab /\ Good(q)
      BY <1>7, <1>12
    <2> QED BY ONLY <1>14, <1>17, <2>1, <2>2, PagePutNow
  <1>19. to \in [Tab -> Grid \cup {NULL}]
    BY <1>18 DEF Honest
  <1>20. w = [v EXCEPT !.place = at, !.pages = to]
    BY <1>3, <1>9, <1>11, <1>13, <1>14, <1>15 DEF WindowSet
  <1>21. /\ w \in WindowSet /\ w.place = at /\ w.pages = to /\ w.current = t /\ w.sent = NULL
    BY <1>9, <1>16, <1>19, <1>20 DEF WindowSet
  <1>22. calm => Owned(z.pages)
    BY <1>6, Holds
  <1>23. calm => Owned(to)
    BY <1>9, <1>12, <1>13, <1>18, <1>22
  <1>24. Placed(at, t)
    BY <1>16 DEF Placed
  <1>25. /\ Honest(w.place, w.pages, w.current)
         /\ calm => Placed(w.place, w.current) /\ Owned(w.pages)
    BY <1>18, <1>21, <1>23, <1>24
  <1> QED BY <1>1, <1>4, <1>21, <1>25, LoadKeeps

\* turn_page: the place moves to another page of its table.
LEMMA PageTurns ==
  ASSUME IInv, NEW no \in 0 .. MaxPage, turn_page(no)
  PROVE  IInv'
  <1>1. dialog' = NULL /\ UNCHANGED <<connected, closed, calm>>
    BY DEF turn_page, Act
  <1>2. PICK z : z = Window
    OBVIOUS
  <1>3. /\ z \in WindowSet /\ z.place = place /\ z.pages = pages /\ z.current = current
        /\ z.sent = NULL
    BY <1>2, Holds, WindowNow
  <1>4. PICK at : at = [z.place EXCEPT !.no = no]
    OBVIOUS
  <1>5. at \in Place /\ at.of = z.place.of
    <2>1. z.place \in Place
      BY <1>3, WindowIs
    <2> QED BY <1>4, <2>1 DEF Place
  <1>6. PICK w : w = [Window EXCEPT !.place.no = no]
    OBVIOUS
  <1>7. w = [z EXCEPT !.place = at]
    BY <1>2, <1>4, <1>6
  <1>8. /\ w \in WindowSet /\ w.place = at /\ w.pages = pages /\ w.current = current
        /\ w.sent = NULL
    BY <1>3, <1>5, <1>7 DEF WindowSet
  <1>9. Loads(w)
    BY <1>6 DEF turn_page
  <1>10. Honest(w.place, w.pages, w.current)
    <2>1. Honest(place, pages, current)
      BY Holds
    <2> QED BY <1>5, <1>8, <2>1 DEF Honest
  <1>11. calm => Placed(w.place, w.current) /\ Owned(w.pages)
    <2>1. calm => Placed(place, current) /\ Owned(pages)
      BY Holds
    <2> QED BY <1>3, <1>5, <1>8, <2>1 DEF Placed
  <1> QED BY <1>1, <1>8, <1>9, <1>10, <1>11, LoadKeeps

\* A step that only moves between tabs.
LEMMA WindowKeeps ==
  ASSUME IInv, dialog' = NULL, connected' \subseteq Conn, closed' \in [Tab -> Nat],
         calm' = calm, calls' = calls, NEW x, Becomes(x),
         Honest(x.place, x.pages, x.current),
         calm => Placed(x.place, x.current) /\ Owned(x.pages)
  PROVE  IInv'
  <1>1. PICK at : at = x.place
    OBVIOUS
  <1>2. PICK on : on = x.pages
    OBVIOUS
  <1>3. PICK front : front = x.current
    OBVIOUS
  <1>4. /\ at = place' /\ on = pages' /\ front = current'
        /\ Honest(at, on, front) /\ (calm => Placed(at, front) /\ Owned(on))
    BY <1>1, <1>2, <1>3 DEF Becomes
  <1> QED BY <1>4, KeptSilently

\* select_tab.
LEMMA TabSelected ==
  ASSUME IInv, NEW t \in Tab, select_tab(t)
  PROVE  IInv'
  <1>1. /\ dialog' = NULL /\ UNCHANGED <<connected, closed, calls, calm>>
        /\ pages[t] # NULL /\ t # current
    BY DEF select_tab, Act
  <1>2. PICK z : z = Window
    OBVIOUS
  <1>3. /\ z \in WindowSet /\ z.place = place /\ z.pages = pages /\ z.current = current
        /\ z.sent = NULL
    BY <1>2, Holds, WindowNow
  <1>4. PICK x : x = setCurrentIndex(z, t)
    OBVIOUS
  <1>5. Becomes(x)
    BY <1>2, <1>4 DEF select_tab
  <1>6. \A u \in Tab : z.pages[u] # NULL => Good(z.pages[u])
    BY <1>3, Holds DEF Honest
  <1>7. z.pages[t] # NULL /\ z.current # t
    BY <1>1, <1>3
  <1>8. /\ x.pages = z.pages /\ x.current = t
        /\ Honest(x.place, x.pages, x.current)
        /\ z.current # t /\ t \in Table => x.place.of = t
    BY <1>3, <1>4, <1>6, <1>7, TabChosen
  <1>9. Placed(x.place, x.current)
    BY <1>7, <1>8 DEF Placed
  <1>10. calm => Owned(x.pages)
    BY <1>3, <1>8, Holds
  <1>11. connected' \subseteq Conn /\ closed' \in [Tab -> Nat] /\ calm' = calm
    BY <1>1, Holds
  <1> QED BY <1>1, <1>5, <1>8, <1>9, <1>10, <1>11, WindowKeeps

\* Pages are counted where they are deleted.
LEMMA DeletedCounts ==
  ASSUME closed \in [Tab -> Nat], NEW ts, Deleted(ts)
  PROVE  closed' \in [Tab -> Nat]
  <1>1. ASSUME NEW t \in Tab
        PROVE  closed[t] + (IF t \in ts THEN 1 ELSE 0) \in Nat
    OBVIOUS
  <1> QED BY <1>1 DEF Deleted

\* close_tab.
LEMMA TabCloses ==
  ASSUME IInv, NEW t \in Tab, close_tab(t)
  PROVE  IInv'
  <1>1. dialog' = NULL /\ UNCHANGED <<connected, calls, calm>>
    BY DEF close_tab, Act
  <1>2. PICK n \in Neighbours({t}) : Becomes(Without({t}, n))
    BY DEF close_tab
  <1>3. PICK x : x = Without({t}, n)
    OBVIOUS
  <1>4. /\ Honest(x.place, x.pages, x.current)
        /\ Owned(pages) => Owned(x.pages)
        /\ Placed(place, current) => Placed(x.place, x.current)
    BY <1>3, Holds, TabsGone
  <1>5. closed' \in [Tab -> Nat]
    BY Holds, DeletedCounts DEF close_tab
  <1>6. connected' \subseteq Conn /\ calm' = calm
    BY <1>1, Holds
  <1>7. calm => Placed(x.place, x.current) /\ Owned(x.pages)
    BY <1>4, Holds
  <1>8. Becomes(x)
    BY <1>2, <1>3
  <1> QED BY <1>1, <1>4, <1>5, <1>6, <1>7, <1>8, WindowKeeps

\* disconnect_active_connection: the place may lose its table.
LEMMA Disconnects ==
  ASSUME IInv, NEW c \in Conn, disconnect_active_connection(c)
  PROVE  IInv'
  <1>1. dialog' = NULL /\ UNCHANGED <<calls, calm>> /\ connected' = connected \ {c}
    BY DEF disconnect_active_connection, Act
  <1>2. PICK ts : /\ \E n \in Neighbours(ts) :
                       LET w == Without(ts, n)
                       IN  Becomes(IF w.place.of[1] = c THEN [w EXCEPT !.place.of = NoPlace] ELSE w)
                  /\ Deleted(ts)
    BY DEF disconnect_active_connection
  <1>3. PICK n \in Neighbours(ts) :
          LET w == Without(ts, n)
          IN  Becomes(IF w.place.of[1] = c THEN [w EXCEPT !.place.of = NoPlace] ELSE w)
    BY <1>2
  <1>4. PICK w : w = Without(ts, n)
    OBVIOUS
  <1>5. /\ w \in WindowSet /\ Honest(w.place, w.pages, w.current)
        /\ Owned(pages) => Owned(w.pages)
        /\ Placed(place, current) => Placed(w.place, w.current)
    BY <1>4, Holds, TabsGone
  <1>6. PICK x : x = IF w.place.of[1] = c THEN [w EXCEPT !.place.of = NoPlace] ELSE w
    OBVIOUS
  <1>7. Becomes(x)
    BY <1>3, <1>4, <1>6
  <1>8. closed' \in [Tab -> Nat] /\ connected' \subseteq Conn
    BY <1>1, <1>2, Holds, DeletedCounts
  <1>9. calm => Placed(w.place, w.current) /\ Owned(w.pages)
    BY <1>5, Holds
  <1>10. CASE w.place.of[1] # c
    BY <1>1, <1>5, <1>6, <1>7, <1>8, <1>9, <1>10, WindowKeeps
  <1>11. CASE w.place.of[1] = c
    <2>1. PICK at : at = [w.place EXCEPT !.of = NoPlace]
      OBVIOUS
    <2>2. at \in Place /\ at.of = NoPlace /\ Partial(at.of)
      <3>1. NoPlace \in (Conn \cup {NULL}) \X {NULL} /\ Partial(NoPlace)
        BY DEF NoPlace, Partial
      <3>2. w.place \in Place
        BY <1>5, WindowIs
      <3>3. at \in Place /\ at.of = NoPlace
        BY <2>1, <3>1, <3>2 DEF Place
      <3> QED BY <3>1, <3>3
    <2>3. x = [w EXCEPT !.place = at]
      BY <1>6, <1>11, <2>1
    <2>4. x.place = at /\ x.pages = w.pages /\ x.current = w.current
      BY <1>5, <2>3 DEF WindowSet
    <2>5. Honest(x.place, x.pages, x.current)
      BY <1>5, <2>2, <2>4 DEF Honest
    <2>6. Placed(x.place, x.current)
      BY <2>2, <2>4 DEF Placed
    <2>7. calm => Owned(x.pages)
      BY <1>9, <2>4
    <2> QED BY <1>1, <1>7, <1>8, <2>5, <2>6, <2>7, WindowKeeps
  <1> QED BY <1>10, <1>11


\* execute_query_for_page.
LEMMA QueryRuns ==
  ASSUME IInv, NEW c \in Conn, execute_query_for_page(c)
  PROVE  IInv'
  <1>1. dialog' = NULL /\ UNCHANGED <<connected, closed, calm>>
    BY DEF execute_query_for_page, Act
  <1>2. PICK t : t = <<c, Result>>
    OBVIOUS
  <1>3. t \in Results /\ t \in Tab /\ t \notin Table /\ t # NULL
    BY <1>2, TabIs, NotNull DEF Results
  <1>4. PICK z : z = Window
    OBVIOUS
  <1>5. /\ z \in WindowSet /\ z.place = place /\ z.pages = pages /\ z.current = current
        /\ z.sent = NULL /\ Honest(z.place, z.pages, z.current)
    BY <1>4, Holds, WindowNow
  <1>6. PICK x : x = ensure_table_tab(z, t)
    OBVIOUS
  <1>7. /\ Honest(x.place, x.pages, x.current) /\ x.current = t
        /\ Owned(z.pages) => Owned(x.pages)
    BY <1>3, <1>5, <1>6, TabEnsured
  <1>8. PICK sent : sent = Call("query", t, 0, t)
    OBVIOUS
  <1>9. Becomes(x) /\ calls' = Send(calls, sent)
    BY <1>2, <1>4, <1>5, <1>6, <1>8 DEF execute_query_for_page, ensure_table_tab
  <1>10. RequestFits(sent) /\ RequestTrue(sent)
    <2>1. sent.op = "query" /\ sent.of = t /\ sent.tab = t
      BY <1>8 DEF Call
    <2> QED BY <1>3, <2>1 DEF RequestFits, RequestTrue
  <1>11. PICK at : at = x.place
    OBVIOUS
  <1>12. PICK on : on = x.pages
    OBVIOUS
  <1>13. PICK front : front = x.current
    OBVIOUS
  <1>14. at = place' /\ on = pages' /\ front = current' /\ Honest(at, on, front)
    BY <1>7, <1>9, <1>11, <1>12, <1>13 DEF Becomes
  <1>15. Placed(at, front)
    BY <1>3, <1>7, <1>13 DEF Placed
  <1>16. calm => Owned(on)
    BY <1>5, <1>7, <1>12, Holds
  <1>17. connected' \subseteq Conn /\ closed' \in [Tab -> Nat] /\ calm' = calm
    BY <1>1, Holds
  <1> QED BY <1>1, <1>9, <1>10, <1>14, <1>15, <1>16, <1>17, KeptWithoutDialog

\* A step that replaces the page in front and sends nothing.
LEMMA PageKeepsSilently ==
  ASSUME IInv, dialog' = NULL, UNCHANGED <<connected, place, current, closed, calm, calls>>,
         current \in Table, NEW q, PageBecomes(q), Good(q),
         Own(pages[current], current) => Own(q, current)
  PROVE  IInv'
  <1>1. PICK sent : sent = NULL
    OBVIOUS
  <1>2. calls' = Send(calls, sent)
    BY <1>1 DEF Send
  <1> QED BY <1>1, <1>2, PageKeeps

\* begin_inline_edit.
LEMMA EditingBegins ==
  ASSUME IInv, NEW i \in 1 .. MaxRows, begin_inline_edit(i)
  PROVE  IInv'
  <1>1. /\ dialog' = NULL /\ UNCHANGED <<connected, place, current, closed, calm, calls>>
        /\ current \in Table /\ i \in DOMAIN Page.rows
    BY DEF begin_inline_edit, Act
  <1>2. Page = pages[current] /\ Good(Page)
    BY <1>1, PageNow
  <1>3. PICK page : page = exit_edit_mode(Page, FALSE)
    OBVIOUS
  <1>4. /\ Good(page) /\ page.edit = 0 /\ SameRows(Page, page)
        /\ Own(Page, current) => Own(page, current)
    BY <1>2, <1>3, EditEnds
  <1>5. i \in 1 .. Len(page.rows)
    BY <1>1, <1>2, <1>4, GridIs DEF SameRows, Good
  <1>6. PICK q : q = IF page.structure = NULL THEN page ELSE enter_edit_mode(page, i)
    OBVIOUS
  <1>7. Good(q) /\ (Own(page, current) => Own(q, current))
    <2>1. CASE page.structure = NULL
      BY <1>4, <1>6, <2>1
    <2>2. CASE page.structure # NULL
      <3>1. q = enter_edit_mode(page, i)
        BY <1>6, <2>2
      <3> QED BY <1>4, <1>5, <3>1, EditBegins
    <2> QED BY <2>1, <2>2
  <1>8. PageBecomes(q)
    BY <1>3, <1>6 DEF begin_inline_edit
  <1>9. Own(pages[current], current) => Own(q, current)
    BY <1>2, <1>4, <1>7
  <1> QED BY <1>1, <1>7, <1>8, <1>9, PageKeepsSilently

\* type_text.
LEMMA TypingKeeps ==
  ASSUME IInv, type_text
  PROVE  IInv'
  <1>1. /\ dialog' = NULL /\ UNCHANGED <<connected, place, current, closed, calm, calls>>
        /\ current \in Table /\ Page.edit # 0
    BY DEF type_text
  <1>2. PICK page : page = Page
    OBVIOUS
  <1>3. page = pages[current] /\ Good(page) /\ page.edit # 0
    BY <1>1, <1>2, PageNow
  <1>4. PICK q : q = [page EXCEPT !.rows[page.edit].text = "typed"]
    OBVIOUS
  <1>5. Good(q) /\ (Own(page, current) => Own(q, current))
    BY <1>3, <1>4, TextTyped
  <1>6. PageBecomes(q)
    BY <1>2, <1>4 DEF type_text
  <1>7. Own(pages[current], current) => Own(q, current)
    BY <1>3, <1>5
  <1> QED BY ONLY IInv, <1>1, <1>5, <1>6, <1>7, PageKeepsSilently

\* cancel_inline_edit.
LEMMA EditingEnds ==
  ASSUME IInv, cancel_inline_edit
  PROVE  IInv'
  <1>1. /\ dialog' = NULL /\ UNCHANGED <<connected, place, current, closed, calm, calls>>
        /\ current \in Table
    BY DEF cancel_inline_edit, Act
  <1>2. Page = pages[current] /\ Good(Page)
    BY <1>1, PageNow
  <1>3. PICK q : q = exit_edit_mode(Page, FALSE)
    OBVIOUS
  <1>4. Good(q) /\ (Own(Page, current) => Own(q, current))
    BY <1>2, <1>3, EditEnds
  <1>5. PageBecomes(q)
    BY <1>3 DEF cancel_inline_edit
  <1>6. Own(pages[current], current) => Own(q, current)
    BY <1>2, <1>4
  <1> QED BY <1>1, <1>4, <1>5, <1>6, PageKeepsSilently

\* The key of a row of the tab that was not typed in or refused.
LEMMA RowOfTab ==
  ASSUME NEW page, Good(page), NEW t \in Tab, Own(page, t), NEW i \in DOMAIN page.rows,
         NEW text \in {page.rows[i].text, page.rows[i].original}, text # "typed"
  PROVE  /\ RowOf(page.rows[i]).of = t /\ RowOf(page.rows[i]) # NULL
         /\ KeyOf(page.rows[i], text) # NULL
         /\ KeyOf(page.rows[i], text).row = RowOf(page.rows[i])
         /\ KeyOf(page.rows[i], text).text = text
         /\ text \in {"loaded", "saved"}
  <1>1. page.rows[i] \in Row
    BY GridIs DEF Good
  <1>2. PICK row \in Row : row = page.rows[i]
    BY <1>1
  <1>3. text \in Texts /\ text # "refused"
    BY <1>2 DEF Own, Row
  <1>4. RowOf(row) \in RowName
    BY DEF RowOf, Row, RowName
  <1>5. KeyOf(row, text) = [row |-> RowOf(row), text |-> text] /\ KeyOf(row, text) \in Key
    BY <1>3, <1>4 DEF KeyOf, Key
  <1>6. RowOf(row).of = t
    <2>1. PICK p \in 0 .. MaxPage : FromOne(page, t, p)
      BY DEF Own
    <2>2. RowOf(row) = [of |-> t, page |-> p, nr |-> i]
      BY <1>2, <2>1 DEF FromOne
    <2> QED BY <2>2
  <1>7. text \in {"loaded", "saved"}
    BY <1>3 DEF Texts
  <1> QED BY <1>2, <1>4, <1>5, <1>6, <1>7, NotNull

\* commit_inline_edit: the write names the row by the text the edit began with.
LEMMA EditingSent ==
  ASSUME IInv, commit_inline_edit
  PROVE  IInv'
  <1>1. /\ dialog' = NULL /\ UNCHANGED <<connected, place, current, closed, calm>>
        /\ current \in Table /\ Page.edit # 0
    BY DEF commit_inline_edit, Act
  <1>2. PICK page : page = Page
    OBVIOUS
  <1>3. /\ page = pages[current] /\ Good(page) /\ page.edit # 0 /\ current \in Tab
        /\ calm => Own(page, current)
    BY <1>1, <1>2, PageNow
  <1>4. CASE ~Dirty(page.rows[page.edit])
    <2>1. PICK q : q = exit_edit_mode(page, TRUE)
      OBVIOUS
    <2>2. Good(q) /\ (Own(page, current) => Own(q, current))
      <3>1. "saved" \in Texts \ {"typed", "refused"}
        BY DEF Texts
      <3> QED BY <1>3, <1>4, <2>1, <3>1, EditSent
    <2>3. PageBecomes(q) /\ calls' = calls
      BY <1>2, <1>4, <2>1 DEF commit_inline_edit
    <2>4. Own(pages[current], current) => Own(q, current)
      BY <1>3, <2>2
    <2> QED BY <1>1, <2>2, <2>3, <2>4, PageKeepsSilently
  <1>5. CASE Dirty(page.rows[page.edit])
    <2>1. PICK q : q = exit_edit_mode([page EXCEPT !.rows[page.edit].text = "saved"], TRUE)
      OBVIOUS
    <2>2. Good(q) /\ (Own(page, current) => Own(q, current))
      <3>1. "saved" \in Texts \ {"typed", "refused"}
        BY DEF Texts
      <3>2. q = exit_edit_mode(Edited(page, "saved"), TRUE)
        BY <2>1 DEF Edited
      <3> QED BY ONLY <1>3, <3>1, <3>2, EditSent
    <2>3. PICK sent : sent = Write(current, OriginalKeys(page), page.structure, current,
                                   RowOf(page.rows[page.edit]), TRUE)
      OBVIOUS
    <2>4. PageBecomes(q) /\ calls' = Send(calls, sent)
      BY <1>2, <1>5, <2>1, <2>3 DEF commit_inline_edit
    <2>5. Own(pages[current], current) => Own(q, current)
      BY <1>3, <2>2
    <2>6. /\ sent.op = "write" /\ sent.of = current /\ sent.tab = current
          /\ sent.columns = page.structure /\ sent.chosen = RowOf(page.rows[page.edit])
          /\ sent.keys = KeyOf(page.rows[page.edit], page.rows[page.edit].original)
      BY ONLY <2>3 DEF Write, OriginalKeys
    <2>7. RequestFits(sent)
      BY <1>3, <2>6 DEF RequestFits
    <2>8. ASSUME calm
          PROVE  RequestTrue(sent)
      <3>1. /\ page.edit \in DOMAIN page.rows /\ page.rows[page.edit].original # "typed"
        BY <1>3, UnderEdit
      <3>2. Own(page, current) /\ page.structure \in {current, NULL}
        BY <1>3, <2>8 DEF Own
      <3>3. PICK t \in Tab : t = current
        BY <1>3
      <3>4. PICK i \in DOMAIN page.rows : i = page.edit
        BY <3>1
      <3>5. PICK text \in {page.rows[i].text, page.rows[i].original} :
              text = page.rows[i].original /\ text # "typed"
        BY <3>1, <3>4
      <3>6. /\ RowOf(page.rows[i]).of = t /\ RowOf(page.rows[i]) # NULL
            /\ KeyOf(page.rows[i], text) # NULL
            /\ KeyOf(page.rows[i], text).row = RowOf(page.rows[i])
            /\ KeyOf(page.rows[i], text).text = text
            /\ text \in {"loaded", "saved"}
        BY <1>3, <3>2, <3>3, <3>5, RowOfTab
      <3>7. /\ sent.op = "write" /\ sent.of = t /\ sent.tab = t /\ sent.columns \in {t, NULL}
            /\ sent.chosen = RowOf(page.rows[i]) /\ sent.keys = KeyOf(page.rows[i], text)
        BY <2>6, <3>2, <3>3, <3>4, <3>5
      <3> QED BY <3>6, <3>7 DEF RequestTrue
    <2> QED BY ONLY IInv, <1>1, <2>2, <2>4, <2>5, <2>7, <2>8, PageKeeps
  <1> QED BY <1>4, <1>5


\* The kinds of a dialog, and who gets a row and keys.
Kinds == {"insert", "edit", "duplicate", "delete"}

\* The dialog that open_dialog opens.
Opened(kind, i, page, t) ==
  [kind |-> kind, row |-> i, tab |-> t,
   keys |-> IF kind = "delete" THEN build_row_keys_from_models(page, i) ELSE NULL,
   columns |-> page.structure,
   chosen |-> IF kind \in {"edit", "delete"} THEN RowOf(page.rows[i]) ELSE NULL]

\* The page under a dialog: its edit is over, but for a duplicate.
LEMMA PageUnderDialog ==
  ASSUME NEW page, Good(page), NEW kind \in Kinds,
         NEW q, q = IF kind = "duplicate" THEN page ELSE prepare_for_model_reset(page)
  PROVE  /\ Good(q) /\ SameRows(page, q) /\ (kind = "edit" => q.edit = 0)
         /\ \A t : Own(page, t) => Own(q, t)
  <1>1. CASE kind = "duplicate"
    BY <1>1 DEF SameRows
  <1>2. CASE kind # "duplicate"
    <2>1. q = exit_edit_mode(page, FALSE)
      BY <1>2 DEF prepare_for_model_reset
    <2> QED BY <2>1, EditEnds
  <1> QED BY <1>1, <1>2

\* open_dialog.
LEMMA DialogOpens ==
  ASSUME IInv, NEW kind \in Kinds, NEW i \in 0 .. MaxRows, open_dialog(kind, i)
  PROVE  IInv'
  <1>1. /\ UNCHANGED <<connected, place, current, closed, calls>>
        /\ current \in Table
        /\ kind # "insert" => i \in DOMAIN Page.rows
        /\ kind = "delete" => build_row_keys_from_models(Page, i) # NULL
        /\ calm' = (calm /\ (kind = "delete" => Page.rows[i].text # "typed"))
    BY DEF open_dialog, Act
  <1>2. PICK page : page = Page
    OBVIOUS
  <1>3. /\ page = pages[current] /\ Good(page) /\ current \in Tab
        /\ calm => Own(page, current)
    BY <1>1, <1>2, PageNow
  <1>4. PICK q : q = IF kind = "duplicate" THEN page ELSE prepare_for_model_reset(page)
    OBVIOUS
  <1>5. /\ Good(q) /\ SameRows(page, q) /\ (kind = "edit" => q.edit = 0)
        /\ \A t : Own(page, t) => Own(q, t)
    BY <1>3, <1>4, PageUnderDialog
  <1>6. PICK t \in Table : t = current
    BY <1>1
  <1>7. PICK d : d = Opened(kind, i, page, t)
    OBVIOUS
  <1>8. dialog' = d /\ PageBecomes(q)
    BY <1>2, <1>4, <1>6, <1>7 DEF open_dialog, Opened
  <1>9. /\ d.kind = kind /\ d.row = i /\ d.tab = t /\ d.columns = page.structure
        /\ d.keys = IF kind = "delete" THEN build_row_keys_from_models(page, i) ELSE NULL
        /\ d.chosen = IF kind \in {"edit", "delete"} THEN RowOf(page.rows[i]) ELSE NULL
    BY ONLY <1>7 DEF Opened
  <1>10. PICK at : at = place
    OBVIOUS
  <1>11. PICK on : on = pages
    OBVIOUS
  <1>12. PICK to : to = [on EXCEPT ![t] = q]
    OBVIOUS
  <1>13. at = place' /\ to = pages' /\ t = current'
    BY <1>1, <1>6, <1>8, <1>10, <1>11, <1>12 DEF PageBecomes
  <1>14. Honest(at, on, t) /\ t \in Tab /\ t # NULL
    BY <1>6, <1>10, <1>11, Holds, TabIs, NotNull
  <1>15. on[t] # NULL /\ on[t] = page
    BY <1>3, <1>6, <1>11, <1>14 DEF Honest
  <1>16. /\ Honest(at, to, t) /\ to[t] = q
         /\ Owned(on) /\ Own(q, t) => Owned(to)
    <2>1. Honest(at, to, t)
      BY ONLY <1>5, <1>12, <1>14, <1>15, PagePutNow
    <2>3. to[t] = q
      BY ONLY <1>12, <1>14 DEF Honest
    <2>2. ASSUME Owned(on), Own(q, t)
          PROVE  Owned(to)
      BY ONLY <1>5, <1>12, <1>14, <1>15, <2>2, PagePutNow
    <2> QED BY <2>1, <2>2, <2>3
  <1>17. calm => Owned(on) /\ Placed(at, t)
    BY <1>6, <1>10, <1>11, Holds
  <1>18. calm => Owned(to)
    BY <1>3, <1>5, <1>6, <1>16, <1>17
  <1>19. PICK bag : bag = calls'
    OBVIOUS
  <1>20. /\ \A call \in BagToSet(bag) : RequestFits(call)
         /\ calm => \A call \in BagToSet(bag) : RequestTrue(call)
    BY <1>1, <1>19, Holds
  <1>21. DialogFits'
    <2>1. d.tab = t /\ t \in Table /\ d.kind \in Kinds
      BY <1>6, <1>9
    <2> QED BY <1>8, <1>13, <2>1 DEF DialogFits, Kinds
  <1>22. ASSUME calm'
         PROVE  DialogTrue'
    <2>1. calm /\ (kind = "delete" => page.rows[i].text # "typed")
      BY <1>1, <1>2, <1>22
    <2>2. Own(page, t) /\ page.structure \in {t, NULL}
      BY <1>3, <1>6, <2>1 DEF Own
    <2>3. d.kind \in {"insert", "duplicate"} => d.chosen = NULL
      BY <1>9
    <2>4. ASSUME d.kind = "edit"
          PROVE  /\ d.row \in DOMAIN to[d.tab].rows /\ to[d.tab].edit = 0
                 /\ d.chosen = RowOf(to[d.tab].rows[d.row])
      <3>1. kind = "edit" /\ i \in DOMAIN page.rows /\ d.chosen = RowOf(page.rows[i])
        BY <1>1, <1>2, <1>9, <2>4
      <3>2. /\ DOMAIN page.rows = 1 .. Len(page.rows) /\ DOMAIN q.rows = 1 .. Len(q.rows)
        BY <1>3, <1>5, GridIs DEF Good
      <3>3. i \in DOMAIN q.rows /\ RowOf(q.rows[i]) = RowOf(page.rows[i])
        BY <1>5, <3>1, <3>2 DEF SameRows
      <3> QED BY <1>5, <1>9, <1>16, <3>1, <3>3
    <2>5. ASSUME d.kind = "delete"
          PROVE  /\ d.keys # NULL /\ d.chosen # NULL
                 /\ d.keys.row = d.chosen /\ d.chosen.of = d.tab
                 /\ d.keys.text \in {"loaded", "saved"}
                 /\ d.columns \in {d.tab, NULL}
      <3>1. /\ kind = "delete" /\ i \in DOMAIN page.rows /\ d.chosen = RowOf(page.rows[i])
            /\ build_row_keys_from_models(page, i) # NULL
            /\ d.keys = build_row_keys_from_models(page, i)
        BY <1>1, <1>2, <1>9, <2>5
      <3>2. d.keys = KeyOf(page.rows[i], page.rows[i].text)
        BY <3>1 DEF build_row_keys_from_models
      <3>3. PICK text \in {page.rows[i].text, page.rows[i].original} :
              text = page.rows[i].text /\ text # "typed"
        BY <2>1, <3>1
      <3>4. PICK j \in DOMAIN page.rows : j = i
        BY <3>1
      <3>5. /\ RowOf(page.rows[j]).of = t /\ RowOf(page.rows[j]) # NULL
            /\ KeyOf(page.rows[j], text) # NULL
            /\ KeyOf(page.rows[j], text).row = RowOf(page.rows[j])
            /\ KeyOf(page.rows[j], text).text = text
            /\ text \in {"loaded", "saved"}
        BY <1>3, <1>14, <2>2, <3>3, <3>4, RowOfTab
      <3> QED BY <1>9, <2>2, <3>1, <3>2, <3>3, <3>4, <3>5
    <2> QED BY <1>8, <1>13, <2>3, <2>4, <2>5 DEF DialogTrue
  <1>23. connected' \subseteq Conn /\ closed' \in [Tab -> Nat] /\ calm' \in BOOLEAN
    BY <1>1, Holds
  <1>24. calm' => calm
    BY <1>1
  <1> QED
    BY <1>13, <1>16, <1>17, <1>18, <1>19, <1>20, <1>21, <1>22, <1>23, <1>24, Kept

\* reject_dialog.
LEMMA DialogRejected ==
  ASSUME IInv, reject_dialog
  PROVE  IInv'
  <1>1. /\ dialog' = NULL
        /\ UNCHANGED <<connected, place, pages, current, closed, calls, calm>>
    BY DEF reject_dialog, window
  <1>2. PICK at : at = place
    OBVIOUS
  <1>3. PICK on : on = pages
    OBVIOUS
  <1>4. PICK front : front = current
    OBVIOUS
  <1>5. Honest(at, on, front) /\ (calm => Placed(at, front) /\ Owned(on))
    BY <1>2, <1>3, <1>4, Holds
  <1>6. connected' \subseteq Conn /\ closed' \in [Tab -> Nat]
    BY <1>1, Holds
  <1> QED BY <1>1, <1>2, <1>3, <1>4, <1>5, <1>6, KeptSilently

\* The keys of a dialog that is accepted are those of the row that was chosen.
LEMMA KeysAreChosen ==
  ASSUME IInv, calm, dialog # NULL, dialog.kind \in {"edit", "delete"},
         dialog.kind = "edit" => pages[dialog.tab].structure # NULL
  PROVE  LET keys == KeysOf(dialog) IN
         /\ keys # NULL /\ dialog.chosen # NULL
         /\ keys.row = dialog.chosen /\ dialog.chosen.of = dialog.tab
         /\ keys.text \in {"loaded", "saved"}
  <1>1. CASE dialog.kind = "delete"
    BY <1>1, Holds DEF KeysOf, DialogTrue
  <1>2. CASE dialog.kind = "edit"
    <2>1. PICK t \in Table : t = dialog.tab /\ t = current
      BY Holds DEF DialogFits
    <2>2. t \in Tab /\ t # NULL
      BY TabIs, NotNull
    <2>3. PICK page : page = pages[t]
      OBVIOUS
    <2>4. /\ Good(page) /\ Own(page, t) /\ page.structure # NULL
      BY <1>2, <2>1, <2>2, <2>3, Holds DEF Honest, Owned
    <2>5. /\ dialog.row \in DOMAIN page.rows /\ page.edit = 0
          /\ dialog.chosen = RowOf(page.rows[dialog.row])
      BY <1>2, <2>1, <2>3, Holds DEF DialogTrue
    <2>6. PICK i \in DOMAIN page.rows : i = dialog.row
      BY <2>5
    <2>7. page.rows[i].text # "typed"
      <3>1. DOMAIN page.rows = 1 .. Len(page.rows)
        BY <2>4, GridIs DEF Good
      <3>2. i # 0 /\ page.edit # i
        BY <2>5, <3>1
      <3> QED BY <2>4, <3>2 DEF Good
    <2>8. KeysOf(dialog) = KeyOf(page.rows[i], page.rows[i].text)
      BY <1>2, <2>1, <2>3, <2>4, <2>6 DEF KeysOf, build_row_keys_from_models
    <2>9. PICK text \in {page.rows[i].text, page.rows[i].original} :
            text = page.rows[i].text /\ text # "typed"
      BY <2>7
    <2>10. /\ RowOf(page.rows[i]).of = t /\ RowOf(page.rows[i]) # NULL
           /\ KeyOf(page.rows[i], text) # NULL
           /\ KeyOf(page.rows[i], text).row = RowOf(page.rows[i])
           /\ KeyOf(page.rows[i], text).text = text
           /\ text \in {"loaded", "saved"}
      BY <2>2, <2>4, <2>9, RowOfTab
    <2> QED BY <2>1, <2>5, <2>6, <2>8, <2>9, <2>10
  <1> QED BY <1>1, <1>2

\* accept_dialog: the write is to the table of the dialog's tab, to the row chosen.
LEMMA DialogAccepted ==
  ASSUME IInv, accept_dialog
  PROVE  IInv'
  <1>1. /\ dialog # NULL /\ dialog' = NULL
        /\ UNCHANGED <<connected, place, pages, current, closed, calm>>
    BY DEF accept_dialog, window
  <1>2. PICK d : d = dialog
    OBVIOUS
  <1>3. PICK columns : columns = IF d.kind = "delete" THEN d.columns ELSE pages[d.tab].structure
    OBVIOUS
  <1>4. PICK keys : keys = IF d.kind \in {"edit", "delete"} THEN KeysOf(d) ELSE NULL
    OBVIOUS
  <1>5. PICK at : at = place
    OBVIOUS
  <1>6. PICK on : on = pages
    OBVIOUS
  <1>7. PICK front : front = current
    OBVIOUS
  <1>8. Honest(at, on, front) /\ (calm => Placed(at, front) /\ Owned(on))
    BY <1>5, <1>6, <1>7, Holds
  <1>9. connected' \subseteq Conn /\ closed' \in [Tab -> Nat] /\ calm' = calm
    BY <1>1, Holds
  <1>10. at = place' /\ on = pages' /\ front = current'
    BY <1>1, <1>5, <1>6, <1>7
  <1>11. CASE d.kind = "edit" /\ columns = NULL
    <2>1. calls' = calls
      BY <1>2, <1>3, <1>11 DEF accept_dialog
    <2> QED BY <1>1, <1>8, <1>9, <1>10, <2>1, KeptSilently
  <1>12. CASE ~(d.kind = "edit" /\ columns = NULL)
    <2>1. PICK sent : sent = Write(at.of, keys, columns, d.tab, d.chosen, FALSE)
      OBVIOUS
    <2>2. calls' = Send(calls, sent)
      BY <1>2, <1>3, <1>4, <1>5, <1>12, <2>1 DEF accept_dialog
    <2>3. /\ sent.op = "write" /\ sent.of = at.of /\ sent.tab = d.tab /\ sent.keys = keys
          /\ sent.columns = columns /\ sent.chosen = d.chosen
      BY ONLY <2>1 DEF Write
    <2>4. PICK t \in Table : t = d.tab /\ t = front
      BY <1>1, <1>2, <1>7, Holds DEF DialogFits
    <2>5. t \in Tab /\ t # NULL /\ d.kind \in Kinds
      BY <1>1, <1>2, Holds, TabIs, NotNull DEF DialogFits, Kinds
    <2>6. RequestFits(sent)
      BY <2>3, <2>4, <2>5 DEF RequestFits
    <2>7. ASSUME calm
          PROVE  RequestTrue(sent)
      <3>1. SUFFICES ASSUME ~Partial(at.of)
                     PROVE  /\ at.of = t /\ columns \in {t, NULL}
                            /\ (keys = NULL) = (d.chosen = NULL)
                            /\ keys # NULL => /\ keys.row = d.chosen /\ d.chosen.of = t
                                              /\ keys.text \in {"loaded", "saved"}
        BY <2>3, <2>4 DEF RequestTrue
      <3>2. at.of = t
        BY <1>8, <2>4, <2>7, <3>1 DEF Placed
      <3>3. columns \in {t, NULL}
        <4>1. CASE d.kind = "delete"
          BY <1>1, <1>2, <1>3, <2>4, <2>7, <4>1, Holds DEF DialogTrue
        <4>2. CASE d.kind # "delete"
          <5>1. Own(on[t], t)
            BY <1>8, <2>4, <2>5, <2>7 DEF Honest, Owned
          <5>2. columns = on[t].structure
            BY <1>3, <1>6, <2>4, <4>2
          <5> QED BY <5>1, <5>2 DEF Own
        <4> QED BY <4>1, <4>2
      <3>4. CASE d.kind \in {"edit", "delete"}
        <4>1. d.kind = "edit" => pages[d.tab].structure # NULL
          BY <1>3, <1>12
        <4>2. keys = KeysOf(d)
          BY <1>4, <3>4
        <4>3. /\ KeysOf(d) # NULL /\ d.chosen # NULL
              /\ KeysOf(d).row = d.chosen /\ d.chosen.of = d.tab
              /\ KeysOf(d).text \in {"loaded", "saved"}
          BY <1>1, <1>2, <2>7, <3>4, <4>1, KeysAreChosen
        <4> QED BY <2>4, <3>2, <3>3, <4>2, <4>3
      <3>5. CASE d.kind \notin {"edit", "delete"}
        <4>1. keys = NULL
          BY <1>4, <3>5
        <4>2. d.kind \in {"insert", "duplicate"}
          BY <2>5, <3>5 DEF Kinds
        <4>3. d.chosen = NULL
          BY <1>1, <1>2, <2>7, <4>2, Holds DEF DialogTrue
        <4> QED BY <3>2, <3>3, <4>1, <4>3
      <3> QED BY <3>4, <3>5
    <2> QED BY <1>1, <1>8, <1>9, <1>10, <2>2, <2>6, <2>7, KeptWithoutDialog
  <1> QED BY <1>11, <1>12

-----------------------------------------------------------------------------
(* Answers, timers and schemas, under a dialog too.                        *)

\* A grid shows the rows of another, and is not under edit if that is not.
Covers(q, page) ==
  /\ DOMAIN page.rows \subseteq DOMAIN q.rows
  /\ page.edit = 0 => q.edit = 0
  /\ \A i \in DOMAIN page.rows : RowOf(q.rows[i]) = RowOf(page.rows[i])

\* The dialog is the one there was, over the same rows.
LEMMA DialogKept ==
  ASSUME IInv, dialog' = dialog, current' = current,
         NEW on, on = pages',
         \A t \in Table : dialog # NULL /\ dialog.tab = t /\ dialog.kind = "edit" =>
           Covers(on[t], pages[t])
  PROVE  DialogFits' /\ (DialogTrue => DialogTrue')
  <1>1. DialogFits'
    BY Holds DEF DialogFits
  <1>2. ASSUME DialogTrue
        PROVE  DialogTrue'
    <2>1. SUFFICES ASSUME dialog # NULL
                   PROVE  DialogTrue'
      BY DEF DialogTrue
    <2>2. PICK t \in Table : t = dialog.tab
      BY <2>1, Holds DEF DialogFits
    <2>3. dialog.kind \in {"insert", "duplicate"} => dialog.chosen = NULL
      BY <1>2, <2>1 DEF DialogTrue
    <2>4. ASSUME dialog.kind = "edit"
          PROVE  /\ dialog.row \in DOMAIN on[dialog.tab].rows /\ on[dialog.tab].edit = 0
                 /\ dialog.chosen = RowOf(on[dialog.tab].rows[dialog.row])
      BY <1>2, <2>1, <2>2, <2>4 DEF DialogTrue, Covers
    <2>5. dialog.kind = "delete" =>
            /\ dialog.keys # NULL /\ dialog.chosen # NULL
            /\ dialog.keys.row = dialog.chosen /\ dialog.chosen.of = dialog.tab
            /\ dialog.keys.text \in {"loaded", "saved"}
            /\ dialog.columns \in {dialog.tab, NULL}
      BY <1>2, <2>1 DEF DialogTrue
    <2> QED BY <2>3, <2>4, <2>5 DEF DialogTrue
  <1> QED BY <1>1, <1>2

\* The requests left after an answer, and the one it may send.
LEMMA AnswerKeeps ==
  ASSUME IInv, NEW call, NEW sent, Then(call, sent),
         sent # NULL => RequestFits(sent), NEW bag, bag = calls'
  PROVE  /\ \A c \in BagToSet(bag) : RequestFits(c)
         /\ calm /\ (sent # NULL => RequestTrue(sent)) =>
              \A c \in BagToSet(bag) : RequestTrue(c)
  <1>1. PICK left : left = calls (-) SetToBag({call})
    OBVIOUS
  <1>2. bag = Send(left, sent)
    BY <1>1 DEF Then
  <1>3. \A c \in BagToSet(bag) : c \in BagToSet(left) \/ (sent # NULL /\ c = sent)
    BY <1>2, SendAdds
  <1>4. \A c \in BagToSet(left) : c \in BagToSet(calls)
    BY <1>1, AnswerTakes
  <1> QED BY <1>3, <1>4, Holds

\* The requests left after an answer that sends nothing.
LEMMA AnswerKeepsSilently ==
  ASSUME IInv, NEW call, Answered(call), NEW bag, bag = calls'
  PROVE  /\ \A c \in BagToSet(bag) : RequestFits(c)
         /\ calm => \A c \in BagToSet(bag) : RequestTrue(c)
  <1>1. PICK sent : sent = NULL
    OBVIOUS
  <1>2. Then(call, sent)
    BY <1>1 DEF Then, Answered, Send
  <1> QED BY <1>1, <1>2, AnswerKeeps

\* A step that replaces the page of a tab that lives; what it does to the
\* dialog over it is said in the two last hypotheses.
LEMMA PageOfTabKeeps ==
  ASSUME IInv, UNCHANGED <<connected, place, current, closed, dialog>>,
         calm' \in BOOLEAN, calm' => calm,
         NEW t \in Tab, pages[t] # NULL, NEW q, Good(q), pages' = [pages EXCEPT ![t] = q],
         calm' /\ t \in Table /\ Own(pages[t], t) => Own(q, t),
         NEW bag, bag = calls', \A c \in BagToSet(bag) : RequestFits(c),
         calm' => \A c \in BagToSet(bag) : RequestTrue(c),
         calm' /\ dialog # NULL /\ dialog.tab = t /\ dialog.kind = "edit" =>
           Covers(q, pages[t])
  PROVE  IInv'
  <1>1. PICK at : at = place
    OBVIOUS
  <1>2. PICK on : on = pages
    OBVIOUS
  <1>3. PICK front : front = current
    OBVIOUS
  <1>4. PICK to : to = [on EXCEPT ![t] = q]
    OBVIOUS
  <1>5. at = place' /\ to = pages' /\ front = current'
    BY <1>1, <1>2, <1>3, <1>4
  <1>6. Honest(at, on, front) /\ on[t] # NULL /\ Good(q)
    BY <1>1, <1>2, <1>3, Holds
  <1>7. Honest(at, to, front) /\ to[t] = q /\ \A u \in Tab : u # t => to[u] = on[u]
    <2>1. Honest(at, to, front)
      BY ONLY <1>4, <1>6, PagePutNow, t \in Tab
    <2>2. to[t] = q /\ \A u \in Tab : u # t => to[u] = on[u]
      BY ONLY <1>4, <1>6, t \in Tab DEF Honest
    <2> QED BY <2>1, <2>2
  <1>8. ASSUME Owned(on), t \in Table /\ Own(on[t], t) => Own(q, t)
        PROVE  Owned(to)
    BY ONLY <1>4, <1>6, <1>8, PagePutNow, t \in Tab
  <1>9. calm' => Owned(to) /\ Placed(at, front)
    BY <1>1, <1>2, <1>3, <1>8, Holds
  <1>10. DialogFits'
    BY <1>5, Holds DEF DialogFits
  <1>11. ASSUME calm'
         PROVE  DialogTrue'
    <2>1. DialogTrue
      BY <1>11, Holds
    <2>2. ASSUME NEW u \in Table, dialog # NULL, dialog.tab = u, dialog.kind = "edit"
          PROVE  Covers(to[u], pages[u])
      <3>1. CASE u = t
        BY <1>7, <1>11, <2>2, <3>1
      <3>2. CASE u # t
        <4>1. to[u] = pages[u]
          BY <1>2, <1>7, <3>2, TabIs
        <4> QED BY <4>1 DEF Covers
      <3> QED BY <3>1, <3>2
    <2>3. \A u \in Table : dialog # NULL /\ dialog.tab = u /\ dialog.kind = "edit" =>
            Covers(to[u], pages[u])
      BY <2>2
    <2>4. dialog' = dialog /\ current' = current
      OBVIOUS
    <2> QED BY ONLY IInv, <1>5, <2>1, <2>3, <2>4, DialogKept
  <1>12. connected' \subseteq Conn /\ closed' \in [Tab -> Nat]
    BY Holds
  <1>13. calm' => \A c \in BagToSet(bag) : RequestTrue(c)
    OBVIOUS
  <1> QED BY <1>5, <1>7, <1>9, <1>10, <1>11, <1>12, <1>13, Kept

\* A step that leaves the window as it is.
LEMMA WindowStays ==
  ASSUME IInv, UNCHANGED <<connected, place, pages, current, closed, dialog>>,
         calm' \in BOOLEAN, calm' => calm,
         NEW bag, bag = calls', \A c \in BagToSet(bag) : RequestFits(c),
         calm' => \A c \in BagToSet(bag) : RequestTrue(c)
  PROVE  IInv'
  <1>1. PICK at : at = place
    OBVIOUS
  <1>2. PICK on : on = pages
    OBVIOUS
  <1>3. PICK front : front = current
    OBVIOUS
  <1>4. at = place' /\ on = pages' /\ front = current'
    BY <1>1, <1>2, <1>3
  <1>5. Honest(at, on, front) /\ (calm' => Placed(at, front) /\ Owned(on))
    BY <1>1, <1>2, <1>3, Holds
  <1>6. DialogFits' /\ (DialogTrue => DialogTrue')
    BY Holds DEF DialogFits, DialogTrue
  <1>7. calm' => DialogTrue'
    BY <1>6, Holds
  <1>8. connected' \subseteq Conn /\ closed' \in [Tab -> Nat]
    BY Holds
  <1>9. calm' => \A c \in BagToSet(bag) : RequestTrue(c)
    OBVIOUS
  <1> QED BY <1>4, <1>5, <1>6, <1>7, <1>8, <1>9, Kept

\* fetch_answered: rows for the table in front, and a request for its structure.
LEMMA FetchAnswered ==
  ASSUME IInv, NEW call \in BagToSet(calls), NEW ok \in BOOLEAN, NEW n \in Sizes,
         NEW at \in Tab, fetch_answered(call, at, ok, n)
  PROVE  IInv'
  <1>1. /\ call.op = "fetch" /\ pages[at] # NULL /\ (at = call.tab \/ (at \in Table) = (call.tab \in Table))
        /\ UNCHANGED <<connected, place, current, closed, dialog>>
    BY DEF fetch_answered, Reached, Lives
  <1>2. RequestFits(call) /\ (calm => RequestTrue(call))
    BY Holds
  <1>3. PICK t \in Table : t = at
    BY <1>1, <1>2 DEF RequestFits, Fetch
  <1>4. PICK of \in Tab : of = call.of
    BY <1>1, <1>2, TabIs DEF RequestFits, Fetch
  <1>5. PICK no \in 0 .. MaxPage : no = call.no
    BY <1>1, <1>2 DEF RequestFits, Fetch
  <1>6. PICK bag : bag = calls'
    OBVIOUS
  <1>7. CASE ~ok
    <2>1. Answered(call) /\ UNCHANGED <<pages, calm>>
      BY <1>7 DEF fetch_answered
    <2>2. /\ \A c \in BagToSet(bag) : RequestFits(c)
          /\ calm => \A c \in BagToSet(bag) : RequestTrue(c)
      BY <1>6, <2>1, AnswerKeepsSilently
    <2>3. calm' \in BOOLEAN /\ (calm' => calm)
      BY <2>1, Holds
    <2> QED BY <1>1, <1>6, <2>1, <2>2, <2>3, WindowStays
  <1>8. CASE ok
    <2>1. PICK page : page = pages[t]
      OBVIOUS
    <2>2. t \in Tab /\ page # NULL /\ Good(page)
      BY <1>1, <1>3, <2>1, Holds, TabIs DEF Honest
    <2>3. PICK r : r = prepare_for_model_reset(page)
      OBVIOUS
    <2>4. /\ Good(r) /\ r.structure = page.structure
      BY <2>2, <2>3, EditEnds DEF prepare_for_model_reset
    <2>5. PICK q : q = setFromQueryPayload(r, Payload(of, no, n))
      OBVIOUS
    <2>6. Good(q) /\ (r.structure \in {of, NULL} => Own(q, of))
      BY <2>4, <2>5, Filled
    <2>7. pages' = [pages EXCEPT ![t] = q]
      BY <1>3, <1>4, <1>5, <1>8, <2>1, <2>3, <2>5 DEF fetch_answered
    <2>8. PICK sent : sent = Call("structure", place.of, 0, t)
      OBVIOUS
    <2>9. Then(call, sent)
      BY <1>3, <1>8, <2>8 DEF fetch_answered
    <2>10. calm' = (calm /\ t = call.tab /\ t = current /\ (dialog # NULL /\ dialog.kind = "edit" => dialog.tab # t))
      BY <1>3, <1>8 DEF fetch_answered
    <2>11. calm' \in BOOLEAN /\ (calm' => calm)
      BY <2>10
    <2>12. sent.op = "structure" /\ sent.of = place.of /\ sent.tab = t
      BY ONLY <2>8 DEF Call
    <2>13. RequestFits(sent)
      BY <2>2, <2>12 DEF RequestFits
    <2>14. ASSUME calm'
           PROVE  RequestTrue(sent)
      <3>1. calm /\ t = current
        BY <1>3, <2>10, <2>14
      <3>2. place.of = t \/ Partial(place.of)
        BY <3>1, Holds DEF Placed
      <3> QED BY <2>12, <3>2 DEF RequestTrue
    <2>15. ASSUME calm', Own(pages[t], t)
           PROVE  Own(q, t)
      <3>1. of = t
        BY <1>1, <1>2, <1>4, <2>10, <2>15 DEF RequestTrue
      <3>2. r.structure \in {of, NULL}
        BY <2>1, <2>4, <2>15, <3>1 DEF Own
      <3> QED BY <2>6, <3>1, <3>2
    <2>16. ~(calm' /\ dialog # NULL /\ dialog.tab = t /\ dialog.kind = "edit")
      BY <1>3, <2>10
    <2>17. /\ \A c \in BagToSet(bag) : RequestFits(c)
           /\ calm' => \A c \in BagToSet(bag) : RequestTrue(c)
      <3>1. \A c \in BagToSet(bag) : RequestFits(c)
        BY <1>6, <2>9, <2>13, AnswerKeeps
      <3>2. ASSUME calm'
            PROVE  \A c \in BagToSet(bag) : RequestTrue(c)
        BY <1>6, <2>9, <2>11, <2>13, <2>14, <3>2, AnswerKeeps
      <3> QED BY <3>1, <3>2
    <2>18. PICK u \in Tab : u = t
      BY <2>2
    <2>19. /\ pages[u] # NULL /\ pages' = [pages EXCEPT ![u] = q]
           /\ calm' /\ u \in Table /\ Own(pages[u], u) => Own(q, u)
           /\ ~(calm' /\ dialog # NULL /\ dialog.tab = u /\ dialog.kind = "edit")
      BY <2>1, <2>2, <2>7, <2>15, <2>16, <2>18
    <2> QED BY ONLY IInv, <1>1, <1>6, <2>6, <2>11, <2>17, <2>19, PageOfTabKeeps, u \in Tab
  <1> QED BY <1>7, <1>8

\* structure_answered: the columns of the table that was asked for.
LEMMA StructureAnswered ==
  ASSUME IInv, NEW call \in BagToSet(calls), NEW ok \in BOOLEAN, NEW at \in Tab,
         structure_answered(call, at, ok)
  PROVE  IInv'
  <1>1. /\ call.op = "structure" /\ pages[at] # NULL /\ (at = call.tab \/ (at \in Table) = (call.tab \in Table))
        /\ Answered(call) /\ calm' = (calm /\ (ok => at = call.tab))
        /\ UNCHANGED <<connected, place, current, closed, dialog>>
    BY DEF structure_answered, Reached, Lives
  <1>2. RequestFits(call) /\ (calm => RequestTrue(call))
    BY Holds
  <1>3. PICK t \in Table : t = at
    BY <1>1, <1>2 DEF RequestFits
  <1>4. PICK bag : bag = calls'
    OBVIOUS
  <1>5. /\ \A c \in BagToSet(bag) : RequestFits(c)
        /\ calm => \A c \in BagToSet(bag) : RequestTrue(c)
    BY <1>1, <1>4, AnswerKeepsSilently
  <1>6. calm' \in BOOLEAN /\ (calm' => calm)
    BY <1>1, Holds
  <1>7. CASE ~ok
    <2>1. pages' = pages
      BY <1>7 DEF structure_answered
    <2> QED BY <1>1, <1>4, <1>5, <1>6, <2>1, WindowStays
  <1>8. CASE ok
    <2>1. PICK page : page = pages[t]
      OBVIOUS
    <2>2. t \in Tab /\ page # NULL /\ Good(page)
      BY <1>1, <1>3, <2>1, Holds, TabIs DEF Honest
    <2>3. PICK q : q = [page EXCEPT !.structure = call.of]
      OBVIOUS
    <2>4. call.of \in Table
      BY <1>8 DEF structure_answered
    <2>5. page \in Grid
      BY <2>2 DEF Good
    <2>6. /\ q \in Grid /\ q.rows = page.rows /\ q.rest = page.rest /\ q.edit = page.edit
          /\ q.structure = call.of
      BY <2>3, <2>4, <2>5 DEF Grid
    <2>7. \A u, p : FromOne(page, u, p) => FromOne(q, u, p)
      BY <2>6 DEF FromOne
    <2>8. Good(q)
      BY <2>2, <2>6, <2>7 DEF Good
    <2>9. pages' = [pages EXCEPT ![t] = q]
      BY <1>3, <1>8, <2>1, <2>3 DEF structure_answered
    <2>10. ASSUME calm', Own(pages[t], t)
           PROVE  Own(q, t)
      <3>1. call.of = t
        BY <1>1, <1>2, <1>3, <1>6, <1>8, <2>4, <2>10, NotNull DEF RequestTrue, Partial, Table
      <3> QED BY <2>1, <2>6, <2>7, <2>10, <3>1 DEF Own
    <2>11. PICK u \in Tab : u = t
      BY <2>2
    <2>12. /\ pages[u] # NULL /\ pages' = [pages EXCEPT ![u] = q]
           /\ calm' /\ u \in Table /\ Own(pages[u], u) => Own(q, u)
           /\ Covers(q, pages[u])
      BY <2>1, <2>2, <2>6, <2>9, <2>10, <2>11 DEF Covers
    <2>20. /\ calm' \in BOOLEAN /\ (calm' => calm)
           /\ UNCHANGED <<connected, place, current, closed, dialog>>
           /\ \A c \in BagToSet(bag) : RequestFits(c)
           /\ calm' => \A c \in BagToSet(bag) : RequestTrue(c)
      BY <1>1, <1>5, <1>6
    <2> QED BY ONLY IInv, <1>4, <2>20, <2>8, <2>12, PageOfTabKeeps, u \in Tab
  <1> QED BY <1>7, <1>8

\* query_answered: rows for a result tab.
LEMMA QueryAnswered ==
  ASSUME IInv, NEW call \in BagToSet(calls), NEW ok \in BOOLEAN, NEW n \in Sizes,
         NEW at \in Tab, query_answered(call, at, ok, n)
  PROVE  IInv'
  <1>1. /\ call.op = "query" /\ pages[at] # NULL /\ (at = call.tab \/ (at \in Table) = (call.tab \in Table))
        /\ Answered(call)
        /\ UNCHANGED <<connected, place, current, closed, dialog, calm>>
    BY DEF query_answered, Reached, Lives
  <1>2. RequestFits(call)
    BY Holds
  <1>3. PICK t \in Tab : t = at /\ call.of \in Tab /\ t \notin Table
    BY <1>1, <1>2, TabIs DEF RequestFits
  <1>4. PICK bag : bag = calls'
    OBVIOUS
  <1>5. /\ \A c \in BagToSet(bag) : RequestFits(c)
        /\ calm => \A c \in BagToSet(bag) : RequestTrue(c)
    BY <1>1, <1>4, AnswerKeepsSilently
  <1>6. calm' \in BOOLEAN /\ calm' = calm
    BY <1>1, Holds
  <1>7. CASE ~ok
    <2>1. pages' = pages
      BY <1>7 DEF query_answered
    <2> QED BY <1>1, <1>4, <1>5, <1>6, <2>1, WindowStays
  <1>8. CASE ok
    <2>1. PICK page : page = pages[t]
      OBVIOUS
    <2>2. page # NULL /\ Good(page) /\ 0 \in 0 .. MaxPage
      BY <1>1, <1>3, <2>1, Holds, TablePageAssumption DEF Honest
    <2>3. PICK q : q = setFromQueryPayload(page, Payload(call.of, 0, n))
      OBVIOUS
    <2>4. Good(q)
      <3>1. PICK of \in Tab : of = call.of
        BY <1>3
      <3> QED BY <2>2, <2>3, <3>1, Filled
    <2>5. pages' = [pages EXCEPT ![t] = q]
      BY <1>3, <1>8, <2>1, <2>3 DEF query_answered
    <2>6. ~(dialog # NULL /\ dialog.tab = t /\ dialog.kind = "edit")
      BY <1>3, Holds DEF DialogFits
    <2>7. pages[t] # NULL /\ t \notin Table
      BY <1>3, <2>1, <2>2
    <2>20. /\ calm' \in BOOLEAN /\ (calm' => calm)
           /\ UNCHANGED <<connected, place, current, closed, dialog>>
           /\ \A c \in BagToSet(bag) : RequestFits(c)
           /\ calm' => \A c \in BagToSet(bag) : RequestTrue(c)
      BY <1>1, <1>5, <1>6
    <2> QED BY ONLY IInv, <1>4, <2>20, <2>4, <2>5, <2>6, <2>7, PageOfTabKeeps, t \in Tab
  <1> QED BY <1>7, <1>8

\* freed_page_answered.
LEMMA FreedAnswered ==
  ASSUME IInv, NEW call \in BagToSet(calls), freed_page_answered(call)
  PROVE  IInv'
  <1>1. /\ Answered(call)
        /\ UNCHANGED <<connected, place, pages, current, closed, dialog, calm>>
    BY DEF freed_page_answered, window
  <1>2. PICK bag : bag = calls'
    OBVIOUS
  <1>3. /\ \A c \in BagToSet(bag) : RequestFits(c)
        /\ calm => \A c \in BagToSet(bag) : RequestTrue(c)
    BY <1>1, <1>2, AnswerKeepsSilently
  <1>4. calm' \in BOOLEAN /\ calm' = calm
    BY <1>1, Holds
  <1> QED BY <1>1, <1>2, <1>3, <1>4, WindowStays


\* write_answered: a write that succeeded loads the table in front; after an
\* inline edit that failed, its row is known to show what was refused.
LEMMA WriteAnswered ==
  ASSUME IInv, NEW call \in BagToSet(calls), NEW ok \in BOOLEAN, write_answered(call, ok)
  PROVE  IInv'
  <1>1. UNCHANGED <<connected, closed, dialog>>
    BY DEF write_answered
  <1>2. PICK bag : bag = calls'
    OBVIOUS
  <1>3. CASE ok
    <2>1. PICK w : w = Window
      OBVIOUS
    <2>2. /\ w \in WindowSet /\ w.place = place /\ w.pages = pages /\ w.current = current
          /\ w.sent = NULL
      BY <2>1, Holds, WindowNow
    <2>3. PICK x : x = load_current_table_page(w)
      OBVIOUS
    <2>4. Becomes(x) /\ Then(call, x.sent) /\ calm' = calm
      BY <1>3, <2>1, <2>3 DEF write_answered
    <2>5. Honest(w.place, w.pages, w.current) /\ closed \in [Tab -> Nat]
      BY <2>2, Holds
    <2>6. /\ Honest(x.place, x.pages, x.current)
          /\ x.sent # NULL => x.sent \in Fetch
          /\ w.current \in Table =>
               /\ x.place = w.place /\ x.current = w.current
               /\ \/ x.pages = w.pages
                  \/ /\ SameRows(w.pages[w.current], x.pages[w.current])
                     /\ x.pages[w.current].edit = 0
          /\ Owned(w.pages) => Owned(x.pages)
          /\ Placed(w.place, w.current) => /\ Placed(x.place, x.current)
                                           /\ x.sent # NULL => x.sent.of = x.sent.tab
      BY <2>2, <2>3, <2>5, Loaded
    <2>7. PICK at : at = x.place
      OBVIOUS
    <2>8. PICK on : on = x.pages
      OBVIOUS
    <2>9. PICK front : front = x.current
      OBVIOUS
    <2>10. at = place' /\ on = pages' /\ front = current' /\ Honest(at, on, front)
      BY <2>4, <2>6, <2>7, <2>8, <2>9 DEF Becomes
    <2>11. PICK sent : sent = x.sent
      OBVIOUS
    <2>12. Then(call, sent) /\ (sent # NULL => RequestFits(sent))
      BY <2>4, <2>6, <2>11, FetchFits
    <2>13. calm => /\ Placed(at, front) /\ Owned(on)
                   /\ sent # NULL => RequestTrue(sent)
      BY <2>2, <2>6, <2>7, <2>8, <2>9, <2>11, Holds, FetchFits
    <2>14. /\ \A c \in BagToSet(bag) : RequestFits(c)
           /\ calm /\ (sent # NULL => RequestTrue(sent)) =>
                \A c \in BagToSet(bag) : RequestTrue(c)
      BY <1>2, <2>12, AnswerKeeps
    <2>15. dialog # NULL => current' = current /\ current \in Table /\ dialog.tab = current
      BY <2>2, <2>4, <2>6, Holds DEF DialogFits, Becomes
    <2>16. DialogFits'
      <3>1. CASE dialog = NULL
        BY <1>1, <3>1 DEF DialogFits
      <3>2. CASE dialog # NULL
        BY <1>1, <2>15, <3>2, Holds DEF DialogFits
      <3> QED BY <3>1, <3>2
    <2>17. ASSUME calm
           PROVE  DialogTrue'
      <3>1. CASE dialog = NULL
        BY <1>1, <3>1 DEF DialogTrue
      <3>2. CASE dialog # NULL
        <4>1. ASSUME NEW t \in Table, dialog # NULL, dialog.tab = t, dialog.kind = "edit"
              PROVE  Covers(on[t], pages[t])
          <5>1. t = current /\ t \in Tab
            BY <2>15, <4>1, TabIs
          <5>2. \/ on = pages
                \/ SameRows(pages[t], on[t]) /\ on[t].edit = 0
            BY <2>2, <2>6, <2>8, <5>1
          <5>3. CASE on = pages
            BY <5>3 DEF Covers
          <5>4. CASE SameRows(pages[t], on[t]) /\ on[t].edit = 0
            <6>1. Honest(place, pages, current) /\ t # NULL
              BY <5>1, Holds, NotNull
            <6>2. Good(pages[t]) /\ Good(on[t])
              BY <2>10, <5>1, <6>1, <2>15, <4>1 DEF Honest
            <6>3. /\ DOMAIN pages[t].rows = 1 .. Len(pages[t].rows)
                  /\ DOMAIN on[t].rows = 1 .. Len(on[t].rows)
              BY <6>2, GridIs DEF Good
            <6> QED BY <5>4, <6>3 DEF SameRows, Covers
          <5> QED BY <5>2, <5>3, <5>4
        <4>2. \A t \in Table : dialog # NULL /\ dialog.tab = t /\ dialog.kind = "edit" =>
                Covers(on[t], pages[t])
          BY <4>1
        <4>3. current' = current /\ dialog' = dialog
          BY <1>1, <2>15, <3>2
        <4>4. DialogTrue
          BY <2>17, Holds
        <4>5. on = pages'
          BY <2>10
        <4> QED BY ONLY IInv, <4>2, <4>3, <4>4, <4>5, DialogKept
      <3> QED BY <3>1, <3>2
    <2>18. /\ connected' \subseteq Conn /\ closed' \in [Tab -> Nat] /\ calm' \in BOOLEAN
           /\ calm' => calm
      BY <1>1, <2>4, Holds
    <2>19. calm' => /\ Placed(at, front) /\ Owned(on) /\ DialogTrue'
                    /\ \A c \in BagToSet(bag) : RequestTrue(c)
      BY <2>13, <2>14, <2>17, <2>18
    <2> QED BY ONLY <1>2, <2>10, <2>14, <2>16, <2>18, <2>19, Kept
  <1>4. CASE ~ok
    <2>1. /\ Answered(call) /\ UNCHANGED <<place, current>>
          /\ pages' = IF call.inline /\ pages[call.tab] # NULL
                      THEN [pages EXCEPT ![call.tab].rows = Refused(@, call.chosen)] ELSE pages
          /\ calm' = (calm /\ ~call.inline)
      BY <1>4 DEF write_answered
    <2>2. /\ \A c \in BagToSet(bag) : RequestFits(c)
          /\ calm => \A c \in BagToSet(bag) : RequestTrue(c)
      BY <1>2, <2>1, AnswerKeepsSilently
    <2>3. /\ calm' \in BOOLEAN /\ (calm' => calm)
          /\ \A c \in BagToSet(bag) : RequestFits(c)
          /\ calm' => \A c \in BagToSet(bag) : RequestTrue(c)
      BY <2>1, <2>2
    <2>4. UNCHANGED <<connected, place, current, closed, dialog>>
      BY <1>1, <2>1
    <2>5. CASE ~(call.inline /\ pages[call.tab] # NULL)
      <3>1. pages' = pages
        BY <2>1, <2>5
      <3> QED BY <1>2, <2>3, <2>4, <3>1, WindowStays
    <2>6. CASE call.inline /\ pages[call.tab] # NULL
      <3>1. PICK t \in Tab : t = call.tab
        BY Holds DEF RequestFits
      <3>2. PICK page : page = pages[t]
        OBVIOUS
      <3>3. pages[t] # NULL /\ Good(page)
        BY <2>6, <3>1, <3>2, Holds DEF Honest
      <3>4. PICK q : q = [page EXCEPT !.rows = Refused(@, call.chosen)]
        OBVIOUS
      <3>5. Good(q)
        BY <3>3, <3>4, EditRefused
      <3>6. pages' = [pages EXCEPT ![t] = q]
        BY <2>1, <2>6, <3>1, <3>2, <3>4
      <3>7. ~calm'
        BY <2>1, <2>6
      <3> QED BY ONLY IInv, <1>2, <2>3, <2>4, <3>3, <3>5, <3>6, <3>7, PageOfTabKeeps, t \in Tab
    <2> QED BY <2>5, <2>6
  <1> QED BY <1>3, <1>4

\* progressive_timer: a grid gets its next rows.
LEMMA TimerKeeps ==
  ASSUME IInv, NEW t \in Tab, progressive_timer(t)
  PROVE  IInv'
  <1>1. /\ pages[t] # NULL
        /\ UNCHANGED <<connected, place, current, closed, dialog, calls, calm>>
    BY DEF progressive_timer
  <1>2. PICK page : page = pages[t]
    OBVIOUS
  <1>3. Good(page)
    BY <1>1, <1>2, Holds DEF Honest
  <1>4. PICK q : q = flushProgressiveBatch(page)
    OBVIOUS
  <1>5. /\ Good(q) /\ q.edit = page.edit /\ Len(page.rows) <= Len(q.rows)
        /\ \A i \in 1 .. Len(page.rows) : q.rows[i] = page.rows[i]
        /\ \A u : Own(page, u) => Own(q, u)
    BY <1>3, <1>4, Flushed
  <1>6. Covers(q, page)
    <2>1. /\ DOMAIN page.rows = 1 .. Len(page.rows) /\ DOMAIN q.rows = 1 .. Len(q.rows)
          /\ Len(page.rows) \in Nat /\ Len(q.rows) \in Nat
      BY <1>3, <1>5, GridIs DEF Good
    <2>2. 1 .. Len(page.rows) \subseteq 1 .. Len(q.rows)
      BY <1>5, <2>1
    <2> QED BY <1>5, <2>1, <2>2 DEF Covers
  <1>7. pages' = [pages EXCEPT ![t] = q]
    BY <1>2, <1>4 DEF progressive_timer
  <1>8. PICK bag : bag = calls'
    OBVIOUS
  <1>9. /\ calm' \in BOOLEAN /\ (calm' => calm)
        /\ \A c \in BagToSet(bag) : RequestFits(c)
        /\ calm' => \A c \in BagToSet(bag) : RequestTrue(c)
    BY <1>1, <1>8, Holds
  <1>10. /\ UNCHANGED <<connected, place, current, closed, dialog>>
         /\ pages[t] # NULL /\ Good(q) /\ Covers(q, pages[t])
         /\ Own(pages[t], t) => Own(q, t)
    BY <1>1, <1>2, <1>5, <1>6
  <1> QED BY ONLY IInv, <1>7, <1>8, <1>9, <1>10, PageOfTabKeeps, t \in Tab

\* load_schema_answered: the place has another connection.
LEMMA SchemaAnswered ==
  ASSUME IInv, NEW c \in Conn, load_schema_answered(c)
  PROVE  IInv'
  <1>1. /\ connected' = connected \cup {c} /\ place' = [place EXCEPT !.of[1] = c]
        /\ calm' = (calm /\ (current \in Table => current[1] = c))
        /\ UNCHANGED <<pages, current, closed, dialog, calls>>
    BY DEF load_schema_answered
  <1>2. PICK old \in Place : old = place
    BY Holds DEF Honest
  <1>3. PICK n : n = old.of[2]
    OBVIOUS
  <1>4. PICK of : of = <<c, n>>
    OBVIOUS
  <1>5. of[1] = c /\ of[2] = n
    BY <1>4
  <1>6. of \in Table \/ (n = NULL /\ of \in (Conn \cup {NULL}) \X {NULL})
    BY <1>2, <1>3, <1>4, PlaceIs DEF Table
  <1>7. [old.of EXCEPT ![1] = c] = of
    <2>1. old.of = <<old.of[1], n>>
      BY <1>2, <1>3, PlaceIs
    <2>2. PICK a : a = old.of[1]
      OBVIOUS
    <2>3. [<<a, n>> EXCEPT ![1] = c] = <<c, n>>
      OBVIOUS
    <2> QED BY <1>4, <2>1, <2>2, <2>3
  <1>8. PICK at : at = [old EXCEPT !.of = of]
    OBVIOUS
  <1>9. at = place'
    BY <1>1, <1>2, <1>7, <1>8
  <1>10. at \in Place /\ at.of = of
    BY <1>2, <1>6, <1>8 DEF Place
  <1>11. PICK on : on = pages
    OBVIOUS
  <1>12. PICK front : front = current
    OBVIOUS
  <1>13. on = pages' /\ front = current'
    BY <1>1, <1>11, <1>12
  <1>14. Honest(at, on, front)
    BY <1>10, <1>11, <1>12, Holds DEF Honest
  <1>15. ASSUME calm'
         PROVE  Placed(at, front) /\ Owned(on)
    <2>1. calm /\ (front \in Table => front[1] = c)
      BY <1>1, <1>12, <1>15
    <2>2. Owned(on) /\ Placed(old, front)
      BY <1>2, <1>11, <1>12, <2>1, Holds
    <2>3. ASSUME front \in Table
          PROVE  of = front \/ Partial(of)
      <3>1. old.of = front \/ Partial(old.of)
        BY <2>2, <2>3 DEF Placed
      <3>2. CASE old.of = front
        <4>1. old.of[1] = c
          BY <2>1, <2>3, <3>2
        <4>2. old.of = <<c, n>>
          BY <1>2, <1>3, <4>1, PlaceIs
        <4> QED BY <1>4, <3>2, <4>2
      <3>3. CASE Partial(old.of)
        <4>1. n = NULL
          <5>1. old.of \in Table \/ old.of[2] = NULL
            BY <1>2 DEF Place
          <5>2. old.of \notin Table
            BY <3>3, NotNull DEF Partial, Table
          <5> QED BY <1>3, <5>1, <5>2
        <4> QED BY <1>5, <4>1 DEF Partial
      <3> QED BY <3>1, <3>2, <3>3
    <2> QED BY <1>10, <2>2, <2>3 DEF Placed
  <1>16. DialogFits' /\ (DialogTrue => DialogTrue')
    BY <1>1, Holds DEF DialogFits, DialogTrue
  <1>17. PICK bag : bag = calls'
    OBVIOUS
  <1>18. /\ calm' \in BOOLEAN /\ (calm' => calm)
         /\ \A d \in BagToSet(bag) : RequestFits(d)
         /\ calm' => \A d \in BagToSet(bag) : RequestTrue(d)
    BY <1>1, <1>17, Holds
  <1>19. connected' \subseteq Conn /\ closed' \in [Tab -> Nat]
    BY <1>1, Holds
  <1>20. calm' => DialogTrue'
    BY <1>16, <1>18, Holds
  <1> QED BY <1>9, <1>13, <1>14, <1>15, <1>16, <1>17, <1>18, <1>19, <1>20, Kept


-----------------------------------------------------------------------------
(* The theorems.                                                           *)

\* The invariant holds when the program starts: no tabs, no requests.
LEMMA InitHolds ==
  Init => IInv
  <1>1. SUFFICES ASSUME Init PROVE IInv
    OBVIOUS
  <1>2. /\ connected = {} /\ place = [of |-> NoPlace, no |-> 0]
        /\ pages = [t \in Tab |-> NULL] /\ current = NULL
        /\ closed = [t \in Tab |-> 0] /\ dialog = NULL /\ calls = EmptyBag /\ calm = TRUE
    BY <1>1 DEF Init
  <1>3. place \in Place
    <2>1. NoPlace \in (Conn \cup {NULL}) \X {NULL} /\ 0 \in 0 .. MaxPage
      BY TablePageAssumption DEF NoPlace
    <2> QED BY <1>2, <2>1 DEF Place
  <1>4. Honest(place, pages, current)
    BY <1>2, <1>3 DEF Honest
  <1>5. BagToSet(calls) = {}
    BY <1>2 DEF EmptyBag, BagToSet, SetToBag
  <1>6. Placed(place, current) /\ Owned(pages)
    BY <1>2, TabIs, NotNull DEF Placed, Owned
  <1> QED BY <1>2, <1>4, <1>5, <1>6 DEF IInv, DialogFits, DialogTrue

\* Steps of the user.
LEMMA UserKeeps ==
  ASSUME IInv, User
  PROVE  IInv'
  <1>1. CASE \E t \in Table : load_table_content(t)
    BY <1>1, TableOpens
  <1>2. CASE \E no \in 0 .. MaxPage : turn_page(no)
    BY <1>2, PageTurns
  <1>3. CASE \E t \in Tab : select_tab(t) \/ close_tab(t)
    BY <1>3, TabSelected, TabCloses
  <1>4. CASE \E c \in Conn : disconnect_active_connection(c) \/ execute_query_for_page(c)
    BY <1>4, Disconnects, QueryRuns
  <1>5. CASE \E kind \in Kinds, i \in 0 .. MaxRows : open_dialog(kind, i)
    BY <1>5, DialogOpens
  <1>6. CASE reject_dialog
    BY <1>6, DialogRejected
  <1>7. CASE accept_dialog
    BY <1>7, DialogAccepted
  <1>8. CASE \E i \in 1 .. MaxRows : begin_inline_edit(i)
    BY <1>8, EditingBegins
  <1>9. CASE type_text
    BY <1>9, TypingKeeps
  <1>10. CASE cancel_inline_edit
    BY <1>10, EditingEnds
  <1>11. CASE commit_inline_edit
    BY <1>11, EditingSent
  <1> QED
    BY <1>1, <1>2, <1>3, <1>4, <1>5, <1>6, <1>7, <1>8, <1>9, <1>10, <1>11 DEF User, Kinds

\* Every step keeps the invariant.
LEMMA NextHolds ==
  IInv /\ [Next]_vars => IInv'
  <1>1. SUFFICES ASSUME IInv, [Next]_vars PROVE IInv'
    OBVIOUS
  <1>2. CASE User
    BY <1>1, <1>2, UserKeeps
  <1>3. CASE Answer
    <2>1. PICK call \in BagToSet(calls), ok \in BOOLEAN :
            \/ \E t \in Tab, n \in Sizes :
                 fetch_answered(call, t, ok, n) \/ query_answered(call, t, ok, n)
            \/ \E t \in Tab : structure_answered(call, t, ok)
            \/ write_answered(call, ok)
            \/ freed_page_answered(call)
      BY <1>3 DEF Answer
    <2>2. CASE \E t \in Tab, n \in Sizes :
                 fetch_answered(call, t, ok, n) \/ query_answered(call, t, ok, n)
      BY <1>1, <2>2, FetchAnswered, QueryAnswered
    <2>3. CASE \E t \in Tab : structure_answered(call, t, ok)
      BY <1>1, <2>3, StructureAnswered
    <2>4. CASE write_answered(call, ok)
      BY <1>1, <2>4, WriteAnswered
    <2>5. CASE freed_page_answered(call)
      BY <1>1, <2>5, FreedAnswered
    <2> QED BY <2>1, <2>2, <2>3, <2>4, <2>5
  <1>4. CASE \E t \in Tab : progressive_timer(t)
    BY <1>1, <1>4, TimerKeeps
  <1>5. CASE \E c \in Conn : load_schema_answered(c)
    BY <1>1, <1>5, SchemaAnswered
  <1>6. CASE UNCHANGED vars
    <2>1. UNCHANGED <<connected, place, pages, current, closed, dialog, calls, calm>>
      BY <1>6 DEF vars, window
    <2>2. PICK bag : bag = calls'
      OBVIOUS
    <2>3. /\ calm' \in BOOLEAN /\ (calm' => calm)
          /\ \A c \in BagToSet(bag) : RequestFits(c)
          /\ calm => \A c \in BagToSet(bag) : RequestTrue(c)
      BY <1>1, <2>1, <2>2, Holds
    <2> QED BY <1>1, <2>1, <2>2, <2>3, WindowStays
  <1> QED BY <1>1, <1>2, <1>3, <1>4, <1>5, <1>6 DEF Next

\* The invariant holds in every state.
THEOREM Invariant ==
  Spec => []IInv
  <1> QED BY InitHolds, NextHolds, PTL DEF Spec

\* What GridIsOneAnswer says of one page.
OneAnswer(page, all) ==
  \A i \in DOMAIN all :
    /\ all[i].nr = i /\ all[i].of = all[1].of /\ all[i].page = all[1].page
    /\ all[i].text = "typed" => page.edit = i

\* The rows of a good grid and its rest are one answer in its order.
LEMMA GoodIsOneAnswer ==
  ASSUME NEW page, Good(page), NEW all, all = page.rows \o page.rest
  PROVE  Len(all) <= MaxRows /\ OneAnswer(page, all)
  <1>1. PICK r \in Seq(Row) : r = page.rows
    BY GridIs DEF Good
  <1>2. PICK s \in Seq(Row) : s = page.rest
    BY GridIs DEF Good
  <1>3. /\ Len(r) \in Nat /\ Len(s) \in Nat
        /\ DOMAIN r = 1 .. Len(r) /\ DOMAIN s = 1 .. Len(s)
    BY <1>1, <1>2, LenProperties
  <1>4. /\ all \in Seq(Row) /\ Len(all) = Len(r) + Len(s)
        /\ \A i \in 1 .. Len(r) + Len(s) : all[i] = IF i <= Len(r) THEN r[i] ELSE s[i - Len(r)]
    BY <1>1, <1>2, ConcatProperties
  <1>5. DOMAIN all = 1 .. Len(r) + Len(s)
    BY <1>4, LenProperties
  <1>6. PICK t \in Tab, p \in 0 .. MaxPage : FromOne(page, t, p)
    BY DEF Good
  <1>7. ASSUME NEW i \in 1 .. Len(r) + Len(s)
        PROVE  /\ all[i].nr = i /\ all[i].of = t /\ all[i].page = p
               /\ all[i].text = "typed" => page.edit = i
    <2>1. CASE i <= Len(r)
      <3>1. i \in 1 .. Len(r)
        BY <1>3, <2>1
      <3>2. all[i] = r[i]
        BY <1>4, <2>1
      <3>3. RowOf(r[i]) = [of |-> t, page |-> p, nr |-> i]
        BY <1>1, <1>3, <1>6, <3>1 DEF FromOne
      <3>4. r[i].nr = i /\ r[i].of = t /\ r[i].page = p
        BY ONLY <3>3 DEF RowOf
      <3>5. r[i].text = "typed" => page.edit = i
        BY <1>1, <1>3, <3>1 DEF Good
      <3> QED BY <3>2, <3>4, <3>5
    <2>2. CASE ~(i <= Len(r))
      <3>1. PICK j \in 1 .. Len(s) : j = i - Len(r) /\ Len(r) + j = i
        <4>1. i - Len(r) \in 1 .. Len(s) /\ Len(r) + (i - Len(r)) = i
          BY <1>3, <2>2
        <4> QED BY <4>1
      <3>2. all[i] = s[j]
        BY <1>4, <2>2, <3>1
      <3>3. s[j] = [of |-> t, page |-> p, nr |-> Len(page.rows) + j,
                    text |-> "loaded", original |-> "loaded"]
        BY <1>2, <1>3, <1>6 DEF FromOne
      <3>4. s[j] = [of |-> t, page |-> p, nr |-> i, text |-> "loaded", original |-> "loaded"]
        BY <1>1, <3>1, <3>3
      <3>5. s[j].nr = i /\ s[j].of = t /\ s[j].page = p /\ s[j].text = "loaded"
        BY ONLY <3>4
      <3> QED BY <3>2, <3>5
    <2> QED BY <2>1, <2>2
  <1>8. \A i \in 1 .. Len(r) + Len(s) : 1 \in 1 .. Len(r) + Len(s)
    BY <1>3
  <1>9. Len(all) <= MaxRows
    BY <1>1, <1>2, <1>4 DEF Good
  <1>10. OneAnswer(page, all)
    BY <1>5, <1>7, <1>8 DEF OneAnswer
  <1> QED BY <1>9, <1>10

\* What the window shows is honest: the place, the tab in front and the dialog
\* fit together, and the rows of every grid are one answer in its order, of
\* which only the row under edit was typed in.
THEOREM WindowHonest ==
  Spec => []WindowIsHonest
  <1>1. ASSUME IInv
        PROVE  GridIsOneAnswer
    <2>1. ASSUME NEW t \in Tab, pages[t] # NULL
          PROVE  LET page == pages[t]
                     all == page.rows \o page.rest
                 IN  \A i \in DOMAIN all :
                       /\ all[i].nr = i /\ all[i].of = all[1].of /\ all[i].page = all[1].page
                       /\ all[i].text = "typed" => page.edit = i
      <3>1. PICK page : page = pages[t]
        OBVIOUS
      <3>2. PICK all : all = page.rows \o page.rest
        OBVIOUS
      <3>3. Good(page)
        BY <1>1, <2>1, <3>1, Holds DEF Honest
      <3>4. OneAnswer(page, all)
        BY ONLY <3>2, <3>3, GoodIsOneAnswer
      <3> QED BY ONLY <3>1, <3>2, <3>4 DEF OneAnswer
    <2> QED BY <2>1 DEF GridIsOneAnswer
  <1>2. ASSUME IInv
        PROVE  TypeOK
    <2>1. /\ connected \subseteq Conn /\ Honest(place, pages, current) /\ DialogFits
      BY <1>2, Holds
    <2>2. place.of \in (Conn \cup {NULL}) \X (Name \cup {NULL}) /\ place.no \in 0 .. MaxPage
      BY <2>1 DEF Honest, Place, Table
    <2>3. /\ current \in Tab \cup {NULL} /\ (current # NULL => pages[current] # NULL)
          /\ current = NULL => \A t \in Tab : pages[t] = NULL
      BY <2>1 DEF Honest
    <2>4. ASSUME NEW t \in Tab, pages[t] # NULL
          PROVE  /\ pages[t].no \in 0 .. MaxPage /\ pages[t].edit \in 0 .. Len(pages[t].rows)
                 /\ pages[t].structure \in Table \cup {NULL}
                 /\ Len(pages[t].rows \o pages[t].rest) <= MaxRows
      <3>1. Good(pages[t])
        BY <2>1, <2>4 DEF Honest
      <3>2. PICK all : all = pages[t].rows \o pages[t].rest
        OBVIOUS
      <3>3. Len(all) <= MaxRows
        BY <3>1, <3>2, GoodIsOneAnswer
      <3>4. pages[t].no \in 0 .. MaxPage /\ pages[t].structure \in Table \cup {NULL}
        BY <3>1, GridIs DEF Good
      <3>5. pages[t].edit \in 0 .. Len(pages[t].rows)
        BY <3>1 DEF Good
      <3> QED BY <3>2, <3>3, <3>4, <3>5
    <2>5. dialog # NULL => dialog.tab = current
      BY <2>1 DEF DialogFits
    <2> QED BY <2>1, <2>2, <2>3, <2>4, <2>5 DEF TypeOK
  <1>3. IInv => WindowIsHonest
    BY <1>1, <1>2 DEF WindowIsHonest
  <1> QED BY <1>3, Invariant, PTL

\* While the history is calm, a write goes to the table of the tab it was made
\* in, with that table's columns, to the row the user chose, by the text that
\* row was loaded or saved with.
THEOREM WritesHit ==
  Spec => []WritesHitWhatIsShown
  <1>1. ASSUME IInv
        PROVE  WritesHitWhatIsShown
    <2>1. SUFFICES ASSUME calm, NEW w \in BagToSet(calls),
                          w.op = "write", NULL \notin {w.of[1], w.of[2]}
                   PROVE  /\ w.of = w.tab /\ w.columns \in {w.of, NULL}
                          /\ (w.keys = NULL) = (w.chosen = NULL)
                          /\ w.keys # NULL => /\ w.keys.row = w.chosen /\ w.chosen.of = w.of
                                              /\ w.keys.text \in {"loaded", "saved"}
      BY DEF WritesHitWhatIsShown
    <2>2. RequestTrue(w)
      BY <1>1, <2>1, Holds
    <2> QED BY <2>1, <2>2 DEF RequestTrue, Partial
  <1>2. IInv => WritesHitWhatIsShown
    BY <1>1
  <1> QED BY <1>2, Invariant, PTL

=============================================================================
