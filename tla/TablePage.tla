------------------------------ MODULE TablePage ------------------------------
(***************************************************************************)
(* The data tabs of the Qt main window: table pages and query results      *)
(* (mainwindow_table.cpp, mainwindow_query.cpp), the model of their grids   *)
(* and inline editing (result_table_model.cpp, table_data_widget.cpp).      *)
(*                                                                         *)
(* The window has one place, current_connection_id_ .. current_table_page_, *)
(* next to the tabs it describes.  Requests go to the bridge, which answers *)
(* in any order; a callback has kept a pointer to its tab and reads the     *)
(* place anew.  Rows come into a grid in slices, from a timer.              *)
(***************************************************************************)
EXTENDS Integers, Sequences, FiniteSets, Bags, SequencesExt

CONSTANTS
  NULL,
  Conn,      \* connections
  Name,      \* tables, by database and name: the same on every connection
  Result,    \* stands for the name of a query in the key of its result tab
  MaxPage,   \* last page of a table the user turns to
  Sizes,     \* how many rows an answer may have
  Slice,     \* kProgressiveFirstBatch and kProgressiveBatchSize
  MaxActs    \* bound on what the user does

Table == Conn \X Name
Tab == Table \cup (Conn \X {Result})

\* A row by what it is row of, the texts of its cells, a grid and a key.
Texts == {"loaded", "typed", "saved", "refused"}
RowName == [of : Tab, page : 0 .. MaxPage, nr : Nat]
Row == [of : Tab, page : 0 .. MaxPage, nr : Nat, text : Texts, original : Texts]
Grid == [no : 0 .. MaxPage, rows : Seq(Row), rest : Seq(Row), edit : Nat,
         structure : Table \cup {NULL}]
Key == [row : RowName, text : Texts]

ASSUME TablePageAssumption ==
  /\ Result \notin Name /\ NULL \notin Conn \cup Name \cup {Result}
  /\ NULL \notin Tab \cup RowName \cup Grid \cup Key
  /\ Sizes \subseteq Nat /\ Sizes # {} /\ IsFiniteSet(Sizes)
  /\ {MaxPage, MaxActs} \subseteq Nat /\ Slice \in Nat \ {0}

NoPlace == <<NULL, NULL>>
MaxRows == Max(Sizes)

VARIABLES
  connected,  \* connected_connection_ids_
  place,      \* current_connection_id_ with current_table_, current_table_page_
  pages,      \* data_tabs_: the page of each tab, or NULL
  current,    \* the tab in front, or NULL
  closed,     \* how many pages of each tab were deleted: names the page objects
  dialog,     \* the modal row dialog or question, or NULL
  calls,      \* requests to the bridge not answered yet, a bag
  alive,      \* the program runs
  acts,       \* what the user did, counted
  \* History: nothing happened that is known to lead a write astray.
  calm

window == <<place, pages, current>>
vars == <<connected, window, closed, dialog, calls, alive, acts, calm>>

-----------------------------------------------------------------------------
(* The grid of a page: rows in it, rows still to come, the row under edit.  *)

NewPage == [no |-> 0, rows |-> <<>>, rest |-> <<>>, edit |-> 0, structure |-> NULL]

\* The rows of an answer: row i of page p of what the tab t asked.
Payload(t, p, n) ==
  [i \in 1 .. n |-> [of |-> t, page |-> p, nr |-> i, text |-> "loaded", original |-> "loaded"]]

\* Faulty: does not cancel the load under way, the timer goes on with its rows.
setFromQueryPayload_KeepsRest(page, rows) ==
  LET first == IF Len(rows) <= Slice THEN Len(rows) ELSE Slice
  IN  [page EXCEPT !.rows = SubSeq(rows, 1, first),
                   !.rest = IF Len(rows) <= Slice THEN @ ELSE SubSeq(rows, first + 1, Len(rows)),
                   !.edit = 0]

setFromQueryPayload(page, rows) ==
  LET first == IF Len(rows) <= Slice THEN Len(rows) ELSE Slice
  IN  [page EXCEPT !.rows = SubSeq(rows, 1, first),
                   !.rest = SubSeq(rows, first + 1, Len(rows)),
                   !.edit = 0]

flushProgressiveBatch(page) ==
  LET take == IF Len(page.rest) <= Slice THEN Len(page.rest) ELSE Slice
  IN  [page EXCEPT !.rows = @ \o SubSeq(page.rest, 1, take),
                   !.rest = SubSeq(@, take + 1, Len(@))]

revertRow(row) == [row EXCEPT !.text = row.original]

enter_edit_mode(page, i) ==
  [page EXCEPT !.edit = i, !.rows[i].original = page.rows[i].text]

exit_edit_mode(page, save) ==
  IF page.edit = 0 THEN page
  ELSE [page EXCEPT !.edit = 0,
                    !.rows[page.edit] = IF save THEN @ ELSE revertRow(@)]

prepare_for_model_reset(page) == exit_edit_mode(page, FALSE)

\* A cell of the row differs from its original.
Dirty(row) == row.text # row.original

\* A key names a row an answer held by the text its values have.
RowOf(row) == [of |-> row.of, page |-> row.page, nr |-> row.nr]
KeyOf(row, text) == [row |-> RowOf(row), text |-> text]

\* Keys are columns of the structure shown, values of the row as it stands.
build_row_keys_from_models(page, i) ==
  IF page.structure = NULL \/ i \notin DOMAIN page.rows THEN NULL
  ELSE KeyOf(page.rows[i], page.rows[i].text)

\* Inline edits take the values the row had when the edit began.
OriginalKeys(page) == KeyOf(page.rows[page.edit], page.rows[page.edit].original)

-----------------------------------------------------------------------------
(* The window.  A window record stands for its three variables, so that one *)
(* handler's steps follow each other.                                       *)

Window == [place |-> place, pages |-> pages, current |-> current, sent |-> NULL]

Becomes(w) ==
  /\ place' = w.place /\ pages' = w.pages /\ current' = w.current

\* sync_current_table_page: a query result leaves the place as it is.
sync_current_table_page(w) ==
  IF w.current \in Table
  THEN [w EXCEPT !.place = [of |-> w.current, no |-> w.pages[w.current].no]] ELSE w

\* currentChanged syncs.
setCurrentIndex(w, t) ==
  IF w.current = t THEN w ELSE sync_current_table_page([w EXCEPT !.current = t])

ensure_table_tab(w, t) ==
  setCurrentIndex(IF w.pages[t] = NULL THEN [w EXCEPT !.pages[t] = NewPage] ELSE w, t)

Call(op, of, no, t) ==
  [op |-> op, of |-> of, no |-> no, tab |-> t, object |-> IF t = NULL THEN 0 ELSE closed[t]]

load_current_table_page(w) ==
  IF NULL \in {w.place.of[1], w.place.of[2]} THEN w
  ELSE LET x == IF w.current \in Table THEN w ELSE ensure_table_tab(w, w.place.of)
       IN  [x EXCEPT !.pages[x.current] = prepare_for_model_reset([@ EXCEPT !.no = x.place.no]),
                     !.sent = Call("fetch", x.place.of, x.place.no, x.current)]

\* A handler sends one request or none.
Send(bag, sent) == IF sent = NULL THEN bag ELSE bag (+) SetToBag({sent})

\* The user acts: no dialog is open.
Act ==
  /\ alive /\ dialog = NULL /\ acts < MaxActs
  /\ acts' = acts + 1
  /\ UNCHANGED alive

Loads(w) ==
  LET x == load_current_table_page(w)
  IN  Becomes(x) /\ calls' = Send(calls, x.sent)

load_table_content(t) ==
  /\ Act /\ t[1] \in connected
  /\ LET w == ensure_table_tab(Window, t)
     IN  Loads([w EXCEPT !.place = [of |-> t, no |-> 0], !.pages[t].no = 0])
  /\ UNCHANGED <<connected, closed, dialog, calm>>

\* Sort and page size, previous and next page are controls of the page in front.
\* Reload is also in the menu, whatever is in front: it goes to the table of the
\* place.  The place is changed before the load looks whether it is complete.
turn_page(no) ==
  /\ Act /\ (current \in Table \/ no = place.no)
  /\ no \in {0, place.no, place.no - 1, place.no + 1} /\ no \in 0 .. MaxPage
  /\ Loads([Window EXCEPT !.place.no = no])
  /\ UNCHANGED <<connected, closed, dialog, calm>>

select_tab(t) ==
  /\ Act /\ pages[t] # NULL /\ t # current
  /\ Becomes(setCurrentIndex(Window, t))
  /\ UNCHANGED <<connected, closed, dialog, calls, calm>>

\* removeTab of ts: if the tab in front goes, one that is left takes its place.
Neighbours(ts) ==
  LET left == {t \in Tab \ ts : pages[t] # NULL}
  IN  IF current \notin ts THEN {current} ELSE IF left = {} THEN {NULL} ELSE left

\* The window with the tabs ts deleted and t in front.
Without(ts, t) ==
  sync_current_table_page(
    [Window EXCEPT !.pages = [x \in Tab |-> IF x \in ts THEN NULL ELSE pages[x]],
                   !.current = t])

Deleted(ts) == closed' = [t \in Tab |-> closed[t] + IF t \in ts THEN 1 ELSE 0]

close_tab(t) ==
  /\ Act /\ pages[t] # NULL
  /\ \E x \in Neighbours({t}) : Becomes(Without({t}, x))
  /\ Deleted({t})
  /\ UNCHANGED <<connected, dialog, calls, calm>>

\* close_tabs_for_connection looks for the property connectionId, which only
\* query results have: the table pages stay.  Then the place is cleared.
disconnect_active_connection(c) ==
  /\ Act /\ c \in connected /\ connected' = connected \ {c}
  /\ LET ts == {t \in {<<c, Result>>} : pages[t] # NULL}
     IN  /\ \E x \in Neighbours(ts) :
              LET w == Without(ts, x)
              IN  Becomes(IF w.place.of[1] = c THEN [w EXCEPT !.place.of = NoPlace] ELSE w)
         /\ Deleted(ts)
  /\ UNCHANGED <<dialog, calls, calm>>

execute_query_for_page(c) ==
  /\ Act /\ c \in connected
  /\ LET t == <<c, Result>>
     IN  /\ Becomes(setCurrentIndex(IF pages[t] = NULL THEN [Window EXCEPT !.pages[t] = NewPage] ELSE Window, t))
         /\ calls' = Send(calls, Call("query", t, 0, t))
  /\ UNCHANGED <<connected, closed, dialog, calm>>

-----------------------------------------------------------------------------
(* Writes.  The table written is the place when the dialog closes, or the   *)
(* table of the page for an inline edit.                                    *)

\* Besides what is sent: the tab it was sent from and the row the user chose.
Write(of, keys, columns, tab, chosen, inline) ==
  [op |-> "write", of |-> of, keys |-> keys, columns |-> columns,
   tab |-> tab, chosen |-> chosen, inline |-> inline]

Page == pages[current]
PageBecomes(page) == pages' = [pages EXCEPT ![current] = page]

\* insert_current_row, edit_current_row, duplicate_current_row and
\* delete_current_row up to the dialog.  Duplicating closes the cell editor
\* and keeps the edit mode.
open_dialog(kind, i) ==
  /\ Act /\ current \in Table
  /\ kind = "insert" => i = 0 /\ NULL \notin {place.of[1], place.of[2]}
  /\ kind # "insert" => i \in DOMAIN Page.rows
  /\ kind = "delete" => build_row_keys_from_models(Page, i) # NULL
  /\ PageBecomes(IF kind = "duplicate" THEN Page ELSE prepare_for_model_reset(Page))
  /\ dialog' = [kind |-> kind, row |-> i, tab |-> current,
                keys |-> IF kind = "delete" THEN build_row_keys_from_models(Page, i) ELSE NULL,
                columns |-> Page.structure,
                chosen |-> IF kind \in {"edit", "delete"} THEN RowOf(Page.rows[i]) ELSE NULL]
  \* The keys of a delete are taken before the row under edit is reverted.
  /\ calm' = (calm /\ (kind = "delete" => Page.rows[i].text # "typed"))
  /\ UNCHANGED <<connected, place, current, closed, calls>>

reject_dialog ==
  /\ alive /\ dialog # NULL
  /\ dialog' = NULL
  /\ UNCHANGED <<connected, window, closed, calls, alive, acts, calm>>

\* Faulty: a delete looks its row up after the question.
KeysOf_AfterQuestion(d) == build_row_keys_from_models(pages[d.tab], d.row)

\* A delete has its keys from before the question, an edit takes them from the
\* row that is at its number now.
KeysOf(d) ==
  IF d.kind = "delete" THEN d.keys ELSE build_row_keys_from_models(pages[d.tab], d.row)

accept_dialog ==
  /\ alive /\ dialog # NULL
  /\ dialog' = NULL
  /\ LET d == dialog
         columns == IF d.kind = "delete" THEN d.columns ELSE pages[d.tab].structure
         keys == IF d.kind \in {"edit", "delete"} THEN KeysOf(d) ELSE NULL
     IN  calls' = IF d.kind = "edit" /\ columns = NULL THEN calls
                  ELSE Send(calls, Write(place.of, keys, columns, d.tab, d.chosen, FALSE))
  /\ UNCHANGED <<connected, window, closed, alive, acts, calm>>

\* Double click: another row under edit is given up first.
begin_inline_edit(i) ==
  /\ Act /\ current \in Table
  /\ i \in DOMAIN Page.rows /\ i # Page.edit
  /\ LET page == exit_edit_mode(Page, FALSE)
     IN  PageBecomes(IF page.structure = NULL THEN page ELSE enter_edit_mode(page, i))
  /\ UNCHANGED <<connected, place, current, closed, dialog, calls, calm>>

\* A cell editor writes its text into the model.
type_text ==
  /\ alive /\ dialog = NULL /\ current \in Table /\ Page.edit # 0
  /\ Page.rows[Page.edit].text # "typed"
  /\ PageBecomes([Page EXCEPT !.rows[Page.edit].text = "typed"])
  /\ UNCHANGED <<connected, place, current, closed, dialog, calls, alive, acts, calm>>

cancel_inline_edit ==
  /\ Act /\ current \in Table /\ Page.edit # 0
  /\ PageBecomes(exit_edit_mode(Page, FALSE))
  /\ UNCHANGED <<connected, place, current, closed, dialog, calls, calm>>

\* A text sent is called "saved" from then on, so that it can be told from one
\* that is still being typed.
commit_inline_edit ==
  /\ Act /\ current \in Table /\ Page.edit # 0
  /\ LET i == Page.edit
         row == Page.rows[i]
     IN  IF Dirty(row)
         THEN /\ PageBecomes(exit_edit_mode([Page EXCEPT !.rows[i].text = "saved"], TRUE))
              /\ calls' = Send(calls, Write(current, OriginalKeys(Page), Page.structure,
                                               current, RowOf(row), TRUE))
         ELSE PageBecomes(exit_edit_mode(Page, TRUE)) /\ UNCHANGED calls
  /\ UNCHANGED <<connected, place, current, closed, dialog, calm>>

-----------------------------------------------------------------------------
(* Answers, in any order, under a dialog too.                               *)

\* The page of the tab is the one the callback has a pointer to.
Lives(call) == pages[call.tab] # NULL /\ closed[call.tab] = call.object

\* The page at the address the callback has kept: its own or, when that is
\* deleted, one of the same class that got the memory.  The model does not keep
\* which pages were made since and allows any.
Reached(call) ==
  IF Lives(call) THEN {call.tab}
  ELSE {t \in Tab : pages[t] # NULL /\ (t \in Table) = (call.tab \in Table)}

Answered(call) == calls' = calls (-) SetToBag({call})
Then(call, sent) == calls' = Send(calls (-) SetToBag({call}), sent)

fetch_answered(call, t, ok, n) ==
  /\ alive /\ call.op = "fetch" /\ t \in Reached(call)
  /\ IF ok
     THEN /\ pages' = [pages EXCEPT ![t] =
               setFromQueryPayload(prepare_for_model_reset(@), Payload(call.of, call.no, n))]
          \* The structure asked for is that of the place.
          /\ Then(call, Call("structure", place.of, 0, t))
          /\ calm' = /\ calm /\ t = call.tab /\ t = current
                     /\ dialog # NULL /\ dialog.kind = "edit" => dialog.tab # t
     ELSE Answered(call) /\ UNCHANGED <<pages, calm>>
  /\ UNCHANGED <<connected, place, current, closed, dialog, alive, acts>>

structure_answered(call, t, ok) ==
  /\ alive /\ call.op = "structure" /\ t \in Reached(call)
  /\ ok => call.of \in Table
  /\ pages' = IF ok THEN [pages EXCEPT ![t].structure = call.of] ELSE pages
  /\ calm' = (calm /\ (ok => t = call.tab))
  /\ Answered(call)
  /\ UNCHANGED <<connected, place, current, closed, dialog, alive, acts>>

query_answered(call, t, ok, n) ==
  /\ alive /\ call.op = "query" /\ t \in Reached(call)
  /\ pages' = IF ok THEN [pages EXCEPT ![t] = setFromQueryPayload(@, Payload(call.of, 0, n))]
              ELSE pages
  /\ Answered(call)
  /\ UNCHANGED <<connected, place, current, closed, dialog, alive, acts, calm>>

\* The page was deleted and its memory is free or got by something else: either
\* that has no effect on anything still in use, or the program ends.
freed_page_answered(call) ==
  /\ alive /\ call.op \in {"fetch", "structure", "query"} /\ ~Lives(call)
  /\ alive' \in BOOLEAN
  /\ Answered(call)
  /\ UNCHANGED <<connected, window, closed, dialog, acts, calm>>

\* A name for the text of a row whose edit was refused; the code leaves it there.
Refused(rows, row) ==
  LET Renamed(text) == IF text = "saved" THEN "refused" ELSE text
  IN  [i \in DOMAIN rows |->
         IF RowOf(rows[i]) # row THEN rows[i]
         ELSE [rows[i] EXCEPT !.text = Renamed(@), !.original = Renamed(@)]]

\* run_write_command_async: the table in front is loaded again, whichever was
\* written.  After an error the rows stay as they are.
write_answered(call, ok) ==
  /\ alive /\ call.op = "write"
  /\ ok => call.of \in Table
  /\ IF ok
     THEN LET x == load_current_table_page(Window)
          IN  Becomes(x) /\ Then(call, x.sent) /\ UNCHANGED calm
     ELSE /\ Answered(call) /\ UNCHANGED <<place, current>>
          /\ pages' = IF call.inline /\ pages[call.tab] # NULL
                      THEN [pages EXCEPT ![call.tab].rows = Refused(@, call.chosen)] ELSE pages
          /\ calm' = (calm /\ ~call.inline)
  /\ UNCHANGED <<connected, closed, dialog, alive, acts>>

progressive_timer(t) ==
  /\ alive /\ pages[t] # NULL /\ pages[t].rest # <<>>
  /\ pages' = [pages EXCEPT ![t] = flushProgressiveBatch(@)]
  /\ UNCHANGED <<connected, place, current, closed, dialog, calls, alive, acts, calm>>

\* The callback of list-schema, after a connect or a refresh, moves the place
\* to its connection and leaves the table and the tab in front.
load_schema_answered(c) ==
  /\ alive /\ acts < MaxActs /\ acts' = acts + 1
  /\ connected' = connected \cup {c}
  /\ place' = [place EXCEPT !.of[1] = c]
  /\ calm' = (calm /\ (current \in Table => current[1] = c))
  /\ UNCHANGED <<pages, current, closed, dialog, calls, alive>>

Init ==
  /\ connected = {}
  /\ place = [of |-> NoPlace, no |-> 0]
  /\ pages = [t \in Tab |-> NULL] /\ current = NULL
  /\ closed = [t \in Tab |-> 0]
  /\ dialog = NULL /\ calls = EmptyBag
  /\ alive = TRUE /\ acts = 0 /\ calm = TRUE

User ==
  \/ \E t \in Table : load_table_content(t)
  \/ \E no \in 0 .. MaxPage : turn_page(no)
  \/ \E t \in Tab : select_tab(t) \/ close_tab(t)
  \/ \E c \in Conn : disconnect_active_connection(c) \/ execute_query_for_page(c)
  \/ \E kind \in {"insert", "edit", "duplicate", "delete"}, i \in 0 .. MaxRows : open_dialog(kind, i)
  \/ reject_dialog \/ accept_dialog
  \/ \E i \in 1 .. MaxRows : begin_inline_edit(i)
  \/ type_text \/ cancel_inline_edit \/ commit_inline_edit

Answer ==
  \E call \in BagToSet(calls), ok \in BOOLEAN :
    \/ \E t \in Tab, n \in Sizes : fetch_answered(call, t, ok, n) \/ query_answered(call, t, ok, n)
    \/ \E t \in Tab : structure_answered(call, t, ok)
    \/ write_answered(call, ok)
    \/ freed_page_answered(call)

Next ==
  \/ User
  \/ Answer
  \/ \E t \in Tab : progressive_timer(t)
  \/ \E c \in Conn : load_schema_answered(c)

Spec == Init /\ [][Next]_vars

-----------------------------------------------------------------------------
(* Properties.                                                             *)

TypeOK ==
  /\ connected \subseteq Conn
  /\ place.of \in (Conn \cup {NULL}) \X (Name \cup {NULL}) /\ place.no \in 0 .. MaxPage
  /\ current \in Tab \cup {NULL} /\ (current # NULL => pages[current] # NULL)
  /\ current = NULL => \A t \in Tab : pages[t] = NULL
  /\ \A t \in Tab : pages[t] # NULL =>
       /\ pages[t].no \in 0 .. MaxPage /\ pages[t].edit \in 0 .. Len(pages[t].rows)
       /\ pages[t].structure \in Table \cup {NULL}
       /\ Len(pages[t].rows \o pages[t].rest) <= MaxRows
  /\ dialog # NULL => dialog.tab = current

\* What a grid holds are the rows of one answer in their order, and only a row
\* under edit shows a text that was typed and not sent: whatever answers, timers
\* and edits come between two slices (setFromQueryPayload, flushProgressiveBatch,
\* prepare_for_model_reset, exit_edit_mode).
GridIsOneAnswer ==
  \A t \in Tab : pages[t] # NULL =>
    LET page == pages[t]
        all == page.rows \o page.rest
    IN  \A i \in DOMAIN all :
          /\ all[i].nr = i /\ all[i].of = all[1].of /\ all[i].page = all[1].page
          /\ all[i].text = "typed" => page.edit = i

\* A write goes to the table of the tab it was made in, with columns of that
\* table, to the row the user chose and by the text the row was loaded or saved
\* with (insert_current_row .. delete_current_row, commit_inline_edit).  Six
\* things lead it astray, and no other: a schema answered for another connection
\* than the tab's; rows answered while another tab is in front; rows answered
\* under an edit dialog; an answer to a deleted page whose memory the page of
\* another tab got; a row deleted while a cell of it is edited; an inline edit
\* that the server refused.
WritesHitWhatIsShown ==
  calm => \A w \in BagToSet(calls) :
    (w.op = "write" /\ NULL \notin {w.of[1], w.of[2]}) =>
      /\ w.of = w.tab /\ w.columns \in {w.of, NULL}
      /\ (w.keys = NULL) = (w.chosen = NULL)
      /\ w.keys # NULL => /\ w.keys.row = w.chosen /\ w.chosen.of = w.of
                          /\ w.keys.text \in {"loaded", "saved"}

\* Together: what the window shows.
WindowIsHonest == TypeOK /\ GridIsOneAnswer
=============================================================================
