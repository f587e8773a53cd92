----------------------------- MODULE MCGtkWindow -----------------------------
(***************************************************************************)
(* Instances of GtkWindow: from the start of the program, and from a window *)
(* with c1 connected, its databases opened in the panel and a query tab.   *)
(***************************************************************************)
EXTENDS GtkWindow, TLC

CONSTANTS c1, c2

MCStart == <<c1, c2>>
MCConfigured == (c1 :> "") @@ (c2 :> "d1")

First == CHOOSE d \in Dbs : TRUE

\* After connect_to_selected(c1), load_tables_for of each database, the table of
\* the first one opened, and create_query_tab.
Opened ==
  /\ saved = Start
  /\ app = [id |-> c1, driver |-> 1, db |-> First]
  /\ drivers = <<[conn |-> c1, pool |-> First]>>
  /\ tasks = <<>>
  /\ tab = <<[NewTab(c1, First) EXCEPT
                !.grid = "rows", !.nr = 1,
                !.shown = [Shown(Task("load")) EXCEPT
                             !.conn = c1, !.db = First, !.id = c1, !.nr = 1,
                             !.from = <<c1, First>>]]>>
  /\ tabs = <<1>> /\ pages = <<1>>
  /\ tree = [Redrawn(c1, Start) EXCEPT
               ![c1] = [kind |-> "rows", dbs |-> [d \in Dbs |-> <<"tables", <<c1, d>>>>]]]
  /\ mark = c1
  /\ editor = [conn |-> c1, db |-> First]
  /\ version = [p \in Conns \X Dbs |-> 0]
  /\ moved = FALSE /\ raced = FALSE /\ failed = FALSE
  /\ count = 0

OpenedSpec == Opened /\ [][Next]_vars
=============================================================================
