-------------------------- MODULE ConnectionStore --------------------------
(***************************************************************************)
(* connections.json and the passwords (crates/lithedb-core/src/config).    *)
(* Processes save, delete and read without a lock: workers of the daemon   *)
(* and command lines load the file for every operation, the GTK window     *)
(* loads it once and writes the list it keeps.  A save truncates the file  *)
(* and writes it; a process may die in between.  Passwords are entries of  *)
(* the system keyring, which may be unreachable for a while.               *)
(***************************************************************************)
EXTENDS Integers, Sequences, FiniteSets, SequencesExt

CONSTANTS
  NULL,
  Workers,     \* daemon workers and command lines
  Gtk,         \* the GTK window
  Ids,
  Versions,    \* contents of a connection, and its password
  MaxOps,      \* bound on operations
  MaxFaults    \* bound on crashes, failed writes and changes of the keyring

\* What a file is made of: the entries of its list, and the closing brackets.
Entries == [id : Ids, v : Versions]
End == [id |-> NULL, v |-> NULL]

\* What a fallback entry is made of: a password under the key of its machine and
\* connection.
Keys == [label : {"lithedb-fallback-v1"}, machine : Nat, id : Ids]
Fallbacks == [key : Keys, aad : Ids, plain : Versions]

ASSUME StoreAssumption ==
  /\ Gtk \notin Workers /\ NULL \notin Versions /\ NULL \notin Fallbacks
  /\ NULL \notin Seq(Entries \cup {End})      \* no file is not an empty one
  /\ MaxOps \in Nat /\ MaxFaults \in Nat

Processes == Workers \cup {Gtk}

VARIABLES
  file,      \* tokens of connections.json, or NULL
  primary,   \* keyring: password of each connection
  fallback,  \* keyring: encrypted fallback entry of each connection
  ring,      \* the keyring is reachable
  machine,   \* /etc/machine-id
  list,      \* list a process holds
  op, pc,
  got,       \* the password a connect found, and whose
  count, faults,
  \* History: the connections as the operations that were written leave them;
  \* whose list is out of date; a list out of date was written; a process died
  \* over the file; passwords the operations that ended may have left, of each
  \* connection; connections with an entry that should be gone, or is shadowed;
  \* operations that overlap another one on the same password; passwords ever
  \* stored.
  acked, behind, raced, torn, secret, left, mixed, issued

process == <<list, op, pc, got, count, mixed>>
keyring == <<primary, fallback>>
passwords == <<secret, left, issued>>
history == <<acked, behind, raced, torn, passwords>>
vars == <<file, keyring, ring, machine, process, faults, history>>

-----------------------------------------------------------------------------
(* The file.                                                               *)

Text(connections) == Append(connections, End)

\* A text written at the start of a file leaves what lies behind it.
Over(text) == text \o SubSeq(file, Len(text) + 1, Len(file))

Readable ==
  file # NULL => \E n \in DOMAIN file : n = Len(file) /\ SelectInSeq(file, LAMBDA e : e = End) = n

\* The list of a file that can be read; no file is an empty one.
Loaded == IF file = NULL THEN <<>> ELSE Front(file)

\* Faulty: a file that cannot be read is an empty list.
load_Default == [ok |-> TRUE, connections |-> IF Readable THEN Loaded ELSE <<>>]

load == [ok |-> Readable, connections |-> IF Readable THEN Loaded ELSE <<>>]

Position(connections, id) == SelectInSeq(connections, LAMBDA c : c.id = id)

Upsert(connections, c) ==
  IF Position(connections, c.id) = 0 THEN Append(connections, c)
  ELSE ReplaceAt(connections, Position(connections, c.id), c)

\* AppState::upsert_connection, of the window's own list.
upsert_connection(connections, c) == Upsert(connections, c)

Retain(connections, id) ==
  LET kept[n \in 0 .. Len(connections)] ==
        IF n = 0 THEN <<>>
        ELSE IF connections[n].id = id THEN kept[n - 1]
        ELSE Append(kept[n - 1], connections[n])
  IN  kept[Len(connections)]

-----------------------------------------------------------------------------
(* Secrets.                                                                *)

\* A password of the primary entry is not bound to a machine.
Anywhere == 0

derive_key(id) == [label |-> "lithedb-fallback-v1", machine |-> machine, id |-> id]

fallback_encrypt_v1(id, plain) == [key |-> derive_key(id), aad |-> id, plain |-> plain]

\* Faulty: the text is taken without a check of its key.
fallback_decrypt_v1_Unchecked(id, data) == data.plain

fallback_decrypt_v1(id, data) ==
  IF data.key = derive_key(id) /\ data.aad = id THEN data.plain ELSE NULL

load_password(id) ==
  IF primary[id] # NULL THEN primary[id]
  ELSE IF fallback[id] # NULL THEN fallback_decrypt_v1(id, fallback[id])
  ELSE NULL

-----------------------------------------------------------------------------
Idle(p) == pc[p] = "idle"

NoOp == [kind |-> "none", id |-> NULL, v |-> NULL, keep |-> FALSE]

Init ==
  /\ file = NULL
  /\ primary = [id \in Ids |-> NULL] /\ fallback = [id \in Ids |-> NULL]
  /\ ring = TRUE /\ machine = 1
  /\ list = [p \in Processes |-> <<>>]
  /\ op = [p \in Processes |-> NoOp]
  /\ pc = [p \in Processes |-> IF p = Gtk THEN "down" ELSE "idle"]
  /\ got = [p \in Processes |-> NULL]
  /\ count = 0 /\ faults = 0
  /\ acked = {} /\ behind = {} /\ raced = FALSE /\ torn = FALSE
  /\ secret = [id \in Ids |-> {NULL}] /\ left = [id \in Ids |-> FALSE] /\ mixed = {}
  /\ issued = [id \in Ids |-> {}]

Goto(p, label) == pc' = [pc EXCEPT ![p] = label] /\ UNCHANGED <<op, mixed>>

\* The operation is answered, with or without an error.
Done(p) ==
  /\ pc' = [pc EXCEPT ![p] = "idle"]
  /\ op' = [op EXCEPT ![p] = NoOp]
  /\ mixed' = mixed \ {p}

\* The operation of p changes the password of a connection.
Changes(p, id) ==
  op[p].id = id /\ (op[p].kind = "delete" \/ (op[p].kind = "save" /\ op[p].keep))

\* What it changes it to.
Value(p) == IF op[p].kind = "delete" THEN NULL ELSE op[p].v

\* It has changed an entry of the keyring, and is not answered yet.
Pending(p) == pc[p] = "delf" \/ (p = Gtk /\ pc[p] \in {"trunc", "write"})

\* The password an operation leaves when it ends: its own, unless another one
\* changed it meanwhile.
Settled(p) ==
  secret' = [id \in Ids |->
    IF ~Changes(p, id) THEN secret[id]
    ELSE IF p \in mixed THEN secret[id] \cup {Value(p)}
    ELSE {Value(p)}]

Begin(p, kind, id, v, keep, label) ==
  /\ Idle(p) /\ count < MaxOps
  /\ op' = [op EXCEPT ![p] = [kind |-> kind, id |-> id, v |-> v, keep |-> keep]]
  /\ got' = [got EXCEPT ![p] = NULL]
  /\ pc' = [pc EXCEPT ![p] = label]
  /\ count' = count + 1
  /\ LET others == {q \in Processes : Changes(q, id)}
     IN  mixed' = mixed \cup (IF others # {} /\ (kind = "delete" \/ (kind = "save" /\ keep))
                             THEN others \cup {p} ELSE {})
  /\ UNCHANGED <<file, keyring, ring, machine, faults, history>>

save_connection(p, id, v, keep) ==
  p \in Workers /\ Begin(p, "save", id, v, keep, "load") /\ UNCHANGED list

delete_connection(p, id) ==
  p \in Workers /\ Begin(p, "delete", id, NULL, FALSE, "load") /\ UNCHANGED list

\* A connection is looked up with its password, to connect or to test it.
get_or_connect(p, id) ==
  p \in Workers /\ Begin(p, "connect", id, NULL, FALSE, "load") /\ UNCHANGED list

\* The window stores the password first, then its whole list; a connection that
\* is deleted leaves the list before its password.
open_dialog(id, v) ==
  /\ Begin(Gtk, "save", id, v, TRUE, "setp")
  /\ UNCHANGED list

gtk_delete_connection(id) ==
  /\ Position(list[Gtk], id) # 0
  /\ Begin(Gtk, "delete", id, NULL, FALSE, "delp")
  /\ list' = [list EXCEPT ![Gtk] = Retain(@, id)]

\* The window comes up: a file that cannot be read is an empty list.
MainWindow_new ==
  /\ pc[Gtk] = "down"
  /\ list' = [list EXCEPT ![Gtk] = load.connections]
  /\ behind' = IF load.ok THEN behind ELSE behind \cup {Gtk}
  /\ Goto(Gtk, "idle")
  /\ UNCHANGED <<file, keyring, ring, machine, got, count, faults,
                 acked, raced, torn, passwords>>

-----------------------------------------------------------------------------
(* Operations of a worker, up to its write.                                *)

Load(p) ==
  /\ pc[p] = "load"
  /\ IF ~load.ok \/ (op[p].kind # "save" /\ Position(load.connections, op[p].id) = 0)
     THEN Done(p) /\ UNCHANGED list
     ELSE /\ list' = [list EXCEPT ![p] =
               CASE op[p].kind = "save" ->
                      Upsert(load.connections, [id |-> op[p].id, v |-> op[p].v])
                 [] op[p].kind = "delete" -> Retain(load.connections, op[p].id)
                 [] OTHER                 -> <<>>]
          /\ Goto(p, IF op[p].kind = "connect" THEN "getp" ELSE "trunc")
  /\ UNCHANGED <<file, keyring, ring, machine, got, count, faults, history>>

-----------------------------------------------------------------------------
(* ConnectionStore::save: fs::write opens the file empty, then writes.      *)

\* Processes that hold a list while p changes the file.
Holders(p) ==
  {q \in Processes \ {p} : pc[q] \in {"trunc", "write"} \/ (q = Gtk /\ pc[q] # "down")}

\* Faulty: the file is opened without truncating it.
Truncate_Keeps(p) ==
  /\ pc[p] = "trunc"
  /\ file' = IF file = NULL THEN <<>> ELSE file
  /\ behind' = behind \cup Holders(p)
  /\ Goto(p, "write")
  /\ UNCHANGED <<keyring, ring, machine, list, got, count, faults, acked,
                 raced, torn, passwords>>

Truncate(p) ==
  /\ pc[p] = "trunc"
  /\ file' = <<>>
  /\ behind' = behind \cup Holders(p)
  /\ Goto(p, "write")
  /\ UNCHANGED <<keyring, ring, machine, list, got, count, faults, acked,
                 raced, torn, passwords>>

\* What the user asked of the connections.
Asked(p) ==
  {c \in acked : c.id # op[p].id}
    \cup (IF op[p].kind = "save" THEN {[id |-> op[p].id, v |-> op[p].v]} ELSE {})

Write(p) ==
  /\ pc[p] = "write"
  /\ file' = Over(Text(list[p]))
  /\ acked' = Asked(p) /\ raced' = (raced \/ p \in behind)
  /\ behind' = (behind \cup Holders(p)) \ (Workers \cap {p})
  /\ list' = [list EXCEPT ![p] = IF p = Gtk THEN @ ELSE <<>>]
  /\ IF p # Gtk /\ (op[p].kind = "delete" \/ op[p].keep)
     THEN /\ Goto(p, IF op[p].kind = "delete" THEN "delp" ELSE "setp")
          /\ UNCHANGED secret
     ELSE Done(p) /\ Settled(p)
  /\ UNCHANGED <<keyring, ring, machine, got, count, faults, torn, left, issued>>

\* The file cannot be opened, or not be written; the window only logs it, its
\* password is changed already.
WriteFails(p) ==
  /\ pc[p] \in {"trunc", "write"} /\ faults < MaxFaults
  /\ torn' = (torn \/ pc[p] = "write")
  /\ Done(p)
  /\ behind' = IF p = Gtk THEN behind \cup {p} ELSE behind \ {p}
  /\ list' = [list EXCEPT ![p] = IF p = Gtk THEN @ ELSE <<>>]
  /\ IF Pending(p) THEN Settled(p) ELSE UNCHANGED secret
  /\ faults' = faults + 1
  /\ UNCHANGED <<file, keyring, ring, machine, got, count, acked, raced, left, issued>>

-----------------------------------------------------------------------------
(* The keyring.                                                            *)

Secrets(p) ==
  UNCHANGED <<file, ring, machine, count, faults, acked, behind, raced, torn>>

Leaves(id, stale) == left' = [left EXCEPT ![id] = stale]

\* store_password is done, or failed: the window goes on with its list.
Stored(p, ok) ==
  IF p = Gtk
  THEN /\ list' = [list EXCEPT ![p] = upsert_connection(@, [id |-> op[p].id, v |-> op[p].v])]
       /\ pc' = [pc EXCEPT ![p] = "trunc"]
       /\ op' = [op EXCEPT ![p].keep = ok]
       /\ UNCHANGED <<secret, mixed>>
  ELSE /\ Done(p)
       /\ IF ok THEN Settled(p) ELSE UNCHANGED secret
       /\ UNCHANGED list

SetPrimary(p) ==
  /\ pc[p] = "setp"
  /\ IF ring
     THEN /\ primary' = [primary EXCEPT ![op[p].id] = op[p].v]
          /\ issued' = [issued EXCEPT ![op[p].id] = @ \cup {<<op[p].v, Anywhere>>}]
          /\ Stored(p, TRUE) /\ Leaves(op[p].id, FALSE)
     ELSE Goto(p, "setf") /\ UNCHANGED <<primary, issued, list, secret, left>>
  /\ UNCHANGED <<fallback, got>> /\ Secrets(p)

\* The keyring was out of reach for the primary entry only: an older password
\* there shadows this one.
SetFallback(p) ==
  /\ pc[p] = "setf"
  /\ IF ring
     THEN /\ fallback' = [fallback EXCEPT ![op[p].id] =
                          fallback_encrypt_v1(op[p].id, op[p].v)]
          /\ issued' = [issued EXCEPT ![op[p].id] = @ \cup {<<op[p].v, machine>>}]
          /\ Stored(p, TRUE) /\ Leaves(op[p].id, primary[op[p].id] # NULL)
     ELSE Stored(p, FALSE) /\ UNCHANGED <<fallback, issued, left>>
  /\ UNCHANGED <<primary, got>> /\ Secrets(p)

\* Faulty: the fallback entry is looked at only if there is no primary one.
DeletePrimary_Returns(p) ==
  /\ pc[p] = "delp"
  /\ IF ring /\ primary[op[p].id] # NULL
     THEN /\ primary' = [primary EXCEPT ![op[p].id] = NULL]
          /\ IF p = Gtk THEN Goto(p, "trunc") /\ UNCHANGED secret
             ELSE Done(p) /\ Settled(p)
     ELSE Goto(p, "delf") /\ UNCHANGED <<primary, secret>>
  /\ UNCHANGED <<fallback, list, got, left, issued>> /\ Secrets(p)

\* Errors of delete_password are ignored.
DeletePrimary(p) ==
  /\ pc[p] = "delp"
  /\ IF ring THEN primary' = [primary EXCEPT ![op[p].id] = NULL] /\ UNCHANGED left
     ELSE /\ Leaves(op[p].id, left[op[p].id] \/ primary[op[p].id] # NULL)
          /\ UNCHANGED primary
  /\ Goto(p, "delf")
  /\ UNCHANGED <<fallback, list, got, secret, issued>> /\ Secrets(p)

DeleteFallback(p) ==
  /\ pc[p] = "delf"
  /\ IF ring
     THEN /\ fallback' = [fallback EXCEPT ![op[p].id] = NULL]
          /\ Leaves(op[p].id, left[op[p].id] /\ primary[op[p].id] # NULL)
     ELSE /\ Leaves(op[p].id, left[op[p].id] \/ fallback[op[p].id] # NULL)
          /\ UNCHANGED fallback
  /\ IF p = Gtk THEN Goto(p, "trunc") /\ UNCHANGED secret
     ELSE Done(p) /\ Settled(p)
  /\ UNCHANGED <<primary, list, got, issued>> /\ Secrets(p)

\* load_password: no password is an empty one.
GetPrimary(p) ==
  /\ pc[p] = "getp"
  /\ IF ring /\ primary[op[p].id] # NULL
     THEN got' = [got EXCEPT ![p] = [id |-> op[p].id, pw |-> primary[op[p].id]]] /\ Done(p)
     ELSE Goto(p, "getf") /\ UNCHANGED got
  /\ UNCHANGED <<keyring, list, passwords>> /\ Secrets(p)

GetFallback(p) ==
  /\ pc[p] = "getf"
  /\ got' = [got EXCEPT ![p] = [id |-> op[p].id, pw |->
       IF ring /\ fallback[op[p].id] # NULL
       THEN fallback_decrypt_v1(op[p].id, fallback[op[p].id]) ELSE NULL]]
  /\ Done(p)
  /\ UNCHANGED <<keyring, list, passwords>> /\ Secrets(p)

-----------------------------------------------------------------------------
(* Faults.                                                                 *)

Fault == faults < MaxFaults /\ faults' = faults + 1

\* A process dies; a window that closes is one more.  One that has emptied the
\* primary entry leaves the fallback one.
Crash(p) ==
  /\ Fault /\ pc[p] # "down" /\ (p = Gtk \/ ~Idle(p))
  /\ torn' = (torn \/ pc[p] = "write")
  /\ IF Pending(p) THEN Settled(p) ELSE UNCHANGED secret
  /\ IF pc[p] = "delf"
     THEN Leaves(op[p].id, left[op[p].id] \/ fallback[op[p].id] # NULL)
     ELSE UNCHANGED left
  /\ pc' = [pc EXCEPT ![p] = IF p = Gtk THEN "down" ELSE "idle"]
  /\ op' = [op EXCEPT ![p] = NoOp]
  /\ list' = [list EXCEPT ![p] = <<>>] /\ behind' = behind \ {p} /\ mixed' = mixed \ {p}
  /\ UNCHANGED <<file, keyring, ring, machine, got, count, acked, raced, issued>>

RingChanges ==
  /\ ring' = ~ring
  /\ IF ring THEN Fault ELSE UNCHANGED faults
  /\ UNCHANGED <<file, keyring, machine, process, history>>

\* The home directory comes to another machine, or the system is installed anew.
Moves ==
  /\ Fault /\ machine' = machine + 1
  /\ \A p \in Workers : Idle(p)
  /\ pc[Gtk] = "down"
  /\ got' = [p \in Processes |-> NULL]
  /\ UNCHANGED <<file, keyring, ring, list, op, pc, count, mixed, history>>

-----------------------------------------------------------------------------
Step(p) ==
  \/ Load(p) \/ Truncate(p) \/ Write(p)
  \/ SetPrimary(p) \/ SetFallback(p) \/ DeletePrimary(p) \/ DeleteFallback(p)
  \/ GetPrimary(p) \/ GetFallback(p)

Next ==
  \/ \E p \in Workers, id \in Ids :
       \/ \E v \in Versions, keep \in BOOLEAN : save_connection(p, id, v, keep)
       \/ delete_connection(p, id)
       \/ get_or_connect(p, id)
  \/ \E id \in Ids :
       \/ \E v \in Versions : open_dialog(id, v)
       \/ gtk_delete_connection(id)
  \/ MainWindow_new
  \/ \E p \in Processes : Step(p) \/ WriteFails(p) \/ Crash(p)
  \/ RingChanges \/ Moves

\* An operation that began goes on.
Spec == Init /\ [][Next]_vars /\ \A p \in Processes : WF_vars(Step(p))

-----------------------------------------------------------------------------
(* Properties.                                                             *)

\* A file holds whole entries; only a process at work holds a list of its own.
TypeOK ==
  /\ file # NULL => Range(file) \subseteq Entries \cup {End}
  /\ \A p \in Processes : Range(list[p]) \subseteq Entries
  /\ \A id \in Ids :
       /\ primary[id] \in Versions \cup {NULL}
       /\ fallback[id] # NULL => fallback[id].aad = id /\ fallback[id].plain \in Versions
  /\ \A p \in Workers :
       pc[p] \in {"idle", "load", "trunc", "write", "setp", "setf", "delp", "delf",
                  "getp", "getf"}
  /\ count \in 0 .. MaxOps /\ faults \in 0 .. MaxFaults

Writing == \E p \in Processes : pc[p] = "write"

\* Unless a list that was out of date was written, a file that can be read
\* holds exactly the connections saved and not deleted: a process that dies over
\* the file makes it unreadable but loses nothing silently, because load reports
\* the error and no worker writes over it (connection.rs load and save; the GTK
\* window's unwrap_or_default makes its list one that is out of date).
NothingLostSilently ==
  (~raced /\ Readable) =>
    /\ Len(Loaded) = Cardinality(acked)
    /\ Range(Loaded) = acked

\* Only a process that died or failed over the file, or two that wrote it at a
\* time, leave a file that cannot be read (connection.rs save).
StaysReadable == (~raced /\ ~torn /\ ~Writing) => Readable

\* However saves and deletes overlap, no file has two entries with one id:
\* lookups by id find the one that was edited (upsert in daemon.rs and
\* app_state/connections.rs).
IdsUnique ==
  Readable => \A i, j \in DOMAIN Loaded : Loaded[i].id = Loaded[j].id => i = j

\* Together: the file as an operation may find it.
FileIsSound == TypeOK /\ StaysReadable /\ IdsUnique

\* Through keyring outages, failed writes, deaths and a move to another machine,
\* the two entries of a connection together give the password that the last
\* operation on it left, or one that overlapped it did; none after a deletion,
\* however old a fallback entry is, nor on a machine where the fallback entry was
\* not made.  Only an entry that outlived an outage or a death is excepted (left):
\* delete_password ignores errors (crypto.rs store, load, delete_password).
KeyringAgrees ==
  \A id \in Ids :
    (~left[id] /\ \A p \in Processes : ~Changes(p, id)) =>
      \/ load_password(id) \in secret[id]
      \/ primary[id] = NULL /\ fallback[id] # NULL /\ fallback[id].key.machine # machine

\* A connection is opened with a password that was kept for it, and the
\* fallback entry only on the machine where it was made (crypto.rs
\* fallback_decrypt_v1; README "bound to machine and connection identity").
GotWasKept ==
  \A p \in Workers :
    (got[p] # NULL /\ got[p].pw # NULL) =>
      {<<got[p].pw, Anywhere>>, <<got[p].pw, machine>>} \cap issued[got[p].id] # {}
=============================================================================
