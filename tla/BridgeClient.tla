---------------------------- MODULE BridgeClient ----------------------------
(***************************************************************************)
(* The Qt side of the bridge (apps/lithedb-qt/src/bridge_client.cpp):      *)
(* commands written to a bridge process, their callbacks kept by id in     *)
(* pending_commands_, answer lines read in pieces, the death of the        *)
(* process, its restart by the next command, and stop().                   *)
(*                                                                         *)
(* An answer line is two pieces, its end carries the newline. Callbacks    *)
(* may open message boxes, whose event loops let anything happen between   *)
(* two lines of one read; they may send further commands, except that no   *)
(* callback in the repository sends one when it is given an error.         *)
(* restart() has no caller and is left out.                                *)
(***************************************************************************)
EXTENDS Naturals, Sequences, FiniteSets

CONSTANTS
  MaxCommands,  \* bound on the commands sent
  MaxStarts     \* bound on the processes started

ASSUME BridgeClientAssumption == MaxCommands \in Nat /\ MaxStarts \in Nat

Id == 1 .. MaxCommands

VARIABLES
  next,      \* next_id_, counting also commands whose process did not start
  pending,   \* ids in pending_commands_
  told,      \* how often the callback of an id has run
  answered,  \* ids whose callback was given the process's answer
  lost,      \* ids whose callback was moved away when the write failed
  sentTo,    \* the process a command was written to
  proc,      \* "none"; "up"; "dead": ended, but Qt still reports Running
  starts,    \* processes started so far; the current one is the last
  inbox,     \* process: commands it has read or can read
  half,      \* process: the answer it has written the first piece of
  pipe,      \* its output, in pieces, that was not read yet
  buffer,    \* read_buffer_
  main       \* "running", "stopping" (shutting_down_), "stopped"

cmdVars  == <<next, told, answered, lost, sentTo>>
procVars == <<proc, starts, inbox, half, pipe>>
vars == <<cmdVars, pending, procVars, buffer, main>>

NoId == 0
Piece == [id : Id, end : BOOLEAN]

TypeOK ==
  /\ next \in 1 .. MaxCommands + 1
  /\ pending \subseteq 1 .. next - 1
  /\ told \in [Id -> Nat]
  /\ answered \subseteq Id /\ lost \subseteq Id
  /\ sentTo \in [Id -> 0 .. MaxStarts]
  /\ proc \in {"none", "up", "dead"}
  /\ starts \in 0 .. MaxStarts
  /\ inbox \subseteq Id
  /\ half \in Id \cup {NoId}
  /\ pipe \in Seq(Piece) /\ buffer \in Seq(Piece)
  /\ main \in {"running", "stopping", "stopped"}

\* MainWindow starts the process before the first command; it may fail to start.
Init ==
  /\ next = 1 /\ pending = {}
  /\ told = [i \in Id |-> 0]
  /\ answered = {} /\ lost = {}
  /\ sentTo = [i \in Id |-> 0]
  /\ proc = "none" /\ starts = 0
  /\ inbox = {} /\ half = NoId /\ pipe = <<>> /\ buffer = <<>>
  /\ main = "running"

-----------------------------------------------------------------------------
(* Vocabulary.                                                             *)

\* Faulty: what was read of an answer cut short is kept.
ClearBuffer_Keeps == UNCHANGED buffer

\* read_buffer_.clear(), on every start and end of a process.
ClearBuffer == buffer' = <<>>

Run(S) == told' = [i \in Id |-> told[i] + IF i \in S THEN 1 ELSE 0]

\* fail_pending_commands
FailPending == Run(pending) /\ pending' = {}

\* The first newline in read_buffer_ ends piece n.
LineEnd(n) == buffer[n].end /\ \A m \in 1 .. n - 1 : ~ buffer[m].end

-----------------------------------------------------------------------------
(* send_command: ensure_started, then the write. Command n = next has a     *)
(* callback iff cb.                                                         *)

MaySend == main # "stopped" /\ next <= MaxCommands /\ next' = next + 1

StartFails(cb) ==
  /\ MaySend /\ proc = "none"
  /\ Run(IF cb THEN {next} ELSE {})
  /\ ClearBuffer
  /\ UNCHANGED <<pending, answered, lost, sentTo, procVars, main>>

StartAndSend(cb) ==
  /\ MaySend /\ proc = "none" /\ starts < MaxStarts
  /\ proc' = "up" /\ starts' = starts + 1
  /\ inbox' = {next} /\ half' = NoId /\ pipe' = <<>>
  /\ ClearBuffer
  /\ sentTo' = [sentTo EXCEPT ![next] = starts']
  /\ pending' = pending \cup IF cb THEN {next} ELSE {}
  /\ UNCHANGED <<told, answered, lost, main>>

\* Faulty: the callback is kept under the id of the command that comes next.
Send_LateId(cb) ==
  /\ MaySend /\ proc # "none"
  /\ inbox' = IF proc = "up" THEN inbox \cup {next} ELSE inbox
  /\ sentTo' = [sentTo EXCEPT ![next] = starts]
  /\ pending' = pending \cup IF cb THEN {next'} ELSE {}
  /\ UNCHANGED <<told, answered, lost, proc, starts, half, pipe, buffer, main>>

\* The process runs, or Qt has not seen it end: the line is buffered then.
Send(cb) ==
  /\ MaySend /\ proc # "none"
  /\ inbox' = IF proc = "up" THEN inbox \cup {next} ELSE inbox
  /\ sentTo' = [sentTo EXCEPT ![next] = starts]
  /\ pending' = pending \cup IF cb THEN {next} ELSE {}
  /\ UNCHANGED <<told, answered, lost, proc, starts, half, pipe, buffer, main>>

\* The pipe to an ended process is closed: the write returns -1. The callback
\* to report that to was moved into pending_commands_, which is cleared of it.
WriteFails(cb) ==
  /\ MaySend /\ proc = "dead"
  /\ sentTo' = [sentTo EXCEPT ![next] = starts]
  /\ lost' = lost \cup IF cb THEN {next} ELSE {}
  /\ UNCHANGED <<pending, told, answered, procVars, buffer, main>>

-----------------------------------------------------------------------------
(* The bridge process: external to the client. It answers every command     *)
(* once, in any order, and may end at any time.                             *)

WriteHead(i) ==
  /\ proc = "up" /\ half = NoId /\ i \in inbox
  /\ half' = i /\ inbox' = inbox \ {i}
  /\ pipe' = Append(pipe, [id |-> i, end |-> FALSE])
  /\ UNCHANGED <<cmdVars, pending, proc, starts, buffer, main>>

WriteEnd ==
  /\ proc = "up" /\ half # NoId
  /\ half' = NoId
  /\ pipe' = Append(pipe, [id |-> half, end |-> TRUE])
  /\ UNCHANGED <<cmdVars, pending, proc, starts, inbox, buffer, main>>

Dies ==
  /\ proc = "up"
  /\ proc' = "dead"
  /\ UNCHANGED <<cmdVars, pending, starts, inbox, half, pipe, buffer, main>>

-----------------------------------------------------------------------------
(* on_ready_read, on_process_finished, stop.                               *)

\* readAllStandardOutput returns what has arrived so far.
Read ==
  /\ proc # "none" /\ main # "stopped" /\ pipe # <<>>
  /\ \E n \in DOMAIN pipe :
       /\ buffer' = buffer \o SubSeq(pipe, 1, n)
       /\ pipe' = SubSeq(pipe, n + 1, Len(pipe))
  /\ UNCHANGED <<cmdVars, pending, proc, starts, inbox, half, main>>

\* Faulty: the callback stays registered.
HandleLine_Keeps ==
  /\ main # "stopped"
  /\ \E n \in DOMAIN buffer : LineEnd(n) /\
       LET i == buffer[n].id
           call == IF n = 2 /\ i \in pending THEN {i} ELSE {}
       IN  /\ buffer' = SubSeq(buffer, n + 1, Len(buffer))
           /\ Run(call)
           /\ answered' = answered \cup call
  /\ UNCHANGED <<pending, next, lost, sentTo, procVars, main>>

\* The first whole line in the buffer. One that is not a single answer is no
\* JSON object and is skipped, one for an unknown id is ignored.
HandleLine ==
  /\ main # "stopped"
  /\ \E n \in DOMAIN buffer : LineEnd(n) /\
       LET i == buffer[n].id
           call == IF n = 2 /\ i \in pending THEN {i} ELSE {}
       IN  /\ buffer' = SubSeq(buffer, n + 1, Len(buffer))
           /\ pending' = pending \ call
           /\ Run(call)
           /\ answered' = answered \cup call
  /\ UNCHANGED <<next, lost, sentTo, procVars, main>>

\* Faulty: the commands of the dead process are left waiting.
Finished_KeepsPending ==
  /\ main = "running" /\ proc = "dead" /\ pipe = <<>>
  /\ ClearBuffer
  /\ proc' = "none"
  /\ UNCHANGED <<cmdVars, pending, starts, inbox, half, pipe, main>>

\* Qt reads what is left of the output before it announces the end.
Finished ==
  /\ main = "running" /\ proc = "dead" /\ pipe = <<>>
  /\ FailPending
  /\ ClearBuffer
  /\ proc' = "none"
  /\ UNCHANGED <<next, answered, lost, sentTo, starts, inbox, half, pipe, main>>

\* stop() without a process; with one it sends "exit", waits and reads on.
StopIdle ==
  /\ main = "running" /\ proc = "none"
  /\ FailPending
  /\ main' = "stopped"
  /\ UNCHANGED <<next, answered, lost, sentTo, procVars, buffer>>

BeginStop ==
  /\ main = "running" /\ proc # "none"
  /\ main' = "stopping"
  /\ UNCHANGED <<cmdVars, pending, procVars, buffer>>

\* Faulty: the commands under way at the stop are forgotten, not failed.
Teardown_KeepsPending ==
  /\ main = "stopping"
  /\ proc' = "none" /\ main' = "stopped"
  /\ ClearBuffer
  /\ UNCHANGED <<cmdVars, pending, starts, inbox, half, pipe>>

\* teardown_process: the process is killed if it still runs.
Teardown ==
  /\ main = "stopping"
  /\ proc' = "none" /\ main' = "stopped"
  /\ ClearBuffer
  /\ FailPending
  /\ UNCHANGED <<next, answered, lost, sentTo, starts, inbox, half, pipe>>

-----------------------------------------------------------------------------
SendCommand ==
  \E cb \in BOOLEAN :
    StartFails(cb) \/ StartAndSend(cb) \/ Send(cb) \/ WriteFails(cb)

Process == WriteEnd \/ \E i \in Id : WriteHead(i)

Rest == main = "stopped" /\ UNCHANGED vars

Next ==
  \/ SendCommand \/ Process \/ Dies
  \/ Read \/ HandleLine \/ Finished
  \/ StopIdle \/ BeginStop \/ Teardown
  \/ Rest

Spec == Init /\ [][Next]_vars

\* The process works through its commands, and the event loop handles its
\* output and its end; nothing forces anybody to send, to die or to stop.
FairSpec ==
  /\ Spec
  /\ \A i \in Id : WF_vars(WriteHead(i))
  /\ WF_vars(WriteEnd) /\ WF_vars(Read) /\ WF_vars(HandleLine)
  /\ WF_vars(Finished) /\ WF_vars(Teardown)
-----------------------------------------------------------------------------
(* Properties.                                                             *)

\* No callback runs twice, whatever answers, deaths and stops meet
\* (bridge_client.cpp:181-190, 219-232).
CalledAtMostOnce == \A i \in Id : told[i] <= 1

\* A command waits only for the process it was written to, and only while that
\* process can still answer or be seen to end: none waits for ever for one that
\* was replaced (bridge_client.cpp:85-120, 205-217).
PendingHasProcess ==
  \A i \in pending : proc # "none" /\ sentTo[i] = starts /\ told[i] = 0

\* A command whose callback waits gets it called, also when answers arrive in
\* pieces and a process ended in the middle of one (bridge_client.cpp:155-192).
PendingIsCalled == \A i \in Id : i \in pending ~> told[i] = 1

\* A live process that stays up gives a command its answer, not an error: the
\* remains of another process's output do not spoil it
\* (bridge_client.cpp:80, 97, 211).
LiveProcessAnswers ==
  \A i \in Id : i \in pending ~> (i \in answered \/ proc # "up")
=============================================================================
