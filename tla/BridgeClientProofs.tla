------------------------- MODULE BridgeClientProofs -------------------------
(***************************************************************************)
(* The callbacks of the bridge client, for any number of commands and of   *)
(* bridge processes.                                                       *)
(*                                                                         *)
(* That a callback runs at most once follows from PendingHasProcess, which *)
(* says that a registered callback has not run, once it is known that an   *)
(* id not handed out yet has no callback that ran (Unsent).                *)
(***************************************************************************)
EXTENDS BridgeClient, SequenceTheorems, TLAPS

\* The ids from next_id_ on are unused.
Unsent == \A i \in Id : i >= next => told[i] = 0

IInv == TypeOK /\ Unsent /\ PendingHasProcess /\ CalledAtMostOnce

-----------------------------------------------------------------------------
(* Callbacks.                                                              *)

\* Running the callbacks of pending commands, each once, and forgetting them
\* keeps what is known of the callbacks.
LEMMA RunPending ==
  ASSUME TypeOK, Unsent, PendingHasProcess, CalledAtMostOnce,
         NEW S \in SUBSET pending, Run(S), next' = next
  PROVE  /\ told' \in [Id -> Nat]
         /\ Unsent'
         /\ CalledAtMostOnce'
         /\ \A i \in Id \ S : told'[i] = told[i]
<1>1. S \subseteq 1 .. next - 1 /\ next \in Nat
  BY BridgeClientAssumption DEF TypeOK
<1>2. \A i \in S : told[i] = 0
  BY DEF PendingHasProcess
<1>3. \A i \in Id : told'[i] = told[i] + IF i \in S THEN 1 ELSE 0
  BY DEF Run
<1>4. told' \in [Id -> Nat]
  <2>1. \A i \in Id : told[i] + (IF i \in S THEN 1 ELSE 0) \in Nat
    BY DEF TypeOK
  <2> QED BY <2>1 DEF Run
<1>5. \A i \in Id \ S : told'[i] = told[i]
  BY <1>3 DEF TypeOK
<1>6. Unsent'
  BY <1>1, <1>5 DEF Unsent, Id
<1>7. CalledAtMostOnce'
  BY <1>2, <1>3, <1>5 DEF CalledAtMostOnce
<1> QED BY <1>4, <1>5, <1>6, <1>7

\* No callback waits while there is no process.
LEMMA NoneWaitsForNone ==
  ASSUME PendingHasProcess, proc = "none"
  PROVE  pending = {}
BY DEF PendingHasProcess

-----------------------------------------------------------------------------
(* The invariant.                                                          *)

LEMMA InitInvariant == Init => IInv
<1> SUFFICES ASSUME Init PROVE IInv
  OBVIOUS
<1>1. TypeOK
  BY BridgeClientAssumption DEF Init, TypeOK, Id, NoId
<1> QED BY <1>1 DEF Init, IInv, Unsent, PendingHasProcess, CalledAtMostOnce, Id

\* A command number: what every send does to the numbers.
LEMMA NextNumber ==
  ASSUME TypeOK, MaySend
  PROVE  /\ next \in Id /\ next \in Nat /\ next' = next + 1
         /\ next' \in 1 .. MaxCommands + 1
         /\ next \notin pending
         /\ pending \subseteq 1 .. next' - 1
         /\ next \in 1 .. next' - 1
BY BridgeClientAssumption DEF TypeOK, MaySend, Id

LEMMA StartFailsStep ==
  ASSUME IInv, NEW cb \in BOOLEAN, StartFails(cb)
  PROVE  IInv'
<1> USE DEF IInv
<1>1. /\ next \in Id /\ next \in Nat /\ next' = next + 1
      /\ next' \in 1 .. MaxCommands + 1
      /\ pending \subseteq 1 .. next' - 1
  BY NextNumber DEF StartFails
<1>2. told[next] = 0
  BY <1>1 DEF Unsent
<1>3. \A i \in Id : told'[i] = told[i] + IF cb /\ i = next THEN 1 ELSE 0
  BY DEF StartFails, Run
<1>4. told' \in [Id -> Nat]
  <2>1. \A i \in Id :
          told[i] + (IF i \in IF cb THEN {next} ELSE {} THEN 1 ELSE 0) \in Nat
    BY DEF TypeOK
  <2> QED BY <2>1 DEF StartFails, Run
<1>5. TypeOK'
  BY <1>1, <1>4 DEF TypeOK, StartFails, ClearBuffer, procVars
<1>6. Unsent'
  BY <1>1, <1>3 DEF Unsent, TypeOK, Id
<1>7. PendingHasProcess'
  BY NoneWaitsForNone DEF PendingHasProcess, StartFails
<1>8. CalledAtMostOnce'
  BY <1>1, <1>2, <1>3 DEF CalledAtMostOnce, TypeOK
<1> QED BY <1>5, <1>6, <1>7, <1>8

LEMMA StartAndSendStep ==
  ASSUME IInv, NEW cb \in BOOLEAN, StartAndSend(cb)
  PROVE  IInv'
<1> USE DEF IInv
<1>1. /\ next \in Id /\ next \in Nat /\ next' = next + 1
      /\ next' \in 1 .. MaxCommands + 1
      /\ pending \subseteq 1 .. next' - 1
      /\ next \in 1 .. next' - 1
  BY NextNumber DEF StartAndSend
<1>2. pending = {} /\ pending' \subseteq {next}
  BY NoneWaitsForNone DEF StartAndSend
<1>3. starts' \in 0 .. MaxStarts
  BY BridgeClientAssumption DEF TypeOK, StartAndSend
<1>4. TypeOK'
  <2>1. sentTo' \in [Id -> 0 .. MaxStarts] /\ sentTo'[next] = starts'
    BY <1>1, <1>3 DEF TypeOK, StartAndSend
  <2>2. pending' \subseteq 1 .. next' - 1
    BY <1>1, <1>2
  <2> QED BY <1>1, <1>3, <2>1, <2>2 DEF TypeOK, StartAndSend, ClearBuffer
<1>5. Unsent'
  BY <1>1 DEF Unsent, StartAndSend, Id
<1>6. PendingHasProcess'
  BY <1>1, <1>2 DEF PendingHasProcess, StartAndSend, Unsent, TypeOK
<1>7. CalledAtMostOnce'
  BY DEF CalledAtMostOnce, StartAndSend
<1> QED BY <1>4, <1>5, <1>6, <1>7

LEMMA SendStep ==
  ASSUME IInv, NEW cb \in BOOLEAN, Send(cb)
  PROVE  IInv'
<1> USE DEF IInv
<1>1. /\ next \in Id /\ next \in Nat /\ next' = next + 1
      /\ next' \in 1 .. MaxCommands + 1
      /\ next \notin pending
      /\ pending \subseteq 1 .. next' - 1
      /\ next \in 1 .. next' - 1
  BY NextNumber DEF Send
<1>2. pending' \subseteq pending \cup {next}
  BY DEF Send
<1>3. TypeOK'
  <2>1. sentTo' \in [Id -> 0 .. MaxStarts]
    BY <1>1 DEF TypeOK, Send
  <2>2. pending' \subseteq 1 .. next' - 1
    BY <1>1, <1>2
  <2>3. inbox' \subseteq Id
    BY <1>1 DEF TypeOK, Send
  <2> QED BY <1>1, <2>1, <2>2, <2>3 DEF TypeOK, Send
<1>4. Unsent'
  BY <1>1 DEF Unsent, Send, Id
<1>5. PendingHasProcess'
  BY <1>1, <1>2 DEF PendingHasProcess, Send, Unsent, TypeOK, Id
<1>6. CalledAtMostOnce'
  BY DEF CalledAtMostOnce, Send
<1> QED BY <1>3, <1>4, <1>5, <1>6

LEMMA WriteFailsStep ==
  ASSUME IInv, NEW cb \in BOOLEAN, WriteFails(cb)
  PROVE  IInv'
<1> USE DEF IInv
<1>1. /\ next \in Id /\ next \in Nat /\ next' = next + 1
      /\ next' \in 1 .. MaxCommands + 1
      /\ next \notin pending
      /\ pending \subseteq 1 .. next' - 1
  BY NextNumber DEF WriteFails
<1>2. TypeOK'
  <2>1. sentTo' \in [Id -> 0 .. MaxStarts] /\ lost' \subseteq Id
    BY <1>1 DEF TypeOK, WriteFails
  <2> QED BY <1>1, <2>1 DEF TypeOK, WriteFails, procVars
<1>3. Unsent'
  BY <1>1 DEF Unsent, WriteFails, Id
<1>4. PendingHasProcess'
  BY <1>1 DEF PendingHasProcess, WriteFails, TypeOK, Id, procVars
<1>5. CalledAtMostOnce'
  BY DEF CalledAtMostOnce, WriteFails
<1> QED BY <1>2, <1>3, <1>4, <1>5

\* The process and the pipes: nothing the callbacks depend on changes.
LEMMA ProcessStep ==
  ASSUME IInv, Process \/ Dies \/ Read
  PROVE  IInv'
<1> USE DEF IInv
<1>1. cmdVars' = cmdVars /\ pending' = pending /\ starts' = starts
      /\ (proc # "none" => proc' # "none")
  BY DEF Process, WriteHead, WriteEnd, Dies, Read
<1>2. Unsent' /\ CalledAtMostOnce' /\ PendingHasProcess'
  BY <1>1 DEF Unsent, CalledAtMostOnce, PendingHasProcess, cmdVars
<1>3. TypeOK'
  <2>1. ASSUME NEW i \in Id, WriteHead(i) PROVE TypeOK'
    <3>1. [id |-> i, end |-> FALSE] \in Piece
      BY DEF Piece
    <3>2. pipe' \in Seq(Piece)
      BY <2>1, <3>1, AppendProperties DEF TypeOK, WriteHead
    <3> QED BY <2>1, <3>2 DEF TypeOK, WriteHead, cmdVars
  <2>2. CASE WriteEnd
    <3>1. [id |-> half, end |-> TRUE] \in Piece
      BY <2>2 DEF Piece, TypeOK, WriteEnd, NoId
    <3>2. pipe' \in Seq(Piece)
      BY <2>2, <3>1, AppendProperties DEF TypeOK, WriteEnd
    <3> QED BY <2>2, <3>2 DEF TypeOK, WriteEnd, cmdVars
  <2>3. CASE Dies
    BY <2>3 DEF TypeOK, Dies, cmdVars
  <2>4. CASE Read
    <3>1. PICK n \in DOMAIN pipe :
            /\ buffer' = buffer \o SubSeq(pipe, 1, n)
            /\ pipe' = SubSeq(pipe, n + 1, Len(pipe))
      BY <2>4 DEF Read
    <3>2. pipe \in Seq(Piece) /\ buffer \in Seq(Piece)
      BY DEF TypeOK
    <3>3. n \in 1 .. Len(pipe) /\ Len(pipe) \in Nat
      BY <3>2
    <3>4. SubSeq(pipe, 1, n) \in Seq(Piece)
      <4>1. \A i \in 1 .. n : pipe[i] \in Piece
        BY <3>2, <3>3, ElementOfSeq
      <4> QED BY <3>3, <4>1, SubSeqProperties
    <3>5. SubSeq(pipe, n + 1, Len(pipe)) \in Seq(Piece)
      <4>1. \A i \in n + 1 .. Len(pipe) : pipe[i] \in Piece
        BY <3>2, <3>3, ElementOfSeq
      <4> QED BY <3>3, <4>1, SubSeqProperties
    <3>6. buffer' \in Seq(Piece) /\ pipe' \in Seq(Piece)
      BY <3>1, <3>2, <3>4, <3>5, ConcatProperties
    <3> QED BY <2>4, <3>6 DEF TypeOK, Read, cmdVars
  <2> QED BY <2>1, <2>2, <2>3, <2>4 DEF Process
<1> QED BY <1>2, <1>3

LEMMA HandleLineStep ==
  ASSUME IInv, HandleLine
  PROVE  IInv'
<1> USE DEF IInv
<1>0. PICK n \in DOMAIN buffer :
        LET i == buffer[n].id
            call == IF n = 2 /\ i \in pending THEN {i} ELSE {}
        IN  /\ buffer' = SubSeq(buffer, n + 1, Len(buffer))
            /\ pending' = pending \ call
            /\ Run(call)
            /\ answered' = answered \cup call
  BY DEF HandleLine
<1> DEFINE i == buffer[n].id
           call == IF n = 2 /\ i \in pending THEN {i} ELSE {}
<1>1. /\ call \in SUBSET pending /\ pending' = pending \ call /\ Run(call)
      /\ answered' = answered \cup call
      /\ UNCHANGED <<next, lost, sentTo, procVars, main>>
  BY <1>0 DEF HandleLine
<1> HIDE DEF call
<1>2. /\ told' \in [Id -> Nat] /\ Unsent' /\ CalledAtMostOnce'
      /\ \A j \in Id \ call : told'[j] = told[j]
  BY <1>1, RunPending
<1>3. pending \subseteq Id
  BY BridgeClientAssumption DEF TypeOK, Id
<1>4. buffer' \in Seq(Piece)
  <2>1. buffer \in Seq(Piece) /\ Len(buffer) \in Nat
    BY DEF TypeOK
  <2>2. \A m \in n + 1 .. Len(buffer) : buffer[m] \in Piece
    BY <2>1, ElementOfSeq
  <2> QED BY <1>0, <2>1, <2>2, SubSeqProperties
<1>5. TypeOK'
  BY <1>1, <1>2, <1>3, <1>4 DEF TypeOK, procVars
<1>6. PendingHasProcess'
  BY <1>1, <1>2, <1>3 DEF PendingHasProcess, procVars
<1> QED BY <1>2, <1>5, <1>6

\* Failing every pending callback.
LEMMA FailPendingStep ==
  ASSUME IInv, Finished \/ StopIdle \/ Teardown
  PROVE  IInv'
<1> USE DEF IInv
<1>1. /\ Run(pending) /\ pending' = {}
      /\ UNCHANGED <<next, answered, lost, sentTo, starts, inbox, half, pipe>>
      /\ buffer' \in {buffer, <<>>}
      /\ proc' \in {proc, "none"}
      /\ main' \in {main, "stopped"}
  BY DEF Finished, StopIdle, Teardown, FailPending, ClearBuffer, procVars
<1>2. told' \in [Id -> Nat] /\ Unsent' /\ CalledAtMostOnce'
  BY <1>1, RunPending
<1>3. TypeOK'
  <2>1. buffer' \in Seq(Piece)
    <3>1. buffer' = buffer \/ buffer' = <<>>
      BY <1>1
    <3>2. buffer \in Seq(Piece) /\ <<>> \in Seq(Piece)
      BY DEF TypeOK
    <3> QED BY <3>1, <3>2
  <2>2. proc' \in {"none", "up", "dead"}
    BY <1>1 DEF TypeOK
  <2>3. main' \in {"running", "stopping", "stopped"}
    BY <1>1 DEF TypeOK
  <2>4. pending' \subseteq 1 .. next' - 1
    BY <1>1
  <2> QED BY <1>1, <1>2, <2>1, <2>2, <2>3, <2>4 DEF TypeOK
<1>4. PendingHasProcess'
  BY <1>1 DEF PendingHasProcess
<1> QED BY <1>2, <1>3, <1>4

LEMMA QuietStep ==
  ASSUME IInv, BeginStop \/ UNCHANGED vars
  PROVE  IInv'
BY DEF IInv, BeginStop, vars, cmdVars, procVars, TypeOK, Unsent,
       PendingHasProcess, CalledAtMostOnce

LEMMA NextInvariant == IInv /\ [Next]_vars => IInv'
<1> SUFFICES ASSUME IInv, [Next]_vars PROVE IInv'
  OBVIOUS
<1>1. ASSUME NEW cb \in BOOLEAN, StartFails(cb) PROVE IInv'
  BY <1>1, StartFailsStep
<1>2. ASSUME NEW cb \in BOOLEAN, StartAndSend(cb) PROVE IInv'
  BY <1>2, StartAndSendStep
<1>3. ASSUME NEW cb \in BOOLEAN, Send(cb) PROVE IInv'
  BY <1>3, SendStep
<1>4. ASSUME NEW cb \in BOOLEAN, WriteFails(cb) PROVE IInv'
  BY <1>4, WriteFailsStep
<1>5. CASE Process \/ Dies \/ Read
  BY <1>5, ProcessStep
<1>6. CASE HandleLine
  BY <1>6, HandleLineStep
<1>7. CASE Finished \/ StopIdle \/ Teardown
  BY <1>7, FailPendingStep
<1>8. CASE BeginStop \/ UNCHANGED vars
  BY <1>8, QuietStep
<1> QED
  BY <1>1, <1>2, <1>3, <1>4, <1>5, <1>6, <1>7, <1>8
  DEF Next, SendCommand, Rest

-----------------------------------------------------------------------------
(* Theorems.                                                               *)

\* The inductive invariant holds in every reachable state of the client.
THEOREM ClientInvariance == Spec => []IInv
BY InitInvariant, NextInvariant, PTL DEF Spec

\* The client's state is well formed: in particular every registered callback
\* has an id that send_command handed out.
THEOREM ClientTypes == Spec => []TypeOK
<1>1. IInv => TypeOK
  BY DEF IInv
<1> QED BY <1>1, ClientInvariance, PTL

\* No callback runs twice, for any number of commands, processes, deaths and
\* stops (bridge_client.cpp:181-190, 219-232).
THEOREM CallbacksRunOnce == Spec => []CalledAtMostOnce
<1>1. IInv => CalledAtMostOnce
  BY DEF IInv
<1> QED BY <1>1, ClientInvariance, PTL

\* A registered callback waits for the current process, which was sent its
\* command (bridge_client.cpp:85-120, 205-217).
THEOREM NoneWaitsInVain == Spec => []PendingHasProcess
<1>1. IInv => PendingHasProcess
  BY DEF IInv
<1> QED BY <1>1, ClientInvariance, PTL
=============================================================================
