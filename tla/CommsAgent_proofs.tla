-------------------------- MODULE CommsAgent_proofs --------------------------
(***************************************************************************)
(* Proofs about the communications agent, for every set of producers, all  *)
(* commands and every value of the bounds.                                 *)
(***************************************************************************)
EXTENDS CommsAgent, WarpToWlanAgent_proofs

\* A command sends two requests at most, all of them requests WARP knows.
LEMMA StepsFacts ==
  ASSUME NEW n \in Names
  PROVE  /\ Len(Steps[n]) \in 0..2
         /\ \A i \in 1..Len(Steps[n]) : Steps[n][i] \in Requests
         /\ Steps[n] # <<>> => Len(Steps[n]) > 0
<1>1. CASE n = "radio_set"
  <2>1. Steps[n] = <<MacAdd, TransmissionControl>>
    BY <1>1 DEF Steps, Names, RadioSetSteps
  <2>2. MacAdd \in Requests /\ TransmissionControl \in Requests
    BY DEF Requests
  <2> QED BY <2>1, <2>2
<1>2. CASE n = "delete"
  <2>1. Steps[n] = <<BssidClear, MacRemove>>
    BY <1>2 DEF Steps, Names, DeleteSteps
  <2>2. BssidClear \in Requests /\ MacRemove \in Requests
    BY DEF Requests
  <2> QED BY <2>1, <2>2
<1>3. CASE n = "associate"
  <2>1. Steps[n] = <<BssidAssociate>> /\ BssidAssociate \in Requests
    BY <1>3 DEF Steps, Names, AssociateSteps, Requests
  <2> QED BY <2>1
<1>4. CASE n = "disassociate"
  <2>1. Steps[n] = <<BssidDisassociate>> /\ BssidDisassociate \in Requests
    BY <1>4 DEF Steps, Names, DisassociateSteps, Requests
  <2> QED BY <2>1
<1>5. CASE n \in {"test", "invalid", "unknown"}
  <2>1. Steps[n] = <<>>
    BY <1>5 DEF Steps, Names
  <2> QED BY <2>1
<1> QED BY <1>1, <1>2, <1>3, <1>4, <1>5 DEF Names

\* The steps of parse_json that go on with the command in work.
Work == ParseJson \/ HandleReply \/ NextRequest \/ Succeed

\* The type of the parsing thread, unfolded.
LEMMA ParserType ==
  ASSUME CommsTypeOK
  PROVE  /\ parser.id \in Nat /\ parser.cmd \in Commands /\ parser.cmd.name \in Names
         /\ parser.step \in 0..2 /\ parser.sent \subseteq Nat
BY DEF CommsTypeOK, ParserStates, Commands

\* A request goes out: the next one of the command.
LEMMA SendRequestEffect ==
  ASSUME WarpTypeOK, CommsTypeOK, SendRequest,
         parser.step < Len(Steps[parser.cmd.name])
  PROVE  /\ \E r \in Requests : Sync(r)
         /\ parser' \in ParserStates
         /\ parser'.id = parser.id /\ parser'.cmd = parser.cmd /\ parser'.pc = "call"
         /\ parser'.step = parser.step + 1
         /\ parser'.sent = parser.sent \cup {call.id + 1}
         /\ parser'.step \in 1..Len(Steps[parser.cmd.name])
         /\ UNCHANGED responseVars
<1>1. /\ call.id \in Nat /\ parser \in ParserStates
  BY DEF WarpTypeOK, Calls, CommsTypeOK
<1>2. /\ Len(Steps[parser.cmd.name]) \in 0..2
      /\ \A i \in 1..Len(Steps[parser.cmd.name]) : Steps[parser.cmd.name][i] \in Requests
  BY ParserType, StepsFacts
<1>3. parser.step + 1 \in 1..Len(Steps[parser.cmd.name]) /\ parser.step + 1 \in 0..2
  BY <1>2, ParserType
<1>4. \E r \in Requests : Sync(r)
  BY <1>2, <1>3 DEF SendRequest
<1>5. parser.sent \cup {call.id + 1} \subseteq Nat
  BY <1>1, ParserType
<1>6. parser' = [parser EXCEPT !.pc = "call", !.step = parser.step + 1,
                               !.sent = parser.sent \cup {call.id + 1}]
  BY DEF SendRequest
<1>7. parser' \in ParserStates
  BY <1>1, <1>3, <1>5, <1>6, Zenon DEF ParserStates
<1>8. /\ parser'.id = parser.id /\ parser'.cmd = parser.cmd /\ parser'.pc = "call"
      /\ parser'.step = parser.step + 1 /\ parser'.sent = parser.sent \cup {call.id + 1}
  BY <1>1, <1>6 DEF ParserStates
<1> QED BY <1>3, <1>4, <1>7, <1>8 DEF SendRequest

\* The other endings of a step of parse_json.
LEMMA RespondEffect ==
  ASSUME CommsTypeOK, NEW ok \in BOOLEAN, Respond(ok)
  PROVE  /\ parser' \in ParserStates /\ parser'.pc = "signal"
         /\ parser'.id = parser.id /\ parser'.cmd = parser.cmd
         /\ send_message' = [id |-> parser.id, name |-> parser.cmd.name, ok |-> ok]
         /\ send_message' \in Messages
         /\ UNCHANGED <<signal, sender, published>>
<1>1. send_message' \in Messages
  BY ParserType DEF Respond, Messages
<1> QED BY <1>1 DEF Respond, CommsTypeOK, ParserStates

LEMMA NoResponseEffect ==
  ASSUME CommsTypeOK, NoResponse
  PROVE  /\ parser' \in ParserStates /\ parser'.pc = "pop"
         /\ parser'.id = parser.id /\ parser'.cmd = parser.cmd
         /\ UNCHANGED responseVars
BY DEF NoResponse, CommsTypeOK, ParserStates

\* What the steps of parse_json have in common: the command stays, the queue
\* is left alone, and a response, if any, is about this command and reports
\* success only at the end.
LEMMA WorkEffect ==
  ASSUME WarpTypeOK, CommsTypeOK, StepInRange, Work
  PROVE  /\ parser.pc \in {"parse", "call", "next", "success"}
         /\ parser' \in ParserStates
         /\ parser'.id = parser.id /\ parser'.cmd = parser.cmd
         /\ UNCHANGED <<queueVars, popped, updated, signal, sender, published>>
         /\ send_message' \in Messages
         /\ \/ parser'.pc \in {"call", "next", "update", "pop"} /\ UNCHANGED send_message
            \/ /\ parser'.pc = "signal"
               /\ \E ok \in BOOLEAN :
                    /\ send_message' = [id |-> parser.id, name |-> parser.cmd.name, ok |-> ok]
                    /\ (ok /\ parser.cmd.name # "test") => parser.pc = "success"
<1> DEFINE Goal ==
         /\ parser' \in ParserStates
         /\ parser'.id = parser.id /\ parser'.cmd = parser.cmd
         /\ UNCHANGED <<signal, sender, published>>
         /\ send_message' \in Messages
         /\ \/ parser'.pc \in {"call", "next", "update", "pop"} /\ UNCHANGED send_message
            \/ /\ parser'.pc = "signal"
               /\ \E ok \in BOOLEAN :
                    /\ send_message' = [id |-> parser.id, name |-> parser.cmd.name, ok |-> ok]
                    /\ (ok /\ parser.cmd.name # "test") => parser.pc = "success"
<1>a. send_message \in Messages
  BY DEF CommsTypeOK
<1>b. UNCHANGED responseVars => UNCHANGED <<signal, sender, published, send_message>>
  BY DEF responseVars
<1>1. ASSUME Fail PROVE Goal
  <2>1. CASE Respond(FALSE)
    BY <2>1, RespondEffect
  <2>2. CASE NoResponse
    BY <2>2, NoResponseEffect, <1>a, <1>b
  <2> QED BY <1>1, <2>1, <2>2 DEF Fail
<1>2. ASSUME SendRequest, parser.step < Len(Steps[parser.cmd.name]) PROVE Goal
  BY <1>2, SendRequestEffect, <1>a, <1>b
<1>3. CASE ParseJson
  <2>1. parser.pc = "parse" /\ UNCHANGED <<queueVars, popped, updated>>
    BY <1>3 DEF ParseJson
  <2>2. parser.step = 0
    BY <2>1 DEF StepInRange
  <2>3. ASSUME parser.cmd.name = "test", Respond(TRUE) PROVE Goal
    BY <2>3, RespondEffect
  <2>4. ASSUME NoResponse PROVE Goal
    BY <2>4, NoResponseEffect, <1>a, <1>b
  <2>5. ASSUME Steps[parser.cmd.name] # <<>>, SendRequest PROVE Goal
    <3>1. parser.step < Len(Steps[parser.cmd.name])
      BY <2>2, <2>5, StepsFacts, ParserType
    <3> QED BY <3>1, <2>5, <1>2
  <2>6. Goal
    BY <1>3, <2>3, <2>4, <2>5, <1>1 DEF ParseJson
  <2> QED BY <2>1, <2>6
<1>4. CASE HandleReply
  <2>1. parser.pc = "call" /\ UNCHANGED <<queueVars, popped, updated>>
    BY <1>4 DEF HandleReply
  <2>2. CASE Fail
    BY <2>2, <1>1, <2>1
  <2>3. CASE ~Fail
    <3>1. UNCHANGED responseVars
      BY <1>4, <2>3 DEF HandleReply
    <3>2. /\ parser' \in ParserStates /\ parser'.pc \in {"next", "update"}
          /\ parser'.id = parser.id /\ parser'.cmd = parser.cmd
      BY <1>4, <2>3 DEF HandleReply, CommsTypeOK, ParserStates
    <3> QED BY <2>1, <3>1, <3>2, <1>a, <1>b
  <2> QED BY <2>2, <2>3
<1>5. CASE NextRequest
  <2>1. parser.pc = "next" /\ UNCHANGED <<queueVars, popped, updated>>
    BY <1>5 DEF NextRequest
  <2>2. parser.step < Len(Steps[parser.cmd.name])
    BY <2>1, ParserType, StepsFacts DEF StepInRange
  <2> QED BY <1>5, <2>1, <2>2, <1>1, <1>2 DEF NextRequest
<1>6. CASE Succeed
  <2>1. parser.pc = "success" /\ UNCHANGED <<queueVars, popped, updated>>
    BY <1>6 DEF Succeed
  <2>2. CASE Respond(TRUE)
    BY <2>1, <2>2, RespondEffect
  <2>3. CASE NoResponse
    BY <2>1, <2>3, NoResponseEffect, <1>a, <1>b
  <2> QED BY <1>6, <2>2, <2>3 DEF Succeed
<1> QED BY <1>3, <1>4, <1>5, <1>6 DEF Work

\* The steps of parse_loop that only change the thread's place in the code.
LEMMA ParserMoves ==
  ASSUME CommsTypeOK, AwaitCommand \/ CheckSize \/ UpdateBssids \/ PostSignal \/ Pop
  PROVE  /\ parser' \in ParserStates
         /\ parser'.id = parser.id /\ parser'.cmd = parser.cmd
         /\ parser'.step = parser.step /\ parser'.sent = parser.sent
         /\ AwaitCommand => parser.pc = "wait" /\ parser'.pc = "size"
         /\ CheckSize => parser.pc = "size" /\ parser'.pc \in {"front", "wait"}
         /\ UpdateBssids => parser.pc = "update" /\ parser'.pc = "success"
         /\ PostSignal => parser.pc = "signal" /\ parser'.pc = "pop"
         /\ Pop => parser.pc = "pop" /\ parser'.pc = "size"
<1>1. CASE AwaitCommand
  BY <1>1 DEF AwaitCommand, CommsTypeOK, ParserStates, CheckSize, UpdateBssids, PostSignal, Pop
<1>2. CASE CheckSize
  BY <1>2 DEF AwaitCommand, CommsTypeOK, ParserStates, CheckSize, UpdateBssids, PostSignal, Pop
<1>3. CASE UpdateBssids
  BY <1>3 DEF AwaitCommand, CommsTypeOK, ParserStates, CheckSize, UpdateBssids, PostSignal, Pop
<1>4. CASE PostSignal
  BY <1>4 DEF AwaitCommand, CommsTypeOK, ParserStates, CheckSize, UpdateBssids, PostSignal, Pop
<1>5. CASE Pop
  BY <1>5 DEF AwaitCommand, CommsTypeOK, ParserStates, CheckSize, UpdateBssids, PostSignal, Pop
<1> QED BY <1>1, <1>2, <1>3, <1>4, <1>5

\* front() hands out the command at the front of the queue.
LEMMA TakeFrontEffect ==
  ASSUME CommsTypeOK, FrontComing, TakeFront, CommsAssumption
  PROVE  /\ parser.pc = "front" /\ parser'.pc = "parse" /\ command_queue # <<>>
         /\ parser' \in ParserStates
         /\ parser'.id = Head(command_queue).id /\ parser'.cmd = Head(command_queue).cmd
         /\ parser'.step = 0 /\ parser'.sent = {}
         /\ UNCHANGED <<queueVars, responseVars, popped, updated>>
<1>1. command_queue # <<>> /\ command_queue \in Seq(Queued)
  BY DEF FrontComing, TakeFront, CommsAssumption, CommsTypeOK
<1>2. Head(command_queue) \in Queued
  BY <1>1
<1>3. Head(command_queue).id \in Nat /\ Head(command_queue).cmd \in Commands
  BY <1>2 DEF Queued
<1> QED BY <1>1, <1>3 DEF TakeFront, ParserStates

\* Every step is a step of the control channel, or leaves it alone.
LEMMA ChannelStep ==
  ASSUME WarpTypeOK, CommsTypeOK, StepInRange, [Next]_vars
  PROVE  [WarpNext]_warpVars
<1>1. CASE ParseJson
  <2>1. parser.step = 0
    BY <1>1 DEF ParseJson, StepInRange
  <2>2. CASE Steps[parser.cmd.name] # <<>> /\ SendRequest
    <3>1. parser.step < Len(Steps[parser.cmd.name])
      BY <2>1, <2>2, StepsFacts, ParserType
    <3> QED BY <3>1, <2>2, SendRequestEffect DEF WarpNext, Caller
  <2> QED BY <1>1, <2>2 DEF ParseJson
<1>2. CASE NextRequest
  <2>1. parser.step < Len(Steps[parser.cmd.name])
    BY <1>2, ParserType, StepsFacts DEF StepInRange, NextRequest
  <2>2. CASE SendRequest
    BY <2>1, <2>2, SendRequestEffect DEF WarpNext, Caller
  <2> QED BY <1>2, <2>2 DEF NextRequest
<1>3. CASE HandleReply \/ AwaitReply
  BY <1>3 DEF HandleReply, AwaitReply, WarpNext, Caller
<1>4. CASE Surroundings
  BY <1>4 DEF WarpNext
<1>5. CASE UNCHANGED vars
  BY <1>5 DEF vars
<1>6. CASE Produce \/ Send
  BY <1>6 DEF Produce, Send, PushBegin, PushEnd, PostCommand
<1>7. CASE AwaitCommand \/ CheckSize \/ TakeFront \/ UpdateBssids \/ Succeed
           \/ PostSignal \/ Pop
  BY <1>7 DEF AwaitCommand, CheckSize, TakeFront, UpdateBssids, Succeed, PostSignal, Pop
<1> QED BY <1>1, <1>2, <1>3, <1>4, <1>5, <1>6, <1>7 DEF Next, Parse

-----------------------------------------------------------------------------
\* Types.
LEMMA CommsTypeStep ==
  ASSUME WarpTypeOK, CommsInv, [Next]_vars
  PROVE  CommsTypeOK'
<1> USE CommsAssumption
<1>a. CommsTypeOK /\ LockHolder /\ FrontComing /\ StepInRange /\ CommandsInOrder
  BY DEF CommsInv
<1>1. ASSUME NEW p \in Producers, PushBegin(p) PROVE CommsTypeOK'
  <2>1. PICK c \in Inputs[p] : producer' = [producer EXCEPT ![p] = [pc |-> "pushing", cmd |-> c]]
    BY <1>1 DEF PushBegin
  <2>2. c \in Commands
    BY <2>1 DEF CommsAssumption
  <2>3. [pc |-> "pushing", cmd |-> c] \in ProducerStates
    BY <2>2 DEF ProducerStates
  <2>4. producer' \in [Producers -> ProducerStates]
    BY <2>1, <2>3, <1>a DEF CommsTypeOK
  <2> QED BY <1>1, <2>4, <1>a DEF PushBegin, CommsTypeOK, responseVars
<1>2. ASSUME NEW p \in Producers, PushEnd(p) PROVE CommsTypeOK'
  <2>1. producer[p] \in ProducerStates /\ producer[p].pc = "pushing"
    BY <1>2, <1>a DEF PushEnd, CommsTypeOK
  <2>2. producer[p].cmd \in Commands /\ [producer[p] EXCEPT !.pc = "posting"] \in ProducerStates
    BY <2>1 DEF ProducerStates
  <2>3. producer' \in [Producers -> ProducerStates]
    BY <1>2, <2>2, <1>a DEF PushEnd, CommsTypeOK
  <2>4. pushed < MaxCommands /\ pushed \in 0..MaxCommands
    BY <2>1, <1>a DEF LockHolder, CommsAssumption, CommsTypeOK
  <2>5. pushed' \in 0..MaxCommands /\ pushed + 1 \in Nat
    BY <1>2, <2>4 DEF PushEnd, CommsAssumption
  <2>6. [id |-> pushed + 1, cmd |-> producer[p].cmd] \in Queued
    BY <2>2, <2>5 DEF Queued
  <2>7. command_queue' \in Seq(Queued)
    BY <1>2, <2>6, <1>a DEF PushEnd, CommsTypeOK
  <2> QED BY <1>2, <2>3, <2>5, <2>7, <1>a DEF PushEnd, CommsTypeOK, responseVars
<1>3. ASSUME NEW p \in Producers, PostCommand(p) PROVE CommsTypeOK'
  <2>1. producer[p] \in ProducerStates
    BY <1>a DEF CommsTypeOK
  <2>2. [producer[p] EXCEPT !.pc = "idle"] \in ProducerStates
    BY <2>1 DEF ProducerStates
  <2>3. producer' \in [Producers -> ProducerStates]
    BY <1>3, <2>2, <1>a DEF PostCommand, CommsTypeOK
  <2> QED BY <1>3, <2>3, <1>a DEF PostCommand, CommsTypeOK, responseVars
<1>4. CASE AwaitCommand \/ CheckSize
  <2>1. parser' \in ParserStates
    BY <1>4, <1>a, ParserMoves
  <2> QED BY <1>4, <2>1, <1>a DEF AwaitCommand, CheckSize, CommsTypeOK, responseVars, queueVars
<1>5. CASE TakeFront
  BY <1>5, <1>a, TakeFrontEffect DEF CommsTypeOK, responseVars, queueVars
<1>6. CASE Work
  BY <1>6, <1>a, WorkEffect DEF CommsTypeOK, queueVars
<1>7. CASE UpdateBssids
  <2>1. parser' \in ParserStates
    BY <1>7, <1>a, ParserMoves
  <2>2. [id |-> parser.id, sent |-> parser.sent] \in [id : Nat, sent : SUBSET Nat]
    BY <1>a, ParserType
  <2> QED BY <1>7, <2>1, <2>2, <1>a DEF UpdateBssids, CommsTypeOK, responseVars, queueVars
<1>8. CASE PostSignal
  <2>1. parser' \in ParserStates
    BY <1>8, <1>a, ParserMoves
  <2> QED BY <1>8, <2>1, <1>a DEF PostSignal, CommsTypeOK, queueVars
<1>9. CASE Pop
  <2>1. parser' \in ParserStates
    BY <1>9, <1>a, ParserMoves
  <2>2. command_queue # <<>>
    BY <1>9, <1>a DEF Pop, CommandsInOrder, Busy
  <2>3. command_queue' \in Seq(Queued)
    BY <1>9, <2>2, <1>a DEF Pop, CommsTypeOK
  <2> QED BY <1>9, <2>1, <2>3, <1>a DEF Pop, CommsTypeOK, responseVars
<1>10. CASE Send
  <2>1. CASE AwaitSignal \/ ShowMessage
    BY <1>10, <2>1, <1>a DEF Send, AwaitSignal, ShowMessage, CommsTypeOK, queueVars
  <2>2. CASE Publish
    <3>1. published' \in Seq(Messages)
      BY <2>2, <1>a DEF Publish, CommsTypeOK
    <3> QED BY <1>10, <2>2, <3>1, <1>a DEF Send, Publish, CommsTypeOK, queueVars
  <2> QED BY <1>10, <2>1, <2>2 DEF Send
<1>11. CASE UNCHANGED commsVars
  BY <1>11, <1>a DEF commsVars, queueVars, responseVars, CommsTypeOK
<1> QED
  BY <1>1, <1>2, <1>3, <1>4, <1>5, <1>6, <1>7, <1>8, <1>9, <1>10, <1>11
     DEF Next, Produce, Parse, Work, AwaitReply, vars

\* The lock, and parse_loop's sight of the queue.
LEMMA QueueStep ==
  ASSUME WarpTypeOK, CommsInv, CommsTypeOK', [Next]_vars
  PROVE  LockHolder' /\ FrontComing' /\ NoLostWakeup'
<1> USE CommsAssumption
<1>a. /\ CommsTypeOK /\ LockHolder /\ FrontComing /\ StepInRange /\ CommandsInOrder
      /\ NoLostWakeup
  BY DEF CommsInv
<1>b. /\ producer \in [Producers -> ProducerStates] /\ new_command \in Nat
      /\ command_queue \in Seq(Queued) /\ pushed \in Nat
      /\ "nobody" \notin Producers
      /\ command_queue_lock \in Producers \cup {"nobody"}
  BY <1>a DEF CommsTypeOK, CommsAssumption
<1>1. ASSUME NEW p \in Producers, PushBegin(p)
      PROVE  LockHolder' /\ FrontComing' /\ NoLostWakeup'
  <2>1. /\ producer'[p].pc = "pushing" /\ \A q \in Producers \ {p} : producer'[q] = producer[q]
        /\ command_queue_lock = "nobody" /\ command_queue_lock' = p /\ pushed < MaxCommands
        /\ UNCHANGED <<pushed, parser>>
    BY <1>1, <1>b DEF PushBegin
  <2> QED BY <2>1, <1>a, <1>b DEF LockHolder, FrontComing, NoLostWakeup, Announcing
<1>2. ASSUME NEW p \in Producers, PushEnd(p)
      PROVE  LockHolder' /\ FrontComing' /\ NoLostWakeup'
  <2>1. /\ producer[p].pc = "pushing" /\ producer'[p].pc = "posting"
        /\ \A q \in Producers \ {p} : producer'[q] = producer[q]
        /\ command_queue_lock' = "nobody"
        /\ UNCHANGED <<parser>>
    BY <1>2, <1>b DEF PushEnd, ProducerStates
  <2>2. command_queue' # <<>>
    BY <1>2, <1>b DEF PushEnd
  <2>3. LockHolder'
    BY <2>1, <1>a, <1>b DEF LockHolder
  <2> QED BY <2>1, <2>2, <2>3 DEF FrontComing, NoLostWakeup, Announcing
<1>3. ASSUME NEW p \in Producers, PostCommand(p)
      PROVE  LockHolder' /\ FrontComing' /\ NoLostWakeup'
  <2>1. /\ producer[p].pc = "posting" /\ producer'[p].pc = "idle"
        /\ \A q \in Producers \ {p} : producer'[q] = producer[q]
        /\ new_command' > 0
        /\ UNCHANGED <<parser, command_queue, command_queue_lock, pushed>>
    BY <1>3, <1>b DEF PostCommand, ProducerStates
  <2> QED BY <2>1, <1>a, <1>b DEF LockHolder, FrontComing, NoLostWakeup
<1>4. CASE AwaitCommand
  <2>1. parser'.pc = "size"
    BY <1>4, <1>a, ParserMoves
  <2> QED BY <1>4, <2>1, <1>a DEF AwaitCommand, LockHolder, FrontComing, NoLostWakeup
<1>5. CASE CheckSize
  <2>1. \/ parser'.pc = "front" /\ (command_queue_lock \in Producers \/ command_queue # <<>>)
        \/ parser'.pc = "wait" /\ (command_queue_lock \in Producers \/ command_queue = <<>>)
    BY <1>5, <1>a, <1>b DEF CheckSize, SizeReads, CommsTypeOK, ParserStates
  <2>2. command_queue_lock \in Producers => Announcing
    BY <1>a DEF LockHolder, Announcing
  <2>3. UNCHANGED <<command_queue, command_queue_lock, new_command, producer, pushed>>
    BY <1>5 DEF CheckSize, queueVars
  <2> QED BY <2>1, <2>2, <2>3, <1>a DEF LockHolder, FrontComing, NoLostWakeup, Announcing
<1>6. CASE TakeFront
  <2>1. parser'.pc = "parse" /\ UNCHANGED queueVars
    BY <1>6, <1>a, TakeFrontEffect
  <2> QED BY <2>1, <1>a DEF queueVars, LockHolder, FrontComing, NoLostWakeup
<1>7. CASE Work
  <2>1. parser'.pc \notin {"wait", "front"} /\ UNCHANGED queueVars
    BY <1>7, <1>a, WorkEffect
  <2> QED BY <2>1, <1>a DEF queueVars, LockHolder, FrontComing, NoLostWakeup
<1>8. CASE UpdateBssids \/ PostSignal
  <2>1. parser'.pc \notin {"wait", "front"} /\ UNCHANGED queueVars
    BY <1>8, <1>a, ParserMoves DEF UpdateBssids, PostSignal
  <2> QED BY <2>1, <1>a DEF queueVars, LockHolder, FrontComing, NoLostWakeup
<1>9. CASE Pop
  <2>1. parser'.pc = "size" /\ UNCHANGED <<command_queue_lock, producer, pushed>>
    BY <1>9, <1>a, ParserMoves DEF Pop
  <2> QED BY <2>1, <1>a DEF LockHolder, FrontComing, NoLostWakeup
<1>10. CASE Send \/ UNCHANGED commsVars
  <2>1. UNCHANGED <<queueVars, parser>>
    BY <1>10 DEF Send, commsVars
  <2> QED BY <2>1, <1>a DEF queueVars, LockHolder, FrontComing, NoLostWakeup, Announcing
<1> QED
  BY <1>1, <1>2, <1>3, <1>4, <1>5, <1>6, <1>7, <1>8, <1>9, <1>10
     DEF Next, Produce, Parse, Work, AwaitReply, vars

\* The order of the commands.
LEMMA OrderStep ==
  ASSUME WarpTypeOK, CommsInv, CommsTypeOK', [Next]_vars
  PROVE  CommandsInOrder'
<1> USE CommsAssumption
<1>a. CommsTypeOK /\ LockHolder /\ FrontComing /\ StepInRange /\ CommandsInOrder
  BY DEF CommsInv
<1>b. /\ command_queue \in Seq(Queued) /\ pushed \in Nat /\ popped \in Nat
      /\ Len(command_queue) = pushed - popped
      /\ \A i \in DOMAIN command_queue : command_queue[i].id = popped + i
  BY <1>a DEF CommsTypeOK, CommandsInOrder, CommsAssumption
<1>1. ASSUME NEW p \in Producers, PushBegin(p) \/ PostCommand(p) PROVE CommandsInOrder'
  BY <1>1, <1>a DEF PushBegin, PostCommand, CommandsInOrder
<1>2. ASSUME NEW p \in Producers, PushEnd(p) PROVE CommandsInOrder'
  <2> DEFINE e == [id |-> pushed + 1, cmd |-> producer[p].cmd]
  <2>1. /\ command_queue' = Append(command_queue, e) /\ pushed' = pushed + 1
        /\ UNCHANGED <<parser, popped>>
    BY <1>2 DEF PushEnd
  <2>2. e.id = pushed + 1
    OBVIOUS
  <2> HIDE DEF e
  <2>3. /\ Len(command_queue') = Len(command_queue) + 1
        /\ \A i \in DOMAIN command_queue' :
             \/ i \in DOMAIN command_queue /\ command_queue'[i] = command_queue[i]
             \/ i = Len(command_queue) + 1 /\ command_queue'[i] = e
        /\ command_queue' # <<>>
        /\ command_queue # <<>> => Head(command_queue') = Head(command_queue)
    BY <2>1, <1>b
  <2>4. \A i \in DOMAIN command_queue' : command_queue'[i].id = popped + i
    BY <2>2, <2>3, <1>b
  <2> QED BY <2>1, <2>3, <2>4, <1>a, <1>b DEF CommandsInOrder
<1>3. CASE AwaitCommand \/ CheckSize
  <2>1. /\ parser'.pc \notin Busy
        /\ UNCHANGED <<command_queue, pushed, popped>>
    BY <1>3, <1>a, ParserMoves DEF Busy, AwaitCommand, CheckSize, queueVars
  <2> QED BY <2>1, <1>a DEF CommandsInOrder
<1>4. CASE TakeFront
  BY <1>4, <1>a, TakeFrontEffect DEF CommandsInOrder, queueVars
<1>5. CASE Work \/ UpdateBssids \/ PostSignal
  <2>1. /\ parser.pc \in Busy /\ parser'.id = parser.id /\ parser'.cmd = parser.cmd
        /\ UNCHANGED <<queueVars, popped>>
    BY <1>5, <1>a, WorkEffect, ParserMoves DEF Busy, UpdateBssids, PostSignal
  <2> QED BY <2>1, <1>a DEF CommandsInOrder, queueVars
<1>6. CASE Pop
  <2>1. /\ parser'.pc = "size" /\ parser.pc = "pop"
        /\ command_queue' = Tail(command_queue) /\ popped' = popped + 1 /\ UNCHANGED pushed
    BY <1>6, <1>a, ParserMoves DEF Pop
  <2>2. command_queue # <<>>
    BY <2>1, <1>a DEF CommandsInOrder, Busy
  <2>3. /\ Len(command_queue') = Len(command_queue) - 1
        /\ \A i \in DOMAIN command_queue' : i \in Nat /\ i + 1 \in DOMAIN command_queue
                                            /\ command_queue'[i] = command_queue[i + 1]
    BY <2>1, <2>2, <1>b, TailFacts
  <2>4. \A i \in DOMAIN command_queue' : command_queue'[i].id = popped' + i
    BY <2>1, <2>3, <1>b
  <2> QED BY <2>1, <2>3, <2>4, <1>b DEF CommandsInOrder, Busy
<1>7. CASE Send \/ UNCHANGED commsVars
  BY <1>7, <1>a DEF Send, commsVars, queueVars, CommandsInOrder
<1> QED
  BY <1>1, <1>2, <1>3, <1>4, <1>5, <1>6, <1>7
     DEF Next, Produce, Parse, Work, AwaitReply, vars

\* The command in work is the one after those that are done.
LEMMA BusyId ==
  ASSUME CommsTypeOK, CommandsInOrder, parser.pc \in Busy
  PROVE  parser.id = popped + 1
<1>1. command_queue # <<>> /\ command_queue \in Seq(Queued) /\ popped \in Nat
  BY DEF CommsTypeOK, CommandsInOrder
<1>2. 1 \in DOMAIN command_queue /\ Head(command_queue) = command_queue[1]
  BY <1>1
<1> QED BY <1>1, <1>2 DEF CommandsInOrder

\* parse_json's progress.
LEMMA ProgressStep ==
  ASSUME WarpTypeOK, CommsInv, [Next]_vars
  PROVE  StepInRange'
<1> USE CommsAssumption
<1>a. CommsTypeOK /\ FrontComing /\ StepInRange
  BY DEF CommsInv
<1>b. parser.step \in 0..2 /\ Len(Steps[parser.cmd.name]) \in 0..2
  BY <1>a, ParserType, StepsFacts
<1>1. CASE ParseJson \/ NextRequest
  <2>1. CASE SendRequest
    <3>1. parser.step < Len(Steps[parser.cmd.name])
      <4>1. CASE ParseJson
        <5>1. parser.step = 0
          BY <4>1, <1>a DEF ParseJson, StepInRange
        <5>2. CASE Steps[parser.cmd.name] # <<>>
          BY <5>1, <5>2, <1>a, ParserType, StepsFacts
        <5>3. CASE Steps[parser.cmd.name] = <<>>
          <6>1. parser'.pc = "call"
            BY <2>1, <1>a DEF SendRequest, CommsTypeOK, ParserStates
          <6>2. Respond(TRUE) \/ NoResponse
            BY <4>1, <5>3 DEF ParseJson
          <6> QED BY <6>1, <6>2, <1>a, RespondEffect, NoResponseEffect
        <5> QED BY <5>2, <5>3
      <4>2. CASE NextRequest
        BY <4>2, <1>a, <1>b DEF NextRequest, StepInRange
      <4> QED BY <1>1, <4>1, <4>2
    <3> QED BY <3>1, <2>1, <1>a, SendRequestEffect DEF StepInRange
  <2>2. CASE ~SendRequest
    <3>1. parser'.pc \in {"signal", "pop"}
      BY <1>1, <2>2, <1>a, RespondEffect, NoResponseEffect DEF ParseJson, NextRequest, Fail
    <3> QED BY <3>1 DEF StepInRange
  <2> QED BY <2>1, <2>2
<1>2. CASE HandleReply
  <2>1. CASE Fail
    <3>1. parser'.pc \in {"signal", "pop"}
      BY <2>1, <1>a, RespondEffect, NoResponseEffect DEF Fail
    <3> QED BY <3>1 DEF StepInRange
  <2>2. CASE ~Fail
    <3>1. /\ parser.pc = "call"
          /\ parser'.pc = IF parser.step < Len(Steps[parser.cmd.name]) THEN "next" ELSE "update"
          /\ parser'.cmd = parser.cmd /\ parser'.step = parser.step
      BY <1>2, <2>2, <1>a DEF HandleReply, CommsTypeOK, ParserStates
    <3> QED BY <3>1, <1>a, <1>b DEF StepInRange
  <2> QED BY <2>1, <2>2
<1>3. CASE Succeed
  <2>1. parser'.pc \in {"signal", "pop"}
    BY <1>3, <1>a, RespondEffect, NoResponseEffect DEF Succeed
  <2> QED BY <2>1 DEF StepInRange
<1>4. CASE TakeFront
  BY <1>4, <1>a, TakeFrontEffect DEF StepInRange
<1>5. CASE AwaitCommand \/ CheckSize \/ UpdateBssids \/ PostSignal \/ Pop
  <2>1. parser'.pc \in {"size", "front", "wait", "success", "pop"}
    BY <1>5, <1>a, ParserMoves
  <2> QED BY <2>1 DEF StepInRange
<1>6. CASE UNCHANGED parser
  BY <1>6, <1>a DEF StepInRange
<1> QED
  BY <1>1, <1>2, <1>3, <1>4, <1>5, <1>6
     DEF Next, Produce, Parse, Send, AwaitReply, vars, commsVars, PushBegin,
         PushEnd, PostCommand

-----------------------------------------------------------------------------
\* The response slot and what is published from it.
LEMMA ResponseStep ==
  ASSUME WarpTypeOK, CommsInv, [Next]_vars
  PROVE  SlotCurrent' /\ ResponsesInOrder' /\ SlotHonest' /\ SuccessAfterUpdate'
<1> USE CommsAssumption
<1>a. /\ CommsTypeOK /\ StepInRange /\ FrontComing /\ CommandsInOrder
      /\ SlotCurrent /\ ResponsesInOrder /\ SlotHonest /\ SuccessAfterUpdate
  BY DEF CommsInv
<1>b. /\ send_message \in Messages /\ send_message.id \in Nat /\ popped \in Nat
      /\ parser.id \in Nat /\ published \in Seq(Messages) /\ signal \in Nat
      /\ \A i \in DOMAIN published : published[i].id \in Nat
  <2>1. /\ send_message \in Messages /\ popped \in Nat /\ parser.id \in Nat
        /\ published \in Seq(Messages) /\ signal \in Nat
    BY <1>a, ParserType DEF CommsTypeOK
  <2>2. \A m \in Messages : m.id \in Nat
    BY DEF Messages
  <2> QED BY <2>1, <2>2
<1>1. CASE Produce \/ AwaitCommand \/ CheckSize \/ UNCHANGED commsVars
  <2>1. /\ UNCHANGED <<send_message, signal, sender, published, popped, updated>>
        /\ UNCHANGED parser \/ parser'.pc \in {"size", "front", "wait"}
    BY <1>1, <1>a, ParserMoves DEF Produce, PushBegin, PushEnd, PostCommand,
         AwaitCommand, CheckSize, responseVars, commsVars
  <2> QED BY <2>1, <1>a DEF SlotCurrent, SlotFilled, ResponsesInOrder, SlotHonest,
                            SuccessAfterUpdate
<1>2. CASE TakeFront
  <2>1. /\ UNCHANGED <<send_message, signal, sender, published, popped, updated>>
        /\ parser'.pc = "parse"
    BY <1>2, <1>a, TakeFrontEffect DEF responseVars
  <2> QED BY <2>1, <1>a DEF SlotCurrent, SlotFilled, ResponsesInOrder, SlotHonest,
                            SuccessAfterUpdate
<1>3. CASE Work
  <2>1. UNCHANGED <<popped, updated, signal, sender, published>>
    BY <1>3, <1>a, WorkEffect
  <2>2. CASE parser'.pc # "signal"
    <3>1. UNCHANGED send_message /\ parser'.pc \in {"call", "next", "update", "pop"}
      BY <1>3, <2>2, <1>a, WorkEffect
    <3> QED BY <2>1, <3>1, <1>a DEF SlotCurrent, SlotFilled, ResponsesInOrder, SlotHonest,
                                    SuccessAfterUpdate
  <2>3. CASE parser'.pc = "signal"
    <3>1. PICK ok \in BOOLEAN :
            /\ send_message' = [id |-> parser.id, name |-> parser.cmd.name, ok |-> ok]
            /\ (ok /\ parser.cmd.name # "test") => parser.pc = "success"
      BY <1>3, <2>3, <1>a, WorkEffect
    <3>2. parser.id = popped + 1
      BY <1>3, <1>a, WorkEffect, BusyId DEF Busy
    <3>3. send_message'.id = popped + 1 /\ send_message'.ok = ok
          /\ send_message'.name = parser.cmd.name /\ send_message.id <= send_message'.id
      BY <3>1, <3>2, <1>a, <1>b DEF ResponsesInOrder
    <3>4. SlotCurrent'
      BY <3>3, <1>b DEF SlotCurrent, SlotFilled
    <3>5. ResponsesInOrder'
      <4>1. \A i \in DOMAIN published : published[i].id \in 1..send_message'.id
        BY <3>3, <1>a, <1>b DEF ResponsesInOrder
      <4> QED BY <2>1, <3>3, <4>1, <1>a, <1>b DEF ResponsesInOrder
    <3>6. SlotHonest'
      BY <2>1, <2>3, <3>1, <3>2, <3>3, <1>a DEF SlotHonest
    <3>7. SuccessAfterUpdate'
      BY <2>1, <1>a DEF SuccessAfterUpdate
    <3> QED BY <3>4, <3>5, <3>6, <3>7
  <2> QED BY <2>2, <2>3
<1>4. CASE UpdateBssids
  <2>1. /\ UNCHANGED <<send_message, signal, sender, published, popped>>
        /\ parser'.pc = "success" /\ parser'.id = parser.id
        /\ updated' = updated \cup {[id |-> parser.id, sent |-> parser.sent]}
    BY <1>4, <1>a, ParserMoves DEF UpdateBssids, responseVars
  <2>2. \E u \in updated' : u.id = parser'.id
    <3>1. [id |-> parser.id, sent |-> parser.sent] \in updated'
      BY <2>1
    <3>2. [id |-> parser.id, sent |-> parser.sent].id = parser'.id
      BY <2>1
    <3> QED BY <3>1, <3>2
  <2>3. updated \subseteq updated'
    BY <2>1
  <2> QED BY <2>1, <2>2, <2>3, <1>a DEF SlotCurrent, SlotFilled, ResponsesInOrder,
                                        SlotHonest, SuccessAfterUpdate
<1>5. CASE PostSignal
  <2>1. /\ UNCHANGED <<send_message, sender, published, popped, updated>>
        /\ parser.pc = "signal" /\ parser'.pc = "pop"
    BY <1>5, <1>a, ParserMoves DEF PostSignal
  <2> QED BY <2>1, <1>a DEF SlotCurrent, SlotFilled, ResponsesInOrder, SlotHonest,
                            SuccessAfterUpdate
<1>6. CASE Pop
  <2>1. /\ UNCHANGED <<send_message, signal, sender, published, updated>>
        /\ parser'.pc = "size" /\ popped' = popped + 1
    BY <1>6, <1>a, ParserMoves DEF Pop, responseVars
  <2> QED BY <2>1, <1>a, <1>b DEF SlotCurrent, SlotFilled, ResponsesInOrder, SlotHonest,
                                  SuccessAfterUpdate
<1>7. CASE Send
  <2>0. UNCHANGED <<parser, popped, updated>>
    BY <1>7 DEF Send
  <2>1. CASE AwaitSignal \/ ShowMessage
    BY <2>0, <2>1, <1>a, <1>b DEF AwaitSignal, ShowMessage, SlotCurrent, SlotFilled,
         ResponsesInOrder, SlotHonest, SuccessAfterUpdate
  <2>2. CASE Publish
    <3>1. /\ published' = Append(published, send_message) /\ UNCHANGED <<send_message, signal>>
          /\ send_message.id > 0
      BY <2>2, <1>a DEF Publish, SlotCurrent, SlotFilled
    <3>2. \A i \in DOMAIN published' :
             \/ i \in DOMAIN published /\ published'[i] = published[i] /\ i <= Len(published)
             \/ i = Len(published) + 1 /\ published'[i] = send_message
      BY <3>1, <1>b
    <3>3. \A i \in DOMAIN published' : published'[i].id \in 1..send_message.id
      BY <3>1, <3>2, <1>a, <1>b DEF ResponsesInOrder
    <3>4. \A i, j \in DOMAIN published' : i <= j => published'[i].id <= published'[j].id
      <4> SUFFICES ASSUME NEW i \in DOMAIN published', NEW j \in DOMAIN published', i <= j
                   PROVE  published'[i].id <= published'[j].id
        OBVIOUS
      <4>1. CASE published'[j] = send_message
        BY <4>1, <3>3, <1>b
      <4>2. CASE j \in DOMAIN published /\ published'[j] = published[j] /\ j <= Len(published)
        <5>1. i \in DOMAIN published /\ published'[i] = published[i]
          BY <4>2, <3>2, <1>b
        <5> QED BY <4>2, <5>1, <1>a DEF ResponsesInOrder
      <4> QED BY <3>2, <4>1, <4>2
    <3>5. SlotCurrent' /\ SlotHonest'
      BY <2>0, <2>2, <3>1, <1>a DEF Publish, SlotCurrent, SlotFilled, SlotHonest
    <3>6. ResponsesInOrder'
      BY <2>0, <3>1, <3>3, <3>4, <1>a DEF ResponsesInOrder
    <3>7. SuccessAfterUpdate'
      BY <2>0, <3>2, <1>a DEF SuccessAfterUpdate, SlotHonest
    <3> QED BY <3>5, <3>6, <3>7
  <2> QED BY <1>7, <2>1, <2>2 DEF Send
<1> QED
  BY <1>1, <1>2, <1>3, <1>4, <1>5, <1>6, <1>7
     DEF Next, Parse, Work, AwaitReply, vars

-----------------------------------------------------------------------------
\* Without timeouts, success is WARP's word.
LEMMA AppliedStep ==
  ASSUME WarpInv, CommsInv, [Next]_vars
  PROVE  SentApplied' /\ GroupFollowsWarp'
<1> USE CommsAssumption
<1>a. /\ CommsTypeOK /\ StepInRange /\ FrontComing /\ SentApplied /\ GroupFollowsWarp
      /\ WarpTypeOK
  BY DEF CommsInv, WarpInv
<1>b. [WarpNext]_warpVars
  BY <1>a, ChannelStep
<1>c. applied \subseteq applied' /\ timed_out \subseteq timed_out'
  BY <1>b DEF WarpNext, Caller, Surroundings, warpVars, Sync, SemWait,
         SemTimeout, ReadResponse, Return, ProcessControl, SemPost, ProcessData,
         WarpApply, WarpRefuse, WarpTransmit, LoseRequest, LoseFrame
<1>d. (UNCHANGED updated) => GroupFollowsWarp'
  BY <1>a, <1>c DEF GroupFollowsWarp
<1>e. call \in Calls /\ call.id \in Nat
  BY <1>a DEF WarpTypeOK, Calls
<1>1. CASE ParseJson \/ NextRequest
  <2>0. UNCHANGED updated
    BY <1>1 DEF ParseJson, NextRequest
  <2>1. CASE SendRequest
    <3>1. /\ parser'.pc = "call" /\ parser'.sent = parser.sent \cup {call.id + 1}
      BY <2>1, <1>a DEF SendRequest, CommsTypeOK, ParserStates
    <3>2. call'.id = call.id + 1 /\ UNCHANGED <<applied, timed_out>>
      BY <2>1, <1>e DEF SendRequest, Sync, Calls
    <3>3. timed_out = {} => parser.sent \subseteq applied
      BY <1>1, <1>a DEF ParseJson, NextRequest, StepInRange, SentApplied
    <3> QED BY <2>0, <3>1, <3>2, <3>3, <1>d DEF SentApplied
  <2>2. CASE ~SendRequest
    <3>1. parser'.pc \in {"signal", "pop"}
      BY <1>1, <2>2, <1>a, RespondEffect, NoResponseEffect DEF ParseJson, NextRequest, Fail
    <3> QED BY <2>0, <3>1, <1>d DEF SentApplied
  <2> QED BY <2>1, <2>2
<1>2. CASE HandleReply
  <2>0. /\ parser.pc = "call" /\ UNCHANGED updated /\ call.pc = "returned"
        /\ UNCHANGED <<applied, timed_out>>
    BY <1>2 DEF HandleReply, Return
  <2>1. CASE Fail
    <3>1. parser'.pc \in {"signal", "pop"}
      BY <2>1, <1>a, RespondEffect, NoResponseEffect DEF Fail
    <3> QED BY <2>0, <3>1, <1>d DEF SentApplied
  <2>2. CASE ~Fail
    <3>1. /\ CallOK /\ parser'.pc \in {"next", "update"} /\ parser'.sent = parser.sent
      BY <1>2, <2>2, <1>a DEF HandleReply, CommsTypeOK, ParserStates
    <3>2. timed_out = {} => call.id \in applied
      <4>1. timed_out = {} => Truthful(call.response)
        BY <2>0 DEF WarpInv, RepliesTruthful
      <4> QED BY <3>1, <4>1 DEF CallOK, Truthful
    <3> QED BY <2>0, <3>1, <3>2, <1>a, <1>d DEF SentApplied
  <2> QED BY <2>1, <2>2
<1>3. CASE Succeed
  <2>1. parser'.pc \in {"signal", "pop"} /\ UNCHANGED updated
    BY <1>3, <1>a, RespondEffect, NoResponseEffect DEF Succeed
  <2> QED BY <2>1, <1>d DEF SentApplied
<1>4. CASE TakeFront
  <2>1. parser'.pc = "parse" /\ UNCHANGED updated
    BY <1>4, <1>a, TakeFrontEffect
  <2> QED BY <2>1, <1>d DEF SentApplied
<1>5. CASE AwaitCommand \/ CheckSize \/ PostSignal \/ Pop
  <2>1. parser'.pc \in {"size", "front", "wait", "pop"} /\ UNCHANGED updated
    BY <1>5, <1>a, ParserMoves DEF AwaitCommand, CheckSize, PostSignal, Pop
  <2> QED BY <2>1, <1>d DEF SentApplied
<1>6. CASE UpdateBssids
  <2>1. /\ parser.pc = "update" /\ parser'.pc = "success"
        /\ updated' = updated \cup {[id |-> parser.id, sent |-> parser.sent]}
        /\ UNCHANGED <<applied, timed_out>>
    BY <1>6, <1>a, ParserMoves DEF UpdateBssids, warpVars
  <2>2. timed_out = {} => parser.sent # {} /\ parser.sent \subseteq applied
    BY <2>1, <1>a DEF SentApplied
  <2> QED BY <2>1, <2>2, <1>a DEF SentApplied, GroupFollowsWarp
<1>7. CASE UNCHANGED <<parser, updated>> /\ call'.id = call.id
  BY <1>7, <1>a, <1>c, <1>d DEF SentApplied
<1>8. CASE Produce \/ Send \/ AwaitReply \/ (Surroundings /\ UNCHANGED commsVars)
           \/ UNCHANGED vars
  <2>1. UNCHANGED <<parser, updated>>
    BY <1>8 DEF Produce, Send, AwaitReply, PushBegin, PushEnd, PostCommand, vars, commsVars
  <2>2. call'.id = call.id
    BY <1>8, <1>e DEF Produce, Send, AwaitReply, PushBegin, PushEnd, PostCommand, vars,
         warpVars, Surroundings, SemWait, SemTimeout, ReadResponse, ProcessControl, SemPost,
         ProcessData, WarpApply, WarpRefuse, WarpTransmit, LoseRequest, LoseFrame, Calls
  <2> QED BY <2>1, <2>2, <1>7
<1> QED
  BY <1>1, <1>2, <1>3, <1>4, <1>5, <1>6, <1>8 DEF Next, Parse

-----------------------------------------------------------------------------
LEMMA CommsInvInit == Init => WarpInv /\ CommsInv
<1> SUFFICES ASSUME Init PROVE WarpInv /\ CommsInv
  OBVIOUS
<1> USE CommsAssumption
<1>1. WarpInv
  BY WarpInvInit DEF Init
<1>2. SomeCommand \in Commands
  BY DEF SomeCommand, Commands, Names
<1>3. CommsTypeOK
  <2>1. /\ producer \in [Producers -> ProducerStates] /\ parser \in ParserStates
        /\ send_message \in Messages
    BY <1>2 DEF Init, ProducerStates, ParserStates, Messages, NoMessage, Names
  <2> QED BY <2>1 DEF Init, CommsTypeOK, CommsAssumption
<1>4. LockHolder /\ FrontComing /\ StepInRange /\ NoLostWakeup /\ CommandsInOrder
  BY DEF Init, LockHolder, FrontComing, StepInRange, NoLostWakeup, CommandsInOrder, Busy,
         CommsAssumption
<1>5. /\ SlotCurrent /\ ResponsesInOrder /\ SlotHonest /\ SuccessAfterUpdate
      /\ SentApplied /\ GroupFollowsWarp
  BY DEF Init, SlotCurrent, SlotFilled, ResponsesInOrder, SlotHonest, SuccessAfterUpdate,
         SentApplied, GroupFollowsWarp, NoMessage
<1> QED BY <1>1, <1>3, <1>4, <1>5 DEF CommsInv

LEMMA CommsInvStep == WarpInv /\ CommsInv /\ [Next]_vars => WarpInv' /\ CommsInv'
<1> SUFFICES ASSUME WarpInv, CommsInv, [Next]_vars PROVE WarpInv' /\ CommsInv'
  OBVIOUS
<1>1. WarpTypeOK /\ CommsTypeOK /\ StepInRange
  BY DEF WarpInv, CommsInv
<1>2. WarpInv'
  BY <1>1, ChannelStep, WarpInvStep
<1>3. CommsTypeOK'
  BY <1>1, CommsTypeStep
<1> QED BY <1>1, <1>2, <1>3, QueueStep, OrderStep, ProgressStep, ResponseStep, AppliedStep
        DEF CommsInv

\* The inductive invariant of the communications agent, with that of its
\* control channel.
THEOREM CommsInvariant == Spec => [](WarpInv /\ CommsInv)
BY CommsInvInit, CommsInvStep, PTL DEF Spec

\* Type correctness of the communications agent.
THEOREM CommsTypeCorrect == Spec => []CommsTypeOK
<1>1. CommsInv => CommsTypeOK
  BY DEF CommsInv
<1> QED BY CommsInvariant, <1>1, PTL

\* parse_loop never sleeps on a command that nobody will announce, for any
\* number of threads that queue commands.
THEOREM NoLostWakeupAlways == Spec => []NoLostWakeup
<1>1. CommsInv => NoLostWakeup
  BY DEF CommsInv
<1> QED BY CommsInvariant, <1>1, PTL

\* front() is never called on an empty queue.
THEOREM FrontDefinedAlways == Spec => []FrontDefined
<1>1. CommsInv => FrontDefined
  BY CommsAssumption DEF CommsInv, FrontComing, FrontDefined, CommsAssumption
<1> QED BY CommsInvariant, <1>1, PTL

\* Commands are carried out in order, once each.
THEOREM CommandsInOrderAlways == Spec => []CommandsInOrder
<1>1. CommsInv => CommandsInOrder
  BY DEF CommsInv
<1> QED BY CommsInvariant, <1>1, PTL

\* Responses are published in order.
THEOREM ResponsesInOrderAlways == Spec => []ResponsesInOrder
<1>1. CommsInv => ResponsesInOrder
  BY DEF CommsInv
<1> QED BY CommsInvariant, <1>1, PTL

\* Published successes are about commands that went through, and without
\* timeouts WARP has carried out every request of a command the group was
\* told of.
THEOREM SuccessIsReal == Spec => [](SuccessAfterUpdate /\ GroupFollowsWarp)
<1>1. CommsInv => SuccessAfterUpdate /\ GroupFollowsWarp
  BY DEF CommsInv
<1> QED BY CommsInvariant, <1>1, PTL

\* The communications agent uses the control channel as module
\* WarpToWlanAgent prescribes: it implements WarpSpec, and so everything
\* proved of the channel holds of it.
THEOREM CommsImplementsChannel == Spec => WarpSpec
<1>1. Init => WarpInit
  BY DEF Init
<1>2. WarpInv /\ CommsInv /\ [Next]_vars => [WarpNext]_warpVars
  BY ChannelStep DEF WarpInv, CommsInv
<1> QED BY CommsInvariant, <1>1, <1>2, PTL DEF Spec, WarpSpec
-----------------------------------------------------------------------------
(***************************************************************************)
(* The agent implements the command service.  The abstract `informed'      *)
(* turns true in UpdateBssids only, which needs one more invariant: the    *)
(* group knows of commands that are over and, from update_bssids on, of    *)
(* the one in work.                                                        *)
(***************************************************************************)
GroupToldInTurn ==
  \A u \in updated : \/ u.id <= popped
                     \/ u.id = popped + 1 /\ parser.pc \in {"success", "signal", "pop"}

\* The abstract service's `informed'.
Told == parser.pc \in Busy /\ \E u \in updated : u.id = parser.id

\* What a step of the agent does to the queue and to `informed'.
LEMMA ServiceStep ==
  ASSUME WarpInv, CommsInv, CommsInv', GroupToldInTurn, [Next]_vars
  PROVE  /\ GroupToldInTurn'
         /\ \/ /\ \E c \in [id : 1..MaxCommands, cmd : Commands] :
                    command_queue' = Append(command_queue, c)
               /\ Told' = Told
            \/ command_queue # <<>> /\ ~Told /\ Told' /\ command_queue' = command_queue
            \/ command_queue # <<>> /\ command_queue' = Tail(command_queue) /\ ~Told'
            \/ command_queue' = command_queue /\ Told' = Told
<1> USE CommsAssumption
<1> DEFINE Goal ==
         /\ GroupToldInTurn'
         /\ \/ /\ \E c \in [id : 1..MaxCommands, cmd : Commands] :
                    command_queue' = Append(command_queue, c)
               /\ Told' = Told
            \/ command_queue # <<>> /\ ~Told /\ Told' /\ command_queue' = command_queue
            \/ command_queue # <<>> /\ command_queue' = Tail(command_queue) /\ ~Told'
            \/ command_queue' = command_queue /\ Told' = Told
<1>a. /\ WarpTypeOK /\ CommsTypeOK /\ LockHolder /\ FrontComing /\ StepInRange
      /\ CommandsInOrder /\ CommsTypeOK' /\ CommandsInOrder'
  BY DEF WarpInv, CommsInv
<1>b. popped \in Nat /\ \A u \in updated : u.id \in Nat
  BY <1>a DEF CommsTypeOK
<1>c. /\ parser.pc \in Busy => parser.id = popped + 1 /\ command_queue # <<>>
      /\ parser'.pc \in Busy => parser'.id = popped' + 1
  <2>1. parser.pc \in Busy => parser.id = popped + 1
    BY <1>a, BusyId
  <2>2. parser'.pc \in Busy => parser'.id = popped' + 1
    <3>1. SUFFICES ASSUME parser'.pc \in Busy PROVE parser'.id = popped' + 1
      OBVIOUS
    <3>2. command_queue' # <<>> /\ command_queue' \in Seq(Queued) /\ popped' \in Nat
      BY <1>a, <3>1 DEF CommsTypeOK, CommandsInOrder
    <3>3. 1 \in DOMAIN command_queue' /\ Head(command_queue') = command_queue'[1]
      BY <3>2
    <3> QED BY <1>a, <3>1, <3>2, <3>3 DEF CommandsInOrder
  <2>3. parser.pc \in Busy => command_queue # <<>>
    BY <1>a DEF CommandsInOrder
  <2> QED BY <2>1, <2>2, <2>3
<1>1. ASSUME UNCHANGED <<parser, popped, updated>>
      PROVE  GroupToldInTurn' /\ Told' = Told
  BY <1>1 DEF GroupToldInTurn, Told
<1>2. ASSUME NEW p \in Producers, PushBegin(p) \/ PostCommand(p) PROVE Goal
  BY <1>1, <1>2 DEF PushBegin, PostCommand
<1>3. ASSUME NEW p \in Producers, PushEnd(p) PROVE Goal
  <2> DEFINE e == [id |-> pushed + 1, cmd |-> producer[p].cmd]
  <2>1. /\ producer[p].pc = "pushing" /\ command_queue' = Append(command_queue, e)
        /\ UNCHANGED <<parser, popped, updated>>
    BY <1>3 DEF PushEnd
  <2>2. command_queue_lock # "nobody" /\ pushed \in Nat
    BY <1>a, <2>1 DEF LockHolder, CommsAssumption, CommsTypeOK
  <2>3. pushed + 1 \in 1..MaxCommands
    BY <1>a, <2>2 DEF LockHolder, CommsAssumption
  <2>4. producer[p].cmd \in Commands
    BY <1>a DEF CommsTypeOK, ProducerStates
  <2>5. e \in [id : 1..MaxCommands, cmd : Commands]
    BY <2>3, <2>4
  <2> QED BY <1>1, <2>1, <2>5
<1>4. CASE AwaitCommand \/ CheckSize
  <2>1. /\ parser'.pc \notin Busy /\ parser.pc \notin Busy
        /\ UNCHANGED <<command_queue, popped, updated>>
    BY <1>4, <1>a, ParserMoves DEF Busy, AwaitCommand, CheckSize, queueVars
  <2> QED BY <2>1 DEF GroupToldInTurn, Told, Busy
<1>5. CASE TakeFront
  <2>1. /\ parser.pc = "front" /\ parser'.pc = "parse"
        /\ UNCHANGED <<command_queue, popped, updated>>
    BY <1>5, <1>a, TakeFrontEffect DEF queueVars
  <2>2. parser'.id = popped + 1 /\ parser.pc \notin Busy
    BY <1>c, <2>1 DEF Busy
  <2>3. \A u \in updated : u.id <= popped
    BY <2>1 DEF GroupToldInTurn
  <2>4. Told' = Told
    <3>1. \A u \in updated : u.id # popped + 1
      BY <1>b, <2>3
    <3> QED BY <2>1, <2>2, <3>1 DEF Told
  <2> QED BY <2>1, <2>3, <2>4 DEF GroupToldInTurn
<1>6. CASE Work
  <2>1. /\ parser.pc \in {"parse", "call", "next", "success"} /\ parser'.id = parser.id
        /\ parser'.pc \in {"call", "next", "update", "pop", "signal"}
        /\ UNCHANGED <<command_queue, popped, updated>>
    BY <1>6, <1>a, WorkEffect DEF queueVars
  <2>2. Told' = Told
    BY <2>1 DEF Told, Busy
  <2>3. GroupToldInTurn'
    <3>1. parser.pc = "success" => parser'.pc \in {"pop", "signal"}
      BY <1>6, <2>1, <1>a, RespondEffect, NoResponseEffect DEF Work, ParseJson, HandleReply, NextRequest, Succeed
    <3> QED BY <2>1, <3>1 DEF GroupToldInTurn
  <2> QED BY <2>1, <2>2, <2>3
<1>7. CASE UpdateBssids
  <2> DEFINE w == [id |-> parser.id, sent |-> parser.sent]
  <2>1. /\ parser.pc = "update" /\ parser'.pc = "success" /\ parser'.id = parser.id
        /\ updated' = updated \cup {w}
        /\ UNCHANGED <<command_queue, popped>>
    BY <1>7, <1>a, ParserMoves DEF UpdateBssids, queueVars
  <2>2. w.id = parser.id
    OBVIOUS
  <2> HIDE DEF w
  <2>3. parser.id = popped + 1 /\ command_queue # <<>>
    BY <1>c, <2>1 DEF Busy
  <2>4. \A u \in updated : u.id <= popped
    BY <2>1 DEF GroupToldInTurn
  <2>5. ~Told
    BY <1>b, <2>3, <2>4 DEF Told
  <2>6. Told'
    BY <2>1, <2>2 DEF Told, Busy
  <2>7. GroupToldInTurn'
    BY <2>1, <2>2, <2>3, <2>4 DEF GroupToldInTurn
  <2> QED BY <2>1, <2>3, <2>5, <2>6, <2>7
<1>8. CASE PostSignal
  <2>1. /\ parser.pc = "signal" /\ parser'.pc = "pop" /\ parser'.id = parser.id
        /\ UNCHANGED <<command_queue, popped, updated>>
    BY <1>8, <1>a, ParserMoves DEF PostSignal, queueVars
  <2> QED BY <2>1 DEF GroupToldInTurn, Told, Busy
<1>9. CASE Pop
  <2>1. /\ parser.pc = "pop" /\ parser'.pc = "size"
        /\ command_queue' = Tail(command_queue) /\ popped' = popped + 1
        /\ UNCHANGED updated
    BY <1>9, <1>a, ParserMoves DEF Pop
  <2>2. GroupToldInTurn'
    BY <1>b, <2>1 DEF GroupToldInTurn
  <2>3. ~Told' /\ command_queue # <<>>
    BY <1>c, <2>1 DEF Told, Busy
  <2> QED BY <2>1, <2>2, <2>3
<1>10. CASE Send \/ UNCHANGED commsVars
  <2>1. UNCHANGED <<command_queue, parser, popped, updated>>
    BY <1>10 DEF Send, commsVars, queueVars
  <2> QED BY <1>1, <2>1
<1> QED
  BY <1>2, <1>3, <1>4, <1>5, <1>6, <1>7, <1>8, <1>9, <1>10
     DEF Next, Produce, Parse, Work, AwaitReply, vars

\* The group is told of the commands in turn: of each at most once, and of
\* none before the one ahead of it is over.
THEOREM GroupAlwaysToldInTurn == Spec => []GroupToldInTurn
<1>1. Init => GroupToldInTurn
  BY DEF Init, GroupToldInTurn
<1>2. /\ WarpInv /\ CommsInv /\ (WarpInv /\ CommsInv)' /\ GroupToldInTurn /\ [Next]_vars
      => GroupToldInTurn'
  BY ServiceStep
<1> QED BY CommsInvariant, <1>1, <1>2, PTL DEF Spec

\* The communications agent implements the abstract command service: with all
\* its threads, locks, timeouts and early returns it removes the front of
\* command_queue and nothing else, and calls update_bssids at most once for a
\* command, before that command is popped.
THEOREM CommsImplementsService == Spec => ImplementsService
<1>1. Init => Service!Init
  BY DEF Init, Service!Init, Busy
<1>2. /\ WarpInv /\ CommsInv /\ (WarpInv /\ CommsInv)' /\ GroupToldInTurn /\ [Next]_vars
      => [Service!Submit \/ Service!Inform \/ Service!Finish]_(Service!serviceVars)
  BY ServiceStep DEF Service!Submit, Service!Inform, Service!Finish, Service!serviceVars, Told
<1> QED
  BY CommsInvariant, GroupAlwaysToldInTurn, <1>1, <1>2, PTL
     DEF Spec, ImplementsService, Service!Spec
=============================================================================
