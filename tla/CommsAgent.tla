------------------------------ MODULE CommsAgent ------------------------------
(***************************************************************************)
(* The communications agent (relay_agent_module/comms_agent.cpp): the      *)
(* thread that receives commands from the Aurora manager (recv_loop), the  *)
(* one that carries them out (parse_loop with parse_json), the one that    *)
(* publishes responses (send_loop), and the datapath manager's thread,     *)
(* which queues commands through sync(COMMAND_ADD).                        *)
(*                                                                         *)
(* Commands pass through command_queue, guarded by command_queue_lock and  *)
(* announced by the semaphore new_command.  parse_loop takes one token,    *)
(* then empties the queue; it looks at the queue's size WITHOUT the lock,  *)
(* and it leaves a command at the front of the queue while it carries it   *)
(* out.  Responses pass through the single slot send_message, announced by *)
(* the semaphore signal.                                                   *)
(*                                                                         *)
(* A command's requests to WARP go through the control channel of module   *)
(* WarpToWlanAgent, whose caller is the parsing thread.                    *)
(***************************************************************************)
EXTENDS WarpToWlanAgent

CONSTANTS Producers,     \* threads that queue commands: recv_loop, timed_check
          Inputs,        \* the commands each of them may queue
          MaxCommands    \* bound: commands queued in a behaviour

(***************************************************************************)
(* A command is what parse_json tells apart: its name, and the first thing *)
(* that is wrong with it: "head" is a field checked before anything is     *)
(* sent to WARP, "params" one of channel, hwmode, txpower and disabled,    *)
(* which radio_set checks only after WARP has added the MAC address.       *)
(* "invalid" is text that is no JSON object with a command string,         *)
(* "unknown" a command the agent does not know.                            *)
(***************************************************************************)
Names == {"test", "invalid", "unknown", "radio_set", "delete", "associate",
          "disassociate"}
Commands == [name : Names, fault : {"none", "head", "params"}]

\* The requests each command sends to WARP, in order: a branch of parse_json
\* sends one, waits for its reply, and goes on when WARP has accepted it.
RadioSetSteps == <<MacAdd, TransmissionControl>>
DeleteSteps == <<BssidClear, MacRemove>>
AssociateSteps == <<BssidAssociate>>
DisassociateSteps == <<BssidDisassociate>>

Steps == [name \in Names |->
            CASE name = "radio_set"    -> RadioSetSteps
              [] name = "delete"       -> DeleteSteps
              [] name = "associate"    -> AssociateSteps
              [] name = "disassociate" -> DisassociateSteps
              [] OTHER                 -> <<>>]

\* The commands that are answered, in success and in failure.
Answered == {"test", "radio_set", "delete"}

ASSUME CommsAssumption ==
  /\ Inputs \in [Producers -> SUBSET Commands]
  /\ MaxCommands \in Nat
  /\ MaxRequests >= 2 * MaxCommands   \* the bound never stops a command
  /\ "nobody" \notin Producers

VARIABLES
  command_queue,         \* queued commands, [id, cmd]; id is history: 1, 2, ...
  command_queue_lock,    \* the producer that holds the lock, or "nobody"
  new_command,           \* semaphore: commands announced
  producer,              \* producers: [pc, cmd]
  parser,                \* the parsing thread: [pc, id, cmd, step, sent]
  send_message,          \* the response slot: [id, name, ok]
  signal,                \* semaphore: responses announced
  sender,                \* the sending thread's place in send_loop
  pushed, popped,        \* history: commands queued and removed so far
  published,             \* history: responses published, in order
  updated                \* history: commands passed on to the bssid group,
                         \*          with the requests sent for them

queueVars == <<command_queue, command_queue_lock, new_command, producer, pushed>>
responseVars == <<send_message, signal, sender, published>>
commsVars == <<queueVars, responseVars, parser, popped, updated>>
vars == <<warpVars, commsVars>>

SomeCommand == [name |-> "test", fault |-> "none"]   \* before the first one
NoMessage == [id |-> 0, name |-> "test", ok |-> FALSE]

Init ==
  /\ WarpInit
  /\ command_queue = <<>>
  /\ command_queue_lock = "nobody"
  /\ new_command = 0
  /\ producer = [p \in Producers |-> [pc |-> "idle", cmd |-> SomeCommand]]
  /\ parser = [pc |-> "wait", id |-> 0, cmd |-> SomeCommand, step |-> 0, sent |-> {}]
  /\ send_message = NoMessage
  /\ signal = 0
  /\ sender = "wait"
  /\ pushed = 0
  /\ popped = 0
  /\ published = <<>>
  /\ updated = {}

-----------------------------------------------------------------------------
(***************************************************************************)
(* recv_loop, and CommsAgent::sync(COMMAND_ADD) in timed_check: push under *)
(* the lock, then post the semaphore.                                      *)
(***************************************************************************)

\* A command is at hand and the lock is taken; the push is under way.
PushBegin(p) ==
  /\ producer[p].pc = "idle"
  /\ command_queue_lock = "nobody"
  /\ pushed < MaxCommands
  /\ \E c \in Inputs[p] : producer' = [producer EXCEPT ![p] = [pc |-> "pushing", cmd |-> c]]
  /\ command_queue_lock' = p
  /\ UNCHANGED <<warpVars, responseVars, command_queue, new_command, pushed,
                 parser, popped, updated>>

PushEnd(p) ==
  /\ producer[p].pc = "pushing"
  /\ command_queue' = Append(command_queue, [id |-> pushed + 1, cmd |-> producer[p].cmd])
  /\ pushed' = pushed + 1
  /\ command_queue_lock' = "nobody"
  /\ producer' = [producer EXCEPT ![p].pc = "posting"]
  /\ UNCHANGED <<warpVars, responseVars, new_command, parser, popped, updated>>

\* Faulty variant: the push is not announced.
PostCommandForgotten(p) ==
  /\ producer[p].pc = "posting"
  /\ producer' = [producer EXCEPT ![p].pc = "idle"]
  /\ UNCHANGED <<warpVars, responseVars, command_queue, command_queue_lock,
                 new_command, pushed, parser, popped, updated>>

PostCommand(p) ==
  /\ producer[p].pc = "posting"
  /\ new_command' = new_command + 1
  /\ producer' = [producer EXCEPT ![p].pc = "idle"]
  /\ UNCHANGED <<warpVars, responseVars, command_queue, command_queue_lock,
                 pushed, parser, popped, updated>>

Produce == \E p \in Producers : PushBegin(p) \/ PushEnd(p) \/ PostCommand(p)

-----------------------------------------------------------------------------
(***************************************************************************)
(* parse_loop.                                                             *)
(***************************************************************************)
AwaitCommand ==
  /\ parser.pc = "wait"
  /\ new_command > 0
  /\ new_command' = new_command - 1
  /\ parser' = [parser EXCEPT !.pc = "size"]
  /\ UNCHANGED <<warpVars, responseVars, command_queue, command_queue_lock,
                 producer, pushed, popped, updated>>

\* command_queue.size() > 0, read without the lock: while a push is under way
\* the answer may be either.
SizeReads == IF command_queue_lock \in Producers THEN BOOLEAN
             ELSE {command_queue # <<>>}

CheckSize ==
  /\ parser.pc = "size"
  /\ \E nonempty \in SizeReads :
       parser' = [parser EXCEPT !.pc = IF nonempty THEN "front" ELSE "wait"]
  /\ UNCHANGED <<warpVars, queueVars, responseVars, popped, updated>>

\* front() under the lock; the command stays in the queue.
TakeFront ==
  /\ parser.pc = "front"
  /\ command_queue_lock = "nobody"
  /\ parser' = [pc |-> "parse", id |-> Head(command_queue).id,
                cmd |-> Head(command_queue).cmd, step |-> 0, sent |-> {}]
  /\ UNCHANGED <<warpVars, queueVars, responseVars, popped, updated>>

(***************************************************************************)
(* parse_json.  A command ends with a response in the slot and a post of   *)
(* signal, or without either.                                              *)
(***************************************************************************)
Respond(ok) ==
  /\ send_message' = [id |-> parser.id, name |-> parser.cmd.name, ok |-> ok]
  /\ parser' = [parser EXCEPT !.pc = "signal"]
  /\ UNCHANGED <<signal, sender, published>>

NoResponse ==
  /\ parser' = [parser EXCEPT !.pc = "pop"]
  /\ UNCHANGED responseVars

\* set_error_msg for a command that is answered; associate and disassociate
\* just give up.
Fail == IF parser.cmd.name \in Answered THEN Respond(FALSE) ELSE NoResponse

\* The next request of the command goes out.
SendRequest ==
  /\ Sync(Steps[parser.cmd.name][parser.step + 1])
  /\ parser' = [parser EXCEPT !.pc = "call", !.step = @ + 1,
                              !.sent = @ \cup {call.id + 1}]
  /\ UNCHANGED responseVars

ParseJson ==
  /\ parser.pc = "parse"
  /\ \/ /\ parser.cmd.name = "test"
        /\ Respond(TRUE)
        /\ UNCHANGED warpVars
     \/ /\ parser.cmd.name \in {"invalid", "unknown"}
        /\ NoResponse
        /\ UNCHANGED warpVars
     \/ /\ Steps[parser.cmd.name] # <<>>
        /\ parser.cmd.fault = "head"
        /\ Fail
        /\ UNCHANGED warpVars
     \/ /\ Steps[parser.cmd.name] # <<>>
        /\ parser.cmd.fault # "head"
        /\ SendRequest
  /\ UNCHANGED <<queueVars, popped, updated>>

\* Faulty variant: the reply is not waited for.
AwaitReplySkipped ==
  /\ parser.pc = "call"
  /\ call.pc = "waiting"
  /\ call' = [call EXCEPT !.pc = "returned", !.return_code = 0]
  /\ UNCHANGED <<control_sync, response_packet_type, sniffer, to_warp,
                 from_warp, timed_out, applied, stored>>
  /\ UNCHANGED commsVars

\* Inside timed_sync.
AwaitReply ==
  /\ parser.pc = "call"
  /\ SemWait \/ SemTimeout \/ ReadResponse
  /\ UNCHANGED commsVars

\* Faulty variant: the response code is not looked at.
HandleReplyUnchecked ==
  /\ parser.pc = "call"
  /\ Return
  /\ \/ /\ call.return_code = -1
        /\ Fail
     \/ /\ call.return_code # -1
        /\ parser' = [parser EXCEPT !.pc =
                        IF parser.step < Len(Steps[parser.cmd.name])
                        THEN "next" ELSE "update"]
        /\ UNCHANGED responseVars
  /\ UNCHANGED <<queueVars, popped, updated>>

\* timed_sync has returned; its result decides how parse_json goes on.
HandleReply ==
  /\ parser.pc = "call"
  /\ Return
  /\ \/ /\ ~CallOK
        /\ Fail
     \/ /\ CallOK
        /\ parser' = [parser EXCEPT !.pc =
                        IF parser.step < Len(Steps[parser.cmd.name])
                        THEN "next" ELSE "update"]
        /\ UNCHANGED responseVars
  /\ UNCHANGED <<queueVars, popped, updated>>

\* radio_set checks the remaining parameters, then the second request goes out.
NextRequest ==
  /\ parser.pc = "next"
  /\ \/ /\ parser.cmd.fault = "params" /\ parser.cmd.name = "radio_set"
        /\ Fail
        /\ UNCHANGED warpVars
     \/ /\ ~(parser.cmd.fault = "params" /\ parser.cmd.name = "radio_set")
        /\ SendRequest
  /\ UNCHANGED <<queueVars, popped, updated>>

\* update_bssids: every node of the group is told.
UpdateBssids ==
  /\ parser.pc = "update"
  /\ updated' = updated \cup {[id |-> parser.id, sent |-> parser.sent]}
  /\ parser' = [parser EXCEPT !.pc = "success"]
  /\ UNCHANGED <<warpVars, queueVars, responseVars, popped>>

\* The end of parse_json: set_success_msg for a command that is answered.
Succeed ==
  /\ parser.pc = "success"
  /\ IF parser.cmd.name \in Answered THEN Respond(TRUE) ELSE NoResponse
  /\ UNCHANGED <<warpVars, queueVars, popped, updated>>

\* Faulty variant: the response is not announced.
PostSignalForgotten ==
  /\ parser.pc = "signal"
  /\ parser' = [parser EXCEPT !.pc = "pop"]
  /\ UNCHANGED <<warpVars, queueVars, responseVars, popped, updated>>

PostSignal ==
  /\ parser.pc = "signal"
  /\ signal' = signal + 1
  /\ parser' = [parser EXCEPT !.pc = "pop"]
  /\ UNCHANGED <<warpVars, queueVars, send_message, sender, published, popped, updated>>

\* Faulty variant: the newest command is removed.
PopNewest ==
  /\ parser.pc = "pop"
  /\ command_queue_lock = "nobody"
  /\ command_queue' = SubSeq(command_queue, 1, Len(command_queue) - 1)
  /\ popped' = popped + 1
  /\ parser' = [parser EXCEPT !.pc = "size"]
  /\ UNCHANGED <<warpVars, responseVars, command_queue_lock, new_command,
                 producer, pushed, updated>>

\* pop() under the lock, and back to the loop's condition.
Pop ==
  /\ parser.pc = "pop"
  /\ command_queue_lock = "nobody"
  /\ command_queue' = Tail(command_queue)
  /\ popped' = popped + 1
  /\ parser' = [parser EXCEPT !.pc = "size"]
  /\ UNCHANGED <<warpVars, responseVars, command_queue_lock, new_command,
                 producer, pushed, updated>>

Parse == \/ AwaitCommand \/ CheckSize \/ TakeFront \/ ParseJson \/ AwaitReply
         \/ HandleReply \/ NextRequest \/ UpdateBssids \/ Succeed \/ PostSignal
         \/ Pop

-----------------------------------------------------------------------------
(***************************************************************************)
(* send_loop.                                                              *)
(***************************************************************************)
AwaitSignal ==
  /\ sender = "wait"
  /\ signal > 0
  /\ signal' = signal - 1
  /\ sender' = "show"
  /\ UNCHANGED <<send_message, published>>

\* The slot's string is written to the console, without message_lock.
ShowMessage ==
  /\ sender = "show"
  /\ sender' = "send"
  /\ UNCHANGED <<send_message, signal, published>>

\* Faulty variant: a publication may go ahead of an earlier one.
PublishFirst ==
  /\ sender = "send"
  /\ published' = <<send_message>> \o published
  /\ sender' = "wait"
  /\ UNCHANGED <<send_message, signal>>

\* Under message_lock the slot is copied and published; it is not emptied.
Publish ==
  /\ sender = "send"
  /\ published' = Append(published, send_message)
  /\ sender' = "wait"
  /\ UNCHANGED <<send_message, signal>>

Send == /\ AwaitSignal \/ ShowMessage \/ Publish
        /\ UNCHANGED <<warpVars, queueVars, parser, popped, updated>>

-----------------------------------------------------------------------------
Next == \/ Produce \/ Parse \/ Send
        \/ Surroundings /\ UNCHANGED commsVars

\* Every thread of the agent goes on when it can: a push that has begun ends,
\* the parsing and the sending thread run, and a wait in timed_sync ends by
\* a reply or by its deadline.  Nothing is assumed of the manager, of WARP
\* or of the network.
Fairness ==
  /\ \A p \in Producers : WF_vars(PushEnd(p) \/ PostCommand(p))
  /\ WF_vars(Parse)
  /\ WF_vars(Send)

Spec == Init /\ [][Next]_vars

FairSpec == Spec /\ Fairness

-----------------------------------------------------------------------------
ProducerStates == [pc : {"idle", "pushing", "posting"}, cmd : Commands]
ParserStates == [pc : {"wait", "size", "front", "parse", "call", "next",
                       "update", "success", "signal", "pop"},
                 id : Nat, cmd : Commands, step : 0..2, sent : SUBSET Nat]
Busy == {"parse", "call", "next", "update", "success", "signal", "pop"}
Queued == [id : Nat, cmd : Commands]
Messages == [id : Nat, name : Names, ok : BOOLEAN]

\* Type invariant of the communications agent.
CommsTypeOK ==
  /\ command_queue \in Seq(Queued)
  /\ command_queue_lock \in Producers \cup {"nobody"}
  /\ new_command \in Nat
  /\ producer \in [Producers -> ProducerStates]
  /\ parser \in ParserStates
  /\ send_message \in Messages
  /\ signal \in Nat
  /\ sender \in {"wait", "show", "send"}
  /\ pushed \in 0..MaxCommands
  /\ popped \in Nat
  /\ published \in Seq(Messages)
  /\ updated \subseteq [id : Nat, sent : SUBSET Nat]

\* A thread has pushed or is pushing a command and has yet to post new_command.
Announcing == \E p \in Producers : producer[p].pc \in {"pushing", "posting"}

\* No lost wakeup: when parse_loop sleeps although the queue is not empty, a
\* token of new_command is there or is about to be posted.  parse_loop takes
\* one token for many commands and looks at size() without the lock, so this
\* hangs on every push being followed by a post of its own.
NoLostWakeup ==
  (parser.pc = "wait" /\ command_queue # <<>>) => (new_command > 0 \/ Announcing)

\* front() is never called on an empty queue, although size() was read without
\* the lock and perhaps in the middle of a push.
FrontDefined ==
  (parser.pc = "front" /\ command_queue_lock = "nobody") => command_queue # <<>>

\* Commands are carried out in the order in which they were queued, each one
\* once, and pop() removes the command that was carried out and no other:
\* the queue is what has been pushed and not popped, and the command in work
\* is at its front.
CommandsInOrder ==
  /\ \A i \in DOMAIN command_queue : command_queue[i].id = popped + i
  /\ Len(command_queue) = pushed - popped
  /\ parser.pc \in Busy =>
       /\ command_queue # <<>>
       /\ parser.id = Head(command_queue).id
       /\ parser.cmd = Head(command_queue).cmd

\* send_loop never reads the slot before a response has been put there (the
\* pointer is null until then).
SlotFilled == (signal > 0 \/ sender # "wait") => send_message.id > 0

\* Responses are never published out of order, and no response is published
\* before its command was carried out: the single slot may lose a response
\* or repeat one, but never brings back an older one.
ResponsesInOrder ==
  /\ \A i, j \in DOMAIN published : i <= j => published[i].id <= published[j].id
  /\ \A i \in DOMAIN published : published[i].id \in 1..send_message.id
  /\ send_message.id <= popped + 1

\* The commands passed on to the bssid group: WARP has accepted every request
\* sent for such a command, as long as no wait ever expired.
GroupFollowsWarp ==
  \A u \in updated : timed_out = {} => u.sent # {} /\ u.sent \subseteq applied

\* A success response speaks of a command that went through to the end: the
\* bssid group was updated before it was published (the test command has no
\* effect and is exempt).
SuccessAfterUpdate ==
  \A i \in DOMAIN published :
    (published[i].ok /\ published[i].name # "test")
      => \E u \in updated : u.id = published[i].id

\* Every queued command is carried out and removed in the end, whatever WARP
\* and the network do.
EveryCommandServed ==
  \A n \in 1..MaxCommands : (pushed >= n) ~> (popped >= n)

\* The latest response is published in the end: a response is dropped only in
\* favour of a later one.
LatestResponsePublished ==
  \A n \in 1..MaxCommands :
    (send_message.id = n) ~> (\E i \in DOMAIN published : published[i].id >= n)

\* Stated by comms_agent.cpp:267, "Mac address successfully added by WARP".
MacAddressAdded ==
  (parser.pc = "next" /\ parser.cmd.name = "radio_set") => call.id \in applied

\* The agent seen from outside: the queue, and whether the bssid group has been
\* told of the command that parse_json is working on.
Service == INSTANCE CommandService WITH
             Entries <- [id : 1..MaxCommands, cmd : Commands],
             queue <- command_queue,
             informed <- parser.pc \in Busy /\ \E u \in updated : u.id = parser.id

\* The agent implements the abstract command service: with all its threads,
\* locks, timeouts and early returns it removes the front of command_queue and
\* nothing else, and calls update_bssids at most once for a command, before
\* that command is popped.
ImplementsService == Service!Spec

(***************************************************************************)
(* The inductive strengthening of the invariants above.                    *)
(***************************************************************************)

\* A producer holds the lock exactly while it pushes, and it pushes only
\* below the bound.
LockHolder ==
  /\ \A p \in Producers : producer[p].pc = "pushing" <=> command_queue_lock = p
  /\ command_queue_lock # "nobody" => pushed < MaxCommands

\* parse_loop goes to front() only when there is, or will be, a command.
FrontComing == parser.pc = "front" => command_queue # <<>> \/ command_queue_lock \in Producers

\* How far parse_json has got with the command's requests.
StepInRange ==
  /\ parser.pc = "parse" => parser.step = 0 /\ parser.sent = {}
  /\ parser.pc = "call" => parser.step \in 1..Len(Steps[parser.cmd.name])
  /\ parser.pc = "next" => parser.step \in 1..(Len(Steps[parser.cmd.name]) - 1)

\* A response is in the slot when, and as long as, signal says so.
SlotCurrent ==
  /\ SlotFilled
  /\ parser.pc = "signal" => send_message.id > 0

\* A success response in the slot speaks of a command the group knows of.
SlotHonest ==
  /\ parser.pc = "success" => \E u \in updated : u.id = parser.id
  /\ (send_message.ok /\ send_message.name # "test")
       => \E u \in updated : u.id = send_message.id

\* Without timeouts WARP has carried out what parse_json has been told it has.
SentApplied ==
  timed_out = {} =>
    /\ parser.pc = "call" => call.id \in parser.sent /\ parser.sent \subseteq applied \cup {call.id}
    /\ parser.pc \in {"next", "update"} => parser.sent # {} /\ parser.sent \subseteq applied

CommsInv == /\ CommsTypeOK /\ LockHolder /\ FrontComing /\ StepInRange
            /\ NoLostWakeup /\ CommandsInOrder /\ SlotCurrent
            /\ ResponsesInOrder /\ SlotHonest /\ SuccessAfterUpdate
            /\ SentApplied /\ GroupFollowsWarp
=============================================================================
