---------------------------- MODULE WarpToWlanAgent ----------------------------
(***************************************************************************)
(* The control channel between the relay process and the WARP board        *)
(* (relay_agent_module/warp_to_wlan_agent.cpp).                            *)
(*                                                                         *)
(* A caller sends a control packet (sync) and then blocks in timed_sync    *)
(* until a reply of the packet's subtype arrives or the wait expires.  The *)
(* sniffer thread runs process() for every frame from WARP: a control      *)
(* reply stores its operation code in the ONE field response_packet_type   *)
(* and posts the semaphore of its subtype.  Replies carry no request       *)
(* number; the fields `id' and `from' below are history, and the code      *)
(* never looks at them.                                                    *)
(*                                                                         *)
(* WARP itself is external: it takes requests in order and answers each    *)
(* one at most once.  Frames may be lost and may take any time, so that a  *)
(* reply may also arrive after the wait for it has expired.                *)
(***************************************************************************)
EXTENDS Integers, Sequences, FiniteSets

CONSTANTS MaxRequests,   \* bound: control packets sent in a behaviour
          MaxFrames,     \* bound: WARP adds no data frame to this many in flight
          Leftovers      \* the bytes an uninitialised response_packet_type may hold

ASSUME BoundsAssumption == MaxRequests \in Nat /\ MaxFrames \in Nat
ASSUME LeftoversAssumption == Leftovers \subseteq 0..255

VARIABLES
  control_sync,          \* the three semaphores, by subtype
  response_packet_type,  \* [code, from]: last operation code stored, and whose reply it was
  sniffer,               \* the sniffer thread: [pc, subtype]
  call,                  \* the caller: [pc, id, req, return_code, response]
  to_warp,               \* requests on their way to WARP
  from_warp,             \* frames on their way to the agent
  timed_out,             \* history: requests whose wait expired, [id, subtype]
  applied,               \* history: requests that WARP carried out
  stored                 \* history: requests whose reply process() has stored

warpVars == <<control_sync, response_packet_type, sniffer, call, to_warp,
              from_warp, timed_out, applied, stored>>

(***************************************************************************)
(* Subtypes and operation codes, with the values of warp_protocol.h.  The  *)
(* values matter: codes of different subtypes coincide.                    *)
(***************************************************************************)
Subtypes == {"mac", "transmission", "bssid"}

MAC_ADD_CODE == 1
MAC_REMOVE_CODE == 32
TRANSMISSION_CONTROL_OPERATION_CODE == 0
TRANSMISSION_CONFIGURE_SUCCESS_CODE == 8
TRANSMISSION_CONFIGURE_FAIL_CODE == 16
BSSID_STATION_ASSOCIATE_CODE == 1
BSSID_STATION_DISASSOCIATE_CODE == 32
BSSID_STATION_CLEAR_CODE == 33
EXISTED_CODE == 65
NOT_EXISTED_CODE == 66

Codes == 0..255          \* a uint8_t

MacAdd == [subtype |-> "mac", op |-> MAC_ADD_CODE]
MacRemove == [subtype |-> "mac", op |-> MAC_REMOVE_CODE]
TransmissionControl == [subtype |-> "transmission",
                        op |-> TRANSMISSION_CONTROL_OPERATION_CODE]
BssidAssociate == [subtype |-> "bssid", op |-> BSSID_STATION_ASSOCIATE_CODE]
BssidDisassociate == [subtype |-> "bssid", op |-> BSSID_STATION_DISASSOCIATE_CODE]
BssidClear == [subtype |-> "bssid", op |-> BSSID_STATION_CLEAR_CODE]

Requests == {MacAdd, MacRemove, TransmissionControl,
             BssidAssociate, BssidDisassociate, BssidClear}

\* The replies parse_json takes as success for a request.
Accepted == [r \in Requests |->
               CASE r = MacAdd              -> {MAC_ADD_CODE}
                 [] r = MacRemove           -> {MAC_REMOVE_CODE}
                 [] r = TransmissionControl -> {TRANSMISSION_CONFIGURE_SUCCESS_CODE}
                 [] r = BssidClear          -> {BSSID_STATION_CLEAR_CODE}
                 [] r = BssidAssociate      -> {BSSID_STATION_ASSOCIATE_CODE, EXISTED_CODE}
                 [] r = BssidDisassociate   -> {BSSID_STATION_DISASSOCIATE_CODE,
                                                NOT_EXISTED_CODE}]

\* The replies with which WARP turns a request down.
Refused == [r \in Requests |->
              CASE r = MacAdd              -> {EXISTED_CODE}
                [] r = MacRemove           -> {NOT_EXISTED_CODE}
                [] r = TransmissionControl -> {TRANSMISSION_CONFIGURE_FAIL_CODE}
                [] OTHER                   -> {0}]

NoRequest == 0           \* history value: no request

\* A data frame from WARP (TYPE_TRANSMIT): process() hands its payload to a
\* monitor interface, or drops it, and touches no control state.
DataFrame == [subtype |-> "transmit", code |-> 0, from |-> NoRequest]

Packets == [id : Nat, req : Requests]

Frames == [subtype : Subtypes \cup {"transmit"}, code : Codes, from : Nat]

-----------------------------------------------------------------------------
\* The constructor leaves the three semaphores at 0; response_packet_type is
\* not initialised, so any of the leftover bytes may be
\* there.
WarpInit ==
  /\ control_sync = [s \in Subtypes |-> 0]
  /\ response_packet_type \in [code : Leftovers, from : {NoRequest}]
  /\ sniffer = [pc |-> "sniff", subtype |-> "mac"]
  /\ call = [pc |-> "idle", id |-> NoRequest, req |-> MacAdd,
             return_code |-> 0, response |-> 0]
  /\ to_warp = <<>>
  /\ from_warp = <<>>
  /\ timed_out = {}
  /\ applied = {}
  /\ stored = {}

(***************************************************************************)
(* The caller's thread.                                                    *)
(***************************************************************************)

\* sync(): the packet is handed to the sender; the caller goes on to wait.
Sync(r) ==
  /\ call.pc = "idle"
  /\ call.id < MaxRequests
  /\ call' = [call EXCEPT !.pc = "waiting", !.id = @ + 1, !.req = r]
  /\ to_warp' = Append(to_warp, [id |-> call.id + 1, req |-> r])
  /\ UNCHANGED <<control_sync, response_packet_type, sniffer, from_warp,
                 timed_out, applied, stored>>

\* Faulty variant: the token is not taken.
SemWaitKeepsToken ==
  /\ call.pc = "waiting"
  /\ control_sync[call.req.subtype] > 0
  /\ call' = [call EXCEPT !.pc = "reading", !.return_code = 0]
  /\ UNCHANGED <<control_sync, response_packet_type, sniffer, to_warp,
                 from_warp, timed_out, applied, stored>>

\* timed_sync(): sem_timedwait gets the semaphore of the request's subtype.
SemWait ==
  /\ call.pc = "waiting"
  /\ control_sync[call.req.subtype] > 0
  /\ control_sync' = [control_sync EXCEPT ![call.req.subtype] = @ - 1]
  /\ call' = [call EXCEPT !.pc = "reading", !.return_code = 0]
  /\ UNCHANGED <<response_packet_type, sniffer, to_warp, from_warp, timed_out,
                 applied, stored>>

\* timed_sync(): the deadline passes first, and sem_timedwait returns -1.
SemTimeout ==
  /\ call.pc = "waiting"
  /\ control_sync[call.req.subtype] = 0
  /\ call' = [call EXCEPT !.pc = "reading", !.return_code = -1]
  /\ timed_out' = timed_out \cup {[id |-> call.id, subtype |-> call.req.subtype]}
  /\ UNCHANGED <<control_sync, response_packet_type, sniffer, to_warp,
                 from_warp, applied, stored>>

\* timed_sync(): the shared byte is copied to *response, also on a timeout.
ReadResponse ==
  /\ call.pc = "reading"
  /\ call' = [call EXCEPT !.pc = "returned",
                          !.response = response_packet_type.code]
  /\ UNCHANGED <<control_sync, response_packet_type, sniffer, to_warp,
                 from_warp, timed_out, applied, stored>>

\* The caller's test of timed_sync's return value and of the response.
CallOK == call.return_code # -1 /\ call.response \in Accepted[call.req]

\* The caller takes the result and goes on.
Return ==
  /\ call.pc = "returned"
  /\ call' = [call EXCEPT !.pc = "idle"]
  /\ UNCHANGED <<control_sync, response_packet_type, sniffer, to_warp,
                 from_warp, timed_out, applied, stored>>

(***************************************************************************)
(* The sniffer thread: process() on the next frame.                        *)
(***************************************************************************)

\* Faulty variant: the operation code is not stored.
ProcessControlNoStore ==
  /\ sniffer.pc = "sniff"
  /\ from_warp # <<>>
  /\ Head(from_warp).subtype \in Subtypes
  /\ sniffer' = [pc |-> "post", subtype |-> Head(from_warp).subtype]
  /\ from_warp' = Tail(from_warp)
  /\ stored' = stored \cup {Head(from_warp).from}
  /\ UNCHANGED <<control_sync, response_packet_type, call, to_warp, timed_out,
                 applied>>

\* A control reply: its operation code is stored ...
ProcessControl ==
  /\ sniffer.pc = "sniff"
  /\ from_warp # <<>>
  /\ Head(from_warp).subtype \in Subtypes
  /\ response_packet_type' = [code |-> Head(from_warp).code,
                              from |-> Head(from_warp).from]
  /\ sniffer' = [pc |-> "post", subtype |-> Head(from_warp).subtype]
  /\ from_warp' = Tail(from_warp)
  /\ stored' = stored \cup {Head(from_warp).from}
  /\ UNCHANGED <<control_sync, call, to_warp, timed_out, applied>>

\* Faulty variant: every reply posts the semaphore of MAC control.
SemPostMacOnly ==
  /\ sniffer.pc = "post"
  /\ control_sync' = [control_sync EXCEPT !["mac"] = @ + 1]
  /\ sniffer' = [sniffer EXCEPT !.pc = "sniff"]
  /\ UNCHANGED <<response_packet_type, call, to_warp, from_warp, timed_out,
                 applied, stored>>

\* ... and then the semaphore of its subtype is posted.
SemPost ==
  /\ sniffer.pc = "post"
  /\ control_sync' = [control_sync EXCEPT ![sniffer.subtype] = @ + 1]
  /\ sniffer' = [sniffer EXCEPT !.pc = "sniff"]
  /\ UNCHANGED <<response_packet_type, call, to_warp, from_warp, timed_out,
                 applied, stored>>

\* Any other frame is relayed to an interface or dropped.
ProcessData ==
  /\ sniffer.pc = "sniff"
  /\ from_warp # <<>>
  /\ Head(from_warp).subtype \notin Subtypes
  /\ from_warp' = Tail(from_warp)
  /\ UNCHANGED <<control_sync, response_packet_type, sniffer, call, to_warp,
                 timed_out, applied, stored>>

(***************************************************************************)
(* WARP and the network (external).                                        *)
(***************************************************************************)
Reply(code) == Append(from_warp, [subtype |-> Head(to_warp).req.subtype,
                                  code |-> code, from |-> Head(to_warp).id])

\* WARP carries out the next request and says so.
WarpApply ==
  /\ to_warp # <<>>
  /\ \E code \in Accepted[Head(to_warp).req] : from_warp' = Reply(code)
  /\ applied' = applied \cup {Head(to_warp).id}
  /\ to_warp' = Tail(to_warp)
  /\ UNCHANGED <<control_sync, response_packet_type, sniffer, call, timed_out,
                 stored>>

\* WARP turns the next request down.
WarpRefuse ==
  /\ to_warp # <<>>
  /\ \E code \in Refused[Head(to_warp).req] : from_warp' = Reply(code)
  /\ to_warp' = Tail(to_warp)
  /\ UNCHANGED <<control_sync, response_packet_type, sniffer, call, timed_out,
                 applied, stored>>

\* WARP has a data frame for an interface.
WarpTransmit ==
  /\ Len(from_warp) < MaxFrames
  /\ from_warp' = Append(from_warp, DataFrame)
  /\ UNCHANGED <<control_sync, response_packet_type, sniffer, call, to_warp,
                 timed_out, applied, stored>>

LoseRequest ==
  /\ to_warp # <<>>
  /\ to_warp' = Tail(to_warp)
  /\ UNCHANGED <<control_sync, response_packet_type, sniffer, call, from_warp,
                 timed_out, applied, stored>>

LoseFrame ==
  /\ from_warp # <<>>
  /\ from_warp' = Tail(from_warp)
  /\ UNCHANGED <<control_sync, response_packet_type, sniffer, call, to_warp,
                 timed_out, applied, stored>>

-----------------------------------------------------------------------------
\* What goes on beside the caller.
Surroundings == \/ ProcessControl \/ SemPost \/ ProcessData
                \/ WarpApply \/ WarpRefuse \/ WarpTransmit
                \/ LoseRequest \/ LoseFrame

Caller == \/ \E r \in Requests : Sync(r)
          \/ SemWait \/ SemTimeout \/ ReadResponse \/ Return

WarpNext == Caller \/ Surroundings

WarpSpec == WarpInit /\ [][WarpNext]_warpVars

-----------------------------------------------------------------------------
Calls == [pc : {"idle", "waiting", "reading", "returned"}, id : Nat,
          req : Requests, return_code : {0, -1}, response : Codes]

\* Type invariant of the control channel: the semaphores, the shared byte
\* (uint8_t response_packet_type), the two threads and the frames in flight.
WarpTypeOK ==
  /\ control_sync \in [Subtypes -> Nat]
  /\ response_packet_type \in [code : Codes, from : Nat]
  /\ sniffer \in [pc : {"sniff", "post"}, subtype : Subtypes]
  /\ call \in Calls
  /\ call.id <= MaxRequests
  /\ to_warp \in Seq(Packets)
  /\ from_warp \in Seq(Frames)
  /\ timed_out \subseteq [id : Nat, subtype : Subtypes]
  /\ applied \subseteq Nat
  /\ stored \subseteq Nat

NoTimeout(s) == \A t \in timed_out : t.subtype # s

\* As long as no wait for a subtype has expired, a wait for that subtype that
\* ends without a timeout ends because the reply to this very request has
\* been stored: a late reply to a request of another subtype never wakes it
\* (the reason for having three semaphores).
WokenByOwnReply ==
  (call.pc \in {"reading", "returned"} /\ call.return_code = 0
     /\ NoTimeout(call.req.subtype))
    => call.id \in stored

\* As long as no wait at all has expired, what timed_sync hands back is the
\* truth about this request: parse_json sees success exactly when WARP has
\* carried the request out, although all replies share one byte and codes of
\* different subtypes coincide.
SuccessIffApplied ==
  (call.pc = "returned" /\ timed_out = {})
    => (CallOK <=> call.id \in applied)

\* A semaphore holds at most one token for every expired wait of its subtype,
\* and one more while a caller waits on it: sem_post and sem_timedwait stay
\* paired, and tokens pile up through timeouts only.
StrayTokensFromTimeouts ==
  \A s \in Subtypes :
    control_sync[s] <= Cardinality({t \in timed_out : t.subtype = s})
                       + (IF call.pc = "waiting" /\ call.req.subtype = s
                          THEN 1 ELSE 0)

(***************************************************************************)
(* The inductive strengthening of WokenByOwnReply and SuccessIffApplied:   *)
(* where the reply to a request can be.                                    *)
(***************************************************************************)

\* A request is in at most one place, and nowhere once its reply is stored.
OneReplyPerRequest ==
  /\ \A i \in DOMAIN to_warp :
       /\ to_warp[i].id \in 1..call.id
       /\ to_warp[i].id \notin stored \cup applied
       /\ to_warp[i].id = call.id => to_warp[i].req = call.req
  /\ \A i, j \in DOMAIN to_warp : to_warp[i].id = to_warp[j].id => i = j
  /\ \A i \in DOMAIN from_warp : from_warp[i].subtype \in Subtypes =>
       /\ from_warp[i].from \in 1..call.id
       /\ from_warp[i].from \notin stored
  /\ \A i, j \in DOMAIN from_warp :
       (from_warp[i].subtype \in Subtypes /\ from_warp[j].subtype \in Subtypes
          /\ from_warp[i].from = from_warp[j].from) => i = j
  /\ \A i \in DOMAIN to_warp, j \in DOMAIN from_warp :
       from_warp[j].subtype \in Subtypes => to_warp[i].id # from_warp[j].from
  /\ stored \subseteq 1..call.id
  /\ applied \subseteq 1..call.id

Pending(s) == call.pc = "waiting" /\ call.req.subtype = s

\* Without timeouts, everything under way for a subtype belongs to the caller
\* that waits for it, and its semaphore holds one token at most.
OnlyPendingTokens(s) ==
  /\ \A i \in DOMAIN to_warp :
       to_warp[i].req.subtype = s => Pending(s) /\ to_warp[i].id = call.id
  /\ \A i \in DOMAIN from_warp :
       from_warp[i].subtype = s => Pending(s) /\ from_warp[i].from = call.id
  /\ (sniffer.pc = "post" /\ sniffer.subtype = s) =>
       Pending(s) /\ call.id \in stored /\ control_sync[s] = 0
  /\ control_sync[s] > 0 =>
       Pending(s) /\ call.id \in stored /\ control_sync[s] = 1

TokensOwned == \A s \in Subtypes : NoTimeout(s) => OnlyPendingTokens(s)

\* A code says whether WARP carried out the caller's request.
Truthful(code) == code \in Accepted[call.req] <=> call.id \in applied

\* Without timeouts, every code under way, stored or returned is truthful.
RepliesTruthful ==
  /\ call.pc \in {"reading", "returned"} /\ call.return_code = -1 => timed_out # {}
  /\ timed_out = {} =>
       /\ \A i \in DOMAIN from_warp :
            from_warp[i].subtype \in Subtypes => Truthful(from_warp[i].code)
       /\ sniffer.pc = "post" => Truthful(response_packet_type.code)
       /\ \A s \in Subtypes :
            control_sync[s] > 0 => Truthful(response_packet_type.code)
       /\ call.pc = "reading" => Truthful(response_packet_type.code)
       /\ call.pc = "returned" => Truthful(call.response)

WarpInv == /\ WarpTypeOK /\ OneReplyPerRequest /\ TokensOwned
           /\ WokenByOwnReply /\ RepliesTruthful
=============================================================================
