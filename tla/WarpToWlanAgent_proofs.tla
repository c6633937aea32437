------------------------ MODULE WarpToWlanAgent_proofs ------------------------
(***************************************************************************)
(* Proofs about the control channel, for every value of the bounds.        *)
(***************************************************************************)
EXTENDS WarpToWlanAgent, FiniteSetTheorems, TLAPS

\* What the provers need to know of the codes: requests are records of a
\* subtype and a byte, and the replies to them are bytes.
LEMMA RequestFacts ==
  /\ \A r \in Requests : r.subtype \in Subtypes
  /\ \A r \in Requests : Accepted[r] \subseteq Codes
  /\ \A r \in Requests : Refused[r] \subseteq Codes
  /\ \A r \in Requests : Accepted[r] \cap Refused[r] = {}
BY DEF Requests, Subtypes, Accepted, Refused, Codes, MacAdd, MacRemove,
       TransmissionControl, BssidAssociate, BssidDisassociate, BssidClear,
       MAC_ADD_CODE, MAC_REMOVE_CODE, TRANSMISSION_CONTROL_OPERATION_CODE,
       TRANSMISSION_CONFIGURE_SUCCESS_CODE, TRANSMISSION_CONFIGURE_FAIL_CODE,
       BSSID_STATION_ASSOCIATE_CODE, BSSID_STATION_DISASSOCIATE_CODE,
       BSSID_STATION_CLEAR_CODE, EXISTED_CODE, NOT_EXISTED_CODE

-----------------------------------------------------------------------------
LEMMA WarpTypeInit == WarpInit => WarpTypeOK
<1> SUFFICES ASSUME WarpInit PROVE WarpTypeOK
  OBVIOUS
<1>1. response_packet_type \in [code : Codes, from : Nat]
  <2>1. PICK c \in Leftovers, f \in {NoRequest} :
          response_packet_type = [code |-> c, from |-> f]
    BY Zenon DEF WarpInit
  <2>2. c \in Codes /\ f \in Nat
    BY LeftoversAssumption DEF Codes, NoRequest
  <2> QED BY <2>1, <2>2, Zenon
<1> QED
  BY <1>1, BoundsAssumption
     DEF WarpInit, WarpTypeOK, Codes, Calls, NoRequest, Requests, Subtypes

\* One step per action.
LEMMA WarpTypeStep == WarpTypeOK /\ [WarpNext]_warpVars => WarpTypeOK'
<1> SUFFICES ASSUME WarpTypeOK, [WarpNext]_warpVars
             PROVE  WarpTypeOK'
  OBVIOUS
<1> USE BoundsAssumption DEF WarpTypeOK
<1>1. ASSUME NEW r \in Requests, Sync(r) PROVE WarpTypeOK'
  <2>1. /\ call' = [call EXCEPT !.pc = "waiting", !.id = @ + 1, !.req = r]
        /\ call.id + 1 \in Nat /\ call.id + 1 <= MaxRequests
    BY <1>1 DEF Sync, Calls
  <2>2. call' \in Calls /\ call'.id <= MaxRequests
    BY <2>1, Zenon DEF Calls
  <2>3. to_warp' \in Seq(Packets)
    BY <1>1 DEF Sync, Calls, Packets
  <2> QED BY <1>1, <2>2, <2>3 DEF Sync
<1>2. CASE SemWait
  <2>1. control_sync' \in [Subtypes -> Nat]
    BY <1>2, RequestFacts DEF SemWait, Calls
  <2>2. call' \in Calls /\ call'.id <= MaxRequests
    BY <1>2 DEF SemWait, Calls
  <2> QED BY <1>2, <2>1, <2>2 DEF SemWait
<1>3. CASE SemTimeout
  <2>1. call' \in Calls /\ call'.id <= MaxRequests
    BY <1>3 DEF SemTimeout, Calls
  <2>2. timed_out' \subseteq [id : Nat, subtype : Subtypes]
    BY <1>3, RequestFacts DEF SemTimeout, Calls
  <2> QED BY <1>3, <2>1, <2>2 DEF SemTimeout
<1>4. CASE ReadResponse
  BY <1>4 DEF ReadResponse, Calls
<1>5. CASE Return
  BY <1>5 DEF Return, Calls
<1>6. CASE ProcessControl
  <2>1. Head(from_warp) \in Frames /\ from_warp' \in Seq(Frames)
    BY <1>6 DEF ProcessControl
  <2>2. /\ response_packet_type' \in [code : Codes, from : Nat]
        /\ sniffer' \in [pc : {"sniff", "post"}, subtype : Subtypes]
        /\ stored' \subseteq Nat
    BY <1>6, <2>1 DEF ProcessControl, Frames
  <2> QED BY <1>6, <2>1, <2>2 DEF ProcessControl
<1>7. CASE SemPost
  <2>1. control_sync' \in [Subtypes -> Nat]
    BY <1>7 DEF SemPost
  <2>2. sniffer' \in [pc : {"sniff", "post"}, subtype : Subtypes]
    BY <1>7 DEF SemPost
  <2> QED BY <1>7, <2>1, <2>2 DEF SemPost
<1>8. CASE ProcessData
  BY <1>8 DEF ProcessData
<1>9. CASE WarpApply
  <2>1. Head(to_warp) \in Packets
    BY <1>9 DEF WarpApply
  <2>2. PICK code \in Codes : from_warp' = Reply(code)
    BY <1>9, <2>1, RequestFacts DEF WarpApply, Packets
  <2>3. from_warp' \in Seq(Frames)
    BY <2>1, <2>2, RequestFacts DEF Reply, Frames, Packets
  <2>4. applied' \subseteq Nat
    BY <1>9, <2>1 DEF WarpApply, Packets
  <2>5. to_warp' \in Seq(Packets)
    BY <1>9 DEF WarpApply
  <2> QED BY <1>9, <2>3, <2>4, <2>5 DEF WarpApply
<1>10. CASE WarpRefuse
  <2>1. Head(to_warp) \in Packets
    BY <1>10 DEF WarpRefuse
  <2>2. PICK code \in Codes : from_warp' = Reply(code)
    BY <1>10, <2>1, RequestFacts DEF WarpRefuse, Packets
  <2>3. from_warp' \in Seq(Frames)
    BY <2>1, <2>2, RequestFacts DEF Reply, Frames, Packets
  <2>4. to_warp' \in Seq(Packets) /\ applied' \subseteq Nat
    BY <1>10, <2>1 DEF WarpRefuse, Packets
  <2> QED BY <1>10, <2>3, <2>4 DEF WarpRefuse
<1>11. CASE WarpTransmit
  BY <1>11 DEF WarpTransmit, DataFrame, Frames, NoRequest, Codes
<1>12. CASE LoseRequest
  BY <1>12 DEF LoseRequest
<1>13. CASE LoseFrame
  BY <1>13 DEF LoseFrame
<1>14. CASE UNCHANGED warpVars
  BY <1>14 DEF warpVars
<1> QED
  BY <1>1, <1>2, <1>3, <1>4, <1>5, <1>6, <1>7, <1>8, <1>9, <1>10, <1>11,
     <1>12, <1>13, <1>14 DEF WarpNext, Caller, Surroundings

\* Type correctness of the control channel.
THEOREM WarpTypeCorrect == WarpSpec => []WarpTypeOK
BY WarpTypeInit, WarpTypeStep, PTL DEF WarpSpec

-----------------------------------------------------------------------------
\* Sequences as queues: what Tail and Append leave where.
LEMMA TailFacts ==
  ASSUME NEW S, NEW q \in Seq(S), q # <<>>
  PROVE  /\ Head(q) = q[1] /\ 1 \in DOMAIN q
         /\ \A i \in DOMAIN Tail(q) : i + 1 \in DOMAIN q /\ Tail(q)[i] = q[i + 1] /\ i \in Nat
         /\ \A i, j \in DOMAIN Tail(q) : i + 1 = j + 1 => i = j
         /\ \A i \in DOMAIN Tail(q) : i + 1 # 1
OBVIOUS

LEMMA AppendFacts ==
  ASSUME NEW S, NEW q \in Seq(S), NEW e \in S
  PROVE  \A i \in DOMAIN Append(q, e) :
            \/ i \in DOMAIN q /\ Append(q, e)[i] = q[i]
            \/ i = Len(q) + 1 /\ i \notin DOMAIN q /\ Append(q, e)[i] = e
OBVIOUS

\* Each request is in one place only.
LEMMA OneReplyStep ==
  WarpTypeOK /\ WarpTypeOK' /\ OneReplyPerRequest /\ [WarpNext]_warpVars
    => OneReplyPerRequest'
<1> SUFFICES ASSUME WarpTypeOK, WarpTypeOK', OneReplyPerRequest, [WarpNext]_warpVars
             PROVE  OneReplyPerRequest'
  OBVIOUS
<1>a. /\ call.id \in Nat /\ call'.id \in Nat
      /\ to_warp \in Seq(Packets) /\ from_warp \in Seq(Frames)
  BY DEF WarpTypeOK, Calls
<1>1. ASSUME NEW r \in Requests, Sync(r) PROVE OneReplyPerRequest'
  <2> DEFINE e == [id |-> call.id + 1, req |-> r]
  <2>1. e \in Packets /\ to_warp' = Append(to_warp, e)
    BY <1>1, <1>a DEF Sync, Packets
  <2>2. /\ call'.id = call.id + 1 /\ call'.req = r
        /\ UNCHANGED <<from_warp, stored, applied>>
    BY <1>1 DEF Sync, WarpTypeOK, Calls
  <2>3. e.id = call.id + 1 /\ e.req = r
    OBVIOUS
  <2> HIDE DEF e
  <2>4. \A i \in DOMAIN to_warp' : \/ i \in DOMAIN to_warp /\ to_warp'[i] = to_warp[i]
                                   \/ i = Len(to_warp) + 1 /\ to_warp'[i] = e
    BY <2>1, <1>a, AppendFacts
  <2> QED BY <2>2, <2>3, <2>4, <1>a DEF OneReplyPerRequest
<1>2. CASE SemWait \/ SemTimeout \/ ReadResponse \/ Return
  <2>1. call'.id = call.id /\ call'.req = call.req
    BY <1>2 DEF SemWait, SemTimeout, ReadResponse, Return, WarpTypeOK, Calls
  <2> QED BY <1>2, <2>1 DEF SemWait, SemTimeout, ReadResponse, Return, OneReplyPerRequest
<1>6. CASE ProcessControl
  <2>1. /\ from_warp # <<>> /\ from_warp' = Tail(from_warp)
        /\ stored' = stored \cup {from_warp[1].from}
        /\ from_warp[1].subtype \in Subtypes /\ 1 \in DOMAIN from_warp
        /\ UNCHANGED <<call, to_warp, applied>>
    BY <1>6, <1>a, TailFacts DEF ProcessControl
  <2>2. \A i \in DOMAIN from_warp' : /\ i + 1 \in DOMAIN from_warp
                                     /\ from_warp'[i] = from_warp[i + 1]
                                     /\ i + 1 # 1
    BY <2>1, <1>a, TailFacts
  <2>3. \A i, j \in DOMAIN from_warp' : i + 1 = j + 1 => i = j
    BY <2>1, <1>a, TailFacts
  <2>4. \A i \in DOMAIN to_warp' :
          /\ to_warp'[i].id \in 1..call'.id
          /\ to_warp'[i].id \notin stored' \cup applied'
          /\ to_warp'[i].id = call'.id => to_warp'[i].req = call'.req
    BY <2>1 DEF OneReplyPerRequest
  <2>5. \A i \in DOMAIN from_warp' : from_warp'[i].subtype \in Subtypes =>
          /\ from_warp'[i].from \in 1..call'.id
          /\ from_warp'[i].from \notin stored'
    BY <2>1, <2>2 DEF OneReplyPerRequest
  <2>6. \A i, j \in DOMAIN from_warp' :
          (from_warp'[i].subtype \in Subtypes /\ from_warp'[j].subtype \in Subtypes
             /\ from_warp'[i].from = from_warp'[j].from) => i = j
    BY <2>2, <2>3 DEF OneReplyPerRequest
  <2>7. \A i \in DOMAIN to_warp', j \in DOMAIN from_warp' :
          from_warp'[j].subtype \in Subtypes => to_warp'[i].id # from_warp'[j].from
    BY <2>1, <2>2 DEF OneReplyPerRequest
  <2>8. stored' \subseteq 1..call'.id /\ applied' \subseteq 1..call'.id
    BY <2>1 DEF OneReplyPerRequest
  <2> QED BY <2>1, <2>4, <2>5, <2>6, <2>7, <2>8 DEF OneReplyPerRequest
<1>7. CASE SemPost
  BY <1>7 DEF SemPost, OneReplyPerRequest
<1>8. CASE ProcessData
  BY <1>8, <1>a, TailFacts DEF ProcessData, OneReplyPerRequest
<1>9. CASE WarpApply \/ WarpRefuse
  <2>0. to_warp # <<>> /\ to_warp' = Tail(to_warp) /\ UNCHANGED <<call, stored>>
    BY <1>9 DEF WarpApply, WarpRefuse
  <2>h. Head(to_warp) = to_warp[1] /\ 1 \in DOMAIN to_warp /\ to_warp[1] \in Packets
    BY <2>0, <1>a, TailFacts
  <2>r. to_warp[1].id \in Nat /\ to_warp[1].req \in Requests
    BY <2>h DEF Packets
  <2>1. PICK code : from_warp' = Reply(code) /\ code \in Codes
    BY <1>9, <2>h, <2>r, RequestFacts DEF WarpApply, WarpRefuse
  <2> DEFINE e == [subtype |-> Head(to_warp).req.subtype, code |-> code,
                   from |-> Head(to_warp).id]
  <2>2. e \in Frames /\ e.from = to_warp[1].id /\ 1 \in DOMAIN to_warp
    BY <2>h, <2>r, <2>1, RequestFacts DEF Frames
  <2>3. from_warp' = Append(from_warp, e)
    BY <2>1 DEF Reply
  <2> HIDE DEF e
  <2>4. \A i \in DOMAIN from_warp' :
          \/ i \in DOMAIN from_warp /\ from_warp'[i] = from_warp[i]
          \/ i = Len(from_warp) + 1 /\ from_warp'[i] = e
    BY <2>2, <2>3, <1>a, AppendFacts
  <2>5. \A i \in DOMAIN to_warp' : i + 1 \in DOMAIN to_warp /\ to_warp'[i] = to_warp[i + 1] /\ i \in Nat
                                   /\ i + 1 # 1
    BY <2>0, <1>a, TailFacts
  <2>6. applied' \subseteq applied \cup {to_warp[1].id}
    BY <1>9, <1>a, TailFacts DEF WarpApply, WarpRefuse
  <2>7. \A i, j \in DOMAIN to_warp' : i + 1 = j + 1 => i = j
    BY <2>0, <1>a, TailFacts
  <2>8. \A i \in DOMAIN to_warp' : to_warp'[i].id # to_warp[1].id
    BY <2>h, <2>5 DEF OneReplyPerRequest
  <2>9. \A i \in DOMAIN to_warp' :
          /\ to_warp'[i].id \in 1..call'.id
          /\ to_warp'[i].id \notin stored' \cup applied'
          /\ to_warp'[i].id = call'.id => to_warp'[i].req = call'.req
    BY <2>0, <2>5, <2>6, <2>8 DEF OneReplyPerRequest
  <2>10. \A i, j \in DOMAIN to_warp' : to_warp'[i].id = to_warp'[j].id => i = j
    BY <2>5, <2>7 DEF OneReplyPerRequest
  <2>11. \A i \in DOMAIN from_warp' : from_warp'[i].subtype \in Subtypes =>
           /\ from_warp'[i].from \in 1..call'.id
           /\ from_warp'[i].from \notin stored'
    BY <2>0, <2>2, <2>4 DEF OneReplyPerRequest
  <2>12. \A i, j \in DOMAIN from_warp' :
           (from_warp'[i].subtype \in Subtypes /\ from_warp'[j].subtype \in Subtypes
              /\ from_warp'[i].from = from_warp'[j].from) => i = j
    BY <2>2, <2>4 DEF OneReplyPerRequest
  <2>13. \A i \in DOMAIN to_warp', j \in DOMAIN from_warp' :
           from_warp'[j].subtype \in Subtypes => to_warp'[i].id # from_warp'[j].from
    BY <2>2, <2>4, <2>5, <2>8 DEF OneReplyPerRequest
  <2>14. stored' \subseteq 1..call'.id /\ applied' \subseteq 1..call'.id
    BY <2>0, <2>6, <2>h DEF OneReplyPerRequest
  <2> QED BY <2>9, <2>10, <2>11, <2>12, <2>13, <2>14 DEF OneReplyPerRequest
<1>11. CASE WarpTransmit
  <2>1. DataFrame \in Frames /\ DataFrame.subtype \notin Subtypes
    BY DEF DataFrame, Frames, Subtypes, Codes, NoRequest
  <2>2. \A i \in DOMAIN from_warp' :
          \/ i \in DOMAIN from_warp /\ from_warp'[i] = from_warp[i]
          \/ from_warp'[i] = DataFrame
    BY <1>11, <2>1, <1>a, AppendFacts DEF WarpTransmit
  <2> QED BY <1>11, <2>1, <2>2 DEF WarpTransmit, OneReplyPerRequest
<1>12. CASE LoseRequest
  BY <1>12, <1>a, TailFacts DEF LoseRequest, OneReplyPerRequest
<1>13. CASE LoseFrame
  BY <1>13, <1>a, TailFacts DEF LoseFrame, OneReplyPerRequest
<1>14. CASE UNCHANGED warpVars
  BY <1>14 DEF warpVars, OneReplyPerRequest
<1> QED
  BY <1>1, <1>2, <1>6, <1>7, <1>8, <1>9, <1>11, <1>12, <1>13, <1>14
     DEF WarpNext, Caller, Surroundings

-----------------------------------------------------------------------------
\* Semaphore tokens, replies and requests under way belong to the caller.
LEMMA TokensStep ==
  /\ WarpTypeOK /\ WarpTypeOK' /\ OneReplyPerRequest /\ TokensOwned
  /\ [WarpNext]_warpVars
  => TokensOwned'
<1> SUFFICES ASSUME WarpTypeOK, WarpTypeOK', OneReplyPerRequest, TokensOwned,
                    [WarpNext]_warpVars,
                    NEW s \in Subtypes, NoTimeout(s)'
             PROVE  OnlyPendingTokens(s)'
  BY DEF TokensOwned
<1>a. /\ call.id \in Nat /\ call.req \in Requests /\ call.req.subtype \in Subtypes
      /\ to_warp \in Seq(Packets) /\ from_warp \in Seq(Frames)
      /\ control_sync \in [Subtypes -> Nat]
      /\ sniffer \in [pc : {"sniff", "post"}, subtype : Subtypes]
      /\ \A r \in Requests : r.subtype \in Subtypes
  BY RequestFacts DEF WarpTypeOK, Calls
<1>b. NoTimeout(s)
  BY DEF WarpNext, Caller, Surroundings, NoTimeout, warpVars, Sync, SemWait,
         SemTimeout, ReadResponse, Return, ProcessControl, SemPost, ProcessData,
         WarpApply, WarpRefuse, WarpTransmit, LoseRequest, LoseFrame
<1>c. OnlyPendingTokens(s)
  BY <1>b DEF TokensOwned
<1>1. ASSUME NEW r \in Requests, Sync(r) PROVE OnlyPendingTokens(s)'
  <2> DEFINE e == [id |-> call.id + 1, req |-> r]
  <2>1. e \in Packets /\ to_warp' = Append(to_warp, e)
    BY <1>1, <1>a DEF Sync, Packets
  <2>2. /\ call.pc = "idle" /\ call'.pc = "waiting"
        /\ call'.id = call.id + 1 /\ call'.req = r
        /\ UNCHANGED <<from_warp, stored, sniffer, control_sync>>
    BY <1>1 DEF Sync, WarpTypeOK, Calls
  <2>3. e.id = call.id + 1 /\ e.req = r
    OBVIOUS
  <2> HIDE DEF e
  <2>4. \A i \in DOMAIN to_warp' : \/ i \in DOMAIN to_warp /\ to_warp'[i] = to_warp[i]
                                   \/ to_warp'[i] = e
    BY <2>1, <1>a, AppendFacts
  <2> QED BY <2>2, <2>3, <2>4, <1>a, <1>c DEF OnlyPendingTokens, Pending
<1>2. CASE SemWait
  <2>1. /\ call.pc = "waiting" /\ call'.pc = "reading"
        /\ control_sync[call.req.subtype] > 0
        /\ control_sync' = [control_sync EXCEPT ![call.req.subtype] = @ - 1]
        /\ call'.id = call.id /\ call'.req = call.req
        /\ UNCHANGED <<to_warp, from_warp, stored, sniffer>>
    BY <1>2 DEF SemWait, WarpTypeOK, Calls
  <2>2. CASE s = call.req.subtype
    <3>1. control_sync[s] = 1 /\ call.id \in stored
      BY <2>1, <2>2, <1>c DEF OnlyPendingTokens
    <3>2. control_sync'[s] = 0
      BY <2>1, <2>2, <3>1, <1>a
    <3>3. \A i \in DOMAIN to_warp : to_warp[i].req.subtype # s
      BY <3>1, <1>c DEF OnlyPendingTokens, OneReplyPerRequest
    <3>4. \A i \in DOMAIN from_warp : from_warp[i].subtype # s
      BY <3>1, <1>c DEF OnlyPendingTokens, OneReplyPerRequest
    <3>5. ~(sniffer.pc = "post" /\ sniffer.subtype = s)
      BY <3>1, <1>c DEF OnlyPendingTokens
    <3> QED BY <2>1, <3>2, <3>3, <3>4, <3>5 DEF OnlyPendingTokens
  <2>3. CASE s # call.req.subtype
    <3>1. control_sync'[s] = control_sync[s]
      BY <2>1, <2>3, <1>a
    <3> QED BY <2>1, <2>3, <3>1, <1>c DEF OnlyPendingTokens, Pending
  <2> QED BY <2>2, <2>3
<1>3. CASE SemTimeout
  <2>1. [id |-> call.id, subtype |-> call.req.subtype] \in timed_out'
    BY <1>3 DEF SemTimeout
  <2>2. s # call.req.subtype
    BY <2>1 DEF NoTimeout
  <2>3. /\ call'.id = call.id /\ call'.req = call.req
        /\ UNCHANGED <<to_warp, from_warp, stored, sniffer, control_sync>>
    BY <1>3 DEF SemTimeout, WarpTypeOK, Calls
  <2> QED BY <2>2, <2>3, <1>c DEF OnlyPendingTokens, Pending
<1>4. CASE ReadResponse \/ Return
  <2>1. /\ call.pc # "waiting"
        /\ UNCHANGED <<to_warp, from_warp, stored, sniffer, control_sync>>
    BY <1>4 DEF ReadResponse, Return
  <2> QED BY <2>1, <1>c DEF OnlyPendingTokens, Pending
<1>6. CASE ProcessControl
  <2>1. /\ from_warp # <<>> /\ from_warp' = Tail(from_warp)
        /\ stored' = stored \cup {from_warp[1].from}
        /\ from_warp[1].subtype \in Subtypes /\ 1 \in DOMAIN from_warp
        /\ sniffer' = [pc |-> "post", subtype |-> from_warp[1].subtype]
        /\ sniffer.pc = "sniff"
        /\ UNCHANGED <<call, to_warp, control_sync>>
    BY <1>6, <1>a, TailFacts DEF ProcessControl
  <2>2. \A i \in DOMAIN from_warp' : /\ i + 1 \in DOMAIN from_warp
                                     /\ from_warp'[i] = from_warp[i + 1]
    BY <2>1, <1>a, TailFacts
  <2>3. (sniffer'.pc = "post" /\ sniffer'.subtype = s) =>
           Pending(s)' /\ call'.id \in stored' /\ control_sync'[s] = 0
    BY <2>1, <1>a, <1>c DEF OnlyPendingTokens, OneReplyPerRequest, Pending
  <2>4. control_sync'[s] > 0 =>
           Pending(s)' /\ call'.id \in stored' /\ control_sync'[s] = 1
    BY <2>1, <1>c DEF OnlyPendingTokens, Pending
  <2>5. \A i \in DOMAIN from_warp' :
          from_warp'[i].subtype = s => Pending(s)' /\ from_warp'[i].from = call'.id
    BY <2>1, <2>2, <1>c DEF OnlyPendingTokens, Pending
  <2>6. \A i \in DOMAIN to_warp' :
          to_warp'[i].req.subtype = s => Pending(s)' /\ to_warp'[i].id = call'.id
    BY <2>1, <1>c DEF OnlyPendingTokens, Pending
  <2> QED BY <2>3, <2>4, <2>5, <2>6 DEF OnlyPendingTokens
<1>7. CASE SemPost
  <2>1. /\ sniffer.pc = "post" /\ sniffer'.pc = "sniff"
        /\ control_sync' = [control_sync EXCEPT ![sniffer.subtype] = @ + 1]
        /\ UNCHANGED <<call, to_warp, from_warp, stored>>
    BY <1>7, <1>a DEF SemPost
  <2>2. CASE sniffer.subtype = s
    BY <2>1, <2>2, <1>a, <1>c DEF OnlyPendingTokens, Pending
  <2>3. CASE sniffer.subtype # s
    BY <2>1, <2>3, <1>a, <1>c DEF OnlyPendingTokens, Pending
  <2> QED BY <2>2, <2>3
<1>8. CASE ProcessData \/ LoseFrame
  <2>1. /\ from_warp # <<>> /\ from_warp' = Tail(from_warp)
        /\ UNCHANGED <<call, to_warp, sniffer, stored, control_sync>>
    BY <1>8 DEF ProcessData, LoseFrame
  <2>2. \A i \in DOMAIN from_warp' : /\ i + 1 \in DOMAIN from_warp
                                     /\ from_warp'[i] = from_warp[i + 1]
    BY <2>1, <1>a, TailFacts
  <2> QED BY <2>1, <2>2, <1>c DEF OnlyPendingTokens, Pending
<1>9. CASE WarpApply \/ WarpRefuse
  <2>1. /\ to_warp # <<>> /\ to_warp' = Tail(to_warp)
        /\ UNCHANGED <<call, sniffer, stored, control_sync>>
    BY <1>9 DEF WarpApply, WarpRefuse
  <2>2. Head(to_warp) = to_warp[1] /\ 1 \in DOMAIN to_warp /\ to_warp[1] \in Packets
    BY <2>1, <1>a, TailFacts
  <2>3. to_warp[1].id \in Nat /\ to_warp[1].req \in Requests
    BY <2>2 DEF Packets
  <2>4. PICK code : from_warp' = Reply(code) /\ code \in Codes
    BY <1>9, <2>2, <2>3, RequestFacts DEF WarpApply, WarpRefuse
  <2> DEFINE e == [subtype |-> Head(to_warp).req.subtype, code |-> code,
                   from |-> Head(to_warp).id]
  <2>5. e \in Frames /\ e.from = to_warp[1].id /\ e.subtype = to_warp[1].req.subtype
    BY <2>2, <2>3, <2>4, RequestFacts DEF Frames
  <2>6. from_warp' = Append(from_warp, e)
    BY <2>4 DEF Reply
  <2> HIDE DEF e
  <2>7. \A i \in DOMAIN from_warp' :
          \/ i \in DOMAIN from_warp /\ from_warp'[i] = from_warp[i]
          \/ from_warp'[i] = e
    BY <2>5, <2>6, <1>a, AppendFacts
  <2>8. \A i \in DOMAIN to_warp' : i + 1 \in DOMAIN to_warp /\ to_warp'[i] = to_warp[i + 1]
    BY <2>1, <1>a, TailFacts
  <2>9. \A i \in DOMAIN from_warp' :
          from_warp'[i].subtype = s => Pending(s)' /\ from_warp'[i].from = call'.id
    BY <2>1, <2>2, <2>5, <2>7, <1>c DEF OnlyPendingTokens, Pending
  <2>10. \A i \in DOMAIN to_warp' :
          to_warp'[i].req.subtype = s => Pending(s)' /\ to_warp'[i].id = call'.id
    BY <2>1, <2>8, <1>c DEF OnlyPendingTokens, Pending
  <2> QED BY <2>1, <2>9, <2>10, <1>c DEF OnlyPendingTokens, Pending
<1>11. CASE WarpTransmit
  <2>1. DataFrame \in Frames /\ DataFrame.subtype \notin Subtypes
    BY DEF DataFrame, Frames, Subtypes, Codes, NoRequest
  <2>2. \A i \in DOMAIN from_warp' :
          \/ i \in DOMAIN from_warp /\ from_warp'[i] = from_warp[i]
          \/ from_warp'[i] = DataFrame
    BY <1>11, <2>1, <1>a, AppendFacts DEF WarpTransmit
  <2> QED BY <1>11, <2>1, <2>2, <1>c DEF WarpTransmit, OnlyPendingTokens, Pending
<1>12. CASE LoseRequest
  <2>1. /\ to_warp # <<>> /\ to_warp' = Tail(to_warp)
        /\ UNCHANGED <<call, from_warp, sniffer, stored, control_sync>>
    BY <1>12 DEF LoseRequest
  <2>2. \A i \in DOMAIN to_warp' : i + 1 \in DOMAIN to_warp /\ to_warp'[i] = to_warp[i + 1]
    BY <2>1, <1>a, TailFacts
  <2> QED BY <2>1, <2>2, <1>c DEF OnlyPendingTokens, Pending
<1>14. CASE UNCHANGED warpVars
  BY <1>14, <1>c DEF warpVars, OnlyPendingTokens, Pending
<1> QED
  BY <1>1, <1>2, <1>3, <1>4, <1>6, <1>7, <1>8, <1>9, <1>11, <1>12, <1>14
     DEF WarpNext, Caller, Surroundings

-----------------------------------------------------------------------------
\* A wait is ended by the caller's own reply.
LEMMA WokenStep ==
  /\ WarpTypeOK /\ TokensOwned /\ WokenByOwnReply /\ [WarpNext]_warpVars
  => WokenByOwnReply'
<1> SUFFICES ASSUME WarpTypeOK, TokensOwned, WokenByOwnReply, [WarpNext]_warpVars
             PROVE  WokenByOwnReply'
  OBVIOUS
<1>a. /\ call \in Calls /\ call.req.subtype \in Subtypes
      /\ control_sync \in [Subtypes -> Nat]
  BY RequestFacts DEF WarpTypeOK, Calls
<1>1. ASSUME NEW r \in Requests, Sync(r) PROVE WokenByOwnReply'
  BY <1>1, <1>a DEF Sync, WokenByOwnReply, Calls
<1>2. CASE SemWait
  <2>1. /\ call'.id = call.id /\ call'.req = call.req
        /\ control_sync[call.req.subtype] > 0
        /\ UNCHANGED <<timed_out, stored>>
    BY <1>2, <1>a DEF SemWait, Calls
  <2>2. NoTimeout(call.req.subtype) => call.id \in stored
    BY <2>1, <1>a DEF TokensOwned, OnlyPendingTokens
  <2> QED BY <2>1, <2>2 DEF WokenByOwnReply, NoTimeout
<1>3. CASE SemTimeout
  BY <1>3, <1>a DEF SemTimeout, WokenByOwnReply, Calls
<1>4. CASE ReadResponse
  <2>1. /\ call.pc = "reading" /\ call'.id = call.id /\ call'.req = call.req
        /\ call'.return_code = call.return_code /\ UNCHANGED <<timed_out, stored>>
    BY <1>4, <1>a DEF ReadResponse, Calls
  <2> QED BY <2>1 DEF WokenByOwnReply, NoTimeout
<1>5. CASE Return
  BY <1>5, <1>a DEF Return, WokenByOwnReply, Calls
<1>6. CASE Surroundings \/ UNCHANGED warpVars
  <2>1. UNCHANGED <<call, timed_out>> /\ stored \subseteq stored'
    BY <1>6 DEF Surroundings, warpVars, ProcessControl, SemPost, ProcessData,
         WarpApply, WarpRefuse, WarpTransmit, LoseRequest, LoseFrame
  <2> QED BY <2>1 DEF WokenByOwnReply, NoTimeout
<1> QED BY <1>1, <1>2, <1>3, <1>4, <1>5, <1>6 DEF WarpNext, Caller

\* Without timeouts every code is truthful.  Only the actions that move a code
\* (WARP's answer, process, timed_sync) have anything to show.
LEMMA TruthfulStep ==
  /\ WarpTypeOK /\ WarpTypeOK' /\ OneReplyPerRequest /\ TokensOwned
  /\ RepliesTruthful /\ [WarpNext]_warpVars
  => RepliesTruthful'
<1> SUFFICES ASSUME WarpTypeOK, WarpTypeOK', OneReplyPerRequest, TokensOwned,
                    RepliesTruthful, [WarpNext]_warpVars
             PROVE  RepliesTruthful'
  OBVIOUS
<1> DEFINE Expired == call.pc \in {"reading", "returned"} /\ call.return_code = -1
           Codes_ ==
             /\ \A i \in DOMAIN from_warp :
                  from_warp[i].subtype \in Subtypes => Truthful(from_warp[i].code)
             /\ sniffer.pc = "post" => Truthful(response_packet_type.code)
             /\ \A s \in Subtypes :
                  control_sync[s] > 0 => Truthful(response_packet_type.code)
             /\ call.pc = "reading" => Truthful(response_packet_type.code)
             /\ call.pc = "returned" => Truthful(call.response)
<1>a. /\ call \in Calls /\ call.id \in Nat /\ call.req \in Requests
      /\ call.req.subtype \in Subtypes
      /\ to_warp \in Seq(Packets) /\ from_warp \in Seq(Frames)
      /\ control_sync \in [Subtypes -> Nat]
      /\ sniffer \in [pc : {"sniff", "post"}, subtype : Subtypes]
  BY RequestFacts DEF WarpTypeOK, Calls
<1>b. timed_out' = {} => timed_out = {}
  BY DEF WarpNext, Caller, Surroundings, warpVars, Sync, SemWait,
         SemTimeout, ReadResponse, Return, ProcessControl, SemPost, ProcessData,
         WarpApply, WarpRefuse, WarpTransmit, LoseRequest, LoseFrame
<1>c. timed_out = {} => Codes_ /\ \A s \in Subtypes : OnlyPendingTokens(s)
  BY DEF RepliesTruthful, TokensOwned, NoTimeout
\* A token in any place means that the caller waits.
<1>d. timed_out = {} =>
        /\ \A i \in DOMAIN from_warp : from_warp[i].subtype \in Subtypes
              => call.pc = "waiting" /\ from_warp[i].from = call.id
        /\ sniffer.pc = "post" => call.pc = "waiting" /\ call.id \in stored
        /\ \A s \in Subtypes : control_sync[s] > 0
              => call.pc = "waiting" /\ call.id \in stored
  <2> SUFFICES ASSUME timed_out = {}
               PROVE  /\ \A i \in DOMAIN from_warp : from_warp[i].subtype \in Subtypes
                            => call.pc = "waiting" /\ from_warp[i].from = call.id
                      /\ sniffer.pc = "post" => call.pc = "waiting" /\ call.id \in stored
                      /\ \A s \in Subtypes : control_sync[s] > 0
                            => call.pc = "waiting" /\ call.id \in stored
    OBVIOUS
  <2>1. \A s \in Subtypes : OnlyPendingTokens(s)
    BY <1>c
  <2>2. sniffer.subtype \in Subtypes
    BY <1>a
  <2> QED BY <2>1, <2>2 DEF OnlyPendingTokens, Pending
<1>e. SUFFICES (Expired' => timed_out' # {}) /\ (timed_out' = {} => Codes_')
  BY DEF RepliesTruthful
<1> HIDE DEF Codes_
<1>1. ASSUME NEW r \in Requests, Sync(r)
      PROVE  (Expired' => timed_out' # {}) /\ (timed_out' = {} => Codes_')
  <2>1. /\ call.pc = "idle" /\ call'.pc = "waiting"
        /\ UNCHANGED <<from_warp, sniffer, control_sync, timed_out>>
    BY <1>1, <1>a DEF Sync, Calls
  <2> QED BY <2>1, <1>d DEF Codes_
<1>2. CASE SemWait
  <2>1. /\ call.pc = "waiting" /\ call'.pc = "reading" /\ call'.return_code = 0
        /\ call'.id = call.id /\ call'.req = call.req
        /\ control_sync[call.req.subtype] > 0
        /\ control_sync' = [control_sync EXCEPT ![call.req.subtype] = @ - 1]
        /\ UNCHANGED <<from_warp, sniffer, timed_out, applied, response_packet_type>>
    BY <1>2, <1>a DEF SemWait, Calls
  <2>2. timed_out = {} => Truthful(response_packet_type.code)
    BY <2>1, <1>a, <1>c DEF Codes_
  <2> QED BY <2>1, <2>2, <1>c DEF Codes_, Truthful
<1>3. CASE SemTimeout
  BY <1>3 DEF SemTimeout
<1>4. CASE ReadResponse
  <2>1. /\ call.pc = "reading" /\ call'.pc = "returned"
        /\ call'.return_code = call.return_code
        /\ call'.id = call.id /\ call'.req = call.req
        /\ call'.response = response_packet_type.code
        /\ UNCHANGED <<from_warp, sniffer, timed_out, applied,
                       control_sync, response_packet_type>>
    BY <1>4, <1>a DEF ReadResponse, Calls
  <2>2. Expired' => timed_out' # {}
    BY <2>1 DEF RepliesTruthful
  <2> QED BY <2>1, <2>2, <1>c DEF Codes_, Truthful
<1>5. CASE Return
  <2>1. /\ call.pc = "returned" /\ call'.pc = "idle"
        /\ UNCHANGED <<from_warp, sniffer, timed_out, control_sync>>
    BY <1>5, <1>a DEF Return, Calls
  <2> QED BY <2>1, <1>d DEF Codes_
<1>6. CASE ProcessControl
  <2>1. /\ from_warp # <<>> /\ from_warp' = Tail(from_warp)
        /\ from_warp[1].subtype \in Subtypes /\ 1 \in DOMAIN from_warp
        /\ response_packet_type'.code = from_warp[1].code
        /\ UNCHANGED <<call, control_sync, applied, timed_out>>
    BY <1>6, <1>a, TailFacts DEF ProcessControl
  <2>2. \A i \in DOMAIN from_warp' : /\ i + 1 \in DOMAIN from_warp
                                     /\ from_warp'[i] = from_warp[i + 1]
    BY <2>1, <1>a, TailFacts
  <2>3. timed_out = {} => call.pc = "waiting" /\ Truthful(from_warp[1].code)
    BY <2>1, <1>c, <1>d DEF Codes_
  <2>4. Expired' => timed_out' # {}
    BY <2>1 DEF RepliesTruthful
  <2> QED BY <2>1, <2>2, <2>3, <2>4, <1>c DEF Codes_, Truthful
<1>7. CASE SemPost
  <2>1. /\ sniffer.pc = "post"
        /\ UNCHANGED <<call, from_warp, applied, timed_out, response_packet_type>>
        /\ sniffer'.pc = "sniff"
    BY <1>7, <1>a DEF SemPost
  <2>2. Expired' => timed_out' # {}
    BY <2>1 DEF RepliesTruthful
  <2> QED BY <2>1, <2>2, <1>c DEF Codes_, Truthful
<1>8. CASE ProcessData \/ LoseFrame
  <2>1. /\ from_warp # <<>> /\ from_warp' = Tail(from_warp)
        /\ UNCHANGED <<call, sniffer, control_sync, applied, timed_out,
                       response_packet_type>>
    BY <1>8 DEF ProcessData, LoseFrame
  <2>2. \A i \in DOMAIN from_warp' : /\ i + 1 \in DOMAIN from_warp
                                     /\ from_warp'[i] = from_warp[i + 1]
    BY <2>1, <1>a, TailFacts
  <2>3. Expired' => timed_out' # {}
    BY <2>1 DEF RepliesTruthful
  <2> QED BY <2>1, <2>2, <2>3, <1>c DEF Codes_, Truthful
<1>9. CASE WarpApply \/ WarpRefuse
  <2>1. /\ to_warp # <<>> /\ to_warp' = Tail(to_warp)
        /\ UNCHANGED <<call, sniffer, stored, control_sync, timed_out,
                       response_packet_type>>
    BY <1>9 DEF WarpApply, WarpRefuse
  <2>2. Head(to_warp) = to_warp[1] /\ 1 \in DOMAIN to_warp /\ to_warp[1] \in Packets
    BY <2>1, <1>a, TailFacts
  <2>3. to_warp[1].id \in Nat /\ to_warp[1].req \in Requests
    BY <2>2 DEF Packets
  <2>4. Expired' => timed_out' # {}
    BY <2>1 DEF RepliesTruthful
  <2>5. PICK code \in Codes :
          /\ from_warp' = Reply(code)
          /\ \/ WarpApply /\ code \in Accepted[to_warp[1].req]
             \/ WarpRefuse /\ code \in Refused[to_warp[1].req]
    BY <1>9, <2>2, <2>3, RequestFacts DEF WarpApply, WarpRefuse
  <2> DEFINE e == [subtype |-> Head(to_warp).req.subtype, code |-> code,
                   from |-> Head(to_warp).id]
  <2>6. e \in Frames /\ e.code = code
    BY <2>2, <2>3, RequestFacts DEF Frames
  <2>7. from_warp' = Append(from_warp, e)
    BY <2>5 DEF Reply
  <2> HIDE DEF e
  <2>8. \A i \in DOMAIN from_warp' :
          \/ i \in DOMAIN from_warp /\ from_warp'[i] = from_warp[i]
          \/ from_warp'[i] = e
    BY <2>6, <2>7, <1>a, AppendFacts
  <2>9. ASSUME timed_out = {} PROVE Codes_'
    \* The request is the caller's, so nothing else is under way for it.
    <3>1. /\ to_warp[1].id = call.id /\ to_warp[1].req = call.req
          /\ call.pc = "waiting" /\ call.id \notin stored \cup applied
      BY <2>2, <2>3, <2>9, <1>c, RequestFacts
         DEF OnlyPendingTokens, Pending, OneReplyPerRequest
    <3>2. Truthful(code)'
      BY <2>1, <2>2, <2>3, <2>5, <3>1, RequestFacts DEF WarpApply, WarpRefuse, Truthful
    <3>3. \A i \in DOMAIN from_warp : from_warp[i].subtype \notin Subtypes
      BY <2>2, <2>9, <3>1, <1>d DEF OneReplyPerRequest
    <3>4. sniffer.pc # "post" /\ \A s \in Subtypes : ~(control_sync[s] > 0)
      BY <2>9, <3>1, <1>d
    <3> QED BY <2>1, <2>6, <2>8, <3>1, <3>2, <3>3, <3>4 DEF Codes_, Truthful
  <2> QED BY <2>1, <2>4, <2>9
<1>11. CASE WarpTransmit
  <2>1. DataFrame \in Frames /\ DataFrame.subtype \notin Subtypes
    BY DEF DataFrame, Frames, Subtypes, Codes, NoRequest
  <2>2. \A i \in DOMAIN from_warp' :
          \/ i \in DOMAIN from_warp /\ from_warp'[i] = from_warp[i]
          \/ from_warp'[i] = DataFrame
    BY <1>11, <2>1, <1>a, AppendFacts DEF WarpTransmit
  <2>3. UNCHANGED <<call, sniffer, control_sync, applied, timed_out,
                    response_packet_type>>
    BY <1>11 DEF WarpTransmit
  <2>4. Expired' => timed_out' # {}
    BY <2>3 DEF RepliesTruthful
  <2> QED BY <2>1, <2>2, <2>3, <2>4, <1>c DEF Codes_, Truthful
<1>12. CASE LoseRequest \/ UNCHANGED warpVars
  <2>1. UNCHANGED <<call, sniffer, control_sync, applied, timed_out, from_warp,
                    response_packet_type>>
    BY <1>12 DEF LoseRequest, warpVars
  <2>2. Expired' => timed_out' # {}
    BY <2>1 DEF RepliesTruthful
  <2> QED BY <2>1, <2>2, <1>c DEF Codes_, Truthful
<1> QED
  BY <1>1, <1>2, <1>3, <1>4, <1>5, <1>6, <1>7, <1>8, <1>9, <1>11, <1>12
     DEF WarpNext, Caller, Surroundings

-----------------------------------------------------------------------------
LEMMA WarpInvInit == WarpInit => WarpInv
<1> SUFFICES ASSUME WarpInit PROVE WarpInv
  OBVIOUS
<1>1. WarpTypeOK
  BY WarpTypeInit
<1>2. OneReplyPerRequest /\ TokensOwned /\ WokenByOwnReply /\ RepliesTruthful
  BY DEF WarpInit, OneReplyPerRequest, TokensOwned, OnlyPendingTokens,
         WokenByOwnReply, RepliesTruthful, NoTimeout
<1> QED BY <1>1, <1>2 DEF WarpInv

LEMMA WarpInvStep == WarpInv /\ [WarpNext]_warpVars => WarpInv'
BY WarpTypeStep, OneReplyStep, TokensStep, WokenStep, TruthfulStep DEF WarpInv

\* The inductive invariant of the control channel.
THEOREM WarpInvariant == WarpSpec => []WarpInv
BY WarpInvInit, WarpInvStep, PTL DEF WarpSpec

\* Until a wait of its subtype expires, timed_sync returns 0 only when the
\* reply to the caller's own request has been stored by process().
THEOREM WokenByOwnReplyAlways == WarpSpec => []WokenByOwnReply
<1>1. WarpInv => WokenByOwnReply
  BY DEF WarpInv
<1> QED BY WarpInvariant, <1>1, PTL

\* Until a wait expires, parse_json's test of the response succeeds exactly
\* for the requests that WARP has carried out.
THEOREM SuccessIffAppliedAlways == WarpSpec => []SuccessIffApplied
<1>1. WarpInv => SuccessIffApplied
  <2> SUFFICES ASSUME WarpInv, call.pc = "returned", timed_out = {}
               PROVE  CallOK <=> call.id \in applied
    BY DEF SuccessIffApplied
  <2>1. Truthful(call.response) /\ call.return_code # -1
    BY DEF WarpInv, RepliesTruthful
  <2> QED BY <2>1 DEF CallOK, Truthful
<1> QED BY WarpInvariant, <1>1, PTL

-----------------------------------------------------------------------------
(***************************************************************************)
(* Tokens: what is under way for a subtype, from the request to the token  *)
(* that its reply becomes, never exceeds the expired waits of the subtype  *)
(* and the one that is going on.                                           *)
(***************************************************************************)

\* The requests of subtype s that are on their way, or whose replies are.
FlightIds(tw, fw, s) ==
  {tw[i].id : i \in {j \in DOMAIN tw : tw[j].req.subtype = s}}
    \cup {fw[i].from : i \in {j \in DOMAIN fw : fw[j].subtype = s}}

Posting(s) == sniffer.pc = "post" /\ sniffer.subtype = s
ExpiredWaits(s) == {t \in timed_out : t.subtype = s}

Balance(s) ==
  Cardinality(FlightIds(to_warp, from_warp, s)) + (IF Posting(s) THEN 1 ELSE 0) + control_sync[s]
    <= Cardinality(ExpiredWaits(s)) + (IF Pending(s) THEN 1 ELSE 0)

\* The wait that is going on has not expired.
ExpiredBefore ==
  /\ IsFiniteSet(timed_out)
  /\ \A t \in timed_out : t.id <= call.id /\ (call.pc = "waiting" => t.id # call.id)

TokensBalance == ExpiredBefore /\ \A s \in Subtypes : Balance(s)

LEMMA FlightMember ==
  ASSUME NEW tw, NEW fw, NEW s, NEW x
  PROVE  x \in FlightIds(tw, fw, s) <=>
           \/ \E i \in DOMAIN tw : tw[i].req.subtype = s /\ tw[i].id = x
           \/ \E i \in DOMAIN fw : fw[i].subtype = s /\ fw[i].from = x
BY DEF FlightIds

\* Nothing is added when every element was there, or answers one that was.
LEMMA FlightShrinks ==
  ASSUME NEW tw, NEW fw, NEW tw2, NEW fw2, NEW s,
         \A i \in DOMAIN tw2 : \E j \in DOMAIN tw : tw2[i] = tw[j],
         \A i \in DOMAIN fw2 :
           \/ fw2[i].subtype # s
           \/ \E j \in DOMAIN fw : fw2[i] = fw[j]
           \/ \E j \in DOMAIN tw : tw[j].req.subtype = fw2[i].subtype /\ tw[j].id = fw2[i].from
  PROVE  FlightIds(tw2, fw2, s) \subseteq FlightIds(tw, fw, s)
<1> SUFFICES ASSUME NEW x \in FlightIds(tw2, fw2, s) PROVE x \in FlightIds(tw, fw, s)
  OBVIOUS
<1>1. ASSUME NEW i \in DOMAIN tw2, tw2[i].req.subtype = s, tw2[i].id = x
      PROVE  x \in FlightIds(tw, fw, s)
  <2>1. PICK j \in DOMAIN tw : tw2[i] = tw[j]
    OBVIOUS
  <2> QED
    BY <1>1, <2>1 DEF FlightIds
<1>2. ASSUME NEW i \in DOMAIN fw2, fw2[i].subtype = s, fw2[i].from = x
      PROVE  x \in FlightIds(tw, fw, s)
  <2>1. CASE \E j \in DOMAIN fw : fw2[i] = fw[j]
    BY <1>2, <2>1 DEF FlightIds
  <2>2. CASE \E j \in DOMAIN tw : tw[j].req.subtype = fw2[i].subtype /\ tw[j].id = fw2[i].from
    BY <1>2, <2>2 DEF FlightIds
  <2> QED
    BY <1>2, <2>1, <2>2
<1> QED
  BY <1>1, <1>2 DEF FlightIds

LEMMA FlightFinite ==
  ASSUME WarpTypeOK, OneReplyPerRequest, NEW s \in Subtypes
  PROVE  /\ FlightIds(to_warp, from_warp, s) \subseteq 1..call.id
         /\ IsFiniteSet(FlightIds(to_warp, from_warp, s))
<1>1. FlightIds(to_warp, from_warp, s) \subseteq 1..call.id
  BY DEF FlightIds, OneReplyPerRequest
<1>2. 1 \in Int /\ call.id \in Int
  BY DEF WarpTypeOK, Calls
<1>3. IsFiniteSet(1..call.id)
  BY <1>2, FS_Interval
<1> QED
  BY <1>1, <1>3, FS_Subset

LEMMA ExpiredFinite ==
  ASSUME ExpiredBefore, NEW s
  PROVE  IsFiniteSet(ExpiredWaits(s)) /\ Cardinality(ExpiredWaits(s)) \in Nat
<1>1. ExpiredWaits(s) \subseteq timed_out /\ IsFiniteSet(timed_out)
  BY DEF ExpiredWaits, ExpiredBefore
<1>2. IsFiniteSet(ExpiredWaits(s))
  BY <1>1, FS_Subset
<1> QED
  BY <1>2, FS_CardinalityType

\* Counts of a finite set F and of what becomes of it.
LEMMA Counts ==
  ASSUME NEW F, IsFiniteSet(F), NEW x
  PROVE  /\ Cardinality(F) \in Nat
         /\ \A G : G \subseteq F => Cardinality(G) \in Nat /\ Cardinality(G) <= Cardinality(F)
         /\ \A G : G \subseteq F \cup {x} =>
              Cardinality(G) \in Nat /\ Cardinality(G) <= Cardinality(F) + 1
         /\ \A G : (G \subseteq F \ {x} /\ x \in F) =>
              Cardinality(G) \in Nat /\ Cardinality(G) + 1 <= Cardinality(F)
<1>1. Cardinality(F) \in Nat
  BY FS_CardinalityType
<1>2. ASSUME NEW G, G \subseteq F
      PROVE  Cardinality(G) \in Nat /\ Cardinality(G) <= Cardinality(F)
  BY <1>2, FS_Subset, FS_CardinalityType
<1>3. ASSUME NEW G, G \subseteq F \cup {x}
      PROVE  Cardinality(G) \in Nat /\ Cardinality(G) <= Cardinality(F) + 1
  <2>1. IsFiniteSet(F \cup {x}) /\ Cardinality(F \cup {x}) <= Cardinality(F) + 1
    BY <1>1, FS_AddElement
  <2>2. Cardinality(F \cup {x}) \in Nat
    BY <2>1, FS_CardinalityType
  <2>3. Cardinality(G) \in Nat /\ Cardinality(G) <= Cardinality(F \cup {x})
    BY <1>3, <2>1, FS_Subset, FS_CardinalityType
  <2> QED
    BY <1>1, <2>1, <2>2, <2>3
<1>4. ASSUME NEW G, G \subseteq F \ {x}, x \in F
      PROVE  Cardinality(G) \in Nat /\ Cardinality(G) + 1 <= Cardinality(F)
  <2>1. IsFiniteSet(F \ {x}) /\ Cardinality(F \ {x}) = Cardinality(F) - 1
    BY <1>4, FS_RemoveElement
  <2>2. Cardinality(G) \in Nat /\ Cardinality(G) <= Cardinality(F \ {x})
    BY <1>4, <2>1, FS_Subset, FS_CardinalityType
  <2> QED
    BY <1>1, <2>1, <2>2
<1> QED
  BY <1>1, <1>2, <1>3, <1>4

\* Nothing is added to what is under way, and the rest stays or pays for it.
LEMMA BalanceKept ==
  ASSUME WarpInv, TokensBalance, NEW s \in Subtypes,
         FlightIds(to_warp', from_warp', s) \subseteq FlightIds(to_warp, from_warp, s),
         (IF Posting(s)' THEN 1 ELSE 0) + control_sync'[s]
            <= (IF Posting(s) THEN 1 ELSE 0) + control_sync[s],
         control_sync'[s] \in Nat, UNCHANGED timed_out, Pending(s) => Pending(s)'
  PROVE  Balance(s)'
<1> DEFINE F == FlightIds(to_warp, from_warp, s)
           G == FlightIds(to_warp', from_warp', s)
           E == ExpiredWaits(s)
<1>1. Cardinality(F) \in Nat /\ Cardinality(G) \in Nat /\ Cardinality(G) <= Cardinality(F)
  BY FlightFinite, Counts DEF WarpInv
<1>2. Cardinality(E) \in Nat /\ E' = E
  BY ExpiredFinite DEF ExpiredWaits, TokensBalance
<1> QED
  BY <1>1, <1>2 DEF Balance, TokensBalance, WarpInv, WarpTypeOK

LEMMA TokensBalanceStep ==
  WarpInv /\ WarpInv' /\ TokensBalance /\ [WarpNext]_warpVars => TokensBalance'
<1> SUFFICES ASSUME WarpInv, WarpInv', TokensBalance, [WarpNext]_warpVars
             PROVE  TokensBalance'
  OBVIOUS
<1>a. /\ call \in Calls /\ call' \in Calls /\ call.id \in Nat
      /\ to_warp \in Seq(Packets) /\ from_warp \in Seq(Frames)
      /\ control_sync \in [Subtypes -> Nat] /\ control_sync' \in [Subtypes -> Nat]
      /\ timed_out \subseteq [id : Nat, subtype : Subtypes]
  BY DEF WarpInv, WarpTypeOK, Calls
<1>b. ExpiredBefore /\ \A s \in Subtypes : Balance(s)
  BY DEF TokensBalance
<1>c. ASSUME UNCHANGED <<call, timed_out>> PROVE ExpiredBefore'
  BY <1>b, <1>c DEF ExpiredBefore
<1>1. ASSUME NEW r \in Requests, Sync(r) PROVE TokensBalance'
  <2> DEFINE e == [id |-> call.id + 1, req |-> r]
  <2>1. e \in Packets /\ to_warp' = Append(to_warp, e)
    BY <1>1, <1>a DEF Sync, Packets
  <2>2. /\ call.pc = "idle" /\ call'.pc = "waiting" /\ call'.id = call.id + 1 /\ call'.req = r
        /\ UNCHANGED <<control_sync, sniffer, from_warp, timed_out>>
    BY <1>1, <1>a DEF Sync, Calls
  <2>3. e.id = call.id + 1 /\ e.req = r
    OBVIOUS
  <2> HIDE DEF e
  <2>4. \A i \in DOMAIN to_warp' : \/ i \in DOMAIN to_warp /\ to_warp'[i] = to_warp[i]
                                   \/ i = Len(to_warp) + 1 /\ to_warp'[i] = e
    BY <2>1, <1>a, AppendFacts
  <2>5. ExpiredBefore'
    <3>1. \A t \in timed_out : t.id \in Nat /\ t.id <= call.id
      BY <1>a, <1>b DEF ExpiredBefore
    <3> QED
      BY <1>a, <1>b, <2>2, <3>1 DEF ExpiredBefore
  <2>6. ASSUME NEW s \in Subtypes PROVE Balance(s)'
    <3> DEFINE F == FlightIds(to_warp, from_warp, s)
               G == FlightIds(to_warp', from_warp', s)
    <3>1. \A x \in G : x \in F \/ (r.subtype = s /\ x = call.id + 1)
      BY <2>2, <2>3, <2>4, FlightMember
    <3>2. CASE r.subtype = s
      <4>1. G \subseteq F \cup {call.id + 1} /\ IsFiniteSet(F)
        BY <3>1, FlightFinite DEF WarpInv
      <4> HIDE DEF F, G
      <4>2. /\ Cardinality(F) \in Nat /\ Cardinality(G) \in Nat
            /\ Cardinality(G) <= Cardinality(F) + 1
        BY <4>1, Counts
      <4>3. Pending(s)' /\ ~Pending(s) /\ Posting(s)' = Posting(s)
        BY <2>2, <3>2 DEF Pending, Posting
      <4>4. ExpiredWaits(s)' = ExpiredWaits(s) /\ Cardinality(ExpiredWaits(s)) \in Nat
        BY <1>b, <2>2, ExpiredFinite DEF ExpiredWaits
      <4> QED
        BY <1>a, <1>b, <2>2, <4>2, <4>3, <4>4 DEF Balance, F, G
    <3>3. CASE r.subtype # s
      <4>1. G \subseteq F
        BY <3>1, <3>3
      <4>2. ~Pending(s) /\ Posting(s)' = Posting(s)
        BY <2>2 DEF Pending, Posting
      <4> QED
        BY <1>a, <2>2, <4>1, <4>2, BalanceKept
    <3> QED
      BY <3>2, <3>3
  <2> QED
    BY <2>5, <2>6 DEF TokensBalance
<1>2. CASE SemWait
  <2>1. /\ call.pc = "waiting" /\ call'.pc = "reading" /\ call'.id = call.id
        /\ control_sync' = [control_sync EXCEPT ![call.req.subtype] = @ - 1]
        /\ UNCHANGED <<to_warp, from_warp, sniffer, timed_out>>
    BY <1>2, <1>a DEF SemWait, Calls
  <2>2. ExpiredBefore'
    BY <1>b, <2>1 DEF ExpiredBefore
  <2>3. ASSUME NEW s \in Subtypes PROVE Balance(s)'
    <3>1. Posting(s)' = Posting(s) /\ ExpiredWaits(s)' = ExpiredWaits(s)
      BY <2>1 DEF Posting, ExpiredWaits
    <3>2. CASE s = call.req.subtype
      <4>1. Pending(s) /\ ~Pending(s)' /\ control_sync'[s] = control_sync[s] - 1
        BY <1>a, <2>1, <3>2 DEF Pending
      <4>2. /\ Cardinality(FlightIds(to_warp, from_warp, s)) \in Nat
            /\ Cardinality(ExpiredWaits(s)) \in Nat
        BY <1>b, FlightFinite, Counts, ExpiredFinite DEF WarpInv
      <4> QED
        BY <1>a, <1>b, <2>1, <3>1, <4>1, <4>2 DEF Balance
    <3>3. CASE s # call.req.subtype
      <4>1. ~Pending(s) /\ control_sync'[s] = control_sync[s]
        BY <1>a, <2>1, <3>3 DEF Pending
      <4> QED
        BY <1>a, <2>1, <3>1, <4>1, BalanceKept
    <3> QED
      BY <3>2, <3>3
  <2> QED
    BY <2>2, <2>3 DEF TokensBalance
<1>3. CASE SemTimeout
  <2> DEFINE w == [id |-> call.id, subtype |-> call.req.subtype]
  <2>1. /\ call.pc = "waiting" /\ call'.pc = "reading" /\ call'.id = call.id
        /\ timed_out' = timed_out \cup {w}
        /\ UNCHANGED <<to_warp, from_warp, sniffer, control_sync>>
    BY <1>3, <1>a DEF SemTimeout, Calls
  <2>2. w \notin timed_out
    BY <1>b, <2>1 DEF ExpiredBefore
  <2>3. w.id = call.id /\ w.subtype = call.req.subtype
    OBVIOUS
  <2> HIDE DEF w
  <2>4. ExpiredBefore'
    <3>1. IsFiniteSet(timed_out')
      BY <1>b, <2>1, FS_AddElement DEF ExpiredBefore
    <3> QED
      BY <1>a, <1>b, <2>1, <2>3, <3>1 DEF ExpiredBefore
  <2>5. ASSUME NEW s \in Subtypes PROVE Balance(s)'
    <3>1. Posting(s)' = Posting(s)
      BY <2>1 DEF Posting
    <3>2. CASE s = call.req.subtype
      <4>1. Pending(s) /\ ~Pending(s)'
        BY <2>1, <3>2 DEF Pending
      <4>2. ExpiredWaits(s)' = ExpiredWaits(s) \cup {w} /\ w \notin ExpiredWaits(s)
        BY <2>1, <2>2, <2>3, <3>2 DEF ExpiredWaits
      <4>3. /\ Cardinality(ExpiredWaits(s)') = Cardinality(ExpiredWaits(s)) + 1
            /\ Cardinality(ExpiredWaits(s)) \in Nat
        BY <1>b, <4>2, ExpiredFinite, FS_AddElement
      <4>4. Cardinality(FlightIds(to_warp, from_warp, s)) \in Nat
        BY FlightFinite, Counts DEF WarpInv
      <4> QED
        BY <1>a, <1>b, <2>1, <3>1, <4>1, <4>3, <4>4 DEF Balance
    <3>3. CASE s # call.req.subtype
      <4>1. ~Pending(s) /\ ~Pending(s)'
        BY <2>1, <3>3 DEF Pending
      <4>2. ExpiredWaits(s)' = ExpiredWaits(s)
        BY <2>1, <2>3, <3>3 DEF ExpiredWaits
      <4> QED
        BY <1>b, <2>1, <3>1, <4>1, <4>2 DEF Balance
    <3> QED
      BY <3>2, <3>3
  <2> QED
    BY <2>4, <2>5 DEF TokensBalance
<1>4. CASE ReadResponse \/ Return
  <2>1. /\ call.pc # "waiting" /\ call'.pc # "waiting" /\ call'.id = call.id
        /\ UNCHANGED <<to_warp, from_warp, sniffer, control_sync, timed_out>>
    BY <1>4, <1>a DEF ReadResponse, Return, Calls
  <2>2. ExpiredBefore'
    BY <1>b, <2>1 DEF ExpiredBefore
  <2>3. ASSUME NEW s \in Subtypes PROVE Balance(s)'
    <3>1. Posting(s)' = Posting(s) /\ ~Pending(s)
      BY <2>1 DEF Posting, Pending
    <3> QED
      BY <1>a, <2>1, <3>1, BalanceKept
  <2> QED
    BY <2>2, <2>3 DEF TokensBalance
<1>5. CASE ProcessControl
  <2>1. /\ from_warp # <<>> /\ from_warp' = Tail(from_warp) /\ 1 \in DOMAIN from_warp
        /\ from_warp[1].subtype \in Subtypes
        /\ sniffer.pc = "sniff" /\ sniffer' = [pc |-> "post", subtype |-> from_warp[1].subtype]
        /\ UNCHANGED <<call, to_warp, control_sync, timed_out>>
    BY <1>5, <1>a, TailFacts DEF ProcessControl
  <2>2. \A i \in DOMAIN from_warp' : /\ i + 1 \in DOMAIN from_warp
                                     /\ from_warp'[i] = from_warp[i + 1] /\ i + 1 # 1
    BY <2>1, <1>a, TailFacts
  <2>3. ASSUME NEW s \in Subtypes PROVE Balance(s)'
    <3> DEFINE F == FlightIds(to_warp, from_warp, s)
               G == FlightIds(to_warp', from_warp', s)
               x == from_warp[1].from
    <3>1. G \subseteq F
      <4>1. \A i \in DOMAIN to_warp' : \E j \in DOMAIN to_warp : to_warp'[i] = to_warp[j]
        BY <2>1
      <4>2. \A i \in DOMAIN from_warp' : \E j \in DOMAIN from_warp : from_warp'[i] = from_warp[j]
        BY <2>2, Zenon
      <4> QED
        BY <4>1, <4>2, FlightShrinks
    <3>2. Pending(s)' = Pending(s) /\ ExpiredWaits(s)' = ExpiredWaits(s) /\ ~Posting(s)
      BY <2>1 DEF Pending, ExpiredWaits, Posting
    <3>3. CASE from_warp[1].subtype = s
      <4>1. x \in F
        BY <2>1, <3>3, FlightMember
      <4>2. x \notin G
        <5>1. \A i \in DOMAIN to_warp' : to_warp'[i].id # x
          BY <2>1 DEF WarpInv, OneReplyPerRequest
        <5>2. \A i \in DOMAIN from_warp' : from_warp'[i].subtype = s => from_warp'[i].from # x
          BY <2>1, <2>2 DEF WarpInv, OneReplyPerRequest
        <5> QED
          BY <5>1, <5>2, FlightMember
      <4>3. IsFiniteSet(F) /\ Posting(s)'
        BY <2>1, <3>3, FlightFinite DEF WarpInv, Posting
      <4> HIDE DEF F, G, x
      <4>4. /\ Cardinality(F) \in Nat /\ Cardinality(G) \in Nat
            /\ Cardinality(G) + 1 <= Cardinality(F)
        <5>1. G \subseteq F \ {x}
          BY <3>1, <4>2
        <5> QED
          BY <4>1, <4>3, <5>1, Counts
      <4>5. Cardinality(ExpiredWaits(s)) \in Nat
        BY <1>b, ExpiredFinite
      <4> QED
        BY <1>a, <1>b, <2>1, <3>2, <4>3, <4>4, <4>5 DEF Balance, F, G
    <3>4. CASE from_warp[1].subtype # s
      <4>1. ~Posting(s)'
        BY <2>1, <3>4 DEF Posting
      <4>2. (IF Posting(s)' THEN 1 ELSE 0) + control_sync'[s]
              <= (IF Posting(s) THEN 1 ELSE 0) + control_sync[s]
        BY <1>a, <2>1, <3>2, <4>1
      <4>3. control_sync'[s] \in Nat /\ UNCHANGED timed_out
        BY <1>a, <2>1
      <4> QED
        BY <3>1, <3>2, <4>2, <4>3, BalanceKept
    <3> QED
      BY <3>3, <3>4
  <2> QED
    BY <1>c, <2>1, <2>3 DEF TokensBalance
<1>6. CASE SemPost
  <2>1. /\ sniffer.pc = "post" /\ sniffer'.pc = "sniff" /\ sniffer.subtype \in Subtypes
        /\ control_sync' = [control_sync EXCEPT ![sniffer.subtype] = @ + 1]
        /\ UNCHANGED <<call, to_warp, from_warp, timed_out>>
    BY <1>6 DEF SemPost, WarpInv, WarpTypeOK
  <2>2. ASSUME NEW s \in Subtypes PROVE Balance(s)'
    <3>1. ~Posting(s)' /\ Pending(s)' = Pending(s)
      BY <2>1 DEF Posting, Pending
    <3>2. control_sync'[s] = control_sync[s] + (IF Posting(s) THEN 1 ELSE 0)
      BY <1>a, <2>1 DEF Posting
    <3>3. (IF Posting(s)' THEN 1 ELSE 0) + control_sync'[s]
            <= (IF Posting(s) THEN 1 ELSE 0) + control_sync[s]
      BY <1>a, <3>1, <3>2
    <3>4. FlightIds(to_warp', from_warp', s) \subseteq FlightIds(to_warp, from_warp, s)
      BY <2>1
    <3>5. control_sync'[s] \in Nat /\ UNCHANGED timed_out
      BY <1>a, <2>1
    <3> QED
      BY <3>1, <3>3, <3>4, <3>5, BalanceKept
  <2> QED
    BY <1>c, <2>1, <2>2 DEF TokensBalance
<1>7. CASE WarpApply \/ WarpRefuse
  <2> DEFINE h == Head(to_warp)
  <2>1. to_warp # <<>> /\ to_warp' = Tail(to_warp) /\ 1 \in DOMAIN to_warp /\ h = to_warp[1]
    BY <1>7, <1>a, TailFacts DEF WarpApply, WarpRefuse
  <2>2. UNCHANGED <<call, sniffer, control_sync, timed_out>>
    BY <1>7 DEF WarpApply, WarpRefuse
  <2>3. h \in Packets
    BY <2>1, <1>a
  <2>4. PICK code \in Codes : from_warp' = Reply(code)
    BY <1>7, <2>3, RequestFacts DEF WarpApply, WarpRefuse, Packets
  <2>5. PICK e \in Frames : /\ e.subtype = h.req.subtype /\ e.from = h.id
                            /\ from_warp' = Append(from_warp, e)
    <3>1. [subtype |-> h.req.subtype, code |-> code, from |-> h.id] \in Frames
      BY <2>3, RequestFacts DEF Frames, Packets
    <3> QED
      BY <2>4, <3>1 DEF Reply
  <2>6. \A i \in DOMAIN from_warp' : \/ i \in DOMAIN from_warp /\ from_warp'[i] = from_warp[i]
                                     \/ i = Len(from_warp) + 1 /\ from_warp'[i] = e
    BY <2>5, <1>a, AppendFacts
  <2>7. \A i \in DOMAIN to_warp' : i + 1 \in DOMAIN to_warp /\ to_warp'[i] = to_warp[i + 1]
    BY <2>1, <1>a, TailFacts
  <2> HIDE DEF h
  <2>8. ASSUME NEW s \in Subtypes PROVE Balance(s)'
    <3>1. FlightIds(to_warp', from_warp', s) \subseteq FlightIds(to_warp, from_warp, s)
      <4>1. \A i \in DOMAIN to_warp' : \E j \in DOMAIN to_warp : to_warp'[i] = to_warp[j]
        BY <2>7, Zenon
      <4>2. \E j \in DOMAIN to_warp : to_warp[j].req.subtype = e.subtype /\ to_warp[j].id = e.from
        BY <2>1, <2>5, Zenon
      <4>3. \A i \in DOMAIN from_warp' : \/ \E j \in DOMAIN from_warp : from_warp'[i] = from_warp[j]
                                         \/ from_warp'[i] = e
        BY <2>6, Zenon
      <4> QED
        BY <4>1, <4>2, <4>3, FlightShrinks
    <3>2. Posting(s)' = Posting(s) /\ Pending(s)' = Pending(s)
      BY <2>2 DEF Posting, Pending
    <3> QED
      BY <1>a, <2>2, <3>1, <3>2, BalanceKept
  <2> QED
    BY <1>c, <2>2, <2>8 DEF TokensBalance
<1>8. CASE WarpTransmit
  <2>1. DataFrame \in Frames /\ DataFrame.subtype \notin Subtypes
    BY DEF DataFrame, Frames, NoRequest, Codes, Subtypes
  <2>2. \A i \in DOMAIN from_warp' : \/ i \in DOMAIN from_warp /\ from_warp'[i] = from_warp[i]
                                     \/ from_warp'[i] = DataFrame
    BY <1>8, <2>1, <1>a, AppendFacts DEF WarpTransmit
  <2>3. UNCHANGED <<call, sniffer, control_sync, timed_out, to_warp>>
    BY <1>8 DEF WarpTransmit
  <2>4. ASSUME NEW s \in Subtypes PROVE Balance(s)'
    <3>1. FlightIds(to_warp', from_warp', s) \subseteq FlightIds(to_warp, from_warp, s)
      BY <2>1, <2>2, <2>3, FlightMember
    <3>2. Posting(s)' = Posting(s) /\ Pending(s)' = Pending(s)
      BY <2>3 DEF Posting, Pending
    <3> QED
      BY <1>a, <2>3, <3>1, <3>2, BalanceKept
  <2> QED
    BY <1>c, <2>3, <2>4 DEF TokensBalance
<1>9. CASE ProcessData \/ LoseRequest \/ LoseFrame \/ UNCHANGED warpVars
  <2>1. UNCHANGED <<call, sniffer, control_sync, timed_out>>
    BY <1>9 DEF ProcessData, LoseRequest, LoseFrame, warpVars
  <2>2. /\ to_warp' = to_warp \/ (to_warp # <<>> /\ to_warp' = Tail(to_warp))
        /\ from_warp' = from_warp \/ (from_warp # <<>> /\ from_warp' = Tail(from_warp))
    BY <1>9 DEF ProcessData, LoseRequest, LoseFrame, warpVars
  <2>3. \A i \in DOMAIN to_warp' : \E j \in DOMAIN to_warp : to_warp'[i] = to_warp[j]
    <3>1. CASE to_warp' = to_warp
      BY <3>1
    <3>2. CASE to_warp # <<>> /\ to_warp' = Tail(to_warp)
      <4>1. \A i \in DOMAIN to_warp' : i + 1 \in DOMAIN to_warp /\ to_warp'[i] = to_warp[i + 1]
        BY <1>a, <3>2, TailFacts
      <4> QED
        BY <4>1, Zenon
    <3> QED
      BY <2>2, <3>1, <3>2
  <2>4. \A i \in DOMAIN from_warp' : \E j \in DOMAIN from_warp : from_warp'[i] = from_warp[j]
    <3>1. CASE from_warp' = from_warp
      BY <3>1
    <3>2. CASE from_warp # <<>> /\ from_warp' = Tail(from_warp)
      <4>1. \A i \in DOMAIN from_warp' : i + 1 \in DOMAIN from_warp /\ from_warp'[i] = from_warp[i + 1]
        BY <1>a, <3>2, TailFacts
      <4> QED
        BY <4>1, Zenon
    <3> QED
      BY <2>2, <3>1, <3>2
  <2>5. ASSUME NEW s \in Subtypes PROVE Balance(s)'
    <3>1. FlightIds(to_warp', from_warp', s) \subseteq FlightIds(to_warp, from_warp, s)
      BY <2>3, <2>4, FlightShrinks
    <3>2. Posting(s)' = Posting(s) /\ Pending(s)' = Pending(s)
      BY <2>1 DEF Posting, Pending
    <3> QED
      BY <1>a, <2>1, <3>1, <3>2, BalanceKept
  <2> QED
    BY <1>c, <2>1, <2>5 DEF TokensBalance
<1> QED
  BY <1>1, <1>2, <1>3, <1>4, <1>5, <1>6, <1>7, <1>8, <1>9 DEF WarpNext, Caller, Surroundings

LEMMA TokensBalanceInit == WarpInit => TokensBalance
<1> SUFFICES ASSUME WarpInit PROVE TokensBalance
  OBVIOUS
<1>1. ExpiredBefore
  BY FS_EmptySet DEF WarpInit, ExpiredBefore
<1>2. ASSUME NEW s \in Subtypes PROVE Balance(s)
  <2>1. FlightIds(to_warp, from_warp, s) = {} /\ ExpiredWaits(s) = {}
    BY DEF WarpInit, FlightIds, ExpiredWaits
  <2>2. control_sync[s] = 0 /\ ~Posting(s) /\ Cardinality({}) = 0
    BY FS_EmptySet DEF WarpInit, Posting
  <2> QED
    BY <2>1, <2>2 DEF Balance
<1> QED
  BY <1>1, <1>2 DEF TokensBalance

\* sem_post and sem_timedwait stay paired: for any number of requests a semaphore
\* holds at most one token for every expired wait of its subtype, and one more
\* while a caller waits on it.
THEOREM TokensPaired == WarpSpec => []StrayTokensFromTimeouts
<1>1. WarpInv /\ TokensBalance => StrayTokensFromTimeouts
  <2> SUFFICES ASSUME WarpInv, TokensBalance, NEW s \in Subtypes
               PROVE  control_sync[s] <= Cardinality(ExpiredWaits(s))
                                         + (IF Pending(s) THEN 1 ELSE 0)
    BY DEF StrayTokensFromTimeouts, ExpiredWaits, Pending
  <2>1. /\ Cardinality(FlightIds(to_warp, from_warp, s)) \in Nat
        /\ Cardinality(ExpiredWaits(s)) \in Nat /\ control_sync[s] \in Nat
    BY FlightFinite, Counts, ExpiredFinite DEF WarpInv, TokensBalance, WarpTypeOK
  <2> QED
    BY <2>1 DEF TokensBalance, Balance
<1>2. WarpSpec => []TokensBalance
  BY WarpInvariant, TokensBalanceInit, TokensBalanceStep, PTL DEF WarpSpec
<1> QED
  BY <1>1, <1>2, WarpInvariant, PTL
=============================================================================
