------------------------------ MODULE AclQueries ------------------------------
(***************************************************************************)
(* hostapd's access control by RADIUS (ap/ieee802_11_auth.c) on top of the *)
(* RADIUS client: an authentication frame of an unknown station is put     *)
(* aside with a query, the answer goes into a cache and the frame is       *)
(* processed once more.  802.1X shares the client and its identifiers.     *)
(* macaddr_acl is USE_EXTERNAL_RADIUS_AUTH and the station is on neither   *)
(* of the configured lists.                                                *)
(***************************************************************************)
EXTENDS RadiusClient

CONSTANTS AclTimeout,    \* RADIUS_ACL_TIMEOUT (30)
          AclPeriod      \* between two calls of hostapd_acl_expire (10)

ASSUME AclAssumption == AclTimeout \in Nat /\ AclPeriod \in Nat /\ AclPeriod > 0 /\ "AUTH" \in Types

VARIABLES
  acl_cache,             \* [addr, accepted, age], newest first
  acl_queries,           \* [addr, radius_id, age], newest first
  expire,                \* seconds until hostapd_acl_expire
  decided,               \* the last answer and what became of the frame
  crossed,               \* has an answer about another station been used?
  reused                 \* has an identifier been reused under a query?

aclVars == <<acl_cache, acl_queries, expire, decided, crossed, reused>>
vars == <<radiusVars, aclVars>>

Codes == {"ACCEPT", "ACCEPT_TIMEOUT", "REJECT", "CHALLENGE"}

Init ==
  /\ RadiusInit
  /\ acl_cache = <<>> /\ acl_queries = <<>> /\ expire = AclPeriod
  /\ decided = [code |-> "none", result |-> "none"]
  /\ crossed = FALSE /\ reused = FALSE

FirstOf(list, Test(_)) == {k \in DOMAIN list : Test(list[k]) /\ \A j \in 1..k - 1 : ~Test(list[j])}

\* The first entry of the station counts, even when it has expired.
hostapd_acl_cache_get(cache, addr) ==
  LET found == {cache[k] : k \in FirstOf(cache, LAMBDA e : e.addr = addr)}
  IN  {e.accepted : e \in {e \in found : e.age <= AclTimeout}}

\* Faulty variant: the pending queries are not looked at.
HostapdAllowedAddressAsksAgain(cache, addr) ==
  LET res == hostapd_acl_cache_get(cache, addr)
  IN  IF res # {} THEN CHOOSE x \in res : TRUE ELSE "QUERY"

\* ACCEPT, ACCEPT_TIMEOUT, REJECT, PENDING, or QUERY when one has to be made.
hostapd_allowed_address(cache, addr) ==
  LET res == hostapd_acl_cache_get(cache, addr)
  IN  IF res # {} THEN CHOOSE x \in res : TRUE
      ELSE IF \E k \in DOMAIN acl_queries : acl_queries[k].addr = addr THEN "PENDING"
      ELSE "QUERY"

ReusesId == \E k \in DOMAIN acl_queries : acl_queries[k].radius_id = next_radius_identifier

\* A frame of a station that neither the cache nor a query knows.
hostapd_radius_acl_query(addr) ==
  /\ hostapd_allowed_address(acl_cache, addr) = "QUERY"
  /\ radius_client_send("AUTH", addr)
  /\ acl_queries' = <<[addr |-> addr, radius_id |-> next_radius_identifier, age |-> 0]>> \o acl_queries
  /\ reused' = (reused \/ ReusesId)
  /\ UNCHANGED <<acl_cache, expire, decided, crossed>>

\* 802.1X sends a request of its own.
Eapol(addr) ==
  /\ radius_client_send("AUTH", addr)
  /\ reused' = (reused \/ ReusesId)
  /\ UNCHANGED <<acl_cache, acl_queries, expire, decided, crossed>>

Cached(entry) == <<entry>> \o acl_cache

\* Faulty variant: the answer is taken for the newest query.
QueryOfAny(id) == {k \in DOMAIN acl_queries : k = 1}

QueryOf(id) == FirstOf(acl_queries, LAMBDA q : q.radius_id = id)

\* The handler of an answer to the pending request that r is matched with.
\* The frame is processed while its query is still on the list.
hostapd_acl_recv_radius(r, code) ==
  LET k == CHOOSE j \in QueryOf(r.id) : TRUE
      q == acl_queries[k]
      cache == Cached([addr |-> q.addr, accepted |-> code, age |-> 0])
  IN  IF QueryOf(r.id) = {} \/ ~Genuine(r, msgs[Min(Matches(r))]) \/ code = "CHALLENGE"
      THEN UNCHANGED aclVars
      ELSE /\ acl_cache' = cache
           /\ decided' = [code |-> code, result |-> hostapd_allowed_address(cache, q.addr)]
           /\ acl_queries' = Without(acl_queries, {k})
           /\ crossed' = (crossed \/ r.addr # q.addr)
           /\ UNCHANGED <<expire, reused>>

Receive(r, code) ==
  /\ radius_client_receive(r)
  /\ IF Matches(r) = {} THEN UNCHANGED aclVars ELSE hostapd_acl_recv_radius(r, code)

\* Faulty variant: queries do not expire.
HostapdAclExpireCacheOnly ==
  /\ expire = 0 /\ ~dangling
  /\ expire' = AclPeriod
  /\ acl_cache' = Drop(acl_cache, LAMBDA e : e.age > AclTimeout)
  /\ UNCHANGED <<radiusVars, acl_queries, decided, crossed, reused>>

hostapd_acl_expire ==
  /\ expire = 0 /\ ~dangling
  /\ expire' = AclPeriod
  /\ acl_cache' = Drop(acl_cache, LAMBDA e : e.age > AclTimeout)
  /\ acl_queries' = Drop(acl_queries, LAMBDA q : q.age > AclTimeout)
  /\ UNCHANGED <<radiusVars, decided, crossed, reused>>

Older(list) ==
  Update(list, LAMBDA e : TRUE, LAMBDA e : [e EXCEPT !.age = Least(@ + 1, AclTimeout + 1)])

Second ==
  /\ expire > 0 /\ Tick
  /\ expire' = expire - 1
  /\ acl_cache' = Older(acl_cache) /\ acl_queries' = Older(acl_queries)
  /\ UNCHANGED <<decided, crossed, reused>>

Next ==
  \/ \E addr \in Addrs : hostapd_radius_acl_query(addr) \/ Eapol(addr)
  \/ \E r \in wire, code \in Codes : Receive(r, code)
  \/ hostapd_acl_expire \/ Second
  \/ (radius_client_timer \/ \E addr \in Addrs : radius_client_flush_auth(addr)) /\ UNCHANGED aclVars

\* The timeouts of the event loop, and the passing of time: weak fairness, written
\* out with what enables these actions.
Spec == /\ Init /\ [][Next]_vars
        /\ []<>(expire # 0) \/ []<><<hostapd_acl_expire>>_vars
        /\ []<>(expire = 0 \/ 0 \in timers) \/ []<><<Second>>_vars
        /\ []<>(0 \notin timers) \/ []<><<radius_client_timer /\ UNCHANGED aclVars>>_vars

-----------------------------------------------------------------------------
AclTypeOK ==
  /\ acl_cache \in Seq([addr : Addrs, accepted : Codes \ {"CHALLENGE"}, age : 0..AclTimeout + 1])
  /\ acl_queries \in Seq([addr : Addrs, radius_id : 0..NumIds - 1, age : 0..AclTimeout + 1])
  /\ expire \in 0..AclPeriod

\* However often a station repeats its frame, and although the client may drop
\* the request, one query of the station is pending at a time.
OneQueryEach ==
  /\ AclTypeOK
  /\ \A j, k \in DOMAIN acl_queries : acl_queries[j].addr = acl_queries[k].addr => j = k

\* The frame that was put aside is decided by the answer: expired entries of the
\* station in the cache do not hide it, and no second query is made.
AnswerDecides == decided.code = decided.result

\* An answer is used for the station it is about, as long as the identifiers
\* do not come round while a query is pending.
AnswersOwnQuery == crossed => reused

\* An answer has exactly the effect it should: on its own station's frame.
AnswersTakeEffect == AnswerDecides /\ AnswersOwnQuery

\* A query does not stay pending for ever, even when its request has been
\* dropped from the client's list or is never answered.
QueryEnds ==
  \A addr \in Addrs :
    (\E k \in DOMAIN acl_queries : acl_queries[k].addr = addr)
      ~> ~\E k \in DOMAIN acl_queries : acl_queries[k].addr = addr
=============================================================================
