----------------------------- MODULE RadiusClient -----------------------------
(***************************************************************************)
(* hostapd's RADIUS client (hostapd-0.7.3Kevin/src/radius/radius_client.c):*)
(* the list of requests that wait for an answer, their identifiers, the    *)
(* retransmission timer with its exponential backoff, the limits of the    *)
(* list, and the failover to another server.                               *)
(*                                                                         *)
(* Times are seconds from now, 0 once they are reached.  The network may   *)
(* lose, delay, reorder and repeat; `wire' holds the requests a server has *)
(* received and may still answer.  A server answers only a request signed  *)
(* with its own shared secret.  Timeouts of the same second count as one.  *)
(***************************************************************************)
EXTENDS Integers, Sequences, FiniteSets, FiniteSetsExt, TLC

CONSTANTS Addrs,         \* the stations
          Types,         \* the message types in use
          NumIds,        \* identifiers are 0..NumIds-1 (256)
          MaxEntries,    \* RADIUS_CLIENT_MAX_ENTRIES (30)
          FirstWait,     \* RADIUS_CLIENT_FIRST_WAIT (3)
          MaxWait,       \* RADIUS_CLIENT_MAX_WAIT (120)
          MaxRetries,    \* RADIUS_CLIENT_MAX_RETRIES (10)
          NumFailover,   \* RADIUS_CLIENT_NUM_FAILOVER (4)
          AuthSecrets,   \* the shared secrets of auth_servers
          AcctSecrets,   \* the shared secrets of acct_servers
          SendErrors,    \* may send() fail with ENOTCONN or the like?
          MaxSends       \* bound: requests sent

ASSUME RadiusAssumption ==
  /\ Types \subseteq {"AUTH", "ACCT", "ACCT_INTERIM"}
  /\ NumIds \in Nat /\ NumIds > 1 /\ MaxEntries \in Nat /\ MaxEntries > 0
  /\ FirstWait \in Nat /\ FirstWait > 0 /\ MaxWait \in Nat /\ MaxWait >= 2 * FirstWait
  /\ MaxRetries \in Nat /\ NumFailover \in Nat /\ MaxRetries > NumFailover /\ NumFailover > 0
  /\ AuthSecrets \in Seq(Range(AuthSecrets)) /\ AuthSecrets # <<>>
  /\ AcctSecrets \in Seq(Range(AcctSecrets)) /\ AcctSecrets # <<>>
  /\ SendErrors \in BOOLEAN /\ MaxSends \in Nat

VARIABLES
  msgs,                      \* the list, newest entry first
  num_msgs,
  next_radius_identifier,
  timers,                    \* the registered timeouts of radius_client_timer
  server,                    \* conf->auth_server and conf->acct_server
  wire,                      \* requests that a server may still answer
  dangling,                  \* has the timer used an entry it had freed?
  sends                      \* requests sent so far

clientVars == <<msgs, num_msgs, timers>>
radiusVars == <<clientVars, next_radius_identifier, server, wire, dangling, sends>>

Least(a, b) == IF a < b THEN a ELSE b
Class(type) == IF type = "AUTH" THEN "auth" ELSE "acct"
Secrets == [auth |-> AuthSecrets, acct |-> AcctSecrets]
Secret(srv, class) == Secrets[class][srv[class]]

\* The list without the entries at some positions; the others keep their order.
Nth(positions, k) == CHOOSE i \in positions : Cardinality({j \in positions : j <= i}) = k
Without(list, gone) ==
  LET kept == DOMAIN list \ gone
  IN  [k \in 1..Cardinality(kept) |-> list[Nth(kept, k)]]

Drop(list, Out(_)) == Without(list, {k \in DOMAIN list : Out(list[k])})
Update(list, Of(_), To(_)) == [k \in DOMAIN list |-> IF Of(list[k]) THEN To(list[k]) ELSE list[k]]

RadiusInit ==
  /\ msgs = <<>> /\ num_msgs = 0 /\ next_radius_identifier = 0 /\ timers = {}
  /\ server = [auth |-> 1, acct |-> 1]
  /\ wire = {} /\ dangling = FALSE /\ sends = 0

\* What a server is given when e is sent to the current one.
OnWire(e, srv) ==
  {r \in {[id |-> e.id, type |-> e.type, addr |-> e.addr, secret |-> e.secret, old |-> FALSE]} :
     r.secret = Secret(srv, Class(e.type))}

\* The client's own state, for the operations that are called in sequence.
Client(list, num, at) == [msgs |-> list, num |-> num, timers |-> at]

radius_client_flush(c, only_auth) ==
  LET left == Drop(c.msgs, LAMBDA e : ~only_auth \/ e.type = "AUTH")
  IN  Client(left, c.num - (Len(c.msgs) - Len(left)), IF left = <<>> THEN {} ELSE c.timers)

\* Interim updates keep their secret and their counters.
radius_client_update_acct_msgs(c, secret) ==
  [c EXCEPT !.msgs = Update(@, LAMBDA e : e.type = "ACCT",
                               LAMBDA e : [e EXCEPT !.secret = secret])]

\* The retry counters are reset for the new server.
StartOver(e) == [e EXCEPT !.next_try = e.first, !.attempts = 0, !.next_wait = 2 * FirstWait]

\* differs: is there no old server, or has it another secret?
radius_change_server(c, class, secret, differs) ==
  LET signed == IF ~differs THEN c
                ELSE IF class = "auth" THEN radius_client_flush(c, TRUE)
                ELSE radius_client_update_acct_msgs(c, secret)
      type == IF class = "auth" THEN "AUTH" ELSE "ACCT"
      reset == Update(signed.msgs, LAMBDA e : e.type = type, StartOver)
  IN  Client(reset, signed.num, IF reset = <<>> THEN signed.timers ELSE {FirstWait})

\* The socket is opened anew: as for a change to the same server.
radius_client_handle_send_error(c, class) ==
  radius_change_server(c, class, Secret(server, class), TRUE)

radius_client_update_timeout(c) ==
  [c EXCEPT !.timers = IF c.msgs = <<>> THEN {}
                       ELSE {Min({c.msgs[k].next_try : k \in DOMAIN c.msgs})}]

\* At the limit the oldest entry makes room and num_msgs stays as it is.
radius_client_list_add(c, e) ==
  LET timed == radius_client_update_timeout([c EXCEPT !.msgs = <<e>> \o @])
  IN  IF c.num < MaxEntries THEN [timed EXCEPT !.num = @ + 1]
      ELSE IF Len(timed.msgs) > 1 THEN [timed EXCEPT !.msgs = SubSeq(@, 1, Len(@) - 1)]
      ELSE timed

radius_client_list_del(c, type, addr) ==
  LET left == Drop(c.msgs, LAMBDA e : e.type = type /\ e.addr = addr)
  IN  Client(left, c.num - (Len(c.msgs) - Len(left)), c.timers)

\* Entries with the identifier leave the list, but num_msgs is left alone.
radius_client_get_id(c, id) == [c EXCEPT !.msgs = Drop(@, LAMBDA e : e.id = id)]

SetClient(c) ==
  \E new \in {c} : msgs' = new.msgs /\ num_msgs' = new.num /\ timers' = new.timers

\* radius_client_get_id and radius_client_send, which its callers call in turn.
radius_client_send(type, addr) ==
  LET id == next_radius_identifier
      class == Class(type)
      free == radius_client_get_id(Client(msgs, num_msgs, timers), id)
      room == IF type = "ACCT_INTERIM" THEN radius_client_list_del(free, type, addr) ELSE free
      e == [id |-> id, type |-> type, addr |-> addr, secret |-> Secret(server, class),
            attempts |-> 1, first |-> FirstWait, next_try |-> FirstWait,
            next_wait |-> 2 * FirstWait]
      reused == {[r EXCEPT !.old = r.old \/ r.id = id] : r \in wire}
  IN  /\ ~dangling /\ sends < MaxSends
      /\ sends' = sends + 1
      /\ next_radius_identifier' = (id + 1) % NumIds
      /\ \/ /\ SetClient(radius_client_list_add(room, e))
            /\ wire' = reused \cup OnWire(e, server)
         \/ /\ SendErrors
            /\ SetClient(radius_client_list_add(radius_client_handle_send_error(room, class), e))
            /\ wire' = reused
      /\ UNCHANGED <<server, dangling>>

-----------------------------------------------------------------------------
(***************************************************************************)
(* radius_client_timer walks the list from its head.  At its turn an entry *)
(* that is due is sent again; sending the entries at `fails' fails.  Each  *)
(* failure opens the socket anew and starts the accounting requests over,  *)
(* those before it, those after it and its own.                            *)
(***************************************************************************)
\* Faulty variant: an entry never gets to its last attempt.
RadiusClientRetransmitForever(e) ==
  [e EXCEPT !.attempts = Least(@ + 1, MaxRetries - 1), !.next_try = e.next_wait,
            !.next_wait = Least(2 * @, MaxWait)]

radius_client_retransmit(e) ==
  [e EXCEPT !.attempts = @ + 1, !.next_try = e.next_wait,
            !.next_wait = Least(2 * @, MaxWait)]

GivenUp(e) == e.attempts >= MaxRetries

\* What a failed send makes of an entry of the list.
Reopened(e) ==
  IF e.type = "ACCT" THEN StartOver([e EXCEPT !.secret = Secret(server, "acct")]) ELSE e

\* The entry that the walk finds at its turn, what it leaves there, and what
\* later failures make of it.
Found(k, fails) == IF \E j \in fails : j < k THEN Reopened(msgs[k]) ELSE msgs[k]
IsDue(k, fails) == Found(k, fails).next_try = 0

Turn(k, fails) ==
  LET e == Found(k, fails)
  IN  IF ~IsDue(k, fails) THEN e
      ELSE IF k \in fails /\ e.type = "ACCT"  \* attempts was raised before it is reset
           THEN [radius_client_retransmit(Reopened(e)) EXCEPT !.attempts = 0]
      ELSE radius_client_retransmit(e)

Left(k, fails) ==
  IF \E j \in fails : j > k THEN Reopened(Turn(k, fails)) ELSE Turn(k, fails)

Kept(fails) == {k \in DOMAIN msgs : ~GivenUp(Turn(k, fails))}

Sent(fails) ==
  UNION {OnWire(Found(k, fails), server) : k \in {k \in DOMAIN msgs \ fails : IsDue(k, fails)}}

\* The classes that call for a failover.
Silent(fails) ==
  {Class(msgs[k].type) : k \in {k \in Kept(fails) : Turn(k, fails).attempts > NumFailover}}

\* After the walk: entries given up are gone, the timer is set for the next one.
Walked(fails) ==
  LET list == [k \in DOMAIN msgs |-> Left(k, fails)]
      left == Without(list, DOMAIN msgs \ Kept(fails))
  IN  Client(left, num_msgs - (Len(msgs) - Len(left)),
             (IF fails = {} THEN timers \ {0} ELSE {FirstWait})
             \cup (IF left = <<>> THEN {} ELSE {Min({Turn(k, fails).next_try : k \in Kept(fails)})}))

NextServer(srv, class) ==
  [srv EXCEPT ![class] = IF @ = Len(Secrets[class]) THEN 1 ELSE @ + 1]

\* Faulty variant: pending requests are not signed anew.
FailoverKeepsMessages(c, srv, class) ==
  radius_change_server(c, class, Secret(NextServer(srv, class), class), FALSE)

Failover(c, srv, class) ==
  LET new == NextServer(srv, class)
  IN  radius_change_server(c, class, Secret(new, class),
                           Secret(new, class) # Secret(srv, class))

\* Faulty variant: the timer does not register itself again.
RadiusClientTimerOnce ==
  /\ ~dangling /\ 0 \in timers
  /\ SetClient([Walked({}) EXCEPT !.timers = timers \ {0}])
  /\ UNCHANGED <<next_radius_identifier, sends, server, wire, dangling>>

radius_client_timer ==
  /\ ~dangling /\ 0 \in timers
  /\ \E fails \in SUBSET (IF SendErrors THEN DOMAIN msgs ELSE {}) :
       /\ \A k \in fails : IsDue(k, fails)
       /\ IF \E k \in fails : msgs[k].type = "AUTH"
          THEN \* the entry is freed under radius_client_retransmit
               /\ dangling' = TRUE
               /\ UNCHANGED <<clientVars, server, wire>>
          ELSE LET over(class) == class \in Silent(fails) /\ Len(Secrets[class]) > 1
                   auth == IF over("auth") THEN Failover(Walked(fails), server, "auth")
                           ELSE Walked(fails)
                   srv == IF over("auth") THEN NextServer(server, "auth") ELSE server
               IN  /\ SetClient(IF over("acct") THEN Failover(auth, srv, "acct") ELSE auth)
                   /\ server' = IF over("acct") THEN NextServer(srv, "acct") ELSE srv
                   /\ wire' = wire \cup Sent(fails)
                   /\ UNCHANGED dangling
  /\ UNCHANGED <<next_radius_identifier, sends>>

\* Back to the first server of each kind.
radius_retry_primary_timer ==
  /\ ~dangling /\ (server.auth # 1 \/ server.acct # 1)
  /\ LET Primary(c, class) ==
           IF server[class] = 1 THEN c
           ELSE radius_change_server(c, class, Secrets[class][1],
                                     Secrets[class][1] # Secret(server, class))
     IN  SetClient(Primary(Primary(Client(msgs, num_msgs, timers), "auth"), "acct"))
  /\ server' = [auth |-> 1, acct |-> 1]
  /\ UNCHANGED <<next_radius_identifier, wire, dangling, sends>>

-----------------------------------------------------------------------------
\* The request of the list that an answer to r is matched with: the type of its
\* socket and its identifier.  None when there is no such request.
Matches(r) == {k \in DOMAIN msgs : Class(msgs[k].type) = Class(r.type) /\ msgs[k].id = r.id}

\* Has the answer the authenticator that the matched request calls for?
Genuine(r, e) == ~r.old /\ r.addr = e.addr /\ r.type = e.type /\ r.secret = e.secret

\* The answer to r arrives (and may arrive again).  The matched request leaves
\* the list before any handler has looked at the answer.
radius_client_receive(r) ==
  /\ ~dangling
  /\ wire' \in {wire, wire \ {r}}
  /\ IF Matches(r) = {} THEN UNCHANGED <<msgs, num_msgs>>
     ELSE /\ msgs' = Without(msgs, {Min(Matches(r))})
          /\ num_msgs' = num_msgs - 1
  /\ UNCHANGED <<timers, next_radius_identifier, server, dangling, sends>>

\* The station is removed (ap_free_sta).
radius_client_flush_auth(addr) ==
  /\ ~dangling
  /\ SetClient(radius_client_list_del(Client(msgs, num_msgs, timers), "AUTH", addr))
  /\ UNCHANGED <<next_radius_identifier, server, wire, dangling, sends>>

\* The configuration is loaded again.
Reload ==
  /\ ~dangling
  /\ SetClient(radius_client_flush(Client(msgs, num_msgs, timers), FALSE))
  /\ UNCHANGED <<next_radius_identifier, server, wire, dangling, sends>>

\* A second passes; a timeout that is due comes first.
Later(n) == IF n = 0 THEN 0 ELSE n - 1
Tick ==
  /\ ~dangling /\ 0 \notin timers
  /\ msgs' = Update(msgs, LAMBDA e : TRUE,
               LAMBDA e : [e EXCEPT !.first = Later(@), !.next_try = Later(@)])
  /\ timers' = {Later(t) : t \in timers}
  /\ UNCHANGED <<num_msgs, next_radius_identifier, server, wire, dangling, sends>>

RadiusNext ==
  \/ \E type \in Types, addr \in Addrs : radius_client_send(type, addr)
  \/ radius_client_timer \/ radius_retry_primary_timer \/ Tick \/ Reload
  \/ \E r \in wire : radius_client_receive(r)
  \/ \E addr \in Addrs : radius_client_flush_auth(addr)

RadiusSpec == RadiusInit /\ [][RadiusNext]_radiusVars

-----------------------------------------------------------------------------
Pending == {msgs[k] : k \in DOMAIN msgs}

Entries == [id : 0..NumIds - 1, type : Types, addr : Addrs, attempts : 0..MaxRetries - 1,
            secret : Range(AuthSecrets) \cup Range(AcctSecrets),
            first : 0..FirstWait, next_try : 0..MaxWait, next_wait : 1..MaxWait]

RadiusTypeOK ==
  /\ msgs \in Seq(Entries) /\ num_msgs \in 0..MaxEntries
  /\ next_radius_identifier \in 0..NumIds - 1
  /\ timers \subseteq 0..MaxWait
  /\ server \in [auth : DOMAIN AuthSecrets, acct : DOMAIN AcctSecrets]
  /\ dangling \in BOOLEAN /\ sends \in 0..MaxSends

\* While a request is pending, a timeout of radius_client_timer is registered,
\* whichever of send, failover, flush and answers came before.
PendingIsTimed == msgs # <<>> => timers # {}

\* radius_client_get_id's promise: an identifier is unique among the pending
\* requests of all types, and num_msgs never falls short of the list, so that
\* the limit on its length holds and num_msgs, a size_t, never wraps.
IdsUniqueAndBounded ==
  /\ \A j, k \in DOMAIN msgs : msgs[j].id = msgs[k].id => j = k
  /\ Len(msgs) <= num_msgs /\ num_msgs <= MaxEntries

\* At most one interim update of a station is pending, through failovers,
\* send errors and reused identifiers.
OneInterimEach ==
  \A j, k \in DOMAIN msgs :
    msgs[j].type = "ACCT_INTERIM" /\ msgs[k].type = "ACCT_INTERIM" /\ msgs[j].addr = msgs[k].addr
      => j = k

\* The retransmission list is sound whatever the walk over it, its limit and
\* errors of sending have done: what is on it will be looked at again, and can
\* be told apart when an answer comes.
PendingListSound ==
  RadiusTypeOK /\ PendingIsTimed /\ IdsUniqueAndBounded /\ OneInterimEach

\* After any sequence of failovers and returns to the primary, a pending
\* authentication request or accounting message is signed for the server it
\* would be sent to.
SignedForServer ==
  \A e \in Pending : e.type # "ACCT_INTERIM" => e.secret = Secret(server, Class(e.type))

\* Every request leaves the list: it is answered, or given up after
\* RADIUS_CLIENT_MAX_RETRIES attempts.
EventuallyDone == <>(sends = MaxSends) => <>[](msgs = <<>>)
=============================================================================
