--------------------------- MODULE AclQueries_proofs ---------------------------
(***************************************************************************)
(* Proofs about hostapd's RADIUS client and the access control on top of   *)
(* it, for any number of identifiers, entries, servers and retries.        *)
(***************************************************************************)
EXTENDS AclQueries, FiniteSetTheorems, WellFoundedInduction, TLAPS

(***************************************************************************)
(* Lemmas about lists: what is left when entries are taken out.            *)
(***************************************************************************)

\* Every set of naturals that is not empty has a least element.
LEMMA SetHasLeast ==
  ASSUME NEW S \in SUBSET Nat, S # {}
  PROVE  \E x \in S : \A y \in S : x <= y
<1> DEFINE R == OpToRel(<, Nat)
<1>1. PICK x \in S : \A y \in S : ~ (<<y, x>> \in R)
  <2>1. IsWellFoundedOn(R, Nat)
    BY NatLessThanWellFounded
  <2> HIDE DEF R
  <2> QED
    BY <2>1, WFMin
<1>2. ASSUME NEW y \in S PROVE x <= y
  <2>1. y < x => <<y, x>> \in R
    BY DEF OpToRel
  <2>2. ~(y < x)
    BY <1>1, <2>1, Zenon
  <2> HIDE DEF R
  <2> QED
    BY <2>2, SMT
<1> QED
  BY <1>2

LEMMA MinOf ==
  ASSUME NEW S \in SUBSET Nat, S # {}
  PROVE  Min(S) \in S /\ \A y \in S : Min(S) <= y
BY SetHasLeast DEF Min

\* The positions up to i.
UpTo(P, i) == {j \in P : j <= i}

LEMMA IntervalSize ==
  ASSUME NEW n \in Nat
  PROVE  IsFiniteSet(1..n) /\ Cardinality(1..n) = n
BY FS_Interval

LEMMA UpToFinite ==
  ASSUME NEW n \in Nat, NEW P \in SUBSET (1..n), NEW i \in Nat
  PROVE  /\ IsFiniteSet(P) /\ IsFiniteSet(UpTo(P, i))
         /\ Cardinality(P) \in Nat /\ Cardinality(UpTo(P, i)) \in Nat
         /\ Cardinality(P) <= n
<1>1. IsFiniteSet(1..n) /\ Cardinality(1..n) = n
  BY IntervalSize
<1>2. IsFiniteSet(P) /\ Cardinality(P) <= n
  BY <1>1, FS_Subset
<1>3. IsFiniteSet(UpTo(P, i))
  BY <1>2, FS_Subset DEF UpTo
<1> QED BY <1>2, <1>3, FS_CardinalityType

\* The set has as many positions as it has: each of them is reached.
LEMMA NthExists ==
  ASSUME NEW n \in Nat, NEW P \in SUBSET (1..n), NEW k \in 1..Cardinality(P)
  PROVE  Nth(P, k) \in P /\ Cardinality(UpTo(P, Nth(P, k))) = k
<1> DEFINE T == {i \in 1..n : Cardinality(UpTo(P, i)) >= k}
<1>0. Cardinality(P) \in Nat /\ k \in Nat /\ k >= 1
  BY UpToFinite
<1>p. \A j \in P : j \in Nat /\ j >= 1 /\ j <= n
  OBVIOUS
<1>1. n \in T
  <2>1. UpTo(P, n) = P
    BY <1>p, Zenon DEF UpTo
  <2>2. n # 0
    <3>1. ASSUME n = 0 PROVE FALSE
      <4>1. P = {}
        BY <3>1
      <4> QED BY <1>0, <4>1, FS_EmptySet
    <3> QED BY <3>1
  <2> QED BY <1>0, <2>1, <2>2
<1>2. PICK i \in T : \A y \in T : i <= y
  <2>1. T \in SUBSET Nat /\ T # {}
    BY <1>1
  <2> HIDE DEF T
  <2> QED BY <2>1, SetHasLeast
<1>3. i \in 1..n /\ Cardinality(UpTo(P, i)) >= k /\ i - 1 \in Nat
  BY <1>2
<1>u. \A j \in P : (j <= i) <=> (j <= i - 1 \/ j = i)
  BY <1>3, <1>p
<1>v. ~(i <= i - 1)
  BY <1>3
<1>4. IsFiniteSet(UpTo(P, i - 1)) /\ Cardinality(UpTo(P, i - 1)) \in Nat
  BY <1>3, UpToFinite, Zenon
<1>5. Cardinality(UpTo(P, i - 1)) < k
  <2>1. CASE i - 1 \in 1..n
    <3>1. i - 1 \notin T
      BY <1>2, <1>3
    <3> QED BY <1>0, <1>4, <2>1, <3>1
  <2>2. CASE i = 1
    <3>1. UpTo(P, i - 1) = {}
      <4>1. \A j \in P : ~(j <= i - 1)
        BY <1>p, <2>2
      <4> QED BY <4>1, Zenon DEF UpTo
    <3> QED BY <1>0, <3>1, FS_EmptySet
  <2> QED BY <1>3, <2>1, <2>2
<1>6. i \in P
  <2>1. ASSUME i \notin P PROVE FALSE
    <3>1. UpTo(P, i) = UpTo(P, i - 1)
      BY <1>u, <2>1, Zenon DEF UpTo
    <3> QED BY <1>0, <1>3, <1>4, <1>5, <3>1
  <2> QED BY <2>1
<1>7. Cardinality(UpTo(P, i)) = Cardinality(UpTo(P, i - 1)) + 1
  <2>1. UpTo(P, i) = UpTo(P, i - 1) \cup {i} /\ i \notin UpTo(P, i - 1)
    BY <1>u, <1>v, <1>6, Zenon DEF UpTo
  <2> QED BY <1>4, <2>1, FS_AddElement
<1>8. Cardinality(UpTo(P, i)) = k
  BY <1>0, <1>3, <1>4, <1>5, <1>7
<1> HIDE DEF T
<1>9. \E j \in P : Cardinality({l \in P : l <= j}) = k
  BY <1>6, <1>8 DEF UpTo
<1> QED BY <1>9 DEF Nth, UpTo

\* An entry that is left was on the list, at a position of its own that was kept.
LEMMA WithoutFacts ==
  ASSUME NEW S, NEW list \in Seq(S), NEW gone
  PROVE  /\ Without(list, gone) \in Seq(S)
         /\ Len(Without(list, gone)) \in Nat /\ Len(Without(list, gone)) <= Len(list)
         /\ Len(Without(list, gone)) = Cardinality(DOMAIN list \ gone)
         /\ \E h \in [DOMAIN Without(list, gone) -> DOMAIN list \ gone] :
              /\ \A k \in DOMAIN Without(list, gone) : Without(list, gone)[k] = list[h[k]]
              /\ \A k, l \in DOMAIN Without(list, gone) : h[k] = h[l] => k = l
<1> DEFINE kept == DOMAIN list \ gone
           h == [k \in 1..Cardinality(kept) |-> Nth(kept, k)]
<1>1. Len(list) \in Nat /\ kept \in SUBSET (1..Len(list))
  OBVIOUS
<1>2. Cardinality(kept) \in Nat /\ Cardinality(kept) <= Len(list)
  BY <1>1, UpToFinite, Zenon
<1>3. \A k \in 1..Cardinality(kept) :
        Nth(kept, k) \in kept /\ Cardinality(UpTo(kept, Nth(kept, k))) = k
  BY <1>1, NthExists, Zenon
<1>4. \A k \in 1..Cardinality(kept) : list[Nth(kept, k)] \in S
  BY <1>3
<1>5. Without(list, gone) = [k \in 1..Cardinality(kept) |-> list[Nth(kept, k)]]
  BY DEF Without
<1> HIDE DEF kept
<1>6. /\ Without(list, gone) \in Seq(S)
      /\ Len(Without(list, gone)) = Cardinality(kept)
      /\ DOMAIN Without(list, gone) = 1..Cardinality(kept)
  BY <1>2, <1>4, <1>5
<1>7. h \in [1..Cardinality(kept) -> kept]
  BY <1>3
<1>8. \A k, l \in 1..Cardinality(kept) : h[k] = h[l] => k = l
  BY <1>3
<1>9. \A k \in 1..Cardinality(kept) : Without(list, gone)[k] = list[h[k]]
  BY <1>5
<1> HIDE DEF h
<1>10. h \in [DOMAIN Without(list, gone) -> DOMAIN list \ gone]
  BY <1>6, <1>7 DEF kept
<1>11. Len(Without(list, gone)) = Cardinality(DOMAIN list \ gone)
  BY <1>6 DEF kept
<1> QED BY <1>2, <1>6, <1>8, <1>9, <1>10, <1>11

LEMMA WithoutOne ==
  ASSUME NEW S, NEW list \in Seq(S), NEW i \in DOMAIN list
  PROVE  Len(Without(list, {i})) = Len(list) - 1
<1>1. Len(list) \in Nat /\ DOMAIN list = 1..Len(list)
  OBVIOUS
<1>2. IsFiniteSet(DOMAIN list) /\ Cardinality(DOMAIN list) = Len(list)
  BY <1>1, IntervalSize
<1>3. Cardinality(DOMAIN list \ {i}) = Len(list) - 1
  BY <1>2, FS_RemoveElement
<1> QED BY <1>3, WithoutFacts

-----------------------------------------------------------------------------
(***************************************************************************)
(* A client that is sound.                                                 *)
(***************************************************************************)
LEMMA Constants ==
  /\ NumIds \in Nat /\ NumIds > 1 /\ MaxEntries \in Nat /\ MaxEntries > 0
  /\ FirstWait \in Nat /\ FirstWait > 0 /\ MaxWait \in Nat /\ 2 * FirstWait <= MaxWait
  /\ MaxRetries \in Nat /\ MaxRetries > 1 /\ MaxSends \in Nat
BY RadiusAssumption

Servers == [auth : DOMAIN AuthSecrets, acct : DOMAIN AcctSecrets]
AllSecrets == Range(AuthSecrets) \cup Range(AcctSecrets)

\* There is a first server of each kind, and a next one.
LEMMA ServerFacts ==
  ASSUME NEW srv \in Servers, NEW class \in {"auth", "acct"}
  PROVE  /\ [auth |-> 1, acct |-> 1] \in Servers
         /\ NextServer(srv, class) \in Servers
         /\ \A other \in {"auth", "acct"} \ {class} : NextServer(srv, class)[other] = srv[other]
         /\ Secret(srv, class) \in AllSecrets
<1>1. /\ AuthSecrets \in Seq(Range(AuthSecrets)) /\ Len(AuthSecrets) \in Nat
      /\ Len(AuthSecrets) > 0 /\ DOMAIN AuthSecrets = 1..Len(AuthSecrets)
  BY RadiusAssumption
<1>2. /\ AcctSecrets \in Seq(Range(AcctSecrets)) /\ Len(AcctSecrets) \in Nat
      /\ Len(AcctSecrets) > 0 /\ DOMAIN AcctSecrets = 1..Len(AcctSecrets)
  BY RadiusAssumption
<1>3. [auth |-> 1, acct |-> 1] \in Servers
  BY <1>1, <1>2 DEF Servers
<1>4. Secrets["auth"] = AuthSecrets /\ Secrets["acct"] = AcctSecrets
  BY DEF Secrets
<1>5. CASE class = "auth"
  <2>1. srv["auth"] \in 1..Len(AuthSecrets)
    BY <1>1 DEF Servers
  <2>2. NextServer(srv, "auth") =
          [srv EXCEPT !["auth"] = IF srv["auth"] = Len(AuthSecrets) THEN 1 ELSE srv["auth"] + 1]
    BY <1>4 DEF NextServer
  <2>3. NextServer(srv, "auth") \in Servers /\ NextServer(srv, "auth")["acct"] = srv["acct"]
    BY <1>1, <2>1, <2>2 DEF Servers
  <2>4. Secret(srv, "auth") \in AllSecrets
    BY <1>1, <1>4, <2>1 DEF Secret, AllSecrets
  <2> QED BY <1>3, <1>5, <2>3, <2>4
<1>6. CASE class = "acct"
  <2>1. srv["acct"] \in 1..Len(AcctSecrets)
    BY <1>2 DEF Servers
  <2>2. NextServer(srv, "acct") =
          [srv EXCEPT !["acct"] = IF srv["acct"] = Len(AcctSecrets) THEN 1 ELSE srv["acct"] + 1]
    BY <1>4 DEF NextServer
  <2>3. NextServer(srv, "acct") \in Servers /\ NextServer(srv, "acct")["auth"] = srv["auth"]
    BY <1>2, <2>1, <2>2 DEF Servers
  <2>4. Secret(srv, "acct") \in AllSecrets
    BY <1>2, <1>4, <2>1 DEF Secret, AllSecrets
  <2> QED BY <1>3, <1>6, <2>3, <2>4
<1> QED BY <1>5, <1>6

\* Two entries stand for the same request; every entry of a list stands for one
\* of another list.
SameRequest(e, f) == e.id = f.id /\ e.type = f.type /\ e.addr = f.addr
ComesFrom(new, old) == \A k \in DOMAIN new : \E j \in DOMAIN old : SameRequest(new[k], old[j])

OneOfEach(list) ==
  /\ \A j, k \in DOMAIN list : list[j].id = list[k].id => j = k
  /\ \A j, k \in DOMAIN list :
       list[j].type = "ACCT_INTERIM" /\ list[k].type = "ACCT_INTERIM" /\ list[j].addr = list[k].addr
         => j = k

SignedFor(e, srv) == e.type # "ACCT_INTERIM" => e.secret = Secret(srv, Class(e.type))

ListSound(list, srv) ==
  list \in Seq(Entries) /\ OneOfEach(list) /\ \A k \in DOMAIN list : SignedFor(list[k], srv)

Clients == [msgs : Seq(Entries), num : 0..MaxEntries, timers : SUBSET (0..MaxWait)]

\* What the client's state satisfies between any two of its operations.
ClientSound(c, srv) ==
  /\ c \in Clients /\ ListSound(c.msgs, srv) /\ Len(c.msgs) <= c.num
  /\ c.msgs # <<>> => c.timers # {}

LEMMA ComesFromTransitive ==
  ASSUME NEW a, NEW b, NEW c, ComesFrom(a, b), ComesFrom(b, c)
  PROVE  ComesFrom(a, c)
BY DEF ComesFrom, SameRequest

\* Entries at positions of their own stay apart.
LEMMA ApartFrom ==
  ASSUME NEW new, NEW old, OneOfEach(old), NEW h \in [DOMAIN new -> DOMAIN old],
         \A k \in DOMAIN new : SameRequest(new[k], old[h[k]]),
         \A k, l \in DOMAIN new : h[k] = h[l] => k = l
  PROVE  OneOfEach(new) /\ ComesFrom(new, old)
BY DEF OneOfEach, ComesFrom, SameRequest

LEMMA WithoutSound ==
  ASSUME NEW list, NEW gone, list \in Seq(Entries), OneOfEach(list)
  PROVE  /\ Without(list, gone) \in Seq(Entries) /\ OneOfEach(Without(list, gone))
         /\ Len(Without(list, gone)) \in Nat /\ Len(Without(list, gone)) <= Len(list)
         /\ ComesFrom(Without(list, gone), list)
         /\ \A k \in DOMAIN Without(list, gone) :
              \E j \in DOMAIN list \ gone : Without(list, gone)[k] = list[j]
<1> DEFINE new == Without(list, gone)
<1>1. /\ new \in Seq(Entries) /\ Len(new) \in Nat /\ Len(new) <= Len(list)
      /\ \E h \in [DOMAIN new -> DOMAIN list \ gone] :
           /\ \A k \in DOMAIN new : new[k] = list[h[k]]
           /\ \A k, l \in DOMAIN new : h[k] = h[l] => k = l
  BY WithoutFacts
<1> HIDE DEF new
<1>2. PICK h \in [DOMAIN new -> DOMAIN list \ gone] :
           /\ \A k \in DOMAIN new : new[k] = list[h[k]]
           /\ \A k, l \in DOMAIN new : h[k] = h[l] => k = l
  BY <1>1
<1>3. h \in [DOMAIN new -> DOMAIN list] /\ \A k \in DOMAIN new : SameRequest(new[k], list[h[k]])
  BY <1>2 DEF SameRequest
<1>4. OneOfEach(new) /\ ComesFrom(new, list)
  BY <1>2, <1>3, ApartFrom
<1>5. \A k \in DOMAIN new : \E j \in DOMAIN list \ gone : new[k] = list[j]
  BY <1>2
<1> QED BY <1>1, <1>4, <1>5 DEF new

\* A list whose entries are changed in place.
LEMMA InPlace ==
  ASSUME NEW list, NEW new, OneOfEach(list), DOMAIN new = DOMAIN list,
         \A k \in DOMAIN list : SameRequest(new[k], list[k])
  PROVE  OneOfEach(new) /\ ComesFrom(new, list)
BY DEF OneOfEach, ComesFrom, SameRequest

\* Entries that are started over, or sent again.
LEMMA StartOverEntry ==
  ASSUME NEW e \in Entries
  PROVE  /\ StartOver(e) \in Entries /\ SameRequest(StartOver(e), e)
         /\ StartOver(e).secret = e.secret
<1> DEFINE a == [e EXCEPT !.next_try = e.first]
           b == [a EXCEPT !.attempts = 0]
           n == [b EXCEPT !.next_wait = 2 * FirstWait]
<1>1. e.first \in 0..MaxWait /\ 0 \in 0..MaxRetries - 1 /\ 2 * FirstWait \in 1..MaxWait
  BY Constants DEF Entries
<1>2. a \in Entries
  BY <1>1 DEF Entries
<1>3. StartOver(e) = n
  BY DEF StartOver, Entries
<1>4. SameRequest(a, e) /\ a.secret = e.secret
  BY DEF Entries, SameRequest
<1> HIDE DEF a
<1>5. b \in Entries /\ SameRequest(b, a) /\ b.secret = a.secret
  BY <1>1, <1>2 DEF Entries, SameRequest
<1> HIDE DEF b
<1>6. n \in Entries /\ SameRequest(n, b) /\ n.secret = b.secret
  BY <1>1, <1>5 DEF Entries, SameRequest
<1> QED BY <1>3, <1>4, <1>5, <1>6 DEF SameRequest

LEMMA SecretEntry ==
  ASSUME NEW e \in Entries, NEW s \in AllSecrets
  PROVE  /\ [e EXCEPT !.secret = s] \in Entries /\ SameRequest([e EXCEPT !.secret = s], e)
         /\ [e EXCEPT !.secret = s].secret = s
BY DEF Entries, SameRequest, AllSecrets

\* An entry in the walk, whatever its attempts.
Tried == [id : 0..NumIds - 1, type : Types, addr : Addrs, attempts : Nat,
          secret : AllSecrets, first : 0..FirstWait, next_try : 0..MaxWait,
          next_wait : 1..MaxWait]

LEMMA TriedEntry ==
  ASSUME NEW e \in Tried
  PROVE  /\ ~GivenUp(e) => e \in Entries
         /\ [e EXCEPT !.attempts = 0] \in Entries
         /\ SameRequest([e EXCEPT !.attempts = 0], e)
         /\ [e EXCEPT !.attempts = 0].secret = e.secret
<1>1. 0 \in 0..MaxRetries - 1
  BY Constants
<1>2. [e EXCEPT !.attempts = 0] \in Entries
  BY <1>1 DEF Tried, Entries, AllSecrets
<1>3. ~GivenUp(e) => e.attempts \in 0..MaxRetries - 1
  BY Constants DEF GivenUp, Tried
<1>4. e.attempts \in 0..MaxRetries - 1 => e \in Entries
  BY DEF Tried, Entries, AllSecrets
<1>5. /\ SameRequest([e EXCEPT !.attempts = 0], e)
      /\ [e EXCEPT !.attempts = 0].secret = e.secret
  BY DEF SameRequest, Tried
<1> QED BY <1>2, <1>3, <1>4, <1>5

LEMMA EntryTried ==
  ASSUME NEW e \in Entries
  PROVE  e \in Tried /\ ~GivenUp(e)
<1>1. e.attempts \in Nat /\ ~GivenUp(e)
  BY Constants DEF Entries, GivenUp
<1> QED BY <1>1 DEF Entries, Tried, AllSecrets

LEMMA RetransmitEntry ==
  ASSUME NEW e \in Entries
  PROVE  /\ radius_client_retransmit(e) \in Tried
         /\ SameRequest(radius_client_retransmit(e), e)
         /\ radius_client_retransmit(e).secret = e.secret
<1> DEFINE w == Least(2 * e.next_wait, MaxWait)
           a == [e EXCEPT !.attempts = e.attempts + 1]
           b == [a EXCEPT !.next_try = e.next_wait]
           n == [b EXCEPT !.next_wait = w]
<1>1. /\ e.next_wait \in 0..MaxWait /\ e.attempts + 1 \in Nat /\ w \in 1..MaxWait
  BY Constants DEF Least, Entries
<1> HIDE DEF w
<1>2. radius_client_retransmit(e) = n
  BY DEF radius_client_retransmit, Entries, w
<1>3. a \in Tried /\ SameRequest(a, e) /\ a.secret = e.secret
  BY <1>1 DEF Entries, Tried, SameRequest, AllSecrets
<1> HIDE DEF a
<1>4. b \in Tried /\ SameRequest(b, a) /\ b.secret = a.secret
  BY <1>1, <1>3 DEF Tried, SameRequest
<1> HIDE DEF b
<1>5. n \in Tried /\ SameRequest(n, b) /\ n.secret = b.secret
  BY <1>1, <1>4 DEF Tried, SameRequest
<1> QED BY <1>2, <1>3, <1>4, <1>5 DEF SameRequest

-----------------------------------------------------------------------------
(***************************************************************************)
(* The operations of the client keep it sound, and make no requests up.    *)
(***************************************************************************)
LEMMA ClientFields ==
  ASSUME NEW list, NEW num, NEW at
  PROVE  /\ Client(list, num, at).msgs = list /\ Client(list, num, at).num = num
         /\ Client(list, num, at).timers = at
BY DEF Client

LEMMA ClientWith ==
  ASSUME NEW c \in Clients, NEW list, NEW num, NEW at
  PROVE  /\ [c EXCEPT !.msgs = list] = Client(list, c.num, c.timers)
         /\ [c EXCEPT !.num = num] = Client(c.msgs, num, c.timers)
         /\ [c EXCEPT !.timers = at] = Client(c.msgs, c.num, at)
BY DEF Client, Clients

LEMMA MakesClient ==
  ASSUME NEW srv, NEW list, NEW num \in 0..MaxEntries, NEW at \in SUBSET (0..MaxWait),
         ListSound(list, srv), Len(list) <= num, list # <<>> => at # {}
  PROVE  ClientSound(Client(list, num, at), srv)
<1>1. list \in Seq(Entries)
  BY DEF ListSound
<1>2. Client(list, num, at) \in Clients
  BY <1>1 DEF Client, Clients
<1> QED BY <1>2, ClientFields DEF ClientSound

LEMMA SoundFields ==
  ASSUME NEW c, NEW srv, ClientSound(c, srv)
  PROVE  /\ c.msgs \in Seq(Entries) /\ c.num \in 0..MaxEntries /\ c.timers \in SUBSET (0..MaxWait)
         /\ OneOfEach(c.msgs) /\ Len(c.msgs) \in Nat /\ Len(c.msgs) <= c.num
         /\ \A k \in DOMAIN c.msgs : SignedFor(c.msgs[k], srv) /\ c.msgs[k] \in Entries
         /\ c.msgs # <<>> => c.timers # {}
         /\ ListSound(c.msgs, srv)
BY DEF ClientSound, ListSound, Clients

\* Entries are taken off the list.
LEMMA WithoutListSound ==
  ASSUME NEW list, NEW srv, ListSound(list, srv), NEW gone
  PROVE  /\ ListSound(Without(list, gone), srv) /\ ComesFrom(Without(list, gone), list)
         /\ Len(Without(list, gone)) \in Nat /\ Len(Without(list, gone)) <= Len(list)
         /\ Without(list, gone) # <<>> => list # <<>>
<1> DEFINE new == Without(list, gone)
<1>1. /\ new \in Seq(Entries) /\ OneOfEach(new) /\ Len(new) \in Nat /\ Len(new) <= Len(list)
      /\ ComesFrom(new, list)
      /\ \A k \in DOMAIN new : \E j \in DOMAIN list \ gone : new[k] = list[j]
  BY WithoutSound DEF ListSound
<1> HIDE DEF new
<1>2. \A k \in DOMAIN new : SignedFor(new[k], srv)
  BY <1>1 DEF ListSound
<1>3. list = <<>> => new = <<>>
  BY <1>1
<1> QED BY <1>1, <1>2, <1>3 DEF ListSound, new

LEMMA RemovalSound ==
  ASSUME NEW c, NEW srv, ClientSound(c, srv), NEW gone, NEW at \in SUBSET (0..MaxWait),
         Without(c.msgs, gone) # <<>> => at # {}
  PROVE  /\ ClientSound(Client(Without(c.msgs, gone),
                               c.num - (Len(c.msgs) - Len(Without(c.msgs, gone))), at), srv)
         /\ ClientSound(Client(Without(c.msgs, gone), c.num, at), srv)
<1> DEFINE left == Without(c.msgs, gone)
           num == c.num - (Len(c.msgs) - Len(left))
<1>1. c.num \in 0..MaxEntries /\ Len(c.msgs) \in Nat /\ Len(c.msgs) <= c.num
  BY SoundFields
<1>2. ListSound(left, srv) /\ Len(left) \in Nat /\ Len(left) <= Len(c.msgs)
  BY SoundFields, WithoutListSound
<1> HIDE DEF left
<1>3. num \in 0..MaxEntries /\ Len(left) <= num /\ Len(left) <= c.num
  BY <1>1, <1>2, Constants
<1>4. left # <<>> => at # {}
  BY DEF left
<1> HIDE DEF num
<1>5. ClientSound(Client(left, num, at), srv) /\ ClientSound(Client(left, c.num, at), srv)
  BY <1>1, <1>2, <1>3, <1>4, MakesClient
<1> QED BY <1>5 DEF left, num

LEMMA FlushSound ==
  ASSUME NEW c, NEW srv, ClientSound(c, srv), NEW only_auth \in BOOLEAN
  PROVE  /\ ClientSound(radius_client_flush(c, only_auth), srv)
         /\ ComesFrom(radius_client_flush(c, only_auth).msgs, c.msgs)
         /\ \A k \in DOMAIN radius_client_flush(c, only_auth).msgs :
              radius_client_flush(c, only_auth).msgs[k].type # "AUTH"
<1> DEFINE gone == {k \in DOMAIN c.msgs : ~only_auth \/ c.msgs[k].type = "AUTH"}
           left == Without(c.msgs, gone)
           at == IF left = <<>> THEN {} ELSE c.timers
           num == c.num - (Len(c.msgs) - Len(left))
<1>1. radius_client_flush(c, only_auth) = Client(left, num, at)
  BY DEF radius_client_flush, Drop
<1>2. /\ c.msgs \in Seq(Entries) /\ OneOfEach(c.msgs) /\ ListSound(c.msgs, srv)
      /\ c.timers \in SUBSET (0..MaxWait) /\ (c.msgs # <<>> => c.timers # {})
  BY SoundFields
<1>3. ComesFrom(left, c.msgs) /\ (left # <<>> => c.msgs # <<>>)
  BY <1>2, WithoutListSound
<1>4. at \in SUBSET (0..MaxWait) /\ (left # <<>> => at # {})
  BY <1>2, <1>3
<1> HIDE DEF gone
<1>5. \A k \in DOMAIN left : \E j \in DOMAIN c.msgs \ gone : left[k] = c.msgs[j]
  BY <1>2, WithoutSound
<1>6. \A k \in DOMAIN left : left[k].type # "AUTH"
  BY <1>5 DEF gone
<1> HIDE DEF at
<1>7. ClientSound(Client(left, num, at), srv)
  BY <1>4, RemovalSound
<1> HIDE DEF left, num
<1> QED BY <1>1, <1>3, <1>6, <1>7, ClientFields

LEMMA ListDelSound ==
  ASSUME NEW c, NEW srv, ClientSound(c, srv), NEW type, NEW addr
  PROVE  /\ ClientSound(radius_client_list_del(c, type, addr), srv)
         /\ ComesFrom(radius_client_list_del(c, type, addr).msgs, c.msgs)
         /\ \A k \in DOMAIN radius_client_list_del(c, type, addr).msgs :
              LET e == radius_client_list_del(c, type, addr).msgs[k]
              IN  ~(e.type = type /\ e.addr = addr)
<1> DEFINE gone == {k \in DOMAIN c.msgs : c.msgs[k].type = type /\ c.msgs[k].addr = addr}
           left == Without(c.msgs, gone)
           num == c.num - (Len(c.msgs) - Len(left))
<1>1. radius_client_list_del(c, type, addr) = Client(left, num, c.timers)
  BY DEF radius_client_list_del, Drop
<1>2. /\ c.msgs \in Seq(Entries) /\ OneOfEach(c.msgs) /\ ListSound(c.msgs, srv)
      /\ c.timers \in SUBSET (0..MaxWait) /\ (c.msgs # <<>> => c.timers # {})
  BY SoundFields
<1>3. ComesFrom(left, c.msgs) /\ (left # <<>> => c.timers # {})
  BY <1>2, WithoutListSound
<1> HIDE DEF gone
<1>5. \A k \in DOMAIN left : \E j \in DOMAIN c.msgs \ gone : left[k] = c.msgs[j]
  BY <1>2, WithoutSound
<1>6. \A k \in DOMAIN left : ~(left[k].type = type /\ left[k].addr = addr)
  BY <1>5 DEF gone
<1>7. ClientSound(Client(left, num, c.timers), srv)
  BY <1>2, <1>3, RemovalSound
<1> HIDE DEF left, num
<1> QED BY <1>1, <1>3, <1>6, <1>7, ClientFields

LEMMA GetIdSound ==
  ASSUME NEW c, NEW srv, ClientSound(c, srv), NEW id
  PROVE  /\ ClientSound(radius_client_get_id(c, id), srv)
         /\ ComesFrom(radius_client_get_id(c, id).msgs, c.msgs)
         /\ \A k \in DOMAIN radius_client_get_id(c, id).msgs :
              radius_client_get_id(c, id).msgs[k].id # id
<1> DEFINE gone == {k \in DOMAIN c.msgs : c.msgs[k].id = id}
           left == Without(c.msgs, gone)
<1>1. radius_client_get_id(c, id) = Client(left, c.num, c.timers)
  BY DEF radius_client_get_id, Drop, Client, ClientSound, Clients
<1>2. /\ c.msgs \in Seq(Entries) /\ OneOfEach(c.msgs) /\ ListSound(c.msgs, srv)
      /\ c.timers \in SUBSET (0..MaxWait) /\ (c.msgs # <<>> => c.timers # {})
  BY SoundFields
<1>3. ComesFrom(left, c.msgs) /\ (left # <<>> => c.timers # {})
  BY <1>2, WithoutListSound
<1> HIDE DEF gone
<1>5. \A k \in DOMAIN left : \E j \in DOMAIN c.msgs \ gone : left[k] = c.msgs[j]
  BY <1>2, WithoutSound
<1>6. \A k \in DOMAIN left : left[k].id # id
  BY <1>5 DEF gone
<1>7. ClientSound(Client(left, c.num, c.timers), srv)
  BY <1>2, <1>3, RemovalSound
<1> HIDE DEF left
<1> QED BY <1>1, <1>3, <1>6, <1>7, ClientFields

\* The accounting requests are signed anew.
LEMMA UpdateAcctSound ==
  ASSUME NEW c, NEW srv \in Servers, ClientSound(c, srv), NEW new \in Servers,
         new["auth"] = srv["auth"]
  PROVE  /\ ClientSound(radius_client_update_acct_msgs(c, Secret(new, "acct")), new)
         /\ ComesFrom(radius_client_update_acct_msgs(c, Secret(new, "acct")).msgs, c.msgs)
<1> DEFINE secret == Secret(new, "acct")
           Re(e) == IF e.type = "ACCT" THEN [e EXCEPT !.secret = secret] ELSE e
           list == [k \in DOMAIN c.msgs |-> Re(c.msgs[k])]
<1>1. secret \in AllSecrets
  BY ServerFacts
<1>2. radius_client_update_acct_msgs(c, secret) = Client(list, c.num, c.timers)
  <2>1. radius_client_update_acct_msgs(c, secret) = [c EXCEPT !.msgs = list]
    BY DEF radius_client_update_acct_msgs, Update
  <2> HIDE DEF list
  <2> QED BY <2>1, ClientWith DEF ClientSound
<1>3. /\ c.msgs \in Seq(Entries) /\ OneOfEach(c.msgs) /\ c.num \in 0..MaxEntries
      /\ Len(c.msgs) \in Nat /\ Len(c.msgs) <= c.num
      /\ \A k \in DOMAIN c.msgs : SignedFor(c.msgs[k], srv) /\ c.msgs[k] \in Entries
      /\ c.timers \in SUBSET (0..MaxWait) /\ (c.msgs # <<>> => c.timers # {})
  BY SoundFields
<1>4. ASSUME NEW e \in Entries, SignedFor(e, srv)
      PROVE  Re(e) \in Entries /\ SameRequest(Re(e), e) /\ SignedFor(Re(e), new)
  <2> HIDE DEF secret
  <2>1. CASE e.type = "ACCT"
    <3>1. /\ [e EXCEPT !.secret = secret] \in Entries
          /\ SameRequest([e EXCEPT !.secret = secret], e)
          /\ [e EXCEPT !.secret = secret].secret = secret
      BY <1>1, SecretEntry
    <3>2. Class(Re(e).type) = "acct"
      BY <2>1, <3>1 DEF Class, SameRequest
    <3> QED BY <2>1, <3>1, <3>2 DEF SignedFor, secret
  <2>2. CASE e.type # "ACCT"
    <3>1. Re(e) = e
      BY <2>2
    <3>2. e.type = "AUTH" \/ e.type = "ACCT_INTERIM"
      BY <2>2, RadiusAssumption DEF Entries
    <3>3. e.type = "AUTH" => Secret(srv, "auth") = Secret(new, "auth")
      BY DEF Secret
    <3> QED BY <1>4, <3>1, <3>2, <3>3 DEF SameRequest, SignedFor, Class
  <2> QED BY <2>1, <2>2
<1> HIDE DEF Re
<1>5. /\ list \in Seq(Entries) /\ DOMAIN list = DOMAIN c.msgs /\ Len(list) = Len(c.msgs)
      /\ \A k \in DOMAIN list : SameRequest(list[k], c.msgs[k]) /\ SignedFor(list[k], new)
  BY <1>3, <1>4
<1>6. OneOfEach(list) /\ ComesFrom(list, c.msgs)
  <2> HIDE DEF list
  <2> QED BY <1>3, <1>5, InPlace
<1>7. ClientSound(Client(list, c.num, c.timers), new)
  <2> HIDE DEF list
  <2>1. ListSound(list, new) /\ Len(list) <= c.num /\ (list # <<>> => c.timers # {})
    BY <1>3, <1>5, <1>6 DEF ListSound
  <2> QED BY <1>3, <2>1, MakesClient
<1> HIDE DEF list
<1> QED BY <1>2, <1>6, <1>7, ClientFields

\* A change of server: what cannot be signed for the new one is gone.
LEMMA ChangeServerSound ==
  ASSUME NEW c, NEW srv \in Servers, ClientSound(c, srv), NEW class \in {"auth", "acct"},
         NEW new \in Servers, NEW differs \in BOOLEAN,
         \A other \in {"auth", "acct"} \ {class} : new[other] = srv[other],
         ~differs => Secret(new, class) = Secret(srv, class)
  PROVE  /\ ClientSound(radius_change_server(c, class, Secret(new, class), differs), new)
         /\ ComesFrom(radius_change_server(c, class, Secret(new, class), differs).msgs, c.msgs)
<1> DEFINE secret == Secret(new, class)
           signed == IF ~differs THEN c
                     ELSE IF class = "auth" THEN radius_client_flush(c, TRUE)
                     ELSE radius_client_update_acct_msgs(c, secret)
           type == IF class = "auth" THEN "AUTH" ELSE "ACCT"
           Re(e) == IF e.type = type THEN StartOver(e) ELSE e
           reset == [k \in DOMAIN signed.msgs |-> Re(signed.msgs[k])]
           at == IF reset = <<>> THEN signed.timers ELSE {FirstWait}
<1>1. ClientSound(signed, new) /\ ComesFrom(signed.msgs, c.msgs)
  <2>1. CASE ~differs
    <3>1. signed = c
      BY <2>1
    <3>2. \A cl \in {"auth", "acct"} : Secret(new, cl) = Secret(srv, cl)
      BY <2>1 DEF Secret
    <3>3. \A k \in DOMAIN c.msgs : SignedFor(c.msgs[k], srv) => SignedFor(c.msgs[k], new)
      BY <3>2 DEF SignedFor, Class
    <3>4. ClientSound(c, new)
      BY <3>3 DEF ClientSound, ListSound
    <3>5. ComesFrom(c.msgs, c.msgs)
      BY DEF ComesFrom, SameRequest
    <3> QED BY <3>1, <3>4, <3>5
  <2>2. CASE differs /\ class = "auth"
    <3> DEFINE left == radius_client_flush(c, TRUE)
    <3>1. signed = left
      BY <2>2
    <3>2. ClientSound(left, srv) /\ ComesFrom(left.msgs, c.msgs)
          /\ \A k \in DOMAIN left.msgs : left.msgs[k].type # "AUTH"
      BY FlushSound
    <3> HIDE DEF left
    <3>3. Secret(new, "acct") = Secret(srv, "acct")
      BY <2>2 DEF Secret
    <3>4. \A k \in DOMAIN left.msgs : SignedFor(left.msgs[k], srv) => SignedFor(left.msgs[k], new)
      BY <3>2, <3>3 DEF SignedFor, Class
    <3>5. ClientSound(left, new)
      BY <3>2, <3>4 DEF ClientSound, ListSound
    <3> HIDE DEF signed
    <3> QED BY <3>1, <3>2, <3>5
  <2>3. CASE differs /\ class = "acct"
    <3>1. signed = radius_client_update_acct_msgs(c, Secret(new, "acct"))
      BY <2>3
    <3>2. new["auth"] = srv["auth"]
      BY <2>3
    <3> HIDE DEF signed
    <3> QED BY <3>1, <3>2, UpdateAcctSound
  <2> QED BY <2>1, <2>2, <2>3
<1>2. radius_change_server(c, class, secret, differs) = Client(reset, signed.num, at)
  BY DEF radius_change_server, Update
<1> HIDE DEF signed
<1>3. /\ signed.msgs \in Seq(Entries) /\ OneOfEach(signed.msgs) /\ signed.num \in 0..MaxEntries
      /\ Len(signed.msgs) \in Nat /\ Len(signed.msgs) <= signed.num
      /\ \A k \in DOMAIN signed.msgs : SignedFor(signed.msgs[k], new) /\ signed.msgs[k] \in Entries
      /\ signed.timers \in SUBSET (0..MaxWait)
  BY <1>1, SoundFields
<1>4. ASSUME NEW e \in Entries, SignedFor(e, new)
      PROVE  Re(e) \in Entries /\ SameRequest(Re(e), e) /\ SignedFor(Re(e), new)
  <2>1. /\ StartOver(e) \in Entries /\ SameRequest(StartOver(e), e)
        /\ StartOver(e).secret = e.secret
    BY StartOverEntry
  <2> HIDE DEF type
  <2> QED BY <1>4, <2>1 DEF SameRequest, SignedFor
<1> HIDE DEF Re
<1>5. /\ reset \in Seq(Entries) /\ DOMAIN reset = DOMAIN signed.msgs
      /\ Len(reset) = Len(signed.msgs)
      /\ \A k \in DOMAIN reset : SameRequest(reset[k], signed.msgs[k]) /\ SignedFor(reset[k], new)
  BY <1>3, <1>4
<1> HIDE DEF reset
<1>6. OneOfEach(reset) /\ ComesFrom(reset, signed.msgs)
  BY <1>3, <1>5, InPlace
<1>7. at \in SUBSET (0..MaxWait) /\ (reset # <<>> => at # {})
  BY <1>3, Constants
<1>8. ListSound(reset, new) /\ Len(reset) <= signed.num
  BY <1>3, <1>5, <1>6 DEF ListSound
<1> HIDE DEF at
<1>9. ClientSound(Client(reset, signed.num, at), new)
  BY <1>3, <1>7, <1>8, MakesClient
<1>10. ComesFrom(reset, c.msgs)
  BY <1>1, <1>6, ComesFromTransitive
<1> QED BY <1>2, <1>9, <1>10, ClientFields

\* A new entry is put at the head, and the oldest makes room when it has to.
LEMMA ListAddSound ==
  ASSUME NEW c, NEW srv, ClientSound(c, srv), NEW e \in Entries, SignedFor(e, srv),
         \A k \in DOMAIN c.msgs :
           /\ c.msgs[k].id # e.id
           /\ ~(e.type = "ACCT_INTERIM" /\ c.msgs[k].type = e.type /\ c.msgs[k].addr = e.addr)
  PROVE  /\ ClientSound(radius_client_list_add(c, e), srv)
         /\ \A k \in DOMAIN radius_client_list_add(c, e).msgs :
              \/ radius_client_list_add(c, e).msgs[k] = e
              \/ \E j \in DOMAIN c.msgs : radius_client_list_add(c, e).msgs[k] = c.msgs[j]
<1> DEFINE list == <<e>> \o c.msgs
           at == {Min({list[k].next_try : k \in DOMAIN list})}
           short == SubSeq(list, 1, Len(list) - 1)
           new == radius_client_list_add(c, e)
<1>1. /\ c.msgs \in Seq(Entries) /\ OneOfEach(c.msgs) /\ c.num \in 0..MaxEntries
      /\ Len(c.msgs) \in Nat /\ Len(c.msgs) <= c.num
      /\ \A k \in DOMAIN c.msgs : SignedFor(c.msgs[k], srv) /\ c.msgs[k] \in Entries
  BY SoundFields
<1>2. /\ list \in Seq(Entries) /\ Len(list) = Len(c.msgs) + 1 /\ list # <<>>
      /\ DOMAIN list = 1..Len(list) /\ list[1] = e
      /\ \A k \in DOMAIN list : k # 1 => k - 1 \in DOMAIN c.msgs /\ list[k] = c.msgs[k - 1]
  BY <1>1
<1> HIDE DEF list
<1>3. OneOfEach(list)
  <2>1. ASSUME NEW j \in DOMAIN list, NEW k \in DOMAIN list, list[j].id = list[k].id PROVE j = k
    <3>1. j = 1 <=> k = 1
      BY <1>2, <2>1
    <3>2. ASSUME j # 1, k # 1 PROVE j = k
      <4>1. j - 1 = k - 1
        BY <1>1, <1>2, <2>1, <3>2 DEF OneOfEach
      <4> QED BY <1>2, <4>1
    <3> QED BY <3>1, <3>2
  <2>2. ASSUME NEW j \in DOMAIN list, NEW k \in DOMAIN list, list[j].type = "ACCT_INTERIM",
               list[k].type = "ACCT_INTERIM", list[j].addr = list[k].addr
        PROVE  j = k
    <3>1. j = 1 <=> k = 1
      BY <1>2, <2>2
    <3>2. ASSUME j # 1, k # 1 PROVE j = k
      <4>1. j - 1 = k - 1
        BY <1>1, <1>2, <2>2, <3>2 DEF OneOfEach
      <4> QED BY <1>2, <4>1
    <3> QED BY <3>1, <3>2
  <2> QED BY <2>1, <2>2 DEF OneOfEach
<1>4. ListSound(list, srv)
  BY <1>1, <1>2, <1>3 DEF ListSound
<1>5. at \in SUBSET (0..MaxWait) /\ at # {}
  <2> DEFINE tries == {list[k].next_try : k \in DOMAIN list}
  <2>0. 1 \in DOMAIN list /\ \A k \in DOMAIN list : list[k].next_try \in 0..MaxWait
    <3>1. 1 \in DOMAIN list /\ \A k \in DOMAIN list : list[k] \in Entries
      BY <1>1, <1>2
    <3> QED BY <3>1 DEF Entries
  <2>1. tries \in SUBSET (0..MaxWait) /\ tries # {}
    BY <2>0
  <2>2. tries \in SUBSET Nat
    BY <2>1
  <2> HIDE DEF tries
  <2>3. Min(tries) \in tries
    BY <2>1, <2>2, MinOf
  <2> QED BY <2>1, <2>3 DEF tries
<1> HIDE DEF at
<1>6. radius_client_update_timeout([c EXCEPT !.msgs = list]) = Client(list, c.num, at)
  <2> DEFINE d == Client(list, c.num, c.timers)
  <2>1. [c EXCEPT !.msgs = list] = d
    BY ClientWith DEF ClientSound
  <2>2. d.msgs = list /\ d.num = c.num
    BY ClientFields
  <2>3. [d EXCEPT !.timers = at] = Client(list, c.num, at)
    BY DEF Client
  <2> HIDE DEF d
  <2>4. radius_client_update_timeout(d) = [d EXCEPT !.timers = at]
    BY <1>2, <2>2 DEF radius_client_update_timeout, at
  <2> QED BY <2>1, <2>3, <2>4
<1>7. new = IF c.num < MaxEntries THEN Client(list, c.num + 1, at)
            ELSE IF Len(list) > 1 THEN Client(short, c.num, at)
            ELSE Client(list, c.num, at)
  <2> DEFINE timed == Client(list, c.num, at)
  <2>1. /\ timed.msgs = list /\ timed.num = c.num /\ timed.timers = at
        /\ [timed EXCEPT !.num = timed.num + 1] = Client(list, c.num + 1, at)
        /\ [timed EXCEPT !.msgs = short] = Client(short, c.num, at)
    BY DEF Client
  <2> HIDE DEF timed
  <2>2. new = IF c.num < MaxEntries THEN [timed EXCEPT !.num = timed.num + 1]
              ELSE IF Len(timed.msgs) > 1
              THEN [timed EXCEPT !.msgs = SubSeq(timed.msgs, 1, Len(timed.msgs) - 1)]
              ELSE timed
    BY <1>6 DEF radius_client_list_add, list, timed
  <2> QED BY <2>1, <2>2 DEF timed
<1> HIDE DEF new
<1>8. CASE c.num < MaxEntries
  <2>1. c.num + 1 \in 0..MaxEntries /\ Len(list) <= c.num + 1
    BY <1>1, <1>2, <1>8, Constants
  <2>2. ClientSound(Client(list, c.num + 1, at), srv)
    BY <1>4, <1>5, <2>1, MakesClient
  <2>3. new = Client(list, c.num + 1, at) /\ new.msgs = list
    BY <1>7, <1>8, ClientFields
  <2> QED BY <1>2, <2>2, <2>3 DEF new
<1>9. CASE ~(c.num < MaxEntries) /\ Len(list) > 1
  <2>1. short \in Seq(Entries) /\ Len(short) = Len(c.msgs) /\ DOMAIN short = 1..Len(c.msgs)
        /\ \A k \in DOMAIN short : k \in DOMAIN list /\ short[k] = list[k]
    BY <1>1, <1>2, <1>9
  <2> HIDE DEF short
  <2>2. ListSound(short, srv) /\ Len(short) <= c.num
    BY <1>1, <1>4, <2>1 DEF ListSound, OneOfEach
  <2>3. ClientSound(Client(short, c.num, at), srv)
    BY <1>1, <1>5, <2>2, MakesClient
  <2>4. new = Client(short, c.num, at) /\ new.msgs = short
    BY <1>7, <1>9, ClientFields
  <2> QED BY <1>2, <2>1, <2>3, <2>4 DEF new
<1>10. CASE ~(c.num < MaxEntries) /\ ~(Len(list) > 1)
  <2>1. Len(list) <= c.num
    BY <1>1, <1>2, <1>10, Constants
  <2>2. ClientSound(Client(list, c.num, at), srv)
    BY <1>1, <1>4, <1>5, <2>1, MakesClient
  <2>3. new = Client(list, c.num, at) /\ new.msgs = list
    BY <1>7, <1>10, ClientFields
  <2> QED BY <1>2, <2>2, <2>3 DEF new
<1> QED BY <1>8, <1>9, <1>10

-----------------------------------------------------------------------------
(***************************************************************************)
(* The walk over the list.                                                 *)
(***************************************************************************)
Now == Client(msgs, num_msgs, timers)

\* The inductive invariant of the client.
RadiusInv ==
  /\ ClientSound(Now, server) /\ server \in Servers
  /\ next_radius_identifier \in 0..NumIds - 1
  /\ dangling \in BOOLEAN /\ sends \in 0..MaxSends

LEMMA NowFacts ==
  ASSUME ClientSound(Now, server)
  PROVE  /\ msgs \in Seq(Entries) /\ OneOfEach(msgs) /\ num_msgs \in 0..MaxEntries
         /\ timers \in SUBSET (0..MaxWait) /\ (msgs # <<>> => timers # {})
         /\ Len(msgs) \in Nat /\ Len(msgs) <= num_msgs /\ DOMAIN msgs = 1..Len(msgs)
         /\ \A k \in DOMAIN msgs : msgs[k] \in Entries /\ SignedFor(msgs[k], server)
<1>1. Now.msgs = msgs /\ Now.num = num_msgs /\ Now.timers = timers
  BY ClientFields DEF Now
<1>2. /\ msgs \in Seq(Entries) /\ OneOfEach(msgs) /\ num_msgs \in 0..MaxEntries
      /\ timers \in SUBSET (0..MaxWait) /\ (msgs # <<>> => timers # {})
      /\ Len(msgs) \in Nat /\ Len(msgs) <= num_msgs
      /\ \A k \in DOMAIN msgs : msgs[k] \in Entries /\ SignedFor(msgs[k], server)
  BY <1>1, SoundFields
<1> QED BY <1>2

LEMMA ReopenedTried ==
  ASSUME server \in Servers, NEW e \in Entries, SignedFor(e, server)
  PROVE  /\ Reopened(e) \in Entries /\ SameRequest(Reopened(e), e)
         /\ SignedFor(Reopened(e), server)
<1>1. CASE e.type = "ACCT"
  <2> DEFINE d == [e EXCEPT !.secret = Secret(server, "acct")]
  <2>1. Secret(server, "acct") \in AllSecrets
    BY ServerFacts
  <2>2. d \in Entries /\ SameRequest(d, e) /\ d.secret = Secret(server, "acct")
    BY <2>1, SecretEntry
  <2>3. Reopened(e) = StartOver(d)
    BY <1>1 DEF Reopened
  <2> HIDE DEF d
  <2>4. StartOver(d) \in Entries /\ SameRequest(StartOver(d), d) /\ StartOver(d).secret = d.secret
    BY <2>2, StartOverEntry
  <2>5. Class(StartOver(d).type) = "acct"
    BY <1>1, <2>2, <2>4 DEF SameRequest, Class
  <2> QED BY <2>2, <2>3, <2>4, <2>5 DEF SameRequest, SignedFor
<1>2. CASE e.type # "ACCT"
  BY <1>2 DEF Reopened, SameRequest
<1> QED BY <1>1, <1>2

\* Another entry of the same request with the same secret is signed for the
\* same server.
LEMMA SignedToo ==
  ASSUME NEW e, NEW f, NEW srv, SameRequest(f, e), f.secret = e.secret, SignedFor(e, srv)
  PROVE  SignedFor(f, srv)
BY DEF SameRequest, SignedFor

LEMMA TurnTried ==
  ASSUME ClientSound(Now, server), server \in Servers, NEW k \in DOMAIN msgs, NEW fails
  PROVE  /\ Turn(k, fails) \in Tried /\ SameRequest(Turn(k, fails), msgs[k])
         /\ SignedFor(Turn(k, fails), server)
<1> DEFINE e == Found(k, fails)
<1>1. msgs[k] \in Entries /\ SignedFor(msgs[k], server)
  BY NowFacts
<1>2. /\ Reopened(msgs[k]) \in Entries /\ SameRequest(Reopened(msgs[k]), msgs[k])
      /\ SignedFor(Reopened(msgs[k]), server)
  BY <1>1, ReopenedTried
<1>3. e \in Entries /\ SameRequest(e, msgs[k]) /\ SignedFor(e, server)
  BY <1>1, <1>2 DEF Found, SameRequest
<1> HIDE DEF e
<1>4. /\ Reopened(e) \in Entries /\ SameRequest(Reopened(e), e)
      /\ SignedFor(Reopened(e), server)
  BY <1>3, ReopenedTried
<1>5. Turn(k, fails) = IF ~IsDue(k, fails) THEN e
                       ELSE IF k \in fails /\ e.type = "ACCT"
                            THEN [radius_client_retransmit(Reopened(e)) EXCEPT !.attempts = 0]
                       ELSE radius_client_retransmit(e)
  BY DEF Turn, e
<1>6. CASE ~IsDue(k, fails)
  <2>1. Turn(k, fails) = e /\ e \in Tried
    BY <1>3, <1>5, <1>6, EntryTried
  <2> QED BY <1>3, <2>1
<1>7. CASE IsDue(k, fails) /\ k \in fails /\ e.type = "ACCT"
  <2> DEFINE d == radius_client_retransmit(Reopened(e))
             f == [d EXCEPT !.attempts = 0]
  <2>1. Turn(k, fails) = f
    BY <1>5, <1>7
  <2>2. d \in Tried /\ SameRequest(d, Reopened(e)) /\ d.secret = Reopened(e).secret
    BY <1>4, RetransmitEntry
  <2> HIDE DEF d
  <2>3. f \in Entries /\ SameRequest(f, d) /\ f.secret = d.secret
    BY <2>2, TriedEntry
  <2> HIDE DEF f
  <2>4. SameRequest(f, Reopened(e)) /\ f.secret = Reopened(e).secret
    BY <2>2, <2>3 DEF SameRequest
  <2>5. f \in Tried /\ SignedFor(f, server)
    BY <1>4, <2>3, <2>4, EntryTried, SignedToo
  <2>6. SameRequest(f, msgs[k])
    BY <1>3, <1>4, <2>4 DEF SameRequest
  <2> QED BY <2>1, <2>5, <2>6
<1>8. CASE IsDue(k, fails) /\ ~(k \in fails /\ e.type = "ACCT")
  <2> DEFINE d == radius_client_retransmit(e)
  <2>1. Turn(k, fails) = d
    BY <1>5, <1>8
  <2>2. d \in Tried /\ SameRequest(d, e) /\ d.secret = e.secret
    BY <1>3, RetransmitEntry
  <2> HIDE DEF d
  <2>3. SignedFor(d, server)
    BY <1>3, <2>2, SignedToo
  <2>4. SameRequest(d, msgs[k])
    BY <1>3, <2>2 DEF SameRequest
  <2> QED BY <2>1, <2>2, <2>3, <2>4
<1> QED BY <1>6, <1>7, <1>8

LEMMA LeftEntry ==
  ASSUME ClientSound(Now, server), server \in Servers, NEW fails, NEW k \in Kept(fails)
  PROVE  /\ Left(k, fails) \in Entries /\ SameRequest(Left(k, fails), msgs[k])
         /\ SignedFor(Left(k, fails), server)
<1> DEFINE t == Turn(k, fails)
<1>1. k \in DOMAIN msgs /\ ~GivenUp(t)
  BY DEF Kept
<1>2. t \in Tried /\ SameRequest(t, msgs[k]) /\ SignedFor(t, server)
  BY <1>1, TurnTried
<1>3. Left(k, fails) = IF \E j \in fails : j > k THEN Reopened(t) ELSE t
  BY DEF Left
<1> HIDE DEF t
<1>4. t \in Entries
  BY <1>1, <1>2, TriedEntry
<1>5. Reopened(t) \in Entries /\ SameRequest(Reopened(t), t) /\ SignedFor(Reopened(t), server)
  BY <1>2, <1>4, ReopenedTried
<1>6. SameRequest(Reopened(t), msgs[k])
  BY <1>2, <1>5 DEF SameRequest
<1> QED BY <1>2, <1>3, <1>4, <1>5, <1>6

LEMMA WalkedSound ==
  ASSUME ClientSound(Now, server), server \in Servers, NEW fails
  PROVE  ClientSound(Walked(fails), server) /\ ComesFrom(Walked(fails).msgs, msgs)
<1> DEFINE list == [k \in DOMAIN msgs |-> Left(k, fails)]
           given == DOMAIN msgs \ Kept(fails)
           left == Without(list, given)
           tries == {Turn(k, fails).next_try : k \in Kept(fails)}
           rest == IF fails = {} THEN timers \ {0} ELSE {FirstWait}
           at == rest \cup (IF left = <<>> THEN {} ELSE {Min(tries)})
           num == num_msgs - (Len(msgs) - Len(left))
<1>1. Walked(fails) = Client(left, num, at)
  BY DEF Walked
<1>2. /\ msgs \in Seq(Entries) /\ OneOfEach(msgs) /\ num_msgs \in 0..MaxEntries
      /\ timers \in SUBSET (0..MaxWait) /\ Len(msgs) \in Nat /\ Len(msgs) <= num_msgs
      /\ DOMAIN msgs = 1..Len(msgs)
  BY NowFacts
<1> DEFINE S == {Left(k, fails) : k \in DOMAIN msgs}
<1>3. list \in Seq(S) /\ DOMAIN list = DOMAIN msgs /\ Len(list) = Len(msgs)
  BY <1>2
<1>4. \A k \in DOMAIN msgs : list[k] = Left(k, fails)
  OBVIOUS
<1> HIDE DEF list, S, given
<1>5. /\ left \in Seq(S) /\ Len(left) \in Nat /\ Len(left) <= Len(msgs)
      /\ \E h \in [DOMAIN left -> DOMAIN list \ given] :
           /\ \A k \in DOMAIN left : left[k] = list[h[k]]
           /\ \A k, l \in DOMAIN left : h[k] = h[l] => k = l
  BY <1>3, WithoutFacts
<1> HIDE DEF left
<1>6. PICK h \in [DOMAIN left -> DOMAIN list \ given] :
           /\ \A k \in DOMAIN left : left[k] = list[h[k]]
           /\ \A k, l \in DOMAIN left : h[k] = h[l] => k = l
  BY <1>5
<1>7. \A k \in DOMAIN left : h[k] \in Kept(fails) /\ h[k] \in DOMAIN msgs
  BY <1>3, <1>6 DEF given
<1>8. \A k \in DOMAIN left : /\ left[k] \in Entries /\ SameRequest(left[k], msgs[h[k]])
                             /\ SignedFor(left[k], server)
  <2>1. \A k \in DOMAIN left : left[k] = Left(h[k], fails)
    BY <1>4, <1>6, <1>7
  <2> QED BY <1>7, <2>1, LeftEntry
<1>9. left \in Seq(Entries)
  <2>1. DOMAIN left = 1..Len(left) /\ left = [k \in 1..Len(left) |-> left[k]]
    BY <1>5
  <2> QED BY <1>5, <1>8, <2>1
<1>10. OneOfEach(left) /\ ComesFrom(left, msgs)
  <2>1. h \in [DOMAIN left -> DOMAIN msgs]
    BY <1>6, <1>7
  <2> QED BY <1>2, <1>6, <1>8, <2>1, ApartFrom
<1>11. ListSound(left, server)
  BY <1>8, <1>9, <1>10 DEF ListSound
<1>12. at \in SUBSET (0..MaxWait) /\ (left # <<>> => at # {})
  <2>1. rest \in SUBSET (0..MaxWait)
    BY <1>2, Constants
  <2>2. \A k \in Kept(fails) : Turn(k, fails).next_try \in 0..MaxWait
    <3>1. \A k \in Kept(fails) : Turn(k, fails) \in Tried
      BY TurnTried DEF Kept
    <3> QED BY <3>1 DEF Tried
  <2>3. ASSUME left # <<>> PROVE Min(tries) \in 0..MaxWait
    <3>1. 1 \in DOMAIN left
      BY <1>9, <2>3
    <3>2. h[1] \in Kept(fails)
      BY <1>7, <3>1
    <3>3. tries \in SUBSET (0..MaxWait) /\ tries # {}
      BY <2>2, <3>2
    <3>4. tries \in SUBSET Nat
      BY <3>3
    <3> HIDE DEF tries
    <3>5. Min(tries) \in tries
      BY <3>3, <3>4, MinOf
    <3> QED BY <3>3, <3>5
  <2> HIDE DEF tries, rest
  <2> QED BY <2>1, <2>3
<1> HIDE DEF at
<1>13. num \in 0..MaxEntries /\ Len(left) <= num
  BY <1>2, <1>5, Constants
<1> HIDE DEF num
<1>14. ClientSound(Client(left, num, at), server)
  BY <1>11, <1>12, <1>13, MakesClient
<1> QED BY <1>1, <1>10, <1>14, ClientFields

LEMMA FailoverSound ==
  ASSUME NEW c, NEW srv \in Servers, ClientSound(c, srv), NEW class \in {"auth", "acct"}
  PROVE  /\ ClientSound(Failover(c, srv, class), NextServer(srv, class))
         /\ ComesFrom(Failover(c, srv, class).msgs, c.msgs)
         /\ NextServer(srv, class) \in Servers
<1> DEFINE new == NextServer(srv, class)
           differs == Secret(new, class) # Secret(srv, class)
<1>1. new \in Servers /\ \A other \in {"auth", "acct"} \ {class} : new[other] = srv[other]
  BY ServerFacts
<1>2. Failover(c, srv, class) = radius_change_server(c, class, Secret(new, class), differs)
  BY DEF Failover
<1>3. differs \in BOOLEAN /\ (~differs => Secret(new, class) = Secret(srv, class))
  OBVIOUS
<1> HIDE DEF new, differs
<1>4. /\ ClientSound(radius_change_server(c, class, Secret(new, class), differs), new)
      /\ ComesFrom(radius_change_server(c, class, Secret(new, class), differs).msgs, c.msgs)
  BY <1>1, <1>3, ChangeServerSound
<1> QED BY <1>1, <1>2, <1>4 DEF new

-----------------------------------------------------------------------------
(***************************************************************************)
(* One lemma per action: the client stays sound, and what is pending was   *)
(* pending before or is the request that is sent.                          *)
(***************************************************************************)
LEMMA ClientIsSet ==
  ASSUME NEW c, NEW srv, SetClient(c), ClientSound(c, srv)
  PROVE  ClientSound(Now', srv) /\ msgs' = c.msgs
<1>1. msgs' = c.msgs /\ num_msgs' = c.num /\ timers' = c.timers
  BY DEF SetClient
<1>2. c = Client(c.msgs, c.num, c.timers)
  BY DEF ClientSound, Clients, Client
<1>3. Now' = Client(msgs', num_msgs', timers')
  BY DEF Now, Client
<1> QED BY <1>1, <1>2, <1>3

SentEntry(type, addr) ==
  [id |-> next_radius_identifier, type |-> type, addr |-> addr,
   secret |-> Secret(server, Class(type)), attempts |-> 1, first |-> FirstWait,
   next_try |-> FirstWait, next_wait |-> 2 * FirstWait]

\* An entry that is pending has another identifier than the one in use, and is
\* not an interim update of the station that is reported on.
LEMMA SendSound ==
  ASSUME RadiusInv, NEW type \in Types, NEW addr \in Addrs, radius_client_send(type, addr)
  PROVE  /\ ClientSound(Now', server)
         /\ \A k \in DOMAIN msgs' :
              \/ SameRequest(msgs'[k], SentEntry(type, addr))
              \/ /\ \E j \in DOMAIN msgs : SameRequest(msgs'[k], msgs[j])
                 /\ msgs'[k].id # next_radius_identifier
<1> DEFINE id == next_radius_identifier
           class == Class(type)
           free == radius_client_get_id(Client(msgs, num_msgs, timers), id)
           room == IF type = "ACCT_INTERIM" THEN radius_client_list_del(free, type, addr) ELSE free
           again == radius_client_handle_send_error(room, class)
           e == SentEntry(type, addr)
           Apart(c) == \A k \in DOMAIN c.msgs :
                         /\ c.msgs[k].id # id
                         /\ ~(type = "ACCT_INTERIM" /\ c.msgs[k].type = type /\ c.msgs[k].addr = addr)
<1>1. class \in {"auth", "acct"} /\ (class = "auth" <=> type = "AUTH")
  BY DEF Class
<1>2. e \in Entries /\ SignedFor(e, server) /\ e.id = id /\ e.type = type /\ e.addr = addr
  <2>1. Secret(server, class) \in AllSecrets
    BY <1>1, ServerFacts DEF RadiusInv
  <2>2. 1 \in 0..MaxRetries - 1
    BY Constants
  <2>3. FirstWait \in 0..FirstWait /\ FirstWait \in 0..MaxWait /\ 2 * FirstWait \in 1..MaxWait
    BY Constants
  <2>4. id \in 0..NumIds - 1
    BY DEF RadiusInv
  <2>5. e = [id |-> id, type |-> type, addr |-> addr, secret |-> Secret(server, class),
             attempts |-> 1, first |-> FirstWait, next_try |-> FirstWait,
             next_wait |-> 2 * FirstWait]
    BY DEF SentEntry
  <2> HIDE DEF id, class, e
  <2>6. e \in Entries
    BY <2>1, <2>2, <2>3, <2>4, <2>5 DEF Entries, AllSecrets
  <2>7. e.secret = Secret(server, class) /\ e.type = type /\ e.id = id /\ e.addr = addr
    BY <2>5
  <2> QED BY <2>6, <2>7 DEF SignedFor, class
<1>3. ClientSound(free, server) /\ ComesFrom(free.msgs, msgs)
      /\ \A k \in DOMAIN free.msgs : free.msgs[k].id # id
  <2>1. Client(msgs, num_msgs, timers) = Now /\ Now.msgs = msgs
    BY ClientFields DEF Now
  <2>2. ClientSound(Now, server)
    BY DEF RadiusInv
  <2> QED BY <2>1, <2>2, GetIdSound
<1> HIDE DEF free
<1>4. ClientSound(room, server) /\ ComesFrom(room.msgs, msgs) /\ Apart(room)
  <2>1. CASE type = "ACCT_INTERIM"
    <3> DEFINE del == radius_client_list_del(free, type, addr)
    <3>1. /\ ClientSound(del, server) /\ ComesFrom(del.msgs, free.msgs)
          /\ \A k \in DOMAIN del.msgs : ~(del.msgs[k].type = type /\ del.msgs[k].addr = addr)
      BY <1>3, ListDelSound
    <3>2. room = del
      BY <2>1
    <3> HIDE DEF del
    <3>3. ComesFrom(del.msgs, msgs)
      BY <1>3, <3>1, ComesFromTransitive
    <3>4. \A k \in DOMAIN del.msgs : del.msgs[k].id # id
      BY <1>3, <3>1 DEF ComesFrom, SameRequest
    <3> HIDE DEF room
    <3> QED BY <3>1, <3>2, <3>3, <3>4
  <2>2. CASE type # "ACCT_INTERIM"
    BY <1>3, <2>2
  <2> QED BY <2>1, <2>2
<1> HIDE DEF room
<1>5. ClientSound(again, server) /\ ComesFrom(again.msgs, room.msgs)
  <2>1. again = radius_change_server(room, class, Secret(server, class), TRUE)
    BY DEF radius_client_handle_send_error
  <2>2. server \in Servers
    BY DEF RadiusInv
  <2> HIDE DEF again
  <2> QED BY <1>1, <1>4, <2>1, <2>2, ChangeServerSound
<1> HIDE DEF again
<1>6. ComesFrom(again.msgs, msgs) /\ Apart(again)
  <2>1. ComesFrom(again.msgs, msgs)
    BY <1>4, <1>5, ComesFromTransitive
  <2> HIDE DEF id
  <2>2. ASSUME NEW k \in DOMAIN again.msgs
        PROVE  /\ again.msgs[k].id # id
               /\ ~(type = "ACCT_INTERIM" /\ again.msgs[k].type = type /\ again.msgs[k].addr = addr)
    <3>1. PICK j \in DOMAIN room.msgs : SameRequest(again.msgs[k], room.msgs[j])
      BY <1>5, <2>2 DEF ComesFrom
    <3> QED BY <1>4, <3>1 DEF SameRequest
  <2> QED BY <2>1, <2>2
<1>7. PICK c \in {room, again} : SetClient(radius_client_list_add(c, e))
  BY DEF radius_client_send, SentEntry, free, room, again
<1>8. ClientSound(c, server) /\ ComesFrom(c.msgs, msgs) /\ Apart(c)
  BY <1>4, <1>5, <1>6, <1>7
<1> DEFINE new == radius_client_list_add(c, e)
<1> HIDE DEF e, id
<1>9. /\ ClientSound(new, server)
      /\ \A k \in DOMAIN new.msgs :
           new.msgs[k] = e \/ \E j \in DOMAIN c.msgs : new.msgs[k] = c.msgs[j]
  BY <1>2, <1>8, ListAddSound
<1>10. SetClient(new)
  BY <1>7
<1> HIDE DEF new
<1>11. ClientSound(Now', server) /\ msgs' = new.msgs
  BY <1>9, <1>10, ClientIsSet
<1>12. \A k \in DOMAIN msgs' :
         \/ SameRequest(msgs'[k], e)
         \/ (\E j \in DOMAIN msgs : SameRequest(msgs'[k], msgs[j])) /\ msgs'[k].id # id
  BY <1>8, <1>9, <1>11 DEF ComesFrom, SameRequest
<1> QED BY <1>11, <1>12 DEF e, id

LEMMA TimerSound ==
  ASSUME RadiusInv, radius_client_timer
  PROVE  ClientSound(Now', server') /\ server' \in Servers /\ ComesFrom(msgs', msgs)
<1>0. ClientSound(Now, server) /\ server \in Servers
  BY DEF RadiusInv
<1>1. PICK fails \in SUBSET (IF SendErrors THEN DOMAIN msgs ELSE {}) :
        IF \E k \in fails : msgs[k].type = "AUTH"
        THEN dangling' = TRUE /\ UNCHANGED <<clientVars, server, wire>>
        ELSE LET over(class) == class \in Silent(fails) /\ Len(Secrets[class]) > 1
                 auth == IF over("auth") THEN Failover(Walked(fails), server, "auth")
                         ELSE Walked(fails)
                 srv == IF over("auth") THEN NextServer(server, "auth") ELSE server
             IN  /\ SetClient(IF over("acct") THEN Failover(auth, srv, "acct") ELSE auth)
                 /\ server' = IF over("acct") THEN NextServer(srv, "acct") ELSE srv
  BY DEF radius_client_timer
<1>2. CASE \E k \in fails : msgs[k].type = "AUTH"
  <2>1. UNCHANGED <<msgs, num_msgs, timers, server>>
    BY <1>1, <1>2 DEF clientVars
  <2>2. Now' = Now
    BY <2>1 DEF Now, Client
  <2>3. ComesFrom(msgs, msgs)
    BY DEF ComesFrom, SameRequest
  <2> QED BY <1>0, <2>1, <2>2, <2>3
<1>3. CASE ~\E k \in fails : msgs[k].type = "AUTH"
  <2> DEFINE over(class) == class \in Silent(fails) /\ Len(Secrets[class]) > 1
             walked == Walked(fails)
             auth == IF over("auth") THEN Failover(walked, server, "auth") ELSE walked
             srv == IF over("auth") THEN NextServer(server, "auth") ELSE server
             new == IF over("acct") THEN Failover(auth, srv, "acct") ELSE auth
             last == IF over("acct") THEN NextServer(srv, "acct") ELSE srv
  <2>1. SetClient(new) /\ server' = last
    BY <1>1, <1>3
  <2>2. ClientSound(walked, server) /\ ComesFrom(walked.msgs, msgs)
    BY <1>0, WalkedSound
  <2> HIDE DEF over, walked
  <2>3. ClientSound(auth, srv) /\ srv \in Servers /\ ComesFrom(auth.msgs, walked.msgs)
    <3>1. CASE over("auth")
      <4>1. auth = Failover(walked, server, "auth") /\ srv = NextServer(server, "auth")
        BY <3>1
      <4> HIDE DEF auth, srv
      <4> QED BY <1>0, <2>2, <4>1, FailoverSound
    <3>2. CASE ~over("auth")
      <4>1. auth = walked /\ srv = server
        BY <3>2
      <4>2. ComesFrom(walked.msgs, walked.msgs)
        BY DEF ComesFrom, SameRequest
      <4> HIDE DEF auth, srv
      <4> QED BY <1>0, <2>2, <4>1, <4>2
    <3> QED BY <3>1, <3>2
  <2> HIDE DEF auth, srv
  <2>4. ClientSound(new, last) /\ last \in Servers /\ ComesFrom(new.msgs, auth.msgs)
    <3>1. CASE over("acct")
      <4>1. new = Failover(auth, srv, "acct") /\ last = NextServer(srv, "acct")
        BY <3>1
      <4> HIDE DEF new, last
      <4> QED BY <2>3, <4>1, FailoverSound
    <3>2. CASE ~over("acct")
      <4>1. new = auth /\ last = srv
        BY <3>2
      <4>2. ComesFrom(auth.msgs, auth.msgs)
        BY DEF ComesFrom, SameRequest
      <4> HIDE DEF new, last
      <4> QED BY <2>3, <4>1, <4>2
    <3> QED BY <3>1, <3>2
  <2> HIDE DEF new, last
  <2>5. ComesFrom(new.msgs, msgs)
    BY <2>2, <2>3, <2>4, ComesFromTransitive
  <2>6. ClientSound(Now', last) /\ msgs' = new.msgs
    BY <2>1, <2>4, ClientIsSet
  <2> QED BY <2>1, <2>4, <2>5, <2>6
<1> QED BY <1>2, <1>3

LEMMA PrimarySound ==
  ASSUME RadiusInv, radius_retry_primary_timer
  PROVE  ClientSound(Now', server') /\ server' \in Servers /\ ComesFrom(msgs', msgs)
<1> DEFINE first == [auth |-> 1, acct |-> 1]
           half == [auth |-> 1, acct |-> server["acct"]]
           Primary(c, class) ==
             IF server[class] = 1 THEN c
             ELSE radius_change_server(c, class, Secrets[class][1],
                                       Secrets[class][1] # Secret(server, class))
           auth == Primary(Now, "auth")
           new == Primary(auth, "acct")
<1>1. ClientSound(Now, server) /\ server \in Servers /\ Now.msgs = msgs
  BY ClientFields DEF RadiusInv, Now
<1>2. SetClient(new) /\ server' = first
  BY DEF radius_retry_primary_timer, Now
<1>3. first \in Servers
  BY <1>1, ServerFacts
<1>4. half \in Servers
  BY <1>1, <1>3 DEF Servers
<1>5. ClientSound(auth, half) /\ ComesFrom(auth.msgs, msgs)
  <2>1. CASE server["auth"] = 1
    <3>1. auth = Now
      BY <2>1
    <3>2. half = server
      BY <1>1, <2>1 DEF Servers
    <3>3. ComesFrom(msgs, msgs)
      BY DEF ComesFrom, SameRequest
    <3> HIDE DEF auth, half
    <3> QED BY <1>1, <3>1, <3>2, <3>3
  <2>2. CASE server["auth"] # 1
    <3> DEFINE differs == Secret(half, "auth") # Secret(server, "auth")
    <3>1. Secrets["auth"][1] = Secret(half, "auth")
      BY DEF Secret
    <3>2. auth = radius_change_server(Now, "auth", Secret(half, "auth"), differs)
      BY <2>2, <3>1
    <3>3. differs \in BOOLEAN /\ (~differs => Secret(half, "auth") = Secret(server, "auth"))
      OBVIOUS
    <3>4. \A other \in {"auth", "acct"} \ {"auth"} : half[other] = server[other]
      OBVIOUS
    <3> HIDE DEF auth, half, differs
    <3>5. /\ ClientSound(radius_change_server(Now, "auth", Secret(half, "auth"), differs), half)
          /\ ComesFrom(radius_change_server(Now, "auth", Secret(half, "auth"), differs).msgs, Now.msgs)
      BY <1>1, <1>4, <3>3, <3>4, ChangeServerSound
    <3> QED BY <1>1, <3>2, <3>5
  <2> QED BY <2>1, <2>2
<1> HIDE DEF auth
<1>6. ClientSound(new, first) /\ ComesFrom(new.msgs, auth.msgs)
  <2>1. CASE server["acct"] = 1
    <3>1. new = auth
      BY <2>1
    <3>2. half = first
      BY <2>1
    <3>3. ComesFrom(auth.msgs, auth.msgs)
      BY DEF ComesFrom, SameRequest
    <3> HIDE DEF new, half, first
    <3> QED BY <1>5, <3>1, <3>2, <3>3
  <2>2. CASE server["acct"] # 1
    <3> DEFINE differs == Secret(first, "acct") # Secret(half, "acct")
    <3>1. Secrets["acct"][1] = Secret(first, "acct") /\ Secret(half, "acct") = Secret(server, "acct")
      BY DEF Secret
    <3>2. new = radius_change_server(auth, "acct", Secret(first, "acct"), differs)
      BY <2>2, <3>1
    <3>3. differs \in BOOLEAN /\ (~differs => Secret(first, "acct") = Secret(half, "acct"))
      OBVIOUS
    <3>4. \A other \in {"auth", "acct"} \ {"acct"} : first[other] = half[other]
      OBVIOUS
    <3> HIDE DEF new, half, first, differs
    <3>5. /\ ClientSound(radius_change_server(auth, "acct", Secret(first, "acct"), differs), first)
          /\ ComesFrom(radius_change_server(auth, "acct", Secret(first, "acct"), differs).msgs, auth.msgs)
      BY <1>3, <1>4, <1>5, <3>3, <3>4, ChangeServerSound
    <3> QED BY <3>2, <3>5
  <2> QED BY <2>1, <2>2
<1> HIDE DEF new, first
<1>7. ComesFrom(new.msgs, msgs)
  BY <1>5, <1>6, ComesFromTransitive
<1>8. ClientSound(Now', first) /\ msgs' = new.msgs
  BY <1>2, <1>6, ClientIsSet
<1> QED BY <1>2, <1>3, <1>7, <1>8

LEMMA MatchFacts ==
  ASSUME ClientSound(Now, server), NEW r, Matches(r) # {}
  PROVE  /\ Min(Matches(r)) \in DOMAIN msgs
         /\ msgs[Min(Matches(r))].id = r.id
<1>1. Matches(r) \in SUBSET DOMAIN msgs /\ Matches(r) \in SUBSET Nat
  <2>1. DOMAIN msgs = 1..Len(msgs) /\ Len(msgs) \in Nat
    BY NowFacts
  <2> QED BY <2>1 DEF Matches
<1>2. Min(Matches(r)) \in Matches(r)
  BY <1>1, MinOf
<1> QED BY <1>2 DEF Matches

LEMMA ReceiveSound ==
  ASSUME RadiusInv, NEW r, radius_client_receive(r)
  PROVE  ClientSound(Now', server') /\ server' = server /\ ComesFrom(msgs', msgs)
<1>1. ClientSound(Now, server) /\ Now.msgs = msgs /\ Now.num = num_msgs /\ Now.timers = timers
  BY ClientFields DEF RadiusInv, Now
<1>2. timers' = timers /\ server' = server /\ Now' = Client(msgs', num_msgs', timers')
  BY DEF radius_client_receive, Now, Client
<1>3. CASE Matches(r) = {}
  <2>1. msgs' = msgs /\ num_msgs' = num_msgs
    BY <1>3 DEF radius_client_receive
  <2>2. Now' = Now /\ ComesFrom(msgs, msgs)
    BY <1>2, <2>1 DEF Now, ComesFrom, SameRequest
  <2> QED BY <1>1, <1>2, <2>1, <2>2
<1>4. CASE Matches(r) # {}
  <2> DEFINE k == Min(Matches(r))
             left == Without(msgs, {k})
  <2>1. msgs' = left /\ num_msgs' = num_msgs - 1
    BY <1>4 DEF radius_client_receive
  <2>2. k \in DOMAIN msgs
    BY <1>1, <1>4, MatchFacts
  <2> HIDE DEF k
  <2>3. /\ msgs \in Seq(Entries) /\ OneOfEach(msgs) /\ num_msgs \in 0..MaxEntries
        /\ timers \in SUBSET (0..MaxWait) /\ (msgs # <<>> => timers # {})
        /\ Len(msgs) \in Nat /\ Len(msgs) <= num_msgs
    BY <1>1, NowFacts
  <2>4. ListSound(msgs, server)
    BY <1>1, SoundFields
  <2>5. /\ ListSound(left, server) /\ ComesFrom(left, msgs) /\ (left # <<>> => msgs # <<>>)
    BY <2>4, WithoutListSound
  <2>6. Len(left) = Len(msgs) - 1 /\ Len(left) \in Nat
    BY <2>2, <2>3, <2>4, WithoutOne, WithoutListSound
  <2> HIDE DEF left
  <2>7. num_msgs - 1 \in 0..MaxEntries /\ Len(left) <= num_msgs - 1
    BY <2>3, <2>6, Constants
  <2>8. ClientSound(Client(left, num_msgs - 1, timers), server)
    BY <2>3, <2>5, <2>7, MakesClient
  <2> QED BY <1>2, <2>1, <2>5, <2>8
<1> QED BY <1>3, <1>4

LEMMA FlushAuthSound ==
  ASSUME RadiusInv, NEW addr, radius_client_flush_auth(addr)
  PROVE  ClientSound(Now', server') /\ server' = server /\ ComesFrom(msgs', msgs)
<1> DEFINE new == radius_client_list_del(Now, "AUTH", addr)
<1>1. ClientSound(Now, server) /\ Now.msgs = msgs
  BY ClientFields DEF RadiusInv, Now
<1>2. SetClient(new) /\ server' = server
  BY DEF radius_client_flush_auth, Now
<1>3. ClientSound(new, server) /\ ComesFrom(new.msgs, msgs)
  BY <1>1, ListDelSound
<1> HIDE DEF new
<1> QED BY <1>2, <1>3, ClientIsSet

LEMMA ReloadSound ==
  ASSUME RadiusInv, Reload
  PROVE  ClientSound(Now', server') /\ server' = server /\ ComesFrom(msgs', msgs)
<1> DEFINE new == radius_client_flush(Now, FALSE)
<1>1. ClientSound(Now, server) /\ Now.msgs = msgs
  BY ClientFields DEF RadiusInv, Now
<1>2. SetClient(new) /\ server' = server
  BY DEF Reload, Now
<1>3. ClientSound(new, server) /\ ComesFrom(new.msgs, msgs)
  BY <1>1, FlushSound
<1> HIDE DEF new
<1> QED BY <1>2, <1>3, ClientIsSet

LEMMA OlderEntry ==
  ASSUME NEW e \in Entries
  PROVE  LET n == [e EXCEPT !.first = Later(e.first), !.next_try = Later(e.next_try)]
         IN  n \in Entries /\ SameRequest(n, e) /\ n.secret = e.secret
<1> DEFINE a == [e EXCEPT !.first = Later(e.first)]
           n == [a EXCEPT !.next_try = Later(e.next_try)]
<1>1. Later(e.first) \in 0..FirstWait /\ Later(e.next_try) \in 0..MaxWait
  BY Constants DEF Entries, Later
<1>2. [e EXCEPT !.first = Later(e.first), !.next_try = Later(e.next_try)] = n
  BY DEF Entries
<1>3. a \in Entries /\ SameRequest(a, e) /\ a.secret = e.secret
  BY <1>1 DEF Entries, SameRequest
<1> HIDE DEF a
<1>4. n \in Entries /\ SameRequest(n, a) /\ n.secret = a.secret
  BY <1>1, <1>3 DEF Entries, SameRequest
<1> QED BY <1>2, <1>3, <1>4 DEF SameRequest

LEMMA TickSound ==
  ASSUME RadiusInv, Tick
  PROVE  ClientSound(Now', server') /\ server' = server /\ ComesFrom(msgs', msgs)
<1> DEFINE Re(e) == [e EXCEPT !.first = Later(e.first), !.next_try = Later(e.next_try)]
           list == [k \in DOMAIN msgs |-> Re(msgs[k])]
           at == {Later(t) : t \in timers}
<1>1. msgs' = list /\ timers' = at /\ num_msgs' = num_msgs /\ server' = server
  BY DEF Tick, Update
<1>2. /\ msgs \in Seq(Entries) /\ OneOfEach(msgs) /\ num_msgs \in 0..MaxEntries
      /\ timers \in SUBSET (0..MaxWait) /\ (msgs # <<>> => timers # {})
      /\ Len(msgs) \in Nat /\ Len(msgs) <= num_msgs
      /\ \A k \in DOMAIN msgs : msgs[k] \in Entries /\ SignedFor(msgs[k], server)
  BY NowFacts DEF RadiusInv
<1>3. ASSUME NEW e \in Entries
      PROVE  Re(e) \in Entries /\ SameRequest(Re(e), e) /\ Re(e).secret = e.secret
  BY OlderEntry
<1> HIDE DEF Re
<1>4. /\ list \in Seq(Entries) /\ DOMAIN list = DOMAIN msgs /\ Len(list) = Len(msgs)
      /\ \A k \in DOMAIN list : SameRequest(list[k], msgs[k]) /\ list[k].secret = msgs[k].secret
  BY <1>2, <1>3
<1>5. \A t \in timers : Later(t) \in 0..MaxWait
  BY <1>2, Constants DEF Later
<1>6. at \in SUBSET (0..MaxWait) /\ (timers # {} => at # {})
  BY <1>5
<1> HIDE DEF list, at
<1>7. OneOfEach(list) /\ ComesFrom(list, msgs)
  BY <1>2, <1>4, InPlace
<1>8. ListSound(list, server) /\ (list # <<>> => msgs # <<>>)
  <2>1. \A k \in DOMAIN list : SignedFor(list[k], server)
    BY <1>2, <1>4, SignedToo
  <2>2. msgs = <<>> => list = <<>>
    BY <1>2, <1>4
  <2> QED BY <1>4, <1>7, <2>1, <2>2 DEF ListSound
<1>9. ClientSound(Client(list, num_msgs, at), server)
  BY <1>2, <1>4, <1>6, <1>8, MakesClient
<1>10. Now' = Client(msgs', num_msgs', timers')
  BY DEF Now, Client
<1> QED BY <1>1, <1>7, <1>9, <1>10

-----------------------------------------------------------------------------
(***************************************************************************)
(* The theorems about the client.                                          *)
(***************************************************************************)
LEMMA RadiusInvInit == RadiusInit => RadiusInv
<1> SUFFICES ASSUME RadiusInit PROVE RadiusInv
  OBVIOUS
<1>1. /\ msgs = <<>> /\ num_msgs = 0 /\ timers = {} /\ server = [auth |-> 1, acct |-> 1]
      /\ next_radius_identifier = 0 /\ dangling = FALSE /\ sends = 0
  BY DEF RadiusInit
<1>2. server \in Servers
  <2>1. 1 \in DOMAIN AuthSecrets /\ 1 \in DOMAIN AcctSecrets
    BY RadiusAssumption
  <2> QED BY <1>1, <2>1 DEF Servers
<1>3. ListSound(<<>>, server)
  BY DEF ListSound, OneOfEach
<1>4. 0 \in 0..MaxEntries /\ {} \in SUBSET (0..MaxWait) /\ Len(<<>>) <= 0
  BY Constants
<1>5. ClientSound(Client(<<>>, 0, {}), server)
  BY <1>3, <1>4, MakesClient
<1>6. Now = Client(<<>>, 0, {})
  BY <1>1 DEF Now
<1>7. 0 \in 0..NumIds - 1 /\ 0 \in 0..MaxSends
  BY Constants
<1> QED BY <1>1, <1>2, <1>5, <1>6, <1>7 DEF RadiusInv

LEMMA RadiusInvStep == RadiusInv /\ [RadiusNext]_radiusVars => RadiusInv'
<1> SUFFICES ASSUME RadiusInv, [RadiusNext]_radiusVars PROVE RadiusInv'
  OBVIOUS
<1>1. CASE UNCHANGED radiusVars
  <2>1. Now' = Now
    BY <1>1 DEF radiusVars, clientVars, Now, Client
  <2> QED BY <1>1, <2>1 DEF RadiusInv, radiusVars
<1>2. ASSUME NEW type \in Types, NEW addr \in Addrs, radius_client_send(type, addr)
      PROVE  RadiusInv'
  <2>1. ClientSound(Now', server)
    BY <1>2, SendSound
  <2>2. /\ server' = server /\ dangling' = dangling /\ sends < MaxSends /\ sends' = sends + 1
        /\ next_radius_identifier' = (next_radius_identifier + 1) % NumIds
    BY <1>2 DEF radius_client_send
  <2>3. next_radius_identifier' \in 0..NumIds - 1 /\ sends' \in 0..MaxSends
    BY <2>2, Constants DEF RadiusInv
  <2> QED BY <2>1, <2>2, <2>3 DEF RadiusInv
<1>3. CASE radius_client_timer
  <2>1. ClientSound(Now', server') /\ server' \in Servers
    BY <1>3, TimerSound
  <2>2. UNCHANGED <<next_radius_identifier, sends>> /\ dangling' \in BOOLEAN
    BY <1>3 DEF radius_client_timer, RadiusInv
  <2> QED BY <2>1, <2>2 DEF RadiusInv
<1>4. CASE radius_retry_primary_timer
  BY <1>4, PrimarySound DEF RadiusInv, radius_retry_primary_timer
<1>5. CASE Tick
  BY <1>5, TickSound DEF RadiusInv, Tick
<1>6. CASE Reload
  BY <1>6, ReloadSound DEF RadiusInv, Reload
<1>7. ASSUME NEW r \in wire, radius_client_receive(r) PROVE RadiusInv'
  BY <1>7, ReceiveSound DEF RadiusInv, radius_client_receive
<1>8. ASSUME NEW addr \in Addrs, radius_client_flush_auth(addr) PROVE RadiusInv'
  BY <1>8, FlushAuthSound DEF RadiusInv, radius_client_flush_auth
<1> QED BY <1>1, <1>2, <1>3, <1>4, <1>5, <1>6, <1>7, <1>8 DEF RadiusNext

\* The inductive invariant holds of every behaviour of the client, whatever
\* fails and in whichever order requests, answers, timers and failovers come.
THEOREM RadiusInvariant == RadiusSpec => []RadiusInv
BY RadiusInvInit, RadiusInvStep, PTL DEF RadiusSpec

LEMMA RadiusInvMeans ==
  ASSUME RadiusInv
  PROVE  PendingListSound /\ SignedForServer
<1>1. /\ msgs \in Seq(Entries) /\ OneOfEach(msgs) /\ num_msgs \in 0..MaxEntries
      /\ timers \in SUBSET (0..MaxWait) /\ (msgs # <<>> => timers # {})
      /\ Len(msgs) \in Nat /\ Len(msgs) <= num_msgs
      /\ \A k \in DOMAIN msgs : msgs[k] \in Entries /\ SignedFor(msgs[k], server)
  BY NowFacts DEF RadiusInv
<1>2. RadiusTypeOK
  BY <1>1 DEF RadiusTypeOK, RadiusInv, Servers
<1>3. PendingIsTimed /\ OneInterimEach
  BY <1>1 DEF PendingIsTimed, OneInterimEach, OneOfEach
<1>4. IdsUniqueAndBounded
  BY <1>1, Constants DEF IdsUniqueAndBounded, OneOfEach
<1>5. SignedForServer
  BY <1>1 DEF SignedForServer, SignedFor, Pending
<1> QED BY <1>2, <1>3, <1>4, <1>5 DEF PendingListSound

\* Whatever the walk, the limit of the list, failovers and send errors do,
\* what is pending has a timer, an identifier of its own and room in the list.
THEOREM PendingListAlwaysSound == RadiusSpec => []PendingListSound
BY RadiusInvariant, RadiusInvMeans, PTL

\* After any sequence of failovers and returns to the primary server a pending
\* request is signed with the secret of the server it goes to.
THEOREM AlwaysSignedForServer == RadiusSpec => []SignedForServer
BY RadiusInvariant, RadiusInvMeans, PTL

-----------------------------------------------------------------------------
(***************************************************************************)
(* Access control.  As long as no identifier has come round under a query, *)
(* a pending request with the identifier of a query is about its station.  *)
(***************************************************************************)
Cache == [addr : Addrs, accepted : Codes \ {"CHALLENGE"}, age : 0..AclTimeout + 1]
Queries == [addr : Addrs, radius_id : 0..NumIds - 1, age : 0..AclTimeout + 1]

OneOfStation(list) == \A j, k \in DOMAIN list : list[j].addr = list[k].addr => j = k
SameQuery(q, p) == q.addr = p.addr /\ q.radius_id = p.radius_id
AskedIn(new, old) == \A k \in DOMAIN new : \E j \in DOMAIN old : SameQuery(new[k], old[j])

OwnQuery ==
  \A k \in DOMAIN msgs, j \in DOMAIN acl_queries :
    msgs[k].id = acl_queries[j].radius_id => msgs[k].addr = acl_queries[j].addr

\* The inductive invariant.
AclInv ==
  /\ RadiusInv
  /\ acl_cache \in Seq(Cache) /\ acl_queries \in Seq(Queries) /\ expire \in 0..AclPeriod
  /\ crossed \in BOOLEAN /\ reused \in BOOLEAN
  /\ OneOfStation(acl_queries) /\ AnswersTakeEffect
  /\ ~reused => OwnQuery

\* Every step of access control is one of the client, or none.
LEMMA ClientStep == [Next]_vars => [RadiusNext]_radiusVars
<1> SUFFICES ASSUME [Next]_vars PROVE [RadiusNext]_radiusVars
  OBVIOUS
<1>1. "AUTH" \in Types
  BY AclAssumption
<1>2. CASE UNCHANGED vars
  BY <1>2 DEF vars
<1>3. ASSUME NEW addr \in Addrs, hostapd_radius_acl_query(addr) \/ Eapol(addr)
      PROVE  RadiusNext
  <2>1. radius_client_send("AUTH", addr)
    BY <1>3 DEF hostapd_radius_acl_query, Eapol
  <2> QED BY <1>1, <2>1 DEF RadiusNext
<1>4. ASSUME NEW r \in wire, NEW code \in Codes, Receive(r, code) PROVE RadiusNext
  BY <1>4 DEF Receive, RadiusNext
<1>5. CASE hostapd_acl_expire
  BY <1>5 DEF hostapd_acl_expire
<1>6. CASE Second
  BY <1>6 DEF Second, RadiusNext
<1>7. CASE radius_client_timer
  BY <1>7 DEF RadiusNext
<1>8. ASSUME NEW addr \in Addrs, radius_client_flush_auth(addr) PROVE RadiusNext
  BY <1>8 DEF RadiusNext
<1> QED BY <1>2, <1>3, <1>4, <1>5, <1>6, <1>7, <1>8 DEF Next

\* Access control and 802.1X use the client as RadiusClient specifies.
THEOREM AclImplementsClient == Spec => RadiusSpec
<1>1. Init => RadiusInit
  BY DEF Init
<1> QED BY <1>1, ClientStep, PTL DEF Spec, RadiusSpec

\* The list of queries, as entries come and go.
LEMMA QueriesLeft ==
  ASSUME NEW list \in Seq(Queries), OneOfStation(list), NEW gone
  PROVE  /\ Without(list, gone) \in Seq(Queries) /\ OneOfStation(Without(list, gone))
         /\ AskedIn(Without(list, gone), list)
<1> DEFINE new == Without(list, gone)
<1>1. /\ new \in Seq(Queries)
      /\ \E h \in [DOMAIN new -> DOMAIN list \ gone] :
           /\ \A k \in DOMAIN new : new[k] = list[h[k]]
           /\ \A k, l \in DOMAIN new : h[k] = h[l] => k = l
  BY WithoutFacts
<1> HIDE DEF new
<1>2. OneOfStation(new) /\ AskedIn(new, list)
  BY <1>1 DEF OneOfStation, AskedIn, SameQuery
<1> QED BY <1>1, <1>2 DEF new

LEMMA QueryAdded ==
  ASSUME NEW list \in Seq(Queries), OneOfStation(list), NEW q \in Queries,
         \A k \in DOMAIN list : list[k].addr # q.addr
  PROVE  /\ <<q>> \o list \in Seq(Queries) /\ OneOfStation(<<q>> \o list)
         /\ \A k \in DOMAIN (<<q>> \o list) :
              (<<q>> \o list)[k] = q \/ \E j \in DOMAIN list : (<<q>> \o list)[k] = list[j]
<1> DEFINE new == <<q>> \o list
<1>1. /\ new \in Seq(Queries) /\ DOMAIN new = 1..(Len(list) + 1) /\ Len(list) \in Nat
      /\ new[1] = q
      /\ \A k \in DOMAIN new : k # 1 => k - 1 \in DOMAIN list /\ new[k] = list[k - 1]
  OBVIOUS
<1> HIDE DEF new
<1>2. ASSUME NEW j \in DOMAIN new, NEW k \in DOMAIN new, new[j].addr = new[k].addr PROVE j = k
  <2>1. j = 1 <=> k = 1
    BY <1>1, <1>2
  <2>2. ASSUME j # 1, k # 1 PROVE j = k
    <3>1. j - 1 = k - 1
      BY <1>1, <1>2, <2>2 DEF OneOfStation
    <3> QED BY <1>1, <3>1
  <2> QED BY <2>1, <2>2
<1>3. OneOfStation(new)
  BY <1>2 DEF OneOfStation
<1>4. \A k \in DOMAIN new : new[k] = q \/ \E j \in DOMAIN list : new[k] = list[j]
  BY <1>1
<1> QED BY <1>1, <1>3, <1>4 DEF new

\* As requests and queries leave, what is pending still fits.
LEMMA StillOwn ==
  ASSUME OwnQuery, ComesFrom(msgs', msgs), AskedIn(acl_queries', acl_queries)
  PROVE  OwnQuery'
BY DEF OwnQuery, ComesFrom, AskedIn, SameRequest, SameQuery

LEMMA AskedInItself == AskedIn(acl_queries, acl_queries)
BY DEF AskedIn, SameQuery

LEMMA AclInvInit == Init => AclInv
<1> SUFFICES ASSUME Init PROVE AclInv
  OBVIOUS
<1>1. RadiusInv
  BY RadiusInvInit DEF Init
<1>2. /\ acl_cache = <<>> /\ acl_queries = <<>> /\ expire = AclPeriod /\ crossed = FALSE
      /\ reused = FALSE /\ decided = [code |-> "none", result |-> "none"] /\ msgs = <<>>
  BY DEF Init, RadiusInit
<1>3. OneOfStation(acl_queries) /\ OwnQuery
  BY <1>2 DEF OneOfStation, OwnQuery
<1>4. AnswersTakeEffect
  BY <1>2 DEF AnswersTakeEffect, AnswerDecides, AnswersOwnQuery
<1>5. expire \in 0..AclPeriod
  BY <1>2, AclAssumption
<1>6. acl_cache \in Seq(Cache) /\ acl_queries \in Seq(Queries)
  BY <1>2
<1> QED BY <1>1, <1>2, <1>3, <1>4, <1>5, <1>6 DEF AclInv

\* The newest entry of the cache counts.
LEMMA CacheAnswers ==
  ASSUME NEW e \in Cache, e.age = 0, NEW old \in Seq(Cache)
  PROVE  /\ <<e>> \o old \in Seq(Cache)
         /\ hostapd_allowed_address(<<e>> \o old, e.addr) = e.accepted
<1> DEFINE cache == <<e>> \o old
           first == FirstOf(cache, LAMBDA x : x.addr = e.addr)
           found == {cache[k] : k \in first}
           res == {x.accepted : x \in {x \in found : x.age <= AclTimeout}}
<1>1. cache \in Seq(Cache) /\ cache[1] = e /\ 1 \in DOMAIN cache /\ DOMAIN cache \subseteq Nat \ {0}
  OBVIOUS
<1> HIDE DEF cache
<1>2. first = {k \in DOMAIN cache : /\ cache[k].addr = e.addr
                                    /\ \A j \in 1..k - 1 : ~(cache[j].addr = e.addr)}
  BY DEF FirstOf
<1> HIDE DEF first
<1>3. first = {1}
  <2>1. 1 \in first
    BY <1>1, <1>2
  <2>2. ASSUME NEW k \in first, k # 1 PROVE FALSE
    <3>1. 1 \in 1..k - 1
      BY <1>1, <1>2, <2>2
    <3> QED BY <1>1, <1>2, <2>2, <3>1
  <2> QED BY <2>1, <2>2
<1>4. found = {e}
  BY <1>1, <1>3
<1> HIDE DEF found
<1>5. e.age <= AclTimeout
  BY AclAssumption
<1>6. res = {e.accepted}
  BY <1>4, <1>5, Zenon
<1>7. hostapd_acl_cache_get(cache, e.addr) = res
  BY DEF hostapd_acl_cache_get, found, first
<1> HIDE DEF res
<1>8. hostapd_allowed_address(cache, e.addr) = (CHOOSE x \in res : TRUE)
  BY <1>6, <1>7 DEF hostapd_allowed_address
<1>9. (CHOOSE x \in res : TRUE) \in res
  BY <1>6
<1> QED BY <1>1, <1>6, <1>8, <1>9 DEF cache

\* A query is made only when the station has none.
LEMMA AsksOnce ==
  ASSUME acl_cache \in Seq(Cache), NEW addr, hostapd_allowed_address(acl_cache, addr) = "QUERY"
  PROVE  \A k \in DOMAIN acl_queries : acl_queries[k].addr # addr
<1> DEFINE res == hostapd_acl_cache_get(acl_cache, addr)
<1>1. res \subseteq Codes
  <2>0. \A k \in DOMAIN acl_cache : acl_cache[k] \in Cache
    OBVIOUS
  <2>1. \A k \in DOMAIN acl_cache : acl_cache[k].accepted \in Codes
    BY <2>0 DEF Cache
  <2> QED BY <2>1 DEF hostapd_acl_cache_get, FirstOf
<1>2. "QUERY" \notin Codes
  BY DEF Codes
<1> HIDE DEF res
<1>3. CASE res # {}
  <2>1. hostapd_allowed_address(acl_cache, addr) = (CHOOSE x \in res : TRUE)
    BY <1>3 DEF hostapd_allowed_address, res
  <2>2. (CHOOSE x \in res : TRUE) \in res
    BY <1>3
  <2> QED BY <1>1, <1>2, <2>1, <2>2
<1>4. CASE res = {}
  BY <1>4 DEF hostapd_allowed_address, res
<1> QED BY <1>3, <1>4

LEMMA StepKeepsAclInv == AclInv /\ [Next]_vars => AclInv'
<1> SUFFICES ASSUME AclInv, [Next]_vars PROVE AclInv'
  OBVIOUS
<1>0. RadiusInv'
  BY ClientStep, RadiusInvStep DEF AclInv
<1>a. /\ RadiusInv /\ acl_cache \in Seq(Cache) /\ acl_queries \in Seq(Queries)
      /\ expire \in 0..AclPeriod /\ crossed \in BOOLEAN /\ reused \in BOOLEAN
      /\ OneOfStation(acl_queries) /\ AnswersTakeEffect /\ (~reused => OwnQuery)
  BY DEF AclInv
<1>b. "AUTH" \in Types
  BY AclAssumption
<1>c. ASSUME UNCHANGED aclVars, ComesFrom(msgs', msgs) PROVE AclInv'
  <2>1. UNCHANGED <<acl_cache, acl_queries, expire, decided, crossed, reused>>
    BY <1>c DEF aclVars
  <2>2. ~reused => OwnQuery'
    BY <1>a, <1>c, <2>1, StillOwn, AskedInItself
  <2> QED BY <1>0, <1>a, <2>1, <2>2
          DEF AclInv, AnswersTakeEffect, AnswerDecides, AnswersOwnQuery, OneOfStation
<1>1. CASE UNCHANGED vars
  <2>1. ComesFrom(msgs', msgs) /\ UNCHANGED aclVars
    BY <1>1 DEF vars, radiusVars, clientVars, ComesFrom, SameRequest
  <2> QED BY <1>c, <2>1
<1>2. ASSUME NEW addr \in Addrs, hostapd_radius_acl_query(addr) PROVE AclInv'
  <2> DEFINE q == [addr |-> addr, radius_id |-> next_radius_identifier, age |-> 0]
  <2>1. /\ hostapd_allowed_address(acl_cache, addr) = "QUERY"
        /\ radius_client_send("AUTH", addr) /\ acl_queries' = <<q>> \o acl_queries
        /\ reused' = (reused \/ ReusesId)
        /\ UNCHANGED <<acl_cache, expire, decided, crossed>>
    BY <1>2 DEF hostapd_radius_acl_query
  <2>2. q \in Queries /\ q.addr = addr /\ q.radius_id = next_radius_identifier
    BY <1>a, AclAssumption DEF Queries, RadiusInv
  <2> HIDE DEF q
  <2>3. \A k \in DOMAIN acl_queries : acl_queries[k].addr # q.addr
    BY <1>a, <2>1, <2>2, AsksOnce
  <2>4. /\ acl_queries' \in Seq(Queries) /\ OneOfStation(acl_queries')
        /\ \A k \in DOMAIN acl_queries' :
             acl_queries'[k] = q \/ \E j \in DOMAIN acl_queries : acl_queries'[k] = acl_queries[j]
    BY <1>a, <2>1, <2>2, <2>3, QueryAdded
  <2>5. \A k \in DOMAIN msgs' :
          \/ SameRequest(msgs'[k], SentEntry("AUTH", addr))
          \/ /\ \E j \in DOMAIN msgs : SameRequest(msgs'[k], msgs[j])
             /\ msgs'[k].id # next_radius_identifier
    BY <1>a, <1>b, <2>1, SendSound
  <2>6. /\ SentEntry("AUTH", addr).id = next_radius_identifier
        /\ SentEntry("AUTH", addr).addr = addr
    BY DEF SentEntry
  <2>7. ASSUME ~reused' PROVE OwnQuery'
    <3>1. OwnQuery /\ ~ReusesId
      BY <1>a, <2>1, <2>7
    <3>2. \A j \in DOMAIN acl_queries : acl_queries[j].radius_id # next_radius_identifier
      BY <3>1 DEF ReusesId
    <3>3. ASSUME NEW k \in DOMAIN msgs', NEW j \in DOMAIN acl_queries',
                 msgs'[k].id = acl_queries'[j].radius_id
          PROVE  msgs'[k].addr = acl_queries'[j].addr
      <4>1. CASE acl_queries'[j] = q
        BY <2>2, <2>5, <2>6, <3>3, <4>1 DEF SameRequest
      <4>2. CASE acl_queries'[j] # q
        <5>1. PICK i \in DOMAIN acl_queries : acl_queries'[j] = acl_queries[i]
          BY <2>4, <4>2
        <5>2. msgs'[k].id # next_radius_identifier
          BY <3>2, <3>3, <5>1
        <5>3. PICK l \in DOMAIN msgs : SameRequest(msgs'[k], msgs[l])
          BY <2>5, <2>6, <5>2 DEF SameRequest
        <5> QED BY <3>1, <3>3, <5>1, <5>3 DEF OwnQuery, SameRequest
      <4> QED BY <4>1, <4>2
    <3> QED BY <3>3 DEF OwnQuery
  <2>8. reused' \in BOOLEAN
    BY <1>a, <2>1, Zenon
  <2>9. AnswersTakeEffect'
    BY <1>a, <2>1, Zenon DEF AnswersTakeEffect, AnswerDecides, AnswersOwnQuery
  <2>10. /\ acl_cache' \in Seq(Cache) /\ expire' \in 0..AclPeriod /\ crossed' \in BOOLEAN
    BY <1>a, <2>1
  <2>11. OneOfStation(acl_queries)'
    BY <2>4 DEF OneOfStation
  <2> QED BY <1>0, <2>4, <2>7, <2>8, <2>9, <2>10, <2>11 DEF AclInv
<1>3. ASSUME NEW addr \in Addrs, Eapol(addr) PROVE AclInv'
  <2>1. /\ radius_client_send("AUTH", addr) /\ reused' = (reused \/ ReusesId)
        /\ UNCHANGED <<acl_cache, acl_queries, expire, decided, crossed>>
    BY <1>3 DEF Eapol
  <2>5. \A k \in DOMAIN msgs' :
          \/ SameRequest(msgs'[k], SentEntry("AUTH", addr))
          \/ /\ \E j \in DOMAIN msgs : SameRequest(msgs'[k], msgs[j])
             /\ msgs'[k].id # next_radius_identifier
    BY <1>a, <1>b, <2>1, SendSound
  <2>6. SentEntry("AUTH", addr).id = next_radius_identifier
    BY DEF SentEntry
  <2>7. ASSUME ~reused' PROVE OwnQuery'
    <3>1. OwnQuery /\ ~ReusesId
      BY <1>a, <2>1, <2>7
    <3>2. \A j \in DOMAIN acl_queries : acl_queries[j].radius_id # next_radius_identifier
      BY <3>1 DEF ReusesId
    <3>3. ASSUME NEW k \in DOMAIN msgs', NEW j \in DOMAIN acl_queries,
                 msgs'[k].id = acl_queries[j].radius_id
          PROVE  msgs'[k].addr = acl_queries[j].addr
      <4>1. msgs'[k].id # next_radius_identifier
        BY <3>2, <3>3
      <4>2. PICK l \in DOMAIN msgs : SameRequest(msgs'[k], msgs[l])
        BY <2>5, <2>6, <4>1 DEF SameRequest
      <4> QED BY <3>1, <3>3, <4>2 DEF OwnQuery, SameRequest
    <3> QED BY <2>1, <3>3 DEF OwnQuery
  <2>8. reused' \in BOOLEAN
    BY <1>a, <2>1, Zenon
  <2>9. AnswersTakeEffect'
    BY <1>a, <2>1, Zenon DEF AnswersTakeEffect, AnswerDecides, AnswersOwnQuery
  <2>10. /\ acl_cache' \in Seq(Cache) /\ expire' \in 0..AclPeriod /\ crossed' \in BOOLEAN
         /\ acl_queries' \in Seq(Queries) /\ OneOfStation(acl_queries)'
    BY <1>a, <2>1 DEF OneOfStation
  <2> QED BY <1>0, <2>7, <2>8, <2>9, <2>10 DEF AclInv
<1>4. ASSUME NEW r \in wire, NEW code \in Codes, Receive(r, code) PROVE AclInv'
  <2>1. /\ radius_client_receive(r)
        /\ IF Matches(r) = {} THEN UNCHANGED aclVars ELSE hostapd_acl_recv_radius(r, code)
    BY <1>4 DEF Receive
  <2>2. ComesFrom(msgs', msgs)
    BY <1>a, <2>1, ReceiveSound
  <2> DEFINE m == msgs[Min(Matches(r))]
             k == CHOOSE j \in QueryOf(r.id) : TRUE
             q == acl_queries[k]
             e == [addr |-> q.addr, accepted |-> code, age |-> 0]
             cache == <<e>> \o acl_cache
  <2>3. CASE Matches(r) = {} \/ QueryOf(r.id) = {} \/ ~Genuine(r, m) \/ code = "CHALLENGE"
    <3>1. UNCHANGED aclVars
      BY <2>1, <2>3 DEF hostapd_acl_recv_radius
    <3> QED BY <1>c, <2>2, <3>1
  <2>4. CASE ~(Matches(r) = {} \/ QueryOf(r.id) = {} \/ ~Genuine(r, m) \/ code = "CHALLENGE")
    <3>1. /\ acl_cache' = cache
          /\ decided' = [code |-> code, result |-> hostapd_allowed_address(cache, q.addr)]
          /\ acl_queries' = Without(acl_queries, {k})
          /\ crossed' = (crossed \/ r.addr # q.addr)
          /\ expire' = expire /\ reused' = reused
      BY <2>1, <2>4 DEF hostapd_acl_recv_radius, Cached
    <3>2. k \in QueryOf(r.id)
      BY <2>4
    <3> HIDE DEF k
    <3>3. k \in DOMAIN acl_queries /\ q.radius_id = r.id
      BY <3>2 DEF QueryOf, FirstOf
    <3>4. q \in Queries
      BY <1>a, <3>3
    <3> HIDE DEF q
    <3>5. q.addr \in Addrs /\ code \in Codes \ {"CHALLENGE"} /\ 0 \in 0..AclTimeout + 1
      BY <2>4, <3>4, AclAssumption DEF Queries
    <3>6. e \in Cache /\ e.age = 0 /\ e.addr = q.addr /\ e.accepted = code
      BY <3>5 DEF Cache
    <3> HIDE DEF e
    <3>7. cache \in Seq(Cache) /\ hostapd_allowed_address(cache, q.addr) = code
      BY <1>a, <3>6, CacheAnswers
    <3> HIDE DEF cache
    <3>8. AnswerDecides'
      BY <3>1, <3>7 DEF AnswerDecides
    <3>9. ~reused => r.addr = q.addr
      <4>1. Min(Matches(r)) \in DOMAIN msgs /\ m.id = r.id
        BY <1>a, <2>4, MatchFacts DEF RadiusInv
      <4>2. r.addr = m.addr
        BY <2>4 DEF Genuine
      <4> HIDE DEF m
      <4>3. ~reused => m.addr = q.addr
        BY <1>a, <3>3, <4>1 DEF OwnQuery, m, q
      <4> QED BY <4>2, <4>3
    <3>10. AnswersOwnQuery' /\ crossed' \in BOOLEAN
      <4>1. crossed => reused
        BY <1>a DEF AnswersTakeEffect, AnswersOwnQuery
      <4> QED BY <1>a, <3>1, <3>9, <4>1, Zenon DEF AnswersOwnQuery
    <3>11. /\ acl_queries' \in Seq(Queries) /\ OneOfStation(acl_queries')
           /\ AskedIn(acl_queries', acl_queries)
      BY <1>a, <3>1, QueriesLeft
    <3>12. ~reused' => OwnQuery'
      BY <1>a, <2>2, <3>1, <3>11, StillOwn
    <3>13. OneOfStation(acl_queries)'
      BY <3>11 DEF OneOfStation
    <3> QED BY <1>0, <1>a, <3>1, <3>7, <3>8, <3>10, <3>11, <3>12, <3>13
            DEF AclInv, AnswersTakeEffect
  <2> QED BY <2>3, <2>4
<1>5. CASE hostapd_acl_expire
  <2> DEFINE oldc == {k \in DOMAIN acl_cache : acl_cache[k].age > AclTimeout}
             oldq == {k \in DOMAIN acl_queries : acl_queries[k].age > AclTimeout}
  <2>1. /\ acl_cache' = Without(acl_cache, oldc) /\ acl_queries' = Without(acl_queries, oldq)
        /\ expire' = AclPeriod /\ UNCHANGED <<radiusVars, decided, crossed, reused>>
    BY <1>5 DEF hostapd_acl_expire, Drop
  <2> HIDE DEF oldc, oldq
  <2>2. acl_cache' \in Seq(Cache)
    BY <1>a, <2>1, WithoutFacts
  <2>3. /\ acl_queries' \in Seq(Queries) /\ OneOfStation(acl_queries')
        /\ AskedIn(acl_queries', acl_queries)
    BY <1>a, <2>1, QueriesLeft
  <2>4. ComesFrom(msgs', msgs)
    BY <2>1 DEF radiusVars, clientVars, ComesFrom, SameRequest
  <2>5. ~reused' => OwnQuery'
    BY <1>a, <2>1, <2>3, <2>4, StillOwn
  <2>6. expire' \in 0..AclPeriod
    BY <2>1, AclAssumption
  <2>7. AnswersTakeEffect' /\ OneOfStation(acl_queries)'
    BY <1>a, <2>1, <2>3 DEF AnswersTakeEffect, AnswerDecides, AnswersOwnQuery, OneOfStation
  <2> QED BY <1>0, <1>a, <2>1, <2>2, <2>3, <2>5, <2>6, <2>7 DEF AclInv
<1>6. CASE Second
  <2> DEFINE Re(e) == [e EXCEPT !.age = Least(e.age + 1, AclTimeout + 1)]
             cache == [k \in DOMAIN acl_cache |-> Re(acl_cache[k])]
             queries == [k \in DOMAIN acl_queries |-> Re(acl_queries[k])]
  <2>1. /\ Tick /\ expire > 0 /\ expire' = expire - 1
        /\ acl_cache' = cache /\ acl_queries' = queries /\ UNCHANGED <<decided, crossed, reused>>
    BY <1>6 DEF Second, Older, Update
  <2>2. ComesFrom(msgs', msgs)
    BY <1>a, <2>1, TickSound
  <2>3. ASSUME NEW e \in Cache PROVE Re(e) \in Cache
    <3>1. Least(e.age + 1, AclTimeout + 1) \in 0..AclTimeout + 1
      BY AclAssumption DEF Cache, Least
    <3> QED BY <3>1 DEF Cache
  <2>4. ASSUME NEW q \in Queries PROVE Re(q) \in Queries /\ SameQuery(Re(q), q)
    <3>1. Least(q.age + 1, AclTimeout + 1) \in 0..AclTimeout + 1
      BY AclAssumption DEF Queries, Least
    <3> QED BY <3>1 DEF Queries, SameQuery
  <2> HIDE DEF Re
  <2>5. cache \in Seq(Cache)
    BY <1>a, <2>3
  <2>6. /\ queries \in Seq(Queries) /\ DOMAIN queries = DOMAIN acl_queries
        /\ \A k \in DOMAIN queries : SameQuery(queries[k], acl_queries[k])
    BY <1>a, <2>4
  <2> HIDE DEF cache, queries
  <2>7. OneOfStation(queries) /\ AskedIn(queries, acl_queries)
    BY <1>a, <2>6 DEF OneOfStation, AskedIn, SameQuery
  <2>8. ~reused' => OwnQuery'
    BY <1>a, <2>1, <2>2, <2>7, StillOwn
  <2>9. expire' \in 0..AclPeriod
    BY <1>a, <2>1, AclAssumption
  <2>10. AnswersTakeEffect' /\ OneOfStation(acl_queries)'
    BY <1>a, <2>1, <2>7 DEF AnswersTakeEffect, AnswerDecides, AnswersOwnQuery, OneOfStation
  <2> QED BY <1>0, <1>a, <2>1, <2>5, <2>6, <2>8, <2>9, <2>10 DEF AclInv
<1>7. CASE radius_client_timer /\ UNCHANGED aclVars
  BY <1>a, <1>c, <1>7, TimerSound
<1>8. ASSUME NEW addr \in Addrs, radius_client_flush_auth(addr), UNCHANGED aclVars PROVE AclInv'
  BY <1>a, <1>c, <1>8, FlushAuthSound
<1> QED BY <1>1, <1>2, <1>3, <1>4, <1>5, <1>6, <1>7, <1>8 DEF Next

\* The inductive invariant of access control.
THEOREM AclInvariant == Spec => []AclInv
BY AclInvInit, StepKeepsAclInv, PTL DEF Spec

\* However often a station repeats its frame and whatever the client does with
\* the request, the station has one query at a time.
THEOREM OneQueryEachAlways == Spec => []OneQueryEach
<1>1. AclInv => OneQueryEach
  BY DEF AclInv, OneQueryEach, AclTypeOK, OneOfStation, Cache, Queries
<1> QED BY <1>1, AclInvariant, PTL

\* An answer decides the frame that was put aside for it and, unless an
\* identifier came round under a query, is about the station of that query.
THEOREM AnswersAlwaysTakeEffect == Spec => []AnswersTakeEffect
<1>1. AclInv => AnswersTakeEffect
  BY DEF AclInv
<1> QED BY <1>1, AclInvariant, PTL
=============================================================================
