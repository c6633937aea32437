------------------------ MODULE FragmentReceiver_proofs ------------------------
(***************************************************************************)
(* Proofs about the reassembly of fragments: each id has one buffer, a     *)
(* packet is given up only when the database is full, and what is handed   *)
(* on is whole as long as the network duplicates nothing and the sender    *)
(* does not come back to an id too early.                                  *)
(***************************************************************************)
EXTENDS FragmentReceiver, FiniteSetTheorems, WellFoundedInduction, TLAPS

-----------------------------------------------------------------------------
(***************************************************************************)
(* The inductive invariant.                                                *)
(***************************************************************************)

\* A slot in use waits for at least one fragment and has taken in at least one;
\* together they are never more than a packet has.
Awaited(info) ==
  /\ info.total_number_fragment >= 1 /\ info.length >= 1
  /\ info.total_number_fragment + info.length <= MaxTotal

SlotsAwait ==
  \A s \in Slots : IF info_addr[s] = NULL THEN got[s] = {} ELSE Awaited(info_addr[s])

\* Only packets that were sent are about.
AboutWasSent ==
  /\ \A f \in Fragments : network[f] > 0 => f.packet \in sent
  /\ \A s \in Slots : \A f \in got[s] : f.packet \in sent

\* Without duplicates a fragment is under way or in a slot, and once at most.
EachOnce ==
  duplicates = 0 =>
    \A f \in Fragments :
      /\ network[f] <= 1
      /\ network[f] > 0 => \A s \in Slots : f \notin got[s]

\* Packets that are about at the same time have different ids.
IdsApart ==
  ~reused => \A p, q \in Packets : (IdOf[p] = IdOf[q] /\ About(p) /\ About(q)) => p = q

\* The offsets of a packet that a slot has taken in.
Units(p, g) == {o \in 0..(TotalOf[p] - 1) : [packet |-> p, number |-> o] \in g}

\* Slot s holds part of the packet p and nothing else.
Holds(s, p) ==
  /\ info_addr[s].id = IdOf[p]
  /\ got[s] # {} /\ \A f \in got[s] : f.packet = p
  /\ info_addr[s].length = Cardinality(Units(p, got[s]))
  /\ info_addr[s].total_number_fragment + info_addr[s].length = TotalOf[p]
  /\ \A o \in Units(p, got[s]) : packet_addresses[s][o] = p

OnePacketPerSlot ==
  (duplicates = 0 /\ ~reused) =>
    \A s \in Slots : info_addr[s] # NULL => \E p \in Packets : Holds(s, p)

FragmentInv ==
  /\ OneBufferPerId /\ SlotsAwait /\ AboutWasSent /\ EachOnce /\ IdsApart
  /\ OnePacketPerSlot /\ WholeWhenReady

-----------------------------------------------------------------------------
(***************************************************************************)
(* Lemmas about the operators.                                             *)
(***************************************************************************)

LEMMA Constants ==
  /\ PACKET_SPACES \in Nat /\ PACKET_SPACES >= 1
  /\ MaxTotal \in Nat /\ 1 <= MaxTotal /\ MaxTotal <= 255
  /\ IdOf \in [Packets -> Bytes] /\ TotalOf \in [Packets -> 1..MaxTotal]
  /\ NULL \notin Infos /\ NULL \notin Packets
  /\ MaxDuplicates \in Nat
BY FragmentAssumption

LEMMA LeastNatural ==
  ASSUME NEW S \in SUBSET Nat, S # {}
  PROVE  \E x \in S : \A y \in S : x <= y
<1> DEFINE R == OpToRel(<, Nat)
<1>1. PICK x \in S : \A y \in S : ~ (<<y, x>> \in R)
  <2>1. IsWellFoundedOn(R, Nat)
    BY NatLessThanWellFounded
  <2> HIDE DEF R
  <2> QED
    BY <2>1, WFMin
<1>2. ASSUME NEW y \in S PROVE x <= y
  <2>1. y < x => <<y, x>> \in R
    BY DEF OpToRel
  <2>2. ~(y < x)
    BY <1>1, <2>1, Zenon
  <2> HIDE DEF R
  <2> QED
    BY <2>2, SMT
<1> QED
  BY <1>2

LEMMA SlotsFacts == Slots \in SUBSET Nat /\ PACKET_SPACES \notin Slots /\ 0 \in Slots
BY Constants DEF Slots

LEMMA FirstInSet ==
  ASSUME NEW S \in SUBSET Slots, S # {}
  PROVE  First(S) \in S
<1>1. \E x \in S : \A y \in S : x <= y
  BY SlotsFacts, LeastNatural
<1> QED
  BY <1>1 DEF First

LEMMA LastInSet ==
  ASSUME NEW S \in SUBSET Slots, S # {}
  PROVE  Last(S) \in S
<1> DEFINE T == {PACKET_SPACES - x : x \in S}
<1>1. T \in SUBSET Nat /\ T # {}
  <2>1. \A x \in S : PACKET_SPACES - x \in Nat
    BY Constants DEF Slots
  <2> QED
    BY <2>1
<1>2. PICK m \in T : \A n \in T : m <= n
  BY <1>1, LeastNatural
<1>3. PICK x \in S : m = PACKET_SPACES - x
  OBVIOUS
<1>4. \A y \in S : y <= x
  <2> TAKE y \in S
  <2>1. m <= PACKET_SPACES - y
    BY <1>2
  <2> QED
    BY <1>3, <2>1, Constants DEF Slots
<1> QED
  BY <1>4 DEF Last

\* find_packet_id gives the slot of the id, or a free one if there is none, or
\* PACKET_SPACES if the database is full of other ids.
LEMMA FindPacketId ==
  ASSUME NEW db, NEW id
  PROVE  \/ find_packet_id(db, id) \in Holding(db, id)
         \/ Holding(db, id) = {} /\ find_packet_id(db, id) \in Free(db)
         \/ /\ Holding(db, id) = {} /\ Free(db) = {}
            /\ find_packet_id(db, id) = PACKET_SPACES
<1>1. Holding(db, id) \in SUBSET Slots /\ Free(db) \in SUBSET Slots
  BY DEF Holding, Free
<1>2. Holding(db, id) # {} => First(Holding(db, id)) \in Holding(db, id)
  BY <1>1, FirstInSet
<1>3. Free(db) # {} => Last(Free(db)) \in Free(db)
  BY <1>1, LastInSet
<1> QED
  BY <1>2, <1>3 DEF find_packet_id

\* The database that a fragment is put into, and its slot there.
LEMMA DatabaseFacts ==
  ASSUME NEW id
  PROVE  /\ find_packet_id(Database(id), id) \in Slots
         /\ \/ Database(id) = info_addr
            \/ Database(id) = purge_database /\ Free(info_addr) = {}
         /\ \/ find_packet_id(Database(id), id) \in Holding(Database(id), id)
            \/ /\ Holding(Database(id), id) = {}
               /\ Database(id)[find_packet_id(Database(id), id)] = NULL
<1>1. CASE find_packet_id(info_addr, id) = PACKET_SPACES
  <2>1. Database(id) = purge_database
    BY <1>1 DEF Database
  <2>2. Free(info_addr) = {}
    BY <1>1, FindPacketId, SlotsFacts DEF Holding, Free
  <2>3. Holding(purge_database, id) = {} /\ Free(purge_database) # {}
    BY SlotsFacts DEF purge_database, Holding, Free
  <2>4. find_packet_id(purge_database, id) \in Free(purge_database)
    BY <2>3, FindPacketId
  <2> QED
    BY <2>1, <2>2, <2>3, <2>4 DEF Free
<1>2. CASE find_packet_id(info_addr, id) # PACKET_SPACES
  <2>1. Database(id) = info_addr
    BY <1>2 DEF Database
  <2> QED
    BY <1>2, <2>1, FindPacketId DEF Holding, Free
<1> QED
  BY <1>1, <1>2

LEMMA CountDownFacts ==
  ASSUME NEW info \in Infos, info.total_number_fragment >= 1
  PROVE  /\ CountDown(info) \in Infos
         /\ CountDown(info).id = info.id
         /\ CountDown(info).total_number_fragment = info.total_number_fragment - 1
         /\ CountDown(info).length = info.length + 1
<1>1. info.total_number_fragment \in Bytes /\ info.length \in Nat /\ info.id \in Bytes
  BY DEF Infos
<1>2. \A n \in Bytes : n >= 1 => (n - 1) % 256 = n - 1 /\ n - 1 \in Bytes
  BY DEF Bytes
<1>3. /\ (info.total_number_fragment - 1) % 256 = info.total_number_fragment - 1
      /\ info.total_number_fragment - 1 \in Bytes
  BY <1>1, <1>2
<1>4. CountDown(info) = [id |-> info.id,
                         total_number_fragment |-> info.total_number_fragment - 1,
                         length |-> info.length + 1]
  <2> DEFINE n == (info.total_number_fragment - 1) % 256
  <2>1. CountDown(info) = [info EXCEPT !.total_number_fragment = n, !.length = info.length + 1]
    BY Zenon DEF CountDown
  <2> HIDE DEF n
  <2>2. CountDown(info) = [id |-> info.id, total_number_fragment |-> n,
                           length |-> info.length + 1]
    BY <2>1 DEF Infos
  <2> QED
    BY <1>3, <2>2 DEF n
<1> QED
  BY <1>1, <1>3, <1>4 DEF Infos

LEMMA FragmentFacts ==
  ASSUME NEW f \in Fragments
  PROVE  /\ f.packet \in Packets /\ f.number \in Offsets /\ f.number < TotalOf[f.packet]
         /\ f.number \in 0..(TotalOf[f.packet] - 1)
         /\ f = [packet |-> f.packet, number |-> f.number]
         /\ TotalOf[f.packet] \in 1..MaxTotal /\ IdOf[f.packet] \in Bytes
BY Constants DEF Fragments, Offsets

LEMMA CreateInfoFacts ==
  ASSUME NEW f \in Fragments
  PROVE  /\ create_info(f) \in Infos
         /\ create_info(f).id = IdOf[f.packet]
         /\ create_info(f).total_number_fragment = TotalOf[f.packet]
         /\ create_info(f).length = 0
BY FragmentFacts, Constants DEF create_info, Infos, Bytes

-----------------------------------------------------------------------------
(***************************************************************************)
(* The arrival of a fragment: the parts of fragment_arrive.                *)
(***************************************************************************)

Db(f) == Database(IdOf[f.packet])
SlotOf(f) == find_packet_id(Db(f), IdOf[f.packet])
Taken(f) == Db(f)[SlotOf(f)] # NULL
Before(f) == IF Taken(f) THEN Db(f)[SlotOf(f)] ELSE create_info(f)
After(f) == CountDown(Before(f))
Data(f) == [packet_addresses[SlotOf(f)] EXCEPT ![f.number] = f.packet]
Mine(f) == {f} \cup (IF Taken(f) THEN got[SlotOf(f)] ELSE {})
Kept(f) == [t \in Slots |-> IF Db(f)[t] = NULL THEN {} ELSE got[t]]

\* The packet is complete and handed on.
HandedOn(f) ==
  /\ Taken(f) /\ After(f).total_number_fragment = 0
  /\ result' = [status |-> "READY_TO_SEND",
                data |-> [o \in 0..(After(f).length - 1) |-> Data(f)[o]]]
  /\ info_addr' = [Db(f) EXCEPT ![SlotOf(f)] = NULL]
  /\ got' = [Kept(f) EXCEPT ![SlotOf(f)] = {}]

\* More fragments are to come.
TakenIn(f) ==
  /\ ~Taken(f) \/ After(f).total_number_fragment # 0
  /\ result' = [status |-> "WAITING_FOR_FRAGMENT"]
  /\ info_addr' = [Db(f) EXCEPT ![SlotOf(f)] = After(f)]
  /\ got' = [Kept(f) EXCEPT ![SlotOf(f)] = Mine(f)]

LEMMA Arrival ==
  ASSUME NEW f, fragment_arrive(f)
  PROVE  /\ packet_addresses' = [packet_addresses EXCEPT ![SlotOf(f)] = Data(f)]
         /\ HandedOn(f) \/ TakenIn(f)
<1>1. CASE Taken(f)
  BY <1>1, Zenon DEF fragment_arrive, HandedOn, TakenIn, Taken, Before, After, Data, Mine, Kept, Db,
    SlotOf, IsLastFragment
<1>2. CASE ~Taken(f)
  BY <1>2, Zenon DEF fragment_arrive, HandedOn, TakenIn, Taken, Before, After, Data, Mine, Kept, Db,
    SlotOf, IsLastFragment
<1> QED
  BY <1>1, <1>2

\* The slot is that of the id, or one that was free or is free now.
LEMMA SlotFacts ==
  ASSUME FragmentTypeOK, SlotsAwait, NEW f \in Fragments
  PROVE  /\ SlotOf(f) \in Slots
         /\ Db(f) \in [Slots -> Infos \cup {NULL}]
         /\ \A t \in Slots : Db(f)[t] # NULL => Db(f)[t] = info_addr[t] /\ info_addr[t] # NULL
         /\ Taken(f) => /\ Db(f) = info_addr
                        /\ Db(f)[SlotOf(f)] \in Infos /\ Awaited(Db(f)[SlotOf(f)])
                        /\ Db(f)[SlotOf(f)].id = IdOf[f.packet]
         /\ ~Taken(f) => \A t \in Slots : Db(f)[t] # NULL => Db(f)[t].id # IdOf[f.packet]
         /\ Db(f) # info_addr => Free(info_addr) = {}
<1> DEFINE id == IdOf[f.packet]
<1>1. /\ SlotOf(f) \in Slots
      /\ \/ Db(f) = info_addr
         \/ Db(f) = purge_database /\ Free(info_addr) = {}
      /\ \/ SlotOf(f) \in Holding(Db(f), id)
         \/ Holding(Db(f), id) = {} /\ Db(f)[SlotOf(f)] = NULL
  BY DatabaseFacts, Zenon DEF Db, SlotOf
<1>2. info_addr \in [Slots -> Infos \cup {NULL}]
  BY DEF FragmentTypeOK
<1>3. /\ purge_database \in [Slots -> Infos \cup {NULL}]
      /\ \A t \in Slots : purge_database[t] = NULL
  BY DEF purge_database
<1>4. Db(f) \in [Slots -> Infos \cup {NULL}]
  BY <1>1, <1>2, <1>3
<1>5. \A t \in Slots : Db(f)[t] # NULL => Db(f) = info_addr
  BY <1>1, <1>3
<1>6. ASSUME Taken(f)
      PROVE  /\ Db(f) = info_addr
             /\ Db(f)[SlotOf(f)] \in Infos /\ Awaited(Db(f)[SlotOf(f)])
             /\ Db(f)[SlotOf(f)].id = IdOf[f.packet]
  <2>1. Db(f) = info_addr /\ info_addr[SlotOf(f)] # NULL
    BY <1>1, <1>5, <1>6, Zenon DEF Taken
  <2>2. SlotOf(f) \in Holding(Db(f), id)
    BY <1>1, <1>6, Zenon DEF Taken
  <2>3. Awaited(info_addr[SlotOf(f)])
    BY <1>1, <2>1, Zenon DEF SlotsAwait
  <2>4. info_addr[SlotOf(f)] \in Infos
    BY <1>1, <1>2, <2>1
  <2> QED
    BY <2>1, <2>2, <2>3, <2>4, Zenon DEF Holding
<1>7. ASSUME ~Taken(f), NEW t \in Slots, Db(f)[t] # NULL
      PROVE  Db(f)[t].id # IdOf[f.packet]
  <2>1. Holding(Db(f), id) = {}
    BY <1>1, <1>7, Zenon DEF Holding, Taken
  <2> QED
    BY <1>7, <2>1 DEF Holding
<1> QED
  BY <1>1, <1>4, <1>5, <1>6, <1>7, Zenon

\* What is in the slot after the fragment.
LEMMA AfterFacts ==
  ASSUME FragmentTypeOK, SlotsAwait, NEW f \in Fragments, TotalOf[f.packet] # 1
  PROVE  /\ After(f) \in Infos /\ After(f).id = IdOf[f.packet]
         /\ Before(f) \in Infos
         /\ After(f).total_number_fragment = Before(f).total_number_fragment - 1
         /\ After(f).length = Before(f).length + 1
         /\ After(f).total_number_fragment \in Nat /\ After(f).length \in Nat \ {0}
         /\ After(f).total_number_fragment + After(f).length <= MaxTotal
         /\ ~Taken(f) => After(f).total_number_fragment # 0
<1>1. CASE Taken(f)
  <2>1. /\ Before(f) \in Infos /\ Awaited(Before(f)) /\ Before(f).id = IdOf[f.packet]
    BY <1>1, SlotFacts DEF Before
  <2>2. Before(f).total_number_fragment \in Nat /\ Before(f).length \in Nat
    BY <2>1 DEF Infos, Bytes
  <2> QED
    BY <1>1, <2>1, <2>2, CountDownFacts, Constants DEF After, Awaited
<1>2. CASE ~Taken(f)
  <2>1. /\ Before(f) \in Infos /\ Before(f).id = IdOf[f.packet]
        /\ Before(f).total_number_fragment = TotalOf[f.packet] /\ Before(f).length = 0
    BY <1>2, CreateInfoFacts DEF Before
  <2>2. TotalOf[f.packet] \in 2..MaxTotal
    BY FragmentFacts, Constants
  <2> QED
    BY <1>2, <2>1, <2>2, CountDownFacts, Constants DEF After
<1> QED
  BY <1>1, <1>2

LEMMA DataFacts ==
  ASSUME FragmentTypeOK, SlotsAwait, NEW f \in Fragments
  PROVE  /\ Data(f) \in [Offsets -> Packets \cup {NULL}]
         /\ Data(f)[f.number] = f.packet
         /\ \A o \in Offsets : o # f.number => Data(f)[o] = packet_addresses[SlotOf(f)][o]
         /\ Mine(f) \in SUBSET Fragments /\ Kept(f) \in [Slots -> SUBSET Fragments]
         /\ \A t \in Slots : Kept(f)[t] \subseteq got[t]
<1>1. SlotOf(f) \in Slots
  BY SlotFacts
<1>2. /\ packet_addresses[SlotOf(f)] \in [Offsets -> Packets \cup {NULL}]
      /\ got \in [Slots -> SUBSET Fragments]
  BY <1>1 DEF FragmentTypeOK
<1> QED
  BY <1>1, <1>2, FragmentFacts DEF Data, Mine, Kept

-----------------------------------------------------------------------------
(***************************************************************************)
(* The invariant holds and is kept.                                        *)
(***************************************************************************)

LEMMA FragmentInvInit == FragmentInit => FragmentInv
<1> SUFFICES ASSUME FragmentInit PROVE FragmentInv
  OBVIOUS
<1> USE Constants DEF FragmentInit
<1>1. OneBufferPerId
  <2>1. /\ info_addr \in [Slots -> Infos \cup {NULL}]
        /\ packet_addresses \in [Slots -> [Offsets -> Packets \cup {NULL}]]
        /\ network \in [Fragments -> Nat] /\ got \in [Slots -> SUBSET Fragments]
    OBVIOUS
  <2>2. duplicates \in 0..MaxDuplicates /\ sent \subseteq Packets
    OBVIOUS
  <2>3. FragmentTypeOK
    BY <2>1, <2>2, Zenon DEF FragmentTypeOK
  <2> QED
    BY <2>3 DEF OneBufferPerId
<1>2. SlotsAwait /\ AboutWasSent /\ EachOnce
  BY DEF SlotsAwait, AboutWasSent, EachOnce
<1>3. IdsApart
  BY DEF IdsApart, About
<1>4. OnePacketPerSlot /\ WholeWhenReady
  BY DEF OnePacketPerSlot, WholeWhenReady
<1> QED
  BY <1>1, <1>2, <1>3, <1>4 DEF FragmentInv

\* Slots that stay as they are keep what is said about them.
LEMMA SlotsKept ==
  ASSUME FragmentInv, UNCHANGED <<info_addr, packet_addresses, got>>
  PROVE  /\ SlotsAwait'
         /\ (duplicates' = 0 => duplicates = 0) /\ (~reused' => ~reused) => OnePacketPerSlot'
<1>1. SlotsAwait'
  BY DEF FragmentInv, SlotsAwait
<1>2. ASSUME duplicates' = 0 => duplicates = 0, ~reused' => ~reused PROVE OnePacketPerSlot'
  <2>1. info_addr' = info_addr /\ packet_addresses' = packet_addresses /\ got' = got
    OBVIOUS
  <2>2. \A s \in Slots, p \in Packets : Holds(s, p) => Holds(s, p)'
    BY <2>1, Zenon DEF Holds
  <2> QED
    BY <1>2, <2>1, <2>2, Zenon DEF FragmentInv, OnePacketPerSlot
<1> QED
  BY <1>1, <1>2

LEMMA SendKeepsInv == ASSUME NEW p \in Packets PROVE FragmentInv /\ Send(p) => FragmentInv'
<1> SUFFICES ASSUME FragmentInv, Send(p) PROVE FragmentInv'
  OBVIOUS
<1>1. /\ p \notin sent /\ sent' = sent \cup {p}
      /\ network' = [f \in Fragments |-> IF f.packet = p THEN 1 ELSE network[f]]
      /\ reused' = (reused \/ \E q \in sent : IdOf[q] = IdOf[p] /\ About(q))
      /\ UNCHANGED <<info_addr, packet_addresses, result, duplicates, got>>
  BY DEF Send
<1>2. ~reused' => ~reused /\ ~\E q \in sent : IdOf[q] = IdOf[p] /\ About(q)
  BY <1>1, Zenon
<1>3. OneBufferPerId'
  <2>1. network' \in [Fragments -> Nat]
    BY <1>1 DEF FragmentInv, OneBufferPerId, FragmentTypeOK
  <2>2. reused' \in BOOLEAN
    BY <1>1, Zenon DEF FragmentInv, OneBufferPerId, FragmentTypeOK
  <2>3. FragmentTypeOK'
    BY <1>1, <2>1, <2>2 DEF FragmentInv, OneBufferPerId, FragmentTypeOK
  <2> QED
    BY <1>1, <2>3 DEF FragmentInv, OneBufferPerId
<1>4. SlotsAwait' /\ OnePacketPerSlot'
  BY <1>1, <1>2, SlotsKept
<1>5. AboutWasSent'
  BY <1>1 DEF FragmentInv, AboutWasSent
<1>6. EachOnce'
  BY <1>1 DEF FragmentInv, AboutWasSent, EachOnce
<1>7. IdsApart'
  <2>1. ASSUME NEW q \in Packets, q # p, About(q)' PROVE About(q) /\ q \in sent
    <3>1. About(q)
      BY <1>1, <2>1 DEF About
    <3> QED
      BY <3>1 DEF FragmentInv, AboutWasSent, About
  <2> QED
    BY <1>2, <2>1, Zenon DEF FragmentInv, IdsApart
<1>8. WholeWhenReady'
  <2>1. ~reused' => ~reused
    BY <1>2, Zenon
  <2> QED
    BY <1>1, <2>1, Zenon DEF FragmentInv, WholeWhenReady
<1> QED
  BY <1>3, <1>4, <1>5, <1>6, <1>7, <1>8 DEF FragmentInv

\* A fragment leaves the network, for a slot or for good.
LEMMA NetworkStep ==
  ASSUME FragmentInv, NEW f \in Fragments, network[f] > 0,
         network' = [network EXCEPT ![f] = @ - 1], UNCHANGED <<sent, duplicates, reused>>,
         \A t \in Slots : got'[t] \subseteq got[t] \cup {f}
  PROVE  network' \in [Fragments -> Nat] /\ AboutWasSent' /\ EachOnce' /\ IdsApart'
<1>1. network \in [Fragments -> Nat]
  BY DEF FragmentInv, OneBufferPerId, FragmentTypeOK
<1>2. network' \in [Fragments -> Nat] /\ \A g \in Fragments : network'[g] <= network[g]
  BY <1>1
<1>3. f.packet \in sent
  BY DEF FragmentInv, AboutWasSent
<1>4. AboutWasSent'
  BY <1>1, <1>2, <1>3 DEF FragmentInv, AboutWasSent
<1>5. EachOnce'
  <2> SUFFICES ASSUME duplicates = 0, NEW g \in Fragments
               PROVE  /\ network'[g] <= 1
                      /\ network'[g] > 0 => \A t \in Slots : g \notin got'[t]
    BY DEF EachOnce
  <2>1. network[g] <= 1 /\ (network[g] > 0 => \A t \in Slots : g \notin got[t])
        /\ network[f] <= 1
    BY DEF FragmentInv, EachOnce
  <2>2. CASE g = f
    BY <1>1, <2>1, <2>2
  <2>3. CASE g # f
    <3>1. network'[g] = network[g]
      BY <1>1, <2>3
    <3> QED
      BY <2>1, <2>3, <3>1
  <2> QED
    BY <2>2, <2>3
<1>6. ASSUME NEW q \in Packets, About(q)' PROVE About(q)
  <2>1. CASE \E g \in Fragments : g.packet = q /\ network'[g] > 0
    BY <1>1, <1>2, <2>1 DEF About
  <2>2. CASE \E t \in Slots : \E g \in got'[t] : g.packet = q
    <3>1. PICK t \in Slots : \E g \in got'[t] : g.packet = q
      BY <2>2
    <3>2. PICK g \in got'[t] : g.packet = q
      BY <3>1
    <3>3. g \in got[t] \/ g = f
      BY <3>2
    <3> QED
      BY <3>2, <3>3 DEF About
  <2> QED
    BY <1>6, <2>1, <2>2 DEF About
<1>7. IdsApart'
  BY <1>6, Zenon DEF FragmentInv, IdsApart
<1> QED
  BY <1>2, <1>4, <1>5, <1>7

LEMMA LoseKeepsInv == ASSUME NEW f \in Fragments PROVE FragmentInv /\ Lose(f) => FragmentInv'
<1> SUFFICES ASSUME FragmentInv, Lose(f) PROVE FragmentInv'
  OBVIOUS
<1>1. /\ network[f] > 0 /\ network' = [network EXCEPT ![f] = @ - 1]
      /\ UNCHANGED <<info_addr, packet_addresses, result, sent, duplicates, reused, got>>
  BY DEF Lose
<1>2. network' \in [Fragments -> Nat] /\ AboutWasSent' /\ EachOnce' /\ IdsApart'
  BY <1>1, NetworkStep
<1>3. OneBufferPerId'
  BY <1>1, <1>2 DEF FragmentInv, OneBufferPerId, FragmentTypeOK
<1>4. SlotsAwait' /\ OnePacketPerSlot'
  BY <1>1, SlotsKept
<1>5. WholeWhenReady'
  BY <1>1, Zenon DEF FragmentInv, WholeWhenReady
<1> QED
  BY <1>2, <1>3, <1>4, <1>5 DEF FragmentInv

LEMMA DuplicateKeepsInv ==
  ASSUME NEW f \in Fragments PROVE FragmentInv /\ Duplicate(f) => FragmentInv'
<1> SUFFICES ASSUME FragmentInv, Duplicate(f) PROVE FragmentInv'
  OBVIOUS
<1>1. /\ network[f] > 0 /\ network' = [network EXCEPT ![f] = @ + 1]
      /\ duplicates < MaxDuplicates /\ duplicates' = duplicates + 1
      /\ UNCHANGED <<info_addr, packet_addresses, result, sent, reused, got>>
  BY DEF Duplicate
<1>2. network \in [Fragments -> Nat] /\ duplicates \in 0..MaxDuplicates
  BY DEF FragmentInv, OneBufferPerId, FragmentTypeOK
<1>3. network' \in [Fragments -> Nat] /\ duplicates' \in 0..MaxDuplicates /\ duplicates' # 0
  BY <1>1, <1>2, Constants
<1>4. OneBufferPerId'
  BY <1>1, <1>3 DEF FragmentInv, OneBufferPerId, FragmentTypeOK
<1>5. SlotsAwait' /\ OnePacketPerSlot' /\ EachOnce' /\ WholeWhenReady'
  BY <1>1, <1>3, SlotsKept DEF OnePacketPerSlot, EachOnce, WholeWhenReady
<1>6. \A g \in Fragments : network'[g] > 0 => network[g] > 0
  BY <1>1, <1>2
<1>7. AboutWasSent'
  BY <1>1, <1>6 DEF FragmentInv, AboutWasSent
<1>8. ASSUME NEW q \in Packets, About(q)' PROVE About(q)
  BY <1>1, <1>6, <1>8 DEF About
<1>9. IdsApart'
  BY <1>1, <1>8, Zenon DEF FragmentInv, IdsApart
<1> QED
  BY <1>4, <1>5, <1>7, <1>9 DEF FragmentInv

LEMMA BounceKeepsInv ==
  ASSUME NEW f \in Fragments, TotalOf[f.packet] = 1
  PROVE  FragmentInv /\ packet_receive(f) => FragmentInv'
<1> SUFFICES ASSUME FragmentInv, packet_receive(f) PROVE FragmentInv'
  OBVIOUS
<1>1. /\ network[f] > 0 /\ network' = [network EXCEPT ![f] = @ - 1]
      /\ result' = [status |-> "READY_TO_SEND", data |-> [o \in {0} |-> f.packet]]
      /\ UNCHANGED <<info_addr, packet_addresses, sent, duplicates, reused, got>>
  BY DEF packet_receive, BounceBack
<1>2. network' \in [Fragments -> Nat] /\ AboutWasSent' /\ EachOnce' /\ IdsApart'
  BY <1>1, NetworkStep
<1>3. f.packet \in Packets /\ [o \in {0} |-> f.packet] = Whole(f.packet)
  BY FragmentFacts DEF Whole
<1>4. \E n \in 1..MaxTotal : \E d \in [0..(n - 1) -> Packets \cup {NULL}] :
        result' = [status |-> "READY_TO_SEND", data |-> d]
  <2>1. 1 \in 1..MaxTotal /\ [o \in {0} |-> f.packet] \in [0..(1 - 1) -> Packets \cup {NULL}]
    BY <1>3, Constants
  <2> QED
    BY <1>1, <2>1
<1>5. OneBufferPerId'
  <2>1. FragmentTypeOK'
    BY <1>1, <1>2, <1>4 DEF FragmentInv, OneBufferPerId, FragmentTypeOK
  <2> QED
    BY <1>1, <2>1 DEF FragmentInv, OneBufferPerId
<1>6. SlotsAwait' /\ OnePacketPerSlot'
  BY <1>1, SlotsKept
<1>7. WholeWhenReady'
  BY <1>1, <1>3 DEF WholeWhenReady
<1> QED
  BY <1>2, <1>5, <1>6, <1>7 DEF FragmentInv

\* Each id keeps one slot, and slots in use keep waiting.
LEMMA ArriveKeepsBuffers ==
  ASSUME FragmentInv, NEW f \in Fragments, TotalOf[f.packet] # 1, fragment_arrive(f),
         network' \in [Fragments -> Nat], UNCHANGED <<sent, duplicates, reused>>
  PROVE  OneBufferPerId' /\ SlotsAwait' /\ \A t \in Slots : got'[t] \subseteq got[t] \cup {f}
<1> DEFINE s == SlotOf(f)
           a == After(f)
<1>1. FragmentTypeOK /\ SlotsAwait
  BY DEF FragmentInv, OneBufferPerId
<1>2. /\ s \in Slots
      /\ Db(f) \in [Slots -> Infos \cup {NULL}]
      /\ \A t \in Slots : Db(f)[t] # NULL => Db(f)[t] = info_addr[t] /\ info_addr[t] # NULL
      /\ ~Taken(f) => \A t \in Slots : Db(f)[t] # NULL => Db(f)[t].id # IdOf[f.packet]
      /\ Taken(f) => Db(f)[s] # NULL /\ Db(f)[s].id = IdOf[f.packet]
  BY <1>1, SlotFacts, Zenon DEF Taken
<1>3. /\ a \in Infos /\ a.id = IdOf[f.packet]
      /\ a.total_number_fragment \in Nat /\ a.length \in Nat \ {0}
      /\ a.total_number_fragment + a.length <= MaxTotal
      /\ ~Taken(f) => a.total_number_fragment # 0
  BY <1>1, AfterFacts
<1>4. /\ Data(f) \in [Offsets -> Packets \cup {NULL}]
      /\ Mine(f) \in SUBSET Fragments /\ Kept(f) \in [Slots -> SUBSET Fragments]
      /\ \A t \in Slots : Kept(f)[t] \subseteq got[t]
  BY <1>1, DataFacts
<1>5. packet_addresses' \in [Slots -> [Offsets -> Packets \cup {NULL}]]
  <2>1. packet_addresses' = [packet_addresses EXCEPT ![s] = Data(f)]
    BY Arrival, Zenon
  <2>2. packet_addresses \in [Slots -> [Offsets -> Packets \cup {NULL}]]
    BY <1>1 DEF FragmentTypeOK
  <2> HIDE DEF s
  <2> QED
    BY <1>2, <1>4, <2>1, <2>2
<1>6. \A t, u \in Slots :
        (Db(f)[t] # NULL /\ Db(f)[u] # NULL /\ Db(f)[t].id = Db(f)[u].id) => t = u
  BY <1>2 DEF FragmentInv, OneBufferPerId
<1>7. Mine(f) \subseteq got[s] \cup {f}
  BY DEF Mine
<1>8. \A t \in Slots : IF Db(f)[t] = NULL THEN Kept(f)[t] = {} ELSE Awaited(Db(f)[t])
  BY <1>1, <1>2 DEF Kept, SlotsAwait
<1> HIDE DEF s, a
<1>9. CASE HandedOn(f)
  <2>1. /\ info_addr' = [Db(f) EXCEPT ![s] = NULL] /\ got' = [Kept(f) EXCEPT ![s] = {}]
        /\ a.total_number_fragment = 0
        /\ result' = [status |-> "READY_TO_SEND",
                      data |-> [o \in 0..(a.length - 1) |-> Data(f)[o]]]
    BY <1>9, Zenon DEF HandedOn, s, a
  <2>2. \E n \in 1..MaxTotal : \E d \in [0..(n - 1) -> Packets \cup {NULL}] :
          result' = [status |-> "READY_TO_SEND", data |-> d]
    <3>1. a.length \in 1..MaxTotal
      BY <1>3, <2>1, Constants
    <3>2. \A o \in 0..(a.length - 1) : o \in Offsets
      BY <3>1, Constants DEF Offsets
    <3>3. [o \in 0..(a.length - 1) |-> Data(f)[o]] \in [0..(a.length - 1) -> Packets \cup {NULL}]
      BY <1>4, <3>2
    <3> QED
      BY <2>1, <3>1, <3>3
  <2>3. info_addr' \in [Slots -> Infos \cup {NULL}] /\ got' \in [Slots -> SUBSET Fragments]
    BY <1>2, <1>4, <2>1
  <2>4. FragmentTypeOK'
    BY <1>1, <1>5, <2>2, <2>3 DEF FragmentTypeOK
  <2>5. OneBufferPerId'
    BY <1>2, <1>6, <2>1, <2>4 DEF OneBufferPerId
  <2>6. SlotsAwait'
    BY <1>2, <1>4, <1>8, <2>1 DEF SlotsAwait
  <2>7. \A t \in Slots : got'[t] \subseteq got[t] \cup {f}
    BY <1>4, <2>1
  <2> QED
    BY <2>5, <2>6, <2>7
<1>10. CASE TakenIn(f)
  <2>1. /\ info_addr' = [Db(f) EXCEPT ![s] = a] /\ got' = [Kept(f) EXCEPT ![s] = Mine(f)]
        /\ ~Taken(f) \/ a.total_number_fragment # 0
        /\ result' = [status |-> "WAITING_FOR_FRAGMENT"]
    BY <1>10, Zenon DEF TakenIn, s, a
  <2>2. a.total_number_fragment # 0 /\ Awaited(a)
    BY <1>3, <2>1 DEF Awaited
  <2>3. info_addr' \in [Slots -> Infos \cup {NULL}] /\ got' \in [Slots -> SUBSET Fragments]
    BY <1>2, <1>3, <1>4, <2>1
  <2>4. FragmentTypeOK'
    BY <1>1, <1>5, <2>1, <2>3 DEF FragmentTypeOK
  <2>5. \A t \in Slots : (t # s /\ Db(f)[t] # NULL) => Db(f)[t].id # a.id
    BY <1>2, <1>3, <1>6
  <2>6. OneBufferPerId'
    BY <1>2, <1>6, <2>1, <2>4, <2>5 DEF OneBufferPerId
  <2>7. SlotsAwait'
    <3>1. a # NULL
      BY <1>3, Constants
    <3> QED
      BY <1>2, <1>4, <1>8, <2>1, <2>2, <3>1 DEF SlotsAwait
  <2>8. \A t \in Slots : got'[t] \subseteq got[t] \cup {f}
    BY <1>4, <1>7, <2>1
  <2> QED
    BY <2>6, <2>7, <2>8
<1> QED
  BY <1>9, <1>10, Arrival

\* The slot of a fragment holds fragments of its packet only, and counts them.
LEMMA MineFacts ==
  ASSUME FragmentInv, NEW f \in Fragments, TotalOf[f.packet] # 1, network[f] > 0,
         duplicates = 0, ~reused
  PROVE  /\ \A g \in Mine(f) : g.packet = f.packet
         /\ After(f).length = Cardinality(Units(f.packet, Mine(f)))
         /\ After(f).total_number_fragment + After(f).length = TotalOf[f.packet]
         /\ \A o \in Units(f.packet, Mine(f)) : Data(f)[o] = f.packet
<1> DEFINE p == f.packet
           s == SlotOf(f)
<1>1. FragmentTypeOK /\ SlotsAwait
  BY DEF FragmentInv, OneBufferPerId
<1>2. /\ s \in Slots
      /\ Taken(f) => Db(f) = info_addr /\ Db(f)[s] # NULL /\ Db(f)[s].id = IdOf[p]
  BY <1>1, SlotFacts, Zenon DEF Taken
<1>3. /\ Before(f) \in Infos
      /\ After(f).total_number_fragment = Before(f).total_number_fragment - 1
      /\ After(f).length = Before(f).length + 1
  BY <1>1, AfterFacts
<1>4. /\ p \in Packets /\ f.number \in 0..(TotalOf[p] - 1) /\ TotalOf[p] \in 1..MaxTotal
      /\ f = [packet |-> p, number |-> f.number]
  BY FragmentFacts
<1>5. /\ Data(f)[f.number] = p
      /\ \A o \in Offsets : o # f.number => Data(f)[o] = packet_addresses[s][o]
  BY <1>1, DataFacts
<1>6. Before(f).total_number_fragment \in Nat /\ Before(f).length \in Nat
  BY <1>3 DEF Infos, Bytes
<1>7. \A o \in 0..(TotalOf[p] - 1) : o \in Offsets
  BY <1>4, Constants DEF Offsets
<1> HIDE DEF p, s
<1>8. CASE Taken(f)
  <2>1. PICK q \in Packets : Holds(s, q)
    BY <1>2, <1>8 DEF FragmentInv, OnePacketPerSlot
  <2>2. q = p
    <3>1. About(p)
      BY DEF About, p
    <3>2. About(q)
      BY <1>2, <2>1 DEF Holds, About
    <3>3. IdOf[q] = IdOf[p]
      BY <1>2, <1>8, <2>1 DEF Holds
    <3> QED
      BY <1>4, <3>1, <3>2, <3>3 DEF FragmentInv, IdsApart
  <2>3. Holds(s, p)
    BY <2>1, <2>2
  <2>4. f \notin got[s]
    BY <1>2 DEF FragmentInv, EachOnce
  <2>5. Mine(f) = got[s] \cup {f}
    BY <1>8 DEF Mine, s
  <2>6. /\ Units(p, Mine(f)) = Units(p, got[s]) \cup {f.number}
        /\ f.number \notin Units(p, got[s])
    BY <1>4, <2>4, <2>5 DEF Units
  <2>7. IsFiniteSet(Units(p, got[s]))
    <3>1. 0 \in Int /\ TotalOf[p] - 1 \in Int
      BY <1>4, Constants
    <3>2. IsFiniteSet(0..(TotalOf[p] - 1))
      BY <3>1, FS_Interval
    <3>3. Units(p, got[s]) \in SUBSET (0..(TotalOf[p] - 1))
      BY DEF Units
    <3> QED
      BY <3>2, <3>3, FS_Subset
  <2>8. Cardinality(Units(p, Mine(f))) = Cardinality(Units(p, got[s])) + 1
    BY <2>6, <2>7, FS_AddElement
  <2>9. Before(f) = info_addr[s]
    BY <1>2, <1>8 DEF Before, s
  <2>10. \A g \in Mine(f) : g.packet = p
    BY <2>3, <2>5 DEF Holds, p
  <2>11. /\ After(f).length = Cardinality(Units(p, Mine(f)))
         /\ After(f).total_number_fragment + After(f).length = TotalOf[p]
    BY <1>3, <1>6, <2>3, <2>8, <2>9 DEF Holds
  <2>12. ASSUME NEW o \in Units(p, Mine(f)) PROVE Data(f)[o] = p
    BY <1>5, <1>7, <2>3, <2>6 DEF Holds, Units
  <2> QED
    BY <2>10, <2>11, <2>12 DEF p
<1>9. CASE ~Taken(f)
  <2>1. Mine(f) = {f}
    BY <1>9 DEF Mine
  <2>2. Units(p, Mine(f)) = {f.number}
    BY <1>4, <2>1 DEF Units
  <2>3. Before(f).total_number_fragment = TotalOf[p] /\ Before(f).length = 0
    BY <1>9, CreateInfoFacts DEF Before, p
  <2>4. Cardinality({f.number}) = 1
    BY FS_Singleton
  <2>5. \A g \in Mine(f) : g.packet = p
    BY <2>1 DEF p
  <2>6. TotalOf[p] \in Nat
    BY <1>4, Constants
  <2>7. /\ After(f).length = 1
        /\ After(f).total_number_fragment + After(f).length = TotalOf[p]
    BY <1>3, <2>3, <2>6
  <2>8. After(f).length = Cardinality(Units(p, Mine(f)))
    BY <2>2, <2>4, <2>7
  <2>9. \A o \in Units(p, Mine(f)) : Data(f)[o] = p
    BY <1>5, <2>2
  <2> QED
    BY <2>5, <2>7, <2>8, <2>9, Zenon DEF p
<1> QED
  BY <1>8, <1>9

\* A slot that keeps its parts keeps its packet.
LEMMA HoldsKept ==
  ASSUME NEW t, NEW q, Holds(t, q), info_addr'[t] = info_addr[t], got'[t] = got[t],
         packet_addresses'[t] = packet_addresses[t]
  PROVE  Holds(t, q)'
BY Zenon DEF Holds

LEMMA ArriveKeepsInv ==
  ASSUME NEW f \in Fragments, TotalOf[f.packet] # 1
  PROVE  FragmentInv /\ packet_receive(f) => FragmentInv'
<1> SUFFICES ASSUME FragmentInv, packet_receive(f) PROVE FragmentInv'
  OBVIOUS
<1> DEFINE p == f.packet
<1>1. /\ network[f] > 0 /\ network' = [network EXCEPT ![f] = @ - 1]
      /\ fragment_arrive(f) /\ UNCHANGED <<sent, duplicates, reused>>
  BY DEF packet_receive
<1>2. FragmentTypeOK /\ SlotsAwait
  BY DEF FragmentInv, OneBufferPerId
<1>3. network' \in [Fragments -> Nat]
  BY <1>1, <1>2 DEF FragmentTypeOK
<1>4. OneBufferPerId' /\ SlotsAwait' /\ \A t \in Slots : got'[t] \subseteq got[t] \cup {f}
  BY <1>1, <1>3, ArriveKeepsBuffers
<1>5. AboutWasSent' /\ EachOnce' /\ IdsApart'
  BY <1>1, <1>4, NetworkStep
<1>slot. PICK s \in Slots : s = SlotOf(f)
  BY <1>2, SlotFacts
<1>6. /\ packet_addresses' = [packet_addresses EXCEPT ![s] = Data(f)]
      /\ HandedOn(f) \/ TakenIn(f)
  BY <1>1, <1>slot, Arrival, Zenon
<1>7. /\ s \in Slots /\ Db(f) \in [Slots -> Infos \cup {NULL}]
      /\ \A t \in Slots : Db(f)[t] # NULL => Db(f)[t] = info_addr[t] /\ info_addr[t] # NULL
  BY <1>2, <1>slot, SlotFacts, Zenon
<1>8. /\ packet_addresses \in [Slots -> [Offsets -> Packets \cup {NULL}]]
      /\ Kept(f) \in [Slots -> SUBSET Fragments]
  BY <1>2, DataFacts DEF FragmentTypeOK
<1>9. \A t \in Slots : Db(f)[t] # NULL => Kept(f)[t] = got[t]
  BY DEF Kept
<1>10. /\ After(f) \in Infos /\ After(f).id = IdOf[p]
       /\ After(f).total_number_fragment \in Nat /\ After(f).length \in Nat \ {0}
  BY <1>2, AfterFacts
<1>11. p \in Packets /\ TotalOf[p] \in Nat \ {0}
  BY FragmentFacts, Constants
<1>12. f \in Mine(f)
  BY DEF Mine
<1> HIDE DEF p
<1>13. ASSUME duplicates = 0, ~reused
       PROVE  /\ \A g \in Mine(f) : g.packet = p
              /\ After(f).length = Cardinality(Units(p, Mine(f)))
              /\ After(f).total_number_fragment + After(f).length = TotalOf[p]
              /\ \A o \in Units(p, Mine(f)) : Data(f)[o] = p
  BY <1>1, <1>13, MineFacts, Zenon DEF p
<1>14. ASSUME NEW t \in Slots, t # s, duplicates = 0, ~reused, Db(f)[t] # NULL,
              info_addr'[t] = Db(f)[t], got'[t] = Kept(f)[t]
       PROVE  \E q \in Packets : Holds(t, q)'
  <2>1. info_addr'[t] = info_addr[t] /\ info_addr[t] # NULL /\ got'[t] = got[t]
    BY <1>7, <1>9, <1>14, Zenon
  <2>2. packet_addresses'[t] = packet_addresses[t]
    BY <1>6, <1>8, <1>14
  <2>3. PICK q \in Packets : Holds(t, q)
    BY <1>14, <2>1, Zenon DEF FragmentInv, OnePacketPerSlot
  <2>4. Holds(t, q)'
    BY <2>1, <2>2, <2>3, HoldsKept, Zenon
  <2> QED
    BY <2>4
<1>15. packet_addresses'[s] = Data(f)
  BY <1>6, <1>7, <1>8
<1>16. CASE HandedOn(f)
  <2>1. /\ info_addr' = [Db(f) EXCEPT ![s] = NULL] /\ got' = [Kept(f) EXCEPT ![s] = {}]
        /\ After(f).total_number_fragment = 0
        /\ result' = [status |-> "READY_TO_SEND",
                      data |-> [o \in 0..(After(f).length - 1) |-> Data(f)[o]]]
    BY <1>16, <1>slot, Zenon DEF HandedOn
  <2>2. /\ info_addr'[s] = NULL
        /\ \A t \in Slots : t # s => info_addr'[t] = Db(f)[t] /\ got'[t] = Kept(f)[t]
    BY <1>7, <1>8, <2>1
  <2>3. OnePacketPerSlot'
    BY <1>1, <1>14, <2>2, Zenon DEF OnePacketPerSlot
  <2>4. WholeWhenReady'
    <3> SUFFICES ASSUME duplicates = 0, ~reused
                 PROVE  \E q \in Packets : result'.data = Whole(q)
      BY <1>1, Zenon DEF WholeWhenReady
    <3> DEFINE U == Units(p, Mine(f))
    <3>1. After(f).length = TotalOf[p] /\ Cardinality(U) = TotalOf[p]
      BY <1>10, <1>11, <1>13, <2>1
    <3>2. /\ 0 \in Int /\ TotalOf[p] - 1 \in Int /\ 0 <= TotalOf[p] - 1
          /\ TotalOf[p] - 1 - 0 + 1 = TotalOf[p]
      BY <1>11
    <3>3. /\ IsFiniteSet(0..(TotalOf[p] - 1))
          /\ Cardinality(0..(TotalOf[p] - 1)) = TotalOf[p]
      BY <3>2, FS_Interval
    <3>4. U \in SUBSET (0..(TotalOf[p] - 1))
      BY DEF Units
    <3>5. \A o \in U : Data(f)[o] = p
      BY <1>13
    <3> HIDE DEF U
    <3>6. U = 0..(TotalOf[p] - 1)
      BY <3>1, <3>3, <3>4, FS_Subset
    <3>7. [o \in 0..(After(f).length - 1) |-> Data(f)[o]] = Whole(p)
      BY <3>1, <3>5, <3>6 DEF Whole
    <3> QED
      BY <1>11, <2>1, <3>7
  <2> QED
    BY <1>4, <1>5, <2>3, <2>4 DEF FragmentInv
<1>17. CASE TakenIn(f)
  <2>1. /\ info_addr' = [Db(f) EXCEPT ![s] = After(f)] /\ got' = [Kept(f) EXCEPT ![s] = Mine(f)]
        /\ result' = [status |-> "WAITING_FOR_FRAGMENT"]
    BY <1>17, <1>slot, Zenon DEF TakenIn
  <2>2. /\ info_addr'[s] = After(f) /\ got'[s] = Mine(f)
        /\ \A t \in Slots : t # s => info_addr'[t] = Db(f)[t] /\ got'[t] = Kept(f)[t]
    BY <1>7, <1>8, <2>1
  <2>3. (duplicates = 0 /\ ~reused) => Holds(s, p)'
    <3> SUFFICES ASSUME duplicates = 0, ~reused PROVE Holds(s, p)'
      OBVIOUS
    <3>1. Mine(f) # {}
      BY <1>12
    <3> QED
      BY <1>10, <1>13, <1>15, <2>2, <3>1, Zenon DEF Holds
  <2>4. OnePacketPerSlot'
    BY <1>1, <1>11, <1>14, <2>2, <2>3, Zenon DEF OnePacketPerSlot
  <2>5. WholeWhenReady'
    BY <2>1 DEF WholeWhenReady
  <2> QED
    BY <1>4, <1>5, <2>4, <2>5 DEF FragmentInv
<1> QED
  BY <1>6, <1>16, <1>17

LEMMA FragmentInvStep == FragmentInv /\ [FragmentNext]_fragmentVars => FragmentInv'
<1> SUFFICES ASSUME FragmentInv, [FragmentNext]_fragmentVars PROVE FragmentInv'
  OBVIOUS
<1>1. ASSUME NEW p \in Packets, Send(p) PROVE FragmentInv'
  BY <1>1, SendKeepsInv
<1>2. ASSUME NEW f \in Fragments, Lose(f) PROVE FragmentInv'
  BY <1>2, LoseKeepsInv
<1>3. ASSUME NEW f \in Fragments, Duplicate(f) PROVE FragmentInv'
  BY <1>3, DuplicateKeepsInv
<1>4. ASSUME NEW f \in Fragments, packet_receive(f) PROVE FragmentInv'
  BY <1>4, BounceKeepsInv, ArriveKeepsInv
<1>5. CASE UNCHANGED fragmentVars
  <2>1. UNCHANGED <<info_addr, packet_addresses, result, network, sent, duplicates, reused, got>>
    BY <1>5 DEF fragmentVars
  <2>2. OneBufferPerId'
    BY <2>1 DEF FragmentInv, OneBufferPerId, FragmentTypeOK
  <2>3. SlotsAwait' /\ OnePacketPerSlot'
    BY <2>1, SlotsKept
  <2>4. \A q \in Packets : About(q)' => About(q)
    BY <2>1 DEF About
  <2>5. AboutWasSent' /\ EachOnce' /\ IdsApart' /\ WholeWhenReady'
    BY <2>1, <2>4, Zenon DEF FragmentInv, AboutWasSent, EachOnce, IdsApart, WholeWhenReady
  <2> QED
    BY <2>2, <2>3, <2>5 DEF FragmentInv
<1> QED
  BY <1>1, <1>2, <1>3, <1>4, <1>5 DEF FragmentNext

LEMMA FragmentInvAlways == FragmentSpec => []FragmentInv
BY FragmentInvInit, FragmentInvStep, PTL DEF FragmentSpec

-----------------------------------------------------------------------------
(***************************************************************************)
(* The theorems.                                                           *)
(***************************************************************************)

\* There is one buffer for each fragment id, whatever is lost, duplicated or
\* purged, for every number of slots: two slots of packet_receive never collect
\* the fragments of one id.
THEOREM EachIdHasOneBuffer == FragmentSpec => []OneBufferPerId
<1>1. FragmentInv => OneBufferPerId
  BY DEF FragmentInv
<1> QED
  BY <1>1, FragmentInvAlways, PTL

\* What packet_receive hands on is one whole packet, without anything that other
\* packets have left in the buffer, for every number of slots, ids and fragments:
\* as long as nothing was duplicated and no id used again too early.
THEOREM HandedOnWhole == FragmentSpec => []WholeWhenReady
<1>1. FragmentInv => WholeWhenReady
  BY DEF FragmentInv
<1> QED
  BY <1>1, FragmentInvAlways, PTL

GivenUp(id) ==
  (InDatabase(id) /\ ~InDatabase(id)') =>
     result'.status = "READY_TO_SEND" \/ Free(info_addr) = {}

LEMMA ArriveGivesUp ==
  ASSUME FragmentInv, NEW f \in Fragments, TotalOf[f.packet] # 1, fragment_arrive(f), NEW id
  PROVE  GivenUp(id)
<1> DEFINE s == SlotOf(f)
<1>1. FragmentTypeOK /\ SlotsAwait
  BY DEF FragmentInv, OneBufferPerId
<1>2. CASE HandedOn(f)
  BY <1>2 DEF HandedOn, GivenUp
<1>3. CASE TakenIn(f) /\ Db(f) # info_addr
  BY <1>1, <1>3, SlotFacts, Zenon DEF GivenUp
<1>4. CASE TakenIn(f) /\ Db(f) = info_addr
  <2>1. /\ s \in Slots /\ info_addr \in [Slots -> Infos \cup {NULL}]
        /\ Taken(f) => info_addr[s].id = IdOf[f.packet]
    BY <1>1, <1>4, SlotFacts DEF FragmentTypeOK
  <2>2. info_addr' = [info_addr EXCEPT ![s] = After(f)]
    BY <1>4, Zenon DEF TakenIn
  <2>3. After(f) # NULL /\ After(f).id = IdOf[f.packet]
    BY <1>1, AfterFacts, Constants
  <2>4. ~Taken(f) => info_addr[s] = NULL
    BY <1>4, Zenon DEF Taken
  <2> HIDE DEF s
  <2>5. ASSUME InDatabase(id) PROVE InDatabase(id)'
    <3>1. PICK t \in Slots : info_addr[t] # NULL /\ info_addr[t].id = id
      BY <2>5 DEF InDatabase
    <3>2. info_addr'[t] # NULL /\ info_addr'[t].id = id
      BY <2>1, <2>2, <2>3, <2>4, <3>1
    <3> QED
      BY <3>2 DEF InDatabase
  <2> QED
    BY <2>5 DEF GivenUp
<1> QED
  BY <1>2, <1>3, <1>4, Arrival

\* A packet under reassembly leaves the database by being handed on or in a purge
\* of a full database, in no other way: for every number of slots.
THEOREM PurgedOnlyWhenFull == FragmentSpec => GivenUpOnlyWhenFull
<1>1. ASSUME FragmentInv, [FragmentNext]_fragmentVars
      PROVE  [\A p \in Packets : GivenUp(IdOf[p])]_fragmentVars
  <2>1. ASSUME info_addr' = info_addr, NEW id PROVE GivenUp(id)
    BY <2>1, Zenon DEF GivenUp, InDatabase
  <2>2. ASSUME NEW f \in Fragments, packet_receive(f), NEW id PROVE GivenUp(id)
    <3>1. CASE TotalOf[f.packet] = 1
      BY <2>1, <2>2, <3>1 DEF packet_receive, BounceBack
    <3>2. CASE TotalOf[f.packet] # 1
      BY <1>1, <2>2, <3>2, ArriveGivesUp DEF packet_receive
    <3> QED
      BY <3>1, <3>2
  <2>3. ASSUME NEW p \in Packets, Send(p) PROVE info_addr' = info_addr
    BY <2>3 DEF Send
  <2>4. ASSUME NEW f \in Fragments, Lose(f) \/ Duplicate(f) PROVE info_addr' = info_addr
    BY <2>4 DEF Lose, Duplicate
  <2>5. CASE FragmentNext
    BY <2>1, <2>2, <2>3, <2>4, <2>5, Zenon DEF FragmentNext
  <2> QED
    BY <1>1, <2>5
<1>2. [\A p \in Packets : GivenUp(IdOf[p])]_fragmentVars
        <=> [\A p \in Packets :
               (InDatabase(IdOf[p]) /\ ~InDatabase(IdOf[p])') =>
                  result'.status = "READY_TO_SEND" \/ Free(info_addr) = {}]_fragmentVars
  BY Zenon DEF GivenUp
<1> QED
  BY <1>1, <1>2, FragmentInvAlways, PTL DEF FragmentSpec, GivenUpOnlyWhenFull
=============================================================================
