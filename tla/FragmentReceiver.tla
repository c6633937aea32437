---------------------------- MODULE FragmentReceiver ----------------------------
(***************************************************************************)
(* Reassembly of packets that WARP sends in fragments: the slots of        *)
(* fragment_receiver.cpp and their buffers, with an Ethernet that loses,   *)
(* reorders and duplicates fragments.                                      *)
(*                                                                         *)
(* A fragment carries one unit of data, its number is its offset.  The     *)
(* sender is WARP's firmware and external; it numbers packets with ids     *)
(* that it uses again after a while (IdOf).  The code keeps what is left   *)
(* to arrive in total_number_fragment, a byte.                             *)
(***************************************************************************)
EXTENDS Integers, FiniteSets

CONSTANTS PACKET_SPACES,   \* slots of the database
          Packets,         \* packets the sender may send, each once
          IdOf,            \* the id byte of a packet
          TotalOf,         \* the number of fragments of a packet
          MaxTotal,        \* bound on the number of fragments of a packet
          NULL,            \* no information in a slot, nothing in a buffer
          MaxDuplicates    \* bound on fragments that the network duplicates

Bytes == 0..255
Offsets == 0..(MaxTotal - 1)
Slots == 0..(PACKET_SPACES - 1)
Fragments == {f \in [packet : Packets, number : Offsets] : f.number < TotalOf[f.packet]}
Infos == [id : Bytes, total_number_fragment : Bytes, length : Nat]

ASSUME FragmentAssumption ==
  /\ PACKET_SPACES \in Nat \ {0}
  /\ IsFiniteSet(Packets)
  /\ IdOf \in [Packets -> Bytes]
  /\ MaxTotal \in 1..255
  /\ TotalOf \in [Packets -> 1..MaxTotal]
  /\ NULL \notin Packets \cup Infos
  /\ MaxDuplicates \in Nat

VARIABLES
  info_addr,          \* the information of each slot
  packet_addresses,   \* the buffer of each slot: the packet each unit is from
  result,             \* what the last packet_receive has returned
  network,            \* how many copies of each fragment are under way
  sent,               \* packets that the sender has sent
  duplicates,         \* how many fragments the network has duplicated
  reused,             \* an id was used again while its last packet was about
  got                 \* the fragments each slot has taken in since it is in use

fragmentVars == <<info_addr, packet_addresses, result, network, sent, duplicates,
                  reused, got>>

FragmentInit ==
  /\ info_addr = [s \in Slots |-> NULL]
  /\ packet_addresses = [s \in Slots |-> [o \in Offsets |-> NULL]]
  /\ result = [status |-> "WAITING_FOR_FRAGMENT"]
  /\ network = [f \in Fragments |-> 0]
  /\ sent = {} /\ duplicates = 0 /\ reused = FALSE
  /\ got = [s \in Slots |-> {}]

-----------------------------------------------------------------------------
(***************************************************************************)
(* The sender and the network.                                             *)
(***************************************************************************)

\* Something of a packet is still under way or in a slot.
About(p) ==
  \/ \E f \in Fragments : f.packet = p /\ network[f] > 0
  \/ \E s \in Slots : \E f \in got[s] : f.packet = p

Send(p) ==
  /\ p \notin sent
  /\ sent' = sent \cup {p}
  /\ network' = [f \in Fragments |-> IF f.packet = p THEN 1 ELSE network[f]]
  /\ reused' = (reused \/ \E q \in sent : IdOf[q] = IdOf[p] /\ About(q))
  /\ UNCHANGED <<info_addr, packet_addresses, result, duplicates, got>>

Lose(f) ==
  /\ network[f] > 0
  /\ network' = [network EXCEPT ![f] = @ - 1]
  /\ UNCHANGED <<info_addr, packet_addresses, result, sent, duplicates, reused, got>>

Duplicate(f) ==
  /\ network[f] > 0
  /\ duplicates < MaxDuplicates
  /\ network' = [network EXCEPT ![f] = @ + 1]
  /\ duplicates' = duplicates + 1
  /\ UNCHANGED <<info_addr, packet_addresses, result, sent, reused, got>>

-----------------------------------------------------------------------------
(***************************************************************************)
(* packet_receive.                                                         *)
(***************************************************************************)

\* Slots of this id; the first one is taken.
Holding(db, id) == {s \in Slots : db[s] # NULL /\ db[s].id = id}
Free(db) == {s \in Slots : db[s] = NULL}

First(S) == CHOOSE s \in S : \A t \in S : s <= t
Last(S) == CHOOSE s \in S : \A t \in S : t <= s

\* A search that stops at the first slot which is free or has the id.
find_packet_id_Early(db, id) ==
  IF Holding(db, id) \cup Free(db) # {} THEN First(Holding(db, id) \cup Free(db))
  ELSE PACKET_SPACES

find_packet_id(db, id) ==
  IF Holding(db, id) # {} THEN First(Holding(db, id))
  ELSE IF Free(db) # {} THEN Last(Free(db))
  ELSE PACKET_SPACES

purge_database == [s \in Slots |-> NULL]

create_info(f) ==
  [id |-> IdOf[f.packet], total_number_fragment |-> TotalOf[f.packet], length |-> 0]

\* One more fragment of length one has been taken in.
CountDown(info) ==
  [info EXCEPT !.total_number_fragment = (@ - 1) % 256, !.length = @ + 1]

\* The packet is taken to be complete one fragment early.
IsLastFragmentEarly(info) == info.total_number_fragment <= 1

IsLastFragment(info) == info.total_number_fragment = 0

\* The only fragment of its packet is handed on as it is.
BounceBack(f) ==
  /\ result' = [status |-> "READY_TO_SEND", data |-> [o \in {0} |-> f.packet]]
  /\ UNCHANGED <<info_addr, packet_addresses, got>>

\* The database is emptied as soon as one slot is in use by another packet.
DatabaseImpatient(id) ==
  IF Holding(info_addr, id) = {} /\ Free(info_addr) # Slots THEN purge_database ELSE info_addr

\* A full database is emptied, and the fragment gets a slot after that.
Database(id) ==
  IF find_packet_id(info_addr, id) = PACKET_SPACES THEN purge_database ELSE info_addr

fragment_arrive(f) ==
  LET id   == IdOf[f.packet]
      db   == Database(id)
      s    == find_packet_id(db, id)
      data == [packet_addresses[s] EXCEPT ![f.number] = f.packet]
      info == CountDown(IF db[s] = NULL THEN create_info(f) ELSE db[s])
      mine == {f} \cup (IF db[s] = NULL THEN {} ELSE got[s])
      kept == [t \in Slots |-> IF db[t] = NULL THEN {} ELSE got[t]]
  IN  /\ packet_addresses' = [packet_addresses EXCEPT ![s] = data]
      /\ IF db[s] # NULL /\ IsLastFragment(info)
         THEN /\ result' = [status |-> "READY_TO_SEND",
                            data |-> [o \in 0..(info.length - 1) |-> data[o]]]
              /\ info_addr' = [db EXCEPT ![s] = NULL]
              /\ got' = [kept EXCEPT ![s] = {}]
         ELSE /\ result' = [status |-> "WAITING_FOR_FRAGMENT"]
              /\ info_addr' = [db EXCEPT ![s] = info]
              /\ got' = [kept EXCEPT ![s] = mine]

packet_receive(f) ==
  /\ network[f] > 0
  /\ network' = [network EXCEPT ![f] = @ - 1]
  /\ IF TotalOf[f.packet] = 1 THEN BounceBack(f) ELSE fragment_arrive(f)
  /\ UNCHANGED <<sent, duplicates, reused>>

-----------------------------------------------------------------------------

FragmentNext ==
  \/ \E p \in Packets : Send(p)
  \/ \E f \in Fragments : Lose(f) \/ Duplicate(f) \/ packet_receive(f)

FragmentSpec == FragmentInit /\ [][FragmentNext]_fragmentVars

-----------------------------------------------------------------------------
(***************************************************************************)
(* Properties.                                                             *)
(***************************************************************************)

\* Slots, buffers, the last result and the histories have their types.
FragmentTypeOK ==
  /\ info_addr \in [Slots -> Infos \cup {NULL}]
  /\ packet_addresses \in [Slots -> [Offsets -> Packets \cup {NULL}]]
  /\ \/ result = [status |-> "WAITING_FOR_FRAGMENT"]
     \/ \E n \in 1..MaxTotal :
          \E d \in [0..(n - 1) -> Packets \cup {NULL}] :
            result = [status |-> "READY_TO_SEND", data |-> d]
  /\ network \in [Fragments -> Nat]
  /\ sent \subseteq Packets
  /\ duplicates \in 0..MaxDuplicates
  /\ reused \in BOOLEAN
  /\ got \in [Slots -> SUBSET Fragments]

\* There is one buffer for each fragment id, through purges of single slots and
\* of the database: find_packet_id looks at every slot before it settles for a
\* free one.  The buffers have their types.
OneBufferPerId ==
  /\ FragmentTypeOK
  /\ \A s, t \in Slots :
       (info_addr[s] # NULL /\ info_addr[t] # NULL /\ info_addr[s].id = info_addr[t].id) => s = t

Whole(p) == [o \in 0..(TotalOf[p] - 1) |-> p]

\* A packet that is handed on is made of all the fragments of one packet and of
\* nothing that an earlier packet has left in the buffer, through losses, other
\* packets in between and purges of the database: as long as no fragment was
\* duplicated and no id used again too early.
WholeWhenReady ==
  (result.status = "READY_TO_SEND" /\ duplicates = 0 /\ ~reused)
    => \E p \in Packets : result.data = Whole(p)

InDatabase(id) == \E s \in Slots : info_addr[s] # NULL /\ info_addr[s].id = id

\* A packet under reassembly is given up only when all slots are in use; it
\* leaves the database in no other way than by being handed on.
GivenUpOnlyWhenFull ==
  [][\A p \in Packets :
       (InDatabase(IdOf[p]) /\ ~InDatabase(IdOf[p])') =>
          result'.status = "READY_TO_SEND" \/ Free(info_addr) = {}]_fragmentVars
=============================================================================
