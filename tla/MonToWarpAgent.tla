----------------------------- MODULE MonToWarpAgent -----------------------------
(***************************************************************************)
(* The relay of frames from the monitor interface to WARP: process, in the *)
(* sniffer thread, searches bssid_list for the source of each frame, while *)
(* sync, called by the parsing thread, changes the list.  Only sync takes  *)
(* bssid_list_mutex, and only one thread calls it.                         *)
(*                                                                         *)
(* The list is a vector: cells, a size and a capacity.  An erase moves the *)
(* cells after the hole one by one and then shrinks the size; a push into  *)
(* a full vector moves it to new memory and frees the old.  A search that  *)
(* goes on in freed memory may see anything.  The end that its result is   *)
(* compared with is read again after the search, or kept from before it:   *)
(* the compiler may do either.                                             *)
(***************************************************************************)
EXTENDS Integers, FiniteSets

CONSTANTS Addresses,    \* addresses of frames and of BSSs
          HOSTAPD, BROADCAST,
          Spellings,    \* ways to write an address, Lower is to_string's
          Lower,
          MaxSyncs,     \* bound on calls of sync
          MaxFrames     \* bound on frames

ASSUME MonAssumption ==
  /\ {HOSTAPD, BROADCAST} \subseteq Addresses
  /\ Lower \in Spellings
  /\ IsFiniteSet(Addresses)
  /\ MaxSyncs \in Nat /\ MaxFrames \in Nat

Kinds == {"management", "data", "control"}
Frames == [kind : Kinds, source : Addresses, dest : Addresses]

VARIABLES
  cells, size, capacity,   \* bssid_list
  hole,                    \* the cell that an erase is filling, 0 if there is none
  pc,                      \* process: "idle", "find", "compare"
  search,                  \* the search under way
  outcome,                 \* the last frame that was searched for, and its fate
  frames, syncs,           \* how many there were
  wanted,                  \* how often each address was added and not removed
  misspelt                 \* addresses that some removal spelt in another way

monVars == <<cells, size, capacity, hole, pc, search, outcome, frames, syncs, wanted,
             misspelt>>

\* frame, position and end of the search; freed: its memory is gone; then, as
\* history, whether the list has changed or its cells have moved since it began,
\* and whether the source was in the list all the time or at some time.
NoSearch == [position |-> 0, end |-> 0]
NoOutcome == [relayed |-> FALSE, changed |-> TRUE, moved |-> TRUE,
              throughout |-> FALSE, sometime |-> FALSE]

Listed(a, c, n) == \E i \in 1..n : c[i] = a

MonInit ==
  /\ cells = <<>> /\ size = 0 /\ capacity = 0 /\ hole = 0
  /\ pc = "idle" /\ search = NoSearch /\ outcome = NoOutcome
  /\ frames = 0 /\ syncs = 0
  /\ wanted = [a \in Addresses |-> 0] /\ misspelt = {}

-----------------------------------------------------------------------------
(***************************************************************************)
(* process.                                                                *)
(***************************************************************************)

\* Data frames of hostapd's own address are relayed without a search, control
\* frames unless they are for hostapd.
Unsearched(f) == \/ f.kind = "control"
                 \/ f.kind = "data" /\ f.source \in {HOSTAPD, BROADCAST}

ReceiveFrame(f) ==
  /\ pc = "idle" /\ frames < MaxFrames
  /\ frames' = frames + 1
  /\ IF Unsearched(f)
     THEN UNCHANGED <<pc, search>>
     ELSE /\ pc' = "find"
          /\ search' = [frame |-> f, position |-> 1, end |-> size + 1, freed |-> FALSE,
                        changed |-> hole # 0, moved |-> hole # 0,
                        throughout |-> Listed(f.source, cells, size),
                        sometime |-> Listed(f.source, cells, size)]
  /\ UNCHANGED <<cells, size, capacity, hole, outcome, syncs, wanted, misspelt>>

\* What a comparison of the cell at the search's position may yield.
Matches ==
  IF search.freed THEN BOOLEAN ELSE {cells[search.position] = search.frame.source}

\* std::find looks at one cell, or is at the end.
Find ==
  /\ pc = "find"
  /\ IF search.position = search.end
     THEN pc' = "compare" /\ UNCHANGED search
     ELSE \E found \in Matches :
            IF found THEN pc' = "compare" /\ UNCHANGED search
            ELSE pc' = pc /\ search' = [search EXCEPT !.position = @ + 1]
  /\ UNCHANGED <<cells, size, capacity, hole, outcome, frames, syncs, wanted, misspelt>>

\* The position is compared with end(); ends of other memory differ from it.
Compare ==
  /\ pc = "compare"
  /\ pc' = "idle"
  /\ \E reread \in BOOLEAN :
       outcome' = [relayed    |-> IF reread
                                  THEN search.freed \/ search.position # size + 1
                                  ELSE search.position # search.end,
                   changed    |-> search.changed,
                   moved      |-> search.moved,
                   throughout |-> search.throughout,
                   sometime   |-> search.sometime]
  /\ search' = NoSearch
  /\ UNCHANGED <<cells, size, capacity, hole, frames, syncs, wanted, misspelt>>

-----------------------------------------------------------------------------
(***************************************************************************)
(* sync, called by the parsing thread.                                     *)
(***************************************************************************)

\* A step of sync seen from the search that is under way.
Witness(moved, freed, c, n) ==
  search' = IF pc = "idle" THEN search
            ELSE [search EXCEPT !.changed = TRUE,
                                !.moved = @ \/ moved \/ freed,
                                !.freed = @ \/ freed,
                                !.throughout = @ /\ Listed(search.frame.source, c, n),
                                !.sometime = @ \/ Listed(search.frame.source, c, n)]

\* The new address is put in front of the others.
PushFront(a) ==
  LET grown == IF size < capacity THEN capacity ELSE IF capacity = 0 THEN 1 ELSE 2 * capacity
      new   == [i \in 1..grown |-> IF i = 1 THEN a
                                   ELSE IF i <= size + 1 THEN cells[i - 1]
                                   ELSE HOSTAPD]
  IN  /\ cells' = new /\ size' = size + 1 /\ capacity' = grown
      /\ Witness(FALSE, size = capacity /\ size > 0, new, size + 1)

\* push_back: the vector doubles its capacity when it is full.  Cells after the
\* last one are not read before they are written.
PushBack(a) ==
  LET grown == IF size < capacity THEN capacity ELSE IF capacity = 0 THEN 1 ELSE 2 * capacity
      new   == [i \in 1..grown |-> IF i <= size THEN cells[i]
                                   ELSE IF i = size + 1 THEN a
                                   ELSE IF i <= capacity THEN cells[i]
                                   ELSE HOSTAPD]
  IN  /\ cells' = new /\ size' = size + 1 /\ capacity' = grown
      /\ Witness(FALSE, size = capacity /\ size > 0, new, size + 1)

\* BSSID_ADD; the text is parsed, in any spelling.
SyncAdd(a, spelling) ==
  /\ hole = 0 /\ syncs < MaxSyncs
  /\ syncs' = syncs + 1
  /\ PushBack(a)
  /\ wanted' = [wanted EXCEPT ![a] = @ + 1]
  /\ UNCHANGED <<hole, pc, outcome, frames, misspelt>>

\* A loop that does not look at the last cell.
MatchingShort(a, spelling) == {i \in 1..(size - 1) : cells[i] = a /\ spelling = Lower}

\* The cells whose text is equal to the one to remove; the first one is erased.
Matching(a, spelling) == {i \in 1..size : cells[i] = a /\ spelling = Lower}

\* BSSID_REMOVE up to the erase.
SyncRemove(a, spelling) ==
  /\ hole = 0 /\ syncs < MaxSyncs
  /\ syncs' = syncs + 1
  /\ hole' = IF Matching(a, spelling) = {} THEN 0
             ELSE CHOOSE i \in Matching(a, spelling) : \A j \in Matching(a, spelling) : i <= j
  /\ wanted' = [wanted EXCEPT ![a] = IF @ = 0 THEN 0 ELSE @ - 1]
  /\ misspelt' = IF spelling = Lower THEN misspelt ELSE misspelt \cup {a}
  /\ UNCHANGED <<cells, size, capacity, pc, search, outcome, frames>>

\* erase: the next cell moves into the hole, or the last cell is dropped.
Erase ==
  /\ hole # 0
  /\ IF hole < size
     THEN LET new == [cells EXCEPT ![hole] = cells[hole + 1]]
          IN  /\ cells' = new /\ hole' = hole + 1
              /\ UNCHANGED size
              /\ Witness(TRUE, FALSE, new, size)
     ELSE /\ size' = size - 1 /\ hole' = 0
          /\ UNCHANGED cells
          /\ Witness(TRUE, FALSE, cells, size - 1)
  /\ UNCHANGED <<capacity, pc, outcome, frames, syncs, wanted, misspelt>>

-----------------------------------------------------------------------------

MonNext ==
  \/ \E f \in Frames : ReceiveFrame(f)
  \/ Find \/ Compare
  \/ \E a \in Addresses, spelling \in Spellings : SyncAdd(a, spelling) \/ SyncRemove(a, spelling)
  \/ Erase

MonSpec == MonInit /\ [][MonNext]_monVars

-----------------------------------------------------------------------------
(***************************************************************************)
(* Properties.                                                             *)
(***************************************************************************)

\* The vector is well formed, and a search stays between its first cell and the
\* end it began with.
MonTypeOK ==
  /\ capacity \in Nat /\ size \in 0..capacity /\ cells \in [1..capacity -> Addresses]
  /\ hole \in 0..size
  /\ pc \in {"idle", "find", "compare"}
  /\ pc # "idle" => search.position \in 1..search.end
  /\ wanted \in [Addresses -> Nat]

\* A frame whose search no sync has touched is relayed exactly when its source is
\* one of the configured BSSIDs.
QuietSearchExact ==
  ~outcome.changed => (outcome.relayed <=> outcome.sometime)

\* A frame of a BSSID that was configured all the time is dropped only if cells
\* have moved under the search, by an erase or by a move to new memory: an
\* addition alone never makes process lose a frame.
DroppedOnlyWhenMoved ==
  (outcome.throughout /\ ~outcome.relayed) => outcome.moved

\* What process decides about a frame is right in both ways when sync did not
\* touch the list during the unlocked search.  When it did, a frame of a BSSID
\* configured all the time is dropped only if cells have moved or their memory
\* was freed; of frames relayed in such a search nothing is claimed.
SearchSound == QuietSearchExact /\ DroppedOnlyWhenMoved

Count(a) == Cardinality({i \in 1..size : cells[i] = a})

\* Between calls of sync the list holds each address as often as it was added
\* and not removed, unless a removal has spelt the address in another way than
\* to_string does: such a removal removes nothing.
ListFollowsCommands ==
  /\ MonTypeOK
  /\ hole = 0 => \A a \in Addresses \ misspelt : Count(a) = wanted[a]
=============================================================================
