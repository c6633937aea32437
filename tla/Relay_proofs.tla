------------------------------ MODULE Relay_proofs ------------------------------
(***************************************************************************)
(* Proofs about the parts of the relay that share no state, one section    *)
(* each: the agents that the factory accounts for, and the search of       *)
(* bssid_list while it changes.                                            *)
(***************************************************************************)
EXTENDS AgentFactory, MonToWarpAgent, FiniteSetTheorems, WellFoundedInduction, TLAPS

-----------------------------------------------------------------------------
(***************************************************************************)
(* AgentFactory.                                                           *)
(***************************************************************************)

\* Ids are given out once, the agent that is being killed is still in the map,
\* and a call of process that began after the signal is the one that ends the
\* loop of the sniffer.
Accounts ==
  /\ \A a \in Ids : thread[a] # "none" => a < current_thread_id
  /\ console # -1 => console \in agent_threads
  /\ \A a \in Ids : calls[a] # 0 => a \in complete /\ thread[a] \in {"process", "ended"}

FactoryInv == AgentsAccounted /\ Accounts

LEMMA IdsFacts == MaxAgents \in Nat /\ Ids = 0..(MaxAgents - 1) /\ -1 \notin Ids
BY FactoryAssumption DEF Ids

LEMMA FactoryInvInit == FactoryInit => FactoryInv
BY IdsFacts DEF FactoryInit, FactoryInv, AgentsAccounted, FactoryTypeOK, MapOwnsAgents,
  LastCallAfterSignal, Accounts

LEMMA SpawnKeepsInv == FactoryInv /\ Spawn => FactoryInv'
<1> SUFFICES ASSUME FactoryInv, Spawn PROVE FactoryInv'
  OBVIOUS
<1> USE IdsFacts DEF FactoryInv, AgentsAccounted, FactoryTypeOK, Spawn
<1>1. current_thread_id \in Ids /\ thread[current_thread_id] = "none"
  BY DEF Accounts
<1>2. FactoryTypeOK'
  BY <1>1
<1>3. MapOwnsAgents'
  BY <1>1 DEF MapOwnsAgents
<1>4. LastCallAfterSignal'
  BY <1>1 DEF LastCallAfterSignal
<1>5. Accounts'
  BY <1>1 DEF Accounts
<1> QED
  BY <1>2, <1>3, <1>4, <1>5

LEMMA KillSignalKeepsInv ==
  ASSUME NEW id \in Ids PROVE FactoryInv /\ KillSignal(id) => FactoryInv'
<1> SUFFICES ASSUME FactoryInv, KillSignal(id) PROVE FactoryInv'
  OBVIOUS
<1> USE IdsFacts DEF FactoryInv, AgentsAccounted, FactoryTypeOK, KillSignal
<1>1. FactoryTypeOK'
  OBVIOUS
<1>2. MapOwnsAgents' /\ LastCallAfterSignal'
  BY DEF MapOwnsAgents, LastCallAfterSignal
<1>3. Accounts'
  BY DEF Accounts
<1> QED
  BY <1>1, <1>2, <1>3

LEMMA KillResetKeepsInv == FactoryInv /\ KillReset => FactoryInv'
<1> SUFFICES ASSUME FactoryInv, KillReset PROVE FactoryInv'
  OBVIOUS
<1> USE IdsFacts DEF FactoryInv, AgentsAccounted, FactoryTypeOK, KillReset
<1>1. console \in agent_threads
  BY DEF Accounts
<1>2. FactoryTypeOK'
  BY <1>1
<1>3. MapOwnsAgents'
  BY <1>1 DEF MapOwnsAgents
<1>4. LastCallAfterSignal' /\ Accounts'
  BY DEF LastCallAfterSignal, Accounts
<1> QED
  BY <1>2, <1>3, <1>4

LEMMA ThreadKeepsInv ==
  ASSUME NEW a \in Ids
  PROVE  FactoryInv /\ (Run(a) \/ ProcessBegin(a) \/ ProcessEnd(a)) => FactoryInv'
<1> USE IdsFacts DEF FactoryInv, AgentsAccounted, FactoryTypeOK, Touch
<1>1. ASSUME FactoryInv, Run(a) PROVE FactoryInv'
  BY <1>1 DEF Run, MapOwnsAgents, LastCallAfterSignal, Accounts
<1>2. ASSUME FactoryInv, ProcessBegin(a) PROVE FactoryInv'
  <2>1. calls[a] = 0
    BY <1>2 DEF ProcessBegin, Accounts
  <2>2. FactoryTypeOK' /\ MapOwnsAgents'
    BY <1>2 DEF ProcessBegin, MapOwnsAgents
  <2>3. LastCallAfterSignal' /\ Accounts'
    BY <1>2, <2>1 DEF ProcessBegin, LastCallAfterSignal, Accounts
  <2> QED
    BY <2>2, <2>3
<1>3. ASSUME FactoryInv, ProcessEnd(a) PROVE FactoryInv'
  BY <1>3 DEF ProcessEnd, MapOwnsAgents, LastCallAfterSignal, Accounts
<1> QED
  BY <1>1, <1>2, <1>3

\* The console and the threads of its agents stay accounted for, however kills
\* and frames cross: no agent is freed while its id can still be killed, and an
\* agent takes at most one frame after it was told to stop.
THEOREM FactoryAccountsForAgents == FactorySpec => []AgentsAccounted
<1>1. FactoryInv /\ [FactoryNext]_factoryVars => FactoryInv'
  <2>1. FactoryInv /\ UNCHANGED factoryVars => FactoryInv'
    BY DEF FactoryInv, AgentsAccounted, FactoryTypeOK, MapOwnsAgents, LastCallAfterSignal,
      Accounts, factoryVars
  <2> QED
    BY <2>1, SpawnKeepsInv, KillSignalKeepsInv, KillResetKeepsInv, ThreadKeepsInv
    DEF FactoryNext
<1>2. FactoryInv => AgentsAccounted
  BY DEF FactoryInv
<1> QED
  BY <1>1, <1>2, FactoryInvInit, PTL DEF FactorySpec

-----------------------------------------------------------------------------
(***************************************************************************)
(* MonToWarpAgent.                                                         *)
(***************************************************************************)

Searches == [frame : Frames, position : Nat, end : Nat, freed : BOOLEAN,
             changed : BOOLEAN, moved : BOOLEAN, throughout : BOOLEAN, sometime : BOOLEAN]

\* As long as no cell has moved, what the search has passed by is not the source,
\* what it stopped at is, and a source that is still listed is before its end.
StandsStill ==
  /\ ~search.freed /\ search.end <= size + 1
  /\ search.throughout => \E i \in 1..(search.end - 1) : cells[i] = search.frame.source
  /\ \A i \in 1..(search.position - 1) : cells[i] # search.frame.source
  /\ pc = "compare" =>
       search.position = search.end \/ cells[search.position] = search.frame.source

\* As long as sync has not touched the list, the search is one of the list.
Untouched ==
  /\ ~search.moved /\ search.end = size + 1
  /\ search.sometime <=> Listed(search.frame.source, cells, size)

SearchInv ==
  pc # "idle" => /\ search \in Searches
                 /\ search.moved \/ StandsStill
                 /\ search.changed \/ Untouched

\* The cells that count: an erase has taken one of them out of the list already.
Occurrences(a, c, n, h) == {i \in 1..n : i # h /\ c[i] = a}

CountInv ==
  \A a \in Addresses \ misspelt : Cardinality(Occurrences(a, cells, size, hole)) = wanted[a]

MonInv == MonTypeOK /\ SearchInv /\ SearchSound /\ CountInv

\* Every set of naturals that is not empty has a least element.
LEMMA LeastNatural ==
  ASSUME NEW S \in SUBSET Nat, S # {}
  PROVE  \E x \in S : \A y \in S : x <= y
<1> DEFINE R == OpToRel(<, Nat)
<1>1. PICK x \in S : \A y \in S : ~ (<<y, x>> \in R)
  <2>1. IsWellFoundedOn(R, Nat)
    BY NatLessThanWellFounded
  <2> HIDE DEF R
  <2> QED
    BY <2>1, WFMin
<1>2. ASSUME NEW y \in S PROVE x <= y
  <2>1. y < x => <<y, x>> \in R
    BY DEF OpToRel
  <2>2. ~(y < x)
    BY <1>1, <2>1, Zenon
  <2> HIDE DEF R
  <2> QED
    BY <2>2, SMT
<1> QED
  BY <1>2

LEMMA OccurrencesFinite ==
  ASSUME NEW n \in Nat, NEW c, NEW a, NEW h
  PROVE  /\ IsFiniteSet(Occurrences(a, c, n, h))
         /\ Cardinality(Occurrences(a, c, n, h)) \in Nat
<1>1. Occurrences(a, c, n, h) \in SUBSET (1..n) /\ IsFiniteSet(1..n)
  BY FS_Interval DEF Occurrences
<1> QED
  BY <1>1, FS_Subset, FS_CardinalityType

LEMMA SearchTypes ==
  ASSUME NEW q \in Searches
  PROVE  /\ q.position \in Nat /\ q.end \in Nat /\ q.frame \in Frames
         /\ q.freed \in BOOLEAN /\ q.changed \in BOOLEAN /\ q.moved \in BOOLEAN
         /\ q.throughout \in BOOLEAN /\ q.sometime \in BOOLEAN
BY DEF Searches

\* std::find has gone on to the next cell.
LEMMA Advanced ==
  ASSUME NEW q \in Searches, NEW r, r = [q EXCEPT !.position = q.position + 1]
  PROVE  /\ r \in Searches /\ r.position = q.position + 1
         /\ r.end = q.end /\ r.frame = q.frame /\ r.freed = q.freed /\ r.changed = q.changed
         /\ r.moved = q.moved /\ r.throughout = q.throughout /\ r.sometime = q.sometime
BY DEF Searches

LEMMA MonInvInit == MonInit => MonInv
<1> SUFFICES ASSUME MonInit PROVE MonInv
  OBVIOUS
<1> USE MonAssumption DEF MonInit
<1>1. MonTypeOK
  BY DEF MonTypeOK
<1>2. SearchInv /\ SearchSound
  BY DEF SearchInv, SearchSound, QuietSearchExact, DroppedOnlyWhenMoved, NoOutcome
<1>3. ASSUME NEW a \in Addresses PROVE Cardinality(Occurrences(a, cells, size, hole)) = wanted[a]
  <2>1. Occurrences(a, cells, size, hole) = {}
    BY DEF Occurrences
  <2> QED
    BY <2>1, FS_EmptySet
<1> QED
  BY <1>1, <1>2, <1>3 DEF MonInv, CountInv

LEMMA ReceiveFrameKeepsInv ==
  ASSUME NEW f \in Frames PROVE MonInv /\ ReceiveFrame(f) => MonInv'
<1> SUFFICES ASSUME MonInv, ReceiveFrame(f) PROVE MonInv'
  OBVIOUS
<1> USE DEF MonInv, ReceiveFrame
<1>1. CountInv' /\ SearchSound'
  BY DEF CountInv, SearchSound, QuietSearchExact, DroppedOnlyWhenMoved
<1>2. CASE Unsearched(f)
  BY <1>1, <1>2 DEF MonTypeOK, SearchInv
<1>3. CASE ~Unsearched(f)
  <2> DEFINE in == Listed(f.source, cells, size)
  <2>1. /\ pc' = "find" /\ UNCHANGED <<cells, size, hole, capacity>>
        /\ search' = [frame |-> f, position |-> 1, end |-> size + 1, freed |-> FALSE,
                      changed |-> hole # 0, moved |-> hole # 0,
                      throughout |-> in, sometime |-> in]
    BY <1>3
  <2>2. size \in Nat /\ capacity \in Nat /\ hole \in 0..size /\ in \in BOOLEAN
    BY DEF MonTypeOK, Listed
  <2>3. MonTypeOK'
    BY <2>1, <2>2 DEF MonTypeOK
  <2>4. search' \in Searches
    BY <2>1, <2>2 DEF Searches
  <2>5. in => \E i \in 1..(search'.end - 1) : cells[i] = f.source
    BY <2>1, <2>2 DEF Listed
  <2>6. StandsStill'
    BY <2>1, <2>2, <2>5 DEF StandsStill
  <2>7. (search.changed \/ Untouched)'
    BY <2>1, <2>2 DEF Untouched
  <2> QED
    BY <1>1, <2>3, <2>4, <2>6, <2>7 DEF SearchInv
<1> QED
  BY <1>2, <1>3

LEMMA FindKeepsInv == MonInv /\ Find => MonInv'
<1> SUFFICES ASSUME MonInv, Find PROVE MonInv'
  OBVIOUS
<1>1. UNCHANGED <<cells, size, capacity, hole, outcome, frames, syncs, wanted, misspelt>>
  BY DEF Find
<1>2. /\ search \in Searches
      /\ search.moved \/ StandsStill
      /\ search.changed \/ Untouched
      /\ search.position \in 1..search.end
      /\ pc = "find" /\ MonTypeOK
  BY DEF MonInv, SearchInv, MonTypeOK, Find
<1>s. search \in Searches
  BY <1>2, Zenon
<1>t. search.position \in Nat /\ search.end \in Nat
  BY <1>s, SearchTypes
<1>3. CountInv' /\ SearchSound'
  BY <1>1 DEF MonInv, CountInv, SearchSound, QuietSearchExact, DroppedOnlyWhenMoved
<1>4. ASSUME pc' = "compare", UNCHANGED search,
             search.position = search.end \/ TRUE \in Matches
      PROVE  MonInv'
  <2>1. MonTypeOK'
    BY <1>1, <1>2, <1>4 DEF MonTypeOK
  <2>2. (search.moved \/ StandsStill)'
    BY <1>1, <1>2, <1>4, SearchTypes DEF StandsStill, Matches
  <2>3. (search.changed \/ Untouched)'
    BY <1>1, <1>2, <1>4 DEF Untouched
  <2> QED
    BY <1>2, <1>3, <1>4, <2>1, <2>2, <2>3 DEF MonInv, SearchInv
<1>5. ASSUME search.position # search.end, FALSE \in Matches, pc' = pc,
             search' = [search EXCEPT !.position = search.position + 1]
      PROVE  MonInv'
  <2> DEFINE r == search'
  <2>1. /\ r \in Searches /\ r.position = search.position + 1
        /\ r.end = search.end /\ r.frame = search.frame /\ r.freed = search.freed
        /\ r.changed = search.changed /\ r.moved = search.moved
        /\ r.throughout = search.throughout /\ r.sometime = search.sometime
    BY <1>s, <1>5, Advanced, Zenon
  <2>2. MonTypeOK'
    <3>1. search.position \in 1..search.end /\ search.position # search.end
      BY <1>2, <1>5, Zenon
    <3>2. r.position \in 1..r.end
      BY <1>t, <2>1, <3>1
    <3> QED
      BY <1>1, <1>2, <3>2, pc' = pc, <1>5 DEF MonTypeOK
  <2>3. (search.moved \/ StandsStill)'
    <3> SUFFICES ASSUME ~search.moved PROVE StandsStill'
      BY <2>1
    <3>1. StandsStill
      BY <1>2, Zenon
    <3>2. cells[search.position] # search.frame.source
      BY <1>5, <3>1 DEF StandsStill, Matches
    <3> QED
      BY <1>1, <1>2, <1>t, <2>1, <3>1, <3>2, pc' = pc, <1>5 DEF StandsStill
  <2>4. (search.changed \/ Untouched)'
    BY <1>1, <1>2, <2>1 DEF Untouched
  <2> QED
    BY <1>3, <2>1, <2>2, <2>3, <2>4 DEF MonInv, SearchInv
<1>6. CASE search.position = search.end
  BY <1>4, <1>6, Zenon DEF Find
<1>7. CASE search.position # search.end
  <2>1. PICK found \in Matches :
          IF found THEN pc' = "compare" /\ UNCHANGED search
          ELSE pc' = pc /\ search' = [search EXCEPT !.position = search.position + 1]
    BY <1>7, Zenon DEF Find
  <2>2. found \in BOOLEAN
    BY <2>1, Zenon DEF Matches
  <2> QED
    BY <1>4, <1>5, <1>7, <2>1, <2>2, Zenon
<1> QED
  BY <1>6, <1>7, Zenon

LEMMA CompareKeepsInv == MonInv /\ Compare => MonInv'
<1> SUFFICES ASSUME MonInv, Compare PROVE MonInv'
  OBVIOUS
<1> USE DEF MonInv, Compare
<1>1. MonTypeOK' /\ SearchInv' /\ CountInv'
  BY DEF MonTypeOK, SearchInv, CountInv
<1>2. /\ search \in Searches
      /\ search.moved \/ StandsStill
      /\ search.changed \/ Untouched
      /\ search.position \in 1..search.end /\ size \in Nat
  BY DEF SearchInv, MonTypeOK
<1>s. search \in Searches
  BY <1>2, Zenon
<1>3. search.position \in Nat /\ search.end \in Nat
  BY <1>s, SearchTypes, Zenon
<1>4. PICK reread \in BOOLEAN :
        outcome' = [relayed    |-> IF reread
                                   THEN search.freed \/ search.position # size + 1
                                   ELSE search.position # search.end,
                    changed    |-> search.changed,
                    moved      |-> search.moved,
                    throughout |-> search.throughout,
                    sometime   |-> search.sometime]
  OBVIOUS
<1>5. QuietSearchExact'
  <2> SUFFICES ASSUME ~search.changed
               PROVE  outcome'.relayed <=> outcome'.sometime
    BY <1>4 DEF QuietSearchExact
  <2>1. StandsStill /\ Untouched
    BY <1>2, Zenon DEF Untouched
  <2>2. outcome'.relayed <=> search.position # size + 1
    BY <1>4, <2>1 DEF StandsStill, Untouched
  <2>3. search.position # size + 1 <=> Listed(search.frame.source, cells, size)
    BY <1>2, <1>3, <2>1 DEF StandsStill, Untouched, Listed
  <2> QED
    BY <1>4, <2>1, <2>2, <2>3 DEF Untouched
<1>6. DroppedOnlyWhenMoved'
  <2> SUFFICES ASSUME search.throughout, ~search.moved
               PROVE  outcome'.relayed
    BY <1>4 DEF DroppedOnlyWhenMoved
  <2>1. search.position # search.end /\ search.position # size + 1
    BY <1>2, <1>3 DEF StandsStill
  <2> QED
    BY <1>4, <2>1
<1> QED
  BY <1>1, <1>5, <1>6 DEF SearchSound

\* A step of sync that moves cells under a search need not be looked at again.
LEMMA MovedKeepsSearch ==
  ASSUME SearchInv, NEW g \in BOOLEAN, NEW c, NEW n, Witness(TRUE, g, c, n), UNCHANGED pc
  PROVE  SearchInv' /\ (pc # "idle" => search'.position = search.position
                                       /\ search'.end = search.end)
<1>1. CASE pc = "idle"
  BY <1>1, Zenon DEF SearchInv, Witness
<1>2. CASE pc # "idle"
  <2>1. search \in Searches
    BY <1>2, Zenon DEF SearchInv
  <2> DEFINE in == Listed(search.frame.source, c, n)
  <2>2. in \in BOOLEAN
    BY Zenon DEF Listed
  <2>m. PICK m \in BOOLEAN : m = TRUE
    OBVIOUS
  <2>3. search' = [search EXCEPT !.changed = TRUE, !.moved = search.moved \/ m \/ g,
                                 !.freed = search.freed \/ g,
                                 !.throughout = search.throughout /\ in,
                                 !.sometime = search.sometime \/ in]
    BY <1>2, <2>m, Zenon DEF Witness
  <2> HIDE DEF in
  <2>4. /\ search' \in Searches /\ search'.changed
        /\ search'.moved = (search.moved \/ m \/ g)
        /\ search'.position = search.position /\ search'.end = search.end
    <3>1. search' \in Searches
      BY <2>1, <2>2, <2>3 DEF Searches
    <3> QED
      BY <2>1, <2>2, <2>3, <3>1 DEF Searches
  <2> QED
    BY <2>m, <2>4, Zenon DEF SearchInv
<1> QED
  BY <1>1, <1>2

\* What push_back makes of the vector.
LEMMA Pushed ==
  ASSUME MonTypeOK, NEW a \in Addresses, PushBack(a)
  PROVE  /\ size' = size + 1 /\ capacity' \in Nat /\ size' <= capacity'
         /\ cells' \in [1..capacity' -> Addresses]
         /\ \A i \in 1..size : cells'[i] = cells[i]
         /\ cells'[size + 1] = a
<1> DEFINE grown == IF size < capacity THEN capacity
                    ELSE IF capacity = 0 THEN 1 ELSE 2 * capacity
           new   == [i \in 1..grown |-> IF i <= size THEN cells[i]
                                        ELSE IF i = size + 1 THEN a
                                        ELSE IF i <= capacity THEN cells[i]
                                        ELSE HOSTAPD]
<1>1. size' = size + 1 /\ capacity' = grown /\ cells' = new
  BY Zenon DEF PushBack
<1>2. capacity \in Nat /\ size \in 0..capacity /\ cells \in [1..capacity -> Addresses]
  BY DEF MonTypeOK
<1>3. grown \in Nat /\ size + 1 <= grown
  BY <1>2
<1> HIDE DEF grown
<1>4. new \in [1..grown -> Addresses]
  BY <1>2, <1>3, MonAssumption
<1>5. size + 1 \in 1..grown /\ \A i \in 1..size : i \in 1..grown
  BY <1>2, <1>3
<1> QED
  BY <1>1, <1>2, <1>3, <1>4, <1>5

LEMMA SyncAddKeepsSearch ==
  ASSUME MonInv, NEW a \in Addresses, NEW spelling, SyncAdd(a, spelling)
  PROVE  SearchInv' /\ (pc # "idle" => search'.position = search.position
                                       /\ search'.end = search.end)
<1>1. /\ PushBack(a) /\ hole = 0 /\ UNCHANGED pc /\ SearchInv /\ MonTypeOK
  BY Zenon DEF SyncAdd, MonInv
<1>2. CASE pc = "idle"
  <2>1. search' = search
    BY <1>1, <1>2, Zenon DEF PushBack, Witness
  <2> QED
    BY <1>1, <1>2, <2>1, Zenon DEF SearchInv
<1>3. CASE pc # "idle"
  <2>1. search \in Searches
    BY <1>1, <1>3, Zenon DEF SearchInv
  <2>2. search.moved \/ StandsStill
    BY <1>1, <1>3, Zenon DEF SearchInv
  <2> DEFINE in == Listed(search.frame.source, cells', size + 1)
             gone == size = capacity /\ size > 0
  <2>3. in \in BOOLEAN /\ gone \in BOOLEAN
    BY Zenon DEF Listed
  <2>m. PICK m \in BOOLEAN : m = FALSE
    OBVIOUS
  <2>4. search' = [search EXCEPT !.changed = TRUE, !.moved = search.moved \/ m \/ gone,
                                 !.freed = search.freed \/ gone,
                                 !.throughout = search.throughout /\ in,
                                 !.sometime = search.sometime \/ in]
    BY <1>1, <1>3, <2>m, Zenon DEF PushBack, Witness
  <2> HIDE DEF in, gone
  <2>5. /\ search' \in Searches /\ search'.changed
        /\ search'.position = search.position /\ search'.end = search.end
        /\ search'.frame = search.frame
        /\ search'.moved = (search.moved \/ m \/ gone)
        /\ search'.freed = (search.freed \/ gone)
        /\ search'.throughout = (search.throughout /\ in)
    <3>1. search' \in Searches
      BY <2>1, <2>3, <2>4 DEF Searches
    <3> QED
      BY <2>1, <2>3, <2>4, <3>1 DEF Searches
  <2>6. ASSUME ~search'.moved PROVE StandsStill'
    <3>1. StandsStill /\ ~gone
      BY <2>2, <2>5, <2>6, Zenon
    <3>2. ~search'.freed /\ (search'.throughout => search.throughout)
      BY <2>5, <3>1, Zenon DEF StandsStill
    <3>3. /\ size' = size + 1 /\ \A i \in 1..size : cells'[i] = cells[i]
      BY <1>1, Pushed
    <3>4. search.position \in Nat /\ search.end \in Nat /\ size \in Nat
          /\ search.position \in 1..search.end
      <4>1. search.position \in Nat /\ search.end \in Nat
        BY <2>1, SearchTypes, Zenon
      <4> QED
        BY <1>1, <1>3, <4>1 DEF MonTypeOK
    <3>5. search.end <= size + 1
      BY <3>1, Zenon DEF StandsStill
    <3>6. search.throughout => \E i \in 1..(search.end - 1) : cells'[i] = search.frame.source
      <4>1. search.throughout => \E i \in 1..(search.end - 1) : cells[i] = search.frame.source
        BY <3>1, Zenon DEF StandsStill
      <4>2. \A i \in 1..(search.end - 1) : cells'[i] = cells[i]
        BY <3>3, <3>4, <3>5
      <4> QED
        BY <4>1, <4>2, Zenon
    <3>7. \A i \in 1..(search.position - 1) : cells'[i] # search.frame.source
      <4>1. \A i \in 1..(search.position - 1) : cells[i] # search.frame.source
        BY <3>1, Zenon DEF StandsStill
      <4>2. \A i \in 1..(search.position - 1) : cells'[i] = cells[i]
        BY <3>3, <3>4, <3>5
      <4> QED
        BY <4>1, <4>2, Zenon
    <3>8. pc = "compare" =>
            search.position = search.end \/ cells'[search.position] = search.frame.source
      <4>1. pc = "compare" =>
              search.position = search.end \/ cells[search.position] = search.frame.source
        BY <3>1, Zenon DEF StandsStill
      <4>2. search.position # search.end => cells'[search.position] = cells[search.position]
        BY <3>3, <3>4, <3>5
      <4> QED
        BY <4>1, <4>2, Zenon
    <3>9. search.end <= size' + 1
      BY <3>3, <3>4, <3>5
    <3> QED
      BY <1>1, <2>5, <3>2, <3>6, <3>7, <3>8, <3>9, Zenon DEF StandsStill
  <2> QED
    BY <2>5, <2>6, Zenon DEF SearchInv
<1> QED
  BY <1>2, <1>3

LEMMA SyncAddKeepsInv ==
  ASSUME NEW a \in Addresses, NEW spelling \in Spellings
  PROVE  MonInv /\ SyncAdd(a, spelling) => MonInv'
<1> SUFFICES ASSUME MonInv, SyncAdd(a, spelling) PROVE MonInv'
  OBVIOUS
<1>1. /\ PushBack(a) /\ hole = 0 /\ MonTypeOK /\ CountInv /\ SearchSound
      /\ wanted' = [wanted EXCEPT ![a] = @ + 1] /\ UNCHANGED <<hole, pc, outcome, misspelt>>
  BY Zenon DEF SyncAdd, MonInv
<1>2. /\ size' = size + 1 /\ capacity' \in Nat /\ size' <= capacity'
      /\ cells' \in [1..capacity' -> Addresses]
      /\ \A i \in 1..size : cells'[i] = cells[i]
      /\ cells'[size + 1] = a
  BY <1>1, Pushed
<1>3. size \in Nat /\ wanted \in [Addresses -> Nat]
  BY <1>1 DEF MonTypeOK
<1>4. SearchInv' /\ (pc # "idle" => search'.position = search.position /\ search'.end = search.end)
  BY SyncAddKeepsSearch
<1>5. MonTypeOK'
  BY <1>1, <1>2, <1>3, <1>4 DEF MonTypeOK
<1>6. SearchSound'
  BY <1>1 DEF SearchSound, QuietSearchExact, DroppedOnlyWhenMoved
<1>7. ASSUME NEW b \in Addresses \ misspelt
      PROVE  Cardinality(Occurrences(b, cells', size', hole')) = wanted'[b]
  <2> DEFINE old == Occurrences(b, cells, size, hole)
             new == Occurrences(b, cells', size', hole')
  <2>1. IsFiniteSet(old) /\ Cardinality(old) = wanted[b]
    BY <1>1, <1>3, <1>7, OccurrencesFinite DEF CountInv
  <2>a. 1..size' = 1..size \cup {size + 1} /\ size + 1 \notin 1..size
        /\ hole = 0 /\ hole' = 0
    BY <1>1, <1>2, <1>3
  <2>2. CASE b = a
    <3>1. new = old \cup {size + 1} /\ size + 1 \notin old
      BY <1>2, <1>3, <2>a, <2>2 DEF Occurrences
    <3>2. Cardinality(new) = Cardinality(old) + 1
      BY <2>1, <3>1, FS_AddElement
    <3> QED
      BY <1>1, <1>3, <2>1, <2>2, <3>2
  <2>3. CASE b # a
    <3>1. new = old
      BY <1>2, <2>a, <2>3 DEF Occurrences
    <3> QED
      BY <1>1, <1>3, <2>1, <2>3, <3>1
  <2> QED
    BY <2>2, <2>3
<1> QED
  BY <1>1, <1>4, <1>5, <1>6, <1>7 DEF MonInv, CountInv

LEMMA SyncRemoveKeepsInv ==
  ASSUME NEW a \in Addresses, NEW spelling \in Spellings
  PROVE  MonInv /\ SyncRemove(a, spelling) => MonInv'
<1> SUFFICES ASSUME MonInv, SyncRemove(a, spelling) PROVE MonInv'
  OBVIOUS
<1> DEFINE M == Matching(a, spelling)
<1>1. /\ hole = 0 /\ MonTypeOK /\ CountInv /\ SearchSound /\ SearchInv
      /\ hole' = IF M = {} THEN 0 ELSE CHOOSE i \in M : \A j \in M : i <= j
      /\ wanted' = [wanted EXCEPT ![a] = IF @ = 0 THEN 0 ELSE @ - 1]
      /\ misspelt' = IF spelling = Lower THEN misspelt ELSE misspelt \cup {a}
      /\ UNCHANGED <<cells, size, capacity, pc, search, outcome>>
  BY DEF SyncRemove, MonInv
<1>2. size \in Nat /\ wanted \in [Addresses -> Nat] /\ M \in SUBSET Nat
  BY <1>1 DEF MonTypeOK, Matching
<1>3. M # {} => hole' \in M
  <2> SUFFICES ASSUME M # {} PROVE hole' \in M
    OBVIOUS
  <2>1. \E i \in M : \A j \in M : i <= j
    BY <1>2, LeastNatural
  <2> HIDE DEF M
  <2> QED
    BY <1>1, <2>1
<1>c. /\ hole = 0
      /\ M # {} => hole' \in 1..size /\ cells[hole'] = a
      /\ M = {} => hole' = 0
  BY <1>1, <1>3 DEF Matching
<1>4. hole' \in 0..size
  BY <1>1, <1>2, <1>3 DEF Matching
<1>5. MonTypeOK'
  BY <1>1, <1>2, <1>4 DEF MonTypeOK
<1>6. SearchSound' /\ SearchInv'
  BY <1>1 DEF SearchSound, QuietSearchExact, DroppedOnlyWhenMoved, SearchInv, StandsStill,
    Untouched
<1>7. ASSUME NEW b \in Addresses \ misspelt'
      PROVE  Cardinality(Occurrences(b, cells, size, hole')) = wanted'[b]
  <2> DEFINE old == Occurrences(b, cells, size, hole)
             new == Occurrences(b, cells, size, hole')
  <2>1. IsFiniteSet(old) /\ Cardinality(old) = wanted[b] /\ wanted[b] \in Nat
    BY <1>1, <1>2, <1>7, OccurrencesFinite DEF CountInv
  <2>2. CASE b = a /\ M # {}
    <3>1. new = old \ {hole'} /\ hole' \in old
      BY <1>c, <1>2, <2>2 DEF Occurrences
    <3>2. Cardinality(new) = Cardinality(old) - 1
      BY <2>1, <3>1, FS_RemoveElement
    <3>3. Cardinality(old) # 0
      BY <2>1, <3>1, FS_EmptySet
    <3> QED
      BY <1>1, <1>2, <2>1, <2>2, <3>2, <3>3
  <2>3. CASE b = a /\ M = {}
    <3>1. spelling = Lower
      BY <1>1, <1>7, <2>3
    <3>2. new = old /\ old = {}
      BY <1>1, <1>2, <2>3, <3>1 DEF Occurrences, Matching
    <3>3. wanted[b] = 0
      BY <2>1, <3>2, FS_EmptySet
    <3> QED
      BY <1>1, <1>2, <2>1, <2>3, <3>2, <3>3
  <2>4. CASE b # a
    <3>1. new = old
      BY <1>c, <1>2, <2>4 DEF Occurrences
    <3> QED
      BY <1>1, <1>2, <2>1, <2>4, <3>1
  <2> QED
    BY <2>2, <2>3, <2>4
<1> QED
  BY <1>1, <1>5, <1>6, <1>7 DEF MonInv, CountInv

LEMMA EraseKeepsInv == MonInv /\ Erase => MonInv'
<1> SUFFICES ASSUME MonInv, Erase PROVE MonInv'
  OBVIOUS
<1>1. /\ hole # 0 /\ MonTypeOK /\ CountInv /\ SearchSound /\ SearchInv
      /\ UNCHANGED <<capacity, pc, outcome, wanted, misspelt>>
  BY DEF Erase, MonInv
<1>2. /\ capacity \in Nat /\ size \in 0..capacity /\ hole \in 1..size
      /\ cells \in [1..capacity -> Addresses] /\ wanted \in [Addresses -> Nat]
  BY <1>1 DEF MonTypeOK
<1>3. SearchSound'
  BY <1>1 DEF SearchSound, QuietSearchExact, DroppedOnlyWhenMoved
<1>4. CASE hole < size
  <2>1. /\ cells' = [cells EXCEPT ![hole] = cells[hole + 1]] /\ hole' = hole + 1
        /\ UNCHANGED size /\ Witness(TRUE, FALSE, cells', size)
    BY <1>4 DEF Erase
  <2>2. /\ SearchInv'
        /\ pc # "idle" => search'.position = search.position /\ search'.end = search.end
    BY <1>1, <2>1, MovedKeepsSearch
  <2>3. MonTypeOK'
    BY <1>1, <1>2, <1>4, <2>1, <2>2 DEF MonTypeOK
  <2>4. ASSUME NEW b \in Addresses \ misspelt
        PROVE  Cardinality(Occurrences(b, cells', size', hole')) = wanted'[b]
    <3> DEFINE old == Occurrences(b, cells, size, hole)
               new == Occurrences(b, cells', size', hole')
    <3>1. IsFiniteSet(old) /\ Cardinality(old) = wanted[b] /\ wanted[b] \in Nat
      BY <1>1, <1>2, <2>4, OccurrencesFinite DEF CountInv
    <3>2. CASE cells[hole + 1] = b
      <4>1. new = (old \ {hole + 1}) \cup {hole} /\ hole + 1 \in old /\ hole \notin old
        BY <1>2, <1>4, <2>1, <3>2 DEF Occurrences
      <4>2. /\ IsFiniteSet(old \ {hole + 1})
            /\ Cardinality(old \ {hole + 1}) = Cardinality(old) - 1
        BY <3>1, <4>1, FS_RemoveElement
      <4>3. Cardinality(new) = Cardinality(old) - 1 + 1
        BY <4>1, <4>2, FS_AddElement
      <4> QED
        BY <1>1, <3>1, <4>3
    <3>3. CASE cells[hole + 1] # b
      <4>1. new = old
        BY <1>2, <1>4, <2>1, <3>3 DEF Occurrences
      <4> QED
        BY <1>1, <3>1, <4>1
    <3> QED
      BY <3>2, <3>3
  <2> QED
    BY <1>1, <1>3, <2>2, <2>3, <2>4 DEF MonInv, CountInv
<1>5. CASE ~(hole < size)
  <2>1. /\ size' = size - 1 /\ hole' = 0
        /\ UNCHANGED cells /\ Witness(TRUE, FALSE, cells, size - 1)
    BY <1>5 DEF Erase
  <2>2. /\ SearchInv'
        /\ pc # "idle" => search'.position = search.position /\ search'.end = search.end
    BY <1>1, <2>1, MovedKeepsSearch
  <2>3. MonTypeOK'
    BY <1>1, <1>2, <1>5, <2>1, <2>2 DEF MonTypeOK
  <2>4. ASSUME NEW b \in Addresses \ misspelt
        PROVE  Occurrences(b, cells', size', hole') = Occurrences(b, cells, size, hole)
    BY <1>2, <1>5, <2>1 DEF Occurrences
  <2> QED
    BY <1>1, <1>3, <2>2, <2>3, <2>4 DEF MonInv, CountInv
<1> QED
  BY <1>4, <1>5

LEMMA MonInvInductive == MonInv /\ [MonNext]_monVars => MonInv'
<1>1. MonInv /\ UNCHANGED monVars => MonInv'
  BY DEF MonInv, MonTypeOK, SearchInv, StandsStill, Untouched, SearchSound, QuietSearchExact,
    DroppedOnlyWhenMoved, CountInv, monVars
<1> QED
  BY <1>1, ReceiveFrameKeepsInv, FindKeepsInv, CompareKeepsInv, SyncAddKeepsInv,
    SyncRemoveKeepsInv, EraseKeepsInv, Zenon DEF MonNext

\* Although process reads bssid_list without the lock, a search that no sync has
\* touched decides exactly, and a frame of an address that was listed throughout
\* is dropped only when cells have moved under the search.
THEOREM UnlockedSearchIsSound == MonSpec => []SearchSound
<1>1. MonInv => SearchSound
  BY DEF MonInv
<1> QED
  BY <1>1, MonInvInit, MonInvInductive, PTL DEF MonSpec

\* Between calls of sync the list holds each address as often as it was added and
\* not removed, for any number of additions and removals in any order.
THEOREM ListCountsCommands == MonSpec => []ListFollowsCommands
<1>1. MonInv => ListFollowsCommands
  <2> SUFFICES ASSUME MonInv, hole = 0, NEW a \in Addresses \ misspelt
               PROVE  Count(a) = wanted[a]
    BY DEF MonInv, ListFollowsCommands
  <2>1. Occurrences(a, cells, size, hole) = {i \in 1..size : cells[i] = a}
    BY DEF MonInv, MonTypeOK, Occurrences
  <2> QED
    BY <2>1 DEF MonInv, CountInv, Count
<1> QED
  BY <1>1, MonInvInit, MonInvInductive, PTL DEF MonSpec
================================================================================
