---------------------------- MODULE DpmAgent_proofs ----------------------------
(***************************************************************************)
(* Proofs about the bridge's ports and flows (module Datapath), and about  *)
(* the bssid group that uses it, for any interfaces and stations and any   *)
(* number of commands: the inductive invariants DatapathInv and DpmInv,    *)
(* that the agent uses the bridge as module Datapath specifies and the     *)
(* queue as the command service does, that the nodes agree, and that the   *)
(* flows follow the stations.                                              *)
(*                                                                         *)
(* What remove() takes and what it leaves behind depends on how it compares*)
(* port numbers, by their first digits; the theorems hold for any numbers  *)
(* up to 999 and say for which of them.                                    *)
(***************************************************************************)
EXTENDS DpmAgent, FiniteSetTheorems, SequenceTheorems, TLAPS

AllInterfaces == Interfaces \cup {Ethernet}

-----------------------------------------------------------------------------
(***************************************************************************)
(* Lemmas about the operators.                                             *)
(***************************************************************************)

\* A port number with one digit is its first digit.
LEMMA FirstDigitOfOne == \A p \in Nat : p < 10 => FirstDigit(p) = p
BY DEF FirstDigit

\* The numbers that have a given first digit.
LEMMA FirstDigitIs ==
  ASSUME NEW p \in 1..999, NEW v \in Nat, FirstDigit(p) = v
  PROVE  BeginsWith(p, v)
<1> USE DEF BeginsWith
<1>1. CASE p < 10
  BY <1>1 DEF FirstDigit
<1>2. CASE p >= 10 /\ p < 100
  <2>1. v = p \div 10
    BY <1>2 DEF FirstDigit
  <2> QED BY <1>2, <2>1
<1>3. CASE p >= 100
  <2>1. v = p \div 100
    BY <1>3 DEF FirstDigit
  <2> QED BY <1>3, <2>1
<1> QED BY <1>1, <1>2, <1>3

LEMMA PortNumbersBelow1000 == \A p \in PortNumbers : p \in 1..999
BY DatapathAssumption

LEMMA PortNumbersPositive == PortNumbers \subseteq Nat \ {0}
BY DatapathAssumption

LEMMA PortOrNone == \A p \in PortNumbers \cup {0} : p \in Nat
BY PortNumbersPositive

LEMMA UplinkFacts ==
  ASSUME NEW a, NEW m \in Stations, NEW b
  PROVE  /\ Uplink(a, m, b).in_port = a
         /\ Uplink(a, m, b).dl_src = m
         /\ Uplink(a, m, b).output = b
         /\ IsUplink(Uplink(a, m, b))
         /\ (a \in PortNumbers /\ b \in PortNumbers) => Uplink(a, m, b) \in Flows
<1>1. m # AnySource
  BY DatapathAssumption
<1> QED
  BY <1>1 DEF Uplink, IsUplink, Flows

LEMMA DownlinkFacts ==
  ASSUME NEW a, NEW b
  PROVE  /\ ~IsUplink(Downlink(a, b))
         /\ (a \in PortNumbers /\ b \in PortNumbers) => Downlink(a, b) \in Flows
BY DEF Downlink, IsUplink, Flows

LEMMA FlowType ==
  ASSUME NEW f \in Flows
  PROVE  /\ f.in_port \in PortNumbers /\ f.output \in PortNumbers
         /\ IsUplink(f) => f.dl_src \in Stations
BY DEF Flows, IsUplink

\* A number for an interface is the one it has, or one that nobody has.
LEMMA NumberFacts ==
  ASSUME NEW p, p \in [AllInterfaces -> PortNumbers \cup {0}],
         NEW i \in AllInterfaces, NEW n \in NumberFor(p, i)
  PROVE  /\ n \in PortNumbers
         /\ p[i] # 0 => n = p[i]
         /\ p[i] = 0 => \A j \in AllInterfaces : p[j] # n
BY DEF NumberFor

\* What the ports look like after add.
LEMMA AddPorts ==
  ASSUME DatapathInv, NEW i \in Interfaces, NEW e \in NumberFor(ports, Ethernet),
         NEW v \in NumberFor([ports EXCEPT ![Ethernet] = e], i),
         ports' = [[ports EXCEPT ![Ethernet] = e] EXCEPT ![i] = v]
  PROVE  /\ e \in PortNumbers /\ v \in PortNumbers
         /\ ports' \in [AllInterfaces -> PortNumbers \cup {0}]
         /\ ports'[Ethernet] = e
         /\ \A j \in AllInterfaces : ports[j] # 0 => ports'[j] = ports[j]
         /\ PortsDiffer'
<1> DEFINE bound == [ports EXCEPT ![Ethernet] = e]
<1>1. /\ ports \in [AllInterfaces -> PortNumbers \cup {0}]
      /\ i \in AllInterfaces /\ Ethernet \in AllInterfaces /\ i # Ethernet
  BY DatapathAssumption DEF DatapathInv, DatapathTypeOK, AllInterfaces
<1>2. /\ e \in PortNumbers
      /\ ports[Ethernet] # 0 => e = ports[Ethernet]
      /\ ports[Ethernet] = 0 => \A j \in AllInterfaces : ports[j] # e
  BY <1>1, NumberFacts
<1>3. /\ bound \in [AllInterfaces -> PortNumbers \cup {0}]
      /\ bound[Ethernet] = e /\ \A j \in AllInterfaces : j # Ethernet => bound[j] = ports[j]
  BY <1>1, <1>2
<1>4. /\ v \in PortNumbers
      /\ bound[i] # 0 => v = bound[i]
      /\ bound[i] = 0 => \A j \in AllInterfaces : bound[j] # v
  <2> HIDE DEF bound
  <2>1. v \in NumberFor(bound, i)
    BY DEF bound
  <2> QED BY <1>1, <1>3, <2>1, NumberFacts
<1>5. /\ ports' \in [AllInterfaces -> PortNumbers \cup {0}]
      /\ ports'[i] = v
      /\ \A j \in AllInterfaces : j # i => ports'[j] = bound[j]
  BY <1>1, <1>3, <1>4
<1> HIDE DEF bound
<1>6. \A j \in AllInterfaces : ports[j] # 0 => ports'[j] = ports[j]
  BY <1>1, <1>2, <1>3, <1>4, <1>5
<1>7. PortsDiffer'
  <2>1. \A j, k \in AllInterfaces : (ports[j] = ports[k] /\ ports[j] # 0) => j = k
    BY DEF DatapathInv, PortsDiffer, AllInterfaces
  <2>2. \A j, k \in AllInterfaces : (bound[j] = bound[k] /\ bound[j] # 0) => j = k
    BY <1>1, <1>2, <1>3, <2>1
  <2>3. \A j, k \in AllInterfaces : (ports'[j] = ports'[k] /\ ports'[j] # 0) => j = k
    BY <1>1, <1>3, <1>4, <1>5, <2>2
  <2> QED BY <2>3 DEF PortsDiffer, AllInterfaces
<1> QED BY <1>1, <1>2, <1>3, <1>4, <1>5, <1>6, <1>7

-----------------------------------------------------------------------------
(***************************************************************************)
(* The inductive invariant, one step per operation.                        *)
(***************************************************************************)

\* Flows that only become fewer, or gain flows that are no uplinks, keep the
\* invariant when no bound port changes its number.
LEMMA FewerUplinks ==
  ASSUME DatapathInv, DatapathTypeOK', PortsDiffer',
         \A f \in flows' : IsUplink(f) => f \in flows,
         ports'[Ethernet] = ports[Ethernet] \/ ports[Ethernet] = 0,
         \A f \in flows' : (IsUplink(f) /\ f.in_port < 10 /\ f.output < 10) =>
           \A j \in Interfaces : ports[j] = f.output => ports'[j] = ports[j]
  PROVE  DatapathInv'
<1>1. UplinksFromEthernet'
  BY DEF DatapathInv, UplinksFromEthernet
<1>2. OneUplinkPerStation'
  BY DEF DatapathInv, OneUplinkPerStation, IsUplink
<1>3. UplinksLeadToBoundPorts'
  BY DEF DatapathInv, UplinksLeadToBoundPorts
<1> QED BY <1>1, <1>2, <1>3 DEF DatapathInv

LEMMA AddInv ==
  ASSUME DatapathInv, NEW i \in Interfaces, Add(i), UNCHANGED <<ovs, socket_path>>
  PROVE  DatapathInv'
<1>1. PICK e \in NumberFor(ports, Ethernet) :
        \E v \in NumberFor([ports EXCEPT ![Ethernet] = e], i) :
          /\ ports' = [[ports EXCEPT ![Ethernet] = e] EXCEPT ![i] = v]
          /\ flows' = IF ports[i] = 0 THEN AddFlow(Downlink(v, e)) ELSE flows
  BY Zenon DEF Add
<1>2. PICK v \in NumberFor([ports EXCEPT ![Ethernet] = e], i) :
          /\ ports' = [[ports EXCEPT ![Ethernet] = e] EXCEPT ![i] = v]
          /\ flows' = IF ports[i] = 0 THEN AddFlow(Downlink(v, e)) ELSE flows
  BY <1>1, Zenon
<1>3. /\ e \in PortNumbers /\ v \in PortNumbers
      /\ ports' \in [AllInterfaces -> PortNumbers \cup {0}]
      /\ ports'[Ethernet] = e
      /\ \A j \in AllInterfaces : ports[j] # 0 => ports'[j] = ports[j]
      /\ PortsDiffer'
  BY <1>2, AddPorts
<1>4. Downlink(v, e) \in Flows /\ ~IsUplink(Downlink(v, e))
  BY <1>3, DownlinkFacts
<1>5. flows' \subseteq flows \cup {Downlink(v, e)}
  BY <1>2 DEF AddFlow
<1>6. DatapathTypeOK'
  BY <1>3, <1>4, <1>5 DEF DatapathInv, DatapathTypeOK, AllInterfaces
<1>7. \A f \in flows' : IsUplink(f) => f \in flows
  BY <1>4, <1>5
<1>8. \A f \in flows' : IsUplink(f) =>
        \A j \in Interfaces : ports[j] = f.output => ports'[j] = ports[j]
  BY <1>3, <1>7, FlowType, PortNumbersPositive
     DEF DatapathInv, DatapathTypeOK, AllInterfaces
<1>9. ports'[Ethernet] = ports[Ethernet] \/ ports[Ethernet] = 0
  BY <1>3 DEF AllInterfaces
<1> QED BY <1>3, <1>6, <1>7, <1>8, <1>9, FewerUplinks

LEMMA AssociateInv ==
  ASSUME DatapathInv, NEW i \in Interfaces, NEW mac \in Stations,
         Associate(mac, i), UNCHANGED <<ovs, socket_path>>
  PROVE  DatapathInv'
<1> USE DEF Associate
<1>1. CASE flows' = flows
  BY <1>1 DEF DatapathInv, DatapathTypeOK, PortsDiffer, UplinksFromEthernet,
              OneUplinkPerStation, UplinksLeadToBoundPorts
<1>2. CASE ports[i] # 0 /\ ports[Ethernet] # 0
  <2> DEFINE u == Uplink(ports[Ethernet], mac, ports[i])
  <2>1. ports[i] \in PortNumbers /\ ports[Ethernet] \in PortNumbers
    BY <1>2 DEF DatapathInv, DatapathTypeOK
  <2>2. /\ u \in Flows /\ IsUplink(u)
        /\ u.in_port = ports[Ethernet] /\ u.dl_src = mac /\ u.output = ports[i]
    BY <2>1, UplinkFacts
  <2> HIDE DEF u
  <2>3. flows' = {g \in flows : ~(g.in_port = u.in_port /\ g.dl_src = u.dl_src)} \cup {u}
    BY <1>2 DEF AddFlow, u
  <2>4. DatapathTypeOK' /\ PortsDiffer'
    BY <2>2, <2>3 DEF DatapathInv, DatapathTypeOK, PortsDiffer
  <2>5. UplinksFromEthernet'
    BY <1>2, <2>2, <2>3 DEF DatapathInv, UplinksFromEthernet
  <2>6. \A g \in flows' : g.dl_src = mac => g = u
    BY <2>2, <2>3, DatapathAssumption DEF DatapathInv, UplinksFromEthernet, IsUplink
  <2>7. OneUplinkPerStation'
    BY <2>2, <2>3, <2>6 DEF DatapathInv, OneUplinkPerStation
  <2>8. UplinksLeadToBoundPorts'
    BY <2>2, <2>3 DEF DatapathInv, UplinksLeadToBoundPorts
  <2> QED BY <2>4, <2>5, <2>7, <2>8 DEF DatapathInv
<1> QED BY <1>1, <1>2

LEMMA DisassociateInv ==
  ASSUME DatapathInv, NEW i \in Interfaces, NEW mac \in Stations,
         Disassociate(mac, i), UNCHANGED <<ovs, socket_path>>
  PROVE  DatapathInv'
<1>1. flows' \subseteq flows /\ ports' = ports
  BY DEF Disassociate, RemoveFlows
<1>2. DatapathTypeOK' /\ PortsDiffer'
  BY <1>1 DEF DatapathInv, DatapathTypeOK, PortsDiffer
<1> QED BY <1>1, <1>2, FewerUplinks

\* remove() finds the stations whose one uplink flow has the first digits.
LEMMA StationsFound ==
  ASSUME DatapathInv, NEW e, NEW v, NEW f \in flows, IsUplink(f)
  PROVE  f.dl_src \in AssociatedStationSet(e, v)
           <=> (FirstDigit(f.in_port) = e /\ FirstDigit(f.output) = v)
<1>1. \A g \in flows : g.dl_src = f.dl_src => g = f
  BY DEF DatapathInv, OneUplinkPerStation
<1> QED BY <1>1 DEF AssociatedStationSet

\* What remove() does to the uplink flows: it takes only those whose output
\* begins with the port's digit, and between ports of one digit it takes all
\* that lead to the port.
LEMMA RemoveUplinks ==
  ASSUME DatapathInv, NEW i \in Interfaces, Remove(i)
  PROVE  /\ flows' \subseteq flows
         /\ \A f \in flows : (IsUplink(f) /\ f \notin flows') => FirstDigit(f.output) = ports[i]
         /\ \A f \in flows' : (IsUplink(f) /\ f.in_port < 10 /\ f.output < 10)
                                => f.output # ports[i]
<1>1. flows' \subseteq flows
  BY DEF Remove, RemoveFlows
<1>2. ASSUME NEW f \in flows, IsUplink(f)
      PROVE  /\ f.in_port \in Nat /\ f.output \in Nat
             /\ f.in_port = ports[Ethernet] /\ f.in_port # ports[i]
             /\ f \in flows' <=> f.dl_src \notin AssociatedStationSet(ports[Ethernet], ports[i])
  <2>1. f.in_port = ports[Ethernet] /\ ports[Ethernet] # 0
    BY <1>2 DEF DatapathInv, UplinksFromEthernet
  <2>2. f.in_port # ports[i]
    BY <2>1, DatapathAssumption DEF DatapathInv, PortsDiffer
  <2>3. f.in_port \in Nat /\ f.output \in Nat
    BY FlowType, PortNumbersPositive DEF DatapathInv, DatapathTypeOK
  <2> QED BY <2>1, <2>2, <2>3 DEF Remove, RemoveFlows
<1>3. \A f \in flows : (IsUplink(f) /\ f \notin flows') => FirstDigit(f.output) = ports[i]
  BY <1>2, StationsFound
<1>4. ASSUME NEW f \in flows', IsUplink(f), f.in_port < 10, f.output < 10
      PROVE  f.output # ports[i]
  <2>1. FirstDigit(f.in_port) = f.in_port /\ FirstDigit(f.output) = f.output
    BY <1>1, <1>2, <1>4, FirstDigitOfOne
  <2> QED BY <1>1, <1>2, <1>4, <2>1, StationsFound
<1> QED BY <1>1, <1>3, <1>4

LEMMA RemoveInv ==
  ASSUME DatapathInv, NEW i \in Interfaces, Remove(i), UNCHANGED <<ovs, socket_path>>
  PROVE  DatapathInv'
<1>1. /\ flows' \subseteq flows
      /\ \A f \in flows' : (IsUplink(f) /\ f.in_port < 10 /\ f.output < 10)
                             => f.output # ports[i]
  BY RemoveUplinks
<1>2. /\ ports \in [AllInterfaces -> PortNumbers \cup {0}]
      /\ ports' = [ports EXCEPT ![i] = 0]
      /\ i \in AllInterfaces /\ Ethernet \in AllInterfaces /\ i # Ethernet
  BY DatapathAssumption DEF DatapathInv, DatapathTypeOK, AllInterfaces, Remove
<1>3. /\ ports' \in [AllInterfaces -> PortNumbers \cup {0}]
      /\ \A j \in AllInterfaces : ports'[j] = IF j = i THEN 0 ELSE ports[j]
  BY <1>2
<1>4. DatapathTypeOK' /\ PortsDiffer'
  BY <1>1, <1>3 DEF DatapathInv, DatapathTypeOK, PortsDiffer, AllInterfaces
<1>5. \A f \in flows' : (IsUplink(f) /\ f.in_port < 10 /\ f.output < 10) =>
        \A j \in Interfaces : ports[j] = f.output => ports'[j] = ports[j]
  BY <1>1, <1>3 DEF AllInterfaces
<1> QED BY <1>1, <1>2, <1>3, <1>4, <1>5, FewerUplinks

LEMMA InitInv ==
  ASSUME DatapathInv, InitCreate \/ InitClear \/ ReadSocketPath
  PROVE  DatapathInv'
<1>1. flows' \subseteq flows /\ ports' = ports
  BY DEF InitCreate, InitClear, ReadSocketPath
<1>2. DatapathTypeOK' /\ PortsDiffer'
  BY <1>1 DEF InitCreate, InitClear, ReadSocketPath, DatapathInv, DatapathTypeOK,
              PortsDiffer
<1> QED BY <1>1, <1>2, FewerUplinks

LEMMA UnchangedInv ==
  ASSUME DatapathInv, UNCHANGED datapathVars PROVE DatapathInv'
BY DEF datapathVars, DatapathInv, DatapathTypeOK, PortsDiffer, UplinksFromEthernet,
       OneUplinkPerStation, UplinksLeadToBoundPorts

\* Every step keeps the invariant.
LEMMA DatapathStep ==
  ASSUME DatapathInv, [DatapathNext]_datapathVars
  PROVE  DatapathInv'
<1>1. ASSUME NEW i \in Interfaces, ExecuteCommand(Add(i)) PROVE DatapathInv'
  BY <1>1, AddInv, UnchangedInv DEF ExecuteCommand, datapathVars
<1>2. ASSUME NEW i \in Interfaces, ExecuteCommand(Remove(i)) PROVE DatapathInv'
  BY <1>2, RemoveInv, UnchangedInv DEF ExecuteCommand, datapathVars
<1>3. ASSUME NEW i \in Interfaces, NEW mac \in Stations, ExecuteCommand(Associate(mac, i))
      PROVE  DatapathInv'
  BY <1>3, AssociateInv, UnchangedInv DEF ExecuteCommand, datapathVars
<1>4. ASSUME NEW i \in Interfaces, NEW mac \in Stations, ExecuteCommand(Disassociate(mac, i))
      PROVE  DatapathInv'
  BY <1>4, DisassociateInv, UnchangedInv DEF ExecuteCommand, datapathVars
<1> QED BY <1>1, <1>2, <1>3, <1>4, InitInv, UnchangedInv DEF DatapathNext

-----------------------------------------------------------------------------
(***************************************************************************)
(* The theorems.                                                           *)
(***************************************************************************)

\* DatapathInv is an invariant of the bridge, for any number of interfaces and
\* stations and any sequence of script calls.
THEOREM DatapathInvariant == DatapathSpec => []DatapathInv
<1>1. DatapathInit => DatapathInv
  BY DEF DatapathInit, DatapathInv, DatapathTypeOK, PortsDiffer, UplinksFromEthernet,
         OneUplinkPerStation, UplinksLeadToBoundPorts
<1>2. DatapathInv /\ [DatapathNext]_datapathVars => DatapathInv'
  BY DatapathStep
<1> QED BY <1>1, <1>2, PTL DEF DatapathSpec

\* remove() leaves no uplink flow between ports of one digit that leads to a
\* port without an interface, whatever other numbers the bridge has given out.
THEOREM NoFlowLeftBehind == DatapathSpec => []UplinksLeadToBoundPorts
<1>1. DatapathInv => UplinksLeadToBoundPorts
  BY DEF DatapathInv
<1> QED BY <1>1, DatapathInvariant, PTL

\* A station's traffic has one way to go.
THEOREM OneUplinkAlways == DatapathSpec => []OneUplinkPerStation
<1>1. DatapathInv => OneUplinkPerStation
  BY DEF DatapathInv
<1> QED BY <1>1, DatapathInvariant, PTL

\* remove() takes uplink flows of another interface with it only when the
\* interface's port has one digit, and the other's number begins with it.
THEOREM RemoveIsLocal == DatapathSpec => RemoveKeepsOthers
<1> DEFINE Keeps == \A i \in Interfaces : (ports[i] # 0 /\ ports'[i] = 0) =>
                      \A f \in flows : (IsUplink(f) /\ f \notin flows') => BeginsWith(f.output, ports[i])
<1>1. DatapathInv /\ [DatapathNext]_datapathVars => [Keeps]_datapathVars
  <2> SUFFICES ASSUME DatapathInv, DatapathNext,
                      NEW i \in Interfaces, ports[i] # 0, ports'[i] = 0
               PROVE  \A f \in flows : (IsUplink(f) /\ f \notin flows') => BeginsWith(f.output, ports[i])
    BY DEF datapathVars
  <2>1. ports' # ports
    OBVIOUS
  <2>2. PICK j \in Interfaces : Add(j) \/ Remove(j)
    BY <2>1 DEF DatapathNext, InitCreate, InitClear, ReadSocketPath, ExecuteCommand,
                Associate, Disassociate
  <2>3. ~Add(j)
    <3> SUFFICES ASSUME Add(j) PROVE FALSE
      OBVIOUS
    <3>1. PICK e \in NumberFor(ports, Ethernet) :
            \E v \in NumberFor([ports EXCEPT ![Ethernet] = e], j) :
              ports' = [[ports EXCEPT ![Ethernet] = e] EXCEPT ![j] = v]
      BY Zenon DEF Add
    <3>2. \A k \in AllInterfaces : ports[k] # 0 => ports'[k] = ports[k]
      BY <3>1, AddPorts
    <3> QED BY <3>2 DEF AllInterfaces
  <2>4. Remove(j)
    BY <2>2, <2>3
  <2>5. i = j
    BY <2>4 DEF Remove, DatapathInv, DatapathTypeOK
  <2>6. ASSUME NEW f \in flows, IsUplink(f), f \notin flows' PROVE BeginsWith(f.output, ports[i])
    <3>1. FirstDigit(f.output) = ports[i]
      BY <2>4, <2>5, <2>6, RemoveUplinks
    <3>2. f.output \in PortNumbers
      BY FlowType DEF DatapathInv, DatapathTypeOK
    <3>3. f.output \in 1..999
      BY <3>2, PortNumbersBelow1000
    <3>4. ports[i] \in Nat
      BY PortNumbersPositive DEF DatapathInv, DatapathTypeOK
    <3>5. PICK v \in Nat : v = ports[i]
      BY <3>4
    <3>6. BeginsWith(f.output, v)
      BY <3>1, <3>3, <3>5, FirstDigitIs
    <3> QED BY <3>5, <3>6
  <2> QED BY <2>6
<1> QED BY <1>1, DatapathInvariant, PTL DEF DatapathSpec, RemoveKeepsOthers

-----------------------------------------------------------------------------
(***************************************************************************)
(* Lemmas about commands and the queue.                                    *)
(***************************************************************************)
LEMMA CommandType ==
  ASSUME NEW c \in Commands
  PROVE  /\ c.i \in Interfaces
         /\ c.name \in {"radio_set", "delete", "associate", "disassociate"}
         /\ c.name \in {"associate", "disassociate"} => c.mac \in Stations
BY DEF Commands

LEMMA CommandOf ==
  ASSUME NEW i \in Interfaces
  PROVE  /\ \A n \in {"radio_set", "delete"} : Command(n, i, NoStation) \in Commands
         /\ \A n \in {"associate", "disassociate"}, s \in Stations :
              Command(n, i, s) \in Commands
BY DEF Commands, Command

\* The command at the front, and what is left when it is done.
LEMMA FrontType ==
  ASSUME command_queue \in Seq(Commands), command_queue # <<>>
  PROVE  Front \in Commands /\ Tail(command_queue) \in Seq(Commands)
BY DEF Front

\* A command that is queued does not change the front.
LEMMA FrontStays ==
  ASSUME command_queue \in Seq(Commands), NEW c \in Commands,
         command_queue' = Append(command_queue, c)
  PROVE  /\ command_queue' \in Seq(Commands) /\ command_queue' # <<>>
         /\ command_queue # <<>> => Front' = Front
BY DEF Front

LEMMA TypesUnfolded ==
  ASSUME AgentTypeOK
  PROVE  /\ walk.pc \in {"sleep", "ask", "diff", "queue"}
         /\ walk.at \in Interfaces \cup {0}
         /\ walk.output \subseteq Stations
         /\ walk.todo \in Seq(Commands)
         /\ walk.valid \in BOOLEAN
         /\ parser.pc \in ParserPlaces /\ parser.todo \subseteq Stations
BY DEF AgentTypeOK, WalkStates

-----------------------------------------------------------------------------
(***************************************************************************)
(* Steps of the surroundings.                                              *)
(***************************************************************************)
LEMMA HostapdInv == ASSUME DpmInv, HostapdChange PROVE DpmInv'
<1>1. PICK s \in Stations, i \in Interfaces :
       \/ /\ s \notin hostapd[i]
          /\ hostapd' = [hostapd EXCEPT ![i] = @ \cup {s}]
          /\ joined' = [joined EXCEPT ![s] = @ \cup {i}]
       \/ /\ s \in hostapd[i]
          /\ hostapd' = [hostapd EXCEPT ![i] = @ \ {s}]
          /\ UNCHANGED joined
  BY DEF HostapdChange
<1>2. hostapd' \in [Interfaces -> SUBSET Stations] /\ joined' \in [Stations -> SUBSET Interfaces]
  <2>1. hostapd \in [Interfaces -> SUBSET Stations] /\ joined \in [Stations -> SUBSET Interfaces]
    BY DEF DpmInv, AgentTypeOK
  <2>2. hostapd' \in [Interfaces -> SUBSET Stations]
    BY <1>1, <2>1
  <2>3. joined' \in [Stations -> SUBSET Interfaces]
    BY <1>1, <2>1
  <2> QED BY <2>2, <2>3
<1>3. changes' \in 0..MaxChanges
  BY DpmAssumption DEF HostapdChange, DpmInv, AgentTypeOK
<1>4. UNCHANGED <<interface_mac, interface_bssid, walk, command_queue, commands, parser,
                  bssid_list, warp_macs, late, apart, failed,
            misspelt, unnamed, removed, early, status>>
  BY DEF HostapdChange, bridgeVars, dpmVars, queueVars, warpSide
<1>5. AgentTypeOK'
  BY <1>2, <1>3, <1>4 DEF DpmInv, AgentTypeOK
<1> QED
  BY <1>4, <1>5 DEF DpmInv, MapsInStep, ParserAtWork, MapsFollowParser, WalkOnMap,
       InterfacesFollowWarp, ExceptionOnlyAfter, Known, Front, Pending

LEMMA ManagerInv == ASSUME DpmInv, ManagerCommand PROVE DpmInv'
<1>1. PICK c \in Commands : command_queue' = Append(command_queue, c)
  BY CommandOf DEF ManagerCommand
<1>2. command_queue \in Seq(Commands)
  BY DEF DpmInv, AgentTypeOK
<1>3. /\ command_queue' \in Seq(Commands) /\ command_queue' # <<>>
      /\ command_queue # <<>> => Front' = Front
  BY <1>1, <1>2, FrontStays
<1>4. commands' \in 0..MaxCommands
  BY DpmAssumption DEF ManagerCommand, DpmInv, AgentTypeOK
<1>5. UNCHANGED <<interface_mac, interface_bssid, walk, hostapd, changes, parser,
                  joined, bssid_list, warp_macs, late, apart, failed,
            misspelt, unnamed, removed, early, status>>
  BY DEF ManagerCommand, bridgeVars, dpmVars, walkVars, hostapdVars, warpSide
<1>6. AgentTypeOK'
  BY <1>3, <1>4, <1>5 DEF DpmInv, AgentTypeOK
<1> QED
  BY <1>3, <1>5, <1>6 DEF DpmInv, MapsInStep, ParserAtWork, MapsFollowParser, WalkOnMap,
       InterfacesFollowWarp, ExceptionOnlyAfter, Known, Pending

-----------------------------------------------------------------------------
(***************************************************************************)
(* Steps of timed_check.                                                   *)
(***************************************************************************)

\* A step that changes the walk alone: the walk stays on the map.
LEMMA WalkOnly ==
  ASSUME DpmInv, walk' \in WalkStates, WalkOnMap', walk'.valid = walk.valid,
         UNCHANGED <<interface_mac, interface_bssid, hostapd, command_queue, commands,
                     changes, parser, joined, bssid_list, warp_macs, late, apart, failed,
            misspelt, unnamed,
                     removed, early, status>>
  PROVE  DpmInv'
<1>1. AgentTypeOK'
  BY DEF DpmInv, AgentTypeOK
<1> QED
  BY <1>1 DEF DpmInv, MapsInStep, ParserAtWork, MapsFollowParser,
       InterfacesFollowWarp, ExceptionOnlyAfter, Known, Front, Pending

\* Wherever the iterator goes, it is on the map.
LEMMA WalkToFacts ==
  ASSUME DpmInv, NEW keys \in SUBSET Known, WalkTo(keys)
  PROVE  /\ walk' \in WalkStates
         /\ walk'.valid = walk.valid
         /\ walk'.pc # "sleep" => walk'.at \in keys
<1>1. walk \in WalkStates /\ keys \subseteq Interfaces
  BY DEF DpmInv, AgentTypeOK, Known
<1>2. CASE walk' = [walk EXCEPT !.pc = "sleep", !.at = 0, !.output = {}]
  BY <1>1, <1>2 DEF WalkStates
<1>3. ASSUME NEW i \in keys, walk' = [walk EXCEPT !.pc = "ask", !.at = i, !.output = {}]
      PROVE  /\ walk' \in WalkStates
             /\ walk'.valid = walk.valid
             /\ walk'.pc # "sleep" => walk'.at \in keys
  BY <1>1, <1>3 DEF WalkStates
<1> QED BY <1>2, <1>3 DEF WalkTo

LEMMA WalkBeginInv == ASSUME DpmInv, WalkBegin PROVE DpmInv'
<1>1. /\ walk' \in WalkStates
      /\ walk'.valid = walk.valid
      /\ walk'.pc # "sleep" => walk'.at \in Known
  BY WalkToFacts DEF WalkBegin, Known
<1>2. UNCHANGED <<interface_mac, interface_bssid, hostapd, command_queue, commands,
                  changes, parser, joined, bssid_list, warp_macs, late, apart, failed,
            misspelt, unnamed,
                  removed, early, status>>
  BY DEF WalkBegin, bridgeVars, dpmVars, hostapdVars, queueVars, warpSide
<1>3. WalkOnMap'
  BY <1>1, <1>2 DEF WalkOnMap, Known, DpmInv, AgentTypeOK
<1> QED BY <1>1, <1>2, <1>3, WalkOnly

LEMMA AllStationsInv == ASSUME DpmInv, AllStations PROVE DpmInv'
<1>1. /\ walk \in WalkStates /\ hostapd \in [Interfaces -> SUBSET Stations]
      /\ walk.at \in Interfaces /\ walk.pc = "ask"
      /\ walk' = [walk EXCEPT !.pc = "diff", !.output = hostapd[walk.at]]
  BY DEF DpmInv, AgentTypeOK, WalkOnMap, AllStations
<1>2. hostapd[walk.at] \in SUBSET Stations
  BY <1>1
<1>3. /\ walk' \in WalkStates /\ walk'.valid = walk.valid /\ walk'.at = walk.at
  BY <1>1, <1>2 DEF WalkStates
<1>4. UNCHANGED <<interface_mac, interface_bssid, hostapd, command_queue, commands,
                  changes, parser, joined, bssid_list, warp_macs, late, apart, failed,
            misspelt, unnamed,
                  removed, early, status>>
  BY DEF AllStations, bridgeVars, dpmVars, hostapdVars, queueVars, warpSide
<1>5. WalkOnMap'
  BY <1>1, <1>3, <1>4 DEF WalkOnMap, Known, DpmInv
<1> QED BY <1>3, <1>4, <1>5, WalkOnly

\* A walk whose element is gone changes nothing but the status.
LEMMA UndefinedInv == ASSUME DpmInv, Undefined PROVE DpmInv'
<1>1. /\ status' = "undefined"
      /\ UNCHANGED <<interface_mac, interface_bssid, walk, hostapd, command_queue, commands,
                     changes, parser, joined, bssid_list, warp_macs, late, apart, failed,
            misspelt, unnamed,
                     removed, early>>
  BY DEF Undefined, bridgeVars, dpmVars, walkVars, hostapdVars, queueVars, warpSide
<1>2. AgentTypeOK'
  BY <1>1 DEF DpmInv, AgentTypeOK
<1> QED
  BY <1>1, <1>2 DEF DpmInv, MapsInStep, ParserAtWork, MapsFollowParser, WalkOnMap,
       InterfacesFollowWarp, ExceptionOnlyAfter, Known, Front, Pending

\* An order of some stations is a finite sequence of them.
LEMMA OrderType ==
  ASSUME NEW S \in SUBSET Stations, NEW o \in Orders(S)
  PROVE  Len(o) \in Nat /\ \A k \in 1..Len(o) : o[k] \in Stations
<1>1. Cardinality(S) \in Nat
  BY DpmAssumption, FS_Subset, FS_CardinalityType
<1>2. o \in [1..Cardinality(S) -> S]
  BY DEF Orders
<1>3. o \in Seq(S) /\ Len(o) = Cardinality(S)
  BY <1>1, <1>2
<1> QED BY <1>1, <1>2, <1>3

LEMMA DifferenceInv == ASSUME DpmInv, Difference PROVE DpmInv'
<1>1. CASE Undefined
  BY <1>1, UndefinedInv
<1>2. CASE ~Undefined
  <2> DEFINE known == interface_mac[walk.at]
  <2>0. /\ walk.valid /\ walk.pc = "diff"
        /\ \E come \in Orders(walk.output \ known), go \in Orders(known \ walk.output) :
             walk' = [walk EXCEPT !.pc = "queue",
                        !.todo = [k \in 1..(Len(come) + Len(go)) |->
                                    IF k <= Len(come)
                                    THEN Command("associate", walk.at, come[k])
                                    ELSE Command("disassociate", walk.at, go[k - Len(come)])]]
        /\ UNCHANGED <<interface_mac, interface_bssid, hostapd, command_queue, commands,
                       changes, parser, joined, bssid_list, warp_macs, late, apart, failed,
            misspelt, unnamed,
                       removed, early, status>>
    BY <1>2 DEF Difference, bridgeVars, dpmVars, hostapdVars, queueVars, warpSide
  <2>1. /\ walk \in WalkStates /\ walk.at \in Interfaces /\ walk.at \in Known
        /\ walk.output \subseteq Stations /\ known \subseteq Stations
    BY <2>0, TypesUnfolded DEF DpmInv, AgentTypeOK, WalkOnMap, Known
  <2>2. PICK come \in Orders(walk.output \ known), go \in Orders(known \ walk.output) :
             walk' = [walk EXCEPT !.pc = "queue",
                        !.todo = [k \in 1..(Len(come) + Len(go)) |->
                                    IF k <= Len(come)
                                    THEN Command("associate", walk.at, come[k])
                                    ELSE Command("disassociate", walk.at, go[k - Len(come)])]]
    BY <2>0
  <2>3. /\ Len(come) \in Nat /\ \A k \in 1..Len(come) : come[k] \in Stations
        /\ Len(go) \in Nat /\ \A k \in 1..Len(go) : go[k] \in Stations
    BY <2>1, OrderType
  <2> DEFINE todo == [k \in 1..(Len(come) + Len(go)) |->
                        IF k <= Len(come)
                        THEN Command("associate", walk.at, come[k])
                        ELSE Command("disassociate", walk.at, go[k - Len(come)])]
  <2>4. todo \in Seq(Commands)
    <3>1. \A k \in 1..(Len(come) + Len(go)) : todo[k] \in Commands
      BY <2>1, <2>3, CommandOf
    <3> QED BY <2>3, <3>1
  <2> HIDE DEF todo, known
  <2>5. walk' = [walk EXCEPT !.pc = "queue", !.todo = todo]
    BY <2>2 DEF todo
  <2>6. walk' \in WalkStates /\ walk'.valid = walk.valid /\ walk'.at = walk.at
    BY <2>1, <2>4, <2>5 DEF WalkStates
  <2>7. WalkOnMap'
    BY <2>0, <2>1, <2>6 DEF WalkOnMap, Known
  <2> QED BY <2>0, <2>6, <2>7, WalkOnly
<1> QED BY <1>1, <1>2

LEMMA QueueCommandInv == ASSUME DpmInv, QueueCommand PROVE DpmInv'
<1>0. /\ walk.pc = "queue" /\ walk.todo # <<>> /\ status = "running"
      /\ UNCHANGED <<interface_mac, interface_bssid, hostapd, commands, changes, parser,
                     joined, bssid_list, warp_macs, late, apart, failed,
            misspelt, unnamed, removed, early>>
  BY DEF QueueCommand, bridgeVars, dpmVars, hostapdVars, warpSide
<1>1. CASE walk.at \notin interface_bssid
  <2>1. status' = "terminated" /\ UNCHANGED <<walk, command_queue>>
    BY <1>1 DEF QueueCommand
  <2>2. ~walk.valid
    BY <1>0, <1>1 DEF DpmInv, WalkOnMap, MapsInStep
  <2>3. AgentTypeOK'
    BY <1>0, <2>1 DEF DpmInv, AgentTypeOK
  <2> QED
    BY <1>0, <2>1, <2>2, <2>3 DEF DpmInv, MapsInStep, ParserAtWork, MapsFollowParser,
         WalkOnMap, InterfacesFollowWarp, ExceptionOnlyAfter, Known, Front, Pending
<1>2. CASE walk.at \in interface_bssid
  <2>1. /\ command_queue' = Append(command_queue, Head(walk.todo))
        /\ walk' = [walk EXCEPT !.todo = Tail(walk.todo)]
        /\ status' = status
    BY <1>2 DEF QueueCommand
  <2>2. Head(walk.todo) \in Commands /\ Tail(walk.todo) \in Seq(Commands)
    BY <1>0, TypesUnfolded DEF DpmInv
  <2>3. /\ command_queue' \in Seq(Commands) /\ command_queue' # <<>>
        /\ command_queue # <<>> => Front' = Front
    BY <2>1, <2>2, FrontStays DEF DpmInv, AgentTypeOK
  <2>4. walk' \in WalkStates /\ UNCHANGED <<walk.valid, walk.at, walk.pc>>
    BY <2>1, <2>2 DEF WalkStates, DpmInv, AgentTypeOK
  <2>5. AgentTypeOK'
    BY <1>0, <2>1, <2>3, <2>4 DEF DpmInv, AgentTypeOK
  <2> QED
    BY <1>0, <2>1, <2>3, <2>4, <2>5 DEF DpmInv, MapsInStep, ParserAtWork, MapsFollowParser,
         WalkOnMap, InterfacesFollowWarp, ExceptionOnlyAfter, Known, Pending
<1> QED BY <1>1, <1>2

LEMMA RecordInv == ASSUME DpmInv, Record PROVE DpmInv'
<1>1. CASE Undefined
  BY <1>1, UndefinedInv
<1>2. CASE ~Undefined
  <2>1. /\ walk.valid /\ walk.pc = "queue"
        /\ interface_mac' = [interface_mac EXCEPT ![walk.at] = walk.output]
        /\ WalkTo(Ahead)
        /\ status' \in {"running", "undefined"}
        /\ UNCHANGED <<interface_bssid, hostapd, command_queue, commands, changes, parser,
                       joined, bssid_list, warp_macs, late, apart, failed,
            misspelt, unnamed, removed, early>>
    BY <1>2 DEF Record, bridgeVars, hostapdVars, queueVars, warpSide
  <2>2. /\ interface_mac' \in [Known -> SUBSET Stations] /\ Known' = Known
        /\ Known \subseteq Interfaces
    BY <2>1, TypesUnfolded DEF DpmInv, AgentTypeOK, Known
  <2>3. /\ walk' \in WalkStates
        /\ walk'.valid = walk.valid
        /\ walk'.pc # "sleep" => walk'.at \in Ahead
    BY <2>1, WalkToFacts DEF Ahead, Known
  <2>4. AgentTypeOK'
    BY <2>1, <2>2, <2>3 DEF DpmInv, AgentTypeOK, Known
  <2>5. WalkOnMap'
    BY <2>2, <2>3 DEF WalkOnMap, Ahead, Known
  <2> QED
    BY <2>1, <2>2, <2>3, <2>4, <2>5 DEF DpmInv, MapsInStep, ParserAtWork, MapsFollowParser,
         InterfacesFollowWarp, ExceptionOnlyAfter, Front, Pending
<1> QED BY <1>1, <1>2

-----------------------------------------------------------------------------
(***************************************************************************)
(* Steps of the parsing thread.                                            *)
(***************************************************************************)

\* A step that moves the parsing thread on and changes neither the maps nor
\* the queue nor WARP.
LEMMA ParserOnly ==
  ASSUME DpmInv, parser' \in [pc : ParserPlaces, todo : SUBSET Stations],
         bssid_list' \in Seq(Interfaces), early' \in BOOLEAN, misspelt' \subseteq Interfaces,
         UNCHANGED <<interface_mac, interface_bssid, walk, hostapd, command_queue, commands,
                     changes, joined, warp_macs, late, apart, failed,
            unnamed, removed, status>>,
         ParserAtWork', MapsFollowParser', InterfacesFollowWarp'
  PROVE  DpmInv'
<1>1. AgentTypeOK'
  BY DEF DpmInv, AgentTypeOK
<1> QED
  BY <1>1 DEF DpmInv, MapsInStep, WalkOnMap, ExceptionOnlyAfter, Known

\* A command that is done leaves the queue; WARP and the maps agree again.
LEMMA DoneInv ==
  ASSUME DpmInv, Done, command_queue # <<>>, early' \in BOOLEAN,
         warp_macs' \subseteq Interfaces, apart' \subseteq Interfaces, late' \in BOOLEAN,
         failed' \subseteq Stations, status = "running",
         UNCHANGED <<interface_mac, interface_bssid, walk, hostapd, commands, changes,
                     joined, bssid_list, misspelt, unnamed, removed, status>>,
         apart' = {} => warp_macs' = Known
  PROVE  DpmInv'
<1>1. command_queue' \in Seq(Commands)
  BY FrontType DEF Done, DpmInv, AgentTypeOK
<1>2. parser' \in [pc : ParserPlaces, todo : SUBSET Stations] /\ parser'.pc = "idle"
  BY DEF Done, ParserPlaces
<1>3. AgentTypeOK'
  BY <1>1, <1>2 DEF DpmInv, AgentTypeOK
<1>4. InterfacesFollowWarp'
  BY <1>2 DEF InterfacesFollowWarp, Pending, Known
<1> QED
  BY <1>2, <1>3, <1>4 DEF DpmInv, MapsInStep, ParserAtWork, MapsFollowParser, WalkOnMap,
       ExceptionOnlyAfter, Known

\* What a step of the parsing thread finds.
LEMMA AtWork ==
  ASSUME DpmInv, command_queue # <<>>
  PROVE  /\ Front \in Commands /\ Front.i \in Interfaces
         /\ Front.name \in {"radio_set", "delete", "associate", "disassociate"}
         /\ Front.name \in {"associate", "disassociate"} => Front.mac \in Stations
BY FrontType, CommandType DEF DpmInv, AgentTypeOK

\* All requests of the command are confirmed.
LEMMA GoOnInv ==
  ASSUME DpmInv, GoOn, command_queue # <<>>, parser.pc = "idle",
         warp_macs' \subseteq Interfaces,
         UNCHANGED <<interface_mac, interface_bssid, walk, hostapd, commands, changes, early,
                     joined, bssid_list, misspelt, unnamed, removed, status>>,
         \/ Front.name = "radio_set" /\ warp_macs' = warp_macs \cup {Front.i}
         \/ Front.name = "delete" /\ Front.i \in warp_macs /\ warp_macs' = warp_macs \ {Front.i}
         \/ Front.name \in {"associate", "disassociate"} /\ warp_macs' = warp_macs
  PROVE  DpmInv'
<1>1. parser' \in [pc : ParserPlaces, todo : SUBSET Stations] /\ parser'.pc = "mon"
  BY DEF GoOn, ParserPlaces, DpmInv, AgentTypeOK
<1>2. Front' = Front /\ UNCHANGED <<command_queue, late, apart, failed>> /\ Known' = Known
  BY DEF GoOn, Front, Known
<1>3. AgentTypeOK'
  BY <1>1, <1>2 DEF DpmInv, AgentTypeOK
<1>4. apart = {} => warp_macs = Known
  BY DEF DpmInv, InterfacesFollowWarp, Pending
<1>5. InterfacesFollowWarp'
  BY <1>1, <1>2, <1>4 DEF InterfacesFollowWarp, Pending
<1> QED
  BY <1>1, <1>2, <1>3, <1>5 DEF DpmInv, MapsInStep, ParserAtWork, MapsFollowParser,
       WalkOnMap, ExceptionOnlyAfter

\* An earlier request's reply is taken for this one's.
LEMMA GoOnStaleInv ==
  ASSUME DpmInv, GoOnStale, command_queue # <<>>, parser.pc = "idle", Front.i \in Interfaces,
         UNCHANGED <<interface_mac, interface_bssid, walk, hostapd, commands, changes, early,
                     joined, bssid_list, misspelt, unnamed, removed, status>>
  PROVE  DpmInv'
<1>1. parser' \in [pc : ParserPlaces, todo : SUBSET Stations] /\ parser'.pc = "mon"
  BY DEF GoOnStale, ParserPlaces, DpmInv, AgentTypeOK
<1>2. /\ Front' = Front /\ UNCHANGED <<command_queue, warp_macs, late, failed>>
      /\ Known' = Known /\ apart' = apart \cup {Front.i} /\ apart' # {}
  BY DEF GoOnStale, Front, Known
<1>3. AgentTypeOK'
  BY <1>1, <1>2 DEF DpmInv, AgentTypeOK
<1>4. InterfacesFollowWarp'
  BY <1>2 DEF InterfacesFollowWarp
<1> QED
  BY <1>1, <1>2, <1>3, <1>4 DEF DpmInv, MapsInStep, ParserAtWork, MapsFollowParser,
       WalkOnMap, ExceptionOnlyAfter

LEMMA ParseCommandInv == ASSUME DpmInv, ParseCommand PROVE DpmInv'
<1>0. /\ status = "running" /\ parser.pc = "idle" /\ command_queue # <<>>
      /\ UNCHANGED <<interface_mac, interface_bssid, walk, hostapd, commands, changes, early,
                     joined, bssid_list, misspelt, unnamed, removed, status>>
  BY DEF ParseCommand, bridgeVars, dpmVars, walkVars, hostapdVars
<1>1. /\ Front.i \in Interfaces
      /\ Front.name \in {"associate", "disassociate"} => Front.mac \in Stations
      /\ warp_macs \subseteq Interfaces /\ apart \subseteq Interfaces
      /\ failed \subseteq Stations /\ early \in BOOLEAN /\ late \in BOOLEAN
  BY <1>0, AtWork DEF DpmInv, AgentTypeOK
<1>2. apart = {} => warp_macs = Known
  BY <1>0 DEF DpmInv, InterfacesFollowWarp, Pending
<1>3. ASSUME GiveUp, UNCHANGED warp_macs PROVE DpmInv'
  BY <1>0, <1>1, <1>2, <1>3, DoneInv DEF GiveUp
<1>4. ASSUME GiveUpHalfDone, warp_macs' \subseteq Interfaces PROVE DpmInv'
  BY <1>0, <1>1, <1>4, DoneInv DEF GiveUpHalfDone
<1>8. ASSUME GoOnStale PROVE DpmInv'
  BY <1>0, <1>1, <1>8, GoOnStaleInv
<1>5. ASSUME RadioSet PROVE DpmInv'
  <2>1. ASSUME warp_macs' = warp_macs \cup {Front.i}, GoOn PROVE DpmInv'
    BY <1>0, <1>1, <1>5, <2>1, GoOnInv DEF RadioSet
  <2> QED BY <1>1, <1>3, <1>4, <1>5, <1>8, <2>1 DEF RadioSet
<1>6. ASSUME Delete PROVE DpmInv'
  <2>1. ASSUME Front.i \in warp_macs, warp_macs' = warp_macs \ {Front.i}, GoOn PROVE DpmInv'
    BY <1>0, <1>1, <1>6, <2>1, GoOnInv DEF Delete
  <2> QED BY <1>1, <1>3, <1>4, <1>6, <1>8, <2>1 DEF Delete
<1>7. ASSUME StationCommand PROVE DpmInv'
  <2>1. CASE GoOn
    BY <1>0, <1>1, <1>7, <2>1, GoOnInv DEF StationCommand
  <2>2. CASE Done /\ failed' = failed \cup {Front.mac} /\ UNCHANGED <<late, apart>>
    BY <1>0, <1>1, <1>2, <1>7, <2>2, DoneInv DEF StationCommand
  <2> QED BY <1>7, <2>1, <2>2 DEF StationCommand
<1> QED BY <1>5, <1>6, <1>7 DEF ParseCommand

LEMMA MonSyncInv == ASSUME DpmInv, MonSync PROVE DpmInv'
<1>1. /\ parser.pc = "mon" /\ command_queue # <<>>
      /\ parser' = [parser EXCEPT !.pc = "dpm"]
      /\ UNCHANGED <<interface_mac, interface_bssid, walk, hostapd, command_queue, commands,
                     changes, joined, warp_macs, late, apart, failed,
            unnamed, removed, early, status>>
  BY DEF MonSync, bridgeVars, dpmVars, walkVars, hostapdVars, queueVars, warpSide, DpmInv,
         ParserAtWork
<1>2. /\ parser' \in [pc : ParserPlaces, todo : SUBSET Stations] /\ parser'.pc = "dpm"
      /\ early' \in BOOLEAN
  BY <1>1 DEF ParserPlaces, DpmInv, AgentTypeOK
<1>3. bssid_list' \in Seq(Interfaces)
  <2>1. bssid_list \in Seq(Interfaces) /\ Front.i \in Interfaces
    BY <1>1, AtWork DEF DpmInv, AgentTypeOK
  <2>2. CASE bssid_list' = Append(bssid_list, Front.i) \/ bssid_list' = bssid_list
    BY <2>1, <2>2
  <2>3. ASSUME NEW k \in DOMAIN bssid_list,
               bssid_list' = SubSeq(bssid_list, 1, k - 1)
                             \o SubSeq(bssid_list, k + 1, Len(bssid_list))
        PROVE  bssid_list' \in Seq(Interfaces)
    <3>1. /\ SubSeq(bssid_list, 1, k - 1) \in Seq(Interfaces)
          /\ SubSeq(bssid_list, k + 1, Len(bssid_list)) \in Seq(Interfaces)
      BY <2>1
    <3> QED BY <2>3, <3>1
  <2> QED BY <2>2, <2>3 DEF MonSync
<1>6. misspelt' \subseteq Interfaces
  BY <1>1, AtWork DEF MonSync, DpmInv, AgentTypeOK
<1>4. Front' = Front /\ Known' = Known
  BY <1>1 DEF Front, Known
<1>5. InterfacesFollowWarp'
  BY <1>1, <1>2, <1>4 DEF InterfacesFollowWarp, Pending, DpmInv
<1> QED
  BY <1>1, <1>2, <1>3, <1>4, <1>5, <1>6, ParserOnly DEF ParserAtWork, MapsFollowParser

LEMMA AddBssidInv == ASSUME DpmInv, AddBssid PROVE DpmInv'
<1>1. /\ parser.pc = "dpm" /\ Front.name = "radio_set" /\ command_queue # <<>>
      /\ interface_bssid' = interface_bssid \cup {Front.i}
      /\ parser' = [parser EXCEPT !.pc = "insert"]
      /\ UNCHANGED <<interface_mac, walk, hostapd, command_queue, commands, changes, joined,
                     bssid_list, warp_macs, late, apart, failed,
            misspelt, unnamed, removed, early, status>>
  BY DEF AddBssid, bridgeVars, walkVars, hostapdVars, queueVars, warpSide, DpmInv,
         ParserAtWork
<1>2. parser' \in [pc : ParserPlaces, todo : SUBSET Stations] /\ parser'.pc = "insert"
  BY <1>1 DEF ParserPlaces, DpmInv, AgentTypeOK
<1>3. Front' = Front /\ Known' = Known /\ Front.i \in Interfaces
  BY <1>1, AtWork DEF Front, Known
<1>4. AgentTypeOK'
  BY <1>1, <1>2, <1>3 DEF DpmInv, AgentTypeOK
<1> QED
  BY <1>1, <1>2, <1>3, <1>4 DEF DpmInv, MapsInStep, ParserAtWork, MapsFollowParser,
       WalkOnMap, InterfacesFollowWarp, ExceptionOnlyAfter, Pending

LEMMA InsertInterfaceInv == ASSUME DpmInv, InsertInterface PROVE DpmInv'
<1>1. /\ parser.pc = "insert" /\ Front.name = "radio_set" /\ command_queue # <<>>
      /\ Front.i \in interface_bssid
      /\ interface_mac' = [j \in DOMAIN interface_mac \cup {Front.i} |->
                             IF j \in DOMAIN interface_mac THEN interface_mac[j] ELSE {}]
      /\ parser' = [parser EXCEPT !.pc = "add"]
      /\ UNCHANGED <<interface_bssid, walk, hostapd, command_queue, commands, changes, joined,
                     bssid_list, warp_macs, late, apart, failed,
            misspelt, unnamed, removed, early, status>>
  BY DEF InsertInterface, bridgeVars, walkVars, hostapdVars, queueVars, warpSide, DpmInv,
         ParserAtWork, MapsFollowParser
<1>2. parser' \in [pc : ParserPlaces, todo : SUBSET Stations] /\ parser'.pc = "add"
  BY <1>1 DEF ParserPlaces, DpmInv, AgentTypeOK
<1>3. Front' = Front /\ Known' = Known \cup {Front.i} /\ Front.i \in Interfaces
  BY <1>1, AtWork DEF Front, Known
<1>4. interface_mac' \in [Known' -> SUBSET Stations] /\ Known' \subseteq Interfaces
  BY <1>1, <1>3 DEF DpmInv, AgentTypeOK, Known
<1>5. AgentTypeOK'
  BY <1>1, <1>2, <1>4 DEF DpmInv, AgentTypeOK, Known
<1> QED
  BY <1>1, <1>2, <1>3, <1>5 DEF DpmInv, MapsInStep, ParserAtWork, MapsFollowParser,
       WalkOnMap, InterfacesFollowWarp, ExceptionOnlyAfter, Pending

\* Commands that end with a run of the script.
LEMMA ScriptInv == ASSUME DpmInv, AddPort \/ RemovePort \/ DpmStation PROVE DpmInv'
<1>1. /\ parser.pc # "idle" /\ Done /\ command_queue # <<>> /\ status = "running"
      /\ early' \in BOOLEAN
      /\ UNCHANGED <<interface_mac, interface_bssid, walk, hostapd, commands, changes, joined,
                     bssid_list, warp_macs, late, apart, failed,
            misspelt, unnamed, removed, status>>
  BY DEF AddPort, RemovePort, DpmStation, Script, InitThrough, dpmVars, walkVars, hostapdVars, warpSide,
         DpmInv, AgentTypeOK, ParserAtWork
<1>2. /\ parser.pc \in {"add", "remove", "dpm"}
      /\ parser.pc = "dpm" => Front.name \in {"associate", "disassociate"}
  BY DEF AddPort, RemovePort, DpmStation
<1>3. apart = {} => warp_macs = Known
  BY <1>2 DEF DpmInv, InterfacesFollowWarp, Pending
<1> QED
  BY <1>1, <1>3, DoneInv DEF DpmInv, AgentTypeOK

LEMMA RemoveBeginInv == ASSUME DpmInv, RemoveBegin PROVE DpmInv'
<1>1. /\ parser.pc = "dpm" /\ Front.name = "delete" /\ command_queue # <<>>
      /\ UNCHANGED <<interface_mac, interface_bssid, walk, hostapd, command_queue, commands,
                     changes, joined, bssid_list, warp_macs, late, apart, failed,
            misspelt, removed, early>>
  BY DEF RemoveBegin, bridgeVars, dpmVars, walkVars, hostapdVars, queueVars, warpSide, DpmInv,
         ParserAtWork
<1>2. Front' = Front /\ Known' = Known
  BY <1>1 DEF Front, Known
<1>3. CASE status' = "terminated"
  <2>1. parser' = parser /\ unnamed' \in BOOLEAN /\ (unnamed => unnamed')
    BY <1>3 DEF RemoveBegin, DpmInv, AgentTypeOK
  <2>2. apart # {} \/ unnamed'
    BY <1>1, <1>3 DEF RemoveBegin, DpmInv, InterfacesFollowWarp, Pending, Known
  <2>3. AgentTypeOK'
    BY <1>1, <1>3, <2>1 DEF DpmInv, AgentTypeOK
  <2> QED
    BY <1>1, <1>2, <1>3, <2>1, <2>2, <2>3 DEF DpmInv, MapsInStep, ParserAtWork,
         MapsFollowParser, WalkOnMap, InterfacesFollowWarp, ExceptionOnlyAfter, Pending
<1>4. CASE status' # "terminated"
  <2>1. /\ parser' = [pc |-> "disassociating", todo |-> interface_mac[Front.i]]
        /\ UNCHANGED <<status, unnamed>> /\ Front.i \in Known
    BY <1>4 DEF RemoveBegin, Known
  <2>2. interface_mac[Front.i] \in SUBSET Stations
    BY <2>1 DEF DpmInv, AgentTypeOK, Known
  <2>3. parser' \in [pc : ParserPlaces, todo : SUBSET Stations]
        /\ parser'.pc = "disassociating"
    BY <2>1, <2>2 DEF ParserPlaces
  <2>4. bssid_list' \in Seq(Interfaces) /\ early' \in BOOLEAN /\ misspelt' \subseteq Interfaces
    BY <1>1 DEF DpmInv, AgentTypeOK
  <2>5. ParserAtWork' /\ MapsFollowParser' /\ InterfacesFollowWarp'
    BY <1>1, <1>2, <2>3 DEF ParserAtWork, MapsFollowParser, InterfacesFollowWarp, Pending,
       DpmInv
  <2> QED BY <1>1, <2>1, <2>3, <2>4, <2>5, ParserOnly
<1> QED BY <1>3, <1>4

LEMMA DisassociateStationInv == ASSUME DpmInv, DisassociateStation PROVE DpmInv'
<1>1. PICK s \in parser.todo : parser' = [parser EXCEPT !.todo = @ \ {s}] /\ early' \in BOOLEAN
  BY DEF DisassociateStation, Script, InitThrough, DpmInv, AgentTypeOK
<1>2. /\ parser.pc = "disassociating" /\ Front.name = "delete" /\ command_queue # <<>>
      /\ UNCHANGED <<interface_mac, interface_bssid, walk, hostapd, command_queue, commands,
                     changes, joined, bssid_list, warp_macs, late, apart, failed,
            misspelt, unnamed, removed, status>>
  BY DEF DisassociateStation, dpmVars, walkVars, hostapdVars, queueVars, warpSide, DpmInv,
         ParserAtWork
<1>3. parser' \in [pc : ParserPlaces, todo : SUBSET Stations] /\ parser'.pc = "disassociating"
  BY <1>1, <1>2 DEF DpmInv, AgentTypeOK
<1>4. bssid_list' \in Seq(Interfaces) /\ misspelt' \subseteq Interfaces /\ Front' = Front /\ Known' = Known
  BY <1>2 DEF DpmInv, AgentTypeOK, Front, Known
<1>5. ParserAtWork' /\ MapsFollowParser' /\ InterfacesFollowWarp'
  BY <1>2, <1>3, <1>4 DEF ParserAtWork, MapsFollowParser, InterfacesFollowWarp, Pending, DpmInv
<1> QED BY <1>1, <1>2, <1>3, <1>4, <1>5, ParserOnly

LEMMA EraseInterfaceInv == ASSUME DpmInv, EraseInterface PROVE DpmInv'
<1>1. /\ parser.pc = "disassociating" /\ Front.name = "delete" /\ command_queue # <<>>
      /\ status = "running"
      /\ interface_mac' = [j \in DOMAIN interface_mac \ {Front.i} |-> interface_mac[j]]
      /\ removed' = removed \cup {Front.i}
      /\ parser' = [parser EXCEPT !.pc = "erase"]
      /\ UNCHANGED <<interface_bssid, hostapd, command_queue, commands, changes, joined,
                     bssid_list, warp_macs, late, apart, failed,
            misspelt, unnamed, early, status>>
  BY DEF EraseInterface, bridgeVars, hostapdVars, queueVars, warpSide, DpmInv, ParserAtWork
<1>2. parser' \in [pc : ParserPlaces, todo : SUBSET Stations] /\ parser'.pc = "erase"
  BY <1>1 DEF ParserPlaces, DpmInv, AgentTypeOK
<1>3. Front' = Front /\ Known' = Known \ {Front.i} /\ Front.i \in Interfaces
  BY <1>1, AtWork DEF Front, Known
<1>4. interface_mac' \in [Known' -> SUBSET Stations] /\ Known' \subseteq Interfaces
  BY <1>1, <1>3 DEF DpmInv, AgentTypeOK, Known
<1>5. /\ walk' \in WalkStates /\ UNCHANGED <<walk.pc, walk.at>>
      /\ walk'.valid => walk.valid /\ ~(walk.pc # "sleep" /\ walk.at = Front.i)
  <2> DEFINE v == walk.valid /\ ~(walk.pc \in {"ask", "diff", "queue"} /\ walk.at = Front.i)
  <2>1. walk \in WalkStates /\ walk' = [walk EXCEPT !.valid = v] /\ v \in BOOLEAN
    BY DEF EraseInterface, DpmInv, AgentTypeOK
  <2>2. v => walk.valid /\ ~(walk.pc # "sleep" /\ walk.at = Front.i)
    BY TypesUnfolded DEF DpmInv
  <2> HIDE DEF v
  <2> QED BY <2>1, <2>2 DEF WalkStates
<1>6. AgentTypeOK'
  BY <1>1, <1>2, <1>3, <1>4, <1>5 DEF DpmInv, AgentTypeOK, Known
<1>7. WalkOnMap'
  BY <1>3, <1>5 DEF DpmInv, WalkOnMap
<1> QED
  BY <1>1, <1>2, <1>3, <1>6, <1>7 DEF DpmInv, MapsInStep, ParserAtWork, MapsFollowParser,
       InterfacesFollowWarp, ExceptionOnlyAfter, Pending

LEMMA EraseBssidInv == ASSUME DpmInv, EraseBssid PROVE DpmInv'
<1>1. /\ parser.pc = "erase" /\ Front.name = "delete" /\ command_queue # <<>>
      /\ Front.i \notin Known
      /\ interface_bssid' = interface_bssid \ {Front.i}
      /\ parser' = [parser EXCEPT !.pc = "remove"]
      /\ UNCHANGED <<interface_mac, walk, hostapd, command_queue, commands, changes, joined,
                     bssid_list, warp_macs, late, apart, failed,
            misspelt, unnamed, removed, early, status>>
  BY DEF EraseBssid, bridgeVars, walkVars, hostapdVars, queueVars, warpSide, DpmInv,
         ParserAtWork, MapsFollowParser
<1>2. parser' \in [pc : ParserPlaces, todo : SUBSET Stations] /\ parser'.pc = "remove"
  BY <1>1 DEF ParserPlaces, DpmInv, AgentTypeOK
<1>3. Front' = Front /\ Known' = Known
  BY <1>1 DEF Front, Known
<1>4. AgentTypeOK'
  BY <1>1, <1>2 DEF DpmInv, AgentTypeOK
<1> QED
  BY <1>1, <1>2, <1>3, <1>4 DEF DpmInv, MapsInStep, ParserAtWork, MapsFollowParser,
       WalkOnMap, InterfacesFollowWarp, ExceptionOnlyAfter, Pending

\* Steps of the thread that sets up the bridge, and steps that change nothing.
LEMMA OtherInv == ASSUME DpmInv, Initialize \/ UNCHANGED vars PROVE DpmInv'
<1>1. UNCHANGED <<interface_mac, interface_bssid, walk, hostapd, command_queue, commands,
                  changes, parser, joined, bssid_list, warp_macs, late, apart, failed,
            misspelt, unnamed, removed,
                  early, status>>
  BY DEF Initialize, vars, bridgeVars, dpmVars, walkVars, hostapdVars, queueVars, warpSide
<1>2. AgentTypeOK'
  BY <1>1 DEF DpmInv, AgentTypeOK
<1> QED
  BY <1>1, <1>2 DEF DpmInv, MapsInStep, ParserAtWork, MapsFollowParser, WalkOnMap,
       InterfacesFollowWarp, ExceptionOnlyAfter, Known, Front, Pending

LEMMA DpmStep == ASSUME DpmInv, [Next]_vars PROVE DpmInv'
BY HostapdInv, ManagerInv, WalkBeginInv, AllStationsInv, DifferenceInv, QueueCommandInv,
   RecordInv, ParseCommandInv, MonSyncInv, AddBssidInv, InsertInterfaceInv, ScriptInv,
   RemoveBeginInv, DisassociateStationInv, EraseInterfaceInv, EraseBssidInv, OtherInv
   DEF Next, TimedCheck, Parse

LEMMA DpmInitInv == Init => DpmInv
<1> SUFFICES ASSUME Init PROVE DpmInv
  OBVIOUS
<1>1. walk \in WalkStates /\ walk.pc = "sleep"
  BY DEF Init, WalkStates
<1>2. DOMAIN interface_mac = {}
  BY DEF Init
<1>3. AgentTypeOK
  <2>1. /\ interface_mac \in [DOMAIN interface_mac -> SUBSET Stations]
        /\ hostapd \in [Interfaces -> SUBSET Stations]
        /\ joined \in [Stations -> SUBSET Interfaces]
    BY DEF Init
  <2>2. parser \in [pc : ParserPlaces, todo : SUBSET Stations]
    BY DEF Init, ParserPlaces
  <2>3. command_queue \in Seq(Commands) /\ bssid_list \in Seq(Interfaces)
    BY DEF Init
  <2>4. commands \in 0..MaxCommands /\ changes \in 0..MaxChanges
    BY DpmAssumption DEF Init
  <2> QED BY <1>1, <1>2, <2>1, <2>2, <2>3, <2>4 DEF Init, AgentTypeOK
<1> QED
  BY <1>1, <1>2, <1>3 DEF Init, DpmInv, MapsInStep, ParserAtWork, MapsFollowParser, WalkOnMap,
       InterfacesFollowWarp, ExceptionOnlyAfter, Known, Pending

-----------------------------------------------------------------------------
(***************************************************************************)
(* The theorems.                                                           *)
(***************************************************************************)

\* DpmInv is an invariant of the bssid group.
THEOREM DpmInvariant == Spec => []DpmInv
<1>1. Init => DpmInv
  BY DpmInitInv
<1>2. DpmInv /\ [Next]_vars => DpmInv'
  BY DpmStep
<1> QED BY <1>1, <1>2, PTL DEF Spec

\* timed_check always finds the bssid of an interface it stands on.
THEOREM MapsAlwaysInStep == Spec => []MapsInStep
<1>1. DpmInv => MapsInStep
  BY DEF DpmInv
<1> QED BY <1>1, DpmInvariant, PTL

\* An exception leaves a thread only when WARP and the group are apart, after
\* an element was erased under timed_check's iterator, or when a delete is spelt
\* in a way that ifconfig does not know.
THEOREM ExceptionOnlyAfterAlways == Spec => []ExceptionOnlyAfter
<1>1. DpmInv => ExceptionOnlyAfter
  BY DEF DpmInv
<1> QED BY <1>1, DpmInvariant, PTL

\* A step of the agent is a run of the script, a step of init, or none.
LEMMA ScriptsAllowed ==
  ASSUME DpmInv, [Next]_vars PROVE [DatapathNext]_datapathVars
<1>1. CASE AddPort \/ RemovePort
  <2>1. Front.i \in Interfaces
    BY <1>1, AtWork DEF AddPort, RemovePort, DpmInv, ParserAtWork
  <2> QED BY <1>1, <2>1 DEF AddPort, RemovePort, Script, InitThrough, DatapathNext
<1>2. CASE DpmStation
  <2>1. Front.i \in Interfaces
        /\ (Front.name \in {"associate", "disassociate"} => Front.mac \in Stations)
    BY <1>2, AtWork DEF DpmStation, DpmInv, ParserAtWork
  <2> QED BY <1>2, <2>1 DEF DpmStation, Script, InitThrough, DatapathNext
<1>3. CASE DisassociateStation
  <2>1. Front.i \in Interfaces
    BY <1>3, AtWork DEF DisassociateStation, DpmInv, ParserAtWork
  <2>2. PICK s \in parser.todo : Script(Disassociate(s, Front.i))
    BY <1>3 DEF DisassociateStation
  <2>3. s \in Stations
    BY TypesUnfolded DEF DpmInv
  <2> QED BY <2>1, <2>2, <2>3 DEF Script, InitThrough, DatapathNext
<1>4. CASE Initialize
  BY <1>4 DEF Initialize, DatapathNext
<1>5. CASE HostapdChange \/ ManagerCommand \/ TimedCheck \/ UNCHANGED vars
  BY <1>5 DEF HostapdChange, ManagerCommand, TimedCheck, WalkBegin, AllStations, Difference,
       QueueCommand, Record, Undefined, vars, bridgeVars
<1>6. CASE \/ ParseCommand \/ MonSync \/ AddBssid \/ InsertInterface \/ RemoveBegin
           \/ EraseInterface \/ EraseBssid
  BY <1>6 DEF ParseCommand, MonSync, AddBssid, InsertInterface, RemoveBegin,
       EraseInterface, EraseBssid, bridgeVars
<1> QED BY <1>1, <1>2, <1>3, <1>4, <1>5, <1>6 DEF Next, Parse

\* The agent uses the bridge as module Datapath specifies, so that what is
\* proved of the bridge holds in the agent.
THEOREM DpmImplementsDatapath == Spec => DatapathSpec
<1>1. Init => DatapathInit
  BY DEF Init
<1>2. DpmInv /\ [Next]_vars => [DatapathNext]_datapathVars
  BY ScriptsAllowed
<1> QED BY <1>1, <1>2, DpmInvariant, PTL DEF Spec, DatapathSpec

\* In the running agent, too, no uplink flow between ports of one digit leads to
\* a port without an interface.
THEOREM NoFlowLeftBehindByAgent ==
  Spec => []UplinksLeadToBoundPorts
BY DpmImplementsDatapath, NoFlowLeftBehind, PTL

-----------------------------------------------------------------------------
(***************************************************************************)
(* The group sees the command queue as a command service.                  *)
(***************************************************************************)

\* A step queues a command, tells the group of the front one, ends it, or
\* leaves the queue alone.
LEMMA ServiceSeen ==
  ASSUME DpmInv, [Next]_vars
  PROVE  \/ /\ \E c \in Commands : command_queue' = Append(command_queue, c)
            /\ parser' = parser
         \/ command_queue # <<>> /\ command_queue' = Tail(command_queue) /\ parser'.pc = "idle"
         \/ /\ command_queue # <<>> /\ command_queue' = command_queue
            /\ parser.pc \in {"idle", "mon"} /\ parser'.pc \notin {"idle", "mon"}
         \/ /\ command_queue' = command_queue
            /\ (parser'.pc \in {"idle", "mon"}) = (parser.pc \in {"idle", "mon"})
<1>a. /\ parser.pc # "idle" => command_queue # <<>>
      /\ parser \in [pc : ParserPlaces, todo : SUBSET Stations]
  BY DEF DpmInv, ParserAtWork, AgentTypeOK
<1>1. CASE ManagerCommand
  <2>1. \E c \in Commands : command_queue' = Append(command_queue, c)
    BY <1>1, CommandOf DEF ManagerCommand
  <2> QED BY <1>1, <2>1 DEF ManagerCommand
<1>2. CASE QueueCommand
  <2>1. Head(walk.todo) \in Commands
    BY <1>2, TypesUnfolded DEF QueueCommand, DpmInv
  <2> QED BY <1>2, <2>1 DEF QueueCommand
<1>3. CASE HostapdChange \/ WalkBegin \/ AllStations \/ Difference \/ Record \/ Initialize
           \/ UNCHANGED vars
  BY <1>3 DEF HostapdChange, WalkBegin, AllStations, Difference, Undefined, Record, Initialize,
       vars, queueVars
<1>4. CASE ParseCommand
  <2>1. parser.pc = "idle" /\ command_queue # <<>> /\ (Done \/ GoOn \/ GoOnStale)
    BY <1>4 DEF ParseCommand, RadioSet, Delete, StationCommand, GiveUp, GiveUpHalfDone
  <2>2. CASE Done
    BY <2>1, <2>2 DEF Done
  <2>3. CASE GoOn \/ GoOnStale
    BY <1>a, <2>1, <2>3 DEF GoOn, GoOnStale
  <2> QED BY <2>1, <2>2, <2>3
<1>5. CASE MonSync
  BY <1>5, <1>a DEF MonSync, queueVars
<1>6. CASE AddBssid \/ InsertInterface \/ RemoveBegin \/ DisassociateStation \/ EraseInterface
           \/ EraseBssid
  BY <1>6, <1>a DEF AddBssid, InsertInterface, RemoveBegin, DisassociateStation, EraseInterface,
       EraseBssid, queueVars
<1>7. CASE AddPort \/ RemovePort \/ DpmStation
  BY <1>7, <1>a DEF AddPort, RemovePort, DpmStation, Done
<1> QED
  BY <1>1, <1>2, <1>3, <1>4, <1>5, <1>6, <1>7 DEF Next, TimedCheck, Parse

\* The group's view of the queue is that of the abstract command service,
\* which the communications agent implements.
THEOREM GroupImplementsServiceAlways == Spec => GroupImplementsService
<1>1. Init => Service!Init
  BY DEF Init, Service!Init
<1>2. DpmInv /\ [Next]_vars
      => [Service!Submit \/ Service!Inform \/ Service!Finish]_(Service!serviceVars)
  BY ServiceSeen DEF Service!Submit, Service!Inform, Service!Finish, Service!serviceVars
<1> QED
  BY DpmInvariant, <1>1, <1>2, PTL DEF Spec, GroupImplementsService, Service!Spec

-----------------------------------------------------------------------------
(***************************************************************************)
(* The nodes of the group agree.  In the middle of a command each map is   *)
(* ahead of or behind WARP by the interface of that command.               *)
(***************************************************************************)
BssidsFollowMaps ==
  /\ interface_bssid = Known \cup (IF parser.pc \in {"insert", "erase"} THEN {Front.i} ELSE {})
  /\ parser.pc = "disassociating" => Front.i \in Known

\* The elements of a list, and that each outside of a set is there once.
Elements(q) == {q[k] : k \in DOMAIN q}
EachOnce(q, M) == \A k, l \in DOMAIN q : (q[k] = q[l] /\ q[k] \notin M) => k = l

ListedOnce == EachOnce(bssid_list, misspelt)

\* The BSSs the relay has been told of.
Told == IF Pending("radio_set", {"mon"}) THEN warp_macs \ {Front.i}
        ELSE IF Pending("delete", {"mon"}) THEN warp_macs \cup {Front.i}
        ELSE warp_macs

ListFollowsWarp ==
  apart = {} => ListedOnce /\ Told \subseteq Listed /\ Listed \subseteq Told \cup misspelt

LEMMA ListedIs == Listed = Elements(bssid_list)
BY DEF Listed, Elements

\* Appending an address, and erasing one.
LEMMA ListAppend ==
  ASSUME NEW S, NEW q \in Seq(S), NEW x \in S, NEW M
  PROVE  /\ Elements(Append(q, x)) = Elements(q) \cup {x}
         /\ (EachOnce(q, M) /\ (x \in M \/ x \notin Elements(q))) => EachOnce(Append(q, x), M)
<1> DEFINE r == Append(q, x)
<1>1. /\ DOMAIN q = 1..Len(q) /\ Len(q) \in Nat /\ DOMAIN r = 1..(Len(q) + 1)
      /\ \A k \in 1..Len(q) : r[k] = q[k]
      /\ r[Len(q) + 1] = x
  OBVIOUS
<1> HIDE DEF r
<1>2. \A k \in DOMAIN r : \/ k \in DOMAIN q /\ r[k] = q[k]
                          \/ k = Len(q) + 1 /\ r[k] = x
  BY <1>1
<1>3. Len(q) + 1 \in DOMAIN r /\ \A k \in DOMAIN q : k \in DOMAIN r /\ r[k] = q[k]
  BY <1>1
<1>4. {r[k] : k \in DOMAIN r} = {q[k] : k \in DOMAIN q} \cup {x}
  BY <1>1, <1>2, <1>3
<1>5. ASSUME \A k, l \in DOMAIN q : (q[k] = q[l] /\ q[k] \notin M) => k = l,
             x \in M \/ x \notin {q[k] : k \in DOMAIN q}
      PROVE  \A k, l \in DOMAIN r : (r[k] = r[l] /\ r[k] \notin M) => k = l
  BY <1>2, <1>5
<1> QED BY <1>4, <1>5 DEF Elements, EachOnce, r

Erased(q, e) == SubSeq(q, 1, e - 1) \o SubSeq(q, e + 1, Len(q))

LEMMA ListErase ==
  ASSUME NEW S, NEW q \in Seq(S), NEW e \in DOMAIN q, NEW M, EachOnce(q, M)
  PROVE  /\ Elements(q) \ {q[e]} \subseteq Elements(Erased(q, e))
         /\ Elements(Erased(q, e)) \subseteq Elements(q)
         /\ q[e] \notin M => q[e] \notin Elements(Erased(q, e))
         /\ EachOnce(Erased(q, e), M)
<1> DEFINE n == Len(q)
           r == Erased(q, e)
           a == SubSeq(q, 1, e - 1)
           b == SubSeq(q, e + 1, n)
<1>1. n \in Nat /\ e \in 1..n /\ DOMAIN q = 1..n
  OBVIOUS
<1>2. /\ a \in Seq(S) /\ Len(a) = e - 1 /\ \A k \in 1..(e - 1) : a[k] = q[k]
  BY <1>1
<1>3. /\ b \in Seq(S) /\ Len(b) = n - e /\ \A k \in 1..(n - e) : b[k] = q[e + k]
  <2> HIDE DEF n
  <2>1. /\ e + 1 \in Int /\ n \in Int /\ \A k \in (e + 1)..n : q[k] \in S
    BY <1>1
  <2>2. /\ b \in Seq(S) /\ Len(b) = IF e + 1 <= n THEN n - (e + 1) + 1 ELSE 0
        /\ \A k \in 1..(n - (e + 1) + 1) : b[k] = q[(e + 1) + k - 1]
    <3>1. /\ SubSeq(q, e + 1, n) \in Seq(S)
          /\ Len(SubSeq(q, e + 1, n)) = IF e + 1 <= n THEN n - (e + 1) + 1 ELSE 0
          /\ \A k \in 1..(n - (e + 1) + 1) : SubSeq(q, e + 1, n)[k] = q[(e + 1) + k - 1]
      BY <2>1, SubSeqProperties
    <3> QED BY <3>1
  <2> HIDE DEF b
  <2>3. n - (e + 1) + 1 = n - e /\ \A k \in 1..(n - e) : (e + 1) + k - 1 = e + k
    BY <1>1
  <2>4. \A k \in 1..(n - e) : b[k] = q[e + k]
    BY <2>2, <2>3
  <2>5. Len(b) = n - e
    BY <1>1, <2>2
  <2> QED BY <2>2, <2>4, <2>5
<1>4. r = a \o b
  BY DEF Erased
<1> HIDE DEF a, b, n, r
<1>5. /\ DOMAIN r = 1..(n - 1)
      /\ \A k \in 1..(n - 1) : r[k] = IF k < e THEN q[k] ELSE q[k + 1]
  <2>a. /\ r \in Seq(S) /\ Len(r) = Len(a) + Len(b)
        /\ \A k \in 1..(Len(a) + Len(b)) : r[k] = IF k <= Len(a) THEN a[k] ELSE b[k - Len(a)]
    <3>1. a \in Seq(S) /\ b \in Seq(S)
      BY <1>2, <1>3
    <3>2. /\ a \o b \in Seq(S) /\ Len(a \o b) = Len(a) + Len(b)
          /\ \A k \in 1..(Len(a) + Len(b)) :
               (a \o b)[k] = IF k <= Len(a) THEN a[k] ELSE b[k - Len(a)]
      BY <3>1, ConcatProperties
    <3> QED BY <1>4, <3>2
  <2>b. Len(a) + Len(b) = n - 1
    BY <1>1, <1>2, <1>3
  <2>1. Len(r) = n - 1 /\ DOMAIN r = 1..(n - 1)
    BY <2>a, <2>b
  <2>2. \A k \in 1..(n - 1) : r[k] = IF k <= Len(a) THEN a[k] ELSE b[k - Len(a)]
    BY <2>a, <2>b
  <2>3. ASSUME NEW k \in 1..(n - 1) PROVE r[k] = IF k < e THEN q[k] ELSE q[k + 1]
    <3>1. CASE k < e
      BY <1>1, <1>2, <2>2, <3>1
    <3>2. CASE ~(k < e)
      <4>1. Len(a) = e - 1
        BY <1>2
      <4>2. k - (e - 1) \in 1..(n - e) /\ e + (k - (e - 1)) = k + 1 /\ ~(k <= e - 1)
        BY <1>1, <3>2
      <4>3. b[k - (e - 1)] = q[k + 1]
        BY <1>3, <4>2
      <4>4. r[k] = b[k - (e - 1)]
        BY <2>2, <4>1, <4>2
      <4> QED BY <3>2, <4>3, <4>4
    <3> QED BY <3>1, <3>2
  <2> QED BY <2>1, <2>3
<1> DEFINE At(k) == IF k < e THEN k ELSE k + 1
<1>6. /\ \A k \in DOMAIN r : At(k) \in DOMAIN q /\ At(k) # e /\ r[k] = q[At(k)]
      /\ \A k, l \in DOMAIN r : At(k) = At(l) => k = l
      /\ \A j \in DOMAIN q : j # e => \E k \in DOMAIN r : At(k) = j
  <2>1. ASSUME NEW k \in DOMAIN r PROVE At(k) \in DOMAIN q /\ At(k) # e /\ r[k] = q[At(k)]
    <3>a. k \in 1..(n - 1)
      BY <1>5
    <3>1. k \in 1..(n - 1) /\ r[k] = IF k < e THEN q[k] ELSE q[k + 1]
      BY <3>a, <1>5, Zenon
    <3>2. CASE k < e
      BY <1>1, <3>1, <3>2
    <3>3. CASE ~(k < e)
      <4>1. k + 1 \in 1..n /\ k + 1 # e
        BY <1>1, <3>a, <3>3
      <4>2. At(k) = k + 1 /\ r[k] = q[k + 1]
        BY <3>1, <3>3
      <4> QED BY <1>1, <4>1, <4>2
    <3> QED BY <3>2, <3>3
  <2>2. \A k, l \in DOMAIN r : At(k) = At(l) => k = l
    BY <1>1, <1>5
  <2>3. ASSUME NEW j \in DOMAIN q, j # e PROVE \E k \in DOMAIN r : At(k) = j
    <3>1. CASE j < e
      BY <1>1, <1>5, <3>1
    <3>2. CASE j > e
      <4>1. j - 1 \in DOMAIN r /\ At(j - 1) = j
        BY <1>1, <1>5, <3>2
      <4> QED BY <4>1
    <3> QED BY <1>1, <2>3, <3>1, <3>2
  <2> QED BY <2>1, <2>2, <2>3
<1> HIDE DEF At
<1>a. \A k, l \in DOMAIN q : (q[k] = q[l] /\ q[k] \notin M) => k = l
  BY DEF EachOnce
<1>7. {r[k] : k \in DOMAIN r} \subseteq {q[k] : k \in DOMAIN q}
  BY <1>6
<1>b. ASSUME NEW k \in DOMAIN r, r[k] = q[e] PROVE q[e] \in M
  BY <1>6, <1>a, <1>b
<1>8. {q[k] : k \in DOMAIN q} \ {q[e]} \subseteq {r[k] : k \in DOMAIN r}
  <2> SUFFICES ASSUME NEW j \in DOMAIN q, q[j] # q[e] PROVE q[j] \in {r[k] : k \in DOMAIN r}
    OBVIOUS
  <2>1. PICK k \in DOMAIN r : At(k) = j
    BY <1>6
  <2>2. r[k] = q[j]
    BY <1>6, <2>1
  <2> QED BY <2>2
<1>9. ASSUME NEW k \in DOMAIN r, NEW l \in DOMAIN r, r[k] = r[l], r[k] \notin M PROVE k = l
  <2>1. At(k) \in DOMAIN q /\ At(l) \in DOMAIN q /\ q[At(k)] = q[At(l)] /\ q[At(k)] \notin M
    BY <1>6, <1>9
  <2>2. At(k) = At(l)
    BY <1>a, <2>1
  <2> QED BY <1>6, <2>2
<1> QED BY <1>7, <1>8, <1>9, <1>b DEF Elements, EachOnce, r

LEMMA NodesStep ==
  ASSUME DpmInv, DpmInv', BssidsFollowMaps, ListFollowsWarp, [Next]_vars
  PROVE  BssidsFollowMaps' /\ ListFollowsWarp'
<1>a. /\ parser.pc # "idle" => command_queue # <<>>
      /\ parser.pc \in {"insert", "add"} => Front.name = "radio_set"
      /\ parser.pc \in {"disassociating", "erase", "remove"} => Front.name = "delete"
      /\ parser \in [pc : ParserPlaces, todo : SUBSET Stations]
      /\ bssid_list \in Seq(Interfaces)
  BY DEF DpmInv, ParserAtWork, AgentTypeOK
<1>1. ASSUME UNCHANGED <<Known, interface_bssid, parser, bssid_list, misspelt, apart, warp_macs>>,
             command_queue' = command_queue \/ (parser.pc # "idle" => Front' = Front)
      PROVE  BssidsFollowMaps' /\ ListFollowsWarp'
  <2>1. parser.pc # "idle" => Front' = Front
    BY <1>1 DEF Front
  <2>2. Listed' = Listed /\ ListedOnce' = ListedOnce
    BY <1>1 DEF Listed, ListedOnce
  <2>3. BssidsFollowMaps'
    BY <1>1, <2>1 DEF BssidsFollowMaps
  <2>4. ListFollowsWarp'
    BY <1>1, <2>1, <2>2 DEF ListFollowsWarp, Told, Pending
  <2> QED BY <2>3, <2>4
<1>2. CASE ManagerCommand \/ QueueCommand
  <2>1. \/ \E c \in Commands : command_queue' = Append(command_queue, c)
        \/ command_queue' = command_queue
    BY <1>2, ServiceSeen, CommandOf, TypesUnfolded DEF ManagerCommand, QueueCommand, DpmInv
  <2>2. parser.pc # "idle" => Front' = Front
    <3>1. CASE command_queue' = command_queue
      BY <3>1 DEF Front
    <3>2. CASE \E c \in Commands : command_queue' = Append(command_queue, c)
      BY <1>a, <3>2, FrontStays DEF DpmInv, AgentTypeOK
    <3> QED BY <2>1, <3>1, <3>2
  <2>3. UNCHANGED <<Known, interface_bssid, parser, bssid_list, misspelt, apart, warp_macs>>
    BY <1>2 DEF ManagerCommand, QueueCommand, Known, dpmVars, warpSide
  <2> QED BY <1>1, <2>2, <2>3
<1>3. CASE HostapdChange \/ WalkBegin \/ AllStations \/ Difference \/ Initialize
           \/ DisassociateStation \/ UNCHANGED vars
  <2>1. UNCHANGED <<interface_mac, interface_bssid, bssid_list, misspelt, apart, warp_macs,
                    command_queue, parser.pc>>
    BY <1>3, <1>a DEF HostapdChange, WalkBegin, AllStations, Difference, Undefined, Initialize,
         DisassociateStation, vars, dpmVars, queueVars, warpSide
  <2>2. Listed' = Listed /\ ListedOnce' = ListedOnce /\ Front' = Front /\ Known' = Known
    BY <2>1 DEF Listed, ListedOnce, Front, Known
  <2>3. BssidsFollowMaps'
    BY <2>1, <2>2 DEF BssidsFollowMaps
  <2>4. ListFollowsWarp'
    BY <2>1, <2>2 DEF ListFollowsWarp, Told, Pending
  <2> QED BY <2>3, <2>4
<1>4. CASE Record
  <2>1. UNCHANGED <<interface_bssid, parser, bssid_list, misspelt, apart, warp_macs, command_queue>>
    BY <1>4 DEF Record, Undefined, dpmVars, queueVars, warpSide
  <2>2. Known' = Known
    BY <1>4 DEF Record, Undefined, dpmVars, Known
  <2> QED BY <1>1, <2>1, <2>2
<1>5. CASE ParseCommand
  <2>1. /\ parser.pc = "idle" /\ command_queue # <<>>
        /\ UNCHANGED <<interface_mac, interface_bssid, bssid_list, misspelt>>
    BY <1>5 DEF ParseCommand, dpmVars
  <2>2. Listed' = Listed /\ ListedOnce' = ListedOnce /\ Known' = Known
    BY <2>1 DEF Listed, ListedOnce, Known
  <2>3. parser'.pc \in {"idle", "mon"}
    BY <1>5, <1>a DEF ParseCommand, RadioSet, Delete, StationCommand, GiveUp, GiveUpHalfDone,
         GoOn, GoOnStale, Done
  <2>4. BssidsFollowMaps'
    BY <2>1, <2>2, <2>3 DEF BssidsFollowMaps
  <2>5. apart = {} => ListedOnce /\ warp_macs \subseteq Listed
                      /\ Listed \subseteq warp_macs \cup misspelt
    BY <2>1 DEF ListFollowsWarp, Told, Pending
  <2>6. apart' = {} => apart = {}
    BY <1>5 DEF ParseCommand, RadioSet, Delete, StationCommand, GiveUp, GiveUpHalfDone, GoOn,
         GoOnStale
  <2>7. CASE GoOn
    <3>1. Front' = Front /\ parser'.pc = "mon" /\ misspelt' = misspelt
      BY <1>a, <2>1, <2>7 DEF GoOn, Front
    <3>2. apart' = {} =>
          \/ Front.name = "radio_set" /\ Front.i \notin warp_macs
             /\ warp_macs' = warp_macs \cup {Front.i}
          \/ Front.name = "delete" /\ Front.i \in warp_macs
             /\ warp_macs' = warp_macs \ {Front.i}
          \/ Front.name \in {"associate", "disassociate"} /\ warp_macs' = warp_macs
      <4>1. ~Done
        BY <1>a, <2>1, <3>1 DEF Done
      <4> QED BY <1>5, <4>1 DEF ParseCommand, RadioSet, Delete, StationCommand, GiveUp,
                                GiveUpHalfDone, GoOnStale
    <3> QED BY <2>2, <2>4, <2>5, <2>6, <3>1, <3>2 DEF ListFollowsWarp, Told, Pending
  <2>8. CASE GoOnStale
    BY <2>4, <2>8 DEF GoOnStale, ListFollowsWarp
  <2>9. CASE ~GoOn /\ ~GoOnStale
    <3>1. parser'.pc = "idle"
      BY <1>5, <2>9 DEF ParseCommand, RadioSet, Delete, StationCommand, GiveUp,
           GiveUpHalfDone, Done
    <3>2. apart' = {} => warp_macs' = warp_macs
      BY <1>5, <2>9 DEF ParseCommand, RadioSet, Delete, StationCommand, GiveUp, GiveUpHalfDone
    <3> QED BY <2>1, <2>2, <2>4, <2>5, <2>6, <3>1, <3>2 DEF ListFollowsWarp, Told, Pending
  <2> QED BY <2>7, <2>8, <2>9
<1>6. CASE MonSync
  <2>1. /\ parser.pc = "mon" /\ command_queue # <<>>
        /\ UNCHANGED <<interface_mac, interface_bssid, warp_macs, apart, command_queue>>
    BY <1>6, <1>a DEF MonSync, dpmVars, warpSide, queueVars
  <2>2. parser'.pc = "dpm" /\ Front' = Front /\ Known' = Known /\ Front.i \in Interfaces
    BY <1>6, <1>a, <2>1, AtWork DEF MonSync, Front, Known
  <2>3. BssidsFollowMaps'
    BY <2>1, <2>2 DEF BssidsFollowMaps
  <2>4. ASSUME apart = {}
        PROVE  /\ ListedOnce' /\ warp_macs \subseteq Listed'
               /\ Listed' \subseteq warp_macs \cup misspelt'
    <3>1. CASE Front.name = "radio_set"
      <4>1. /\ ListedOnce /\ warp_macs \ {Front.i} \subseteq Listed /\ Front.i \in warp_macs
            /\ Listed \subseteq (warp_macs \ {Front.i}) \cup misspelt
        BY <2>1, <2>4, <3>1 DEF ListFollowsWarp, Told, Pending, DpmInv, InterfacesFollowWarp
      <4>2. bssid_list' = Append(bssid_list, Front.i) /\ misspelt' = misspelt
        BY <1>6, <3>1 DEF MonSync
      <4>3. Listed' = Listed \cup {Front.i} /\ ListedOnce'
        <5>1. /\ Elements(Append(bssid_list, Front.i)) = Elements(bssid_list) \cup {Front.i}
              /\ EachOnce(Append(bssid_list, Front.i), misspelt)
          <6>1. /\ EachOnce(bssid_list, misspelt)
                /\ Front.i \in misspelt \/ Front.i \notin Elements(bssid_list)
            BY <4>1, ListedIs DEF ListedOnce
          <6> QED BY <1>a, <2>2, <6>1, ListAppend
        <5> QED BY <4>2, <5>1, ListedIs DEF Listed, ListedOnce, Elements
      <4> QED BY <4>1, <4>2, <4>3
    <3>2. CASE Front.name = "delete"
      <4>1. /\ ListedOnce /\ warp_macs \cup {Front.i} \subseteq Listed
            /\ Listed \subseteq warp_macs \cup {Front.i} \cup misspelt
            /\ Front.i \notin warp_macs
        BY <2>1, <2>4, <3>2 DEF ListFollowsWarp, Told, Pending, DpmInv, InterfacesFollowWarp
      <4>2. CASE misspelt' = misspelt \cup {Front.i} /\ bssid_list' = bssid_list
        <5>1. ListedOnce'
          BY <4>1, <4>2 DEF ListedOnce, EachOnce
        <5>2. Listed' = Listed
          BY <4>2 DEF Listed
        <5> QED BY <4>1, <4>2, <5>1, <5>2
      <4>3. CASE \E k \in DOMAIN bssid_list :
                   /\ bssid_list[k] = Front.i
                   /\ bssid_list' = Erased(bssid_list, k)
                   /\ misspelt' = misspelt
        <5>1. PICK k \in DOMAIN bssid_list :
                /\ bssid_list[k] = Front.i
                /\ bssid_list' = Erased(bssid_list, k)
                /\ misspelt' = misspelt
          BY <4>3
        <5>2. bssid_list \in Seq(Interfaces) /\ EachOnce(bssid_list, misspelt)
          BY <1>a, <4>1 DEF ListedOnce
        <5>3. /\ Elements(bssid_list) \ {bssid_list[k]} \subseteq Elements(Erased(bssid_list, k))
              /\ Elements(Erased(bssid_list, k)) \subseteq Elements(bssid_list)
              /\ bssid_list[k] \notin misspelt
                   => bssid_list[k] \notin Elements(Erased(bssid_list, k))
              /\ EachOnce(Erased(bssid_list, k), misspelt)
          BY <5>2, ListErase
        <5>4. Listed' = Elements(Erased(bssid_list, k))
          BY <5>1 DEF Listed, Elements
        <5>5. ListedOnce'
          BY <5>1, <5>3 DEF ListedOnce
        <5> QED BY <4>1, <5>1, <5>3, <5>4, <5>5, ListedIs
      <4>4. CASE Front.i \notin Listed
        BY <4>1, <4>4
      <4> QED BY <1>6, <3>2, <4>2, <4>3, <4>4 DEF MonSync, Erased
    <3>3. CASE Front.name \notin {"radio_set", "delete"}
      <4>1. bssid_list' = bssid_list /\ misspelt' = misspelt
        BY <1>6, <3>3 DEF MonSync
      <4>2. ListedOnce /\ warp_macs \subseteq Listed /\ Listed \subseteq warp_macs \cup misspelt
        BY <2>1, <2>4, <3>3 DEF ListFollowsWarp, Told, Pending
      <4> QED BY <4>1, <4>2 DEF Listed, ListedOnce
    <3> QED BY <3>1, <3>2, <3>3
  <2> QED BY <2>1, <2>2, <2>3, <2>4 DEF ListFollowsWarp, Told, Pending
<1>7. CASE \/ AddBssid \/ InsertInterface \/ RemoveBegin \/ EraseInterface \/ EraseBssid
           \/ AddPort \/ RemovePort \/ DpmStation
  <2>1. /\ UNCHANGED <<bssid_list, misspelt, warp_macs, apart>> /\ parser.pc \notin {"idle", "mon"}
        /\ parser'.pc # "mon"
    BY <1>7, <1>a DEF AddBssid, InsertInterface, RemoveBegin, EraseInterface, EraseBssid,
         AddPort, RemovePort, DpmStation, Done, warpSide
  <2>2. Listed' = Listed /\ ListedOnce' = ListedOnce
    BY <2>1 DEF Listed, ListedOnce
  <2>3. ListFollowsWarp'
    BY <2>1, <2>2 DEF ListFollowsWarp, Told, Pending
  <2>4. BssidsFollowMaps'
    <3>1. CASE AddBssid
      BY <3>1, <1>a DEF AddBssid, BssidsFollowMaps, Known, Front, queueVars
    <3>2. CASE InsertInterface
      <4>1. /\ parser.pc = "insert" /\ parser'.pc = "add" /\ Known' = Known \cup {Front.i}
            /\ interface_bssid' = interface_bssid
        BY <3>2, <1>a DEF InsertInterface, Known
      <4> QED BY <4>1 DEF BssidsFollowMaps
    <3>3. CASE RemoveBegin
      BY <3>3, <1>a DEF RemoveBegin, BssidsFollowMaps, Known, dpmVars, Front, queueVars
    <3>4. CASE EraseInterface
      <4>1. /\ parser.pc = "disassociating" /\ parser'.pc = "erase" /\ Front' = Front
            /\ Known' = Known \ {Front.i} /\ interface_bssid' = interface_bssid
        BY <3>4, <1>a DEF EraseInterface, Known, Front, queueVars
      <4> QED BY <4>1 DEF BssidsFollowMaps
    <3>5. CASE EraseBssid
      <4>1. /\ parser.pc = "erase" /\ parser'.pc = "remove" /\ Front.i \notin Known
            /\ Known' = Known /\ interface_bssid' = interface_bssid \ {Front.i}
        BY <3>5, <1>a DEF EraseBssid, Known, DpmInv, MapsFollowParser
      <4> QED BY <4>1 DEF BssidsFollowMaps
    <3>6. CASE AddPort \/ RemovePort \/ DpmStation
      <4>1. /\ parser.pc \in {"add", "remove", "dpm"} /\ parser'.pc = "idle"
            /\ Known' = Known /\ interface_bssid' = interface_bssid
        BY <3>6 DEF AddPort, RemovePort, DpmStation, Done, dpmVars, Known
      <4> QED BY <4>1 DEF BssidsFollowMaps
    <3> QED BY <1>7, <3>1, <3>2, <3>3, <3>4, <3>5, <3>6
  <2> QED BY <2>3, <2>4
<1> QED
  BY <1>2, <1>3, <1>4, <1>5, <1>6, <1>7 DEF Next, TimedCheck, Parse

\* Between two commands the datapath manager's maps and WARP know the same BSSs,
\* and the relay's list has them and otherwise only what a misspelt delete left
\* there, as long as WARP and the group are not apart.
THEOREM NodesAlwaysAgree == Spec => []NodesAgree
<1>1. Init => BssidsFollowMaps /\ ListFollowsWarp
  BY DEF Init, BssidsFollowMaps, ListFollowsWarp, Listed, ListedOnce, EachOnce, Known,
       Told, Pending
<1>2. /\ DpmInv /\ DpmInv' /\ BssidsFollowMaps /\ ListFollowsWarp /\ [Next]_vars
      => (BssidsFollowMaps /\ ListFollowsWarp)'
  BY NodesStep
<1>3. DpmInv /\ BssidsFollowMaps /\ ListFollowsWarp => NodesAgree
  BY DEF DpmInv, InterfacesFollowWarp, BssidsFollowMaps, ListFollowsWarp, ListedOnce, EachOnce,
         Told, Pending, NodesAgree
<1> QED
  BY DpmInvariant, <1>1, <1>2, <1>3, PTL DEF Spec
-----------------------------------------------------------------------------
(***************************************************************************)
(* Flows follow stations.  timed_check announces a station before it is    *)
(* recorded, and the announcement may wait in todo or in the queue: so a   *)
(* station that is recorded has its uplink flow, or the last command about *)
(* it that waits will install it; and one that is not has none, or the     *)
(* last command will delete it.                                            *)
(***************************************************************************)
Joins(s, i) == Command("associate", i, s)
Leaves(s, i) == Command("disassociate", i, s)

\* The last command of the two in a queue is yes.
LastSays(q, yes, no) ==
  \E k \in DOMAIN q : q[k] = yes /\ \A l \in DOMAIN q : l > k => q[l] # no

\* An announcement is about a station that has been at the walk's interface.
Announces(c, m) ==
  /\ walk.at \in joined[m]
  /\ \/ m \in walk.output /\ c = Joins(m, walk.at)
     \/ m \notin walk.output /\ c = Leaves(m, walk.at)

WalkSound ==
  /\ walk.pc = "sleep" => walk.valid
  /\ walk.pc # "sleep" => walk.at \in Known \cup removed
  /\ walk.pc # "queue" => walk.todo = <<>>
  /\ \A c \in Elements(walk.todo) : \E m \in Stations : Announces(c, m)

\* A queued command about a station.
StationSound(c) ==
  c.name \in {"associate", "disassociate"} =>
    c.i \in joined[c.mac] /\ c.i \in Known \cup removed

\* Whatever is known of a station is about an interface it has joined.
JoinedSound ==
  /\ \A i \in Interfaces : \A s \in hostapd[i] : i \in joined[s]
  /\ \A i \in Known : \A s \in interface_mac[i] : i \in joined[s]
  /\ walk.pc \in {"diff", "queue"} => \A s \in walk.output : walk.at \in joined[s]
  /\ \A c \in Elements(command_queue) : StationSound(c)
  /\ parser.pc = "disassociating" => \A s \in parser.todo : Front.i \in joined[s]

\* The ports follow the map of interfaces.
PortsSound ==
  /\ ~early => \A i \in Known : \/ parser.pc = "add" /\ Front.i = i
                                \/ ports[i] # 0 /\ ports[Ethernet] # 0
  /\ \A i \in Interfaces : ports[i] # 0 => i \in Known \cup removed
  /\ (~early /\ ovs # "up") => flows = {}
  /\ parser.pc = "add" => Front.i \in Known
  /\ parser.pc = "remove" => Front.i \notin Known

\* What timed_check holds for the stations of an interface.
Recorded(s, i) == IF walk.pc = "queue" /\ walk.at = i THEN s \in walk.output
                  ELSE s \in interface_mac[i]

WillHave(s, i) ==
  \/ HasUplink(s, i) /\ Leaves(s, i) \notin Elements(command_queue)
  \/ LastSays(command_queue, Joins(s, i), Leaves(s, i))
  \/ Joins(s, i) \in Elements(walk.todo)

WillLack(s, i) ==
  \/ ~HasUplink(s, i) /\ Joins(s, i) \notin Elements(command_queue)
  \/ LastSays(command_queue, Leaves(s, i), Joins(s, i))
  \/ Leaves(s, i) \in Elements(walk.todo)

Follows(s, i) ==
  /\ Recorded(s, i) => WillHave(s, i)
  /\ (~Recorded(s, i) /\ i \notin removed) => WillLack(s, i)

BeingRemoved(i) == parser.pc = "disassociating" /\ Front.i = i
SingleHome(s) == \A i, j \in joined[s] : i = j

FlowsWillFollow ==
  (status = "running" /\ ~early /\ walk.valid) =>
    \A s \in Stations \ failed, i \in Known :
      (SingleHome(s) /\ ~BeingRemoved(i) /\ Findable(i)) => Follows(s, i)

FlowsInv == WalkSound /\ JoinedSound /\ PortsSound /\ FlowsWillFollow

-----------------------------------------------------------------------------
\* Lemmas about the two commands and about queues.
LEMMA StationCommands ==
  ASSUME NEW s, NEW i, NEW t, NEW j
  PROVE  /\ Joins(s, i).name = "associate" /\ Joins(s, i).i = i /\ Joins(s, i).mac = s
         /\ Leaves(s, i).name = "disassociate" /\ Leaves(s, i).i = i /\ Leaves(s, i).mac = s
         /\ Joins(s, i) # Leaves(t, j)
         /\ Joins(s, i) = Joins(t, j) => s = t /\ i = j
         /\ Leaves(s, i) = Leaves(t, j) => s = t /\ i = j
<1>1. /\ Joins(s, i).name = "associate" /\ Joins(s, i).i = i /\ Joins(s, i).mac = s
      /\ Leaves(s, i).name = "disassociate" /\ Leaves(s, i).i = i /\ Leaves(s, i).mac = s
  BY DEF Joins, Leaves, Command
<1>2. /\ Joins(t, j).i = j /\ Joins(t, j).mac = t
      /\ Leaves(t, j).name = "disassociate" /\ Leaves(t, j).i = j /\ Leaves(t, j).mac = t
  BY DEF Joins, Leaves, Command
<1> QED BY <1>1, <1>2

\* A station command is one of the two.
LEMMA StationCommandIs ==
  ASSUME NEW c \in Commands
  PROVE  /\ c.name = "associate" => c = Joins(c.mac, c.i)
         /\ c.name = "disassociate" => c = Leaves(c.mac, c.i)
BY DEF Commands, Joins, Leaves, Command

LEMMA TailElements ==
  ASSUME NEW S, NEW q \in Seq(S), q # <<>>
  PROVE  /\ Head(q) \in Elements(q) /\ Tail(q) \in Seq(S)
         /\ Elements(Tail(q)) \subseteq Elements(q)
         /\ Elements(q) \subseteq Elements(Tail(q)) \cup {Head(q)}
<1>1. /\ Len(q) \in Nat /\ Len(q) > 0 /\ DOMAIN q = 1..Len(q) /\ Tail(q) \in Seq(S)
      /\ Head(q) = q[1] /\ DOMAIN Tail(q) = 1..(Len(q) - 1)
  OBVIOUS
<1>2. \A k \in 1..(Len(q) - 1) : Tail(q)[k] = q[k + 1] /\ k + 1 \in DOMAIN q
  BY <1>1
<1>3. Elements(Tail(q)) \subseteq Elements(q)
  BY <1>1, <1>2 DEF Elements
<1>4. ASSUME NEW k \in DOMAIN q PROVE q[k] \in Elements(Tail(q)) \cup {Head(q)}
  <2>1. CASE k = 1
    BY <1>1, <2>1
  <2>2. CASE k # 1
    <3>1. k - 1 \in 1..(Len(q) - 1) /\ (k - 1) + 1 = k
      BY <1>1, <2>2
    <3>2. Tail(q)[k - 1] = q[k]
      BY <1>2, <3>1
    <3> QED BY <1>1, <3>1, <3>2 DEF Elements
  <2> QED BY <2>1, <2>2
<1> QED BY <1>1, <1>3, <1>4 DEF Elements

LEMMA LastSaysAppend ==
  ASSUME NEW S, NEW q \in Seq(S), NEW yes \in S, NEW no \in S, NEW c \in S
  PROVE  /\ c # no /\ LastSays(q, yes, no) => LastSays(Append(q, c), yes, no)
         /\ yes # no => LastSays(Append(q, yes), yes, no)
<1>1. \A d \in S : /\ DOMAIN q = 1..Len(q) /\ Len(q) \in Nat
                   /\ DOMAIN Append(q, d) = 1..(Len(q) + 1)
                   /\ \A k \in 1..Len(q) : Append(q, d)[k] = q[k]
                   /\ Append(q, d)[Len(q) + 1] = d
  OBVIOUS
<1>2. ASSUME c # no, LastSays(q, yes, no) PROVE LastSays(Append(q, c), yes, no)
  <2>1. PICK k \in DOMAIN q : q[k] = yes /\ \A l \in DOMAIN q : l > k => q[l] # no
    BY <1>2 DEF LastSays
  <2>2. k \in DOMAIN Append(q, c) /\ Append(q, c)[k] = yes
    BY <1>1, <2>1
  <2>3. ASSUME NEW l \in DOMAIN Append(q, c), l > k PROVE Append(q, c)[l] # no
    BY <1>1, <1>2, <2>1, <2>3
  <2> QED BY <2>2, <2>3 DEF LastSays
<1>3. ASSUME yes # no PROVE LastSays(Append(q, yes), yes, no)
  <2>1. /\ Len(q) + 1 \in DOMAIN Append(q, yes) /\ Append(q, yes)[Len(q) + 1] = yes
        /\ \A l \in DOMAIN Append(q, yes) : ~(l > Len(q) + 1)
    BY <1>1
  <2> QED BY <2>1 DEF LastSays
<1> QED BY <1>2, <1>3

LEMMA LastSaysTail ==
  ASSUME NEW S, NEW q \in Seq(S), q # <<>>, NEW yes, NEW no, LastSays(q, yes, no)
  PROVE  \/ LastSays(Tail(q), yes, no)
         \/ Head(q) = yes /\ no \notin Elements(Tail(q))
<1>1. /\ Len(q) \in Nat /\ Len(q) > 0 /\ DOMAIN q = 1..Len(q)
      /\ Head(q) = q[1] /\ DOMAIN Tail(q) = 1..(Len(q) - 1)
  OBVIOUS
<1>2. \A k \in 1..(Len(q) - 1) : Tail(q)[k] = q[k + 1] /\ k + 1 \in DOMAIN q
  BY <1>1
<1>3. PICK k \in DOMAIN q : q[k] = yes /\ \A l \in DOMAIN q : l > k => q[l] # no
  BY DEF LastSays
<1>4. CASE k = 1
  <2>1. \A l \in 1..(Len(q) - 1) : Tail(q)[l] # no
    BY <1>1, <1>2, <1>3, <1>4
  <2> QED BY <1>1, <1>3, <1>4, <2>1 DEF Elements
<1>5. CASE k # 1
  <2>1. k - 1 \in 1..(Len(q) - 1) /\ (k - 1) + 1 = k
    BY <1>1, <1>5
  <2>2. Tail(q)[k - 1] = yes
    BY <1>2, <1>3, <2>1
  <2>3. \A l \in 1..(Len(q) - 1) : l > k - 1 => Tail(q)[l] # no
    BY <1>1, <1>2, <1>3
  <2> QED BY <1>1, <2>1, <2>2, <2>3 DEF LastSays
<1> QED BY <1>4, <1>5

-----------------------------------------------------------------------------
\* What the script's operations do to a station's uplink flow.
LEMMA StationsAreSources == \A s \in Stations : s # AnySource
BY DatapathAssumption

LEMMA UplinkBound ==
  ASSUME DatapathInv, NEW s \in Stations, NEW i \in Interfaces, HasUplink(s, i)
  PROVE  /\ ports[i] \in PortNumbers /\ ports[i] # 0
         /\ ports[Ethernet] \in PortNumbers /\ ports[Ethernet] # 0
<1>1. /\ Uplink(ports[Ethernet], s, ports[i]) \in flows
      /\ Uplink(ports[Ethernet], s, ports[i]).output = ports[i]
      /\ Uplink(ports[Ethernet], s, ports[i]).in_port = ports[Ethernet]
  BY DEF HasUplink, Uplink
<1>2. Uplink(ports[Ethernet], s, ports[i]) \in Flows
  BY <1>1 DEF DatapathInv, DatapathTypeOK
<1> QED BY <1>1, <1>2, FlowType, PortNumbersPositive

LEMMA UplinkAfterAdd ==
  ASSUME DatapathInv, DatapathInv', NEW f \in Interfaces, Add(f)
  PROVE  /\ \A j \in AllInterfaces : ports[j] # 0 => ports'[j] = ports[j]
         /\ \A j \in Interfaces : j # f => ports'[j] = ports[j]
         /\ ports'[f] # 0 /\ ports'[Ethernet] # 0
         /\ \A s \in Stations, i \in Interfaces :
              Findable(i)' => (HasUplink(s, i)' <=> HasUplink(s, i))
<1>1. PICK e \in NumberFor(ports, Ethernet) :
        \E v \in NumberFor([ports EXCEPT ![Ethernet] = e], f) :
          /\ ports' = [[ports EXCEPT ![Ethernet] = e] EXCEPT ![f] = v]
          /\ flows' = IF ports[f] = 0 THEN AddFlow(Downlink(v, e)) ELSE flows
  BY Zenon DEF Add
<1>2. PICK v \in NumberFor([ports EXCEPT ![Ethernet] = e], f) :
          /\ ports' = [[ports EXCEPT ![Ethernet] = e] EXCEPT ![f] = v]
          /\ flows' = IF ports[f] = 0 THEN AddFlow(Downlink(v, e)) ELSE flows
  BY <1>1, Zenon
<1>3. /\ e \in PortNumbers /\ v \in PortNumbers
      /\ ports'[Ethernet] = e
      /\ \A j \in AllInterfaces : ports[j] # 0 => ports'[j] = ports[j]
  BY <1>2, AddPorts
<1>4. /\ ports \in [AllInterfaces -> PortNumbers \cup {0}]
      /\ f \in AllInterfaces /\ Ethernet \in AllInterfaces /\ f # Ethernet
      /\ Interfaces \subseteq AllInterfaces /\ Ethernet \notin Interfaces
  BY DatapathAssumption DEF DatapathInv, DatapathTypeOK, AllInterfaces
<1>5. /\ ports'[f] = v /\ ports'[f] # 0 /\ ports'[Ethernet] # 0
      /\ \A j \in Interfaces : j # f => ports'[j] = ports[j]
  BY <1>2, <1>3, <1>4, PortNumbersPositive
<1>6. \A g : IsUplink(g) => (g \in flows' <=> g \in flows)
  <2>1. ~IsUplink(Downlink(v, e)) /\ Downlink(v, e).dl_src = AnySource
    BY DEF Downlink, IsUplink
  <2>2. flows' = flows \/ flows' = {g \in flows : ~(/\ g.in_port = Downlink(v, e).in_port
                                                    /\ g.dl_src = Downlink(v, e).dl_src)}
                                   \cup {Downlink(v, e)}
    BY <1>2 DEF AddFlow
  <2> HIDE DEF Downlink
  <2> QED BY <2>1, <2>2 DEF IsUplink
<1>7. ASSUME NEW s \in Stations, NEW i \in Interfaces, HasUplink(s, i) PROVE HasUplink(s, i)'
  <2>1. ports'[i] = ports[i] /\ ports'[Ethernet] = ports[Ethernet]
    BY <1>3, <1>4, <1>7, UplinkBound
  <2>2. IsUplink(Uplink(ports[Ethernet], s, ports[i]))
    BY StationsAreSources DEF Uplink, IsUplink
  <2> QED BY <1>6, <1>7, <2>1, <2>2 DEF HasUplink
<1>8. ASSUME NEW s \in Stations, NEW i \in Interfaces, Findable(i)', HasUplink(s, i)'
      PROVE  HasUplink(s, i)
  <2>1. PICK u : u = Uplink(ports'[Ethernet], s, ports'[i])
    OBVIOUS
  <2>2. /\ IsUplink(u) /\ u \in flows /\ u.in_port = ports'[Ethernet] /\ u.output = ports'[i]
    <3>1. IsUplink(u) /\ u.in_port = ports'[Ethernet] /\ u.output = ports'[i]
      BY <2>1, StationsAreSources DEF Uplink, IsUplink
    <3>2. u \in flows'
      BY <1>8, <2>1 DEF HasUplink
    <3> QED BY <1>6, <3>1, <3>2
  <2>3. u.in_port = ports[Ethernet] /\ \E j \in Interfaces : ports[j] = u.output
    BY <1>8, <2>2 DEF DatapathInv, UplinksFromEthernet, UplinksLeadToBoundPorts, Findable
  <2>4. PICK j \in Interfaces : ports[j] = ports'[i]
    BY <2>2, <2>3
  <2>5. ports[j] # 0
    BY <2>2, <2>4, FlowType, PortNumbersPositive DEF DatapathInv, DatapathTypeOK
  <2>6. ports'[j] = ports'[i] /\ ports'[j] # 0
    BY <1>3, <1>4, <2>4, <2>5
  <2>7. j = i
    BY <2>6 DEF DatapathInv, PortsDiffer
  <2> QED BY <2>1, <2>2, <2>3, <2>4, <2>7 DEF HasUplink
<1> QED BY <1>3, <1>5, <1>7, <1>8

LEMMA UplinkAfterRemove ==
  ASSUME DatapathInv, NEW f \in Interfaces, Remove(f)
  PROVE  /\ \A j \in AllInterfaces : j # f => ports'[j] = ports[j]
         /\ ports'[f] = 0
         /\ \A s \in Stations, i \in Interfaces :
              (i # f /\ Findable(i)) => (HasUplink(s, i)' <=> HasUplink(s, i))
<1>1. /\ ports \in [AllInterfaces -> PortNumbers \cup {0}]
      /\ ports' = [ports EXCEPT ![f] = 0]
      /\ f \in AllInterfaces /\ Ethernet \in AllInterfaces /\ f # Ethernet
      /\ Interfaces \subseteq AllInterfaces
  BY DatapathAssumption DEF DatapathInv, DatapathTypeOK, AllInterfaces, Remove
<1>2. ports'[f] = 0 /\ \A j \in AllInterfaces : j # f => ports'[j] = ports[j]
  BY <1>1
<1>3. /\ flows' \subseteq flows
      /\ \A g \in flows : (IsUplink(g) /\ g \notin flows') => FirstDigit(g.output) = ports[f]
  BY RemoveUplinks
<1>4. ASSUME NEW s \in Stations, NEW i \in Interfaces, i # f, Findable(i)
      PROVE  HasUplink(s, i)' <=> HasUplink(s, i)
  <2>1. PICK u : u = Uplink(ports[Ethernet], s, ports[i])
    OBVIOUS
  <2>2. ports'[i] = ports[i] /\ ports'[Ethernet] = ports[Ethernet]
    BY <1>1, <1>2, <1>4
  <2>3. (HasUplink(s, i)' <=> u \in flows') /\ (HasUplink(s, i) <=> u \in flows)
    BY <2>1, <2>2 DEF HasUplink
  <2>4. IsUplink(u) /\ u.output = ports[i]
    BY <2>1, StationsAreSources DEF Uplink, IsUplink
  <2>5. u \in flows => ports[i] # ports[f]
    <3>1. ASSUME u \in flows PROVE ports[i] # 0
      BY <2>3, <3>1, UplinkBound
    <3> QED BY <1>4, <3>1 DEF DatapathInv, PortsDiffer
  <2>6. FirstDigit(ports[i]) = ports[i]
    <3>1. ports[i] \in PortNumbers \cup {0}
      BY <1>1
    <3>2. ports[i] \in Nat
      BY <3>1, PortOrNone
    <3>3. ports[i] < 10
      BY <1>4 DEF Findable
    <3> QED BY <3>2, <3>3, FirstDigitOfOne
  <2> QED BY <1>3, <2>3, <2>4, <2>5, <2>6
<1> QED BY <1>2, <1>4

LEMMA UplinkAfterAssociate ==
  ASSUME DatapathInv, NEW m \in Stations, NEW j \in Interfaces, Associate(m, j)
  PROVE  /\ ports' = ports
         /\ \A s \in Stations, i \in Interfaces : s # m => (HasUplink(s, i)' <=> HasUplink(s, i))
         /\ \A i \in Interfaces : i # j => (HasUplink(m, i)' => HasUplink(m, i))
         /\ ports[j] # 0 /\ ports[Ethernet] # 0 => HasUplink(m, j)'
<1>1. ports' = ports
  BY DEF Associate
<1>2. CASE flows' = flows /\ ~(ports[j] # 0 /\ ports[Ethernet] # 0)
  BY <1>1, <1>2 DEF HasUplink
<1>3. CASE ports[j] # 0 /\ ports[Ethernet] # 0
  <2>1. PICK u : u = Uplink(ports[Ethernet], m, ports[j])
    OBVIOUS
  <2>2. u.dl_src = m /\ u.output = ports[j] /\ u.in_port = ports[Ethernet]
    BY <2>1, StationsAreSources DEF Uplink, IsUplink
  <2>3. flows' = {g \in flows : ~(g.in_port = u.in_port /\ g.dl_src = u.dl_src)} \cup {u}
    BY <1>3, <2>1 DEF Associate, AddFlow
  <2>4. HasUplink(m, j)'
    BY <1>1, <2>1, <2>3 DEF HasUplink
  <2>5. ASSUME NEW s \in Stations, NEW i \in Interfaces, s # m
        PROVE  HasUplink(s, i)' <=> HasUplink(s, i)
    <3>1. PICK w : w = Uplink(ports[Ethernet], s, ports[i])
      OBVIOUS
    <3>2. w.dl_src = s
      BY <3>1 DEF Uplink
    <3>3. w \in flows' <=> w \in flows
      BY <2>2, <2>3, <2>5, <3>2
    <3> QED BY <1>1, <3>1, <3>3 DEF HasUplink
  <2>6. ASSUME NEW i \in Interfaces, i # j, HasUplink(m, i)' PROVE HasUplink(m, i)
    <3>1. PICK w : w = Uplink(ports[Ethernet], m, ports[i])
      OBVIOUS
    <3>2. w.output = ports[i]
      BY <3>1 DEF Uplink
    <3>3. ports[i] # ports[j]
      BY <1>3, <2>6 DEF DatapathInv, PortsDiffer
    <3>4. w \in flows'
      BY <1>1, <2>6, <3>1 DEF HasUplink
    <3>5. w \in flows
      BY <2>2, <2>3, <3>2, <3>3, <3>4
    <3> QED BY <3>1, <3>5 DEF HasUplink
  <2> QED BY <1>1, <2>4, <2>5, <2>6
<1> QED BY <1>2, <1>3 DEF Associate

LEMMA UplinkAfterDisassociate ==
  ASSUME DatapathInv, NEW m \in Stations, NEW j, Disassociate(m, j)
  PROVE  /\ ports' = ports
         /\ \A s \in Stations, i \in Interfaces : s # m => (HasUplink(s, i)' <=> HasUplink(s, i))
         /\ \A i \in Interfaces : ~HasUplink(m, i)'
<1>1. ports' = ports /\ flows' = {g \in flows : ~(g.in_port = ports[Ethernet] /\ g.dl_src \in {m})}
  BY DEF Disassociate, RemoveFlows
<1>2. ASSUME NEW s \in Stations, NEW i \in Interfaces
      PROVE  HasUplink(s, i)' <=> (s # m /\ HasUplink(s, i))
  <2>1. PICK w : w = Uplink(ports[Ethernet], s, ports[i])
    OBVIOUS
  <2>2. w.dl_src = s /\ w.in_port = ports[Ethernet]
    BY <2>1, StationsAreSources DEF Uplink, IsUplink
  <2>3. w \in flows' <=> (s # m /\ w \in flows)
    BY <1>1, <2>2
  <2> QED BY <1>1, <2>1, <2>3 DEF HasUplink
<1> QED BY <1>1, <1>2

-----------------------------------------------------------------------------
\* What only ever grows.
LEMMA Grows ==
  ASSUME DpmInv, [Next]_vars
  PROVE  /\ \A s \in Stations : joined[s] \subseteq joined'[s]
         /\ Known \cup removed \subseteq Known' \cup removed'
         /\ failed \subseteq failed' /\ removed \subseteq removed'
<1>1. CASE HostapdChange
  <2>1. /\ UNCHANGED <<interface_mac, removed, failed>>
        /\ \/ \E s \in Stations, i \in Interfaces : joined' = [joined EXCEPT ![s] = @ \cup {i}]
           \/ joined' = joined
    BY <1>1 DEF HostapdChange, dpmVars, warpSide
  <2>2. \A s \in Stations : joined[s] \subseteq joined'[s]
    BY <2>1 DEF DpmInv, AgentTypeOK
  <2> QED BY <2>1, <2>2 DEF Known
<1>2. CASE ManagerCommand \/ WalkBegin \/ AllStations \/ Difference \/ QueueCommand
           \/ Initialize \/ UNCHANGED vars
  <2>1. UNCHANGED <<interface_mac, removed, failed, joined>>
    BY <1>2 DEF ManagerCommand, WalkBegin, AllStations, Difference, Undefined, QueueCommand,
         Initialize, vars, dpmVars, walkVars, hostapdVars, warpSide
  <2> QED BY <2>1 DEF Known
<1>3. CASE Record
  <2>1. UNCHANGED <<removed, failed, joined>>
    BY <1>3 DEF Record, Undefined, dpmVars, walkVars, hostapdVars, warpSide
  <2>2. Known' = Known
    BY <1>3 DEF Record, Undefined, dpmVars, Known
  <2> QED BY <2>1, <2>2
<1>4. CASE ParseCommand
  <2>1. UNCHANGED <<interface_mac, removed, joined>>
    BY <1>4 DEF ParseCommand, dpmVars, walkVars, hostapdVars
  <2>2. failed \subseteq failed'
    BY <1>4 DEF ParseCommand, RadioSet, Delete, StationCommand, GiveUp, GiveUpHalfDone, GoOn, GoOnStale
  <2> QED BY <2>1, <2>2 DEF Known
<1>5. CASE \/ MonSync \/ AddBssid \/ AddPort \/ RemoveBegin \/ DisassociateStation \/ EraseBssid
           \/ RemovePort \/ DpmStation
  <2>1. UNCHANGED <<interface_mac, removed, failed, joined>>
    BY <1>5 DEF MonSync, AddBssid, AddPort, RemoveBegin, DisassociateStation, EraseBssid,
         RemovePort, DpmStation, dpmVars, walkVars, hostapdVars, warpSide
  <2> QED BY <2>1 DEF Known
<1>6. CASE InsertInterface
  BY <1>6 DEF InsertInterface, walkVars, hostapdVars, warpSide, Known
<1>7. CASE EraseInterface
  BY <1>7 DEF EraseInterface, hostapdVars, warpSide, Known
<1> QED BY <1>1, <1>2, <1>3, <1>4, <1>5, <1>6, <1>7 DEF Next, TimedCheck, Parse

\* An announcement stays one.
LEMMA AnnouncementStays ==
  ASSUME \A s \in Stations : joined[s] \subseteq joined'[s],
         walk'.at = walk.at, walk'.output = walk.output,
         NEW c, \E m \in Stations : Announces(c, m)
  PROVE  \E m \in Stations : Announces(c, m)'
BY DEF Announces

LEMMA EmptyElements == Elements(<<>>) = {}
BY DEF Elements

\* The commands of Difference, as a set.
LEMMA DifferenceElements ==
  ASSUME DpmInv, Difference, ~Undefined
  PROVE  /\ walk.valid /\ walk.pc = "diff"
         /\ walk'.pc = "queue" /\ walk'.at = walk.at /\ walk'.output = walk.output
         /\ walk'.valid = walk.valid
         /\ walk.at \in Known
         /\ Elements(walk'.todo) =
              {Joins(m, walk.at) : m \in walk.output \ interface_mac[walk.at]}
              \cup {Leaves(m, walk.at) : m \in interface_mac[walk.at] \ walk.output}
         /\ UNCHANGED <<interface_mac, interface_bssid, hostapd, command_queue, commands,
                        changes, parser, joined, bssid_list, warp_macs, late, apart, failed,
            misspelt, unnamed,
                        removed, early, status, ports, flows, ovs, socket_path>>
<1> DEFINE known == interface_mac[walk.at]
           A == walk.output \ known
           B == known \ walk.output
<1>0. /\ walk.valid /\ walk.pc = "diff"
      /\ \E come \in Orders(A), go \in Orders(B) :
             walk' = [walk EXCEPT !.pc = "queue",
                        !.todo = [k \in 1..(Len(come) + Len(go)) |->
                                    IF k <= Len(come)
                                    THEN Command("associate", walk.at, come[k])
                                    ELSE Command("disassociate", walk.at, go[k - Len(come)])]]
      /\ UNCHANGED <<interface_mac, interface_bssid, hostapd, command_queue, commands,
                     changes, parser, joined, bssid_list, warp_macs, late, apart, failed,
            misspelt, unnamed,
                     removed, early, status, ports, flows, ovs, socket_path>>
  BY DEF Difference, bridgeVars, datapathVars, dpmVars, hostapdVars, queueVars, warpSide
<1>1. /\ walk \in WalkStates /\ walk.at \in Known
      /\ A \in SUBSET Stations /\ B \in SUBSET Stations
  BY <1>0, TypesUnfolded DEF DpmInv, AgentTypeOK, WalkOnMap, Known
<1> HIDE DEF A, B
<1>2. PICK come \in Orders(A), go \in Orders(B) :
             walk' = [walk EXCEPT !.pc = "queue",
                        !.todo = [k \in 1..(Len(come) + Len(go)) |->
                                    IF k <= Len(come)
                                    THEN Command("associate", walk.at, come[k])
                                    ELSE Command("disassociate", walk.at, go[k - Len(come)])]]
  BY <1>0
<1> DEFINE todo == [k \in 1..(Len(come) + Len(go)) |->
                        IF k <= Len(come)
                        THEN Command("associate", walk.at, come[k])
                        ELSE Command("disassociate", walk.at, go[k - Len(come)])]
<1>3. \A S \in SUBSET Stations : \A o \in Orders(S) :
        /\ Len(o) \in Nat /\ DOMAIN o = 1..Len(o)
        /\ \A k \in 1..Len(o) : o[k] \in S
        /\ \A x \in S : \E k \in 1..Len(o) : o[k] = x
  <2> SUFFICES ASSUME NEW S \in SUBSET Stations, NEW o \in Orders(S)
               PROVE  /\ Len(o) \in Nat /\ DOMAIN o = 1..Len(o)
                      /\ \A k \in 1..Len(o) : o[k] \in S
                      /\ \A x \in S : \E k \in 1..Len(o) : o[k] = x
    OBVIOUS
  <2>1. Cardinality(S) \in Nat
    BY DpmAssumption, FS_Subset, FS_CardinalityType
  <2>2. /\ o \in [1..Cardinality(S) -> S]
        /\ \A x \in S : \E k \in DOMAIN o : o[k] = x
    BY DEF Orders
  <2>3. o \in Seq(S) /\ Len(o) = Cardinality(S)
    BY <2>1, <2>2
  <2> QED BY <2>1, <2>2, <2>3
<1>4. /\ Len(come) \in Nat /\ \A k \in 1..Len(come) : come[k] \in A
      /\ \A x \in A : \E k \in 1..Len(come) : come[k] = x
      /\ Len(go) \in Nat /\ \A k \in 1..Len(go) : go[k] \in B
      /\ \A x \in B : \E k \in 1..Len(go) : go[k] = x
  BY <1>1, <1>3
<1>5. \A k \in 1..(Len(come) + Len(go)) :
        todo[k] = IF k <= Len(come) THEN Joins(come[k], walk.at)
                  ELSE Leaves(go[k - Len(come)], walk.at)
  BY DEF Joins, Leaves
<1>6. DOMAIN todo = 1..(Len(come) + Len(go))
  OBVIOUS
<1>7. walk' = [walk EXCEPT !.pc = "queue", !.todo = todo]
  BY <1>2
<1> HIDE DEF todo
<1>8. ASSUME NEW c \in Elements(todo)
      PROVE  c \in {Joins(m, walk.at) : m \in A} \cup {Leaves(m, walk.at) : m \in B}
  <2>1. PICK k \in 1..(Len(come) + Len(go)) : c = todo[k]
    BY <1>6 DEF Elements
  <2>2. CASE k <= Len(come)
    <3>1. k \in 1..Len(come)
      BY <1>4, <2>2
    <3> QED BY <1>4, <1>5, <2>1, <2>2, <3>1
  <2>3. CASE ~(k <= Len(come))
    <3>1. k - Len(come) \in 1..Len(go)
      BY <1>4, <2>3
    <3> QED BY <1>4, <1>5, <2>1, <2>3, <3>1
  <2> QED BY <2>2, <2>3
<1>9. ASSUME NEW m \in A PROVE Joins(m, walk.at) \in Elements(todo)
  <2>1. PICK k \in 1..Len(come) : come[k] = m
    BY <1>4
  <2>2. k \in 1..(Len(come) + Len(go)) /\ k <= Len(come)
    BY <1>4
  <2> QED BY <1>5, <1>6, <2>1, <2>2 DEF Elements
<1>10. ASSUME NEW m \in B PROVE Leaves(m, walk.at) \in Elements(todo)
  <2>1. PICK k \in 1..Len(go) : go[k] = m
    BY <1>4
  <2>2. /\ Len(come) + k \in 1..(Len(come) + Len(go)) /\ ~(Len(come) + k <= Len(come))
        /\ (Len(come) + k) - Len(come) = k
    BY <1>4
  <2>3. todo[Len(come) + k] = Leaves(m, walk.at)
    BY <1>5, <2>1, <2>2
  <2> QED BY <1>6, <2>2, <2>3 DEF Elements
<1>11. Elements(todo) = {Joins(m, walk.at) : m \in A} \cup {Leaves(m, walk.at) : m \in B}
  BY <1>8, <1>9, <1>10
<1>12. /\ walk'.pc = "queue" /\ walk'.at = walk.at /\ walk'.output = walk.output
       /\ walk'.valid = walk.valid /\ walk'.todo = todo
  BY <1>1, <1>7 DEF WalkStates
<1> QED BY <1>0, <1>1, <1>11, <1>12 DEF A, B

\* The walk goes to another interface or to the end of the map.
LEMMA WalkMoves ==
  ASSUME DpmInv, WalkBegin \/ (Record /\ ~Undefined)
  PROVE  /\ walk'.pc \in {"sleep", "ask"} /\ walk'.todo = walk.todo /\ walk'.valid = walk.valid
         /\ walk'.pc # "sleep" => walk'.at \in Known
         /\ Known' = Known
<1>1. PICK keys \in SUBSET Known : WalkTo(keys)
  BY DEF WalkBegin, Record, Ahead, Known
<1>2. walk \in WalkStates /\ Known' = Known
  BY DEF DpmInv, AgentTypeOK, WalkBegin, Record, dpmVars, Known
<1>3. CASE walk' = [walk EXCEPT !.pc = "sleep", !.at = 0, !.output = {}]
  BY <1>2, <1>3 DEF WalkStates
<1>4. ASSUME NEW i \in keys, walk' = [walk EXCEPT !.pc = "ask", !.at = i, !.output = {}]
      PROVE  /\ walk'.pc \in {"sleep", "ask"} /\ walk'.todo = walk.todo
             /\ walk'.valid = walk.valid /\ walk'.at \in Known
  BY <1>2, <1>4 DEF WalkStates
<1> QED BY <1>1, <1>2, <1>3, <1>4 DEF WalkTo

LEMMA WalkSoundStep ==
  ASSUME DpmInv, WalkSound, JoinedSound, [Next]_vars PROVE WalkSound'
<1>a. /\ \A s \in Stations : joined[s] \subseteq joined'[s]
      /\ Known \cup removed \subseteq Known' \cup removed'
  BY Grows
<1>b. /\ walk \in WalkStates /\ walk.pc \in {"sleep", "ask", "diff", "queue"}
      /\ walk.todo \in Seq(Commands)
  BY TypesUnfolded DEF DpmInv, AgentTypeOK
<1>1. CASE walk' = walk
  BY <1>1, <1>a, AnnouncementStays DEF WalkSound
<1>2. CASE WalkBegin \/ (Record /\ ~Undefined)
  <2>1. /\ walk'.pc \in {"sleep", "ask"} /\ walk'.todo = walk.todo /\ walk'.valid = walk.valid
        /\ walk'.pc # "sleep" => walk'.at \in Known /\ Known' = Known
    BY <1>2, WalkMoves
  <2>2. walk.todo = <<>> /\ walk.valid
    BY <1>2 DEF WalkBegin, Record, WalkSound
  <2>3. Elements(walk'.todo) = {}
    BY <2>1, <2>2, EmptyElements
  <2> QED BY <2>1, <2>2, <2>3 DEF WalkSound
<1>3. CASE AllStations
  <2>1. /\ walk' = [walk EXCEPT !.pc = "diff", !.output = hostapd[walk.at]] /\ walk.pc = "ask"
    BY <1>3 DEF AllStations
  <2>2. /\ walk'.pc = "diff" /\ walk'.todo = walk.todo /\ walk'.at = walk.at
    BY <1>b, <2>1 DEF WalkStates
  <2>3. walk.todo = <<>> /\ walk.at \in Known \cup removed
    BY <2>1 DEF WalkSound
  <2>4. Elements(walk'.todo) = {}
    BY <2>2, <2>3, EmptyElements
  <2> QED BY <1>a, <2>2, <2>3, <2>4 DEF WalkSound
<1>4. CASE Difference /\ ~Undefined
  <2>1. /\ walk.pc = "diff"
        /\ walk'.pc = "queue" /\ walk'.at = walk.at /\ walk'.output = walk.output
        /\ walk.at \in Known
        /\ Elements(walk'.todo) =
              {Joins(m, walk.at) : m \in walk.output \ interface_mac[walk.at]}
              \cup {Leaves(m, walk.at) : m \in interface_mac[walk.at] \ walk.output}
    BY <1>4, DifferenceElements
  <2>2. /\ walk.output \subseteq Stations /\ interface_mac[walk.at] \subseteq Stations
    BY <2>1, TypesUnfolded DEF DpmInv, AgentTypeOK, Known
  <2>3. /\ \A m \in walk.output : walk.at \in joined[m]
        /\ \A m \in interface_mac[walk.at] : walk.at \in joined[m]
    BY <2>1 DEF JoinedSound
  <2>4. ASSUME NEW c \in Elements(walk'.todo) PROVE \E m \in Stations : Announces(c, m)'
    <3>1. CASE \E m \in walk.output \ interface_mac[walk.at] : c = Joins(m, walk.at)
      BY <1>a, <2>1, <2>2, <2>3, <3>1 DEF Announces
    <3>2. CASE \E m \in interface_mac[walk.at] \ walk.output : c = Leaves(m, walk.at)
      BY <1>a, <2>1, <2>2, <2>3, <3>2 DEF Announces
    <3> QED BY <2>1, <3>1, <3>2
  <2> QED BY <1>a, <2>1, <2>4 DEF WalkSound
<1>5. CASE QueueCommand /\ walk' # walk
  <2>1. walk' = [walk EXCEPT !.todo = Tail(walk.todo)] /\ walk.pc = "queue" /\ walk.todo # <<>>
    BY <1>5 DEF QueueCommand
  <2>2. UNCHANGED <<walk.pc, walk.at, walk.output, walk.valid>> /\ walk'.todo = Tail(walk.todo)
    BY <1>b, <2>1 DEF WalkStates
  <2>3. Elements(walk'.todo) \subseteq Elements(walk.todo)
    BY <1>b, <2>1, <2>2, TailElements
  <2> QED BY <1>a, <2>1, <2>2, <2>3, AnnouncementStays DEF WalkSound
<1>6. CASE EraseInterface
  <2> DEFINE v == walk.valid /\ ~(walk.pc \in {"ask", "diff", "queue"} /\ walk.at = Front.i)
  <2>1. walk' = [walk EXCEPT !.valid = v] /\ (walk.pc = "sleep" /\ walk.valid => v)
    BY <1>6 DEF EraseInterface
  <2> HIDE DEF v
  <2>2. UNCHANGED <<walk.pc, walk.at, walk.output, walk.todo>> /\ walk'.valid = v
    BY <1>b, <2>1 DEF WalkStates
  <2> QED BY <1>a, <2>1, <2>2, AnnouncementStays DEF WalkSound
<1>7. CASE \/ HostapdChange \/ ManagerCommand \/ Initialize \/ UNCHANGED vars \/ Undefined
           \/ ParseCommand \/ MonSync \/ AddBssid \/ InsertInterface \/ AddPort \/ RemoveBegin
           \/ DisassociateStation \/ EraseBssid \/ RemovePort \/ DpmStation
  <2>1. walk' = walk
    BY <1>7 DEF HostapdChange, ManagerCommand, Initialize, vars, Undefined, ParseCommand,
         MonSync, AddBssid, InsertInterface, AddPort, RemoveBegin, DisassociateStation,
         EraseBssid, RemovePort, DpmStation, walkVars
  <2> QED BY <1>1, <2>1
<1> QED
  BY <1>1, <1>2, <1>3, <1>4, <1>5, <1>6, <1>7 DEF Next, TimedCheck, Parse

LEMMA JoinedSoundStep ==
  ASSUME DpmInv, DpmInv', WalkSound, JoinedSound, [Next]_vars PROVE JoinedSound'
<1>a. /\ \A s \in Stations : joined[s] \subseteq joined'[s]
      /\ Known \cup removed \subseteq Known' \cup removed'
  BY Grows
<1>b. /\ walk \in WalkStates /\ walk.pc \in {"sleep", "ask", "diff", "queue"}
      /\ walk.todo \in Seq(Commands) /\ command_queue \in Seq(Commands)
      /\ walk.output \subseteq Stations /\ parser.todo \subseteq Stations
      /\ hostapd \in [Interfaces -> SUBSET Stations]
      /\ Known \subseteq Interfaces /\ interface_mac \in [Known -> SUBSET Stations]
      /\ parser \in [pc : ParserPlaces, todo : SUBSET Stations]
      /\ parser.pc # "idle" => command_queue # <<>>
  BY TypesUnfolded DEF DpmInv, AgentTypeOK, Known, ParserAtWork
<1>c. \A c \in Commands : StationSound(c) => StationSound(c)'
  BY <1>a, CommandType DEF StationSound
<1>d. \A c \in Elements(command_queue) : c \in Commands
  BY <1>b DEF Elements
<1> DEFINE AtHostapd == \A i \in Interfaces : \A s \in hostapd[i] : i \in joined[s]
           AtMap == \A i \in Known : \A s \in interface_mac[i] : i \in joined[s]
           AtWalk == walk.pc \in {"diff", "queue"} =>
                       \A s \in walk.output : walk.at \in joined[s]
           AtQueue == \A c \in Elements(command_queue) : StationSound(c)
           AtParser == parser.pc = "disassociating" =>
                         \A s \in parser.todo : Front.i \in joined[s]
<1>1. AtHostapd'
  <2>1. AtHostapd
    BY DEF JoinedSound
  <2>2. CASE hostapd' = hostapd
    BY <1>a, <1>b, <2>1, <2>2
  <2>3. CASE HostapdChange
    <3>1. PICK s \in Stations, i \in Interfaces :
            \/ /\ hostapd' = [hostapd EXCEPT ![i] = @ \cup {s}]
               /\ joined' = [joined EXCEPT ![s] = @ \cup {i}]
            \/ hostapd' = [hostapd EXCEPT ![i] = @ \ {s}]
      BY <2>3 DEF HostapdChange
    <3>2. joined \in [Stations -> SUBSET Interfaces]
      BY DEF DpmInv, AgentTypeOK
    <3>3. CASE hostapd' = [hostapd EXCEPT ![i] = @ \ {s}]
      BY <1>a, <1>b, <2>1, <3>3
    <3>4. CASE /\ hostapd' = [hostapd EXCEPT ![i] = @ \cup {s}]
               /\ joined' = [joined EXCEPT ![s] = @ \cup {i}]
      BY <1>a, <1>b, <2>1, <3>2, <3>4
    <3> QED BY <3>1, <3>3, <3>4
  <2>4. HostapdChange \/ hostapd' = hostapd
    BY DEF Next, TimedCheck, Parse, ManagerCommand, WalkBegin, AllStations, Difference, Undefined,
       QueueCommand, Record, Initialize, vars, ParseCommand, MonSync, AddBssid, InsertInterface,
       AddPort, RemoveBegin, DisassociateStation, EraseInterface, EraseBssid, RemovePort,
       DpmStation, walkVars, hostapdVars
  <2> QED BY <2>2, <2>3, <2>4
<1>2. AtMap'
  <2>1. AtMap
    BY DEF JoinedSound
  <2>2. CASE interface_mac' = interface_mac
    BY <1>a, <1>b, <2>1, <2>2 DEF Known
  <2>3. CASE Record /\ ~Undefined
    <3>1. /\ interface_mac' = [interface_mac EXCEPT ![walk.at] = walk.output]
          /\ walk.pc = "queue"
      BY <2>3 DEF Record
    <3>2. \A s \in walk.output : walk.at \in joined[s]
      BY <3>1 DEF JoinedSound
    <3> QED BY <1>a, <1>b, <2>1, <3>1, <3>2 DEF Known
  <2>4. CASE InsertInterface
    BY <1>a, <1>b, <2>1, <2>4 DEF InsertInterface, Known
  <2>5. CASE EraseInterface
    BY <1>a, <1>b, <2>1, <2>5 DEF EraseInterface, Known
  <2>6. \/ (Record /\ ~Undefined) \/ InsertInterface \/ EraseInterface
        \/ interface_mac' = interface_mac
    BY DEF Next, TimedCheck, Parse, HostapdChange, ManagerCommand, WalkBegin, AllStations,
       Difference, Undefined, QueueCommand, Record, Initialize, vars, ParseCommand, MonSync,
       AddBssid, AddPort, RemoveBegin, DisassociateStation, EraseBssid, RemovePort,
       DpmStation, dpmVars
  <2> QED BY <2>2, <2>3, <2>4, <2>5, <2>6
<1>3. AtWalk'
  <2>1. AtWalk
    BY DEF JoinedSound
  <2>2. CASE UNCHANGED <<walk.pc, walk.at, walk.output>>
    BY <1>a, <1>b, <2>1, <2>2
  <2>3. CASE WalkBegin \/ (Record /\ ~Undefined)
    BY <2>3, WalkMoves
  <2>4. CASE AllStations
    <3>1. walk' = [walk EXCEPT !.pc = "diff", !.output = hostapd[walk.at]] /\ walk.at \in Interfaces
      BY <2>4 DEF AllStations, DpmInv, WalkOnMap
    <3>2. walk'.at = walk.at /\ walk'.output = hostapd[walk.at]
      BY <1>b, <3>1 DEF WalkStates
    <3>3. \A s \in hostapd[walk.at] : walk.at \in joined[s] /\ s \in Stations
      BY <1>b, <3>1 DEF JoinedSound
    <3> QED BY <1>a, <3>2, <3>3
  <2>5. CASE Difference /\ ~Undefined
    BY <1>a, <1>b, <2>1, <2>5, DifferenceElements
  <2>6. CASE QueueCommand \/ EraseInterface
    <3>1. UNCHANGED <<walk.pc, walk.at, walk.output>>
      BY <1>b, <2>6 DEF QueueCommand, EraseInterface, WalkStates
    <3> QED BY <2>2, <3>1
  <2>7. CASE walk' = walk
    BY <2>2, <2>7
  <2>8. \/ WalkBegin \/ (Record /\ ~Undefined) \/ AllStations \/ (Difference /\ ~Undefined)
        \/ QueueCommand \/ EraseInterface \/ walk' = walk
    BY DEF Next, TimedCheck, Parse, HostapdChange, ManagerCommand, Undefined, Initialize, vars,
       ParseCommand, MonSync, AddBssid, InsertInterface, AddPort, RemoveBegin,
       DisassociateStation, EraseBssid, RemovePort, DpmStation, walkVars
  <2> QED BY <2>3, <2>4, <2>5, <2>6, <2>7, <2>8
<1>4. AtQueue'
  <2>1. AtQueue
    BY DEF JoinedSound
  <2>2. CASE command_queue' = command_queue
    BY <1>c, <1>d, <2>1, <2>2
  <2>3. CASE command_queue # <<>> /\ command_queue' = Tail(command_queue)
    <3>1. Elements(command_queue') \subseteq Elements(command_queue)
      BY <1>b, <2>3, TailElements
    <3> QED BY <1>c, <1>d, <2>1, <3>1
  <2>4. ASSUME NEW c \in Commands, command_queue' = Append(command_queue, c), StationSound(c)
        PROVE  AtQueue'
    <3>1. Elements(Append(command_queue, c)) = Elements(command_queue) \cup {c}
      BY <1>b, ListAppend
    <3> QED BY <1>c, <1>d, <2>1, <2>4, <3>1
  <2>5. CASE ManagerCommand
    <3>1. PICK name \in {"radio_set", "delete"}, i \in Interfaces :
            command_queue' = Append(command_queue, Command(name, i, NoStation))
      BY <2>5 DEF ManagerCommand
    <3>2. StationSound(Command(name, i, NoStation)) /\ Command(name, i, NoStation) \in Commands
      BY CommandOf DEF StationSound, Command
    <3> QED BY <2>4, <3>1, <3>2
  <2>6. CASE QueueCommand /\ command_queue' # command_queue
    <3>1. /\ command_queue' = Append(command_queue, Head(walk.todo))
          /\ walk.pc = "queue" /\ walk.todo # <<>>
      BY <2>6 DEF QueueCommand
    <3>2. Head(walk.todo) \in Elements(walk.todo) /\ Head(walk.todo) \in Commands
      BY <1>b, <3>1, TailElements
    <3>3. PICK m \in Stations : Announces(Head(walk.todo), m)
      BY <3>2 DEF WalkSound
    <3>4. walk.at \in joined[m] /\ walk.at \in Known \cup removed
      BY <3>1, <3>3 DEF WalkSound, Announces
    <3>5. Head(walk.todo).i = walk.at /\ Head(walk.todo).mac = m
      BY <3>3, StationCommands DEF Announces
    <3>6. StationSound(Head(walk.todo))
      BY <3>4, <3>5 DEF StationSound
    <3> QED BY <2>4, <3>1, <3>2, <3>6
  <2>7. \/ ManagerCommand \/ QueueCommand
        \/ command_queue # <<>> /\ command_queue' = Tail(command_queue)
        \/ command_queue' = command_queue
    BY <1>b DEF Next, TimedCheck, Parse, HostapdChange, Undefined, Initialize, vars,
       WalkBegin, AllStations, Difference, Record,
       ParseCommand, MonSync, AddBssid, InsertInterface, AddPort, RemoveBegin,
       DisassociateStation, EraseInterface, EraseBssid, RemovePort, DpmStation, queueVars,
       RadioSet, Delete, StationCommand, GiveUp, GiveUpHalfDone, GoOn, GoOnStale, Done
  <2> QED BY <2>2, <2>3, <2>5, <2>6, <2>7
<1>5. AtParser'
  <2>1. AtParser
    BY DEF JoinedSound
  <2>2. CASE parser'.pc # "disassociating"
    BY <2>2
  <2>3. CASE parser' = parser /\ (parser.pc # "idle" => Front' = Front)
    BY <1>a, <1>b, <2>1, <2>3
  <2>4. CASE RemoveBegin
    <3>1. /\ Front' = Front
          /\ parser' = parser \/ (Front.i \in Known /\ parser'.todo = interface_mac[Front.i])
      BY <2>4 DEF RemoveBegin, Front, queueVars, Known
    <3>2. CASE parser' = parser
      BY <2>3, <3>1, <3>2
    <3>3. CASE Front.i \in Known /\ parser'.todo = interface_mac[Front.i]
      <4>1. \A s \in interface_mac[Front.i] : s \in Stations /\ Front.i \in joined[s]
        BY <1>b, <3>3 DEF JoinedSound
      <4> QED BY <1>a, <3>1, <3>3, <4>1
    <3> QED BY <3>1, <3>2, <3>3
  <2>5. CASE DisassociateStation
    <3>1. /\ parser.pc = "disassociating" /\ Front' = Front
          /\ \E s : parser' = [parser EXCEPT !.todo = @ \ {s}]
      BY <2>5 DEF DisassociateStation, Front, queueVars
    <3>2. parser'.todo \subseteq parser.todo
      BY <1>b, <3>1
    <3> QED BY <1>a, <1>b, <2>1, <3>1, <3>2
  <2>6. CASE ManagerCommand \/ QueueCommand
    <3>1. /\ parser' = parser
          /\ \/ \E c \in Commands : command_queue' = Append(command_queue, c)
             \/ command_queue' = command_queue
      BY <1>b, <2>6, ServiceSeen, CommandOf, TailElements DEF ManagerCommand, QueueCommand
    <3>2. parser.pc # "idle" => Front' = Front
      <4>1. CASE command_queue' = command_queue
        BY <4>1 DEF Front
      <4>2. CASE \E c \in Commands : command_queue' = Append(command_queue, c)
        BY <1>b, <4>2, FrontStays
      <4> QED BY <3>1, <4>1, <4>2
    <3> QED BY <2>3, <3>1, <3>2
  <2>7. CASE HostapdChange \/ WalkBegin \/ AllStations \/ Difference \/ Record \/ Initialize
             \/ UNCHANGED vars
    <3>1. parser' = parser /\ Front' = Front
      BY <2>7 DEF HostapdChange, WalkBegin, AllStations, Difference, Undefined, Record,
           Initialize, vars, queueVars, Front
    <3> QED BY <2>3, <3>1
  <2>8. CASE \/ ParseCommand \/ MonSync \/ AddBssid \/ InsertInterface \/ AddPort
             \/ EraseInterface \/ EraseBssid \/ RemovePort \/ DpmStation
    <3>1. parser'.pc # "disassociating"
      BY <1>b, <2>8 DEF ParseCommand, MonSync, AddBssid, InsertInterface, AddPort,
         EraseInterface, EraseBssid, RemovePort, DpmStation,
         RadioSet, Delete, StationCommand, GiveUp, GiveUpHalfDone, GoOn, GoOnStale, Done
    <3> QED BY <2>2, <3>1
  <2> QED BY <2>4, <2>5, <2>6, <2>7, <2>8 DEF Next, TimedCheck, Parse
<1> QED BY <1>1, <1>2, <1>3, <1>4, <1>5 DEF JoinedSound

\* A run of the script that is not early does what it says.
LEMMA ScriptRuns ==
  ASSUME NEW ACTION A, Script(A), AgentTypeOK, ~early'
  PROVE  A /\ ~early /\ ovs = "up" /\ ovs' = ovs
BY DEF Script, InitThrough, ExecuteCommand, AgentTypeOK

\* Threads other than the parsing thread leave its place and its command alone.
LEMMA ParserStill ==
  ASSUME DpmInv, \/ HostapdChange \/ ManagerCommand \/ TimedCheck \/ UNCHANGED vars
  PROVE  /\ UNCHANGED <<parser, ports, flows, ovs, early, Known, removed>>
         /\ parser.pc # "idle" => Front' = Front
<1>1. UNCHANGED <<parser, ports, flows, ovs, early, Known, removed>>
  BY DEF HostapdChange, ManagerCommand, TimedCheck, WalkBegin, AllStations, Difference,
     QueueCommand, Record, Undefined, vars, bridgeVars, datapathVars, dpmVars, Known
<1>2. \/ \E c \in Commands : command_queue' = Append(command_queue, c)
      \/ command_queue' = command_queue
  <2>1. CASE ManagerCommand
    BY <2>1, CommandOf DEF ManagerCommand
  <2>2. CASE QueueCommand
    <3>1. Head(walk.todo) \in Commands
      BY <2>2, TypesUnfolded DEF QueueCommand, DpmInv
    <3> QED BY <2>2, <3>1 DEF QueueCommand
  <2>3. CASE HostapdChange \/ WalkBegin \/ AllStations \/ Difference \/ Record \/ UNCHANGED vars
    BY <2>3 DEF HostapdChange, WalkBegin, AllStations, Difference, Record, Undefined, vars,
       queueVars
  <2> QED BY <2>1, <2>2, <2>3 DEF TimedCheck
<1>3. parser.pc # "idle" => Front' = Front
  <2>1. CASE command_queue' = command_queue
    BY <2>1 DEF Front
  <2>2. CASE \E c \in Commands : command_queue' = Append(command_queue, c)
    BY <2>2, FrontStays DEF DpmInv, ParserAtWork, AgentTypeOK
  <2> QED BY <1>2, <2>1, <2>2
<1> QED BY <1>1, <1>3

LEMMA PortsSoundStep ==
  ASSUME DpmInv, DpmInv', DatapathInv, DatapathInv', PortsSound, [Next]_vars
  PROVE  PortsSound'
<1>a. Known \cup removed \subseteq Known' \cup removed'
  BY Grows
<1>b. /\ parser \in [pc : ParserPlaces, todo : SUBSET Stations]
      /\ Known \subseteq Interfaces /\ early \in BOOLEAN /\ early' \in BOOLEAN
      /\ Interfaces \subseteq AllInterfaces /\ Ethernet \in AllInterfaces
      /\ Ethernet \notin Interfaces
      /\ AgentTypeOK
  BY DatapathAssumption DEF DpmInv, AgentTypeOK, Known, AllInterfaces
<1>c. parser.pc # "idle" => command_queue # <<>> /\ Front.i \in Interfaces
  BY AtWork DEF DpmInv, ParserAtWork
<1>1. CASE HostapdChange \/ ManagerCommand \/ TimedCheck \/ UNCHANGED vars
  <2>1. /\ UNCHANGED <<parser, ports, flows, ovs, early, Known, removed>>
        /\ parser.pc # "idle" => Front' = Front
    BY <1>1, ParserStill
  <2> QED BY <2>1 DEF PortsSound
<1>2. CASE ParseCommand \/ MonSync \/ AddBssid \/ RemoveBegin \/ EraseInterface
  <2>1. /\ UNCHANGED <<ports, flows, ovs, early>>
        /\ parser.pc # "add" /\ parser'.pc \notin {"add", "remove"}
    BY <1>2, <1>b DEF ParseCommand, MonSync, AddBssid, RemoveBegin, EraseInterface, bridgeVars,
       datapathVars, RadioSet, Delete, StationCommand, GiveUp, GiveUpHalfDone, GoOn, GoOnStale, Done
  <2>2. Known' \subseteq Known
    BY <1>2 DEF ParseCommand, MonSync, AddBssid, RemoveBegin, EraseInterface, dpmVars, Known
  <2> QED BY <1>a, <2>1, <2>2 DEF PortsSound
<1>3. CASE InsertInterface
  <2>1. /\ UNCHANGED <<ports, flows, ovs, early>> /\ Front' = Front
        /\ parser.pc = "insert" /\ parser'.pc = "add" /\ Known' = Known \cup {Front.i}
    BY <1>3, <1>b DEF InsertInterface, bridgeVars, datapathVars, queueVars, Front, Known
  <2> QED BY <1>a, <2>1 DEF PortsSound
<1>4. CASE EraseBssid
  <2>1. /\ UNCHANGED <<ports, flows, ovs, early>> /\ Front' = Front
        /\ parser.pc = "erase" /\ parser'.pc = "remove" /\ Known' = Known
        /\ Front.i \notin Known
    BY <1>4, <1>b DEF EraseBssid, bridgeVars, datapathVars, queueVars, Front, Known, DpmInv,
       MapsFollowParser
  <2> QED BY <1>a, <2>1 DEF PortsSound
<1>5. CASE AddPort
  <2>1. /\ parser.pc = "add" /\ parser'.pc = "idle" /\ Known' = Known /\ Front.i \in Known
        /\ Script(Add(Front.i))
    BY <1>5 DEF AddPort, Done, dpmVars, Known, PortsSound
  <2>2. ASSUME Add(Front.i)
        PROVE  /\ \A j \in AllInterfaces : ports[j] # 0 => ports'[j] = ports[j]
               /\ \A j \in Interfaces : j # Front.i => ports'[j] = ports[j]
               /\ ports'[Front.i] # 0 /\ ports'[Ethernet] # 0
    BY <1>b, <2>1, <2>2, UplinkAfterAdd
  <2>3. ASSUME ~early' PROVE ~early /\ ovs = "up" /\ ovs' = ovs /\ Add(Front.i)
    BY <1>b, <2>1, <2>3, ScriptRuns
  <2>4. Add(Front.i) \/ ports' = ports
    BY <2>1 DEF Script, InitThrough, ExecuteCommand
  <2>5. \A i \in Interfaces : ports'[i] # 0 => i \in Known' \cup removed'
    BY <1>a, <1>b, <2>1, <2>2, <2>4 DEF PortsSound
  <2>6. ~early' => \A i \in Known' : ports'[i] # 0 /\ ports'[Ethernet] # 0
    BY <1>b, <2>1, <2>2, <2>3 DEF PortsSound
  <2> QED BY <2>1, <2>3, <2>5, <2>6 DEF PortsSound
<1>6. CASE RemovePort
  <2>1. /\ parser.pc = "remove" /\ parser'.pc = "idle" /\ Known' = Known /\ Front.i \notin Known
        /\ Script(Remove(Front.i)) /\ Front.i \in Interfaces
    BY <1>6, <1>c DEF RemovePort, Done, dpmVars, Known, PortsSound
  <2>2. ASSUME Remove(Front.i)
        PROVE  /\ \A j \in AllInterfaces : j # Front.i => ports'[j] = ports[j]
               /\ ports'[Front.i] = 0
    BY <2>1, <2>2, UplinkAfterRemove
  <2>3. ASSUME ~early' PROVE ~early /\ ovs = "up" /\ ovs' = ovs /\ Remove(Front.i)
    BY <1>b, <2>1, <2>3, ScriptRuns
  <2>4. Remove(Front.i) \/ ports' = ports
    BY <2>1 DEF Script, InitThrough, ExecuteCommand
  <2>5. \A i \in Interfaces : ports'[i] # 0 => i \in Known' \cup removed'
    BY <1>a, <1>b, <2>1, <2>2, <2>4 DEF PortsSound
  <2>6. ~early' => \A i \in Known' : ports'[i] # 0 /\ ports'[Ethernet] # 0
    BY <1>b, <2>1, <2>2, <2>3 DEF PortsSound
  <2> QED BY <2>1, <2>3, <2>5, <2>6 DEF PortsSound
<1>7. CASE DpmStation \/ DisassociateStation
  <2>1. /\ parser.pc \notin {"add", "remove"} /\ parser'.pc \notin {"add", "remove"}
        /\ Known' = Known
    BY <1>7, <1>b DEF DpmStation, DisassociateStation, Done, dpmVars, Known
  <2>2. ports' = ports
    BY <1>7 DEF DpmStation, DisassociateStation, Script, InitThrough, ExecuteCommand, Associate, Disassociate
  <2>3. ~early' => ~early /\ ovs = "up" /\ ovs' = ovs
    BY <1>7, <1>b DEF DpmStation, DisassociateStation, Script, InitThrough, ExecuteCommand
  <2> QED BY <1>a, <2>1, <2>2, <2>3 DEF PortsSound
<1>8. CASE Initialize
  <2>1. /\ UNCHANGED <<ports, early, Known, removed, parser>> /\ Front' = Front
        /\ \/ flows' = flows /\ (ovs' # "up" => ovs # "up")
           \/ flows' = {}
    BY <1>8 DEF Initialize, InitCreate, InitClear, ReadSocketPath, dpmVars, queueVars, Known, Front
  <2> QED BY <2>1 DEF PortsSound
<1> QED
  BY <1>1, <1>2, <1>3, <1>4, <1>5, <1>6, <1>7, <1>8 DEF Next, Parse

-----------------------------------------------------------------------------
\* How what is to come of a station's flow changes with the queue.
LEMMA HaveAfterTail ==
  ASSUME command_queue \in Seq(Commands), command_queue # <<>>,
         command_queue' = Tail(command_queue), walk'.todo = walk.todo,
         NEW s, NEW i, WillHave(s, i),
         Front = Joins(s, i) => HasUplink(s, i)',
         (Front # Joins(s, i) /\ Front # Leaves(s, i) /\ HasUplink(s, i)) => HasUplink(s, i)'
  PROVE  WillHave(s, i)'
<1>1. /\ Front \in Elements(command_queue)
      /\ Elements(Tail(command_queue)) \subseteq Elements(command_queue)
  BY TailElements DEF Front
<1>2. CASE HasUplink(s, i) /\ Leaves(s, i) \notin Elements(command_queue)
  <2>1. Leaves(s, i) \notin Elements(command_queue') /\ Front # Leaves(s, i)
    BY <1>1, <1>2
  <2>2. HasUplink(s, i)'
    BY <1>2, <2>1
  <2> QED BY <2>1, <2>2 DEF WillHave
<1>3. CASE LastSays(command_queue, Joins(s, i), Leaves(s, i))
  <2>1. \/ LastSays(Tail(command_queue), Joins(s, i), Leaves(s, i))
        \/ Front = Joins(s, i) /\ Leaves(s, i) \notin Elements(Tail(command_queue))
    BY <1>3, LastSaysTail DEF Front
  <2>2. CASE LastSays(Tail(command_queue), Joins(s, i), Leaves(s, i))
    BY <2>2 DEF WillHave
  <2>3. CASE Front = Joins(s, i) /\ Leaves(s, i) \notin Elements(Tail(command_queue))
    BY <2>3 DEF WillHave
  <2> QED BY <2>1, <2>2, <2>3
<1>4. CASE Joins(s, i) \in Elements(walk.todo)
  BY <1>4 DEF WillHave
<1> QED BY <1>2, <1>3, <1>4 DEF WillHave

LEMMA LackAfterTail ==
  ASSUME command_queue \in Seq(Commands), command_queue # <<>>,
         command_queue' = Tail(command_queue), walk'.todo = walk.todo,
         NEW s, NEW i, WillLack(s, i),
         Front = Leaves(s, i) => ~HasUplink(s, i)',
         (Front # Joins(s, i) /\ Front # Leaves(s, i) /\ HasUplink(s, i)') => HasUplink(s, i)
  PROVE  WillLack(s, i)'
<1>1. /\ Front \in Elements(command_queue)
      /\ Elements(Tail(command_queue)) \subseteq Elements(command_queue)
  BY TailElements DEF Front
<1>2. CASE ~HasUplink(s, i) /\ Joins(s, i) \notin Elements(command_queue)
  <2>1. Joins(s, i) \notin Elements(command_queue') /\ Front # Joins(s, i)
    BY <1>1, <1>2
  <2>2. ~HasUplink(s, i)'
    BY <1>2, <2>1
  <2> QED BY <2>1, <2>2 DEF WillLack
<1>3. CASE LastSays(command_queue, Leaves(s, i), Joins(s, i))
  <2>1. \/ LastSays(Tail(command_queue), Leaves(s, i), Joins(s, i))
        \/ Front = Leaves(s, i) /\ Joins(s, i) \notin Elements(Tail(command_queue))
    BY <1>3, LastSaysTail DEF Front
  <2>2. CASE LastSays(Tail(command_queue), Leaves(s, i), Joins(s, i))
    BY <2>2 DEF WillLack
  <2>3. CASE Front = Leaves(s, i) /\ Joins(s, i) \notin Elements(Tail(command_queue))
    BY <2>3 DEF WillLack
  <2> QED BY <2>1, <2>2, <2>3
<1>4. CASE Leaves(s, i) \in Elements(walk.todo)
  BY <1>4 DEF WillLack
<1> QED BY <1>2, <1>3, <1>4 DEF WillLack

\* A command that says nothing against it is queued.
LEMMA AfterAppend ==
  ASSUME command_queue \in Seq(Commands), NEW c \in Commands,
         command_queue' = Append(command_queue, c), UNCHANGED <<ports, flows>>,
         NEW s \in Stations, NEW i \in Interfaces,
         Elements(walk.todo) \subseteq Elements(walk'.todo) \cup {c}
  PROVE  /\ c # Leaves(s, i) /\ WillHave(s, i) => WillHave(s, i)'
         /\ c # Joins(s, i) /\ WillLack(s, i) => WillLack(s, i)'
<1>1. Elements(command_queue') = Elements(command_queue) \cup {c}
  BY ListAppend
<1>2. /\ Joins(s, i) \in Commands /\ Leaves(s, i) \in Commands /\ Joins(s, i) # Leaves(s, i)
  BY CommandOf, StationCommands DEF Joins, Leaves
<1>3. HasUplink(s, i)' <=> HasUplink(s, i)
  BY DEF HasUplink
<1>4. ASSUME c # Leaves(s, i), WillHave(s, i) PROVE WillHave(s, i)'
  <2>1. CASE HasUplink(s, i) /\ Leaves(s, i) \notin Elements(command_queue)
    BY <1>1, <1>3, <1>4, <2>1 DEF WillHave
  <2>2. CASE LastSays(command_queue, Joins(s, i), Leaves(s, i))
    <3>1. LastSays(Append(command_queue, c), Joins(s, i), Leaves(s, i))
      BY <1>2, <1>4, <2>2, LastSaysAppend
    <3> QED BY <3>1 DEF WillHave
  <2>3. CASE Joins(s, i) \in Elements(walk.todo)
    <3>1. CASE c = Joins(s, i)
      <4>1. LastSays(Append(command_queue, c), Joins(s, i), Leaves(s, i))
        BY <1>2, <3>1, LastSaysAppend
      <4> QED BY <4>1 DEF WillHave
    <3>2. CASE c # Joins(s, i)
      BY <2>3, <3>2 DEF WillHave
    <3> QED BY <3>1, <3>2
  <2> QED BY <1>4, <2>1, <2>2, <2>3 DEF WillHave
<1>5. ASSUME c # Joins(s, i), WillLack(s, i) PROVE WillLack(s, i)'
  <2>1. CASE ~HasUplink(s, i) /\ Joins(s, i) \notin Elements(command_queue)
    BY <1>1, <1>3, <1>5, <2>1 DEF WillLack
  <2>2. CASE LastSays(command_queue, Leaves(s, i), Joins(s, i))
    <3>1. LastSays(Append(command_queue, c), Leaves(s, i), Joins(s, i))
      BY <1>2, <1>5, <2>2, LastSaysAppend
    <3> QED BY <3>1 DEF WillLack
  <2>3. CASE Leaves(s, i) \in Elements(walk.todo)
    <3>1. CASE c = Leaves(s, i)
      <4>1. LastSays(Append(command_queue, c), Leaves(s, i), Joins(s, i))
        BY <1>2, <3>1, LastSaysAppend
      <4> QED BY <4>1 DEF WillLack
    <3>2. CASE c # Leaves(s, i)
      BY <2>3, <3>2 DEF WillLack
    <3> QED BY <3>1, <3>2
  <2> QED BY <1>5, <2>1, <2>2, <2>3 DEF WillLack
<1> QED BY <1>4, <1>5

\* The queue and the bridge stay as they are; more may be announced.
LEMMA AfterStill ==
  ASSUME UNCHANGED <<command_queue, ports, flows>>, NEW s, NEW i,
         Elements(walk.todo) \subseteq Elements(walk'.todo)
  PROVE  (WillHave(s, i) => WillHave(s, i)') /\ (WillLack(s, i) => WillLack(s, i)')
<1>1. HasUplink(s, i)' <=> HasUplink(s, i)
  BY DEF HasUplink
<1> QED BY <1>1 DEF WillHave, WillLack

\* A program that has stopped, an early use of the bridge and an erased element
\* under the iterator are for ever.
LEMMA StillRunning ==
  ASSUME DpmInv, [Next]_vars
  PROVE  /\ status' = "running" => status = "running"
         /\ early => early'
         /\ walk'.valid => walk.valid
<1>1. status' = "running" => status = "running"
  BY DEF Next, TimedCheck, Parse, HostapdChange, ManagerCommand, WalkBegin, AllStations,
     Difference, QueueCommand, Record, Initialize, vars, ParseCommand, MonSync, AddBssid,
     InsertInterface, AddPort, RemoveBegin, DisassociateStation, EraseInterface, EraseBssid,
     RemovePort, DpmStation
<1>2. early => early'
  BY DEF Next, TimedCheck, Parse, HostapdChange, ManagerCommand, WalkBegin, AllStations,
     Difference, Undefined, QueueCommand, Record, Initialize, vars, ParseCommand, MonSync,
     AddBssid, InsertInterface, AddPort, RemoveBegin, DisassociateStation, EraseInterface,
     EraseBssid, RemovePort, DpmStation, Script, bridgeVars
<1>3. walk'.valid => walk.valid
  <2>1. CASE WalkBegin \/ (Record /\ ~Undefined)
    BY <2>1, WalkMoves
  <2>2. CASE Difference /\ ~Undefined
    BY <2>2, DifferenceElements
  <2>3. CASE AllStations
    BY <2>3, Zenon DEF AllStations, DpmInv, AgentTypeOK, WalkStates
  <2>4. CASE QueueCommand
    BY <2>4, Zenon DEF QueueCommand, DpmInv, AgentTypeOK, WalkStates
  <2>5. CASE EraseInterface
    <3> DEFINE v == walk.valid /\ ~(walk.pc \in {"ask", "diff", "queue"} /\ walk.at = Front.i)
    <3>1. walk \in WalkStates /\ walk' = [walk EXCEPT !.valid = v] /\ (v => walk.valid)
      BY <2>5 DEF EraseInterface, DpmInv, AgentTypeOK
    <3> HIDE DEF v
    <3> QED BY <3>1 DEF WalkStates
  <2>6. CASE walk' = walk
    BY <2>6
  <2>7. \/ WalkBegin \/ (Record /\ ~Undefined) \/ AllStations \/ (Difference /\ ~Undefined)
        \/ QueueCommand \/ EraseInterface \/ walk' = walk
    BY DEF Next, TimedCheck, Parse, HostapdChange, ManagerCommand, Undefined, Initialize, vars,
       ParseCommand, MonSync, AddBssid, InsertInterface, AddPort, RemoveBegin,
       DisassociateStation, EraseBssid, RemovePort, DpmStation, walkVars
  <2> QED BY <2>1, <2>2, <2>3, <2>4, <2>5, <2>6, <2>7
<1> QED BY <1>1, <1>2, <1>3

\* A step that takes the command in work from the queue.
LEMMA FollowsAfterTail ==
  ASSUME DpmInv, command_queue # <<>>, command_queue' = Tail(command_queue),
         UNCHANGED <<walk, interface_mac, removed>>, NEW s, NEW i, Follows(s, i),
         /\ Recorded(s, i) =>
              /\ Front = Joins(s, i) => HasUplink(s, i)'
              /\ (Front # Joins(s, i) /\ Front # Leaves(s, i) /\ HasUplink(s, i))
                 => HasUplink(s, i)',
         /\ ~Recorded(s, i) =>
              /\ Front = Leaves(s, i) => ~HasUplink(s, i)'
              /\ (Front # Joins(s, i) /\ Front # Leaves(s, i) /\ HasUplink(s, i)')
                 => HasUplink(s, i)
  PROVE  Follows(s, i)'
<1>1. command_queue \in Seq(Commands)
  BY DEF DpmInv, AgentTypeOK
<1>2. Recorded(s, i)' <=> Recorded(s, i)
  BY DEF Recorded
<1>3. Recorded(s, i) => WillHave(s, i)'
  BY <1>1, HaveAfterTail DEF Follows
<1>4. ~Recorded(s, i) /\ i \notin removed => WillLack(s, i)'
  BY <1>1, LackAfterTail DEF Follows
<1> QED BY <1>2, <1>3, <1>4 DEF Follows

\* Ports only change from 0, or are those of an interface that is gone.
LEMMA FindableBefore ==
  ASSUME DpmInv, DatapathInv, DatapathInv', PortsSound, [Next]_vars,
         NEW i \in Known', Known' \subseteq Interfaces, Findable(i)'
  PROVE  Findable(i)
<1>a. /\ Interfaces \subseteq AllInterfaces /\ Ethernet \in AllInterfaces
      /\ Ethernet \notin Interfaces
  BY DatapathAssumption DEF AllInterfaces
<1>b. parser.pc # "idle" => command_queue # <<>> /\ Front.i \in Interfaces
  BY AtWork DEF DpmInv, ParserAtWork
<1>1. CASE ports' = ports
  BY <1>1 DEF Findable
<1>2. CASE AddPort /\ ports' # ports
  <2>1. Add(Front.i) /\ Front.i \in Interfaces
    BY <1>2, <1>b DEF AddPort, Script, InitThrough, ExecuteCommand
  <2>2. \A j \in AllInterfaces : ports[j] # 0 => ports'[j] = ports[j]
    BY <2>1, UplinkAfterAdd
  <2> QED BY <1>a, <2>2 DEF Findable
<1>3. CASE RemovePort /\ ports' # ports
  <2>1. Remove(Front.i) /\ Front.i \in Interfaces /\ Front.i \notin Known /\ Known' = Known
    BY <1>3, <1>b DEF RemovePort, Script, InitThrough, ExecuteCommand, PortsSound, dpmVars, Known
  <2>2. \A j \in AllInterfaces : j # Front.i => ports'[j] = ports[j]
    BY <2>1, UplinkAfterRemove
  <2> QED BY <1>a, <2>1, <2>2 DEF Findable
<1>4. ports' = ports \/ AddPort \/ RemovePort
  BY DEF Next, TimedCheck, Parse, HostapdChange, ManagerCommand, WalkBegin, AllStations,
         Difference, Undefined, QueueCommand, Record, ParseCommand, MonSync, AddBssid,
         InsertInterface, RemoveBegin, DisassociateStation, EraseInterface, EraseBssid, DpmStation,
         Initialize, InitCreate, InitClear, ReadSocketPath, Script, ExecuteCommand, Associate,
         Disassociate, vars, bridgeVars, datapathVars
<1> QED BY <1>1, <1>2, <1>3, <1>4

LEMMA FlowsStep ==
  ASSUME DpmInv, DpmInv', DatapathInv, DatapathInv', FlowsInv, [Next]_vars
  PROVE  FlowsWillFollow'
<1> SUFFICES ASSUME status' = "running", ~early', walk'.valid,
                    NEW s \in Stations \ failed', NEW i \in Known',
                    SingleHome(s)', ~BeingRemoved(i)', Findable(i)'
             PROVE  Follows(s, i)'
  BY DEF FlowsWillFollow
<1>a. WalkSound /\ JoinedSound /\ PortsSound /\ FlowsWillFollow
  BY DEF FlowsInv
<1>b. /\ status = "running" /\ ~early /\ walk.valid /\ s \in Stations \ failed
      /\ removed \subseteq removed'
  BY StillRunning, Grows
<1>c. SingleHome(s)
  BY Grows DEF SingleHome
<1>d. /\ walk \in WalkStates /\ walk.pc \in {"sleep", "ask", "diff", "queue"}
      /\ walk.todo \in Seq(Commands) /\ command_queue \in Seq(Commands)
      /\ walk.output \subseteq Stations /\ parser.todo \subseteq Stations
      /\ Known \subseteq Interfaces /\ Known' \subseteq Interfaces
      /\ interface_mac \in [Known -> SUBSET Stations]
      /\ parser \in [pc : ParserPlaces, todo : SUBSET Stations]
      /\ parser.pc # "idle" => command_queue # <<>>
      /\ AgentTypeOK
  BY TypesUnfolded DEF DpmInv, AgentTypeOK, Known, ParserAtWork
<1>e. parser.pc # "idle" => Front \in Commands /\ Front.i \in Interfaces
  BY <1>d, AtWork
<1>i. Findable(i)
  BY <1>a, FindableBefore DEF DpmInv, AgentTypeOK, Known
<1>f. ASSUME i \in Known, ~BeingRemoved(i) PROVE Follows(s, i)
  BY <1>a, <1>b, <1>c, <1>f, <1>i DEF FlowsWillFollow
<1>g. ASSUME i \in Known, Recorded(s, i) PROVE i \in joined[s]
  BY <1>a, <1>g DEF Recorded, JoinedSound
<1>h. /\ Joins(s, i).name = "associate" /\ Leaves(s, i).name = "disassociate"
      /\ Joins(s, i).mac = s /\ Leaves(s, i).mac = s
      /\ Joins(s, i).i = i /\ Leaves(s, i).i = i
  BY StationCommands
<1>1. ASSUME i \in Known, ~BeingRemoved(i), UNCHANGED <<command_queue, ports, flows>>,
             Elements(walk.todo) \subseteq Elements(walk'.todo),
             Recorded(s, i)' <=> Recorded(s, i)
      PROVE  Follows(s, i)'
  BY <1>1, <1>b, <1>f, AfterStill DEF Follows
<1>2. CASE HostapdChange \/ MonSync \/ AddBssid \/ EraseBssid \/ RemoveBegin \/ UNCHANGED vars
  <2>1. UNCHANGED <<command_queue, ports, flows, walk, interface_mac>>
    BY <1>2 DEF HostapdChange, MonSync, AddBssid, EraseBssid, RemoveBegin, vars, bridgeVars,
       datapathVars, dpmVars, walkVars, queueVars
  <2>2. i \in Known /\ (Recorded(s, i)' <=> Recorded(s, i))
    BY <2>1 DEF Known, Recorded
  <2>3. ~BeingRemoved(i)
    <3>1. BeingRemoved(i) => parser' = parser
      BY <1>2 DEF BeingRemoved, HostapdChange, MonSync, AddBssid, EraseBssid, RemoveBegin, vars
    <3>2. Front' = Front
      BY <2>1 DEF Front
    <3> QED BY <3>1, <3>2 DEF BeingRemoved
  <2> QED BY <1>1, <2>1, <2>2, <2>3
<1>3. CASE Initialize
  <2>1. UNCHANGED <<command_queue, walk, interface_mac, parser>>
    BY <1>3 DEF Initialize, dpmVars, walkVars, queueVars
  <2>2. UNCHANGED <<ports, flows>>
    <3>1. InitClear => flows = {}
      BY <1>a, <1>b DEF InitClear, PortsSound
    <3> QED BY <1>3, <3>1 DEF Initialize, InitCreate, InitClear, ReadSocketPath
  <2>3. i \in Known /\ (Recorded(s, i)' <=> Recorded(s, i)) /\ ~BeingRemoved(i)
    BY <2>1 DEF Known, Recorded, BeingRemoved, Front
  <2> QED BY <1>1, <2>1, <2>2, <2>3
<1>4. CASE ManagerCommand
  <2>1. PICK name \in {"radio_set", "delete"}, j \in Interfaces :
          command_queue' = Append(command_queue, Command(name, j, NoStation))
    BY <1>4 DEF ManagerCommand
  <2>2. UNCHANGED <<ports, flows, walk, interface_mac, removed>>
    BY <1>4 DEF ManagerCommand, bridgeVars, datapathVars, dpmVars, walkVars
  <2>3. PICK c \in Commands : c = Command(name, j, NoStation)
    BY CommandOf
  <2>4. c # Joins(s, i) /\ c # Leaves(s, i)
    <3>1. c.name = name
      BY <2>3 DEF Command
    <3> QED BY <1>h, <3>1
  <2>5. i \in Known /\ (Recorded(s, i)' <=> Recorded(s, i))
    BY <2>2 DEF Known, Recorded
  <2>6. ~BeingRemoved(i)
    <3>1. parser' = parser /\ (parser.pc # "idle" => Front' = Front)
      BY <1>4, ParserStill
    <3> QED BY <3>1 DEF BeingRemoved
  <2>7. Follows(s, i)
    BY <1>f, <2>5, <2>6
  <2>8. (WillHave(s, i) => WillHave(s, i)') /\ (WillLack(s, i) => WillLack(s, i)')
    BY <1>d, <2>1, <2>2, <2>3, <2>4, AfterAppend
  <2> QED BY <2>2, <2>5, <2>7, <2>8 DEF Follows
<1>5. CASE WalkBegin \/ AllStations
  <2>1. /\ UNCHANGED <<command_queue, ports, flows, interface_mac, parser>>
        /\ walk.pc # "queue"
    BY <1>5 DEF WalkBegin, AllStations, bridgeVars, datapathVars, dpmVars, queueVars
  <2>2. walk'.pc # "queue" /\ walk'.todo = walk.todo
    <3>1. CASE WalkBegin
      BY <3>1, WalkMoves
    <3>2. CASE AllStations
      BY <1>d, <3>2 DEF AllStations, WalkStates
    <3> QED BY <1>5, <3>1, <3>2
  <2>3. i \in Known /\ (Recorded(s, i)' <=> Recorded(s, i)) /\ ~BeingRemoved(i)
    BY <2>1, <2>2 DEF Known, Recorded, BeingRemoved, Front
  <2> QED BY <1>1, <2>1, <2>2, <2>3
<1>6. CASE Difference
  <2>1. ~Undefined
    BY <1>b DEF Undefined
  <2>2. /\ walk.pc = "diff" /\ walk'.pc = "queue" /\ walk'.at = walk.at
        /\ walk'.output = walk.output /\ walk.at \in Known
        /\ Elements(walk'.todo) =
              {Joins(m, walk.at) : m \in walk.output \ interface_mac[walk.at]}
              \cup {Leaves(m, walk.at) : m \in interface_mac[walk.at] \ walk.output}
        /\ UNCHANGED <<interface_mac, command_queue, parser, ports, flows, removed>>
    BY <1>6, <2>1, DifferenceElements
  <2>3. Elements(walk.todo) = {}
    BY <1>a, <2>2, EmptyElements DEF WalkSound
  <2>4. i \in Known /\ ~BeingRemoved(i)
    BY <2>2 DEF Known, BeingRemoved, Front
  <2>5. CASE Recorded(s, i)' <=> Recorded(s, i)
    BY <1>1, <2>2, <2>3, <2>4, <2>5
  <2>6. CASE ~(Recorded(s, i)' <=> Recorded(s, i))
    <3>1. /\ i = walk.at /\ (Recorded(s, i)' <=> s \in walk.output)
          /\ (Recorded(s, i) <=> s \in interface_mac[i])
      BY <2>2, <2>6 DEF Recorded
    <3>2. CASE s \in walk.output
      <4>1. Joins(s, i) \in Elements(walk'.todo)
        BY <2>2, <2>6, <3>1, <3>2
      <4> QED BY <3>1, <3>2, <4>1 DEF Follows, WillHave
    <3>3. CASE s \notin walk.output
      <4>1. Leaves(s, i) \in Elements(walk'.todo)
        BY <2>2, <2>6, <3>1, <3>3
      <4> QED BY <3>1, <3>3, <4>1 DEF Follows, WillLack
    <3> QED BY <3>2, <3>3
  <2> QED BY <2>5, <2>6
<1>7. CASE QueueCommand
  <2>1. /\ command_queue' = Append(command_queue, Head(walk.todo))
        /\ walk' = [walk EXCEPT !.todo = Tail(walk.todo)]
        /\ walk.pc = "queue" /\ walk.todo # <<>>
        /\ UNCHANGED <<ports, flows, interface_mac, removed>>
    BY <1>7 DEF QueueCommand, bridgeVars, datapathVars, dpmVars
  <2>2. UNCHANGED <<walk.pc, walk.at, walk.output>> /\ walk'.todo = Tail(walk.todo)
    BY <1>d, <2>1 DEF WalkStates
  <2>3. /\ Head(walk.todo) \in Elements(walk.todo) /\ Head(walk.todo) \in Commands
        /\ Elements(walk.todo) \subseteq Elements(walk'.todo) \cup {Head(walk.todo)}
    BY <1>d, <2>1, <2>2, TailElements
  <2>4. PICK c \in Commands : c = Head(walk.todo)
    BY <2>3
  <2>5. PICK m \in Stations : Announces(c, m)
    BY <1>a, <2>3, <2>4 DEF WalkSound
  <2>6. i \in Known /\ (Recorded(s, i)' <=> Recorded(s, i))
    BY <2>1, <2>2 DEF Known, Recorded
  <2>7. ~BeingRemoved(i)
    <3>1. parser' = parser /\ (parser.pc # "idle" => Front' = Front)
      BY <1>7, ParserStill DEF TimedCheck
    <3> QED BY <3>1 DEF BeingRemoved
  <2>8. (c = Leaves(s, i) => ~Recorded(s, i)) /\ (c = Joins(s, i) => Recorded(s, i))
    <3>1. c = Leaves(s, i) => m = s /\ walk.at = i /\ m \notin walk.output
      BY <2>5, StationCommands DEF Announces
    <3>2. c = Joins(s, i) => m = s /\ walk.at = i /\ m \in walk.output
      BY <2>5, StationCommands DEF Announces
    <3> QED BY <2>1, <3>1, <3>2 DEF Recorded
  <2>9. Follows(s, i)
    BY <1>f, <2>6, <2>7
  <2>10. /\ c # Leaves(s, i) /\ WillHave(s, i) => WillHave(s, i)'
         /\ c # Joins(s, i) /\ WillLack(s, i) => WillLack(s, i)'
    BY <1>d, <2>1, <2>3, <2>4, AfterAppend
  <2> QED BY <2>1, <2>6, <2>8, <2>9, <2>10 DEF Follows
<1>8. CASE Record
  <2>1. ~Undefined
    BY <1>b DEF Undefined
  <2>2. /\ interface_mac' = [interface_mac EXCEPT ![walk.at] = walk.output]
        /\ walk.pc = "queue"
        /\ UNCHANGED <<command_queue, ports, flows, parser>>
    BY <1>8, <2>1 DEF Record, bridgeVars, datapathVars, queueVars
  <2>3. walk'.pc # "queue" /\ walk'.todo = walk.todo /\ Known' = Known
    BY <1>8, <2>1, WalkMoves
  <2>4. walk.at \in Known
    BY <1>b, <2>2 DEF DpmInv, WalkOnMap
  <2>5. interface_mac'[i] = IF i = walk.at THEN walk.output ELSE interface_mac[i]
    BY <1>d, <2>2, <2>3, <2>4
  <2>6. Recorded(s, i)' <=> Recorded(s, i)
    BY <2>2, <2>3, <2>5 DEF Recorded
  <2>7. i \in Known /\ ~BeingRemoved(i)
    BY <2>2, <2>3 DEF BeingRemoved, Front
  <2> QED BY <1>1, <2>2, <2>3, <2>6, <2>7
<1>9. CASE ParseCommand
  <2>1. /\ UNCHANGED <<ports, flows, walk, interface_mac, removed>>
        /\ parser.pc = "idle" /\ command_queue # <<>>
    BY <1>9 DEF ParseCommand, bridgeVars, datapathVars, dpmVars, walkVars
  <2>2. i \in Known /\ (Recorded(s, i)' <=> Recorded(s, i)) /\ ~BeingRemoved(i)
    BY <2>1 DEF Known, Recorded, BeingRemoved
  <2>3. CASE command_queue' = command_queue
    BY <1>1, <2>1, <2>2, <2>3
  <2>4. CASE command_queue' # command_queue
    <3>1. command_queue' = Tail(command_queue)
      BY <1>9, <2>4 DEF ParseCommand, RadioSet, Delete, StationCommand, GiveUp, GiveUpHalfDone,
         GoOn, GoOnStale, Done
    <3>2. \/ Front.name \in {"radio_set", "delete"}
          \/ Front.mac \in failed'
      BY <1>9, <2>4 DEF ParseCommand, RadioSet, Delete, StationCommand, GoOn, GoOnStale
    <3>3. Front # Joins(s, i) /\ Front # Leaves(s, i)
      BY <1>h, <3>2
    <3>4. HasUplink(s, i)' <=> HasUplink(s, i)
      BY <2>1 DEF HasUplink
    <3>5. Follows(s, i)
      BY <1>f, <2>2
    <3> QED BY <2>1, <3>1, <3>3, <3>4, <3>5, FollowsAfterTail
  <2> QED BY <2>3, <2>4
<1>10. CASE InsertInterface
  <2>1. /\ UNCHANGED <<command_queue, ports, flows, walk, removed>> /\ parser.pc = "insert"
        /\ interface_mac' = [j \in DOMAIN interface_mac \cup {Front.i} |->
                               IF j \in DOMAIN interface_mac THEN interface_mac[j] ELSE {}]
    BY <1>10 DEF InsertInterface, bridgeVars, datapathVars, walkVars, queueVars
  <2>2. CASE i \in Known
    <3>1. interface_mac'[i] = interface_mac[i]
      BY <2>1, <2>2 DEF Known
    <3>2. (Recorded(s, i)' <=> Recorded(s, i)) /\ ~BeingRemoved(i)
      BY <2>1, <3>1 DEF Recorded, BeingRemoved
    <3> QED BY <1>1, <2>1, <2>2, <3>2
  <2>3. CASE i \notin Known
    <3>1. interface_mac'[i] = {} /\ i \in Interfaces
      BY <1>d, <2>1, <2>3 DEF Known
    <3>2. walk.pc # "sleep" => walk.at # i
      BY <1>b, <2>3 DEF DpmInv, WalkOnMap
    <3>3. ~Recorded(s, i)'
      BY <2>1, <3>1, <3>2 DEF Recorded
    <3>4. CASE i \in removed
      BY <2>1, <3>3, <3>4 DEF Follows
    <3>5. CASE i \notin removed
      <4>1. ports[i] = 0
        BY <1>a, <2>3, <3>1, <3>5 DEF PortsSound
      <4>2. ~HasUplink(s, i)
        BY <3>1, <4>1, UplinkBound
      <4>3. ~HasUplink(s, i)'
        BY <2>1, <4>2 DEF HasUplink
      <4>4. Joins(s, i) \notin Elements(command_queue)
        BY <1>a, <1>h, <2>3, <3>5 DEF JoinedSound, StationSound
      <4> QED BY <2>1, <3>3, <4>3, <4>4 DEF Follows, WillLack
    <3> QED BY <3>4, <3>5
  <2> QED BY <2>2, <2>3
<1>11. CASE EraseInterface
  <2>1. /\ UNCHANGED <<command_queue, ports, flows>>
        /\ interface_mac' = [j \in DOMAIN interface_mac \ {Front.i} |-> interface_mac[j]]
    BY <1>11 DEF EraseInterface, bridgeVars, datapathVars, queueVars
  <2>2. UNCHANGED <<walk.pc, walk.at, walk.output, walk.todo>>
    BY <1>11, <1>d DEF EraseInterface, WalkStates
  <2>3. i \in Known /\ i # Front.i /\ interface_mac'[i] = interface_mac[i]
    BY <2>1 DEF Known
  <2>4. (Recorded(s, i)' <=> Recorded(s, i)) /\ ~BeingRemoved(i)
    BY <2>2, <2>3 DEF Recorded, BeingRemoved
  <2> QED BY <1>1, <2>1, <2>2, <2>3, <2>4
<1>12. CASE AddPort \/ RemovePort
  <2>1. /\ command_queue' = Tail(command_queue) /\ command_queue # <<>>
        /\ UNCHANGED <<walk, interface_mac, removed>> /\ parser.pc \in {"add", "remove"}
        /\ Front.name \in {"radio_set", "delete"} /\ Front.i \in Interfaces
    BY <1>12, <1>d, <1>e DEF AddPort, RemovePort, Done, dpmVars, walkVars, DpmInv, ParserAtWork
  <2>2. i \in Known /\ i \in Interfaces /\ ~BeingRemoved(i)
    BY <1>d, <2>1 DEF Known, BeingRemoved
  <2>3. HasUplink(s, i)' <=> HasUplink(s, i)
    <3>1. CASE AddPort
      <4>1. Add(Front.i)
        BY <1>d, <3>1, ScriptRuns DEF AddPort
      <4> QED BY <2>1, <2>2, <4>1, UplinkAfterAdd
    <3>2. CASE RemovePort
      <4>1. Remove(Front.i)
        BY <1>d, <3>2, ScriptRuns DEF RemovePort
      <4>2. i # Front.i
        BY <1>a, <2>2, <3>2 DEF RemovePort, PortsSound
      <4> QED BY <2>1, <2>2, <4>1, <4>2, <1>i, UplinkAfterRemove
    <3> QED BY <1>12, <3>1, <3>2
  <2>4. Front # Joins(s, i) /\ Front # Leaves(s, i)
    BY <1>h, <2>1
  <2>5. Follows(s, i)
    BY <1>f, <2>2
  <2> QED BY <2>1, <2>3, <2>4, <2>5, FollowsAfterTail
<1>13. CASE DisassociateStation
  <2>1. /\ UNCHANGED <<command_queue, walk, interface_mac, removed>>
        /\ parser.pc = "disassociating"
    BY <1>13 DEF DisassociateStation, dpmVars, walkVars, queueVars
  <2>2. PICK m \in parser.todo : Script(Disassociate(m, Front.i)) /\ parser'.pc = parser.pc
    BY <1>13, <1>d DEF DisassociateStation
  <2>3. Disassociate(m, Front.i) /\ m \in Stations
    BY <1>d, <2>2, ScriptRuns
  <2>4. /\ \A t \in Stations, j \in Interfaces : t # m => (HasUplink(t, j)' <=> HasUplink(t, j))
        /\ \A j \in Interfaces : ~HasUplink(m, j)'
    BY <2>3, UplinkAfterDisassociate
  <2>5. i \in Known /\ i \in Interfaces /\ ~BeingRemoved(i) /\ Front.i # i
    BY <1>d, <2>1, <2>2 DEF Known, BeingRemoved, Front
  <2>6. Recorded(s, i)' <=> Recorded(s, i)
    BY <2>1 DEF Recorded
  <2>7. Follows(s, i)
    BY <1>f, <2>5
  <2>8. CASE s # m
    <3>1. HasUplink(s, i)' <=> HasUplink(s, i)
      BY <2>4, <2>5, <2>8
    <3> QED BY <2>1, <2>6, <2>7, <3>1 DEF Follows, WillHave, WillLack
  <2>9. CASE s = m
    <3>1. Front.i \in joined[s]
      BY <1>a, <2>1, <2>9 DEF JoinedSound
    <3>2. ~Recorded(s, i)
      BY <1>c, <1>g, <2>5, <3>1 DEF SingleHome
    <3>3. ~HasUplink(s, i)'
      BY <2>4, <2>5, <2>9
    <3> QED BY <2>1, <2>6, <2>7, <3>2, <3>3 DEF Follows, WillLack
  <2> QED BY <2>8, <2>9
<1>14. CASE DpmStation
  <2>1. /\ command_queue' = Tail(command_queue) /\ command_queue # <<>>
        /\ UNCHANGED <<walk, interface_mac, removed>> /\ parser.pc = "dpm"
        /\ Front \in Commands /\ Front.i \in Interfaces
    BY <1>14, <1>d, <1>e DEF DpmStation, Done, dpmVars, walkVars
  <2>2. i \in Known /\ i \in Interfaces /\ ~BeingRemoved(i)
    BY <1>d, <2>1 DEF Known, BeingRemoved
  <2>3. Follows(s, i)
    BY <1>f, <2>2
  <2>4. Front.name \in {"associate", "disassociate"} /\ Front.mac \in Stations
    BY <1>14, <2>1, CommandType DEF DpmStation
  <2>5. Front.i \in joined[Front.mac]
    <3>1. Front \in Elements(command_queue)
      BY <1>d, <2>1, TailElements DEF Front
    <3> QED BY <1>a, <2>4, <3>1 DEF JoinedSound, StationSound
  <2>6. Front.mac = s /\ Front.i # i => ~Recorded(s, i)
    BY <1>c, <1>g, <2>2, <2>5 DEF SingleHome
  <2>7. ports[i] # 0 /\ ports[Ethernet] # 0
    BY <1>a, <1>b, <2>1, <2>2 DEF PortsSound
  <2>8. CASE Front.name = "associate"
    <3>1. Associate(Front.mac, Front.i)
      <4>1. Script(Associate(Front.mac, Front.i))
        BY <1>14, <2>8 DEF DpmStation
      <4> QED BY <1>d, <4>1, ScriptRuns
    <3>2. Front # Leaves(s, i) /\ (Front.mac = s /\ Front.i = i => Front = Joins(s, i))
      BY <1>h, <2>1, <2>8, StationCommandIs
    <3>3. /\ Front.mac # s => (HasUplink(s, i)' <=> HasUplink(s, i))
          /\ (Front.mac = s /\ Front.i # i /\ HasUplink(s, i)') => HasUplink(s, i)
          /\ (Front.mac = s /\ Front.i = i) => HasUplink(s, i)'
      BY <2>1, <2>2, <2>4, <2>7, <3>1, UplinkAfterAssociate
    <3>4. Front = Joins(s, i) => Front.mac = s /\ Front.i = i
      BY <1>h
    <3> QED BY <2>1, <2>3, <2>6, <3>2, <3>3, <3>4, FollowsAfterTail
  <2>9. CASE Front.name = "disassociate"
    <3>1. Disassociate(Front.mac, Front.i)
      <4>1. Script(Disassociate(Front.mac, Front.i))
        BY <1>14, <2>9 DEF DpmStation
      <4> QED BY <1>d, <4>1, ScriptRuns
    <3>2. Front # Joins(s, i) /\ (Front.mac = s /\ Front.i = i => Front = Leaves(s, i))
      BY <1>h, <2>1, <2>9, StationCommandIs
    <3>3. /\ Front.mac # s => (HasUplink(s, i)' <=> HasUplink(s, i))
          /\ Front.mac = s => ~HasUplink(s, i)'
      BY <2>1, <2>2, <2>4, <3>1, UplinkAfterDisassociate
    <3>4. Front = Leaves(s, i) => Front.mac = s /\ Front.i = i
      BY <1>h
    <3> QED BY <2>1, <2>3, <2>6, <3>2, <3>3, <3>4, FollowsAfterTail
  <2> QED BY <2>4, <2>8, <2>9
<1> QED
  BY <1>2, <1>3, <1>4, <1>5, <1>6, <1>7, <1>8, <1>9, <1>10, <1>11, <1>12, <1>13, <1>14
     DEF Next, TimedCheck, Parse

\* Once things are quiet, the uplink flows of an interface whose port has one
\* digit are those of the stations hostapd has, except for stations that moved
\* or had a failed command and for interfaces that were deleted: for any
\* interfaces, port numbers and stations, any number of commands and changes,
\* and any interleaving of timed_check, the parsing thread and hostapd.
THEOREM FlowsAlwaysFollow == Spec => []FlowsFollowStations
<1>1. Init => FlowsInv
  <2> SUFFICES ASSUME Init PROVE FlowsInv
    OBVIOUS
  <2>1. /\ Known = {} /\ Elements(command_queue) = {} /\ Elements(walk.todo) = {}
        /\ walk.pc = "sleep" /\ walk.valid /\ walk.todo = <<>> /\ parser.pc = "idle"
        /\ flows = {} /\ \A i \in Interfaces : ports[i] = 0 /\ hostapd[i] = {}
    BY EmptyElements DEF Init, DatapathInit, Known
  <2> QED
    BY <2>1 DEF FlowsInv, WalkSound, JoinedSound, PortsSound, FlowsWillFollow
<1>2. /\ DpmInv /\ DpmInv' /\ DatapathInv /\ DatapathInv' /\ FlowsInv /\ [Next]_vars
      => FlowsInv'
  BY WalkSoundStep, JoinedSoundStep, PortsSoundStep, FlowsStep DEF FlowsInv
<1>3. DpmInv /\ FlowsInv => FlowsFollowStations
  <2> SUFFICES ASSUME DpmInv, FlowsInv, Quiet, ~early, NEW s \in Stations \ failed,
                      NEW i \in Known, Cardinality(joined[s]) <= 1, Findable(i)
               PROVE  /\ s \in hostapd[i] => HasUplink(s, i)
                      /\ (HasUplink(s, i) /\ i \notin removed) => s \in hostapd[i]
    BY DEF FlowsFollowStations
  <2>1. SingleHome(s)
    <3>1. joined[s] \in SUBSET Interfaces
      BY DEF DpmInv, AgentTypeOK
    <3>2. IsFiniteSet(joined[s])
      BY <3>1, DatapathAssumption, FS_Subset
    <3>3. Cardinality(joined[s]) = 0 \/ Cardinality(joined[s]) = 1
      BY <3>2, FS_CardinalityType
    <3>4. joined[s] = {} \/ \E a : joined[s] = {a}
      BY <3>2, <3>3, FS_EmptySet, FS_Singleton
    <3> QED BY <3>4 DEF SingleHome
  <2>2. /\ status = "running" /\ walk.pc = "sleep" /\ walk.valid /\ parser.pc = "idle"
        /\ command_queue = <<>> /\ walk.todo = <<>> /\ interface_mac[i] = hostapd[i]
    BY DEF Quiet, FlowsInv, WalkSound
  <2>3. Follows(s, i)
    BY <2>1, <2>2 DEF FlowsInv, FlowsWillFollow, BeingRemoved
  <2>4. Elements(command_queue) = {} /\ Elements(walk.todo) = {}
    BY <2>2, EmptyElements
  <2>5. Recorded(s, i) <=> s \in hostapd[i]
    BY <2>2 DEF Recorded
  <2>6. \A yes, no : ~LastSays(command_queue, yes, no)
    BY <2>2 DEF LastSays
  <2> QED BY <2>3, <2>4, <2>5, <2>6 DEF Follows, WillHave, WillLack
<1> QED
  BY DpmInvariant, DpmImplementsDatapath, DatapathInvariant, <1>1, <1>2, <1>3, PTL DEF Spec
====
