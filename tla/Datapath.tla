------------------------------- MODULE Datapath -------------------------------
(***************************************************************************)
(* The datapath between WARP and the wireless interfaces: the ports and    *)
(* the flow table of the Open vSwitch bridge, as datapath_manager.py       *)
(* changes them through ovs-vsctl and ovs-ofctl.                           *)
(*                                                                         *)
(* Every operation is one run of the script, and the agent's parsing       *)
(* thread starts them one after the other.  The script installs each flow  *)
(* once per protocol of SUPPORTED_PROTOCOL; the three are one flow here.   *)
(*                                                                         *)
(* Open vSwitch is external: it numbers a new port with any number that is *)
(* not in use, and keeps flows when the port they name is deleted.         *)
(***************************************************************************)
EXTENDS Integers, FiniteSets

CONSTANTS Interfaces,    \* wireless interfaces, each with its virtual interface
          Ethernet,      \* the interface towards WARP, "eth1"
          Stations,      \* MAC addresses of stations
          AnySource,     \* a flow without dl_src
          PortNumbers    \* the numbers Open vSwitch may give to ports

ASSUME DatapathAssumption ==
  /\ Ethernet \notin Interfaces
  /\ AnySource \notin Stations
  /\ PortNumbers \subseteq 1..999
  /\ IsFiniteSet(Interfaces) /\ IsFiniteSet(PortNumbers)
  /\ Cardinality(Interfaces) < Cardinality(PortNumbers)

VARIABLES
  ovs,                   \* the bridge: "down", "created", "up"
  socket_path,           \* whether the agent has read the path of its socket
  ports,                 \* port number by interface, 0 if it is not bound
  flows                  \* the flow table: [in_port, dl_src, output]

datapathVars == <<ovs, socket_path, ports, flows>>

Flows == [in_port : PortNumbers, dl_src : Stations \cup {AnySource},
          output : PortNumbers]

-----------------------------------------------------------------------------
(***************************************************************************)
(* ovs-ofctl add-flow and del-flows.                                       *)
(***************************************************************************)

\* A new flow takes the place of the one with the same match.
AddFlow(f) ==
  {g \in flows : ~(g.in_port = f.in_port /\ g.dl_src = f.dl_src)} \cup {f}

\* The flows of some stations from a port are deleted.
RemoveFlows(in_port, stations) ==
  {g \in flows : ~(g.in_port = in_port /\ g.dl_src \in stations)}

Uplink(in_port, mac, output) == [in_port |-> in_port, dl_src |-> mac, output |-> output]
Downlink(in_port, output) == [in_port |-> in_port, dl_src |-> AnySource, output |-> output]

IsUplink(f) == f.dl_src # AnySource

\* ovs-vsctl add-port: the number the interface has, or one that is free.
NumberFor(p, i) == IF p[i] # 0 THEN {p[i]} ELSE PortNumbers \ {p[j] : j \in DOMAIN p}

-----------------------------------------------------------------------------
(***************************************************************************)
(* The operations of datapath_manager.py.                                  *)
(***************************************************************************)

\* init: the bridge is created and brought up ...
InitCreate ==
  /\ ovs = "down"
  /\ ovs' = "created"
  /\ UNCHANGED <<socket_path, ports, flows>>

\* ... and then OpenVSwitchController.start() deletes all flows.
InitClear ==
  /\ ovs = "created"
  /\ ovs' = "up"
  /\ flows' = {}
  /\ UNCHANGED <<socket_path, ports>>

\* DPMAgent::initialize reads the path from the first line that init prints,
\* sooner or later.
ReadSocketPath ==
  /\ ~socket_path
  /\ socket_path' = TRUE
  /\ UNCHANGED <<ovs, ports, flows>>

\* add: binds the Ethernet interface when it is not bound yet, then the
\* virtual interface with its downlink flow; nothing more if that is bound.
Add(i) ==
  \E e \in NumberFor(ports, Ethernet) :
    LET bound == [ports EXCEPT ![Ethernet] = e] IN
    \E v \in NumberFor(bound, i) :
      /\ ports' = [bound EXCEPT ![i] = v]
      /\ flows' = IF ports[i] = 0 THEN AddFlow(Downlink(v, e)) ELSE flows

\* associate: nothing unless both interfaces are bound.
Associate(mac, i) ==
  /\ flows' = IF ports[i] # 0 /\ ports[Ethernet] # 0
              THEN AddFlow(Uplink(ports[Ethernet], mac, ports[i])) ELSE flows
  /\ UNCHANGED ports

\* disassociate: the station's uplink flow, whichever interface it leads to.
Disassociate(mac, i) ==
  /\ flows' = RemoveFlows(ports[Ethernet], {mac})
  /\ UNCHANGED ports

\* remove() compares ONE character of the flow's text with a port number.
FirstDigit(p) == IF p < 10 THEN p ELSE IF p < 100 THEN p \div 10 ELSE p \div 100

\* The stations whose uplink flow leads to a port, as remove() finds them.
AssociatedStationSet(e, v) ==
  {f.dl_src : f \in {g \in flows : /\ IsUplink(g)
                                   /\ FirstDigit(g.in_port) = e
                                   /\ FirstDigit(g.output) = v}}

\* Faulty variant: the stations' flows stay.
RemoveDownlinkOnly(i) ==
  /\ flows' = {f \in flows : f.in_port # ports[i]}
  /\ ports' = [ports EXCEPT ![i] = 0]

\* remove: the interface's stations, its downlink flow, and its port.
Remove(i) ==
  /\ flows' = {f \in RemoveFlows(ports[Ethernet],
                                 AssociatedStationSet(ports[Ethernet], ports[i])) :
                 f.in_port # ports[i]}
  /\ ports' = [ports EXCEPT ![i] = 0]

\* DPMAgent::execute_command: without a bridge the script ends with an
\* exception, and without the path add-port fails, so that nothing is ever
\* bound; the exit status is not looked at.  (The flow that add then installs,
\* from port 0 to port 0, matches no frame and is left out.)
ExecuteCommand(A) ==
  /\ IF ovs = "down" \/ ~socket_path THEN UNCHANGED <<ports, flows>> ELSE A
  /\ UNCHANGED <<ovs, socket_path>>

-----------------------------------------------------------------------------
DatapathInit ==
  /\ ovs = "down"
  /\ socket_path = FALSE
  /\ ports = [i \in Interfaces \cup {Ethernet} |-> 0]
  /\ flows = {}

DatapathNext ==
  \/ InitCreate \/ InitClear \/ ReadSocketPath
  \/ \E i \in Interfaces : ExecuteCommand(Add(i)) \/ ExecuteCommand(Remove(i))
  \/ \E i \in Interfaces, mac \in Stations :
       ExecuteCommand(Associate(mac, i)) \/ ExecuteCommand(Disassociate(mac, i))

DatapathSpec == DatapathInit /\ [][DatapathNext]_datapathVars

-----------------------------------------------------------------------------
\* Type invariant of the bridge.
DatapathTypeOK ==
  /\ ovs \in {"down", "created", "up"} /\ socket_path \in BOOLEAN
  /\ ports \in [Interfaces \cup {Ethernet} -> PortNumbers \cup {0}]
  /\ flows \subseteq Flows

\* Every uplink flow between ports of one digit leads to the port of an interface
\* that is bound: remove leaves no such flow behind that would carry a station's
\* traffic to whatever interface gets the port number next.  A flow from or to
\* a port of two digits it does not find: that one may stay.
UplinksLeadToBoundPorts ==
  \A f \in flows : (IsUplink(f) /\ f.in_port < 10 /\ f.output < 10) =>
                     \E i \in Interfaces : ports[i] = f.output

\* A station has one uplink flow at most, so that its traffic goes one way,
\* whatever sequence of associate and remove calls went before.
OneUplinkPerStation ==
  \A f, g \in flows : (IsUplink(f) /\ f.dl_src = g.dl_src) => f = g

\* A port number is another one, or begins with another one that has one digit.
BeginsWith(p, v) ==
  p = v \/ (v < 10 /\ (p \in (10 * v)..(10 * v + 9) \/ p \in (100 * v)..(100 * v + 99)))

\* Removing an interface takes only the uplink flows that lead to its port, and
\* when that has one digit, to ports whose number begins with it.
RemoveKeepsOthers ==
  [][\A i \in Interfaces : (ports[i] # 0 /\ ports'[i] = 0) =>
       \A f \in flows : (IsUplink(f) /\ f \notin flows')
                          => BeginsWith(f.output, ports[i])]_datapathVars

(***************************************************************************)
(* The inductive strengthening.                                            *)
(***************************************************************************)

\* Bound interfaces have different numbers.
PortsDiffer ==
  \A i, j \in Interfaces \cup {Ethernet} : (ports[i] = ports[j] /\ ports[i] # 0) => i = j

\* Uplink flows come from the Ethernet port, which stays bound.
UplinksFromEthernet ==
  \A f \in flows : IsUplink(f) => f.in_port = ports[Ethernet] /\ ports[Ethernet] # 0

DatapathInv == /\ DatapathTypeOK /\ PortsDiffer /\ UplinksFromEthernet
               /\ OneUplinkPerStation /\ UplinksLeadToBoundPorts
=============================================================================
