------------------------------- MODULE DpmAgent -------------------------------
(***************************************************************************)
(* The two nodes of the bssid group, told of configuration changes by      *)
(* update_bssids: the datapath manager (datapath_manager/dpm_agent.cpp)    *)
(* with its thread timed_check, and the relay from the monitor interface   *)
(* (relay_agent_module/mon_to_warp_agent.cpp) with its bssid_list.         *)
(*                                                                         *)
(* timed_check walks over interface_mac without any lock, asks hostapd for *)
(* the stations of each interface and queues commands for those that came  *)
(* and went.  The parsing thread changes the same maps in DPMAgent::sync.  *)
(* A std::map is touched in single steps here; between them the threads    *)
(* interleave.  Where the code touches an erased element the model stops   *)
(* with status "undefined", and where an exception leaves a thread, which  *)
(* ends the process, with status "terminated".                             *)
(*                                                                         *)
(* The communications agent is what module CommsAgent shows it to be: a    *)
(* queue whose commands are carried out one by one, first in, first out.   *)
(* Requests to WARP and their replies may be lost, and once a wait has     *)
(* expired the late reply may be taken for that of a later command         *)
(* (modules WarpToWlanAgent and CommsAgent).                               *)
(*                                                                         *)
(* A BSS has one wireless interface, so that the interface stands for its  *)
(* bssid as well.  Interfaces are numbered in the order of the map's keys. *)
(* The bssid of a command is text, and two places compare it as such: the  *)
(* relay with to_string() of its address, and get_interface_name with what *)
(* ifconfig prints.  A delete may be spelt in a way that either of them    *)
(* does not know; radio_set is taken to be spelt as ifconfig does.         *)
(***************************************************************************)
EXTENDS Datapath, Sequences

CONSTANTS MaxCommands,   \* bound: commands the manager sends
          MaxEarly,      \* bound: how many of them before init is through
          MaxChanges     \* bound: changes of hostapd's station lists

ASSUME DpmAssumption ==
  /\ Interfaces \subseteq Nat
  /\ IsFiniteSet(Stations)
  /\ MaxCommands \in Nat /\ MaxEarly \in Nat /\ MaxChanges \in Nat

VARIABLES
  interface_mac,         \* stations recorded, by interface: a map
  interface_bssid,       \* the interfaces whose bssid is stored
  walk,                  \* timed_check: [pc, at, output, todo, valid]
  hostapd,               \* stations associated in hostapd, by interface
  changes,               \* history: how often hostapd's lists changed
  command_queue,         \* commands: [name, i, mac]
  commands,              \* history: commands the manager has sent
  parser,                \* the parsing thread: [pc, todo]
  bssid_list,            \* MonToWarpAgent: the BSSs whose frames are relayed
  warp_macs,             \* WARP: MAC addresses added
  late,                  \* history: radio_set or delete was given up; its reply may come late
  apart,                 \* history: BSSs of which WARP and the group were told different things
  failed,                \* history: stations with a command that WARP did not confirm
  joined,                \* history: interfaces a station has ever joined
  removed,               \* history: interfaces that were ever erased
  misspelt,              \* history: BSSs the relay kept: spelt in a way it does not know
  unnamed,               \* history: a BSS was deleted in a spelling ifconfig does not know
  early,                 \* history: the bridge was used before init was through
  status                 \* "running", "terminated", "undefined"

bridgeVars == <<datapathVars, early>>
dpmVars == <<interface_mac, interface_bssid, removed>>
hostapdVars == <<hostapd, changes, joined>>
walkVars == <<walk, hostapdVars>>
queueVars == <<command_queue, commands>>
warpSide == <<warp_macs, late, apart, failed, misspelt, unnamed>>
vars == <<bridgeVars, dpmVars, walkVars, queueVars, warpSide, parser,
          bssid_list, status>>

NoStation == AnySource

Command(name, i, mac) == [name |-> name, i |-> i, mac |-> mac]

Init ==
  /\ DatapathInit
  /\ interface_mac = [i \in {} |-> {}]
  /\ interface_bssid = {}
  /\ removed = {}
  /\ walk = [pc |-> "sleep", at |-> 0, output |-> {}, todo |-> <<>>, valid |-> TRUE]
  /\ hostapd = [i \in Interfaces |-> {}]
  /\ changes = 0
  /\ command_queue = <<>>
  /\ commands = 0
  /\ parser = [pc |-> "idle", todo |-> {}]
  /\ bssid_list = <<>>
  /\ warp_macs = {}
  /\ late = FALSE
  /\ apart = {}
  /\ failed = {}
  /\ misspelt = {}
  /\ unnamed = FALSE
  /\ joined = [s \in Stations |-> {}]
  /\ early = FALSE
  /\ status = "running"

-----------------------------------------------------------------------------
(***************************************************************************)
(* Surroundings: hostapd and the manager (external).                       *)
(***************************************************************************)

\* A station enters or leaves the list of an interface (module StationTable).
\* One that moves is for a while in both lists, as the old entry goes later.
HostapdChange ==
  /\ status = "running"
  /\ changes < MaxChanges
  /\ changes' = changes + 1
  /\ \E s \in Stations, i \in Interfaces :
       \/ /\ s \notin hostapd[i]
          /\ hostapd' = [hostapd EXCEPT ![i] = @ \cup {s}]
          /\ joined' = [joined EXCEPT ![s] = @ \cup {i}]
       \/ /\ s \in hostapd[i]
          /\ hostapd' = [hostapd EXCEPT ![i] = @ \ {s}]
          /\ UNCHANGED joined
  /\ UNCHANGED <<bridgeVars, dpmVars, walk, queueVars, warpSide, parser,
                 bssid_list, status>>

\* The thread that runs init has ended.
InitThrough == ovs = "up" /\ socket_path

\* The manager sets up or deletes a BSS, whether the bridge is ready or not.
ManagerCommand ==
  /\ status = "running"
  /\ commands < MaxCommands
  /\ commands < MaxEarly \/ InitThrough
  /\ commands' = commands + 1
  /\ \E name \in {"radio_set", "delete"}, i \in Interfaces :
       command_queue' = Append(command_queue, Command(name, i, NoStation))
  /\ UNCHANGED <<bridgeVars, dpmVars, walkVars, warpSide, parser, bssid_list,
                 status>>

-----------------------------------------------------------------------------
(***************************************************************************)
(* timed_check.                                                            *)
(***************************************************************************)

\* The iterator goes to the first of some keys of interface_mac, or to the end
\* of the map, where the thread sleeps.
WalkTo(keys) ==
  \/ /\ keys = {}
     /\ walk' = [walk EXCEPT !.pc = "sleep", !.at = 0, !.output = {}]
  \/ \E i \in keys :
       /\ \A j \in keys : i <= j
       /\ walk' = [walk EXCEPT !.pc = "ask", !.at = i, !.output = {}]

WalkBegin ==
  /\ status = "running"
  /\ walk.pc = "sleep"
  /\ WalkTo(DOMAIN interface_mac)
  /\ UNCHANGED <<bridgeVars, dpmVars, hostapdVars, queueVars,
                 warpSide, parser, bssid_list, status>>

\* hostapd_cli all_sta: the stations of the interface at this moment.
AllStations ==
  /\ status = "running"
  /\ walk.pc = "ask"
  /\ walk' = [walk EXCEPT !.pc = "diff", !.output = hostapd[walk.at]]
  /\ UNCHANGED <<bridgeVars, dpmVars, hostapdVars, queueVars,
                 warpSide, parser, bssid_list, status>>

\* The element the iterator stands on has been erased.
Undefined ==
  /\ ~walk.valid
  /\ status' = "undefined"
  /\ UNCHANGED <<bridgeVars, dpmVars, walkVars, queueVars, warpSide, parser,
                 bssid_list>>

\* Some order of a set: commands for several stations go out one by one.
Orders(S) == {o \in [1..Cardinality(S) -> S] : \A x \in S : \E k \in DOMAIN o : o[k] = x}

\* The stations that came, then those that went, are to be announced.
Difference ==
  /\ status = "running"
  /\ walk.pc = "diff"
  /\ \/ Undefined
     \/ /\ walk.valid
        /\ LET known == interface_mac[walk.at]
           IN  \E come \in Orders(walk.output \ known), go \in Orders(known \ walk.output) :
                 walk' = [walk EXCEPT !.pc = "queue",
                            !.todo = [k \in 1..(Len(come) + Len(go)) |->
                                        IF k <= Len(come)
                                        THEN Command("associate", walk.at, come[k])
                                        ELSE Command("disassociate", walk.at, go[k - Len(come)])]]
        /\ UNCHANGED <<bridgeVars, dpmVars, hostapdVars, queueVars,
                       warpSide, parser, bssid_list, status>>

\* comms_agent->sync(COMMAND_ADD) with the next command; interface_bssid.at()
\* throws when the interface is gone.
QueueCommand ==
  /\ status = "running"
  /\ walk.pc = "queue"
  /\ walk.todo # <<>>
  /\ \/ /\ walk.at \notin interface_bssid
        /\ status' = "terminated"
        /\ UNCHANGED <<walk, command_queue>>
     \/ /\ walk.at \in interface_bssid
        /\ command_queue' = Append(command_queue, Head(walk.todo))
        /\ walk' = [walk EXCEPT !.todo = Tail(@)]
        /\ UNCHANGED status
  /\ UNCHANGED <<bridgeVars, dpmVars, hostapdVars, commands,
                 warpSide, parser, bssid_list>>

\* The keys the iterator has not passed yet.
Ahead == {i \in DOMAIN interface_mac : i > walk.at}

\* Faulty variant: the output is not recorded.
RecordNothing ==
  /\ status = "running"
  /\ walk.pc = "queue"
  /\ walk.todo = <<>>
  /\ walk.valid
  /\ WalkTo(Ahead)
  /\ UNCHANGED <<bridgeVars, dpmVars, hostapdVars, queueVars,
                 warpSide, parser, bssid_list, status>>

\* it->second = output_mac_addr, whatever becomes of the commands; then it++.
\* The parsing thread may be in the middle of this very set.
Record ==
  /\ status = "running"
  /\ walk.pc = "queue"
  /\ walk.todo = <<>>
  /\ \/ Undefined
     \/ /\ walk.valid
        /\ interface_mac' = [interface_mac EXCEPT ![walk.at] = walk.output]
        /\ WalkTo(Ahead)
        /\ status' = IF parser.pc = "disassociating" /\ Head(command_queue).i = walk.at
                     THEN "undefined" ELSE status
        /\ UNCHANGED <<bridgeVars, interface_bssid, removed, hostapdVars,
                       queueVars, warpSide, parser, bssid_list>>

TimedCheck == WalkBegin \/ AllStations \/ Difference \/ QueueCommand \/ Record

-----------------------------------------------------------------------------
(***************************************************************************)
(* The parsing thread: a command's requests to WARP, then update_bssids.   *)
(***************************************************************************)
Front == Head(command_queue)

Script(A) == ExecuteCommand(A) /\ early' = (early \/ ~InitThrough)

\* Faulty variant: the command queued last is removed.
DoneNewest == /\ command_queue' = SubSeq(command_queue, 1, Len(command_queue) - 1)
              /\ parser' = [pc |-> "idle", todo |-> {}]

\* The command is over: it leaves the queue.
Done == /\ command_queue' = Tail(command_queue)
        /\ parser' = [pc |-> "idle", todo |-> {}]

\* WARP has confirmed every request of the command.
GoOn == /\ parser' = [parser EXCEPT !.pc = "mon"]
        /\ UNCHANGED <<command_queue, late, apart, failed>>

\* The reply to an earlier request is taken for this one's.
GoOnStale == /\ late
             /\ parser' = [parser EXCEPT !.pc = "mon"]
             /\ apart' = apart \cup {Front.i}
             /\ UNCHANGED <<command_queue, warp_macs, late, failed>>

\* parse_json gives up: a request or a reply was lost, WARP turned a request
\* down, or a parameter was wrong.
GiveUp == Done /\ late' = TRUE /\ UNCHANGED <<apart, failed>>

\* The same, after WARP has changed its set of MAC addresses.
GiveUpHalfDone == /\ Done
                  /\ late' = TRUE
                  /\ apart' = apart \cup {Front.i}
                  /\ UNCHANGED failed

\* radio_set: WARP adds a MAC address it does not have.
RadioSet ==
  /\ Front.name = "radio_set"
  /\ \/ GiveUp /\ UNCHANGED warp_macs
     \/ GoOnStale
     \/ /\ Front.i \notin warp_macs
        /\ warp_macs' = warp_macs \cup {Front.i}
        /\ GoOn \/ GiveUpHalfDone

\* delete: WARP removes a MAC address it has.
Delete ==
  /\ Front.name = "delete"
  /\ \/ GiveUp /\ UNCHANGED warp_macs
     \/ GoOnStale
     \/ /\ Front.i \in warp_macs
        /\ warp_macs' = warp_macs \ {Front.i}
        /\ GoOn \/ GiveUpHalfDone

\* associate and disassociate: their requests have a subtype of their own.
StationCommand ==
  /\ Front.name \in {"associate", "disassociate"}
  /\ \/ GoOn
     \/ Done /\ failed' = failed \cup {Front.mac} /\ UNCHANGED <<late, apart>>
  /\ UNCHANGED warp_macs

ParseCommand ==
  /\ status = "running"
  /\ parser.pc = "idle"
  /\ command_queue # <<>>
  /\ RadioSet \/ Delete \/ StationCommand
  /\ UNCHANGED <<misspelt, unnamed, bridgeVars, dpmVars, walkVars, commands,
                 bssid_list, status>>

\* Faulty variant: an address is never erased.
MonSyncAddOnly ==
  /\ status = "running"
  /\ parser.pc = "mon"
  /\ bssid_list' = IF Front.name = "radio_set" THEN Append(bssid_list, Front.i)
                   ELSE bssid_list
  /\ parser' = [parser EXCEPT !.pc = "dpm"]
  /\ UNCHANGED <<bridgeVars, dpmVars, walkVars, queueVars, warpSide, status>>

\* The BSSs on the relay's list.
Listed == {bssid_list[k] : k \in DOMAIN bssid_list}

\* MonToWarpAgent::sync: push_back, or erase the first element whose
\* to_string() is the text of the command.
MonSync ==
  /\ status = "running"
  /\ parser.pc = "mon"
  /\ \/ /\ Front.name = "radio_set"
        /\ bssid_list' = Append(bssid_list, Front.i)
        /\ UNCHANGED misspelt
     \/ /\ Front.name = "delete"
        /\ \E k \in DOMAIN bssid_list :
             /\ bssid_list[k] = Front.i
             /\ \A l \in 1..(k - 1) : bssid_list[l] # Front.i
             /\ bssid_list' = SubSeq(bssid_list, 1, k - 1)
                              \o SubSeq(bssid_list, k + 1, Len(bssid_list))
        /\ UNCHANGED misspelt
     \/ /\ Front.name = "delete" /\ Front.i \in Listed
        /\ misspelt' = misspelt \cup {Front.i}
        /\ UNCHANGED bssid_list
     \/ /\ Front.name # "radio_set"
        /\ Front.name = "delete" => Front.i \notin Listed
        /\ UNCHANGED <<bssid_list, misspelt>>
  /\ parser' = [parser EXCEPT !.pc = "dpm"]
  /\ UNCHANGED <<warp_macs, late, apart, failed, unnamed, bridgeVars, dpmVars, walkVars,
                 queueVars, status>>

\* DPMAgent::sync, BSSID_ADD: first the bssid, then the empty station set ...
AddBssid ==
  /\ status = "running"
  /\ parser.pc = "dpm" /\ Front.name = "radio_set"
  /\ interface_bssid' = interface_bssid \cup {Front.i}
  /\ parser' = [parser EXCEPT !.pc = "insert"]
  /\ UNCHANGED <<bridgeVars, interface_mac, removed, walkVars, queueVars, warpSide,
                 bssid_list, status>>

\* Faulty variant: no station set is inserted.
InsertInterfaceForgotten ==
  /\ status = "running"
  /\ parser.pc = "insert"
  /\ parser' = [parser EXCEPT !.pc = "add"]
  /\ UNCHANGED <<bridgeVars, dpmVars, walkVars, queueVars, warpSide, bssid_list,
                 status>>

InsertInterface ==
  /\ status = "running"
  /\ parser.pc = "insert"
  /\ interface_mac' = [j \in DOMAIN interface_mac \cup {Front.i} |->
                         IF j \in DOMAIN interface_mac THEN interface_mac[j] ELSE {}]
  /\ parser' = [parser EXCEPT !.pc = "add"]
  /\ UNCHANGED <<bridgeVars, interface_bssid, removed, walkVars, queueVars, warpSide,
                 bssid_list, status>>

\* ... and then the port and its downlink flow.
AddPort ==
  /\ status = "running"
  /\ parser.pc = "add"
  /\ Script(Add(Front.i))
  /\ Done
  /\ UNCHANGED <<dpmVars, walkVars, commands, warpSide, bssid_list, status>>

\* BSSID_REMOVE: interface_mac.at() throws when the interface is not there, or
\* ifconfig shows none for the spelling; otherwise every recorded station is
\* disassociated ...
RemoveBegin ==
  /\ status = "running"
  /\ parser.pc = "dpm" /\ Front.name = "delete"
  /\ \/ /\ Front.i \notin DOMAIN interface_mac
        /\ status' = "terminated"
        /\ UNCHANGED <<parser, unnamed>>
     \/ /\ status' = "terminated"
        /\ unnamed' = TRUE
        /\ UNCHANGED parser
     \/ /\ Front.i \in DOMAIN interface_mac
        /\ parser' = [pc |-> "disassociating", todo |-> interface_mac[Front.i]]
        /\ UNCHANGED <<status, unnamed>>
  /\ UNCHANGED <<warp_macs, late, apart, failed, misspelt, bridgeVars, dpmVars, walkVars,
                 queueVars, bssid_list>>

DisassociateStation ==
  /\ status = "running"
  /\ parser.pc = "disassociating"
  /\ \E s \in parser.todo :
       /\ Script(Disassociate(s, Front.i))
       /\ parser' = [parser EXCEPT !.todo = @ \ {s}]
  /\ UNCHANGED <<dpmVars, walkVars, queueVars, warpSide, bssid_list, status>>

\* ... the interface is erased from the maps, stations first ...
EraseInterface ==
  /\ status = "running"
  /\ parser.pc = "disassociating" /\ parser.todo = {}
  /\ interface_mac' = [j \in DOMAIN interface_mac \ {Front.i} |-> interface_mac[j]]
  /\ removed' = removed \cup {Front.i}
  /\ walk' = [walk EXCEPT !.valid = @ /\ ~(walk.pc \in {"ask", "diff", "queue"}
                                             /\ walk.at = Front.i)]
  /\ parser' = [parser EXCEPT !.pc = "erase"]
  /\ UNCHANGED <<bridgeVars, interface_bssid, hostapdVars,
                 queueVars, warpSide, bssid_list, status>>

EraseBssid ==
  /\ status = "running"
  /\ parser.pc = "erase"
  /\ interface_bssid' = interface_bssid \ {Front.i}
  /\ parser' = [parser EXCEPT !.pc = "remove"]
  /\ UNCHANGED <<bridgeVars, interface_mac, removed, walkVars, queueVars, warpSide,
                 bssid_list, status>>

\* Faulty variant: the interface's flows stay.
RemovePortOnly ==
  /\ status = "running"
  /\ parser.pc = "remove"
  /\ Script(ports' = [ports EXCEPT ![Front.i] = 0] /\ UNCHANGED flows)
  /\ Done
  /\ UNCHANGED <<dpmVars, walkVars, commands, warpSide, bssid_list, status>>

\* ... and then come its flows and its port.
RemovePort ==
  /\ status = "running"
  /\ parser.pc = "remove"
  /\ Script(Remove(Front.i))
  /\ Done
  /\ UNCHANGED <<dpmVars, walkVars, commands, warpSide, bssid_list, status>>

\* BSSID_MAC_ASSOCIATE and BSSID_MAC_DISASSOCIATE.
DpmStation ==
  /\ status = "running"
  /\ parser.pc = "dpm"
  /\ \/ Front.name = "associate" /\ Script(Associate(Front.mac, Front.i))
     \/ Front.name = "disassociate" /\ Script(Disassociate(Front.mac, Front.i))
  /\ Done
  /\ UNCHANGED <<dpmVars, walkVars, commands, warpSide, bssid_list, status>>

Parse == \/ ParseCommand \/ MonSync \/ AddBssid \/ InsertInterface \/ AddPort
         \/ RemoveBegin \/ DisassociateStation \/ EraseInterface \/ EraseBssid
         \/ RemovePort \/ DpmStation

-----------------------------------------------------------------------------
\* The thread that runs `datapath_manager.py init' and reads what it prints.
Initialize ==
  /\ status = "running"
  /\ InitCreate \/ InitClear \/ ReadSocketPath
  /\ UNCHANGED <<early, dpmVars, walkVars, queueVars, warpSide, parser,
                 bssid_list, status>>

Next == HostapdChange \/ ManagerCommand \/ TimedCheck \/ Parse \/ Initialize

Spec == Init /\ [][Next]_vars

\* timed_check wakes up again and again and the parsing thread works off its
\* queue.  Nothing is assumed of hostapd, of the manager, of WARP or of the
\* thread that runs init.  It is weak fairness of TimedCheck and of Parse,
\* written out with what enables the two threads and what only their steps
\* change; a step that ends the process leaves them without work.
CheckHasWork == status = "running" /\ (walk.pc # "sleep" \/ DOMAIN interface_mac # {})
ParseHasWork == status = "running" /\ command_queue # <<>>

CheckMoves == walk.pc # walk.pc' \/ walk.todo # walk.todo'
ParseMoves == parser' # parser \/ Len(command_queue') < Len(command_queue)

FairSpec == /\ Spec
            /\ []<>~CheckHasWork \/ []<><<CheckMoves>>_vars
            /\ []<>~ParseHasWork \/ []<><<ParseMoves>>_vars

-----------------------------------------------------------------------------
Commands == [name : {"radio_set", "delete"}, i : Interfaces, mac : {NoStation}]
            \cup [name : {"associate", "disassociate"}, i : Interfaces, mac : Stations]
ParserPlaces == {"idle", "mon", "dpm", "insert", "add", "disassociating",
                 "erase", "remove"}
WalkStates == [pc : {"sleep", "ask", "diff", "queue"}, at : Interfaces \cup {0},
               output : SUBSET Stations, todo : Seq(Commands), valid : BOOLEAN]

AgentTypeOK ==
  /\ DOMAIN interface_mac \subseteq Interfaces
  /\ interface_mac \in [DOMAIN interface_mac -> SUBSET Stations]
  /\ interface_bssid \subseteq Interfaces
  /\ walk \in WalkStates
  /\ hostapd \in [Interfaces -> SUBSET Stations]
  /\ command_queue \in Seq(Commands)
  /\ parser \in [pc : ParserPlaces, todo : SUBSET Stations]
  /\ bssid_list \in Seq(Interfaces)
  /\ warp_macs \subseteq Interfaces
  /\ late \in BOOLEAN /\ unnamed \in BOOLEAN
  /\ apart \subseteq Interfaces /\ misspelt \subseteq Interfaces
  /\ failed \subseteq Stations
  /\ joined \in [Stations -> SUBSET Interfaces]
  /\ removed \subseteq Interfaces
  /\ early \in BOOLEAN
  /\ commands \in 0..MaxCommands /\ changes \in 0..MaxChanges
  /\ status \in {"running", "terminated", "undefined"}

\* Type invariant of the bssid group.
DpmTypeOK == DatapathTypeOK /\ AgentTypeOK

Known == DOMAIN interface_mac

\* What timed_check relies on when it calls interface_bssid.at(): at every
\* moment, also between two steps of BSSID_ADD or BSSID_REMOVE, an interface
\* with a station set has its bssid stored.
MapsInStep == Known \subseteq interface_bssid

\* Between two commands the nodes of the group and WARP know the same BSSs: the
\* datapath manager in both of its maps, and the relay, whose list has in
\* addition only BSSs whose delete was spelt in a way it does not know, and every
\* other one once.  It holds until a command changes WARP's set and fails, or
\* takes an earlier request's late reply for its own.
NodesAgree ==
  (status = "running" /\ parser.pc = "idle" /\ apart = {}) =>
    /\ Known = warp_macs /\ interface_bssid = warp_macs
    /\ warp_macs \subseteq Listed /\ Listed \subseteq warp_macs \cup misspelt
    /\ \A k, l \in DOMAIN bssid_list :
         (bssid_list[k] = bssid_list[l] /\ bssid_list[k] \notin misspelt) => k = l

\* An exception ends the process only after a command that WARP and the group
\* saw differently, when a BSS is deleted while timed_check works on its
\* interface, or when a delete is spelt in a way that ifconfig does not know.
ExceptionOnlyAfter ==
  status = "terminated" => (apart # {} \/ ~walk.valid \/ unnamed)

\* Nothing is under way, and timed_check has seen hostapd's latest lists.
Quiet ==
  /\ status = "running" /\ parser.pc = "idle" /\ command_queue = <<>>
  /\ walk.pc = "sleep"
  /\ \A i \in Known : interface_mac[i] = hostapd[i]

HasUplink(s, i) == Uplink(ports[Ethernet], s, ports[i]) \in flows

\* The interface's flows are of the kind that remove() can find.
Findable(i) == ports[i] < 10 /\ ports[Ethernet] < 10

\* Once things are quiet, a station that hostapd has at an interface has its
\* uplink flow there, even if the interface was deleted and set up again in
\* between, and one that hostapd does not have there has none.  The second
\* half holds only for interfaces that were never deleted: an associate command
\* still in the queue then outlives the delete.  Not for stations with a failed
\* command or that moved between interfaces, for ports of two digits, and a
\* bridge used too early.
FlowsFollowStations ==
  (Quiet /\ ~early) =>
    \A s \in Stations \ failed, i \in Known :
      (Cardinality(joined[s]) <= 1 /\ Findable(i)) =>
        /\ s \in hostapd[i] => HasUplink(s, i)
        /\ (HasUplink(s, i) /\ i \notin removed) => s \in hostapd[i]

\* When hostapd and the manager leave the agent alone it comes to rest: all
\* commands are carried out and all stations are recorded.
ComesToRest == []<>(Quiet \/ status # "running")

\* Stated by dpm_agent.h:27, "Periodically check hostapd and
\* associate/disassociate": a station that hostapd has at one interface, and at
\* no other, is associated there.
StationsAssociated ==
  (Quiet /\ ~early) =>
    \A s \in Stations \ failed, i \in Known :
      (s \in hostapd[i] /\ \A j \in Interfaces \ {i} : s \notin hostapd[j]) => HasUplink(s, i)

\* The command queue as the group sees it: update_bssids has begun when the
\* parsing thread has been to MonToWarpAgent::sync.
Service == INSTANCE CommandService WITH
             Entries <- Commands,
             queue <- command_queue,
             informed <- parser.pc \notin {"idle", "mon"}

\* The group's view of the communications agent is that of the abstract command
\* service, which CommsAgent is shown to implement: timed_check and the manager
\* only add commands at the end, every node is told of the front command only.
GroupImplementsService == Service!Spec

(***************************************************************************)
(* The inductive strengthening: where the parsing thread and the walk are. *)
(***************************************************************************)

\* The command in work stays at the front until it is done.
ParserAtWork ==
  /\ parser.pc # "idle" => command_queue # <<>>
  /\ parser.pc \in {"insert", "add"} => Front.name = "radio_set"
  /\ parser.pc \in {"disassociating", "erase", "remove"} => Front.name = "delete"

\* How far DPMAgent::sync has come with the two maps.
MapsFollowParser ==
  /\ parser.pc = "insert" => Front.i \in interface_bssid
  /\ parser.pc = "erase" => Front.i \notin Known

\* The walk stands on an interface of the map, unless that was erased.
WalkOnMap ==
  walk.pc # "sleep" => walk.at \in Interfaces /\ (walk.valid => walk.at \in Known)

\* The command in work has changed WARP's set but not yet interface_mac.
Pending(name, places) == parser.pc \in places /\ Front.name = name

\* As long as WARP and the group are not apart, the interfaces are those of WARP, but
\* for the command in work.
InterfacesFollowWarp ==
  apart = {} =>
    IF Pending("radio_set", {"mon", "dpm", "insert"}) THEN warp_macs = Known \cup {Front.i}
    ELSE IF Pending("delete", {"mon", "dpm", "disassociating"})
    THEN Front.i \in Known /\ warp_macs = Known \ {Front.i}
    ELSE warp_macs = Known

DpmInv == /\ AgentTypeOK /\ MapsInStep /\ ParserAtWork /\ MapsFollowParser
          /\ WalkOnMap /\ InterfacesFollowWarp /\ ExceptionOnlyAfter
=============================================================================
