# Aurora Agent Relay: TLA+ models, checks and proofs

The relay agent (`src/libtins/`) runs on the PC engine between the Aurora manager, the hostapd
instances of that machine and the WARP board that serves as radio. It receives commands from the
manager over ZeroMQ, turns them into control packets for WARP, keeps the local datapath (an Open
vSwitch bridge) in step with them, and relays 802.11 frames between WARP and the simulated
interfaces. One process with eight threads does this; they share semaphores, mutexes, queues and
maps, and several of them are read without the lock that is meant for them.

## 1. Inventory

### Components

| Component | Source | State it keeps | Operations |
|---|---|---|---|
| Control channel to WARP | `relay_agent_module/warp_to_wlan_agent.cpp` | three semaphores (`mac_control_sync`, `transmission_sync`, `bssid_control_sync`), one byte `response_packet_type` | `sync` sends a control packet, `timed_sync` waits for its reply, `process` takes frames from WARP |
| Communications agent | `relay_agent_module/comms_agent.cpp` | `command_queue` with lock and semaphore `new_command`; response slot `send_message` with lock and semaphore `signal`; `bssid_update_group` | `recv_loop`, `parse_loop`/`parse_json`, `send_loop`, `sync(COMMAND_ADD)`, `update_bssids` |
| Datapath manager | `datapath_manager/dpm_agent.cpp` | `interface_mac`, `interface_bssid`, `bssid_interface` (no lock), `socket_path` | `sync` (BSSID_ADD, BSSID_REMOVE, associate, disassociate), `timed_check` every 2 s |
| Flow table of the bridge | `datapath_manager/datapath_manager.py`, `ovs_ofctl.py`, `ovs.py` | ports and flows of the bridge | `init`, `add`, `associate`, `disassociate`, `remove`, `clear` |
| Monitor-to-WARP relay | `relay_agent_module/mon_to_warp_agent.cpp` | `bssid_list` with a lock that only writers take | `process`, `sync` |
| WLAN-to-WARP relay | `relay_agent_module/wlan_to_warp_agent.cpp` | none | `process` |
| Relay agent base, agent factory, console | `relay_agent.cpp`, `comms_agent.cpp:704-760`, `agents.cpp` | `complete` flag, map of agents | `spawn_agent_thread`, `kill_agent_thread`, `signal_complete` |
| Fragment reassembly | `send_receive_module/fragment_receiver.cpp` | `info_addr[20]`, `packet_addresses[20]` | `packet_receive`, `fragment_arrive`, `purge_database` |
| WARP wire format | `warp_protocol/warp_protocol.cpp` | fragment id counter | `create_*`, `process_warp_layer`, `generate_fragment_struct` |
| Frame filters, utilities, configuration | `filters/`, `revised_version/util.cpp`, `config.cpp` | none | lookups through shell commands |
| Earlier versions, prototypes, scratch | `revised_version/*_to_*.cpp`, `temp_test/`, `src/scapy/` | | |
| hostapd: stations | `src/hostapd-0.7.3Kevin/src/ap/sta_info.c`, `ieee802_11.c` | per BSS: list and hash of stations, association ids, counters, timeouts; the kernel's table | handlers of frames and of their transmission status, `ap_handle_timer`, control commands |
| hostapd: RADIUS client | `src/radius/radius_client.c` | list `msgs`, `num_msgs`, next identifier, timeout, current servers | `radius_client_send`, `radius_client_timer`, `radius_client_receive`, failover |
| hostapd: access control by RADIUS | `src/ap/ieee802_11_auth.c` | `acl_cache`, `acl_queries` | `hostapd_allowed_address`, `hostapd_acl_recv_radius`, `hostapd_acl_expire` |
| hostapd: WPA authenticator | `src/ap/wpa_auth.c`, with the supplicant `src/rsn_supp/wpa.c` | per station PTK and group state machine, per BSS group state machine, timeouts | events, `wpa_receive`, `wpa_sm_step`, rekeying |
| hostapd: the rest; psutil | `src/hostapd-0.7.3Kevin/`, `src/psutil-openwrt/` | drivers, cryptography, TLS, EAP methods, WPS | |

### How they interact

    manager --ZeroMQ--> recv_loop --\                            /--> MonToWarpAgent::sync (bssid_list)
                                     command_queue --> parse_loop --> DPMAgent::sync (maps, flow table)
    hostapd_cli --> timed_check ----/        |    ^              \--> send_message --> send_loop --ZeroMQ--> manager
                                   sync /    |    | timed_sync
                                             v    |
                                   WARP board --> process (sniffer thread)

`parse_loop` is the only thread that talks to WARP's control interface. It sends one control packet,
waits on the semaphore of the packet's subtype for up to 500 seconds (`timeout` is added to
`tv_sec`), reads the shared byte and decides. Only after WARP has accepted every packet of a command
does it call `update_bssids`, which tells `MonToWarpAgent` and `DPMAgent` in this order.

hostapd is the program beside it: one process, one thread around an event loop. `timed_check` reads
the list of stations that `sta_info.c` keeps. A station gets onto it through `ieee802_11.c`, which may
ask a RADIUS server first (`ieee802_11_auth.c`, `radius_client.c`), and gets its keys from
`wpa_auth.c`.

### What is hard here

* **Late, lost and refused replies.** Replies carry no request number. A reply that comes after its
  wait has expired leaves a token behind, which wakes the next request of its subtype.
* **One byte for all replies.** Codes of different subtypes coincide (`MAC_ADD_CODE` is
  `BSSID_STATION_ASSOCIATE_CODE`).
* **Unlocked reads.** `parse_loop` looks at `command_queue.size()` without the lock; `send_loop`
  prints `send_message` without it; `timed_check` walks maps that `parse_loop` changes.
* **One semaphore token for many commands, one slot for many responses.**
* **Partial failure.** `radio_set` adds a MAC address on WARP before it looks at the remaining
  parameters, and never takes it back.
* **Limits.** 20 reassembly slots, `uint8_t` counters and lengths, 256 RADIUS identifiers.
* **Lifetimes.** `kill_agent_thread` frees an agent whose thread still runs; in hostapd a handler may
  free the station or the request that its caller goes on with.
* **Events of an event loop in any order.** A transmission status arrives for a station that was
  freed and added again; one timeout serves several purposes and every handler cancels and registers
  it; the GTK changes in the middle of handshakes; an identifier comes round while an old answer is
  on its way.

### What makes each component correct

* Control channel: a wait is woken by its own reply, and success means that WARP did it.
* Communications agent: no lost wakeup, every command carried out once and in order, a success
  response only for work that was done, responses in order, nothing waits for ever.
* Datapath manager and flow table: the flows are those of the associated stations; no step of one
  thread breaks the walk of the other.
* Monitor-to-WARP relay: it relays the frames of exactly the configured BSSIDs.
* Fragment reassembly: a packet is handed on only when each of its fragments has arrived.
* Agent factory: the map owns the agents that exist, and an agent stops after its signal.
* Stations of hostapd: one timeout per entry, one association per station, ids, counters and kernel
  table in step, and silent stations are removed.
* RADIUS client and access control: what is pending is timed and signed for its server, an answer
  decides its own query only, and every query ends.
* WPA: both ends install the same key, every handshake ends, and a new GTK is put to use.

## 2. Modules

| Module | Models | Built on |
|---|---|---|
| `WarpToWlanAgent` | control channel: `sync`, `timed_sync`, `process`, with WARP and the Ethernet around it | |
| `CommsAgent` | communications agent; its parsing thread is the caller of the control channel | `WarpToWlanAgent` |
| `Datapath` | ports and flows of the bridge, one action per operation of `datapath_manager.py` | |
| `DpmAgent` | the nodes of the bssid group: `DPMAgent` with `timed_check`, and `MonToWarpAgent`'s `bssid_list` | `Datapath` |
| `CommandService` | what the command queue promises to producers and nodes | |
| `FragmentReceiver` | slots and buffers of reassembly, with a lossy network | |
| `MonToWarpAgent` | `process` searching `bssid_list`, cell by cell, against `sync` | |
| `AgentFactory` | console, map of agents, and the agents' own threads | |
| `StationTable` | hostapd's stations | |
| `RadiusClient` | hostapd's RADIUS client | |
| `AclQueries` | hostapd's access control by RADIUS | `RadiusClient` |
| `WpaAuth` | WPA2-PSK authenticator and supplicant | |
| `*_proofs` | the theorems about the module of that name | |
| `DpmAgent_proofs` | the theorems about `DpmAgent`, and about `Datapath` which it uses | |
| `Relay_proofs` | the theorems about `AgentFactory` and `MonToWarpAgent` | |
| `AclQueries_proofs` | the theorems about `AclQueries`, and about `RadiusClient` which it uses | |
| `MC*` | values of the constants for TLC | |

`WarpSpec` is the abstract specification of the control channel: its caller may send any request
whenever it is idle. `CommsAgent` implements it (run `comms`, theorem `CommsImplementsChannel`).
`DatapathSpec` is the abstract specification of the bridge: any script call at any time. `DpmAgent`
implements it (run `dpm`, theorem `DpmImplementsDatapath`). `CommandService` is the abstract
specification of the command queue: commands are over in the order in which they were queued, and the
group is told at most once of the command in work. `CommsAgent` implements it with its lock and
semaphore (`ImplementsService`, run `comms_live`, theorem `CommsImplementsService`), `DpmAgent` as seen
by the group (`GroupImplementsService`, run `dpm`, theorem `GroupImplementsServiceAlways`): what the one
assumes is what the other provides.

### WarpToWlanAgent

* `control_sync` are the three semaphores, `response_packet_type` the shared byte. The byte carries,
  as history, the request whose reply it was. The constructor leaves it uninitialised, so it starts
  as any byte of the constant `Leftovers`.
* `timed_sync` is `SemWait` or `SemTimeout`, then `ReadResponse`: the semaphore and the byte are
  separate steps, and the sniffer may come between them. `process` is `ProcessControl` (store the
  byte), then `SemPost`.
* WARP may accept or refuse a request, and requests and replies may be lost or late. WARP answers
  each request once, in order. The codes it uses to refuse are those the header defines and
  `parse_json` does not accept.
* `applied`, `stored`, `timed_out` are history: what WARP carried out, whose reply was stored, which
  waits expired.

### CommsAgent

* A producer (`recv_loop`, `timed_check`) takes the lock, pushes, releases the lock, posts. The
  parsing thread takes a token, looks at `size()`, reads the front, carries the command out, pops.
  `size()` read during a push may answer either way.
* A command is its name and the first thing that is wrong with it: a field that is checked before
  WARP hears of the command, or one of the parameters that `radio_set` checks after WARP has added
  the address. `Steps` lists the requests of each branch of `parse_json`.
* Associate and disassociate send no response; `radio_set`, `delete` and the test string do.
* Memory that error paths do not free, and the text of responses are
  left out.

### Datapath

* A flow is its input port, source address and output port. The script installs every flow once per
  protocol (IP, ARP, IPv6); the three are one here.
* `remove` finds the stations of a port by comparing one character of the flow's text with the port
  number: `FirstDigit` is that conversion. It never finds port 10, and takes its flows for those of
  port 1.
* Open vSwitch gives a new port any number that is free, and keeps flows whose port is deleted.
* Until the bridge exists and `socket_path` has been read a call changes nothing.

### DpmAgent

* `interface_mac` and `interface_bssid` are the maps; `bssid_interface`, which nothing reads, is left
  out. A BSS is identified with its wireless interface (`get_interface_name`).
* `timed_check` is a walk: `WalkBegin`, then for each interface `AllStations`, `Difference`, one
  `QueueCommand` per command, `Record`. `BSSID_ADD` is `AddBssid`, `InsertInterface`, `AddPort`;
  `BSSID_REMOVE` is `RemoveBegin`, `DisassociateStation` for each station, `EraseInterface`,
  `EraseBssid`, `RemovePort`. All of these interleave.
* When the walk touches an element that was erased, or replaces a station set that `BSSID_REMOVE` is
  iterating over, the behaviour is undefined and the model stops (`status = "undefined"`). When
  `at()` throws, nothing catches it and the process ends (`status = "terminated"`).
* The queue is first in, first out, each command carried out once: that is what `CommsAgent` is
  shown to provide. A command's requests either all succeed, or the command is given up before or
  after WARP has changed its set of addresses. Once a command was given up (`late`), a later one may take
  the late reply for its own and go on although WARP did nothing. Interfaces of which WARP and the group
  may think differently are in `apart`.
* A delete may spell its address otherwise than `to_string` does: then `MonToWarpAgent::sync` removes
  nothing (`misspelt`), or otherwise than `ifconfig` does: then `get_interface_name` finds no interface
  and `interface_mac.at` throws (`unnamed`).
* History variables: `late`, `apart`, `misspelt`, `unnamed`, `failed`, `joined`, `removed`, `early`,
  `commands`, `changes`.

### FragmentReceiver

* A slot is its id, what is left to arrive in a byte, and its buffer; a buffer keeps what an earlier
  packet has left in it. `packet_receive` is one step: it takes no lock, and its only caller in this
  version is the `main` of its own test.
* The sender and the Ethernet are external: fragments may be lost, reordered and duplicated, and two
  packets share an id, as they do after 256 packets.
* `reused` and `duplicates` are history.

### MonToWarpAgent

* The vector is cells, size and capacity. `std::find` compares one cell per step; an erase moves one
  cell per step; a push into a full vector frees the memory the search is in, which then may show
  anything. The comparison with `end()` uses the end from before or after the search.
* An address can be spelt in several ways: `BSSID_ADD` parses the text, `BSSID_REMOVE` compares it with
  the lower-case spelling of `to_string`, so that an address spelt otherwise is not removed (`misspelt`).

### AgentFactory

* `Spawn` is one step, since no other thread looks at the map. `kill_agent_thread` is two,
  `KillSignal` and `KillReset`, and the agent's thread may be anywhere between and after them. An
  access to a freed agent is undefined, and the model stops there.

### StationTable

* Each handler is one step of the event loop: authentication and association, disassociation and
  deauthentication, the statuses of frames sent earlier (oldest first), the two timers, the control
  commands. BSSs share an interface; association in one prunes the others.
* The BSSs are open, so that the EAPOL and WPA state machines are null. Requests that are turned
  down change nothing and are left out.
* The driver may fail to add a station, which `handle_assoc_cb` only logs: the station is associated all
  the same, and `added` remembers, as history, whether the driver took it. There are no VLANs, so
  `ap_sta_bind_vlan` returns at once; removals from the driver are taken to succeed.

### RadiusClient and AclQueries

* Times are seconds from now. `msgs` is the list, newest first, each entry with identifier, type,
  attempts, next try and the secret it is signed with. A failover changes the server and what is
  pending; a failed send, and there may be several in one walk over the list, reopens the socket in the
  middle of it. When that frees the entry in use, the model stops (`dangling`).
* Servers answer requests signed with their secret, late, repeatedly or never.
* `AclQueries` is the same client with the queries and the cache on top, and 802.1X as a second user
  of its identifiers. `crossed`, `reused` and `decided` are history.

### WpaAuth

* An event sets its flags and runs `wpa_sm_step` until nothing changes; each state of the source is an
  operator of its name. It works on a context: the state machine of the station, the group, the frames
  sent to it, and whether the driver takes keys. The loop of `wpa_sm_step` is six rounds, which always
  suffice (theorem `AlwaysAtRest`), and a round that finds nothing to do changes nothing.
* A change of the GTK updates every station. The source does so one after the other; the stations have
  nothing in common but the count of marks, so `RekeyGtk` takes each for itself and raises the count
  once. A version that goes from station to station has the same states.
* Of a frame only message, replay counter, nonce, key of the MIC and GTK are kept.
* The supplicant is the one of the same source tree. Frames of one direction stay in order and may be
  lost; `Budget` says how often each kind of event may happen.
* A station goes in several ways. After `ap_sta_disconnect` it is freed by the timer (`RemoveSta`). The
  session timer frees it at once (`SessionTimeout`); the inactivity timer disassociates it
  (`Inactivity`) and frees it later (`FreeSta`); joining another BSS of the interface disconnects it
  (`JoinOtherBss`). The last four tell its WPA state machine nothing: such an event, and a key that the
  driver refuses, spends `"drop"` of the budget, unless the state machine is in INITIALIZE already.
* Left out: stations without a PSK (INITPSK then goes to DISCONNECT), a 2/4 with another RSN element than
  the association request had, and a station's request for a new GTK, which the supplicant never makes
  (`wpa.c:490` asks for pairwise keys only); disconnections by `hostapd_cli`.

### MCRelay

`FragmentReceiver`, `MonToWarpAgent` and `AgentFactory` share no state. `MCRelay` checks
them in one run: a behaviour is that of one part, chosen at the start (`part`), while the others stay as
they were.

## 3. Runs

| Run | Instance | States | Shows |
|---|---|---|---|
| `comms` | 2 commands of all kinds, 2 producers, 4 requests, 1 data frame | 2.4 M | channel: `WokenByOwnReply`, `SuccessIffApplied`, `StrayTokensFromTimeouts`; queue: `NoLostWakeup`; responses: `ResponsesInOrder`; WARP: `GroupFollowsWarp`; refinement: `WarpSpec` |
| `comms_live` | 2 commands, 3 kinds | 164 K | `EveryCommandServed`, `LatestResponsePublished`; refinement: `ImplementsService` |
| `dpm` | 2 interfaces, ports 1, 2 and 10, 1 station, 3 commands, at most 2 of them before `init` is through, 2 changes in hostapd | 2.7 M | `NodesAgree`, `ExceptionOnlyAfter`, `FlowsFollowStations`; flows: `UplinksLeadToBoundPorts`; refinements: `DatapathSpec`, `GroupImplementsService`; `ComesToRest` |
| `relay` | 4 packets of 1 to 3 fragments in 2 slots; 4 calls of `sync` and a frame; 3 agents | 1.3 M | `OneBufferPerId`, `WholeWhenReady`, `GivenUpOnlyWhenFull`; `SearchSound`, `ListFollowsCommands`; `AgentsAccounted` |
| `stations` | 1 station, 2 BSSs, 2 frames without status, a driver that may not take it | 624 K | `OneTimerEach`, `AssociationsSound`, `KernelFollows`, `SilentStationRemoved` |
| `stations_books` | 2 stations, 1 BSS | 803 K | `BooksBalance` |
| `radius` | 2 addresses, 2 identifiers, 2 entries, 2 servers, 3 requests, send errors | 295 K | `PendingListSound`, `SignedForServer` |
| `acl` | 2 addresses, 2 identifiers, 1 server, 3 requests | 177 K | `OneQueryEach`, `AnswersTakeEffect`, `QueryEnds`, `EventuallyDone` |
| `wpa` | 1 station: 2 associations, 1 departure or disassociation, GTK and PTK rekeying, a lost frame, and one drop: session timeout, inactivity, another BSS or a refused key | 3.5 M | `AtRest`, `KeysAgree`, `CountsMarked` |
| `wpa_live` | 2 stations, one with a wrong PSK, 2 changes of the GTK, a station that leaves, a lost frame | 532 K | `CountsMarked`, `HandshakeEnds`, `RekeyCompletes` |

The type invariants of the modules with theorems are proved (`WarpTypeCorrect`, `CommsTypeCorrect`,
`DatapathInvariant`, `DpmInvariant`), those of the others are a part of `OneBufferPerId`,
`ListFollowsCommands`, `AgentsAccounted`, `OneTimerEach`, `PendingListSound`, `OneQueryEach` and
`AtRest`, which are proved too. `SearchSound`,
`AgentsAccounted`, `AssociationsSound`, `PendingListSound` and `AnswersTakeEffect` are conjunctions of the parts named in the modules.

Two runs end in a violation, each of something a comment of the code states:

| Run | What happens |
|---|---|
| `mac_address_added` | a `radio_set` times out; its late reply wakes the next `radio_set`, which goes on although WARP has not seen its request |
| `stations_associated` | a station moves to an interface earlier in the map: its disassociate, queued last, deletes its new flow |

### Bounds

Four requests are enough for a late reply of one wait to meet the next wait of the same subtype with
one of another subtype in between. Two commands of two producers are enough for a push to meet every
place of the parsing thread, and for one token to stand for two commands. Three commands on an
interface are needed for deleting and setting up again (once the bridge is ready: before `init` is
through, two commands already use the bridge too early), and two changes in hostapd for a station to
come and go or to be on two interfaces; it takes three to move, which `stations_associated` allows: the
station joins one interface, joins the other, and leaves the first. Two interfaces give the walk an
order. Of the ports 1, 2 and 10 two begin with the same digit. The theorems cover all other values.

Two slots and four packets fill the database and purge it, and let an id come round; at these bounds the
second packet of an id never meets a slot that still holds the first, which `WholeWhenReady` leaves out
anyway and `OneBufferPerId` covers by its theorem. Four calls of
`sync` grow the vector, erase from its middle and refill it under a search. Two BSSs are needed for
pruning, two stations in one BSS for counters that are shared; two frames without status for an
acknowledgement that arrives after its entry was replaced. With two identifiers, two entries and
three requests every identifier comes round and the list meets its limit; the waits and retries keep
their order (first wait, backoff, failover before the last retry). Two changes of the GTK are needed
for one to begin before the last is over. `wpa_live` has no drops: they are in `wpa`, and the theorem
`MarksAlwaysCounted` covers both for any number of stations.

`CHECK_DEADLOCK FALSE` is set where behaviours end: when the bound on commands, requests or events is
reached, and when the process has terminated. That nothing waits for ever is what the liveness
properties check.

### Fairness

Weak fairness of the agent's own threads: a push that has begun ends, the parsing thread and the
sending thread go on when they can (a wait in `timed_sync` ends by its deadline), `timed_check` wakes
up again. Nothing is assumed of the manager, of WARP, of hostapd, of the network or of the thread
that sets up the bridge. The operating system's scheduler justifies it: no thread waits for a
condition that another one can keep flickering.

In hostapd, time goes on and the event loop calls the timeouts that are due (`StationTable`,
`AclQueries`, `WpaAuth`); in `WpaAuth` frames that are not lost arrive, and are handled. Nothing is
assumed of RADIUS servers and of when stations come or leave.

For `DpmAgent`, `StationTable`, `AclQueries` and `WpaAuth` weak fairness is written out as "infinitely
often disabled or infinitely often taken", with the condition that enables the action
(`CheckHasWork`, `ParseHasWork`, a registered timeout, a frame in the queue) and, in `DpmAgent`, with
what only the steps of that thread change (`CheckMoves`, `ParseMoves`). It says the same as
`WF_` and spares TLC the evaluation of `ENABLED`. In `StationTable` it is assumed only of the timers
of stations that have left: the timer of an active station may expire and change nothing.

### What the conditions of the properties leave out

Where a property has a condition, the code does not keep the promise without it. The conditions, and
what was seen in the models when they were dropped:

* `SuccessIffApplied`, `WokenByOwnReply` and `GroupFollowsWarp` hold as long as no wait has expired;
  `mac_address_added` shows what happens afterwards.
* `ResponsesInOrder` and `LatestResponsePublished` allow a response to be overwritten in its slot
  before it is published: two signals then publish the second one twice (`comms_agent.cpp:68`).
* `NodesAgree` holds until a command fails after WARP has changed its set, or takes a late reply for its
  own. After a `radio_set` that failed between WARP's addition and `update_bssids`, a delete throws in
  `interface_mac.at` (`dpm_agent.cpp:243`). It leaves BSSs on the relay's list whose delete was spelt
  otherwise (`mon_to_warp_agent.cpp:146`); so does `ListFollowsCommands`.
* `SearchSound` claims nothing of frames relayed by a search that a `sync` has crossed, and allows a
  frame to be dropped when cells have moved or were freed under it (`mon_to_warp_agent.cpp:35`).
* `FlowsFollowStations` leaves out stations with a command that WARP did not confirm (it is never
  tried again), stations that moved between interfaces (`stations_associated`), and a bridge that was
  used before it was ready. That a station without association has no flow is claimed only of
  interfaces that were never deleted: an associate still queued when its BSS is deleted and set up
  again adds a flow that nothing removes.
* `UplinksLeadToBoundPorts` and `FlowsFollowStations` are about flows between ports of one digit, though
  others may be in use: `remove` compares one character of the flow's text, so that for port 20 it finds
  no station, and for port 2 those of port 20 too (`datapath_manager.py:164`). `RemoveKeepsOthers` says
  which flows `remove` may take.
* `WholeWhenReady` holds as long as no fragment was duplicated and no id used again while fragments of
  its last packet were in a slot: the code counts fragments of an id, whichever they are.
* `LastCallAfterSignal` is about agents that exist: `kill_agent_thread` frees the agent at once, and its
  thread may call `process` on it once more (`comms_agent.cpp:755`).
* `KernelFollows` does not say that an associated station is in the driver, only that it is there exactly
  if the driver took it at its last association: a failure is only logged (`ieee802_11.c:1594`).
* `BooksBalance` does not say that an associated station has an id: a late acknowledgement of an
  association response marks a fresh entry with id 0 (`ieee802_11.c:1561`).
* `IdsUniqueAndBounded` bounds the list by `num_msgs` from above only: an entry removed because its
  identifier is reused is not taken off the count (`radius_client.c:864`).
* `SignedForServer` leaves out interim accounting, which keeps the old server's secret after a failover
  (`radius_client.c:929`).
* `EventuallyDone` is checked with one server. With two silent ones of the same secret each failover
  resets the attempts, and the request is sent for ever (`radius_client.c:986`).
* The RADIUS model stops when a failed send frees the entry that its caller goes on with
  (`radius_client.c:362`).
* `AnswersOwnQuery` leaves out identifiers reused while the query that had them was pending.
* `CountsMarked` is an equality until a station is dropped whose state machine has not been told: by its
  session timeout, by the inactivity timer (`sta_info.c:364`), by another BSS (`sta_info.c:495`), or
  because the driver refused its key (`wpa_auth.c:1826`). If it was marked, it is freed behind the count
  (`wpa_auth.c:551`), which is then too high; it is never too low.
* `RekeyCompletes` holds while no station leaves or is disassociated, no new PTK is asked for and no
  station is dropped. Leaving or a new PTK can leave a station in `REKEYNEGOTIATING` with its timeout
  cancelled, a drop can leave the count above zero; either way the change of the GTK waits for ever.
* `KeysAgree` is about the pairwise key. A station whose message 3/4 carried the old GTK is passed over
  by a change (`wpa_auth.c:2143`), and a request for a new PTK after a handshake that needed all its
  attempts ends in a disconnection, since `TimeoutCtr` is as it was left (`wpa_auth.c:1490`).

## 4. Theorems

All theorems hold for every value of the constants that satisfies the named assumptions of the
modules (`BoundsAssumption`, `LeftoversAssumption`, `CommsAssumption`, `DatapathAssumption`,
`DpmAssumption`, `FactoryAssumption`, `MonAssumption`, `FragmentAssumption`,
`StationAssumption`, `RadiusAssumption`, `AclAssumption`, `WpaAssumption`), which TLC evaluates on the
instances. Port numbers may have one, two or three digits.

* **WarpToWlanAgent_proofs.** `WarpInv` says where a request and its reply can be: in one queue at
  most, and in none once the reply is stored (`OneReplyPerRequest`); without timeouts every packet,
  frame and token of a subtype belongs to the caller that waits for it (`TokensOwned`), and every
  code tells the truth (`RepliesTruthful`). `WokenByOwnReply` alone is not inductive, since it says
  nothing of a token before it is taken. Where waits do expire, `TokensBalance` counts: the requests
  and replies of a subtype under way, the post that is due and the tokens are together at most the
  expired waits and the one that is going on. The requests have to be counted, since a token is only
  posted long after its wait was given up. Theorems: `WarpTypeCorrect`, `WarpInvariant`,
  `WokenByOwnReplyAlways`, `SuccessIffAppliedAlways`, `TokensPaired`.
* **CommsAgent_proofs.** `CommsInv` adds who holds the lock (`LockHolder`), that a `size()` seen
  during a push is made good before `front()` (`FrontComing`), how far `parse_json` has got
  (`StepInRange`), what the slot speaks of (`SlotCurrent`, `SlotHonest`) and what WARP has done by
  then (`SentApplied`). For the refinement of `CommandService`, `GroupToldInTurn` says which commands
  the group can know of; lemma `ServiceStep` has a step per action of the parsing thread.
  Theorems: `CommsInvariant`, `CommsTypeCorrect`, `NoLostWakeupAlways`, `FrontDefinedAlways`,
  `CommandsInOrderAlways`, `ResponsesInOrderAlways`, `SuccessIsReal`, `CommsImplementsChannel`,
  `GroupAlwaysToldInTurn`, `CommsImplementsService`.
* **DpmAgent_proofs, about `Datapath`.** `DatapathInv` adds that bound interfaces have different numbers
  (`PortsDiffer`) and that uplink flows come from the Ethernet port (`UplinksFromEthernet`): with
  them `remove` finds, when the two ports have one digit, all stations of its interface, and at most
  those of ports that begin with that digit besides (`StationsFound`).
  Theorems: `DatapathInvariant`, `NoFlowLeftBehind`, `OneUplinkAlways`, `RemoveIsLocal`.
* **DpmAgent_proofs, about `DpmAgent`.** `DpmInv` adds that the command in work stays at the front of the queue
  (`ParserAtWork`), how far `DPMAgent::sync` has come with the maps (`MapsFollowParser`), that the
  walk stands on the map (`WalkOnMap`), and that the interfaces are those of WARP but for the command
  in work (`InterfacesFollowWarp`). `NodesAgree` needs to know where the parsing thread is between the
  nodes it tells one after the other (`BssidsFollowMaps`, `ListFollowsWarp`). `FlowsFollowStations`
  speaks of a moment without work; `FlowsInv` says of every moment that the flows will follow once
  what is queued, and what the walk is about to queue, has been carried out (`FlowsWillFollow`: the
  last word that queue and walk have on a station decides), with what the walk has read
  (`WalkSound`), where a station was seen (`JoinedSound`) and which flows and ports there are
  (`PortsSound`). Theorems: `DpmInvariant`, `MapsAlwaysInStep`, `ExceptionOnlyAfterAlways`,
  `DpmImplementsDatapath`, from it `NoFlowLeftBehindByAgent`, `GroupImplementsServiceAlways`,
  `NodesAlwaysAgree`, `FlowsAlwaysFollow`.
* **FragmentReceiver_proofs.** `FragmentInv` adds that a slot in use waits for a fragment and has one
  (`SlotsAwait`), that only sent packets are about (`AboutWasSent`), that without duplicates a
  fragment is under way or in a slot, once (`EachOnce`), and that without reuse the packets about have
  different ids (`IdsApart`) and a slot the fragments of one packet (`OnePacketPerSlot`). The code
  only counts: that the count reaches zero exactly when the set of offsets is full is an argument
  about cardinalities. Theorems: `EachIdHasOneBuffer`, `HandedOnWhole`, `PurgedOnlyWhenFull`.
* **Relay_proofs.** For the factory, `Accounts` adds that ids are given out once and that a call after
  the signal is the last one. For the unlocked search, `SearchInv` says that as long as no cell has moved,
  what it has passed by is not the source (`StandsStill`), and as long as `sync` has not touched the
  list, it is a search of that list (`Untouched`); `CountInv` counts the addresses
  around the hole of an erase in progress. Theorems: `FactoryAccountsForAgents`,
  `UnlockedSearchIsSound`, `ListCountsCommands`.
* **StationTable_proofs.** `StationInv` is the four properties together with the shape of the table
  (`TableOK`), that a station no longer authenticated is on its way out (`OnWayOut`; without it a late
  acknowledgement breaks `AssociationsSound`), and that only stations without ERP rates are counted
  as such (`NonErpMarked`). Theorems: `EachStationTimed`, `BooksAlwaysBalance`, `LateAcksAreHarmless`,
  `KernelAlwaysFollows`.
* **AclQueries_proofs.** `RadiusInv` is `ClientSound`: the pending list is typed, has each identifier
  and each station's interim accounting once (`OneOfEach`), is signed for the servers in use
  (`SignedFor`), is no longer than `num_msgs`, and is timed; with the servers and the next identifier
  in range. It is stated of any list and servers, because a handler goes through several of them:
  `radius_client_timer` walks the list, may fail over for each class of servers afterwards, and
  signs again. Lemmas say of each such pass that it keeps a part of the list and makes no request up.
  `AclInv` adds that a station has one query at most (`OneOfStation`), and that as long as
  no identifier in use was given out again the pending request of an identifier is that of its own
  query (`OwnQuery`); `AnswersTakeEffect` alone does not survive an answer, since it does not
  say whose request the identifier finds. Theorems: `RadiusInvariant`, `PendingListAlwaysSound`,
  `AlwaysSignedForServer`, `AclInvariant`, `OneQueryEachAlways`, `AnswersAlwaysTakeEffect`, and
  `AclImplementsClient`: access control is a client as `RadiusClient` describes them, so that what
  is proved of every client holds of this one.

* **WpaAuth_proofs.** Everything an event can do goes through the loop of `wpa_sm_step`, so the proof
  first says of each state that is entered what it changes (`Kept` and the `Enter...` lemmas), and then
  of a round. `Control` is what holds of a state machine between two rounds: a frame just received is
  one it waits for, a timeout finds a message that can be sent again, where the PTK is not valid.
  `Rounds` bounds the way to rest; every round that changes something lowers it, and every event
  starts with six at most. For the count, `Others` (the marks of the other stations) is untouched by
  an event of one station, and `OnWayOut` says that a station that leaves ends in INITIALIZE, where
  its mark goes, unless one was dropped. `WpaInv` is all this at rest. It is stated of the
  parts of a state (`InvOf`), so that the lemmas about contexts apply to the state after a step too.

  `KeysAgree` says nothing of frames on their way, and a late 2/4, 3/4 or 4/4 of an earlier handshake
  could break it. `KeysInv` says why none does. Nonces on both sides only grow, so keys are ordered by
  the nonces they are derived from; for each station there is a key, the last PTK that hostapd has
  derived, such that from old to new there are: the 4/4 on their way, the key of the station, the 3/4
  on their way, that PTK, the 2/4 on their way, the nonces of the station (`Ordered`), and the nonces
  of the 1/4 on their way lie between what the station has heard and what it was told (`Nonces`). A 4/4
  that is accepted is of the PTK, so the station's key, between the two, is the PTK. `KeysInv`
  does not ask whether the station is still associated: the keys agree then too. It rests on the order
  of frames in one direction, not on `MaxQueue`, on retries or on what is lost.
  Theorems: `WpaInvariant`, `AlwaysAtRest`, `MarksAlwaysCounted`, `KeysInvariant`, `KeysAlwaysAgree`.

Only model-checked: the liveness properties `EveryCommandServed`, `LatestResponsePublished`,
`ComesToRest`, `SilentStationRemoved`, `QueryEnds`, `EventuallyDone`, `HandshakeEnds` and
`RekeyCompletes`. The prover has no reasoning about fairness and ENABLED. Every safety property of the
passing runs is proved.

## 5. Not modelled

* What `WlanToWarpAgent::process` and `MonToWarpAgent::process` forward: frames go on unchanged.
* The `vethd` processes that `DPMAgent::add` starts and `remove` kills.
* The layouts of packets (`create_*`, `process_warp_layer` beyond the reply codes) and the `get_default`
  functions that fill them with constants before `process` and `radio_set` change some fields: no state.
  The transmission control packet is two bytes shorter than the fields that are written into it
  (`warp_protocol.cpp:143`). `generate_fragment_struct`, which nothing calls.
* Frame filters, utilities, configuration: lookups and constants.
* `revised_version/*_to_*.cpp`, `temp_test/`, `src/scapy/`: earlier versions and prototypes.
* Most of `src/hostapd-0.7.3Kevin/`, which is nearly all of the repository by lines: drivers (calls to
  a kernel that is not here), cryptography, TLS and big numbers (arithmetic on data no property tells
  apart), EAP methods and WPS, which the configuration of the relay does not use, wpa_supplicant's
  own programs, and the parsing of configuration files. Of what the relay depends on, these parts are
  left out: shared-key authentication, 802.1X, WDS, SA queries, preauthentication, VLANs, WPA version
  1, PMKSA, FT, management frame protection, PeerKey, TKIP countermeasures.
* The `hostapd*.conf` files of the repository set up open networks; `RadiusClient`, `AclQueries` and
  `WpaAuth` are about options of the same hostapd that those files leave off.

## 6. Plan

Done: the path of a command from the manager to the flow table (`WarpToWlanAgent`, `CommsAgent`,
`Datapath`, `DpmAgent`, with `CommandService` between them), the relay's other parts (`FragmentReceiver`,
`MonToWarpAgent`, `AgentFactory`), and the parts of hostapd that decide which stations
there are (`StationTable`, `RadiusClient`, `AclQueries`, `WpaAuth`). Proved: every safety property of
the passing runs. Next:

1. The replies of WARP one by one in `DpmAgent`, which has them in the abstract (`late`), by composing it with
   the control channel.
