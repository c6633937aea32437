----------------------------- MODULE StationTable -----------------------------
(***************************************************************************)
(* hostapd's stations (hostapd-0.7.3Kevin/src/ap): the list of each BSS in *)
(* sta_info.c with its association ids, counters and timers, the handlers  *)
(* of management frames and of their transmission status in ieee802_11.c,  *)
(* and the pruning of associations in other BSSs (utils.c).  The list is   *)
(* what hostapd_cli all_sta prints and the datapath manager reads.         *)
(*                                                                         *)
(* hostapd is one thread around an event loop, so a handler is one step;   *)
(* what may come in any order are the handlers: received frames, the       *)
(* statuses of frames sent earlier (oldest first), expired timers, and the *)
(* commands of the control interface.                                      *)
(*                                                                         *)
(* The BSSs are those of one interface, open and without WPA or 802.1X,    *)
(* with open system authentication, so that eapol_sm and wpa_sm are null,  *)
(* and without VLANs, so that ap_sta_bind_vlan returns at once (vlan_id is *)
(* 0).  Requests that are turned down change nothing and are left out.     *)
(* The kernel may refuse a new station entry; that it fails to remove one  *)
(* it has is left out.                                                     *)
(***************************************************************************)
EXTENDS Naturals, Sequences, FiniteSets

CONSTANTS Bss,           \* the BSSs, in the order of iface->bss
          Stations,
          NonErp,        \* the stations without ERP rates
          MaxAid,        \* association ids are 1..MaxAid (2007)
          MaxNumSta,     \* conf->max_num_sta
          MaxPending     \* bound: frames whose status is still to come

ASSUME StationAssumption ==
  /\ Bss \subseteq Nat /\ IsFiniteSet(Bss) /\ IsFiniteSet(Stations)
  /\ NonErp \subseteq Stations
  /\ MaxAid \in Nat /\ MaxNumSta \in Nat /\ MaxPending \in Nat

VARIABLES
  sta,                   \* struct sta_info of the stations of each BSS's list
  timer,                 \* registered timeouts of ap_handle_timer
  session,               \* is a timeout of ap_handle_session_timer registered?
  sta_aid,               \* association ids in use, by BSS
  num_sta,               \* number of stations, by BSS
  num_sta_non_erp,       \* stations without ERP rates on the interface
  driver,                \* the kernel's station entries, by BSS
  tx,                    \* frames sent, oldest first: [bss, addr, kind]
  gone                   \* stations that have left without a word

timerVars == <<timer, session>>
countVars == <<sta_aid, num_sta, num_sta_non_erp>>
vars == <<sta, timerVars, countVars, driver, tx, gone>>

TimeoutNext == {"STA_NULLFUNC", "STA_DISASSOC", "STA_DEAUTH", "STA_REMOVE"}

\* added is a history field: the station is associated, and drv.sta_add took it
\* when it last associated.
NewSta == [aid |-> 0, auth |-> FALSE, assoc |-> FALSE, pending_poll |-> FALSE,
           nonerp_set |-> FALSE, added |-> FALSE, timeout_next |-> "STA_NULLFUNC"]

Known(b) == DOMAIN sta[b]

Init ==
  /\ sta = [b \in Bss |-> <<>>]
  /\ timer = [b \in Bss |-> [s \in Stations |-> 0]]
  /\ session = [b \in Bss |-> [s \in Stations |-> FALSE]]
  /\ sta_aid = [b \in Bss |-> {}]
  /\ num_sta = [b \in Bss |-> 0]
  /\ num_sta_non_erp = 0
  /\ driver = [b \in Bss |-> {}]
  /\ tx = <<>>
  /\ gone = {}

\* send_mgmt_frame; a frame that cannot be sent is given up.
Sent(b, s, kind) ==
  IF Len(tx) < MaxPending THEN Append(tx, [bss |-> b, addr |-> s, kind |-> kind])
  ELSE tx

\* eloop_cancel_timeout and eloop_register_timeout of ap_handle_timer.
Rearmed(b, s) == [timer EXCEPT ![b][s] = 1]

-----------------------------------------------------------------------------
\* Faulty variant: the association id stays in use.
ApFreeStaKeepsAid(b, s) ==
  /\ sta' = [sta EXCEPT ![b] = [x \in Known(b) \ {s} |-> sta[b][x]]]
  /\ num_sta' = [num_sta EXCEPT ![b] = @ - 1]
  /\ num_sta_non_erp' = num_sta_non_erp - (IF sta[b][s].nonerp_set THEN 1 ELSE 0)
  /\ timer' = [timer EXCEPT ![b][s] = 0]
  /\ session' = [session EXCEPT ![b][s] = FALSE]
  /\ driver' = [driver EXCEPT ![b] = @ \ {s}]
  /\ UNCHANGED sta_aid

\* Faulty variant: the kernel's entry stays.
ApFreeStaKeepsDriver(b, s) ==
  /\ sta' = [sta EXCEPT ![b] = [x \in Known(b) \ {s} |-> sta[b][x]]]
  /\ sta_aid' = [sta_aid EXCEPT ![b] = @ \ {sta[b][s].aid}]
  /\ num_sta' = [num_sta EXCEPT ![b] = @ - 1]
  /\ num_sta_non_erp' = num_sta_non_erp - (IF sta[b][s].nonerp_set THEN 1 ELSE 0)
  /\ timer' = [timer EXCEPT ![b][s] = 0]
  /\ session' = [session EXCEPT ![b][s] = FALSE]
  /\ UNCHANGED driver

\* The station leaves the list, the hash table, the books, the kernel and the
\* event loop.
ap_free_sta(b, s) ==
  /\ sta' = [sta EXCEPT ![b] = [x \in Known(b) \ {s} |-> sta[b][x]]]
  /\ sta_aid' = [sta_aid EXCEPT ![b] = @ \ {sta[b][s].aid}]
  /\ num_sta' = [num_sta EXCEPT ![b] = @ - 1]
  /\ num_sta_non_erp' = num_sta_non_erp - (IF sta[b][s].nonerp_set THEN 1 ELSE 0)
  /\ timer' = [timer EXCEPT ![b][s] = 0]
  /\ session' = [session EXCEPT ![b][s] = FALSE]
  /\ driver' = [driver EXCEPT ![b] = @ \ {s}]

\* Faulty variant: the running timer is not cancelled.
ApStaDisconnectNoCancel(b, s) ==
  /\ sta' = [sta EXCEPT ![b][s].auth = FALSE, ![b][s].assoc = FALSE, ![b][s].added = FALSE,
                        ![b][s].timeout_next = "STA_REMOVE"]
  /\ timer' = [timer EXCEPT ![b][s] = @ + 1]
  /\ UNCHANGED driver

\* The entry stays until the event loop gets to its timer.
ap_sta_disconnect(b, s) ==
  /\ sta' = [sta EXCEPT ![b][s].auth = FALSE, ![b][s].assoc = FALSE, ![b][s].added = FALSE,
                        ![b][s].timeout_next = "STA_REMOVE"]
  /\ timer' = Rearmed(b, s)
  /\ UNCHANGED driver

ap_sta_deauthenticate(b, s) ==
  /\ sta' = [sta EXCEPT ![b][s].auth = FALSE, ![b][s].assoc = FALSE, ![b][s].added = FALSE,
                        ![b][s].timeout_next = "STA_REMOVE"]
  /\ timer' = Rearmed(b, s)
  /\ driver' = [driver EXCEPT ![b] = @ \ {s}]

ap_sta_disassociate(b, s) ==
  /\ sta' = [sta EXCEPT ![b][s].assoc = FALSE, ![b][s].added = FALSE,
                        ![b][s].timeout_next = "STA_DEAUTH"]
  /\ timer' = Rearmed(b, s)
  /\ driver' = [driver EXCEPT ![b] = @ \ {s}]

\* ap_sta_add of a new station: it is disconnected in the other BSSs; flags
\* are those handle_auth sets afterwards.
ap_sta_add(b, s) ==
  /\ num_sta[b] < MaxNumSta
  /\ num_sta' = [num_sta EXCEPT ![b] = @ + 1]
  /\ sta' = [c \in Bss |->
               IF c = b
               THEN [t \in Known(c) \cup {s} |->
                       IF t = s THEN [NewSta EXCEPT !.auth = TRUE] ELSE sta[c][t]]
               ELSE IF s \in Known(c)
               THEN [sta[c] EXCEPT ![s].auth = FALSE, ![s].assoc = FALSE, ![s].added = FALSE,
                                   ![s].timeout_next = "STA_REMOVE"]
               ELSE sta[c]]
  /\ timer' = [c \in Bss |-> IF c = b THEN [timer[c] EXCEPT ![s] = @ + 1]
                             ELSE IF s \in Known(c) THEN [timer[c] EXCEPT ![s] = 1]
                             ELSE timer[c]]

-----------------------------------------------------------------------------
(***************************************************************************)
(* Received management frames.                                             *)
(***************************************************************************)

\* Open system authentication, allowed by the access list, with a session
\* timeout or without one.
handle_auth(b, s) ==
  /\ s \notin gone
  /\ \/ /\ s \in Known(b)
        /\ sta' = [sta EXCEPT ![b][s].auth = TRUE]
        /\ UNCHANGED <<timer, num_sta>>
     \/ /\ s \notin Known(b)
        /\ ap_sta_add(b, s)
  /\ \E limited \in BOOLEAN : session' = [session EXCEPT ![b][s] = limited]
  /\ tx' = Sent(b, s, "auth")
  /\ UNCHANGED <<sta_aid, num_sta_non_erp, driver, gone>>

\* The station keeps its id or gets the lowest free one.
hostapd_get_aid(b, s, a) ==
  /\ a \in 1..MaxAid
  /\ IF sta[b][s].aid > 0 THEN a = sta[b][s].aid
     ELSE a \notin sta_aid[b] /\ \A c \in 1..(a - 1) : c \in sta_aid[b]
  /\ sta_aid' = [sta_aid EXCEPT ![b] = @ \cup {a}]

\* Association and reassociation requests that pass all checks.  The station
\* is not associated before it has acknowledged the response; the timer that
\* runs is left alone but will not remove it at once.
handle_assoc(b, s) ==
  /\ s \notin gone
  /\ s \in Known(b) /\ sta[b][s].auth
  /\ \E a \in 1..MaxAid :
       /\ hostapd_get_aid(b, s, a)
       /\ sta' = [sta EXCEPT ![b][s].aid = a,
                             ![b][s].nonerp_set = s \in NonErp,
                             ![b][s].timeout_next = "STA_NULLFUNC"]
  /\ num_sta_non_erp' = num_sta_non_erp
                        + (IF s \in NonErp /\ ~sta[b][s].nonerp_set THEN 1 ELSE 0)
  /\ tx' = Sent(b, s, "assoc")
  /\ UNCHANGED <<timerVars, num_sta, driver, gone>>

\* The station stays authenticated for a moment, unless it was on its way out.
handle_disassoc(b, s) ==
  /\ s \notin gone
  /\ s \in Known(b)
  /\ driver' = [driver EXCEPT ![b] = @ \ {s}]
  /\ IF sta[b][s].timeout_next \in {"STA_NULLFUNC", "STA_DISASSOC"}
     THEN /\ sta' = [sta EXCEPT ![b][s].assoc = FALSE, ![b][s].added = FALSE,
                                ![b][s].timeout_next = "STA_DEAUTH"]
          /\ timer' = Rearmed(b, s)
     ELSE /\ sta' = [sta EXCEPT ![b][s].assoc = FALSE, ![b][s].added = FALSE]
          /\ UNCHANGED timer
  /\ UNCHANGED <<session, countVars, tx, gone>>

handle_deauth(b, s) ==
  /\ s \notin gone
  /\ s \in Known(b)
  /\ ap_free_sta(b, s)
  /\ UNCHANGED <<tx, gone>>

-----------------------------------------------------------------------------
(***************************************************************************)
(* Transmission status of the oldest frame.                                *)
(***************************************************************************)

\* Faulty variant: other associations are not pruned.
HandleAssocCbNoPrune(b, s) ==
  /\ sta' = [sta EXCEPT ![b][s].assoc = TRUE, ![b][s].added = TRUE]
  /\ driver' = [driver EXCEPT ![b] = @ \cup {s}]
  /\ UNCHANGED timer

\* The station has acknowledged the association response: it is associated,
\* its entry in the kernel is removed and added anew, and
\* hostapd_prune_associations disassociates it in every other BSS.  When the
\* kernel refuses the new entry, that is logged and nothing else is changed.
handle_assoc_cb(b, s) ==
  LET pruned == {c \in Bss \ {b} : s \in Known(c)}
  IN  \E ok \in BOOLEAN :
        /\ sta' = [c \in Bss |->
                     IF c = b THEN [sta[c] EXCEPT ![s].assoc = TRUE, ![s].added = ok]
                     ELSE IF c \in pruned
                     THEN [sta[c] EXCEPT ![s].assoc = FALSE, ![s].added = FALSE,
                                         ![s].timeout_next = "STA_DEAUTH"]
                     ELSE sta[c]]
        /\ timer' = [c \in Bss |-> IF c \in pruned THEN [timer[c] EXCEPT ![s] = 1]
                                   ELSE timer[c]]
        /\ driver' = [c \in Bss |-> IF c = b /\ ok THEN driver[c] \cup {s}
                                    ELSE IF c = b \/ c \in pruned THEN driver[c] \ {s}
                                    ELSE driver[c]]

handle_auth_cb(b, s) ==
  /\ sta' = [sta EXCEPT ![b][s].auth = TRUE]
  /\ UNCHANGED <<timer, driver>>

\* hostapd_tx_status of a poll finds the station in the first BSS that knows it.
hostapd_tx_status(s) ==
  /\ \E b \in Bss :
       /\ s \in Known(b) /\ \A c \in Bss : s \in Known(c) => b <= c
       /\ sta' = [sta EXCEPT ![b][s].pending_poll = FALSE]
  /\ UNCHANGED <<timer, driver>>

\* An unacknowledged frame, or one for a station that is not known any more,
\* leads to nothing.
TxStatus ==
  /\ tx # <<>>
  /\ tx' = Tail(tx)
  /\ LET f == Head(tx)
     IN  \/ UNCHANGED <<sta, timer, driver>>
         \/ f.addr \notin gone /\ f.kind = "poll" /\ hostapd_tx_status(f.addr)
         \/ /\ f.addr \notin gone /\ f.addr \in Known(f.bss)
            /\ \/ f.kind = "auth" /\ handle_auth_cb(f.bss, f.addr)
               \/ f.kind = "assoc" /\ handle_assoc_cb(f.bss, f.addr)
  /\ UNCHANGED <<session, countVars, gone>>

-----------------------------------------------------------------------------
(***************************************************************************)
(* Timers.                                                                 *)
(***************************************************************************)

\* The kernel has seen the station lately, or it acknowledged the last poll.
Active(b, s) ==
  /\ sta[b][s].assoc
  /\ \/ /\ sta[b][s].timeout_next \in {"STA_NULLFUNC", "STA_DISASSOC"}
        /\ s \in driver[b] /\ s \notin gone
     \/ sta[b][s].timeout_next = "STA_DISASSOC" /\ ~sta[b][s].pending_poll

\* The kernel need not have seen it.
Inactive(b, s) ==
  ~(sta[b][s].assoc /\ sta[b][s].timeout_next = "STA_DISASSOC"
      /\ ~sta[b][s].pending_poll)

\* Faulty variant: a poll that was not acknowledged counts as activity.
ApHandleTimerForgives(b, s) ==
  /\ timer[b][s] > 0 /\ s \in Known(b)
  /\ \/ /\ sta[b][s].timeout_next \in {"STA_NULLFUNC", "STA_DISASSOC"}
        /\ sta' = [sta EXCEPT ![b][s].timeout_next =
                     IF @ = "STA_NULLFUNC" THEN "STA_DISASSOC" ELSE "STA_NULLFUNC"]
        /\ UNCHANGED <<countVars, driver, tx, timerVars>>
     \/ /\ sta[b][s].timeout_next \in {"STA_DEAUTH", "STA_REMOVE"}
        /\ ap_free_sta(b, s)
        /\ UNCHANGED tx
  /\ UNCHANGED gone

\* Every path but the removal registers the timer again.
ap_handle_timer(b, s) ==
  /\ timer[b][s] > 0 /\ s \in Known(b)
  /\ \/ /\ Active(b, s)
        /\ sta' = [sta EXCEPT ![b][s].timeout_next = "STA_NULLFUNC"]
        /\ UNCHANGED <<timerVars, countVars, driver, tx>>
     \/ /\ Inactive(b, s)
        /\ sta[b][s].timeout_next = "STA_NULLFUNC"
        /\ sta' = [sta EXCEPT ![b][s].pending_poll = @ \/ sta[b][s].assoc,
                              ![b][s].timeout_next = "STA_DISASSOC"]
        /\ tx' = IF sta[b][s].assoc THEN Sent(b, s, "poll") ELSE tx
        /\ UNCHANGED <<timerVars, countVars, driver>>
     \/ /\ Inactive(b, s)
        /\ sta[b][s].timeout_next = "STA_DISASSOC"
        /\ sta' = [sta EXCEPT ![b][s].assoc = FALSE, ![b][s].added = FALSE,
                              ![b][s].timeout_next = "STA_DEAUTH"]
        /\ UNCHANGED <<timerVars, countVars, driver, tx>>
     \/ /\ sta[b][s].timeout_next \in {"STA_DEAUTH", "STA_REMOVE"}
        /\ ap_free_sta(b, s)
        /\ UNCHANGED tx
  /\ UNCHANGED gone

ap_handle_session_timer(b, s) ==
  /\ session[b][s] /\ s \in Known(b)
  /\ \/ /\ sta[b][s].auth
        /\ ap_free_sta(b, s)
     \/ /\ ~sta[b][s].auth
        /\ session' = [session EXCEPT ![b][s] = FALSE]
        /\ UNCHANGED <<sta, timer, countVars, driver>>
  /\ UNCHANGED <<tx, gone>>

-----------------------------------------------------------------------------
\* hostapd_cli deauthenticate and disassociate; ap_sta_disconnect is called
\* when another access point announces the station (iapp.c).
Control(b, s) ==
  /\ s \in Known(b)
  /\ ap_sta_deauthenticate(b, s) \/ ap_sta_disassociate(b, s) \/ ap_sta_disconnect(b, s)
  /\ UNCHANGED <<session, countVars, tx, gone>>

\* A station goes out of range: nothing more is heard of it.
Leave(s) == /\ s \notin gone
            /\ gone' = gone \cup {s}
            /\ UNCHANGED <<sta, timerVars, countVars, driver, tx>>

Next ==
  \/ TxStatus
  \/ \E s \in Stations :
       \/ Leave(s)
       \/ \E b \in Bss :
            \/ handle_auth(b, s) \/ handle_assoc(b, s) \/ handle_disassoc(b, s)
            \/ handle_deauth(b, s) \/ ap_handle_timer(b, s)
            \/ ap_handle_session_timer(b, s) \/ Control(b, s)

Spec == Init /\ [][Next]_vars

\* The timeouts of stations that have left expire; nothing else is assumed.
\* It is weak fairness of ap_handle_timer for those stations, written out: a
\* registered timer enables it, and each of its steps changes something.
FairSpec == Spec /\ \A b \in Bss, s \in Stations :
              \/ []<>(timer[b][s] = 0 \/ s \notin gone)
              \/ []<><<ap_handle_timer(b, s)>>_vars

-----------------------------------------------------------------------------
StaInfo == [aid : 0..MaxAid, auth : BOOLEAN, assoc : BOOLEAN,
            pending_poll : BOOLEAN, nonerp_set : BOOLEAN,
            added : BOOLEAN, timeout_next : TimeoutNext]

Entries == {e \in Bss \X Stations : e[2] \in Known(e[1])}

\* Type invariant of the station table.
StationTypeOK ==
  /\ \A b \in Bss : Known(b) \subseteq Stations /\ sta[b] \in [Known(b) -> StaInfo]
  /\ timer \in [Bss -> [Stations -> Nat]]
  /\ session \in [Bss -> [Stations -> BOOLEAN]]
  /\ sta_aid \in [Bss -> SUBSET (1..MaxAid)]
  /\ num_sta \in [Bss -> 0..MaxNumSta]
  /\ num_sta_non_erp \in Nat
  /\ driver \in [Bss -> SUBSET Stations]
  /\ \A i \in DOMAIN tx : tx[i] \in [bss : Bss, addr : Stations,
                                     kind : {"auth", "assoc", "poll"}]

\* Every station in a list has exactly one timer, and a freed one has none: if
\* a handler registered a second timer, the first to remove the station would
\* leave one that points to freed memory, and without a timer a dead station
\* would never go.
OneTimerEach ==
  /\ StationTypeOK
  /\ \A b \in Bss, s \in Stations :
       /\ timer[b][s] = IF s \in Known(b) THEN 1 ELSE 0
       /\ session[b][s] => s \in Known(b)

\* The books are right: the ids in use are those of the stations, no two
\* stations of a BSS have the same one, and the counters count.
BooksBalance ==
  /\ \A b \in Bss :
       /\ sta_aid[b] = {sta[b][s].aid : s \in Known(b)} \ {0}
       /\ \A s, t \in Known(b) : sta[b][s].aid = sta[b][t].aid => s = t \/ sta[b][s].aid = 0
       /\ num_sta[b] = Cardinality(Known(b))
  /\ num_sta_non_erp = Cardinality({e \in Entries : sta[e[1]][e[2]].nonerp_set})

\* A station is associated in at most one BSS of the interface, although
\* responses of two BSSs may be acknowledged late and in any order.
OneAssociation ==
  \A s \in Stations, b, c \in Bss :
    (/\ s \in Known(b) \cap Known(c)
     /\ sta[b][s].assoc /\ sta[c][s].assoc) => b = c

\* The kernel has no station that hostapd has forgotten, whatever frames,
\* timers and commands have crossed; and it has an associated one exactly if it
\* took the entry when the station last associated.  A station whose entry it
\* refused stays associated for hostapd, which only logs that.
KernelFollows ==
  \A b \in Bss :
    /\ driver[b] \subseteq Known(b)
    /\ \A s \in Known(b) : sta[b][s].assoc => (s \in driver[b] <=> sta[b][s].added)

\* An association that a late acknowledgement has brought about for a station
\* no longer authenticated does not last: the entry's next timer removes it.
UnauthenticatedLeaves ==
  \A b \in Bss : \A s \in Known(b) :
    (sta[b][s].assoc /\ ~sta[b][s].auth) => sta[b][s].timeout_next \in {"STA_DEAUTH", "STA_REMOVE"}

\* What late acknowledgements can do to associations is bounded in both ways.
AssociationsSound == OneAssociation /\ UnauthenticatedLeaves

\* A station that has left without a word is removed from every list, so that
\* hostapd_cli all_sta stops listing it.
SilentStationRemoved ==
  \A b \in Bss, s \in Stations : (s \in gone) ~> (s \notin Known(b))
=============================================================================
