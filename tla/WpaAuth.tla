-------------------------------- MODULE WpaAuth --------------------------------
(***************************************************************************)
(* The WPA2-PSK authenticator of hostapd (src/ap/wpa_auth.c) with the      *)
(* supplicant of the same source tree (src/rsn_supp/wpa.c): the 4-way      *)
(* handshake, the group key handshake, the retransmission timers, and the  *)
(* group state machine that hands out a new GTK and then uses it.          *)
(*                                                                         *)
(* hostapd is one thread, so an event is one step: it sets its flags and   *)
(* runs wpa_sm_step until nothing changes.  Of the frames, what is kept is *)
(* the message, its replay counter, its nonce, the key of its MIC and the  *)
(* GTK it carries.  Nonces and GTKs are numbers; a PTK is the triple of    *)
(* PSK and nonces it is derived from.  A frame may be lost, and waits as   *)
(* long as it likes; frames of one direction arrive in order.              *)
(*                                                                         *)
(* Left out: WPA version 1, 802.1X key management, PMKSA, FT, MFP,         *)
(* PeerKey, TKIP errors, several groups (VLANs), and allocation failures;  *)
(* a station for which no PSK is configured (INITPSK then leads to         *)
(* DISCONNECT); and what the supplicant of this tree never sends: a 2/4    *)
(* with another RSN element than its association request, at which         *)
(* wpa_receive disconnects it, and a request for a new GTK, at which it    *)
(* calls wpa_rekey_gtk.  Stations that hostapd_cli disconnects are left    *)
(* out too.                                                                *)
(***************************************************************************)
EXTENDS Integers, Sequences, FiniteSets

CONSTANTS Sta,          \* stations
          WrongPsk,     \* the stations with another PSK than the AP
          UpdateCount,  \* dot11RSNAConfig{Pairwise,Group}UpdateCount (4)
          MaxQueue,     \* bound: frames waiting in one direction; more are lost
          Budget        \* bound: how often each kind of event may happen

Events == {"assoc", "leave", "gtk", "ptk", "lose", "drop"}

ASSUME WpaAssumption ==
  /\ IsFiniteSet(Sta) /\ WrongPsk \subseteq Sta
  /\ UpdateCount \in Nat \ {0} /\ MaxQueue \in Nat \ {0}
  /\ Budget \in [Events -> Nat]

VARIABLES sm,           \* the stations' struct wpa_state_machine
          group,        \* struct wpa_group
          sup,          \* the supplicants
          to_sta,       \* frames on their way to each station
          to_ap,        \* frames of each station on their way to the AP
          left          \* events still allowed

vars == <<sm, group, sup, to_sta, to_ap, left>>

RSNA_MAX_EAPOL_RETRIES == 4
NoKey == <<>>
Ptk(psk, anonce, snonce) == <<psk, anonce, snonce>>
Psk(s) == IF s \in WrongPsk THEN "wrong" ELSE "psk"

Minimum(a, b) == IF a < b THEN a ELSE b

(* struct wpa_state_machine after os_zalloc.  Of key_replay only a prefix  *)
(* is ever valid, and its counters are consecutive: counter, window of     *)
(* them.  The requests are the flags SM_STEP(WPA_PTK) asks first.          *)
NewSm ==
  [exists |-> FALSE, assoc |-> FALSE, leaving |-> FALSE, started |-> FALSE,
   ptk_state |-> "INITIALIZE", group_state |-> "IDLE", requests |-> {},
   PtkGroupInit |-> FALSE, TimeoutCtr |-> 0, GTimeoutCtr |-> 0,
   TimeoutEvt |-> FALSE, timers |-> 0, rekey_timer |-> FALSE,
   rx |-> "none", MICVerified |-> FALSE, GUpdateStationKeys |-> FALSE,
   ANonce |-> 0, SNonce |-> 0, last_mic |-> NoKey,
   PTK |-> NoKey, PTK_valid |-> FALSE, pairwise_set |-> FALSE, key |-> NoKey,
   counter |-> 0, window |-> 0, req_replay_counter |-> 0,
   has_GTK |-> FALSE, authorized |-> FALSE]

(* struct wpa_group after wpa_group_init: GTK_INIT and then SETKEYSDONE.   *)
NewGroup ==
  [state |-> "SETKEYSDONE", Counter |-> 2, GN |-> 1, GM |-> 2,
   GTK |-> <<1, 0>>, GKeyDoneStations |-> 0, key |-> [idx |-> 1, gtk |-> 1]]

NewSup ==
  [assoc |-> FALSE, ptk |-> NoKey, tptk |-> NoKey, anonce |-> 0, snonce |-> 0,
   renew_snonce |-> FALSE, rx_replay_counter |-> 0, request_counter |-> 1,
   key |-> NoKey, gtk |-> <<0, 0>>]

Init ==
  /\ sm = [s \in Sta |-> NewSm] /\ group = NewGroup
  /\ sup = [s \in Sta |-> NewSup]
  /\ to_sta = [s \in Sta |-> <<>>] /\ to_ap = [s \in Sta |-> <<>>]
  /\ left = Budget

(* What an event of one station works on: its state machine, the group,    *)
(* the frames sent to it, and whether the driver will take a key.          *)
Context(s) ==
  [sm |-> sm[s], group |-> group, out |-> to_sta[s], driver_ok |-> TRUE]

Becomes(s, c) ==
  /\ sm' = [sm EXCEPT ![s] = c.sm] /\ group' = c.group
  /\ to_sta' = [to_sta EXCEPT ![s] = c.out]

-----------------------------------------------------------------------------
(* Sending, and what the callbacks of wpa_auth_glue.c do.                  *)

Put(q, m) == IF Len(q) < MaxQueue THEN Append(q, m) ELSE q

(* __wpa_send_eapol and wpa_send_eapol.  A message with a MIC is not sent  *)
(* while the PTK is not valid, but its counter is used up, and the timeout *)
(* is registered all the same.                                             *)
KeyFrame(c, type, mic, nonce) ==
  [type |-> type, replay |-> c.sm.counter + 1, nonce |-> nonce,
   mic |-> IF mic THEN c.sm.PTK ELSE NoKey,
   idx |-> c.group.GN, gtk |-> c.group.GTK[c.group.GN]]

wpa_send_eapol(c, type, mic, nonce) ==
  [c EXCEPT !.sm.counter = @ + 1,
            !.sm.window = Minimum(@ + 1, RSNA_MAX_EAPOL_RETRIES),
            !.sm.timers = @ + 1,
            !.out = IF mic /\ ~c.sm.PTK_valid THEN @
                    ELSE Put(@, KeyFrame(c, type, mic, nonce))]

wpa_remove_ptk(c) ==
  [c EXCEPT !.sm.PTK_valid = FALSE, !.sm.PTK = NoKey, !.sm.key = NoKey,
            !.sm.pairwise_set = FALSE, !.sm.rekey_timer = FALSE]

(* wpa_sta_disconnect, ap_sta_disconnect: a deauthentication frame, and a  *)
(* timeout of zero seconds that will free the station.                     *)
wpa_sta_disconnect(c) ==
  [c EXCEPT !.sm.leaving = TRUE, !.sm.assoc = FALSE, !.sm.authorized = FALSE,
            !.out = Put(@, [type |-> "Deauth"])]

(* Mutant: the mark goes, the count stays.                                 *)
UnmarkKeepsCount(c) == [c EXCEPT !.sm.GUpdateStationKeys = FALSE]

(* The station is no longer counted among those that lack the new GTK.     *)
Unmark(c) ==
  IF c.sm.GUpdateStationKeys
  THEN [c EXCEPT !.sm.GUpdateStationKeys = FALSE, !.group.GKeyDoneStations = @ - 1]
  ELSE c

-----------------------------------------------------------------------------
(* SM_STEP(WPA_PTK): the state to enter next, or "none".                   *)

PairwiseReceived(m) == m.rx = "pairwise"

Requested(m) ==
  IF "Disconnect" \in m.requests THEN "DISCONNECT"
  ELSE IF "Deauthentication" \in m.requests THEN "DISCONNECTED"
  ELSE IF "Authentication" \in m.requests THEN "AUTHENTICATION"
  ELSE IF "ReAuthentication" \in m.requests THEN "AUTHENTICATION2"
  ELSE "PTKSTART"

Followed(m) ==
  LET st == m.ptk_state IN
  CASE st = "DISCONNECT" -> "DISCONNECTED"
    [] st = "DISCONNECTED" -> "INITIALIZE"
    [] st = "AUTHENTICATION" -> "AUTHENTICATION2"
    [] st = "AUTHENTICATION2" -> "INITPSK"
    [] st = "INITPSK" -> "PTKSTART"
    [] st = "PTKSTART" ->
         IF PairwiseReceived(m) THEN "PTKCALCNEGOTIATING"
         ELSE IF m.TimeoutCtr > UpdateCount THEN "DISCONNECT"
         ELSE IF m.TimeoutEvt THEN "PTKSTART" ELSE "none"
    [] st = "PTKCALCNEGOTIATING" ->
         IF m.MICVerified THEN "PTKCALCNEGOTIATING2"
         ELSE IF PairwiseReceived(m) THEN "PTKCALCNEGOTIATING"
         ELSE IF m.TimeoutEvt THEN "PTKSTART" ELSE "none"
    [] st = "PTKCALCNEGOTIATING2" -> "PTKINITNEGOTIATING"
    [] st = "PTKINITNEGOTIATING" ->
         IF PairwiseReceived(m) /\ m.MICVerified THEN "PTKINITDONE"
         ELSE IF m.TimeoutCtr > UpdateCount THEN "DISCONNECT"
         ELSE IF m.TimeoutEvt THEN "PTKINITNEGOTIATING" ELSE "none"
    [] OTHER -> "none"

PtkNext(m) == IF m.requests # {} THEN Requested(m) ELSE Followed(m)

(* The SM_STATE(WPA_PTK, ...) functions.                                   *)
INITIALIZE(c) ==
  [wpa_remove_ptk(Unmark(c)) EXCEPT !.sm.TimeoutCtr = 0, !.sm.authorized = FALSE]

DISCONNECT(c) ==
  wpa_sta_disconnect([c EXCEPT !.sm.requests = @ \ {"Disconnect"}])

DISCONNECTED(c) == [c EXCEPT !.sm.requests = @ \ {"Deauthentication"}]

AUTHENTICATION(c) ==
  [c EXCEPT !.sm.PTK = NoKey, !.sm.PTK_valid = FALSE,
            !.sm.requests = @ \ {"Authentication"}]

AUTHENTICATION2(c) ==
  [c EXCEPT !.sm.ANonce = c.group.Counter, !.group.Counter = @ + 1,
            !.sm.requests = @ \ {"ReAuthentication"}, !.sm.TimeoutCtr = 0]

INITPSK(c) == [c EXCEPT !.sm.req_replay_counter = 0]

(* A message of the 4-way handshake is sent, or sent again, unless it was  *)
(* sent often enough.                                                      *)
Try(c, type, mic) ==
  LET d == [c EXCEPT !.sm.TimeoutEvt = FALSE, !.sm.TimeoutCtr = @ + 1]
  IN IF d.sm.TimeoutCtr > UpdateCount THEN d
     ELSE wpa_send_eapol(d, type, mic, d.sm.ANonce)

(* Mutant: the request that led here is not withdrawn.                     *)
PTKSTARTAgain(c) == Try(c, "1/4", FALSE)

PTKSTART(c) == Try([c EXCEPT !.sm.requests = @ \ {"PTK"}], "1/4", FALSE)

(* Mutant: the timeout is cancelled before the MIC is verified.            *)
PTKCALCNEGOTIATINGCancelsFirst(c) ==
  LET ptk == Ptk("psk", c.sm.ANonce, c.sm.SNonce)
      d == [c EXCEPT !.sm.rx = "none", !.sm.timers = 0]
  IN IF c.sm.last_mic # ptk THEN d
     ELSE [d EXCEPT !.sm.MICVerified = TRUE, !.sm.PTK = ptk, !.sm.PTK_valid = TRUE]

PTKCALCNEGOTIATING(c) ==
  LET ptk == Ptk("psk", c.sm.ANonce, c.sm.SNonce)
      d == [c EXCEPT !.sm.rx = "none"]
  IN IF c.sm.last_mic # ptk THEN d
     ELSE [d EXCEPT !.sm.timers = 0, !.sm.MICVerified = TRUE,
                    !.sm.PTK = ptk, !.sm.PTK_valid = TRUE]

PTKCALCNEGOTIATING2(c) == [c EXCEPT !.sm.TimeoutCtr = 0]

PTKINITNEGOTIATING(c) == Try(c, "3/4", TRUE)

(* The driver may refuse the key.                                          *)
PTKINITDONE(c) ==
  LET d == [c EXCEPT !.sm.rx = "none"]
  IN IF ~c.driver_ok THEN wpa_sta_disconnect(d)
     ELSE [d EXCEPT !.sm.key = c.sm.PTK, !.sm.pairwise_set = TRUE,
                    !.sm.rekey_timer = TRUE, !.sm.authorized = TRUE,
                    !.sm.has_GTK = TRUE]

EnterPtk(c, st) ==
  LET d == [c EXCEPT !.sm.ptk_state = st] IN
  CASE st = "INITIALIZE" -> INITIALIZE(d)
    [] st = "DISCONNECT" -> DISCONNECT(d)
    [] st = "DISCONNECTED" -> DISCONNECTED(d)
    [] st = "AUTHENTICATION" -> AUTHENTICATION(d)
    [] st = "AUTHENTICATION2" -> AUTHENTICATION2(d)
    [] st = "INITPSK" -> INITPSK(d)
    [] st = "PTKSTART" -> PTKSTART(d)
    [] st = "PTKCALCNEGOTIATING" -> PTKCALCNEGOTIATING(d)
    [] st = "PTKCALCNEGOTIATING2" -> PTKCALCNEGOTIATING2(d)
    [] st = "PTKINITNEGOTIATING" -> PTKINITNEGOTIATING(d)
    [] st = "PTKINITDONE" -> PTKINITDONE(d)
    [] OTHER -> c

-----------------------------------------------------------------------------
(* SM_STEP(WPA_PTK_GROUP) and its states.                                  *)

GroupNext(m) ==
  LET st == m.group_state IN
  IF m.PtkGroupInit THEN "IDLE"
  ELSE CASE st = "IDLE" -> IF m.GUpdateStationKeys THEN "REKEYNEGOTIATING" ELSE "none"
         [] st = "REKEYNEGOTIATING" ->
              IF m.rx = "group" /\ m.MICVerified THEN "REKEYESTABLISHED"
              ELSE IF m.GTimeoutCtr > UpdateCount THEN "KEYERROR"
              ELSE IF m.TimeoutEvt THEN "REKEYNEGOTIATING" ELSE "none"
         [] OTHER -> "IDLE"

IDLE(c) == [c EXCEPT !.sm.GTimeoutCtr = 0, !.sm.PtkGroupInit = FALSE]

REKEYNEGOTIATING(c) ==
  LET d == [c EXCEPT !.sm.GTimeoutCtr = @ + 1]
  IN IF d.sm.GTimeoutCtr > UpdateCount THEN d
     ELSE wpa_send_eapol([d EXCEPT !.sm.TimeoutEvt = FALSE], "1/2", TRUE, 0)

REKEYESTABLISHED(c) ==
  [Unmark(c) EXCEPT !.sm.rx = "none", !.sm.GTimeoutCtr = 0, !.sm.has_GTK = TRUE]

KEYERROR(c) == [Unmark(c) EXCEPT !.sm.requests = @ \cup {"Disconnect"}]

EnterGroup(c, st) ==
  LET d == [c EXCEPT !.sm.group_state = st] IN
  CASE st = "IDLE" -> IDLE(d)
    [] st = "REKEYNEGOTIATING" -> REKEYNEGOTIATING(d)
    [] st = "REKEYESTABLISHED" -> REKEYESTABLISHED(d)
    [] st = "KEYERROR" -> KEYERROR(d)
    [] OTHER -> c

-----------------------------------------------------------------------------
(* The group state machine.  wpa_rekey_gtk sets GTKReKey and runs it until *)
(* the flag is used up, so that inside wpa_sm_step GTKReKey is FALSE and   *)
(* only the first branch of state SETKEYS is left.                         *)

wpa_group_setkeysdone(g) ==
  [g EXCEPT !.state = "SETKEYSDONE", !.key = [idx |-> g.GN, gtk |-> g.GTK[g.GN]]]

wpa_group_sm_step(g) ==
  IF g.state = "SETKEYS" /\ g.GKeyDoneStations = 0
  THEN wpa_group_setkeysdone(g) ELSE g

PtkStep(c) == EnterPtk(c, PtkNext(c.sm))
PtkGroupStep(c) == EnterGroup(c, GroupNext(c.sm))

StepOnce(c) ==
  [PtkGroupStep(PtkStep(c)) EXCEPT !.group = wpa_group_sm_step(@)]

(* wpa_sm_step goes on until a round changes nothing.  Six rounds suffice, *)
(* as AtRest says; the others would change nothing.                        *)
ThreeSteps(c) == StepOnce(StepOnce(StepOnce(c)))
wpa_sm_step(c) == ThreeSteps(ThreeSteps(c))

(* wpa_group_update_sta, for a station in PTKINITDONE.  A station that is  *)
(* marked already is not counted again.                                    *)
wpa_group_update_sta(c) ==
  wpa_sm_step(IF c.sm.GUpdateStationKeys THEN c
              ELSE [c EXCEPT !.sm.GUpdateStationKeys = TRUE,
                             !.group.GKeyDoneStations = @ + 1])

(* An event that may happen only so often.                                *)
Spend(e) == left[e] > 0 /\ left' = [left EXCEPT ![e] = @ - 1]

(* wpa_group_setkeys: the new key, and then every station in turn.  The    *)
(* stations are at rest, and their updates have nothing in common but the  *)
(* count, which they raise: each is taken for itself, and the count by the *)
(* number of those that were not marked.                                   *)
NextGtk(g) ==
  [g EXCEPT !.state = "SETKEYS", !.GM = g.GN, !.GN = g.GM,
            !.GTK[g.GM] = g.Counter, !.Counter = @ + 1]

Updated(s, g) ==
  LET c == [Context(s) EXCEPT !.group = g]
  IN IF c.sm.ptk_state = "PTKINITDONE" THEN wpa_group_update_sta(c) ELSE c

NewlyMarked ==
  {s \in Sta : sm[s].ptk_state = "PTKINITDONE" /\ ~sm[s].GUpdateStationKeys}

RekeyGtk ==
  /\ Spend("gtk")
  /\ LET g == NextGtk(wpa_group_sm_step(group)) IN
     /\ sm' = [s \in Sta |-> Updated(s, g).sm]
     /\ to_sta' = [s \in Sta |-> Updated(s, g).out]
     /\ group' = wpa_group_sm_step(
                   [g EXCEPT !.GKeyDoneStations = @ + Cardinality(NewlyMarked)])
  /\ UNCHANGED <<sup, to_ap>>

-----------------------------------------------------------------------------
(* Events of the authenticator.                                            *)

Request(c, r) == [c EXCEPT !.sm.requests = @ \cup {r}]

(* wpa_auth_sta_init in handle_assoc, when the station has no wpa_sm yet.  *)
wpa_auth_sta_init(c) ==
  IF c.sm.exists THEN c ELSE [c EXCEPT !.sm = [NewSm EXCEPT !.exists = TRUE]]

(* The first start: Init, and then a request to authenticate.              *)
Start(c) ==
  Request(IDLE(INITIALIZE([c EXCEPT !.sm.started = TRUE])), "Authentication")

wpa_auth_sta_associated(c) ==
  wpa_sm_step(IF c.sm.started
              THEN Request([c EXCEPT !.sm.counter = 0, !.sm.window = 0],
                           "ReAuthentication")
              ELSE Start(c))

(* wpa_auth_sm_event for WPA_AUTH, WPA_ASSOC, WPA_REAUTH, WPA_DEAUTH and   *)
(* WPA_DISASSOC.                                                           *)
Noted(c, event) ==
  CASE event \in {"AUTH", "ASSOC"} -> c
    [] event \in {"DEAUTH", "DISASSOC"} -> Request(c, "Deauthentication")
    [] event = "REAUTH" /\ ~c.sm.started -> Start(c)
    [] OTHER -> Request(IF c.sm.GUpdateStationKeys
                        THEN [Unmark(c) EXCEPT !.sm.PtkGroupInit = TRUE]
                        ELSE c, "ReAuthentication")

wpa_auth_sm_event(c, event) == wpa_sm_step(wpa_remove_ptk(Noted(c, event)))

(* wpa_auth_sta_deinit in ap_free_sta: the timers are cancelled and the    *)
(* state machine is freed; a mark of it stays in GKeyDoneStations.         *)
wpa_auth_sta_deinit(c) == [c EXCEPT !.sm = NewSm]

(* handle_assoc and handle_assoc_cb with the station's wpa_sm_notify_assoc *)
(* between them: an association, or a new one while the old one is there.  *)
wpa_sm_notify_assoc(u) ==
  [u EXCEPT !.assoc = TRUE, !.ptk = NoKey, !.tptk = NoKey,
            !.rx_replay_counter = 0, !.renew_snonce = TRUE]

Associate(s) ==
  /\ ~sm[s].leaving /\ to_ap[s] = <<>>
  /\ Spend("assoc")
  /\ LET c == wpa_auth_sm_event(wpa_auth_sta_init(Context(s)), "ASSOC")
         d == [c EXCEPT !.sm.assoc = TRUE]
     IN Becomes(s, IF c.sm.assoc THEN wpa_auth_sm_event(d, "REAUTH")
                   ELSE wpa_auth_sta_associated(d))
  /\ sup' = [sup EXCEPT ![s] = wpa_sm_notify_assoc(@)]
  /\ UNCHANGED to_ap

(* handle_auth: a known station authenticates again, without a word about  *)
(* its old association.                                                    *)
Authenticate(s) ==
  /\ sm[s].exists /\ ~sm[s].leaving /\ to_ap[s] = <<>>
  /\ Spend("leave")
  /\ Becomes(s, wpa_auth_sm_event(Context(s), "AUTH"))
  /\ sup' = [sup EXCEPT ![s].assoc = FALSE]
  /\ UNCHANGED to_ap

(* ap_handle_timer with STA_REMOVE, after ap_sta_disconnect.               *)
RemoveSta(s) ==
  /\ sm[s].leaving
  /\ Becomes(s, wpa_auth_sta_deinit(Context(s)))
  /\ UNCHANGED <<sup, to_ap, left>>

(* What follows frees a station, or is about to, without an event to the   *)
(* WPA state machine.  "drop" is spent when that machine is not in state   *)
(* INITIALIZE.                                                             *)
Deinit(s) ==
  Becomes(s, [wpa_auth_sta_deinit(Context(s)) EXCEPT
                !.out = Put(@, [type |-> "Deauth"])])

(* ap_handle_session_timer                                                 *)
SessionTimeout(s) ==
  /\ sm[s].exists /\ ~sm[s].leaving
  /\ Spend("drop")
  /\ Deinit(s)
  /\ UNCHANGED <<sup, to_ap>>

(* ap_handle_timer with STA_DISASSOC: a station that was inactive and did  *)
(* not acknowledge the poll is disassociated.                              *)
Inactivity(s) ==
  /\ sm[s].exists /\ ~sm[s].leaving /\ sm[s].assoc
  /\ Spend("leave")
  /\ Becomes(s, [Context(s) EXCEPT !.sm.assoc = FALSE,
                                   !.out = Put(@, [type |-> "Deauth"])])
  /\ UNCHANGED <<sup, to_ap>>

(* ap_handle_timer with STA_DEAUTH: a station that is not associated any   *)
(* more is freed.                                                          *)
FreeSta(s) ==
  /\ sm[s].exists /\ ~sm[s].leaving /\ ~sm[s].assoc
  /\ IF sm[s].ptk_state = "INITIALIZE" THEN UNCHANGED left ELSE Spend("drop")
  /\ Deinit(s)
  /\ UNCHANGED <<sup, to_ap>>

(* ap_sta_remove_in_other_bss: the station has joined another BSS.         *)
JoinOtherBss(s) ==
  /\ sm[s].exists /\ ~sm[s].leaving
  /\ Spend("drop")
  /\ Becomes(s, wpa_sta_disconnect(Context(s)))
  /\ sup' = [sup EXCEPT ![s].assoc = FALSE]
  /\ UNCHANGED to_ap

(* wpa_send_eapol_timeout                                                  *)
EapolTimeout(s) ==
  /\ sm[s].timers > 0
  /\ Becomes(s, wpa_sm_step([Context(s) EXCEPT !.sm.timers = @ - 1,
                                               !.sm.TimeoutEvt = TRUE]))
  /\ UNCHANGED <<sup, to_ap, left>>

wpa_request_new_ptk(c) == [Request(c, "PTK") EXCEPT !.sm.PTK_valid = FALSE]

RekeyPtk(s) ==
  /\ sm[s].rekey_timer
  /\ Spend("ptk")
  /\ Becomes(s, wpa_sm_step(wpa_request_new_ptk([Context(s) EXCEPT
                              !.sm.rekey_timer = FALSE])))
  /\ UNCHANGED <<sup, to_ap>>

(* wpa_receive.  Accepted is what is decided before the MIC is looked at.  *)
ReplayValid(m, f) == f.replay <= m.counter /\ m.counter < f.replay + m.window

Accepted(m, f) ==
  CASE f.type = "2/4" -> ReplayValid(m, f)
         /\ m.ptk_state \in {"PTKSTART", "PTKCALCNEGOTIATING"}
    [] f.type = "4/4" -> ReplayValid(m, f)
         /\ m.ptk_state = "PTKINITNEGOTIATING" /\ m.PTK_valid
    [] f.type = "2/2" -> ReplayValid(m, f)
         /\ m.group_state = "REKEYNEGOTIATING" /\ m.PTK_valid
    [] f.type = "Request" -> f.replay > m.req_replay_counter

MicFits(m, f) == m.PTK_valid /\ f.mic = m.PTK

Checked(c, f) ==
  [c EXCEPT !.sm.MICVerified = MicFits(c.sm, f),
            !.sm.timers = IF MicFits(c.sm, f) THEN 0 ELSE @]

Taken(c, f) ==
  LET d == IF f.type = "Request"
           THEN [wpa_request_new_ptk(c) EXCEPT !.sm.req_replay_counter = f.replay]
           ELSE [c EXCEPT !.sm.window = 0]
  IN [d EXCEPT !.sm.last_mic = f.mic, !.sm.SNonce = f.nonce,
               !.sm.rx = CASE f.type = "Request" -> "request"
                           [] f.type = "2/2" -> "group"
                           [] OTHER -> "pairwise"]

wpa_receive(c, f) ==
  IF ~c.sm.exists \/ ~Accepted(c.sm, f) THEN c
  ELSE IF ~MicFits(c.sm, f) /\ (c.sm.PTK_valid \/ f.type = "Request") THEN Checked(c, f)
  ELSE wpa_sm_step(Taken(Checked(c, f), f))

(* A frame of the station: an EAPOL-Key frame, or the end of its           *)
(* association (handle_disassoc, handle_deauth).                           *)
ApReceives(s) ==
  /\ to_ap[s] # <<>>
  /\ to_ap' = [to_ap EXCEPT ![s] = Tail(@)]
  /\ LET f == Head(to_ap[s])
         c == Context(s)
     IN \/ /\ f.type \in {"2/4", "4/4", "2/2", "Request"}
           /\ \/ Becomes(s, wpa_receive(c, f)) /\ UNCHANGED left
              \/ /\ f.type = "4/4" /\ Spend("drop")
                 /\ Becomes(s, wpa_receive([c EXCEPT !.driver_ok = FALSE], f))
        \/ /\ f.type = "Disassoc"
           /\ Becomes(s, IF ~c.sm.exists THEN c
                         ELSE wpa_auth_sm_event([c EXCEPT !.sm.assoc = FALSE],
                                                "DISASSOC"))
           /\ UNCHANGED left
        \/ /\ f.type = "Deauth"
           /\ Becomes(s, IF ~c.sm.exists THEN c
                         ELSE wpa_auth_sta_deinit(wpa_auth_sm_event(c, "DEAUTH")))
           /\ UNCHANGED left
  /\ UNCHANGED sup

-----------------------------------------------------------------------------
(* The supplicant.                                                         *)

Reply(type, replay, nonce, mic) ==
  [type |-> type, replay |-> replay, nonce |-> nonce, mic |-> mic]

Says(s, f) == to_ap' = [to_ap EXCEPT ![s] = Put(@, f)]

(* wpa_supplicant_process_1_of_4                                           *)
Process1Of4(s, f) ==
  LET u == sup[s]
      snonce == IF u.renew_snonce THEN u.snonce + 1 ELSE u.snonce
      tptk == Ptk(Psk(s), f.nonce, snonce)
  IN /\ sup' = [sup EXCEPT ![s] = [u EXCEPT !.snonce = snonce, !.renew_snonce = FALSE,
                                            !.tptk = tptk, !.anonce = f.nonce]]
     /\ Says(s, Reply("2/4", f.replay, snonce, tptk))

(* wpa_supplicant_verify_eapol_key_mic: the temporary PTK is tried first,  *)
(* and becomes the PTK when it fits.                                       *)
MicOk(u, f) == f.mic # NoKey /\ f.mic \in {u.tptk, u.ptk}

Verified(u, f) ==
  [u EXCEPT !.ptk = f.mic, !.tptk = IF f.mic = @ THEN NoKey ELSE @,
            !.rx_replay_counter = f.replay]

(* Mutant: a key that is there is not replaced.                            *)
Process3Of4InstallsOnce(s, f) ==
  LET u == Verified(sup[s], f) IN
  /\ u.anonce = f.nonce
  /\ sup' = [sup EXCEPT ![s] = [u EXCEPT !.renew_snonce = TRUE,
                                         !.key = IF @ = NoKey THEN u.ptk ELSE @,
                                         !.gtk[f.idx] = f.gtk]]
  /\ Says(s, Reply("4/4", f.replay, 0, u.ptk))

(* wpa_supplicant_process_3_of_4: a wrong ANonce ends the association.     *)
Process3Of4(s, f) ==
  LET u == Verified(sup[s], f) IN
  \/ /\ u.anonce = f.nonce
     /\ sup' = [sup EXCEPT ![s] = [u EXCEPT !.renew_snonce = TRUE, !.key = u.ptk,
                                            !.gtk[f.idx] = f.gtk]]
     /\ Says(s, Reply("4/4", f.replay, 0, u.ptk))
  \/ /\ u.anonce # f.nonce
     /\ sup' = [sup EXCEPT ![s] = [u EXCEPT !.assoc = FALSE]]
     /\ Says(s, [type |-> "Deauth"])

(* wpa_supplicant_process_1_of_2                                           *)
Process1Of2(s, f) ==
  LET u == Verified(sup[s], f) IN
  /\ sup' = [sup EXCEPT ![s] = [u EXCEPT !.gtk[f.idx] = f.gtk]]
  /\ Says(s, Reply("2/2", f.replay, 0, u.ptk))

(* wpa_sm_rx_eapol: frames that it drops change nothing.                   *)
Drops(u, f) ==
  \/ ~u.assoc
  \/ f.type # "Deauth" /\ f.replay <= u.rx_replay_counter
  \/ f.type \in {"3/4", "1/2"} /\ ~MicOk(u, f)

StaReceives(s) ==
  /\ to_sta[s] # <<>>
  /\ to_sta' = [to_sta EXCEPT ![s] = Tail(@)]
  /\ LET f == Head(to_sta[s]) IN
     \/ Drops(sup[s], f) /\ UNCHANGED <<sup, to_ap>>
     \/ /\ ~Drops(sup[s], f)
        /\ \/ f.type = "1/4" /\ Process1Of4(s, f)
           \/ f.type = "3/4" /\ Process3Of4(s, f)
           \/ f.type = "1/2" /\ Process1Of2(s, f)
           \/ /\ f.type = "Deauth"
              /\ sup' = [sup EXCEPT ![s].assoc = FALSE]
              /\ UNCHANGED to_ap
  /\ UNCHANGED <<sm, group, left>>

(* wpa_sm_rekey_ptk, wpa_sm_key_request                                    *)
KeyRequest(s) ==
  /\ sup[s].assoc /\ sup[s].key # NoKey /\ sup[s].ptk # NoKey
  /\ Spend("ptk")
  /\ Says(s, Reply("Request", sup[s].request_counter, 0, sup[s].ptk))
  /\ sup' = [sup EXCEPT ![s].request_counter = @ + 1]
  /\ UNCHANGED <<sm, group, to_sta>>

(* The station leaves, with a word that may be lost.                       *)
Leave(s) ==
  /\ sup[s].assoc
  /\ Spend("leave")
  /\ \E type \in {"Disassoc", "Deauth"} : Says(s, [type |-> type])
  /\ sup' = [sup EXCEPT ![s].assoc = FALSE]
  /\ UNCHANGED <<sm, group, to_sta>>

Lose(s) ==
  /\ Spend("lose")
  /\ \/ /\ to_sta[s] # <<>>
        /\ to_sta' = [to_sta EXCEPT ![s] = Tail(@)]
        /\ UNCHANGED to_ap
     \/ /\ to_ap[s] # <<>>
        /\ to_ap' = [to_ap EXCEPT ![s] = Tail(@)]
        /\ UNCHANGED to_sta
  /\ UNCHANGED <<sm, group, sup>>

Next ==
  \/ RekeyGtk
  \/ \E s \in Sta :
       \/ Associate(s) \/ Authenticate(s) \/ RemoveSta(s) \/ SessionTimeout(s)
       \/ Inactivity(s) \/ FreeSta(s) \/ JoinOtherBss(s)
       \/ EapolTimeout(s) \/ RekeyPtk(s) \/ ApReceives(s) \/ StaReceives(s) \/ KeyRequest(s)
       \/ Leave(s) \/ Lose(s)

Spec == Init /\ [][Next]_vars

(* Timeouts that are registered expire, and frames that are not lost       *)
(* arrive: weak fairness, written out with what enables the four actions.  *)
Fairness ==
  \A s \in Sta :
    /\ []<>(~sm[s].leaving) \/ []<><<RemoveSta(s)>>_vars
    /\ []<>(sm[s].timers = 0) \/ []<><<EapolTimeout(s)>>_vars
    /\ []<>(to_ap[s] = <<>>) \/ []<><<ApReceives(s)>>_vars
    /\ []<>(to_sta[s] = <<>>) \/ []<><<StaReceives(s)>>_vars

FairSpec == Spec /\ Fairness

-----------------------------------------------------------------------------
SmStates == {"INITIALIZE", "DISCONNECT", "DISCONNECTED", "AUTHENTICATION",
             "AUTHENTICATION2", "INITPSK", "PTKSTART", "PTKCALCNEGOTIATING",
             "PTKCALCNEGOTIATING2", "PTKINITNEGOTIATING", "PTKINITDONE"}

(* Types of the parts that the properties read, and: after every event     *)
(* wpa_sm_step has come to the end of its loop, with no request left and   *)
(* no state to enter (the loop of wpa_sm_step, wpa_auth.c:2252).           *)
AtRest ==
  /\ group.state \in {"SETKEYS", "SETKEYSDONE"}
  /\ group.GKeyDoneStations \in Nat
  /\ group.GN \in 1..2 /\ group.GM = 3 - group.GN
  /\ \A s \in Sta : LET m == sm[s] IN
       /\ m.ptk_state \in SmStates /\ m.requests = {}
       /\ PtkNext(m) = "none" /\ GroupNext(m) = "none"
       /\ m.timers \in Nat /\ m.window \in 0..RSNA_MAX_EAPOL_RETRIES

(* When the authenticator has finished the 4-way handshake and set the     *)
(* pairwise key, an associated station has installed the same key, however *)
(* many frames were lost, sent twice or answered late.                     *)
KeysAgree ==
  \A s \in Sta : LET m == sm[s] IN
    m.ptk_state = "PTKINITDONE" /\ m.pairwise_set /\ ~m.leaving /\ sup[s].assoc
      => m.key = sup[s].key /\ m.key[1] = "psk"

(* GKeyDoneStations is the number of stations marked with                  *)
(* GUpdateStationKeys, as the comment in wpa_group_setkeys says, unless a  *)
(* station was dropped whose state machine had not been told: for its      *)
(* session timeout, for inactivity, for another BSS, or because the driver *)
(* refused its key.  Then it may be more, never less.                      *)
Marked == {s \in Sta : sm[s].GUpdateStationKeys}

CountsMarked ==
  /\ Cardinality(Marked) <= group.GKeyDoneStations
  /\ left["drop"] = Budget["drop"]
       => group.GKeyDoneStations = Cardinality(Marked)

(* Every 4-way handshake ends: in PTKINITDONE or with the station gone.    *)
HandshakeEnds ==
  \A s \in Sta :
    sm[s].ptk_state \in {"PTKSTART", "PTKCALCNEGOTIATING", "PTKINITNEGOTIATING"}
      ~> sm[s].ptk_state \in {"PTKINITDONE", "INITIALIZE"}

(* A new GTK is put to use after all, though stations may never answer, as *)
(* long as no station leaves, comes back or is disassociated for           *)
(* inactivity, no new PTK is asked for and no station is dropped.  Leaving *)
(* or a new PTK may leave the group handshake in REKEYNEGOTIATING with its *)
(* timeout cancelled (wpa_auth.c:1608); a marked station that is freed for *)
(* inactivity, at its session timeout, for another BSS or after a refused  *)
(* key stays in GKeyDoneStations, and SETKEYS lasts for ever.              *)
Undisturbed == \A e \in {"leave", "ptk", "drop"} : left[e] = Budget[e]

RekeyCompletes ==
  group.state = "SETKEYS" /\ Undisturbed
    ~> group.state = "SETKEYSDONE" \/ ~Undisturbed
=============================================================================
