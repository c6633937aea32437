----------------------------- MODULE WpaAuth_proofs -----------------------------
(***************************************************************************)
(* Proofs about the WPA authenticator, for any stations, retries, queues   *)
(* and numbers of events: wpa_sm_step always comes to rest, marks and      *)
(* their count agree, and both ends install the same key.                  *)
(***************************************************************************)
EXTENDS WpaAuth, FiniteSetTheorems, SequenceTheorems, TLAPS

-----------------------------------------------------------------------------
(***************************************************************************)
(* What each operation changes, and what it keeps.                         *)
(***************************************************************************)
Shaped(c) ==
  /\ DOMAIN c = {"sm", "group", "out", "driver_ok"}
  /\ DOMAIN c.sm = DOMAIN NewSm /\ DOMAIN c.group = DOMAIN NewGroup

Kept(d, c, changed) == \A f \in DOMAIN NewSm \ changed : d.sm[f] = c.sm[f]
GroupKept(d, c, changed) == \A f \in DOMAIN NewGroup \ changed : d.group[f] = c.group[f]

\* A frame was sent, or was lost for want of room.
Sent(new, old, type, nonce, mic) ==
  \/ new = old
  \/ \E f : f.type = type /\ f.nonce = nonce /\ f.mic = mic /\ new = Append(old, f)
SentOther(new, old) ==
  new = old \/ \E f : f.type \in {"1/2", "Deauth"} /\ new = Append(old, f)

LEMMA SmFields ==
  DOMAIN NewSm =
    {"exists", "assoc", "leaving", "started", "ptk_state", "group_state", "requests",
     "PtkGroupInit", "TimeoutCtr", "GTimeoutCtr", "TimeoutEvt", "timers", "rekey_timer",
     "rx", "MICVerified", "GUpdateStationKeys", "ANonce", "SNonce", "last_mic", "PTK",
     "PTK_valid", "pairwise_set", "key", "counter", "window", "req_replay_counter",
     "has_GTK", "authorized"}
BY DEF NewSm

LEMMA GroupFields ==
  DOMAIN NewGroup = {"state", "Counter", "GN", "GM", "GTK", "GKeyDoneStations", "key"}
BY DEF NewGroup

LEMMA KeptTwice ==
  ASSUME NEW a, NEW b, NEW c, NEW x, NEW y, Kept(b, a, x), Kept(c, b, y)
  PROVE  Kept(c, a, x \cup y)
BY DEF Kept

LEMMA GroupKeptTwice ==
  ASSUME NEW a, NEW b, NEW c, NEW x, NEW y, GroupKept(b, a, x), c.group = b.group
  PROVE  GroupKept(c, a, x)
BY DEF GroupKept

LEMMA RemovePtkEffect ==
  ASSUME NEW c, Shaped(c)
  PROVE  LET d == wpa_remove_ptk(c) IN
         /\ Shaped(d) /\ d.group = c.group /\ d.out = c.out /\ d.driver_ok = c.driver_ok
         /\ Kept(d, c, {"PTK_valid", "PTK", "key", "pairwise_set", "rekey_timer"})
         /\ d.sm.PTK_valid = FALSE /\ d.sm.PTK = NoKey
         /\ d.sm.pairwise_set = FALSE /\ d.sm.rekey_timer = FALSE
BY SmFields DEF Shaped, wpa_remove_ptk, Kept

Mark(m) == IF m.GUpdateStationKeys THEN 1 ELSE 0

LEMMA UnmarkEffect ==
  ASSUME NEW c, Shaped(c), c.sm.GUpdateStationKeys \in BOOLEAN,
         c.group.GKeyDoneStations \in Nat
  PROVE  LET d == Unmark(c) IN
         /\ Shaped(d) /\ d.out = c.out /\ d.driver_ok = c.driver_ok
         /\ Kept(d, c, {"GUpdateStationKeys"}) /\ GroupKept(d, c, {"GKeyDoneStations"})
         /\ d.sm.GUpdateStationKeys = FALSE
         /\ d.group.GKeyDoneStations = c.group.GKeyDoneStations - Mark(c.sm)
BY SmFields, GroupFields DEF Shaped, Unmark, Kept, GroupKept, Mark

LEMMA SendEffect ==
  ASSUME NEW c, Shaped(c), NEW type, NEW mic \in BOOLEAN, NEW nonce,
         c.sm.window \in 0..RSNA_MAX_EAPOL_RETRIES, c.sm.counter \in Nat, c.sm.timers \in Nat,
         c.sm.PTK_valid \in BOOLEAN
  PROVE  LET d == wpa_send_eapol(c, type, mic, nonce) IN
         /\ Shaped(d) /\ d.group = c.group /\ d.driver_ok = c.driver_ok
         /\ Kept(d, c, {"counter", "window", "timers"})
         /\ d.sm.window \in 0..RSNA_MAX_EAPOL_RETRIES /\ d.sm.counter \in Nat
         /\ d.sm.timers \in Nat
         /\ Sent(d.out, c.out, type, nonce, IF mic THEN c.sm.PTK ELSE NoKey)
         /\ (mic /\ ~c.sm.PTK_valid) => d.out = c.out
<1> DEFINE d == wpa_send_eapol(c, type, mic, nonce)
           f == KeyFrame(c, type, mic, nonce)
<1>1. /\ Shaped(d) /\ d.group = c.group /\ d.driver_ok = c.driver_ok
      /\ Kept(d, c, {"counter", "window", "timers"})
  BY SmFields DEF Shaped, wpa_send_eapol, Kept
<1>2. /\ d.sm.window = Minimum(c.sm.window + 1, RSNA_MAX_EAPOL_RETRIES)
      /\ d.sm.counter = c.sm.counter + 1 /\ d.sm.timers = c.sm.timers + 1
  BY SmFields DEF Shaped, wpa_send_eapol
<1>3. d.out = IF mic /\ ~c.sm.PTK_valid THEN c.out ELSE Put(c.out, f)
  BY DEF Shaped, wpa_send_eapol
<1>4. /\ f.type = type /\ f.nonce = nonce /\ f.mic = IF mic THEN c.sm.PTK ELSE NoKey
  BY DEF KeyFrame
<1>5. Put(c.out, f) = c.out \/ Put(c.out, f) = Append(c.out, f)
  BY DEF Put
<1> HIDE DEF d, f
<1>6. d.sm.window \in 0..RSNA_MAX_EAPOL_RETRIES /\ d.sm.counter \in Nat /\ d.sm.timers \in Nat
  BY <1>2 DEF Minimum, RSNA_MAX_EAPOL_RETRIES
<1>7. Sent(d.out, c.out, type, nonce, IF mic THEN c.sm.PTK ELSE NoKey)
  BY <1>3, <1>4, <1>5 DEF Sent
<1> QED BY <1>1, <1>3, <1>6, <1>7 DEF d

LEMMA DisconnectEffect ==
  ASSUME NEW c, Shaped(c)
  PROVE  LET d == wpa_sta_disconnect(c) IN
         /\ Shaped(d) /\ d.group = c.group /\ d.driver_ok = c.driver_ok
         /\ Kept(d, c, {"leaving", "assoc", "authorized"}) /\ d.sm.leaving = TRUE
         /\ SentOther(d.out, c.out)
<1> DEFINE d == wpa_sta_disconnect(c)
           f == [type |-> "Deauth"]
<1>1. /\ Shaped(d) /\ d.group = c.group /\ d.driver_ok = c.driver_ok
      /\ Kept(d, c, {"leaving", "assoc", "authorized"}) /\ d.sm.leaving = TRUE
  BY SmFields DEF Shaped, wpa_sta_disconnect, Kept
<1>2. d.out = Put(c.out, f)
  BY DEF Shaped, wpa_sta_disconnect
<1>3. f.type = "Deauth" /\ (Put(c.out, f) = c.out \/ Put(c.out, f) = Append(c.out, f))
  BY DEF Put
<1> HIDE DEF f, d
<1>4. SentOther(d.out, c.out)
  BY <1>2, <1>3 DEF SentOther
<1> QED BY <1>1, <1>4 DEF d
-----------------------------------------------------------------------------
(***************************************************************************)
(* The state machine of one station, at rest or between two rounds of the  *)
(* loop in wpa_sm_step.                                                    *)
(***************************************************************************)
RequestNames == {"Disconnect", "Deauthentication", "Authentication",
                 "ReAuthentication", "PTK"}
GroupStates == {"IDLE", "REKEYNEGOTIATING", "REKEYESTABLISHED", "KEYERROR"}
Waiting == {"PTKSTART", "PTKCALCNEGOTIATING", "PTKINITNEGOTIATING"}

SmTypes(m) ==
  /\ m.ptk_state \in SmStates /\ m.group_state \in GroupStates
  /\ m.requests \in {{}} \cup {{r} : r \in RequestNames}
  /\ m.TimeoutCtr \in Nat /\ m.GTimeoutCtr \in Nat /\ m.timers \in Nat
  /\ m.counter \in Nat /\ m.ANonce \in Nat /\ m.window \in 0..RSNA_MAX_EAPOL_RETRIES
  /\ m.TimeoutEvt \in BOOLEAN /\ m.MICVerified \in BOOLEAN /\ m.PTK_valid \in BOOLEAN
  /\ m.GUpdateStationKeys \in BOOLEAN /\ m.PtkGroupInit \in BOOLEAN
  /\ m.leaving \in BOOLEAN /\ m.rekey_timer \in BOOLEAN /\ m.pairwise_set \in BOOLEAN
  /\ m.rx \in {"none", "pairwise", "group", "request"}


-----------------------------------------------------------------------------
(***************************************************************************)
(* The same of the states that are entered.  Into sets the fields that     *)
(* change with the state.                                                  *)
(***************************************************************************)
Into(c, st) == [c EXCEPT !.sm.ptk_state = st]
GroupInto(c, st) == [c EXCEPT !.sm.group_state = st]

LEMMA IntoEffect ==
  ASSUME NEW c, Shaped(c), NEW st
  PROVE  /\ LET d == Into(c, st) IN
            /\ Shaped(d) /\ d.group = c.group /\ d.out = c.out /\ d.driver_ok = c.driver_ok
            /\ Kept(d, c, {"ptk_state"}) /\ d.sm.ptk_state = st
         /\ LET d == GroupInto(c, st) IN
            /\ Shaped(d) /\ d.group = c.group /\ d.out = c.out /\ d.driver_ok = c.driver_ok
            /\ Kept(d, c, {"group_state"}) /\ d.sm.group_state = st
BY SmFields DEF Shaped, Into, GroupInto, Kept

LEMMA INITIALIZEEffect ==
  ASSUME NEW c, Shaped(c), c.sm.GUpdateStationKeys \in BOOLEAN,
         c.group.GKeyDoneStations \in Nat
  PROVE  LET d == INITIALIZE(c) IN
         /\ Shaped(d) /\ d.out = c.out /\ d.driver_ok = c.driver_ok
         /\ Kept(d, c, {"GUpdateStationKeys", "PTK_valid", "PTK", "key", "pairwise_set",
                        "rekey_timer", "TimeoutCtr", "authorized"})
         /\ GroupKept(d, c, {"GKeyDoneStations"})
         /\ d.sm.PTK_valid = FALSE /\ d.sm.PTK = NoKey /\ d.sm.pairwise_set = FALSE
         /\ d.sm.rekey_timer = FALSE /\ d.sm.TimeoutCtr = 0
         /\ d.sm.GUpdateStationKeys = FALSE
         /\ d.group.GKeyDoneStations = c.group.GKeyDoneStations - Mark(c.sm)
<1> DEFINE a == Unmark(c)
           b == wpa_remove_ptk(a)
           d == INITIALIZE(c)
           lost == {"PTK_valid", "PTK", "key", "pairwise_set", "rekey_timer"}
           reset == {"TimeoutCtr", "authorized"}
<1>1. /\ Shaped(a) /\ a.out = c.out /\ a.driver_ok = c.driver_ok
      /\ Kept(a, c, {"GUpdateStationKeys"}) /\ GroupKept(a, c, {"GKeyDoneStations"})
      /\ a.sm.GUpdateStationKeys = FALSE
      /\ a.group.GKeyDoneStations = c.group.GKeyDoneStations - Mark(c.sm)
  BY UnmarkEffect
<1>2. /\ Shaped(b) /\ b.group = a.group /\ b.out = a.out /\ b.driver_ok = a.driver_ok
      /\ Kept(b, a, lost)
      /\ b.sm.PTK_valid = FALSE /\ b.sm.PTK = NoKey
      /\ b.sm.pairwise_set = FALSE /\ b.sm.rekey_timer = FALSE
  BY <1>1, RemovePtkEffect
<1>3. d = [b EXCEPT !.sm.TimeoutCtr = 0, !.sm.authorized = FALSE]
  BY DEF INITIALIZE
<1> HIDE DEF a, b, d
<1>4. /\ Shaped(d) /\ d.group = b.group /\ d.out = b.out /\ d.driver_ok = b.driver_ok
      /\ Kept(d, b, reset) /\ d.sm.TimeoutCtr = 0
  BY <1>2, <1>3, SmFields DEF Shaped, Kept
<1>5. Kept(d, c, ({"GUpdateStationKeys"} \cup lost) \cup reset)
  <2>1. Kept(b, c, {"GUpdateStationKeys"} \cup lost)
    BY <1>1, <1>2, KeptTwice
  <2> QED BY <2>1, <1>4, KeptTwice
<1>6. /\ d.sm.PTK_valid = FALSE /\ d.sm.PTK = NoKey /\ d.sm.pairwise_set = FALSE
      /\ d.sm.rekey_timer = FALSE /\ d.sm.GUpdateStationKeys = FALSE
  <2>1. b.sm.GUpdateStationKeys = a.sm.GUpdateStationKeys
    BY <1>2, SmFields DEF Kept
  <2> QED BY <2>1, <1>1, <1>2, <1>4, SmFields DEF Kept
<1>7. GroupKept(d, c, {"GKeyDoneStations"})
  BY <1>1, <1>2, <1>4 DEF GroupKept
<1> QED BY <1>1, <1>2, <1>4, <1>5, <1>6, <1>7 DEF d

LEMMA TryEffect ==
  ASSUME NEW c, Shaped(c), SmTypes(c.sm), NEW type, NEW mic \in BOOLEAN
  PROVE  LET d == Try(c, type, mic) IN
         /\ Shaped(d) /\ d.group = c.group /\ d.driver_ok = c.driver_ok
         /\ Kept(d, c, {"TimeoutEvt", "TimeoutCtr", "counter", "window", "timers"})
         /\ d.sm.TimeoutEvt = FALSE /\ d.sm.TimeoutCtr = c.sm.TimeoutCtr + 1
         /\ d.sm.window \in 0..RSNA_MAX_EAPOL_RETRIES /\ d.sm.counter \in Nat
         /\ d.sm.timers \in Nat
         /\ Sent(d.out, c.out, type, c.sm.ANonce, IF mic THEN c.sm.PTK ELSE NoKey)
         /\ (mic /\ ~c.sm.PTK_valid) => d.out = c.out
<1> DEFINE b == [c EXCEPT !.sm.TimeoutEvt = FALSE, !.sm.TimeoutCtr = @ + 1]
           e == wpa_send_eapol(b, type, mic, b.sm.ANonce)
           d == Try(c, type, mic)
           set == {"TimeoutEvt", "TimeoutCtr"}
           used == {"counter", "window", "timers"}
<1>1. /\ Shaped(b) /\ b.group = c.group /\ b.driver_ok = c.driver_ok /\ b.out = c.out
      /\ Kept(b, c, set) /\ b.sm.TimeoutEvt = FALSE /\ b.sm.TimeoutCtr = c.sm.TimeoutCtr + 1
  BY SmFields DEF Shaped, Kept
<1>2. d = IF b.sm.TimeoutCtr > UpdateCount THEN b ELSE e
  BY DEF Try
<1>3. /\ b.sm.ANonce = c.sm.ANonce /\ b.sm.PTK = c.sm.PTK /\ b.sm.PTK_valid = c.sm.PTK_valid
      /\ b.sm.window = c.sm.window /\ b.sm.counter = c.sm.counter /\ b.sm.timers = c.sm.timers
  BY <1>1, SmFields DEF Kept
<1> HIDE DEF b, d
<1>4. /\ Shaped(e) /\ e.group = b.group /\ e.driver_ok = b.driver_ok /\ Kept(e, b, used)
      /\ e.sm.window \in 0..RSNA_MAX_EAPOL_RETRIES /\ e.sm.counter \in Nat
      /\ e.sm.timers \in Nat
      /\ Sent(e.out, b.out, type, b.sm.ANonce, IF mic THEN b.sm.PTK ELSE NoKey)
      /\ (mic /\ ~b.sm.PTK_valid) => e.out = b.out
  BY <1>1, <1>3, SendEffect DEF SmTypes
<1> HIDE DEF e
<1>5. Kept(e, c, set \cup used)
  BY <1>1, <1>4, KeptTwice
<1>6. e.sm.TimeoutEvt = FALSE /\ e.sm.TimeoutCtr = c.sm.TimeoutCtr + 1
  BY <1>1, <1>4, SmFields DEF Kept
<1>7. CASE b.sm.TimeoutCtr > UpdateCount
  <2>1. d = b
    BY <1>7, <1>2
  <2>2. Kept(d, c, set \cup used) /\ Sent(d.out, c.out, type, c.sm.ANonce, IF mic THEN c.sm.PTK ELSE NoKey)
    BY <2>1, <1>1 DEF Kept, Sent
  <2> QED BY <2>1, <2>2, <1>1, <1>3 DEF SmTypes, d
<1>8. CASE ~(b.sm.TimeoutCtr > UpdateCount)
  <2>1. d = e
    BY <1>8, <1>2
  <2> QED BY <2>1, <1>1, <1>3, <1>4, <1>5, <1>6 DEF d
<1> QED BY <1>7, <1>8

-----------------------------------------------------------------------------
(* One lemma for each state of WPA_PTK.                                    *)

LEMMA EnterINITIALIZE ==
  ASSUME NEW c, Shaped(c), SmTypes(c.sm), c.group.GKeyDoneStations \in Nat
  PROVE  LET d == EnterPtk(c, "INITIALIZE") IN
         /\ Shaped(d) /\ d.out = c.out /\ d.driver_ok = c.driver_ok
         /\ Kept(d, c, {"ptk_state", "GUpdateStationKeys", "PTK_valid", "PTK", "key",
                        "pairwise_set", "rekey_timer", "TimeoutCtr", "authorized"})
         /\ GroupKept(d, c, {"GKeyDoneStations"})
         /\ d.sm.ptk_state = "INITIALIZE"
         /\ d.sm.PTK_valid = FALSE /\ d.sm.PTK = NoKey /\ d.sm.pairwise_set = FALSE
         /\ d.sm.rekey_timer = FALSE /\ d.sm.TimeoutCtr = 0
         /\ d.sm.GUpdateStationKeys = FALSE
         /\ d.group.GKeyDoneStations = c.group.GKeyDoneStations - Mark(c.sm)
<1> DEFINE b == Into(c, "INITIALIZE")
           d == INITIALIZE(b)
           new == {"GUpdateStationKeys", "PTK_valid", "PTK", "key", "pairwise_set",
                   "rekey_timer", "TimeoutCtr", "authorized"}
<1>1. EnterPtk(c, "INITIALIZE") = d
  BY DEF EnterPtk, Into
<1>2. /\ Shaped(b) /\ b.group = c.group /\ b.out = c.out /\ b.driver_ok = c.driver_ok
      /\ Kept(b, c, {"ptk_state"}) /\ b.sm.ptk_state = "INITIALIZE"
  BY IntoEffect
<1>3. b.sm.GUpdateStationKeys = c.sm.GUpdateStationKeys
  BY <1>2, SmFields DEF Kept
<1> HIDE DEF b
<1>4. /\ Shaped(d) /\ d.out = b.out /\ d.driver_ok = b.driver_ok
      /\ Kept(d, b, new) /\ GroupKept(d, b, {"GKeyDoneStations"})
      /\ d.sm.PTK_valid = FALSE /\ d.sm.PTK = NoKey /\ d.sm.pairwise_set = FALSE
      /\ d.sm.rekey_timer = FALSE /\ d.sm.TimeoutCtr = 0
      /\ d.sm.GUpdateStationKeys = FALSE
      /\ d.group.GKeyDoneStations = b.group.GKeyDoneStations - Mark(b.sm)
  BY <1>2, <1>3, INITIALIZEEffect DEF SmTypes
<1> HIDE DEF d
<1>5. Kept(d, c, {"ptk_state"} \cup new)
  BY <1>2, <1>4, KeptTwice
<1>6. d.sm.ptk_state = "INITIALIZE" /\ GroupKept(d, c, {"GKeyDoneStations"})
  BY <1>2, <1>4, SmFields DEF Kept, GroupKept
<1>7. Mark(b.sm) = Mark(c.sm)
  BY <1>3 DEF Mark
<1> QED BY <1>1, <1>2, <1>4, <1>5, <1>6, <1>7

LEMMA EnterDISCONNECT ==
  ASSUME NEW c, Shaped(c)
  PROVE  LET d == EnterPtk(c, "DISCONNECT") IN
         /\ Shaped(d) /\ d.group = c.group /\ d.driver_ok = c.driver_ok
         /\ Kept(d, c, {"ptk_state", "requests", "leaving", "assoc", "authorized"})
         /\ d.sm.ptk_state = "DISCONNECT" /\ d.sm.requests = c.sm.requests \ {"Disconnect"}
         /\ d.sm.leaving = TRUE /\ SentOther(d.out, c.out)
<1> DEFINE b == [Into(c, "DISCONNECT") EXCEPT !.sm.requests = @ \ {"Disconnect"}]
           d == wpa_sta_disconnect(b)
<1>1. EnterPtk(c, "DISCONNECT") = d
  BY DEF EnterPtk, Into, DISCONNECT
<1>2. /\ Shaped(b) /\ b.group = c.group /\ b.out = c.out /\ b.driver_ok = c.driver_ok
      /\ Kept(b, c, {"ptk_state", "requests"}) /\ b.sm.ptk_state = "DISCONNECT"
      /\ b.sm.requests = c.sm.requests \ {"Disconnect"}
  BY SmFields DEF Into, Shaped, Kept
<1> HIDE DEF b
<1>3. /\ Shaped(d) /\ d.group = b.group /\ d.driver_ok = b.driver_ok
      /\ Kept(d, b, {"leaving", "assoc", "authorized"}) /\ d.sm.leaving = TRUE
      /\ SentOther(d.out, b.out)
  BY <1>2, DisconnectEffect
<1> HIDE DEF d
<1>4. Kept(d, c, {"ptk_state", "requests"} \cup {"leaving", "assoc", "authorized"})
  BY <1>2, <1>3, KeptTwice
<1>5. d.sm.ptk_state = "DISCONNECT" /\ d.sm.requests = c.sm.requests \ {"Disconnect"}
  BY <1>2, <1>3, SmFields DEF Kept
<1> QED BY <1>1, <1>2, <1>3, <1>4, <1>5

LEMMA EnterDISCONNECTED ==
  ASSUME NEW c, Shaped(c)
  PROVE  LET d == EnterPtk(c, "DISCONNECTED") IN
         /\ Shaped(d) /\ d.group = c.group /\ d.driver_ok = c.driver_ok /\ d.out = c.out
         /\ Kept(d, c, {"ptk_state", "requests"}) /\ d.sm.ptk_state = "DISCONNECTED"
         /\ d.sm.requests = c.sm.requests \ {"Deauthentication"}
<1>1. EnterPtk(c, "DISCONNECTED") = DISCONNECTED(Into(c, "DISCONNECTED"))
  BY DEF EnterPtk, Into
<1>2. LET d == DISCONNECTED(Into(c, "DISCONNECTED")) IN
      /\ Shaped(d) /\ d.group = c.group /\ d.driver_ok = c.driver_ok /\ d.out = c.out
      /\ Kept(d, c, {"ptk_state", "requests"}) /\ d.sm.ptk_state = "DISCONNECTED"
      /\ d.sm.requests = c.sm.requests \ {"Deauthentication"}
  BY SmFields DEF Into, Shaped, Kept, DISCONNECTED
<1> QED BY <1>1, <1>2

LEMMA EnterAUTHENTICATION ==
  ASSUME NEW c, Shaped(c)
  PROVE  LET d == EnterPtk(c, "AUTHENTICATION") IN
         /\ Shaped(d) /\ d.group = c.group /\ d.driver_ok = c.driver_ok /\ d.out = c.out
         /\ Kept(d, c, {"ptk_state", "requests", "PTK", "PTK_valid"}) /\ d.sm.ptk_state = "AUTHENTICATION"
         /\ d.sm.requests = c.sm.requests \ {"Authentication"}
         /\ d.sm.PTK = NoKey /\ d.sm.PTK_valid = FALSE
<1>1. EnterPtk(c, "AUTHENTICATION") = AUTHENTICATION(Into(c, "AUTHENTICATION"))
  BY DEF EnterPtk, Into
<1>2. LET d == AUTHENTICATION(Into(c, "AUTHENTICATION")) IN
      /\ Shaped(d) /\ d.group = c.group /\ d.driver_ok = c.driver_ok /\ d.out = c.out
      /\ Kept(d, c, {"ptk_state", "requests", "PTK", "PTK_valid"}) /\ d.sm.ptk_state = "AUTHENTICATION"
      /\ d.sm.requests = c.sm.requests \ {"Authentication"}
      /\ d.sm.PTK = NoKey /\ d.sm.PTK_valid = FALSE
  BY SmFields DEF Into, Shaped, Kept, AUTHENTICATION
<1> QED BY <1>1, <1>2

LEMMA EnterINITPSK ==
  ASSUME NEW c, Shaped(c)
  PROVE  LET d == EnterPtk(c, "INITPSK") IN
         /\ Shaped(d) /\ d.group = c.group /\ d.driver_ok = c.driver_ok /\ d.out = c.out
         /\ Kept(d, c, {"ptk_state", "req_replay_counter"}) /\ d.sm.ptk_state = "INITPSK"
<1>1. EnterPtk(c, "INITPSK") = INITPSK(Into(c, "INITPSK"))
  BY DEF EnterPtk, Into
<1>2. LET d == INITPSK(Into(c, "INITPSK")) IN
      /\ Shaped(d) /\ d.group = c.group /\ d.driver_ok = c.driver_ok /\ d.out = c.out
      /\ Kept(d, c, {"ptk_state", "req_replay_counter"}) /\ d.sm.ptk_state = "INITPSK"
  BY SmFields DEF Into, Shaped, Kept, INITPSK
<1> QED BY <1>1, <1>2

LEMMA EnterPTKCALCNEGOTIATING2 ==
  ASSUME NEW c, Shaped(c)
  PROVE  LET d == EnterPtk(c, "PTKCALCNEGOTIATING2") IN
         /\ Shaped(d) /\ d.group = c.group /\ d.driver_ok = c.driver_ok /\ d.out = c.out
         /\ Kept(d, c, {"ptk_state", "TimeoutCtr"}) /\ d.sm.ptk_state = "PTKCALCNEGOTIATING2"
         /\ d.sm.TimeoutCtr = 0
<1>1. EnterPtk(c, "PTKCALCNEGOTIATING2") = PTKCALCNEGOTIATING2(Into(c, "PTKCALCNEGOTIATING2"))
  BY DEF EnterPtk, Into
<1>2. LET d == PTKCALCNEGOTIATING2(Into(c, "PTKCALCNEGOTIATING2")) IN
      /\ Shaped(d) /\ d.group = c.group /\ d.driver_ok = c.driver_ok /\ d.out = c.out
      /\ Kept(d, c, {"ptk_state", "TimeoutCtr"}) /\ d.sm.ptk_state = "PTKCALCNEGOTIATING2"
      /\ d.sm.TimeoutCtr = 0
  BY SmFields DEF Into, Shaped, Kept, PTKCALCNEGOTIATING2
<1> QED BY <1>1, <1>2

LEMMA EnterAUTHENTICATION2 ==
  ASSUME NEW c, Shaped(c)
  PROVE  LET d == EnterPtk(c, "AUTHENTICATION2") IN
         /\ Shaped(d) /\ d.driver_ok = c.driver_ok /\ d.out = c.out
         /\ Kept(d, c, {"ptk_state", "requests", "ANonce", "TimeoutCtr"})
         /\ GroupKept(d, c, {"Counter"})
         /\ d.sm.ptk_state = "AUTHENTICATION2"
         /\ d.sm.requests = c.sm.requests \ {"ReAuthentication"}
         /\ d.sm.TimeoutCtr = 0 /\ d.sm.ANonce = c.group.Counter
         /\ d.group.Counter = c.group.Counter + 1
<1>1. EnterPtk(c, "AUTHENTICATION2") = AUTHENTICATION2(Into(c, "AUTHENTICATION2"))
  BY DEF EnterPtk, Into
<1>2. LET d == AUTHENTICATION2(Into(c, "AUTHENTICATION2")) IN
      /\ Shaped(d) /\ d.driver_ok = c.driver_ok /\ d.out = c.out
      /\ Kept(d, c, {"ptk_state", "requests", "ANonce", "TimeoutCtr"})
      /\ GroupKept(d, c, {"Counter"})
      /\ d.sm.ptk_state = "AUTHENTICATION2"
      /\ d.sm.requests = c.sm.requests \ {"ReAuthentication"}
      /\ d.sm.TimeoutCtr = 0 /\ d.sm.ANonce = c.group.Counter
      /\ d.group.Counter = c.group.Counter + 1
  BY SmFields, GroupFields DEF Into, Shaped, Kept, GroupKept, AUTHENTICATION2
<1> QED BY <1>1, <1>2

LEMMA EnterPTKSTART ==
  ASSUME NEW c, Shaped(c), SmTypes(c.sm)
  PROVE  LET d == EnterPtk(c, "PTKSTART") IN
         /\ Shaped(d) /\ d.group = c.group /\ d.driver_ok = c.driver_ok
         /\ Kept(d, c, {"ptk_state", "requests", "TimeoutEvt", "TimeoutCtr", "counter",
                        "window", "timers"})
         /\ d.sm.ptk_state = "PTKSTART" /\ d.sm.requests = c.sm.requests \ {"PTK"}
         /\ d.sm.TimeoutEvt = FALSE /\ d.sm.TimeoutCtr = c.sm.TimeoutCtr + 1
         /\ d.sm.window \in 0..RSNA_MAX_EAPOL_RETRIES /\ d.sm.counter \in Nat
         /\ d.sm.timers \in Nat
         /\ Sent(d.out, c.out, "1/4", c.sm.ANonce, NoKey)
<1> DEFINE b == [Into(c, "PTKSTART") EXCEPT !.sm.requests = @ \ {"PTK"}]
           d == Try(b, "1/4", FALSE)
           tried == {"TimeoutEvt", "TimeoutCtr", "counter", "window", "timers"}
<1>1. EnterPtk(c, "PTKSTART") = d
  BY DEF EnterPtk, Into, PTKSTART
<1>2. /\ Shaped(b) /\ b.group = c.group /\ b.out = c.out /\ b.driver_ok = c.driver_ok
      /\ Kept(b, c, {"ptk_state", "requests"}) /\ b.sm.ptk_state = "PTKSTART"
      /\ b.sm.requests = c.sm.requests \ {"PTK"}
  BY SmFields DEF Into, Shaped, Kept
<1> HIDE DEF b
<1>3. SmTypes(b.sm) /\ b.sm.ANonce = c.sm.ANonce /\ b.sm.TimeoutCtr = c.sm.TimeoutCtr
  BY <1>2, SmFields DEF Kept, SmTypes, SmStates
<1>4. /\ Shaped(d) /\ d.group = b.group /\ d.driver_ok = b.driver_ok /\ Kept(d, b, tried)
      /\ d.sm.TimeoutEvt = FALSE /\ d.sm.TimeoutCtr = b.sm.TimeoutCtr + 1
      /\ d.sm.window \in 0..RSNA_MAX_EAPOL_RETRIES /\ d.sm.counter \in Nat
      /\ d.sm.timers \in Nat
      /\ Sent(d.out, b.out, "1/4", b.sm.ANonce, NoKey)
  BY <1>2, <1>3, TryEffect
<1> HIDE DEF d
<1>5. Kept(d, c, {"ptk_state", "requests"} \cup tried)
  BY <1>2, <1>4, KeptTwice
<1>6. d.sm.ptk_state = "PTKSTART" /\ d.sm.requests = c.sm.requests \ {"PTK"}
  BY <1>2, <1>4, SmFields DEF Kept
<1> QED BY <1>1, <1>2, <1>3, <1>4, <1>5, <1>6

LEMMA EnterPTKINITNEGOTIATING ==
  ASSUME NEW c, Shaped(c), SmTypes(c.sm)
  PROVE  LET d == EnterPtk(c, "PTKINITNEGOTIATING") IN
         /\ Shaped(d) /\ d.group = c.group /\ d.driver_ok = c.driver_ok
         /\ Kept(d, c, {"ptk_state", "TimeoutEvt", "TimeoutCtr", "counter", "window",
                        "timers"})
         /\ d.sm.ptk_state = "PTKINITNEGOTIATING"
         /\ d.sm.TimeoutEvt = FALSE /\ d.sm.TimeoutCtr = c.sm.TimeoutCtr + 1
         /\ d.sm.window \in 0..RSNA_MAX_EAPOL_RETRIES /\ d.sm.counter \in Nat
         /\ d.sm.timers \in Nat
         /\ Sent(d.out, c.out, "3/4", c.sm.ANonce, c.sm.PTK)
         /\ ~c.sm.PTK_valid => d.out = c.out
<1> DEFINE b == Into(c, "PTKINITNEGOTIATING")
           d == Try(b, "3/4", TRUE)
           tried == {"TimeoutEvt", "TimeoutCtr", "counter", "window", "timers"}
<1>1. EnterPtk(c, "PTKINITNEGOTIATING") = d
  BY DEF EnterPtk, Into, PTKINITNEGOTIATING
<1>2. /\ Shaped(b) /\ b.group = c.group /\ b.out = c.out /\ b.driver_ok = c.driver_ok
      /\ Kept(b, c, {"ptk_state"}) /\ b.sm.ptk_state = "PTKINITNEGOTIATING"
  BY IntoEffect
<1> HIDE DEF b
<1>3. /\ SmTypes(b.sm) /\ b.sm.ANonce = c.sm.ANonce /\ b.sm.TimeoutCtr = c.sm.TimeoutCtr
      /\ b.sm.PTK = c.sm.PTK /\ b.sm.PTK_valid = c.sm.PTK_valid
  BY <1>2, SmFields DEF Kept, SmTypes, SmStates
<1>4. /\ Shaped(d) /\ d.group = b.group /\ d.driver_ok = b.driver_ok /\ Kept(d, b, tried)
      /\ d.sm.TimeoutEvt = FALSE /\ d.sm.TimeoutCtr = b.sm.TimeoutCtr + 1
      /\ d.sm.window \in 0..RSNA_MAX_EAPOL_RETRIES /\ d.sm.counter \in Nat
      /\ d.sm.timers \in Nat
      /\ Sent(d.out, b.out, "3/4", b.sm.ANonce, b.sm.PTK)
      /\ ~b.sm.PTK_valid => d.out = b.out
  BY <1>2, <1>3, TryEffect
<1> HIDE DEF d
<1>5. Kept(d, c, {"ptk_state"} \cup tried)
  BY <1>2, <1>4, KeptTwice
<1>6. d.sm.ptk_state = "PTKINITNEGOTIATING"
  BY <1>2, <1>4, SmFields DEF Kept
<1> QED BY <1>1, <1>2, <1>3, <1>4, <1>5, <1>6

LEMMA EnterPTKCALCNEGOTIATING ==
  ASSUME NEW c, Shaped(c)
  PROVE  LET d == EnterPtk(c, "PTKCALCNEGOTIATING")
             ptk == Ptk("psk", c.sm.ANonce, c.sm.SNonce)
         IN
         /\ Shaped(d) /\ d.group = c.group /\ d.driver_ok = c.driver_ok /\ d.out = c.out
         /\ d.sm.ptk_state = "PTKCALCNEGOTIATING" /\ d.sm.rx = "none"
         /\ c.sm.last_mic # ptk => Kept(d, c, {"ptk_state", "rx"})
         /\ c.sm.last_mic = ptk =>
              /\ Kept(d, c, {"ptk_state", "rx", "timers", "MICVerified", "PTK", "PTK_valid"})
              /\ d.sm.timers = 0 /\ d.sm.MICVerified = TRUE /\ d.sm.PTK_valid = TRUE
              /\ d.sm.PTK = ptk
<1> DEFINE b == Into(c, "PTKCALCNEGOTIATING")
           ptk == Ptk("psk", c.sm.ANonce, c.sm.SNonce)
           d == EnterPtk(c, "PTKCALCNEGOTIATING")
           e == [b EXCEPT !.sm.rx = "none"]
           f == [e EXCEPT !.sm.timers = 0, !.sm.MICVerified = TRUE,
                          !.sm.PTK = ptk, !.sm.PTK_valid = TRUE]
<1>1. d = PTKCALCNEGOTIATING(b)
  BY DEF EnterPtk, Into
<1>2. /\ b.sm.ANonce = c.sm.ANonce /\ b.sm.SNonce = c.sm.SNonce
      /\ b.sm.last_mic = c.sm.last_mic
  BY SmFields DEF Into, Shaped
<1>3. d = IF c.sm.last_mic # ptk THEN e ELSE f
  BY <1>1, <1>2 DEF PTKCALCNEGOTIATING
<1>4. /\ Shaped(e) /\ e.group = c.group /\ e.driver_ok = c.driver_ok /\ e.out = c.out
      /\ e.sm.ptk_state = "PTKCALCNEGOTIATING" /\ e.sm.rx = "none"
      /\ Kept(e, c, {"ptk_state", "rx"})
  BY SmFields DEF Into, Shaped, Kept
<1> HIDE DEF ptk
<1>5. /\ Shaped(f) /\ f.group = c.group /\ f.driver_ok = c.driver_ok /\ f.out = c.out
      /\ f.sm.ptk_state = "PTKCALCNEGOTIATING" /\ f.sm.rx = "none"
      /\ Kept(f, c, {"ptk_state", "rx", "timers", "MICVerified", "PTK", "PTK_valid"})
      /\ f.sm.timers = 0 /\ f.sm.MICVerified = TRUE /\ f.sm.PTK_valid = TRUE
      /\ f.sm.PTK = ptk
  BY SmFields DEF Into, Shaped, Kept
<1> HIDE DEF d, e, f
<1>6. CASE c.sm.last_mic = ptk
  BY <1>3, <1>5, <1>6 DEF d, ptk
<1>7. CASE c.sm.last_mic # ptk
  BY <1>3, <1>4, <1>7 DEF d, ptk
<1> QED BY <1>6, <1>7

LEMMA EnterPTKINITDONE ==
  ASSUME NEW c, Shaped(c)
  PROVE  LET d == EnterPtk(c, "PTKINITDONE") IN
         /\ Shaped(d) /\ d.group = c.group /\ d.driver_ok = c.driver_ok
         /\ d.sm.ptk_state = "PTKINITDONE" /\ d.sm.rx = "none"
         /\ c.driver_ok =>
              /\ Kept(d, c, {"ptk_state", "rx", "key", "pairwise_set", "rekey_timer",
                             "authorized", "has_GTK"})
              /\ d.out = c.out /\ d.sm.key = c.sm.PTK /\ d.sm.pairwise_set = TRUE
              /\ d.sm.rekey_timer = TRUE
         /\ ~c.driver_ok =>
              /\ Kept(d, c, {"ptk_state", "rx", "leaving", "assoc", "authorized"})
              /\ d.sm.leaving = TRUE /\ SentOther(d.out, c.out)
<1> DEFINE b == [Into(c, "PTKINITDONE") EXCEPT !.sm.rx = "none"]
           d == EnterPtk(c, "PTKINITDONE")
           e == wpa_sta_disconnect(b)
           f == [b EXCEPT !.sm.key = c.sm.PTK, !.sm.pairwise_set = TRUE,
                    !.sm.rekey_timer = TRUE, !.sm.authorized = TRUE,
                    !.sm.has_GTK = TRUE]
<1>1. d = PTKINITDONE(Into(c, "PTKINITDONE"))
  BY DEF EnterPtk, Into
<1>2. Into(c, "PTKINITDONE").sm.PTK = c.sm.PTK /\ Into(c, "PTKINITDONE").driver_ok = c.driver_ok
  BY SmFields DEF Into, Shaped
<1>3. d = IF ~c.driver_ok THEN e ELSE f
  BY <1>1, <1>2 DEF PTKINITDONE
<1>4. /\ Shaped(b) /\ b.group = c.group /\ b.driver_ok = c.driver_ok /\ b.out = c.out
      /\ b.sm.ptk_state = "PTKINITDONE" /\ b.sm.rx = "none"
      /\ Kept(b, c, {"ptk_state", "rx"})
  BY SmFields DEF Into, Shaped, Kept
<1>5. /\ Shaped(f) /\ f.group = c.group /\ f.driver_ok = c.driver_ok /\ f.out = c.out
      /\ f.sm.ptk_state = "PTKINITDONE" /\ f.sm.rx = "none"
      /\ Kept(f, c, {"ptk_state", "rx", "key", "pairwise_set", "rekey_timer",
                             "authorized", "has_GTK"})
      /\ f.sm.key = c.sm.PTK /\ f.sm.pairwise_set = TRUE /\ f.sm.rekey_timer = TRUE
  BY SmFields DEF Into, Shaped, Kept
<1> HIDE DEF b, d, f
<1>6. /\ Shaped(e) /\ e.group = b.group /\ e.driver_ok = b.driver_ok
      /\ Kept(e, b, {"leaving", "assoc", "authorized"}) /\ e.sm.leaving = TRUE
      /\ SentOther(e.out, b.out)
  BY <1>4, DisconnectEffect
<1> HIDE DEF e
<1>7. Kept(e, c, {"ptk_state", "rx"} \cup {"leaving", "assoc", "authorized"})
  BY <1>4, <1>6, KeptTwice
<1>8. e.sm.ptk_state = "PTKINITDONE" /\ e.sm.rx = "none"
  BY <1>4, <1>6, SmFields DEF Kept
<1>9. CASE c.driver_ok
  BY <1>3, <1>5, <1>9 DEF d
<1>10. CASE ~c.driver_ok
  BY <1>3, <1>4, <1>6, <1>7, <1>8, <1>10 DEF d
<1> QED BY <1>9, <1>10

-----------------------------------------------------------------------------
(* And for each state of WPA_PTK_GROUP.                                    *)

LEMMA EnterIDLE ==
  ASSUME NEW c, Shaped(c)
  PROVE  LET d == EnterGroup(c, "IDLE") IN
         /\ Shaped(d) /\ d.group = c.group /\ d.driver_ok = c.driver_ok /\ d.out = c.out
         /\ Kept(d, c, {"group_state", "GTimeoutCtr", "PtkGroupInit"})
         /\ d.sm.group_state = "IDLE" /\ d.sm.GTimeoutCtr = 0 /\ d.sm.PtkGroupInit = FALSE
<1>1. EnterGroup(c, "IDLE") = IDLE(GroupInto(c, "IDLE"))
  BY DEF EnterGroup, GroupInto
<1>2. LET d == IDLE(GroupInto(c, "IDLE")) IN
      /\ Shaped(d) /\ d.group = c.group /\ d.driver_ok = c.driver_ok /\ d.out = c.out
      /\ Kept(d, c, {"group_state", "GTimeoutCtr", "PtkGroupInit"})
      /\ d.sm.group_state = "IDLE" /\ d.sm.GTimeoutCtr = 0 /\ d.sm.PtkGroupInit = FALSE
  BY SmFields DEF GroupInto, Shaped, Kept, IDLE
<1> QED BY <1>1, <1>2

LEMMA EnterREKEYNEGOTIATING ==
  ASSUME NEW c, Shaped(c), SmTypes(c.sm)
  PROVE  LET d == EnterGroup(c, "REKEYNEGOTIATING") IN
         /\ Shaped(d) /\ d.group = c.group /\ d.driver_ok = c.driver_ok
         /\ Kept(d, c, {"group_state", "GTimeoutCtr", "TimeoutEvt", "counter", "window",
                        "timers"})
         /\ d.sm.group_state = "REKEYNEGOTIATING" /\ d.sm.GTimeoutCtr = c.sm.GTimeoutCtr + 1
         /\ d.sm.TimeoutEvt = IF c.sm.GTimeoutCtr + 1 > UpdateCount
                              THEN c.sm.TimeoutEvt ELSE FALSE
         /\ d.sm.window \in 0..RSNA_MAX_EAPOL_RETRIES /\ d.sm.counter \in Nat
         /\ d.sm.timers \in Nat
         /\ SentOther(d.out, c.out)
<1> DEFINE b == [GroupInto(c, "REKEYNEGOTIATING") EXCEPT !.sm.GTimeoutCtr = @ + 1]
           e == [b EXCEPT !.sm.TimeoutEvt = FALSE]
           zero == 0
           yes == TRUE
           f == wpa_send_eapol(e, "1/2", yes, zero)
           d == EnterGroup(c, "REKEYNEGOTIATING")
           used == {"counter", "window", "timers"}
           set == {"group_state", "GTimeoutCtr"}
           cleared == {"group_state", "GTimeoutCtr", "TimeoutEvt"}
<1>1. d = IF b.sm.GTimeoutCtr > UpdateCount THEN b ELSE f
  BY DEF EnterGroup, GroupInto, REKEYNEGOTIATING
<1>2. /\ Shaped(b) /\ b.group = c.group /\ b.out = c.out /\ b.driver_ok = c.driver_ok
      /\ Kept(b, c, set) /\ b.sm.group_state = "REKEYNEGOTIATING"
      /\ b.sm.GTimeoutCtr = c.sm.GTimeoutCtr + 1
  BY SmFields DEF GroupInto, Shaped, Kept
<1>3. /\ Shaped(e) /\ e.group = c.group /\ e.out = c.out /\ e.driver_ok = c.driver_ok
      /\ Kept(e, c, cleared) /\ e.sm.group_state = "REKEYNEGOTIATING"
      /\ e.sm.GTimeoutCtr = c.sm.GTimeoutCtr + 1 /\ e.sm.TimeoutEvt = FALSE
  BY SmFields DEF GroupInto, Shaped, Kept
<1> HIDE DEF b, e, d
<1>4. /\ e.sm.window \in 0..RSNA_MAX_EAPOL_RETRIES /\ e.sm.counter \in Nat
      /\ e.sm.timers \in Nat /\ e.sm.PTK_valid \in BOOLEAN /\ yes \in BOOLEAN
  BY <1>3, SmFields DEF Kept, SmTypes
<1> HIDE DEF zero, yes
<1>5. /\ Shaped(f) /\ f.group = e.group /\ f.driver_ok = e.driver_ok
      /\ Kept(f, e, used)
      /\ f.sm.window \in 0..RSNA_MAX_EAPOL_RETRIES /\ f.sm.counter \in Nat
      /\ f.sm.timers \in Nat
      /\ Sent(f.out, e.out, "1/2", zero, IF yes THEN e.sm.PTK ELSE NoKey)
  BY <1>3, <1>4, SendEffect
<1> HIDE DEF f
<1>6. Kept(f, c, cleared \cup used)
  BY <1>3, <1>5, KeptTwice
<1>7. SentOther(f.out, c.out)
  BY <1>3, <1>5 DEF Sent, SentOther
<1>8. /\ f.sm.group_state = "REKEYNEGOTIATING" /\ f.sm.GTimeoutCtr = c.sm.GTimeoutCtr + 1
      /\ f.sm.TimeoutEvt = FALSE
  BY <1>3, <1>5, SmFields DEF Kept
<1>9. CASE c.sm.GTimeoutCtr + 1 > UpdateCount
  <2>1. d = b
    BY <1>1, <1>2, <1>9
  <2>2. /\ b.sm.TimeoutEvt = c.sm.TimeoutEvt /\ b.sm.window = c.sm.window
        /\ b.sm.counter = c.sm.counter /\ b.sm.timers = c.sm.timers
    BY <1>2, SmFields DEF Kept
  <2>3. Kept(b, c, cleared \cup used) /\ SentOther(b.out, c.out)
    BY <1>2 DEF Kept, SentOther
  <2> QED BY <2>1, <2>2, <2>3, <1>2, <1>9 DEF SmTypes, d
<1>10. CASE ~(c.sm.GTimeoutCtr + 1 > UpdateCount)
  <2>1. d = f
    BY <1>1, <1>2, <1>10
  <2> QED BY <2>1, <1>3, <1>5, <1>6, <1>7, <1>8, <1>10 DEF d
<1> QED BY <1>9, <1>10

LEMMA EnterUnmarked ==
  ASSUME NEW c, Shaped(c), SmTypes(c.sm), c.group.GKeyDoneStations \in Nat
  PROVE  /\ LET d == EnterGroup(c, "REKEYESTABLISHED") IN
            /\ Shaped(d) /\ d.out = c.out /\ d.driver_ok = c.driver_ok
            /\ Kept(d, c, {"group_state", "GUpdateStationKeys", "rx", "GTimeoutCtr",
                           "has_GTK"})
            /\ GroupKept(d, c, {"GKeyDoneStations"})
            /\ d.sm.group_state = "REKEYESTABLISHED" /\ d.sm.GUpdateStationKeys = FALSE
            /\ d.sm.rx = "none" /\ d.sm.GTimeoutCtr = 0
            /\ d.group.GKeyDoneStations = c.group.GKeyDoneStations - Mark(c.sm)
         /\ LET d == EnterGroup(c, "KEYERROR") IN
            /\ Shaped(d) /\ d.out = c.out /\ d.driver_ok = c.driver_ok
            /\ Kept(d, c, {"group_state", "GUpdateStationKeys", "requests"})
            /\ GroupKept(d, c, {"GKeyDoneStations"})
            /\ d.sm.group_state = "KEYERROR" /\ d.sm.GUpdateStationKeys = FALSE
            /\ d.sm.requests = c.sm.requests \cup {"Disconnect"}
            /\ d.group.GKeyDoneStations = c.group.GKeyDoneStations - Mark(c.sm)
<1>1. SUFFICES ASSUME NEW st \in {"REKEYESTABLISHED", "KEYERROR"}
      PROVE LET d == EnterGroup(c, st) IN
            /\ Shaped(d) /\ d.out = c.out /\ d.driver_ok = c.driver_ok
            /\ Kept(d, c, IF st = "KEYERROR"
                          THEN {"group_state", "GUpdateStationKeys", "requests"}
                          ELSE {"group_state", "GUpdateStationKeys", "rx", "GTimeoutCtr",
                                "has_GTK"})
            /\ GroupKept(d, c, {"GKeyDoneStations"})
            /\ d.sm.group_state = st /\ d.sm.GUpdateStationKeys = FALSE
            /\ d.group.GKeyDoneStations = c.group.GKeyDoneStations - Mark(c.sm)
            /\ st = "KEYERROR" => d.sm.requests = c.sm.requests \cup {"Disconnect"}
            /\ st # "KEYERROR" => d.sm.rx = "none" /\ d.sm.GTimeoutCtr = 0
  OBVIOUS
<1> DEFINE b == GroupInto(c, st)
           a == Unmark(b)
           d == EnterGroup(c, st)
<1>2. d = IF st = "KEYERROR" THEN [a EXCEPT !.sm.requests = @ \cup {"Disconnect"}]
          ELSE [a EXCEPT !.sm.rx = "none", !.sm.GTimeoutCtr = 0, !.sm.has_GTK = TRUE]
  <2>1. CASE st = "KEYERROR"
    BY <2>1 DEF EnterGroup, GroupInto, KEYERROR
  <2>2. CASE st = "REKEYESTABLISHED"
    BY <2>2 DEF EnterGroup, GroupInto, REKEYESTABLISHED
  <2> QED BY <2>1, <2>2
<1>3. /\ Shaped(b) /\ b.group = c.group /\ b.out = c.out /\ b.driver_ok = c.driver_ok
      /\ Kept(b, c, {"group_state"}) /\ b.sm.group_state = st
  BY IntoEffect
<1>4. b.sm.GUpdateStationKeys = c.sm.GUpdateStationKeys /\ b.sm.requests = c.sm.requests
  BY <1>3, SmFields DEF Kept
<1> HIDE DEF b
<1>5. /\ Shaped(a) /\ a.out = b.out /\ a.driver_ok = b.driver_ok
      /\ Kept(a, b, {"GUpdateStationKeys"}) /\ GroupKept(a, b, {"GKeyDoneStations"})
      /\ a.sm.GUpdateStationKeys = FALSE
      /\ a.group.GKeyDoneStations = b.group.GKeyDoneStations - Mark(b.sm)
  BY <1>3, <1>4, UnmarkEffect DEF SmTypes
<1> HIDE DEF a, d
<1>6. /\ Kept(a, c, {"group_state"} \cup {"GUpdateStationKeys"})
      /\ GroupKept(a, c, {"GKeyDoneStations"})
      /\ a.group.GKeyDoneStations = c.group.GKeyDoneStations - Mark(c.sm)
  <2>1. Mark(b.sm) = Mark(c.sm) /\ GroupKept(a, c, {"GKeyDoneStations"})
    BY <1>3, <1>4, <1>5 DEF Mark, GroupKept
  <2> QED BY <2>1, <1>3, <1>5, KeptTwice
<1>7. a.sm.group_state = st /\ a.sm.requests = c.sm.requests
  BY <1>3, <1>4, <1>5, SmFields DEF Kept
<1>8. CASE st = "KEYERROR"
  <2>1. d = [a EXCEPT !.sm.requests = @ \cup {"Disconnect"}]
    BY <1>2, <1>8
  <2>2. /\ Shaped(d) /\ d.out = a.out /\ d.driver_ok = a.driver_ok /\ d.group = a.group
        /\ Kept(d, a, {"requests"}) /\ d.sm.requests = a.sm.requests \cup {"Disconnect"}
    BY <2>1, <1>5, SmFields DEF Shaped, Kept
  <2>3. Kept(d, c, ({"group_state"} \cup {"GUpdateStationKeys"}) \cup {"requests"})
    BY <2>2, <1>6, KeptTwice
  <2>4. d.sm.group_state = st /\ d.sm.GUpdateStationKeys = FALSE
    BY <2>2, <1>5, <1>7, SmFields DEF Kept
  <2>5. GroupKept(d, c, {"GKeyDoneStations"})
    BY <2>2, <1>6 DEF GroupKept
  <2>6. Kept(d, c, {"group_state", "GUpdateStationKeys", "requests"})
    BY <2>3
  <2> QED BY <2>2, <2>4, <2>5, <2>6, <1>3, <1>5, <1>6, <1>7, <1>8 DEF d
<1>9. CASE st # "KEYERROR"
  <2>1. d = [a EXCEPT !.sm.rx = "none", !.sm.GTimeoutCtr = 0, !.sm.has_GTK = TRUE]
    BY <1>2, <1>9
  <2>2. /\ Shaped(d) /\ d.out = a.out /\ d.driver_ok = a.driver_ok /\ d.group = a.group
        /\ Kept(d, a, {"rx", "GTimeoutCtr", "has_GTK"}) /\ d.sm.rx = "none"
        /\ d.sm.GTimeoutCtr = 0
    BY <2>1, <1>5, SmFields DEF Shaped, Kept
  <2>3. Kept(d, c, ({"group_state"} \cup {"GUpdateStationKeys"})
                     \cup {"rx", "GTimeoutCtr", "has_GTK"})
    BY <2>2, <1>6, KeptTwice
  <2>4. d.sm.group_state = st /\ d.sm.GUpdateStationKeys = FALSE
    BY <2>2, <1>5, <1>7, SmFields DEF Kept
  <2>5. GroupKept(d, c, {"GKeyDoneStations"})
    BY <2>2, <1>6 DEF GroupKept
  <2>6. Kept(d, c, {"group_state", "GUpdateStationKeys", "rx", "GTimeoutCtr", "has_GTK"})
    BY <2>3
  <2> QED BY <2>2, <2>4, <2>5, <2>6, <1>3, <1>5, <1>6, <1>7, <1>9 DEF d
<1> QED BY <1>8, <1>9
\* A frame just received is one the state machine waits for.
FrameExpected(m) ==
  /\ m.rx = "pairwise" =>
       /\ m.requests = {} /\ ~m.TimeoutEvt
       /\ \/ m.ptk_state \in {"PTKSTART", "PTKCALCNEGOTIATING"} /\ ~m.MICVerified
          \/ m.ptk_state = "PTKINITNEGOTIATING" /\ m.MICVerified /\ m.PTK_valid
  /\ m.rx = "group" => m.group_state = "REKEYNEGOTIATING" /\ m.MICVerified

\* Where there is no valid PTK.
PtkInvalid(m) ==
  \/ m.ptk_state \in {"INITIALIZE", "AUTHENTICATION", "AUTHENTICATION2", "INITPSK",
                      "PTKSTART"}
  \/ m.ptk_state = "PTKCALCNEGOTIATING" /\ ~m.MICVerified
  \/ m.requests \in {{"PTK"}, {"ReAuthentication"}}

\* A timeout finds a message that can be sent again.
TimeoutHandled(m) ==
  m.TimeoutEvt /\ m.ptk_state \in Waiting =>
    /\ m.requests = {}
    /\ IF m.ptk_state = "PTKCALCNEGOTIATING" THEN ~m.MICVerified
       ELSE m.TimeoutCtr <= UpdateCount

Control(m) ==
  /\ SmTypes(m) /\ FrameExpected(m) /\ TimeoutHandled(m)
  /\ PtkInvalid(m) => ~m.PTK_valid
  /\ m.ptk_state \in {"AUTHENTICATION2", "INITPSK", "PTKCALCNEGOTIATING2"}
       => m.TimeoutCtr = 0
  /\ m.group_state \in {"REKEYESTABLISHED", "KEYERROR"} => ~m.GUpdateStationKeys
  /\ m.group_state = "IDLE" => m.GTimeoutCtr = 0
  /\ m.PtkGroupInit => ~m.GUpdateStationKeys /\ m.rx # "group"
  /\ m.ptk_state = "INITIALIZE" => ~m.GUpdateStationKeys /\ ~m.rekey_timer

Resting(m) == m.requests = {} /\ PtkNext(m) = "none" /\ GroupNext(m) = "none"

(***************************************************************************)
(* How many rounds it takes to come to rest.                               *)
(***************************************************************************)
RequestRounds(m) ==
  IF m.requests = {"Deauthentication"} THEN 2
  ELSE IF m.requests \in {{"Authentication"}, {"PTK"}} THEN 4 ELSE 3

StateRounds(m) ==
  LET st == m.ptk_state IN
  CASE st \in {"INITIALIZE", "PTKINITDONE"} -> 0
    [] st \in {"DISCONNECTED", "INITPSK", "PTKCALCNEGOTIATING2"} -> 1
    [] st \in {"DISCONNECT", "AUTHENTICATION2"} -> 2
    [] st = "AUTHENTICATION" -> 3
    [] st = "PTKSTART" ->
         IF m.rx = "pairwise" \/ m.TimeoutCtr > UpdateCount THEN 3
         ELSE IF m.TimeoutEvt THEN 4 ELSE 0
    [] st = "PTKCALCNEGOTIATING" ->
         IF m.MICVerified THEN 2 ELSE IF m.rx = "pairwise" THEN 3
         ELSE IF m.TimeoutEvt THEN 4 ELSE 0
    [] st = "PTKINITNEGOTIATING" ->
         IF m.rx = "pairwise" THEN 1 ELSE IF m.TimeoutCtr > UpdateCount THEN 3
         ELSE IF m.TimeoutEvt THEN 4 ELSE 0

PtkRounds(m) == IF m.requests # {} THEN RequestRounds(m) ELSE StateRounds(m)

GroupRounds(m) ==
  IF m.PtkGroupInit THEN 1
  ELSE IF m.group_state = "IDLE" THEN IF m.GUpdateStationKeys THEN 1 ELSE 0
  ELSE IF m.group_state # "REKEYNEGOTIATING" THEN 1
  ELSE IF m.rx = "group" THEN 2
  ELSE IF m.GTimeoutCtr > UpdateCount THEN 5
  ELSE IF m.TimeoutEvt /\ m.ptk_state \notin Waiting THEN 6 ELSE 0

Rounds(m) == PtkRounds(m) + GroupRounds(m)

\* The station is on its way to INITIALIZE.  So is one that leaves, while none is dropped.
Closing(m) ==
  /\ m.requests \subseteq {"Disconnect", "Deauthentication"}
  /\ m.requests # {} \/ m.ptk_state \in {"DISCONNECT", "DISCONNECTED", "INITIALIZE"}
OnWayOut(m) == m.leaving => Closing(m)


-----------------------------------------------------------------------------
(***************************************************************************)
(* Which state is entered, and when: SM_STEP(WPA_PTK), turned round.       *)
(***************************************************************************)
Stays(m) ==
  /\ m.requests = {} /\ m.rx # "pairwise"
  /\ m.ptk_state \in Waiting \cup {"INITIALIZE", "PTKINITDONE"}
  /\ m.ptk_state \in Waiting => ~m.TimeoutEvt
  /\ m.ptk_state \in {"PTKSTART", "PTKINITNEGOTIATING"} => m.TimeoutCtr <= UpdateCount
  /\ m.ptk_state = "PTKCALCNEGOTIATING" => ~m.MICVerified

ToDISCONNECT(m) ==
  \/ m.requests = {"Disconnect"}
  \/ /\ m.requests = {} /\ m.ptk_state \in {"PTKSTART", "PTKINITNEGOTIATING"}
     /\ m.rx # "pairwise" /\ m.TimeoutCtr > UpdateCount

ToDISCONNECTED(m) ==
  m.requests = {"Deauthentication"} \/ (m.requests = {} /\ m.ptk_state = "DISCONNECT")

ToINITIALIZE(m) == m.requests = {} /\ m.ptk_state = "DISCONNECTED"
ToAUTHENTICATION(m) == m.requests = {"Authentication"}

ToAUTHENTICATION2(m) ==
  m.requests = {"ReAuthentication"} \/ (m.requests = {} /\ m.ptk_state = "AUTHENTICATION")

ToINITPSK(m) == m.requests = {} /\ m.ptk_state = "AUTHENTICATION2"

ToPTKSTART(m) ==
  \/ m.requests = {"PTK"}
  \/ m.requests = {} /\ m.ptk_state = "INITPSK"
  \/ /\ m.requests = {} /\ m.ptk_state = "PTKSTART" /\ m.rx # "pairwise"
     /\ m.TimeoutEvt /\ m.TimeoutCtr <= UpdateCount
  \/ /\ m.requests = {} /\ m.ptk_state = "PTKCALCNEGOTIATING" /\ m.rx # "pairwise"
     /\ m.TimeoutEvt /\ ~m.MICVerified

ToPTKCALCNEGOTIATING(m) ==
  /\ m.requests = {} /\ m.ptk_state \in {"PTKSTART", "PTKCALCNEGOTIATING"}
  /\ m.rx = "pairwise" /\ ~m.MICVerified

ToPTKCALCNEGOTIATING2(m) ==
  m.requests = {} /\ m.ptk_state = "PTKCALCNEGOTIATING" /\ m.MICVerified

ToPTKINITNEGOTIATING(m) ==
  \/ m.requests = {} /\ m.ptk_state = "PTKCALCNEGOTIATING2"
  \/ /\ m.requests = {} /\ m.ptk_state = "PTKINITNEGOTIATING" /\ m.rx # "pairwise"
     /\ m.TimeoutEvt /\ m.TimeoutCtr <= UpdateCount

ToPTKINITDONE(m) ==
  /\ m.requests = {} /\ m.ptk_state = "PTKINITNEGOTIATING"
  /\ m.rx = "pairwise" /\ m.MICVerified

PtkGoes(m, st) ==
  \/ st = "none" /\ Stays(m)
  \/ st = "DISCONNECT" /\ ToDISCONNECT(m)
  \/ st = "DISCONNECTED" /\ ToDISCONNECTED(m)
  \/ st = "INITIALIZE" /\ ToINITIALIZE(m)
  \/ st = "AUTHENTICATION" /\ ToAUTHENTICATION(m)
  \/ st = "AUTHENTICATION2" /\ ToAUTHENTICATION2(m)
  \/ st = "INITPSK" /\ ToINITPSK(m)
  \/ st = "PTKSTART" /\ ToPTKSTART(m)
  \/ st = "PTKCALCNEGOTIATING" /\ ToPTKCALCNEGOTIATING(m)
  \/ st = "PTKCALCNEGOTIATING2" /\ ToPTKCALCNEGOTIATING2(m)
  \/ st = "PTKINITNEGOTIATING" /\ ToPTKINITNEGOTIATING(m)
  \/ st = "PTKINITDONE" /\ ToPTKINITDONE(m)

LEMMA PtkNextIs ==
  ASSUME NEW m, Control(m)
  PROVE  PtkGoes(m, PtkNext(m))
<1>1. /\ m.ptk_state \in SmStates /\ m.requests \in {{}} \cup {{r} : r \in RequestNames}
      /\ m.TimeoutCtr \in Nat /\ m.TimeoutEvt \in BOOLEAN /\ m.MICVerified \in BOOLEAN
      /\ UpdateCount \in Nat
  BY WpaAssumption DEF Control, SmTypes
<1>2. m.rx = "pairwise" =>
        \/ m.ptk_state \in {"PTKSTART", "PTKCALCNEGOTIATING"} /\ ~m.MICVerified
        \/ m.ptk_state = "PTKINITNEGOTIATING" /\ m.MICVerified
  BY DEF Control, FrameExpected
<1>3. CASE m.requests # {}
  <2>1. PICK r \in RequestNames : m.requests = {r}
    BY <1>1, <1>3
  <2>2. PtkNext(m) = Requested(m)
    BY <1>3 DEF PtkNext
  <2>3. CASE r = "Disconnect"
    BY <2>1, <2>2, <2>3 DEF Requested, PtkGoes, ToDISCONNECT
  <2>4. CASE r = "Deauthentication"
    BY <2>1, <2>2, <2>4 DEF Requested, PtkGoes, ToDISCONNECTED
  <2>5. CASE r = "Authentication"
    BY <2>1, <2>2, <2>5 DEF Requested, PtkGoes, ToAUTHENTICATION
  <2>6. CASE r = "ReAuthentication"
    BY <2>1, <2>2, <2>6 DEF Requested, PtkGoes, ToAUTHENTICATION2
  <2>7. CASE r = "PTK"
    BY <2>1, <2>2, <2>7 DEF Requested, PtkGoes, ToPTKSTART
  <2> QED BY <2>1, <2>3, <2>4, <2>5, <2>6, <2>7 DEF RequestNames
<1>4. CASE m.requests = {}
  <2>1. CASE m.ptk_state = "DISCONNECT"
    BY <2>1, <1>4 DEF PtkNext, Followed, PtkGoes, ToDISCONNECTED
  <2>2. CASE m.ptk_state = "DISCONNECTED"
    BY <2>2, <1>4 DEF PtkNext, Followed, PtkGoes, ToINITIALIZE
  <2>3. CASE m.ptk_state = "AUTHENTICATION"
    BY <2>3, <1>4 DEF PtkNext, Followed, PtkGoes, ToAUTHENTICATION2
  <2>4. CASE m.ptk_state = "AUTHENTICATION2"
    BY <2>4, <1>4 DEF PtkNext, Followed, PtkGoes, ToINITPSK
  <2>5. CASE m.ptk_state = "INITPSK"
    BY <2>5, <1>4 DEF PtkNext, Followed, PtkGoes, ToPTKSTART
  <2>6. CASE m.ptk_state = "PTKCALCNEGOTIATING2"
    BY <2>6, <1>4 DEF PtkNext, Followed, PtkGoes, ToPTKINITNEGOTIATING
  <2>7. CASE m.ptk_state \in {"INITIALIZE", "PTKINITDONE"}
    BY <2>7, <1>2, <1>4 DEF PtkNext, Followed, PtkGoes, Stays, Waiting
  <2>8. CASE m.ptk_state = "PTKSTART"
    BY <2>8, <1>1, <1>2, <1>4
    DEF PtkNext, Followed, PairwiseReceived, PtkGoes, Stays, Waiting, ToPTKCALCNEGOTIATING, ToDISCONNECT, ToPTKSTART
  <2>9. CASE m.ptk_state = "PTKCALCNEGOTIATING"
    BY <2>9, <1>1, <1>2, <1>4
    DEF PtkNext, Followed, PairwiseReceived, PtkGoes, Stays, Waiting, ToPTKCALCNEGOTIATING, ToPTKCALCNEGOTIATING2, ToPTKSTART
  <2>10. CASE m.ptk_state = "PTKINITNEGOTIATING"
    BY <2>10, <1>1, <1>2, <1>4
    DEF PtkNext, Followed, PairwiseReceived, PtkGoes, Stays, Waiting, ToPTKINITDONE, ToPTKINITNEGOTIATING, ToDISCONNECT
  <2> QED BY <1>1, <2>1, <2>2, <2>3, <2>4, <2>5, <2>6, <2>7, <2>8, <2>9, <2>10 DEF SmStates
<1> QED BY <1>3, <1>4

(* The same for SM_STEP(WPA_PTK_GROUP).                                    *)
GroupStays(m) ==
  /\ ~m.PtkGroupInit
  /\ \/ m.group_state = "IDLE" /\ ~m.GUpdateStationKeys
     \/ /\ m.group_state = "REKEYNEGOTIATING" /\ m.rx # "group"
        /\ m.GTimeoutCtr <= UpdateCount /\ ~m.TimeoutEvt

ToIDLE(m) == m.PtkGroupInit \/ m.group_state \in {"REKEYESTABLISHED", "KEYERROR"}

ToREKEYNEGOTIATING(m) ==
  /\ ~m.PtkGroupInit
  /\ \/ m.group_state = "IDLE" /\ m.GUpdateStationKeys
     \/ /\ m.group_state = "REKEYNEGOTIATING" /\ m.rx # "group"
        /\ m.GTimeoutCtr <= UpdateCount /\ m.TimeoutEvt

ToREKEYESTABLISHED(m) ==
  ~m.PtkGroupInit /\ m.group_state = "REKEYNEGOTIATING" /\ m.rx = "group"

ToKEYERROR(m) ==
  /\ ~m.PtkGroupInit /\ m.group_state = "REKEYNEGOTIATING" /\ m.rx # "group"
  /\ m.GTimeoutCtr > UpdateCount

GroupGoes(m, st) ==
  \/ st = "none" /\ GroupStays(m)
  \/ st = "IDLE" /\ ToIDLE(m)
  \/ st = "REKEYNEGOTIATING" /\ ToREKEYNEGOTIATING(m)
  \/ st = "REKEYESTABLISHED" /\ ToREKEYESTABLISHED(m)
  \/ st = "KEYERROR" /\ ToKEYERROR(m)

LEMMA GroupNextIs ==
  ASSUME NEW m, Control(m)
  PROVE  GroupGoes(m, GroupNext(m))
<1>1. /\ m.group_state \in GroupStates /\ m.GTimeoutCtr \in Nat /\ m.TimeoutEvt \in BOOLEAN
      /\ m.MICVerified \in BOOLEAN /\ m.PtkGroupInit \in BOOLEAN
      /\ m.GUpdateStationKeys \in BOOLEAN /\ UpdateCount \in Nat
      /\ m.rx = "group" => m.MICVerified
  BY WpaAssumption DEF Control, SmTypes, FrameExpected
<1>2. CASE m.PtkGroupInit
  BY <1>2 DEF GroupNext, GroupGoes, ToIDLE
<1>3. CASE ~m.PtkGroupInit
  <2>1. CASE m.group_state = "IDLE"
    BY <2>1, <1>1, <1>3 DEF GroupNext, GroupGoes, GroupStays, ToREKEYNEGOTIATING
  <2>2. CASE m.group_state = "REKEYNEGOTIATING"
    BY <2>2, <1>1, <1>3 DEF GroupNext, GroupGoes, GroupStays, ToREKEYNEGOTIATING,
       ToREKEYESTABLISHED, ToKEYERROR
  <2>3. CASE m.group_state \in {"REKEYESTABLISHED", "KEYERROR"}
    BY <2>3, <1>1, <1>3 DEF GroupNext, GroupGoes, ToIDLE
  <2> QED BY <1>1, <2>1, <2>2, <2>3 DEF GroupStates
<1> QED BY <1>2, <1>3

-----------------------------------------------------------------------------
(***************************************************************************)
(* The first half of a round: SM_STEP(WPA_PTK).                            *)
(***************************************************************************)
GroupOK(g) ==
  /\ g.state \in {"SETKEYS", "SETKEYSDONE"} /\ g.GN \in 1..2 /\ g.GM = 3 - g.GN
  /\ g.Counter \in Nat \ {0} /\ g.GKeyDoneStations \in Nat

LoopInv(c) ==
  /\ Shaped(c) /\ Control(c.sm) /\ GroupOK(c.group)
  /\ Mark(c.sm) <= c.group.GKeyDoneStations

\* The marks of the other stations.
Others(c) == c.group.GKeyDoneStations - Mark(c.sm)

\* Between the two halves of a round.
Mid(m) ==
  m.requests = {} /\ m.rx # "pairwise" /\ ~(m.TimeoutEvt /\ m.ptk_state \in Waiting)

Fewer(d, c) ==
  /\ Control(d.sm) /\ Mid(d.sm)
  /\ PtkRounds(d.sm) < PtkRounds(c.sm) /\ GroupRounds(d.sm) <= GroupRounds(c.sm)
  /\ Closing(c.sm) => Closing(d.sm)
  /\ OnWayOut(c.sm) /\ c.driver_ok => OnWayOut(d.sm)

LEMMA FewerDISCONNECT ==
  ASSUME NEW c, LoopInv(c), ToDISCONNECT(c.sm)
  PROVE  Fewer(EnterPtk(c, "DISCONNECT"), c)
<1> DEFINE d == EnterPtk(c, "DISCONNECT")
           m == c.sm
           n == d.sm
<1>1. /\ Kept(d, c, {"ptk_state", "requests", "leaving", "assoc", "authorized"})
      /\ n.ptk_state = "DISCONNECT"
      /\ n.requests = m.requests \ {"Disconnect"} /\ n.leaving = TRUE
  BY EnterDISCONNECT DEF LoopInv, Control, GroupOK
<1>2. /\ n.group_state = m.group_state /\ n.PtkGroupInit = m.PtkGroupInit
      /\ n.TimeoutCtr = m.TimeoutCtr /\ n.GTimeoutCtr = m.GTimeoutCtr
      /\ n.TimeoutEvt = m.TimeoutEvt /\ n.timers = m.timers
      /\ n.rekey_timer = m.rekey_timer /\ n.rx = m.rx
      /\ n.MICVerified = m.MICVerified
      /\ n.GUpdateStationKeys = m.GUpdateStationKeys /\ n.ANonce = m.ANonce
      /\ n.PTK_valid = m.PTK_valid /\ n.pairwise_set = m.pairwise_set
      /\ n.counter = m.counter /\ n.window = m.window
  BY <1>1, SmFields DEF Kept
<1> HIDE DEF d
<1>3. n.requests = {} /\ m.rx # "pairwise"
  BY <1>1, <1>2, WpaAssumption DEF ToDISCONNECT, LoopInv, Control, SmTypes, FrameExpected, PtkInvalid
<1>4. Control(n)
  <2>1. SmTypes(n)
    BY <1>1, <1>2, <1>3 DEF LoopInv, Control, SmTypes, SmStates
  <2>2. FrameExpected(n) /\ TimeoutHandled(n)
    BY <1>1, <1>2, <1>3 DEF ToDISCONNECT, LoopInv, Control, SmTypes, FrameExpected, TimeoutHandled, Waiting
  <2>3. PtkInvalid(n) => ~n.PTK_valid
    BY <1>1, <1>2, <1>3 DEF LoopInv, Control, PtkInvalid
  <2> QED BY <1>1, <1>2, <1>3, <2>1, <2>2, <2>3 DEF LoopInv, Control
<1>5. Mid(n) /\ (Closing(m) => Closing(n)) /\ (OnWayOut(m) => OnWayOut(n))
  BY <1>1, <1>2, <1>3 DEF ToDISCONNECT, Mid, Waiting, Closing, OnWayOut
<1>6. PtkRounds(n) = 2 /\ PtkRounds(m) = 3
  BY <1>1, <1>2, <1>3, WpaAssumption DEF PtkRounds, RequestRounds, StateRounds, ToDISCONNECT
<1>7. GroupRounds(n) <= GroupRounds(m)
  BY <1>1, <1>2, <1>3, WpaAssumption DEF GroupRounds, Waiting, ToDISCONNECT, LoopInv, Control, SmTypes, TimeoutHandled
<1> QED BY <1>4, <1>5, <1>6, <1>7 DEF Fewer, d

LEMMA FewerDISCONNECTED ==
  ASSUME NEW c, LoopInv(c), ToDISCONNECTED(c.sm)
  PROVE  Fewer(EnterPtk(c, "DISCONNECTED"), c)
<1> DEFINE d == EnterPtk(c, "DISCONNECTED")
           m == c.sm
           n == d.sm
<1>1. /\ Kept(d, c, {"ptk_state", "requests"})
      /\ n.ptk_state = "DISCONNECTED" /\ n.requests = m.requests \ {"Deauthentication"}
  BY EnterDISCONNECTED DEF LoopInv, Control, GroupOK
<1>2. /\ n.group_state = m.group_state /\ n.PtkGroupInit = m.PtkGroupInit
      /\ n.TimeoutCtr = m.TimeoutCtr /\ n.GTimeoutCtr = m.GTimeoutCtr
      /\ n.TimeoutEvt = m.TimeoutEvt /\ n.timers = m.timers
      /\ n.rekey_timer = m.rekey_timer /\ n.rx = m.rx
      /\ n.MICVerified = m.MICVerified
      /\ n.GUpdateStationKeys = m.GUpdateStationKeys /\ n.ANonce = m.ANonce
      /\ n.PTK_valid = m.PTK_valid /\ n.pairwise_set = m.pairwise_set
      /\ n.counter = m.counter /\ n.window = m.window /\ n.leaving = m.leaving
  BY <1>1, SmFields DEF Kept
<1> HIDE DEF d
<1>3. n.requests = {} /\ m.rx # "pairwise"
  BY <1>1, <1>2, WpaAssumption DEF ToDISCONNECTED, LoopInv, Control, SmTypes, FrameExpected, PtkInvalid
<1>4. Control(n)
  <2>1. SmTypes(n)
    BY <1>1, <1>2, <1>3 DEF LoopInv, Control, SmTypes, SmStates
  <2>2. FrameExpected(n) /\ TimeoutHandled(n)
    BY <1>1, <1>2, <1>3 DEF ToDISCONNECTED, LoopInv, Control, SmTypes, FrameExpected, TimeoutHandled, Waiting
  <2>3. PtkInvalid(n) => ~n.PTK_valid
    BY <1>1, <1>2, <1>3 DEF LoopInv, Control, PtkInvalid
  <2> QED BY <1>1, <1>2, <1>3, <2>1, <2>2, <2>3 DEF LoopInv, Control
<1>5. Mid(n) /\ (Closing(m) => Closing(n)) /\ (OnWayOut(m) => OnWayOut(n))
  BY <1>1, <1>2, <1>3 DEF ToDISCONNECTED, Mid, Waiting, Closing, OnWayOut
<1>6. PtkRounds(n) = 1 /\ PtkRounds(m) = 2
  BY <1>1, <1>2, <1>3, WpaAssumption DEF PtkRounds, RequestRounds, StateRounds, ToDISCONNECTED
<1>7. GroupRounds(n) <= GroupRounds(m)
  BY <1>1, <1>2, <1>3, WpaAssumption DEF GroupRounds, Waiting, ToDISCONNECTED, LoopInv, Control, SmTypes, TimeoutHandled
<1> QED BY <1>4, <1>5, <1>6, <1>7 DEF Fewer, d

LEMMA FewerINITIALIZE ==
  ASSUME NEW c, LoopInv(c), ToINITIALIZE(c.sm)
  PROVE  Fewer(EnterPtk(c, "INITIALIZE"), c)
<1> DEFINE d == EnterPtk(c, "INITIALIZE")
           m == c.sm
           n == d.sm
<1>1. /\ Kept(d, c, {"ptk_state", "GUpdateStationKeys", "PTK_valid", "PTK",
                     "key", "pairwise_set", "rekey_timer", "TimeoutCtr", "authorized"})
      /\ n.ptk_state = "INITIALIZE"
      /\ n.PTK_valid = FALSE /\ n.pairwise_set = FALSE /\ n.rekey_timer = FALSE
      /\ n.TimeoutCtr = 0 /\ n.GUpdateStationKeys = FALSE
  BY EnterINITIALIZE DEF LoopInv, Control, GroupOK
<1>2. /\ n.group_state = m.group_state /\ n.requests = m.requests
      /\ n.PtkGroupInit = m.PtkGroupInit /\ n.GTimeoutCtr = m.GTimeoutCtr
      /\ n.TimeoutEvt = m.TimeoutEvt /\ n.timers = m.timers /\ n.rx = m.rx
      /\ n.MICVerified = m.MICVerified /\ n.ANonce = m.ANonce
      /\ n.counter = m.counter /\ n.window = m.window /\ n.leaving = m.leaving
  BY <1>1, SmFields DEF Kept
<1> HIDE DEF d
<1>3. n.requests = {} /\ m.rx # "pairwise" /\ n.TimeoutCtr \in Nat
  BY <1>1, <1>2, WpaAssumption DEF ToINITIALIZE, LoopInv, Control, SmTypes, FrameExpected, PtkInvalid
<1>4. Control(n)
  <2>1. SmTypes(n)
    BY <1>1, <1>2, <1>3 DEF LoopInv, Control, SmTypes, SmStates
  <2>2. FrameExpected(n) /\ TimeoutHandled(n)
    BY <1>1, <1>2, <1>3 DEF ToINITIALIZE, LoopInv, Control, SmTypes, FrameExpected, TimeoutHandled, Waiting
  <2>3. PtkInvalid(n) => ~n.PTK_valid
    BY <1>1, <1>2, <1>3 DEF LoopInv, Control, PtkInvalid
  <2> QED BY <1>1, <1>2, <1>3, <2>1, <2>2, <2>3 DEF LoopInv, Control
<1>5. Mid(n) /\ (Closing(m) => Closing(n)) /\ (OnWayOut(m) => OnWayOut(n))
  BY <1>1, <1>2, <1>3 DEF ToINITIALIZE, Mid, Waiting, Closing, OnWayOut
<1>6. PtkRounds(n) = 0 /\ PtkRounds(m) = 1
  BY <1>1, <1>2, <1>3, WpaAssumption DEF PtkRounds, RequestRounds, StateRounds, ToINITIALIZE
<1>7. GroupRounds(n) <= GroupRounds(m)
  BY <1>1, <1>2, <1>3, WpaAssumption DEF GroupRounds, Waiting, ToINITIALIZE, LoopInv, Control, SmTypes, TimeoutHandled
<1> QED BY <1>4, <1>5, <1>6, <1>7 DEF Fewer, d

LEMMA FewerAUTHENTICATION ==
  ASSUME NEW c, LoopInv(c), ToAUTHENTICATION(c.sm)
  PROVE  Fewer(EnterPtk(c, "AUTHENTICATION"), c)
<1> DEFINE d == EnterPtk(c, "AUTHENTICATION")
           m == c.sm
           n == d.sm
<1>1. /\ Kept(d, c, {"ptk_state", "requests", "PTK", "PTK_valid"})
      /\ n.ptk_state = "AUTHENTICATION" /\ n.requests = m.requests \ {"Authentication"}
      /\ n.PTK_valid = FALSE
  BY EnterAUTHENTICATION DEF LoopInv, Control, GroupOK
<1>2. /\ n.group_state = m.group_state /\ n.PtkGroupInit = m.PtkGroupInit
      /\ n.TimeoutCtr = m.TimeoutCtr /\ n.GTimeoutCtr = m.GTimeoutCtr
      /\ n.TimeoutEvt = m.TimeoutEvt /\ n.timers = m.timers
      /\ n.rekey_timer = m.rekey_timer /\ n.rx = m.rx
      /\ n.MICVerified = m.MICVerified
      /\ n.GUpdateStationKeys = m.GUpdateStationKeys /\ n.ANonce = m.ANonce
      /\ n.pairwise_set = m.pairwise_set /\ n.counter = m.counter
      /\ n.window = m.window /\ n.leaving = m.leaving
  BY <1>1, SmFields DEF Kept
<1> HIDE DEF d
<1>3. n.requests = {} /\ m.rx # "pairwise"
  BY <1>1, <1>2, WpaAssumption DEF ToAUTHENTICATION, LoopInv, Control, SmTypes, FrameExpected, PtkInvalid
<1>4. Control(n)
  <2>1. SmTypes(n)
    BY <1>1, <1>2, <1>3 DEF LoopInv, Control, SmTypes, SmStates
  <2>2. FrameExpected(n) /\ TimeoutHandled(n)
    BY <1>1, <1>2, <1>3 DEF ToAUTHENTICATION, LoopInv, Control, SmTypes, FrameExpected, TimeoutHandled, Waiting
  <2>3. PtkInvalid(n) => ~n.PTK_valid
    BY <1>1, <1>2, <1>3 DEF LoopInv, Control, PtkInvalid
  <2> QED BY <1>1, <1>2, <1>3, <2>1, <2>2, <2>3 DEF LoopInv, Control
<1>5. Mid(n) /\ (Closing(m) => Closing(n)) /\ (OnWayOut(m) => OnWayOut(n))
  BY <1>1, <1>2, <1>3 DEF ToAUTHENTICATION, Mid, Waiting, Closing, OnWayOut
<1>6. PtkRounds(n) = 3 /\ PtkRounds(m) = 4
  BY <1>1, <1>2, <1>3, WpaAssumption DEF PtkRounds, RequestRounds, StateRounds, ToAUTHENTICATION
<1>7. GroupRounds(n) <= GroupRounds(m)
  BY <1>1, <1>2, <1>3, WpaAssumption DEF GroupRounds, Waiting, ToAUTHENTICATION, LoopInv, Control, SmTypes, TimeoutHandled
<1> QED BY <1>4, <1>5, <1>6, <1>7 DEF Fewer, d

LEMMA FewerAUTHENTICATION2 ==
  ASSUME NEW c, LoopInv(c), ToAUTHENTICATION2(c.sm)
  PROVE  Fewer(EnterPtk(c, "AUTHENTICATION2"), c)
<1> DEFINE d == EnterPtk(c, "AUTHENTICATION2")
           m == c.sm
           n == d.sm
<1>1. /\ Kept(d, c, {"ptk_state", "requests", "ANonce", "TimeoutCtr"})
      /\ n.ptk_state = "AUTHENTICATION2" /\ n.requests = m.requests \ {"ReAuthentication"}
      /\ n.TimeoutCtr = 0 /\ n.ANonce \in Nat
  BY EnterAUTHENTICATION2 DEF LoopInv, Control, GroupOK
<1>2. /\ n.group_state = m.group_state /\ n.PtkGroupInit = m.PtkGroupInit
      /\ n.GTimeoutCtr = m.GTimeoutCtr /\ n.TimeoutEvt = m.TimeoutEvt
      /\ n.timers = m.timers /\ n.rekey_timer = m.rekey_timer /\ n.rx = m.rx
      /\ n.MICVerified = m.MICVerified
      /\ n.GUpdateStationKeys = m.GUpdateStationKeys
      /\ n.PTK_valid = m.PTK_valid /\ n.pairwise_set = m.pairwise_set
      /\ n.counter = m.counter /\ n.window = m.window /\ n.leaving = m.leaving
  BY <1>1, SmFields DEF Kept
<1> HIDE DEF d
<1>3. n.requests = {} /\ m.rx # "pairwise" /\ ~n.PTK_valid
  BY <1>1, <1>2, WpaAssumption DEF ToAUTHENTICATION2, LoopInv, Control, SmTypes, FrameExpected, PtkInvalid
<1>4. Control(n)
  <2>1. SmTypes(n)
    BY <1>1, <1>2, <1>3 DEF LoopInv, Control, SmTypes, SmStates
  <2>2. FrameExpected(n) /\ TimeoutHandled(n)
    BY <1>1, <1>2, <1>3 DEF ToAUTHENTICATION2, LoopInv, Control, SmTypes, FrameExpected, TimeoutHandled, Waiting
  <2>3. PtkInvalid(n) => ~n.PTK_valid
    BY <1>1, <1>2, <1>3 DEF LoopInv, Control, PtkInvalid
  <2> QED BY <1>1, <1>2, <1>3, <2>1, <2>2, <2>3 DEF LoopInv, Control
<1>5. Mid(n) /\ (Closing(m) => Closing(n)) /\ (OnWayOut(m) => OnWayOut(n))
  BY <1>1, <1>2, <1>3 DEF ToAUTHENTICATION2, Mid, Waiting, Closing, OnWayOut
<1>6. PtkRounds(n) = 2 /\ PtkRounds(m) = 3
  BY <1>1, <1>2, <1>3, WpaAssumption DEF PtkRounds, RequestRounds, StateRounds, ToAUTHENTICATION2
<1>7. GroupRounds(n) <= GroupRounds(m)
  BY <1>1, <1>2, <1>3, WpaAssumption DEF GroupRounds, Waiting, ToAUTHENTICATION2, LoopInv, Control, SmTypes, TimeoutHandled
<1> QED BY <1>4, <1>5, <1>6, <1>7 DEF Fewer, d

LEMMA FewerINITPSK ==
  ASSUME NEW c, LoopInv(c), ToINITPSK(c.sm)
  PROVE  Fewer(EnterPtk(c, "INITPSK"), c)
<1> DEFINE d == EnterPtk(c, "INITPSK")
           m == c.sm
           n == d.sm
<1>1. /\ Kept(d, c, {"ptk_state", "req_replay_counter"})
      /\ n.ptk_state = "INITPSK"
  BY EnterINITPSK DEF LoopInv, Control, GroupOK
<1>2. /\ n.group_state = m.group_state /\ n.requests = m.requests
      /\ n.PtkGroupInit = m.PtkGroupInit /\ n.TimeoutCtr = m.TimeoutCtr
      /\ n.GTimeoutCtr = m.GTimeoutCtr /\ n.TimeoutEvt = m.TimeoutEvt
      /\ n.timers = m.timers /\ n.rekey_timer = m.rekey_timer /\ n.rx = m.rx
      /\ n.MICVerified = m.MICVerified
      /\ n.GUpdateStationKeys = m.GUpdateStationKeys /\ n.ANonce = m.ANonce
      /\ n.PTK_valid = m.PTK_valid /\ n.pairwise_set = m.pairwise_set
      /\ n.counter = m.counter /\ n.window = m.window /\ n.leaving = m.leaving
  BY <1>1, SmFields DEF Kept
<1> HIDE DEF d
<1>3. n.requests = {} /\ m.rx # "pairwise" /\ ~n.PTK_valid /\ n.TimeoutCtr = 0
  BY <1>1, <1>2, WpaAssumption DEF ToINITPSK, LoopInv, Control, SmTypes, FrameExpected, PtkInvalid
<1>4. Control(n)
  <2>1. SmTypes(n)
    BY <1>1, <1>2, <1>3 DEF LoopInv, Control, SmTypes, SmStates
  <2>2. FrameExpected(n) /\ TimeoutHandled(n)
    BY <1>1, <1>2, <1>3 DEF ToINITPSK, LoopInv, Control, SmTypes, FrameExpected, TimeoutHandled, Waiting
  <2>3. PtkInvalid(n) => ~n.PTK_valid
    BY <1>1, <1>2, <1>3 DEF LoopInv, Control, PtkInvalid
  <2> QED BY <1>1, <1>2, <1>3, <2>1, <2>2, <2>3 DEF LoopInv, Control
<1>5. Mid(n) /\ (Closing(m) => Closing(n)) /\ (OnWayOut(m) => OnWayOut(n))
  BY <1>1, <1>2, <1>3 DEF ToINITPSK, Mid, Waiting, Closing, OnWayOut
<1>6. PtkRounds(n) = 1 /\ PtkRounds(m) = 2
  BY <1>1, <1>2, <1>3, WpaAssumption DEF PtkRounds, RequestRounds, StateRounds, ToINITPSK
<1>7. GroupRounds(n) <= GroupRounds(m)
  BY <1>1, <1>2, <1>3, WpaAssumption DEF GroupRounds, Waiting, ToINITPSK, LoopInv, Control, SmTypes, TimeoutHandled
<1> QED BY <1>4, <1>5, <1>6, <1>7 DEF Fewer, d

LEMMA FewerPTKSTART ==
  ASSUME NEW c, LoopInv(c), ToPTKSTART(c.sm)
  PROVE  Fewer(EnterPtk(c, "PTKSTART"), c)
<1> DEFINE d == EnterPtk(c, "PTKSTART")
           m == c.sm
           n == d.sm
<1>1. /\ Kept(d, c, {"ptk_state", "requests", "TimeoutEvt", "TimeoutCtr",
                     "counter", "window", "timers"})
      /\ n.ptk_state = "PTKSTART" /\ n.requests = m.requests \ {"PTK"}
      /\ n.TimeoutEvt = FALSE /\ n.TimeoutCtr = m.TimeoutCtr + 1
      /\ n.window \in 0..RSNA_MAX_EAPOL_RETRIES /\ n.counter \in Nat /\ n.timers \in Nat
  BY EnterPTKSTART DEF LoopInv, Control, GroupOK
<1>2. /\ n.group_state = m.group_state /\ n.PtkGroupInit = m.PtkGroupInit
      /\ n.GTimeoutCtr = m.GTimeoutCtr /\ n.rekey_timer = m.rekey_timer
      /\ n.rx = m.rx /\ n.MICVerified = m.MICVerified
      /\ n.GUpdateStationKeys = m.GUpdateStationKeys /\ n.ANonce = m.ANonce
      /\ n.PTK_valid = m.PTK_valid /\ n.pairwise_set = m.pairwise_set
      /\ n.leaving = m.leaving
  BY <1>1, SmFields DEF Kept
<1> HIDE DEF d
<1>3. n.requests = {} /\ m.rx # "pairwise" /\ ~n.PTK_valid
      /\ (m.ptk_state = "INITPSK" => n.TimeoutCtr <= UpdateCount)
      /\ m.TimeoutCtr \in Nat /\ n.TimeoutCtr \in Nat /\ UpdateCount \in Nat
  BY <1>1, <1>2, WpaAssumption DEF ToPTKSTART, LoopInv, Control, SmTypes, FrameExpected, PtkInvalid
<1>4. Control(n)
  <2>1. SmTypes(n)
    BY <1>1, <1>2, <1>3 DEF LoopInv, Control, SmTypes, SmStates
  <2>2. FrameExpected(n) /\ TimeoutHandled(n)
    BY <1>1, <1>2, <1>3 DEF ToPTKSTART, LoopInv, Control, SmTypes, FrameExpected, TimeoutHandled, Waiting
  <2>3. PtkInvalid(n) => ~n.PTK_valid
    BY <1>1, <1>2, <1>3 DEF LoopInv, Control, PtkInvalid
  <2> QED BY <1>1, <1>2, <1>3, <2>1, <2>2, <2>3 DEF LoopInv, Control
<1>5. Mid(n) /\ (Closing(m) => Closing(n)) /\ (OnWayOut(m) => OnWayOut(n))
  BY <1>1, <1>2, <1>3 DEF ToPTKSTART, Mid, Waiting, Closing, OnWayOut
<1>6. PtkRounds(n) < PtkRounds(m)
  BY <1>1, <1>2, <1>3, WpaAssumption DEF PtkRounds, RequestRounds, StateRounds, ToPTKSTART
<1>7. GroupRounds(n) <= GroupRounds(m)
  BY <1>1, <1>2, <1>3, WpaAssumption DEF GroupRounds, Waiting, ToPTKSTART, LoopInv, Control, SmTypes, TimeoutHandled
<1> QED BY <1>4, <1>5, <1>6, <1>7 DEF Fewer, d

LEMMA FewerPTKCALCNEGOTIATING2 ==
  ASSUME NEW c, LoopInv(c), ToPTKCALCNEGOTIATING2(c.sm)
  PROVE  Fewer(EnterPtk(c, "PTKCALCNEGOTIATING2"), c)
<1> DEFINE d == EnterPtk(c, "PTKCALCNEGOTIATING2")
           m == c.sm
           n == d.sm
<1>1. /\ Kept(d, c, {"ptk_state", "TimeoutCtr"})
      /\ n.ptk_state = "PTKCALCNEGOTIATING2" /\ n.TimeoutCtr = 0
  BY EnterPTKCALCNEGOTIATING2 DEF LoopInv, Control, GroupOK
<1>2. /\ n.group_state = m.group_state /\ n.requests = m.requests
      /\ n.PtkGroupInit = m.PtkGroupInit /\ n.GTimeoutCtr = m.GTimeoutCtr
      /\ n.TimeoutEvt = m.TimeoutEvt /\ n.timers = m.timers
      /\ n.rekey_timer = m.rekey_timer /\ n.rx = m.rx
      /\ n.MICVerified = m.MICVerified
      /\ n.GUpdateStationKeys = m.GUpdateStationKeys /\ n.ANonce = m.ANonce
      /\ n.PTK_valid = m.PTK_valid /\ n.pairwise_set = m.pairwise_set
      /\ n.counter = m.counter /\ n.window = m.window /\ n.leaving = m.leaving
  BY <1>1, SmFields DEF Kept
<1> HIDE DEF d
<1>3. n.requests = {} /\ m.rx # "pairwise"
  BY <1>1, <1>2, WpaAssumption DEF ToPTKCALCNEGOTIATING2, LoopInv, Control, SmTypes, FrameExpected, PtkInvalid
<1>4. Control(n)
  <2>1. SmTypes(n)
    BY <1>1, <1>2, <1>3 DEF LoopInv, Control, SmTypes, SmStates
  <2>2. FrameExpected(n) /\ TimeoutHandled(n)
    BY <1>1, <1>2, <1>3 DEF ToPTKCALCNEGOTIATING2, LoopInv, Control, SmTypes, FrameExpected, TimeoutHandled, Waiting
  <2>3. PtkInvalid(n) => ~n.PTK_valid
    BY <1>1, <1>2, <1>3 DEF LoopInv, Control, PtkInvalid
  <2> QED BY <1>1, <1>2, <1>3, <2>1, <2>2, <2>3 DEF LoopInv, Control
<1>5. Mid(n) /\ (Closing(m) => Closing(n)) /\ (OnWayOut(m) => OnWayOut(n))
  BY <1>1, <1>2, <1>3 DEF ToPTKCALCNEGOTIATING2, Mid, Waiting, Closing, OnWayOut
<1>6. PtkRounds(n) = 1 /\ PtkRounds(m) = 2
  BY <1>1, <1>2, <1>3, WpaAssumption DEF PtkRounds, RequestRounds, StateRounds, ToPTKCALCNEGOTIATING2
<1>7. GroupRounds(n) <= GroupRounds(m)
  BY <1>1, <1>2, <1>3, WpaAssumption DEF GroupRounds, Waiting, ToPTKCALCNEGOTIATING2, LoopInv, Control, SmTypes, TimeoutHandled
<1> QED BY <1>4, <1>5, <1>6, <1>7 DEF Fewer, d

LEMMA FewerPTKINITNEGOTIATING ==
  ASSUME NEW c, LoopInv(c), ToPTKINITNEGOTIATING(c.sm)
  PROVE  Fewer(EnterPtk(c, "PTKINITNEGOTIATING"), c)
<1> DEFINE d == EnterPtk(c, "PTKINITNEGOTIATING")
           m == c.sm
           n == d.sm
<1>1. /\ Kept(d, c, {"ptk_state", "TimeoutEvt", "TimeoutCtr", "counter",
                     "window", "timers"})
      /\ n.ptk_state = "PTKINITNEGOTIATING"
      /\ n.TimeoutEvt = FALSE /\ n.TimeoutCtr = m.TimeoutCtr + 1
      /\ n.window \in 0..RSNA_MAX_EAPOL_RETRIES /\ n.counter \in Nat /\ n.timers \in Nat
  BY EnterPTKINITNEGOTIATING DEF LoopInv, Control, GroupOK
<1>2. /\ n.group_state = m.group_state /\ n.requests = m.requests
      /\ n.PtkGroupInit = m.PtkGroupInit /\ n.GTimeoutCtr = m.GTimeoutCtr
      /\ n.rekey_timer = m.rekey_timer /\ n.rx = m.rx
      /\ n.MICVerified = m.MICVerified
      /\ n.GUpdateStationKeys = m.GUpdateStationKeys /\ n.ANonce = m.ANonce
      /\ n.PTK_valid = m.PTK_valid /\ n.pairwise_set = m.pairwise_set
      /\ n.leaving = m.leaving
  BY <1>1, SmFields DEF Kept
<1> HIDE DEF d
<1>3. n.requests = {} /\ m.rx # "pairwise"
      /\ (m.ptk_state = "PTKCALCNEGOTIATING2" => n.TimeoutCtr <= UpdateCount)
      /\ m.TimeoutCtr \in Nat /\ n.TimeoutCtr \in Nat /\ UpdateCount \in Nat
  BY <1>1, <1>2, WpaAssumption DEF ToPTKINITNEGOTIATING, LoopInv, Control, SmTypes, FrameExpected, PtkInvalid
<1>4. Control(n)
  <2>1. SmTypes(n)
    BY <1>1, <1>2, <1>3 DEF LoopInv, Control, SmTypes, SmStates
  <2>2. FrameExpected(n) /\ TimeoutHandled(n)
    BY <1>1, <1>2, <1>3 DEF ToPTKINITNEGOTIATING, LoopInv, Control, SmTypes, FrameExpected, TimeoutHandled, Waiting
  <2>3. PtkInvalid(n) => ~n.PTK_valid
    BY <1>1, <1>2, <1>3 DEF LoopInv, Control, PtkInvalid
  <2> QED BY <1>1, <1>2, <1>3, <2>1, <2>2, <2>3 DEF LoopInv, Control
<1>5. Mid(n) /\ (Closing(m) => Closing(n)) /\ (OnWayOut(m) => OnWayOut(n))
  BY <1>1, <1>2, <1>3 DEF ToPTKINITNEGOTIATING, Mid, Waiting, Closing, OnWayOut
<1>6. PtkRounds(n) < PtkRounds(m)
  BY <1>1, <1>2, <1>3, WpaAssumption DEF PtkRounds, RequestRounds, StateRounds, ToPTKINITNEGOTIATING
<1>7. GroupRounds(n) <= GroupRounds(m)
  BY <1>1, <1>2, <1>3, WpaAssumption DEF GroupRounds, Waiting, ToPTKINITNEGOTIATING, LoopInv, Control, SmTypes, TimeoutHandled
<1> QED BY <1>4, <1>5, <1>6, <1>7 DEF Fewer, d

LEMMA FewerPTKCALCNEGOTIATING ==
  ASSUME NEW c, LoopInv(c), ToPTKCALCNEGOTIATING(c.sm)
  PROVE  Fewer(EnterPtk(c, "PTKCALCNEGOTIATING"), c)
<1> DEFINE d == EnterPtk(c, "PTKCALCNEGOTIATING")
           m == c.sm
           n == d.sm
           ptk == Ptk("psk", m.ANonce, m.SNonce)
<1>1. n.ptk_state = "PTKCALCNEGOTIATING" /\ n.rx = "none"
  BY EnterPTKCALCNEGOTIATING DEF LoopInv
<1>2. PtkRounds(m) = 3 /\ ~m.TimeoutEvt /\ m.requests = {}
  BY DEF ToPTKCALCNEGOTIATING, LoopInv, Control, FrameExpected, PtkRounds, StateRounds
<1>3. CASE m.last_mic # ptk
  <2>1. Kept(d, c, {"ptk_state", "rx"})
    BY <1>3, EnterPTKCALCNEGOTIATING DEF LoopInv
  <2>2. /\ n.group_state = m.group_state /\ n.requests = m.requests
        /\ n.PtkGroupInit = m.PtkGroupInit /\ n.TimeoutCtr = m.TimeoutCtr
        /\ n.GTimeoutCtr = m.GTimeoutCtr /\ n.TimeoutEvt = m.TimeoutEvt
        /\ n.timers = m.timers /\ n.rekey_timer = m.rekey_timer
        /\ n.MICVerified = m.MICVerified
        /\ n.GUpdateStationKeys = m.GUpdateStationKeys /\ n.ANonce = m.ANonce
        /\ n.PTK_valid = m.PTK_valid /\ n.pairwise_set = m.pairwise_set
        /\ n.counter = m.counter /\ n.window = m.window /\ n.leaving = m.leaving
    BY <2>1, SmFields DEF Kept
  <2> HIDE DEF d
  <2>3. ~n.PTK_valid /\ ~n.MICVerified
    BY <2>2 DEF ToPTKCALCNEGOTIATING, LoopInv, Control, PtkInvalid
  <2>4. Control(n)
    <3>1. SmTypes(n)
      BY <1>1, <2>2 DEF LoopInv, Control, SmTypes, SmStates
    <3>2. FrameExpected(n) /\ TimeoutHandled(n)
      BY <1>1, <1>2, <2>2 DEF FrameExpected, TimeoutHandled
    <3> QED BY <1>1, <2>2, <2>3, <3>1, <3>2 DEF LoopInv, Control
  <2>5. Mid(n) /\ (Closing(m) => Closing(n)) /\ (OnWayOut(m) => OnWayOut(n))
    BY <1>1, <1>2, <2>2 DEF ToPTKCALCNEGOTIATING, Mid, Waiting, Closing, OnWayOut
  <2>6. PtkRounds(n) = 0
    BY <1>1, <1>2, <2>2, <2>3 DEF PtkRounds, StateRounds
  <2>7. GroupRounds(n) <= GroupRounds(m)
    BY <1>1, <1>2, <2>2 DEF ToPTKCALCNEGOTIATING, GroupRounds, Waiting
  <2> QED BY <1>2, <2>4, <2>5, <2>6, <2>7 DEF Fewer, d
<1>4. CASE m.last_mic = ptk
  <2>1. /\ Kept(d, c, {"ptk_state", "rx", "timers", "MICVerified", "PTK", "PTK_valid"})
        /\ n.timers = 0 /\ n.MICVerified = TRUE /\ n.PTK_valid = TRUE
    BY <1>4, EnterPTKCALCNEGOTIATING DEF LoopInv
  <2>2. /\ n.group_state = m.group_state /\ n.requests = m.requests
        /\ n.PtkGroupInit = m.PtkGroupInit /\ n.TimeoutCtr = m.TimeoutCtr
        /\ n.GTimeoutCtr = m.GTimeoutCtr /\ n.TimeoutEvt = m.TimeoutEvt
        /\ n.rekey_timer = m.rekey_timer
        /\ n.GUpdateStationKeys = m.GUpdateStationKeys /\ n.ANonce = m.ANonce
        /\ n.pairwise_set = m.pairwise_set /\ n.counter = m.counter
        /\ n.window = m.window /\ n.leaving = m.leaving
    BY <2>1, SmFields DEF Kept
  <2> HIDE DEF d
  <2>4. Control(n)
    <3>0. n.timers \in Nat
      BY <2>1
    <3>1. SmTypes(n)
      BY <1>1, <2>1, <2>2, <3>0 DEF LoopInv, Control, SmTypes, SmStates
    <3>2. FrameExpected(n) /\ TimeoutHandled(n)
      BY <1>1, <1>2, <2>1, <2>2 DEF FrameExpected, TimeoutHandled
    <3>3. ~PtkInvalid(n)
      BY <1>1, <1>2, <2>1, <2>2 DEF PtkInvalid
    <3> QED BY <1>1, <2>2, <3>1, <3>2, <3>3 DEF LoopInv, Control
  <2>5. Mid(n) /\ (Closing(m) => Closing(n)) /\ (OnWayOut(m) => OnWayOut(n))
    BY <1>1, <1>2, <2>2 DEF ToPTKCALCNEGOTIATING, Mid, Waiting, Closing, OnWayOut
  <2>6. PtkRounds(n) = 2
    BY <1>1, <1>2, <2>1, <2>2 DEF PtkRounds, StateRounds
  <2>7. GroupRounds(n) <= GroupRounds(m)
    BY <1>1, <1>2, <2>2 DEF ToPTKCALCNEGOTIATING, GroupRounds, Waiting
  <2> QED BY <1>2, <2>4, <2>5, <2>6, <2>7 DEF Fewer, d
<1> QED BY <1>3, <1>4

LEMMA FewerPTKINITDONE ==
  ASSUME NEW c, LoopInv(c), ToPTKINITDONE(c.sm), c.driver_ok \in BOOLEAN
  PROVE  Fewer(EnterPtk(c, "PTKINITDONE"), c)
<1> DEFINE d == EnterPtk(c, "PTKINITDONE")
           m == c.sm
           n == d.sm
           fields == {"ptk_state", "rx", "key", "pairwise_set", "rekey_timer", "authorized",
                      "has_GTK", "leaving", "assoc"}
<1>1. /\ n.ptk_state = "PTKINITDONE" /\ n.rx = "none"
      /\ c.driver_ok => Kept(d, c, fields \ {"leaving", "assoc"})
                        /\ n.pairwise_set = TRUE /\ n.rekey_timer = TRUE
      /\ ~c.driver_ok => Kept(d, c, {"ptk_state", "rx", "leaving", "assoc", "authorized"})
                         /\ n.leaving = TRUE
  BY EnterPTKINITDONE DEF LoopInv
<1> HIDE DEF d
<1>2. /\ n.group_state = m.group_state /\ n.requests = m.requests
        /\ n.PtkGroupInit = m.PtkGroupInit /\ n.TimeoutCtr = m.TimeoutCtr
        /\ n.GTimeoutCtr = m.GTimeoutCtr /\ n.TimeoutEvt = m.TimeoutEvt
        /\ n.timers = m.timers /\ n.MICVerified = m.MICVerified
        /\ n.GUpdateStationKeys = m.GUpdateStationKeys /\ n.ANonce = m.ANonce
        /\ n.PTK_valid = m.PTK_valid /\ n.counter = m.counter
        /\ n.window = m.window
  <2>1. Kept(d, c, fields)
    BY <1>1 DEF Kept
  <2> QED BY <2>1, SmFields DEF Kept
<1>3. /\ n.pairwise_set \in BOOLEAN /\ n.rekey_timer \in BOOLEAN /\ n.leaving \in BOOLEAN
      /\ c.driver_ok => n.leaving = m.leaving
  <2>1. CASE c.driver_ok
    <3>1. n.leaving = m.leaving
      BY <1>1, <2>1, SmFields DEF Kept
    <3> QED BY <1>1, <2>1, <3>1 DEF LoopInv, Control, SmTypes
  <2>2. CASE ~c.driver_ok
    <3>1. n.pairwise_set = m.pairwise_set /\ n.rekey_timer = m.rekey_timer
      BY <1>1, <2>2, SmFields DEF Kept
    <3> QED BY <1>1, <2>2, <3>1 DEF LoopInv, Control, SmTypes
  <2> QED BY <2>1, <2>2
<1>4. ~m.TimeoutEvt /\ m.requests = {} /\ PtkRounds(m) = 1
  BY DEF ToPTKINITDONE, LoopInv, Control, FrameExpected, PtkRounds, StateRounds
<1>5. Control(n)
  <2>1. SmTypes(n)
    BY <1>1, <1>2, <1>3 DEF LoopInv, Control, SmTypes, SmStates
  <2>2. FrameExpected(n) /\ TimeoutHandled(n) /\ ~PtkInvalid(n)
    BY <1>1, <1>2, <1>4 DEF FrameExpected, TimeoutHandled, PtkInvalid
  <2> QED BY <1>1, <1>2, <2>1, <2>2 DEF LoopInv, Control
<1>6. Mid(n) /\ (Closing(m) => Closing(n)) /\ (OnWayOut(m) /\ c.driver_ok => OnWayOut(n))
  BY <1>1, <1>2, <1>3, <1>4 DEF ToPTKINITDONE, Mid, Closing, OnWayOut
<1>7. PtkRounds(n) = 0
  BY <1>1, <1>2, <1>4 DEF PtkRounds, StateRounds
<1>8. GroupRounds(n) <= GroupRounds(m)
  BY <1>1, <1>2, <1>4 DEF ToPTKINITDONE, GroupRounds, Waiting
<1> QED BY <1>4, <1>5, <1>6, <1>7, <1>8 DEF Fewer, d

\* What a round may do to the group and to the marks.
GroupPart(d, c) ==
  /\ Shaped(d) /\ d.driver_ok = c.driver_ok /\ d.sm.exists = c.sm.exists
  /\ GroupOK(d.group)
  /\ GroupKept(d, c, {"Counter", "GKeyDoneStations", "state", "key"})
  /\ c.group.Counter <= d.group.Counter
  /\ Others(d) = Others(c) /\ Mark(d.sm) <= d.group.GKeyDoneStations

LEMMA GroupPartSame ==
  ASSUME NEW c, NEW d, LoopInv(c), Shaped(d), d.driver_ok = c.driver_ok,
         d.group = c.group, d.sm.exists = c.sm.exists,
         d.sm.GUpdateStationKeys = c.sm.GUpdateStationKeys
  PROVE  GroupPart(d, c)
<1>1. Mark(d.sm) = Mark(c.sm)
  BY DEF Mark
<1>2. c.group.Counter <= d.group.Counter
  BY DEF LoopInv, GroupOK
<1> QED BY <1>1, <1>2 DEF GroupPart, LoopInv, GroupKept, Others

LEMMA GroupPartUnmarked ==
  ASSUME NEW c, NEW d, LoopInv(c), Shaped(d), d.driver_ok = c.driver_ok,
         d.sm.exists = c.sm.exists,
         GroupKept(d, c, {"GKeyDoneStations"}), d.sm.GUpdateStationKeys = FALSE,
         d.group.GKeyDoneStations = c.group.GKeyDoneStations - Mark(c.sm)
  PROVE  GroupPart(d, c)
<1>1. Mark(d.sm) = 0 /\ Mark(c.sm) \in Nat
  BY DEF Mark
<1>2. /\ d.group.state = c.group.state /\ d.group.GN = c.group.GN /\ d.group.GM = c.group.GM
      /\ d.group.Counter = c.group.Counter
  BY GroupFields DEF GroupKept
<1>3. GroupKept(d, c, {"Counter", "GKeyDoneStations", "state", "key"})
  BY DEF GroupKept
<1>4. GroupOK(d.group) /\ c.group.Counter <= d.group.Counter
  BY <1>1, <1>2 DEF LoopInv, GroupOK
<1>5. Others(d) = Others(c) /\ Mark(d.sm) <= d.group.GKeyDoneStations
  BY <1>1 DEF LoopInv, GroupOK, Others
<1> QED BY <1>3, <1>4, <1>5 DEF GroupPart

LEMMA GroupPartTwice ==
  ASSUME NEW a, NEW b, NEW c, GroupPart(b, a), GroupPart(c, b), GroupOK(a.group)
  PROVE  GroupPart(c, a)
<1>1. a.group.Counter <= c.group.Counter
  BY DEF GroupPart, GroupOK
<1>2. GroupKept(c, a, {"Counter", "GKeyDoneStations", "state", "key"})
  BY DEF GroupPart, GroupKept
<1> QED BY <1>1, <1>2 DEF GroupPart

LEMMA PtkHalf ==
  ASSUME NEW c, LoopInv(c), c.driver_ok \in BOOLEAN
  PROVE  LET d == PtkStep(c) IN
         /\ GroupPart(d, c)
         /\ Fewer(d, c) \/ (d = c /\ Stays(c.sm))
<1> DEFINE d == PtkStep(c)
           st == PtkNext(c.sm)
<1>1. PtkGoes(c.sm, st) /\ d = EnterPtk(c, st) /\ Shaped(c) /\ SmTypes(c.sm)
      /\ c.group.GKeyDoneStations \in Nat
  BY PtkNextIs DEF LoopInv, PtkStep, Control, GroupOK
<1> HIDE DEF d, st
<1>2. CASE st = "none" /\ Stays(c.sm)
  <2>1. d = c
    BY <1>1, <1>2 DEF EnterPtk
  <2> QED BY <2>1, <1>1, <1>2, GroupPartSame DEF d
<1>3. CASE st = "DISCONNECT" /\ ToDISCONNECT(c.sm)
  <2>1. d = EnterPtk(c, "DISCONNECT")
    BY <1>1, <1>3
  <2>2. /\ Shaped(d) /\ d.driver_ok = c.driver_ok /\ d.group = c.group
        /\ Kept(d, c, {"ptk_state", "requests", "leaving", "assoc",
                       "authorized"})
    BY <1>1, <2>1, EnterDISCONNECT
  <2>3. /\ d.sm.GUpdateStationKeys = c.sm.GUpdateStationKeys
        /\ d.sm.exists = c.sm.exists
    BY <2>2, SmFields DEF Kept
  <2> QED BY <2>1, <2>2, <2>3, <1>3, GroupPartSame, FewerDISCONNECT DEF d
<1>4. CASE st = "DISCONNECTED" /\ ToDISCONNECTED(c.sm)
  <2>1. d = EnterPtk(c, "DISCONNECTED")
    BY <1>1, <1>4
  <2>2. /\ Shaped(d) /\ d.driver_ok = c.driver_ok /\ d.group = c.group
        /\ Kept(d, c, {"ptk_state", "requests"})
    BY <1>1, <2>1, EnterDISCONNECTED
  <2>3. /\ d.sm.GUpdateStationKeys = c.sm.GUpdateStationKeys
        /\ d.sm.exists = c.sm.exists
    BY <2>2, SmFields DEF Kept
  <2> QED BY <2>1, <2>2, <2>3, <1>4, GroupPartSame, FewerDISCONNECTED DEF d
<1>5. CASE st = "INITIALIZE" /\ ToINITIALIZE(c.sm)
  <2>1. d = EnterPtk(c, "INITIALIZE")
    BY <1>1, <1>5
  <2>2. /\ Shaped(d) /\ d.driver_ok = c.driver_ok /\ GroupKept(d, c, {"GKeyDoneStations"})
        /\ d.sm.GUpdateStationKeys = FALSE
        /\ d.group.GKeyDoneStations = c.group.GKeyDoneStations - Mark(c.sm)
        /\ Kept(d, c, {"ptk_state", "GUpdateStationKeys", "PTK_valid", "PTK", "key",
                       "pairwise_set", "rekey_timer", "TimeoutCtr", "authorized"})
    BY <1>1, <2>1, EnterINITIALIZE
  <2>3. d.sm.exists = c.sm.exists
    BY <2>2, SmFields DEF Kept
  <2> QED BY <2>1, <2>2, <2>3, <1>5, GroupPartUnmarked, FewerINITIALIZE DEF d
<1>6. CASE st = "AUTHENTICATION" /\ ToAUTHENTICATION(c.sm)
  <2>1. d = EnterPtk(c, "AUTHENTICATION")
    BY <1>1, <1>6
  <2>2. /\ Shaped(d) /\ d.driver_ok = c.driver_ok /\ d.group = c.group
        /\ Kept(d, c, {"ptk_state", "requests", "PTK", "PTK_valid"})
    BY <1>1, <2>1, EnterAUTHENTICATION
  <2>3. /\ d.sm.GUpdateStationKeys = c.sm.GUpdateStationKeys
        /\ d.sm.exists = c.sm.exists
    BY <2>2, SmFields DEF Kept
  <2> QED BY <2>1, <2>2, <2>3, <1>6, GroupPartSame, FewerAUTHENTICATION DEF d
<1>7. CASE st = "AUTHENTICATION2" /\ ToAUTHENTICATION2(c.sm)
  <2>1. d = EnterPtk(c, "AUTHENTICATION2")
    BY <1>1, <1>7
  <2>2. /\ Shaped(d) /\ d.driver_ok = c.driver_ok /\ GroupKept(d, c, {"Counter"})
        /\ Kept(d, c, {"ptk_state", "requests", "ANonce", "TimeoutCtr"})
        /\ d.group.Counter = c.group.Counter + 1
    BY <1>1, <2>1, EnterAUTHENTICATION2
  <2>0. /\ d.sm.GUpdateStationKeys = c.sm.GUpdateStationKeys
        /\ d.sm.exists = c.sm.exists
    BY <2>2, SmFields DEF Kept
  <2>3. /\ d.group.state = c.group.state /\ d.group.GN = c.group.GN
        /\ d.group.GM = c.group.GM /\ d.group.GKeyDoneStations = c.group.GKeyDoneStations
    BY <2>2, GroupFields DEF GroupKept
  <2>4. GroupKept(d, c, {"Counter", "GKeyDoneStations", "state", "key"})
    BY <2>2 DEF GroupKept
  <2>5. GroupOK(d.group) /\ c.group.Counter <= d.group.Counter
    BY <2>2, <2>3 DEF LoopInv, GroupOK
  <2>6. Others(d) = Others(c) /\ Mark(d.sm) <= d.group.GKeyDoneStations
    BY <2>0, <2>2, <2>3 DEF LoopInv, Others, Mark
  <2>7. GroupPart(d, c)
    BY <2>0, <2>2, <2>4, <2>5, <2>6 DEF GroupPart
  <2> QED BY <2>1, <2>7, <1>7, FewerAUTHENTICATION2 DEF d
<1>8. CASE st = "INITPSK" /\ ToINITPSK(c.sm)
  <2>1. d = EnterPtk(c, "INITPSK")
    BY <1>1, <1>8
  <2>2. /\ Shaped(d) /\ d.driver_ok = c.driver_ok /\ d.group = c.group
        /\ Kept(d, c, {"ptk_state", "req_replay_counter"})
    BY <1>1, <2>1, EnterINITPSK
  <2>3. /\ d.sm.GUpdateStationKeys = c.sm.GUpdateStationKeys
        /\ d.sm.exists = c.sm.exists
    BY <2>2, SmFields DEF Kept
  <2> QED BY <2>1, <2>2, <2>3, <1>8, GroupPartSame, FewerINITPSK DEF d
<1>9. CASE st = "PTKSTART" /\ ToPTKSTART(c.sm)
  <2>1. d = EnterPtk(c, "PTKSTART")
    BY <1>1, <1>9
  <2>2. /\ Shaped(d) /\ d.driver_ok = c.driver_ok /\ d.group = c.group
        /\ Kept(d, c, {"ptk_state", "requests", "TimeoutEvt", "TimeoutCtr",
                       "counter", "window", "timers"})
    BY <1>1, <2>1, EnterPTKSTART
  <2>3. /\ d.sm.GUpdateStationKeys = c.sm.GUpdateStationKeys
        /\ d.sm.exists = c.sm.exists
    BY <2>2, SmFields DEF Kept
  <2> QED BY <2>1, <2>2, <2>3, <1>9, GroupPartSame, FewerPTKSTART DEF d
<1>10. CASE st = "PTKCALCNEGOTIATING" /\ ToPTKCALCNEGOTIATING(c.sm)
  <2>1. d = EnterPtk(c, "PTKCALCNEGOTIATING")
    BY <1>1, <1>10
  <2>2. /\ Shaped(d) /\ d.driver_ok = c.driver_ok /\ d.group = c.group
        /\ \/ Kept(d, c, {"ptk_state", "rx"})
           \/ Kept(d, c, {"ptk_state", "rx", "timers", "MICVerified", "PTK", "PTK_valid"})
    BY <1>1, <2>1, EnterPTKCALCNEGOTIATING
  <2>3. /\ d.sm.GUpdateStationKeys = c.sm.GUpdateStationKeys
        /\ d.sm.exists = c.sm.exists
    BY <2>2, SmFields DEF Kept
  <2> QED BY <2>1, <2>2, <2>3, <1>10, GroupPartSame, FewerPTKCALCNEGOTIATING DEF d
<1>11. CASE st = "PTKCALCNEGOTIATING2" /\ ToPTKCALCNEGOTIATING2(c.sm)
  <2>1. d = EnterPtk(c, "PTKCALCNEGOTIATING2")
    BY <1>1, <1>11
  <2>2. /\ Shaped(d) /\ d.driver_ok = c.driver_ok /\ d.group = c.group
        /\ Kept(d, c, {"ptk_state", "TimeoutCtr"})
    BY <1>1, <2>1, EnterPTKCALCNEGOTIATING2
  <2>3. /\ d.sm.GUpdateStationKeys = c.sm.GUpdateStationKeys
        /\ d.sm.exists = c.sm.exists
    BY <2>2, SmFields DEF Kept
  <2> QED BY <2>1, <2>2, <2>3, <1>11, GroupPartSame, FewerPTKCALCNEGOTIATING2 DEF d
<1>12. CASE st = "PTKINITNEGOTIATING" /\ ToPTKINITNEGOTIATING(c.sm)
  <2>1. d = EnterPtk(c, "PTKINITNEGOTIATING")
    BY <1>1, <1>12
  <2>2. /\ Shaped(d) /\ d.driver_ok = c.driver_ok /\ d.group = c.group
        /\ Kept(d, c, {"ptk_state", "TimeoutEvt", "TimeoutCtr", "counter",
                       "window", "timers"})
    BY <1>1, <2>1, EnterPTKINITNEGOTIATING
  <2>3. /\ d.sm.GUpdateStationKeys = c.sm.GUpdateStationKeys
        /\ d.sm.exists = c.sm.exists
    BY <2>2, SmFields DEF Kept
  <2> QED BY <2>1, <2>2, <2>3, <1>12, GroupPartSame, FewerPTKINITNEGOTIATING DEF d
<1>13. CASE st = "PTKINITDONE" /\ ToPTKINITDONE(c.sm)
  <2>1. d = EnterPtk(c, "PTKINITDONE")
    BY <1>1, <1>13
  <2>2. /\ Shaped(d) /\ d.driver_ok = c.driver_ok /\ d.group = c.group
        /\ \/ Kept(d, c, {"ptk_state", "rx", "key", "pairwise_set", "rekey_timer",
                          "authorized", "has_GTK"})
           \/ Kept(d, c, {"ptk_state", "rx", "leaving", "assoc", "authorized"})
    BY <1>1, <2>1, EnterPTKINITDONE
  <2>3. /\ d.sm.GUpdateStationKeys = c.sm.GUpdateStationKeys
        /\ d.sm.exists = c.sm.exists
    BY <2>2, SmFields DEF Kept
  <2> QED BY <2>1, <2>2, <2>3, <1>13, GroupPartSame, FewerPTKINITDONE DEF d
<1> QED
  BY <1>1, <1>2, <1>3, <1>4, <1>5, <1>6, <1>7, <1>8, <1>9, <1>10, <1>11, <1>12, <1>13
  DEF PtkGoes

LEMMA RoundsTypes ==
  ASSUME NEW m, Control(m)
  PROVE  /\ PtkRounds(m) \in 0..4 /\ GroupRounds(m) \in 0..6
         /\ Stays(m) => (PtkRounds(m) = 0 /\ Mid(m))
<1>1. m.ptk_state \in SmStates /\ m.TimeoutCtr \in Nat /\ UpdateCount \in Nat
  BY WpaAssumption DEF Control, SmTypes
<1>2. PtkRounds(m) \in 0..4
  BY <1>1 DEF PtkRounds, RequestRounds, StateRounds, SmStates
<1>3. GroupRounds(m) \in 0..6
  BY DEF GroupRounds
<1>4. Stays(m) => (PtkRounds(m) = 0 /\ Mid(m))
  BY <1>1 DEF Stays, Waiting, PtkRounds, StateRounds, Mid
<1> QED BY <1>2, <1>3, <1>4

\* At rest, there are no rounds to go; and the other way round.
LEMMA RestIsZero ==
  ASSUME NEW m, Control(m)
  PROVE  Resting(m) <=> Rounds(m) = 0
<1>1. /\ m.ptk_state \in SmStates /\ m.TimeoutCtr \in Nat /\ UpdateCount \in Nat
      /\ m.TimeoutEvt \in BOOLEAN /\ m.PtkGroupInit \in BOOLEAN
      /\ m.GUpdateStationKeys \in BOOLEAN /\ m.GTimeoutCtr \in Nat
  BY WpaAssumption DEF Control, SmTypes
<1>2. PtkRounds(m) \in Nat /\ GroupRounds(m) \in Nat
  BY RoundsTypes
<1>3. PtkRounds(m) = 0 <=> Stays(m)
  <2>1. Stays(m) => PtkRounds(m) = 0
    BY RoundsTypes
  <2>2. PtkRounds(m) = 0 => Stays(m)
    BY <1>1 DEF Stays, Waiting, PtkRounds, RequestRounds, StateRounds, Control, SmTypes,
       SmStates, FrameExpected
  <2> QED BY <2>1, <2>2
<1>4. Stays(m) => (GroupRounds(m) = 0 <=> GroupStays(m))
  BY <1>1 DEF Stays, GroupStays, GroupRounds, Control, SmTypes, GroupStates
<1>5. PtkNext(m) = "none" /\ m.requests = {} <=> Stays(m)
  <2>1. PtkNext(m) = "none" => Stays(m)
    BY PtkNextIs DEF PtkGoes
  <2>2. Stays(m) => (PtkNext(m) = "none" /\ m.requests = {})
    BY <1>1 DEF Stays, Waiting, PtkNext, Followed, PairwiseReceived
  <2> QED BY <2>1, <2>2
<1>6. GroupNext(m) = "none" <=> GroupStays(m)
  <2>1. GroupNext(m) = "none" => GroupStays(m)
    BY GroupNextIs DEF GroupGoes
  <2>2. GroupStays(m) => GroupNext(m) = "none"
    BY <1>1 DEF GroupStays, GroupNext
  <2> QED BY <2>1, <2>2
<1> QED BY <1>2, <1>3, <1>4, <1>5, <1>6 DEF Resting, Rounds

-----------------------------------------------------------------------------
(***************************************************************************)
(* The second half of a round: SM_STEP(WPA_PTK_GROUP).                     *)
(***************************************************************************)
Less(d, c) ==
  /\ Control(d.sm) /\ Rounds(d.sm) < Rounds(c.sm)
  /\ Closing(c.sm) => Closing(d.sm)
  /\ OnWayOut(c.sm) => OnWayOut(d.sm)

LEMMA LessIDLE ==
  ASSUME NEW c, LoopInv(c), Mid(c.sm), ToIDLE(c.sm)
  PROVE  Less(EnterGroup(c, "IDLE"), c)
<1> DEFINE d == EnterGroup(c, "IDLE")
           m == c.sm
           n == d.sm
<1>1. /\ Kept(d, c, {"group_state", "GTimeoutCtr", "PtkGroupInit"})
      /\ n.group_state = "IDLE" /\ n.GTimeoutCtr = 0 /\ n.PtkGroupInit = FALSE
  BY EnterIDLE DEF LoopInv, Control, GroupOK
<1>2. /\ n.ptk_state = m.ptk_state /\ n.requests = m.requests
      /\ n.TimeoutCtr = m.TimeoutCtr /\ n.TimeoutEvt = m.TimeoutEvt
      /\ n.timers = m.timers /\ n.rekey_timer = m.rekey_timer /\ n.rx = m.rx
      /\ n.MICVerified = m.MICVerified
      /\ n.GUpdateStationKeys = m.GUpdateStationKeys /\ n.ANonce = m.ANonce
      /\ n.PTK_valid = m.PTK_valid /\ n.pairwise_set = m.pairwise_set
      /\ n.counter = m.counter /\ n.window = m.window /\ n.leaving = m.leaving
  BY <1>1, SmFields DEF Kept
<1> HIDE DEF d
<1>3. n.requests = {} /\ n.rx # "group" /\ ~n.GUpdateStationKeys /\ n.GTimeoutCtr \in Nat
  BY <1>1, <1>2, WpaAssumption DEF ToIDLE, Mid, LoopInv, Control, SmTypes, FrameExpected
<1>4. Control(n)
  <2>1. SmTypes(n)
    BY <1>1, <1>2, <1>3 DEF LoopInv, Control, SmTypes, GroupStates, RequestNames
  <2>2. FrameExpected(n) /\ TimeoutHandled(n)
    BY <1>1, <1>2, <1>3 DEF Mid, FrameExpected, TimeoutHandled, LoopInv, Control
  <2>3. PtkInvalid(n) => ~n.PTK_valid
    BY <1>1, <1>2, <1>3 DEF LoopInv, Control, PtkInvalid
  <2> QED BY <1>1, <1>2, <1>3, <2>1, <2>2, <2>3 DEF LoopInv, Control
<1>5. (Closing(m) => Closing(n)) /\ (OnWayOut(m) => OnWayOut(n))
  BY <1>1, <1>2, <1>3 DEF Closing, OnWayOut, Mid
<1>6. GroupRounds(n) = 0 /\ GroupRounds(m) = 1
  BY <1>1, <1>2, <1>3 DEF GroupRounds, ToIDLE, Mid
<1>7. PtkRounds(n) = PtkRounds(m)
  BY <1>1, <1>2, <1>3 DEF PtkRounds, RequestRounds, StateRounds, Mid, Waiting
<1>8. /\ PtkRounds(m) \in Nat /\ PtkRounds(n) \in Nat
      /\ GroupRounds(m) \in Nat /\ GroupRounds(n) \in Nat
  BY <1>4, RoundsTypes DEF LoopInv
<1> QED BY <1>4, <1>5, <1>6, <1>7, <1>8 DEF Less, Rounds, d

LEMMA LessREKEYNEGOTIATING ==
  ASSUME NEW c, LoopInv(c), Mid(c.sm), ToREKEYNEGOTIATING(c.sm)
  PROVE  Less(EnterGroup(c, "REKEYNEGOTIATING"), c)
<1> DEFINE d == EnterGroup(c, "REKEYNEGOTIATING")
           m == c.sm
           n == d.sm
<1>1. /\ Kept(d, c, {"group_state", "GTimeoutCtr", "TimeoutEvt", "counter",
                     "window", "timers"})
      /\ n.group_state = "REKEYNEGOTIATING" /\ n.GTimeoutCtr = m.GTimeoutCtr + 1
      /\ n.TimeoutEvt = IF m.GTimeoutCtr + 1 > UpdateCount THEN m.TimeoutEvt ELSE FALSE
      /\ n.window \in 0..RSNA_MAX_EAPOL_RETRIES /\ n.counter \in Nat /\ n.timers \in Nat
  BY EnterREKEYNEGOTIATING DEF LoopInv, Control, GroupOK
<1>2. /\ n.ptk_state = m.ptk_state /\ n.requests = m.requests
      /\ n.PtkGroupInit = m.PtkGroupInit /\ n.TimeoutCtr = m.TimeoutCtr
      /\ n.rekey_timer = m.rekey_timer /\ n.rx = m.rx
      /\ n.MICVerified = m.MICVerified
      /\ n.GUpdateStationKeys = m.GUpdateStationKeys /\ n.ANonce = m.ANonce
      /\ n.PTK_valid = m.PTK_valid /\ n.pairwise_set = m.pairwise_set
      /\ n.leaving = m.leaving
  BY <1>1, SmFields DEF Kept
<1> HIDE DEF d
<1>3. /\ n.requests = {} /\ n.rx # "group" /\ n.GTimeoutCtr \in Nat /\ n.TimeoutEvt \in BOOLEAN
      /\ UpdateCount \in Nat /\ m.GTimeoutCtr \in Nat /\ (n.TimeoutEvt => m.TimeoutEvt)
      /\ (m.group_state = "IDLE" => ~n.TimeoutEvt /\ n.GTimeoutCtr <= UpdateCount)
      /\ (n.GTimeoutCtr <= UpdateCount => ~n.TimeoutEvt)
  <2>1. /\ UpdateCount \in Nat \ {0} /\ m.GTimeoutCtr \in Nat /\ m.TimeoutEvt \in BOOLEAN
        /\ (m.group_state = "IDLE" => m.GTimeoutCtr = 0)
    BY WpaAssumption DEF LoopInv, Control, SmTypes
  <2>2. n.requests = {} /\ n.rx # "group"
    BY <1>2 DEF ToREKEYNEGOTIATING, Mid, LoopInv, Control, FrameExpected
  <2>3. n.GTimeoutCtr \in Nat /\ (m.group_state = "IDLE" => n.GTimeoutCtr <= UpdateCount)
    BY <1>1, <2>1
  <2>4. /\ (n.TimeoutEvt => m.TimeoutEvt) /\ n.TimeoutEvt \in BOOLEAN
        /\ (n.GTimeoutCtr <= UpdateCount => ~n.TimeoutEvt)
    <3>1. CASE m.GTimeoutCtr + 1 > UpdateCount
      <4>1. ~(n.GTimeoutCtr <= UpdateCount)
        BY <1>1, <2>1, <3>1
      <4>2. n.TimeoutEvt = m.TimeoutEvt
        BY <1>1, <3>1
      <4> QED BY <2>1, <4>1, <4>2
    <3>2. CASE ~(m.GTimeoutCtr + 1 > UpdateCount)
      BY <1>1, <2>1, <3>2
    <3> QED BY <3>1, <3>2
  <2> QED BY <2>1, <2>2, <2>3, <2>4
<1>4. Control(n)
  <2>1. SmTypes(n)
    BY <1>1, <1>2, <1>3 DEF LoopInv, Control, SmTypes, GroupStates, RequestNames
  <2>2. FrameExpected(n) /\ TimeoutHandled(n)
    BY <1>1, <1>2, <1>3 DEF Mid, FrameExpected, TimeoutHandled, LoopInv, Control
  <2>3. PtkInvalid(n) => ~n.PTK_valid
    BY <1>1, <1>2, <1>3 DEF LoopInv, Control, PtkInvalid
  <2> QED BY <1>1, <1>2, <1>3, <2>1, <2>2, <2>3 DEF LoopInv, Control
<1>5. (Closing(m) => Closing(n)) /\ (OnWayOut(m) => OnWayOut(n))
  BY <1>1, <1>2, <1>3 DEF Closing, OnWayOut, Mid
<1>6. GroupRounds(n) < GroupRounds(m)
  BY <1>1, <1>2, <1>3 DEF GroupRounds, ToREKEYNEGOTIATING, Mid
<1>7. PtkRounds(n) = PtkRounds(m)
  BY <1>1, <1>2, <1>3 DEF PtkRounds, RequestRounds, StateRounds, Mid, Waiting
<1>8. /\ PtkRounds(m) \in Nat /\ PtkRounds(n) \in Nat
      /\ GroupRounds(m) \in Nat /\ GroupRounds(n) \in Nat
  BY <1>4, RoundsTypes DEF LoopInv
<1> QED BY <1>4, <1>5, <1>6, <1>7, <1>8 DEF Less, Rounds, d

LEMMA LessREKEYESTABLISHED ==
  ASSUME NEW c, LoopInv(c), Mid(c.sm), ToREKEYESTABLISHED(c.sm)
  PROVE  Less(EnterGroup(c, "REKEYESTABLISHED"), c)
<1> DEFINE d == EnterGroup(c, "REKEYESTABLISHED")
           m == c.sm
           n == d.sm
<1>1. /\ Kept(d, c, {"group_state", "GUpdateStationKeys", "rx",
                     "GTimeoutCtr", "has_GTK"})
      /\ n.group_state = "REKEYESTABLISHED" /\ n.GUpdateStationKeys = FALSE
      /\ n.rx = "none" /\ n.GTimeoutCtr = 0
  BY EnterUnmarked DEF LoopInv, Control, GroupOK
<1>2. /\ n.ptk_state = m.ptk_state /\ n.requests = m.requests
      /\ n.PtkGroupInit = m.PtkGroupInit /\ n.TimeoutCtr = m.TimeoutCtr
      /\ n.TimeoutEvt = m.TimeoutEvt /\ n.timers = m.timers
      /\ n.rekey_timer = m.rekey_timer /\ n.MICVerified = m.MICVerified
      /\ n.ANonce = m.ANonce /\ n.PTK_valid = m.PTK_valid
      /\ n.pairwise_set = m.pairwise_set /\ n.counter = m.counter
      /\ n.window = m.window /\ n.leaving = m.leaving
  BY <1>1, SmFields DEF Kept
<1> HIDE DEF d
<1>3. n.requests = {} /\ n.GTimeoutCtr \in Nat /\ ~n.PtkGroupInit
  BY <1>1, <1>2, WpaAssumption DEF ToREKEYESTABLISHED, Mid, LoopInv, Control, SmTypes, FrameExpected
<1>4. Control(n)
  <2>1. SmTypes(n)
    BY <1>1, <1>2, <1>3 DEF LoopInv, Control, SmTypes, GroupStates, RequestNames
  <2>2. FrameExpected(n) /\ TimeoutHandled(n)
    BY <1>1, <1>2, <1>3 DEF Mid, FrameExpected, TimeoutHandled, LoopInv, Control
  <2>3. PtkInvalid(n) => ~n.PTK_valid
    BY <1>1, <1>2, <1>3 DEF LoopInv, Control, PtkInvalid
  <2> QED BY <1>1, <1>2, <1>3, <2>1, <2>2, <2>3 DEF LoopInv, Control
<1>5. (Closing(m) => Closing(n)) /\ (OnWayOut(m) => OnWayOut(n))
  BY <1>1, <1>2, <1>3 DEF Closing, OnWayOut, Mid
<1>6. GroupRounds(n) = 1 /\ GroupRounds(m) = 2
  BY <1>1, <1>2, <1>3 DEF GroupRounds, ToREKEYESTABLISHED, Mid
<1>7. PtkRounds(n) = PtkRounds(m)
  BY <1>1, <1>2, <1>3 DEF PtkRounds, RequestRounds, StateRounds, Mid, Waiting
<1>8. /\ PtkRounds(m) \in Nat /\ PtkRounds(n) \in Nat
      /\ GroupRounds(m) \in Nat /\ GroupRounds(n) \in Nat
  BY <1>4, RoundsTypes DEF LoopInv
<1> QED BY <1>4, <1>5, <1>6, <1>7, <1>8 DEF Less, Rounds, d

LEMMA LessKEYERROR ==
  ASSUME NEW c, LoopInv(c), Mid(c.sm), ToKEYERROR(c.sm)
  PROVE  Less(EnterGroup(c, "KEYERROR"), c)
<1> DEFINE d == EnterGroup(c, "KEYERROR")
           m == c.sm
           n == d.sm
<1>1. /\ Kept(d, c, {"group_state", "GUpdateStationKeys", "requests"})
      /\ n.group_state = "KEYERROR" /\ n.GUpdateStationKeys = FALSE
      /\ n.requests = m.requests \cup {"Disconnect"}
  BY EnterUnmarked DEF LoopInv, Control, GroupOK
<1>2. /\ n.ptk_state = m.ptk_state /\ n.PtkGroupInit = m.PtkGroupInit
      /\ n.TimeoutCtr = m.TimeoutCtr /\ n.GTimeoutCtr = m.GTimeoutCtr
      /\ n.TimeoutEvt = m.TimeoutEvt /\ n.timers = m.timers
      /\ n.rekey_timer = m.rekey_timer /\ n.rx = m.rx
      /\ n.MICVerified = m.MICVerified /\ n.ANonce = m.ANonce
      /\ n.PTK_valid = m.PTK_valid /\ n.pairwise_set = m.pairwise_set
      /\ n.counter = m.counter /\ n.window = m.window /\ n.leaving = m.leaving
  BY <1>1, SmFields DEF Kept
<1> HIDE DEF d
<1>3. n.requests = {"Disconnect"} /\ ~n.PtkGroupInit /\ n.rx # "group"
  BY <1>1, <1>2, WpaAssumption DEF ToKEYERROR, Mid, LoopInv, Control, SmTypes, FrameExpected
<1>4. Control(n)
  <2>1. SmTypes(n)
    BY <1>1, <1>2, <1>3 DEF LoopInv, Control, SmTypes, GroupStates, RequestNames
  <2>2. FrameExpected(n) /\ TimeoutHandled(n)
    BY <1>1, <1>2, <1>3 DEF Mid, FrameExpected, TimeoutHandled, LoopInv, Control
  <2>3. PtkInvalid(n) => ~n.PTK_valid
    BY <1>1, <1>2, <1>3 DEF LoopInv, Control, PtkInvalid
  <2> QED BY <1>1, <1>2, <1>3, <2>1, <2>2, <2>3 DEF LoopInv, Control
<1>5. (Closing(m) => Closing(n)) /\ (OnWayOut(m) => OnWayOut(n))
  BY <1>1, <1>2, <1>3 DEF Closing, OnWayOut, Mid
<1>6. GroupRounds(n) = 1 /\ GroupRounds(m) = 5
  BY <1>1, <1>2, <1>3 DEF GroupRounds, ToKEYERROR, Mid
<1>7. PtkRounds(n) = 3
  BY <1>1, <1>2, <1>3 DEF PtkRounds, RequestRounds, StateRounds, Mid, Waiting
<1>8. /\ PtkRounds(m) \in Nat /\ PtkRounds(n) \in Nat
      /\ GroupRounds(m) \in Nat /\ GroupRounds(n) \in Nat
  BY <1>4, RoundsTypes DEF LoopInv
<1> QED BY <1>4, <1>5, <1>6, <1>7, <1>8 DEF Less, Rounds, d

LEMMA GroupHalf ==
  ASSUME NEW c, LoopInv(c), Mid(c.sm)
  PROVE  LET d == PtkGroupStep(c) IN
         /\ GroupPart(d, c)
         /\ Less(d, c) \/ (d = c /\ GroupStays(c.sm))
<1> DEFINE d == PtkGroupStep(c)
           st == GroupNext(c.sm)
<1>1. /\ GroupGoes(c.sm, st) /\ d = EnterGroup(c, st) /\ Shaped(c) /\ SmTypes(c.sm)
      /\ c.group.GKeyDoneStations \in Nat
  BY GroupNextIs DEF LoopInv, PtkGroupStep, Control, GroupOK
<1> HIDE DEF d, st
<1>2. CASE st = "none" /\ GroupStays(c.sm)
  <2>1. d = c
    BY <1>1, <1>2 DEF EnterGroup
  <2> QED BY <2>1, <1>1, <1>2, GroupPartSame DEF d
<1>3. CASE st = "IDLE" /\ ToIDLE(c.sm)
  <2>1. d = EnterGroup(c, "IDLE")
    BY <1>1, <1>3
  <2>2. /\ Shaped(d) /\ d.driver_ok = c.driver_ok /\ d.group = c.group
        /\ Kept(d, c, {"group_state", "GTimeoutCtr", "PtkGroupInit"})
    BY <1>1, <2>1, EnterIDLE
  <2>3. /\ d.sm.GUpdateStationKeys = c.sm.GUpdateStationKeys
        /\ d.sm.exists = c.sm.exists
    BY <2>2, SmFields DEF Kept
  <2> QED BY <2>1, <2>2, <2>3, <1>3, GroupPartSame, LessIDLE DEF d
<1>4. CASE st = "REKEYNEGOTIATING" /\ ToREKEYNEGOTIATING(c.sm)
  <2>1. d = EnterGroup(c, "REKEYNEGOTIATING")
    BY <1>1, <1>4
  <2>2. /\ Shaped(d) /\ d.driver_ok = c.driver_ok /\ d.group = c.group
        /\ Kept(d, c, {"group_state", "GTimeoutCtr", "TimeoutEvt", "counter", "window",
                       "timers"})
    BY <1>1, <2>1, EnterREKEYNEGOTIATING
  <2>3. /\ d.sm.GUpdateStationKeys = c.sm.GUpdateStationKeys
        /\ d.sm.exists = c.sm.exists
    BY <2>2, SmFields DEF Kept
  <2> QED BY <2>1, <2>2, <2>3, <1>4, GroupPartSame, LessREKEYNEGOTIATING DEF d
<1>5. CASE st = "REKEYESTABLISHED" /\ ToREKEYESTABLISHED(c.sm)
  <2>1. d = EnterGroup(c, "REKEYESTABLISHED")
    BY <1>1, <1>5
  <2>2. /\ Shaped(d) /\ d.driver_ok = c.driver_ok /\ GroupKept(d, c, {"GKeyDoneStations"})
        /\ d.sm.GUpdateStationKeys = FALSE
        /\ d.group.GKeyDoneStations = c.group.GKeyDoneStations - Mark(c.sm)
        /\ Kept(d, c, {"group_state", "GUpdateStationKeys", "rx", "GTimeoutCtr",
                       "has_GTK"})
    BY <1>1, <2>1, EnterUnmarked
  <2>3. d.sm.exists = c.sm.exists
    BY <2>2, SmFields DEF Kept
  <2> QED BY <2>1, <2>2, <2>3, <1>5, GroupPartUnmarked, LessREKEYESTABLISHED DEF d
<1>6. CASE st = "KEYERROR" /\ ToKEYERROR(c.sm)
  <2>1. d = EnterGroup(c, "KEYERROR")
    BY <1>1, <1>6
  <2>2. /\ Shaped(d) /\ d.driver_ok = c.driver_ok /\ GroupKept(d, c, {"GKeyDoneStations"})
        /\ d.sm.GUpdateStationKeys = FALSE
        /\ d.group.GKeyDoneStations = c.group.GKeyDoneStations - Mark(c.sm)
        /\ Kept(d, c, {"group_state", "GUpdateStationKeys", "requests"})
    BY <1>1, <2>1, EnterUnmarked
  <2>3. d.sm.exists = c.sm.exists
    BY <2>2, SmFields DEF Kept
  <2> QED BY <2>1, <2>2, <2>3, <1>6, GroupPartUnmarked, LessKEYERROR DEF d
<1> QED BY <1>1, <1>2, <1>3, <1>4, <1>5, <1>6 DEF GroupGoes

LEMMA GroupStepEffect ==
  ASSUME NEW g, DOMAIN g = DOMAIN NewGroup, GroupOK(g)
  PROVE  LET h == wpa_group_sm_step(g) IN
         /\ DOMAIN h = DOMAIN NewGroup /\ GroupOK(h)
         /\ \A f \in DOMAIN NewGroup \ {"state", "key"} : h[f] = g[f]
<1> DEFINE h == wpa_group_sm_step(g)
<1>1. DOMAIN h = DOMAIN NewGroup
      /\ \A f \in DOMAIN NewGroup \ {"state", "key"} : h[f] = g[f]
  BY GroupFields DEF wpa_group_sm_step, wpa_group_setkeysdone
<1>2. h.state \in {"SETKEYS", "SETKEYSDONE"}
  BY GroupFields DEF wpa_group_sm_step, wpa_group_setkeysdone, GroupOK
<1> HIDE DEF h
<1>3. /\ h.GN = g.GN /\ h.GM = g.GM /\ h.Counter = g.Counter
      /\ h.GKeyDoneStations = g.GKeyDoneStations
  BY <1>1, GroupFields
<1> QED BY <1>1, <1>2, <1>3 DEF GroupOK, h

-----------------------------------------------------------------------------
(***************************************************************************)
(* A round, and all of them.                                               *)
(***************************************************************************)
Onward(d, c) ==
  /\ LoopInv(d) /\ GroupPart(d, c)
  /\ Closing(c.sm) => Closing(d.sm)
  /\ OnWayOut(c.sm) /\ c.driver_ok => OnWayOut(d.sm)

LEMMA OnwardTwice ==
  ASSUME NEW a, NEW b, NEW c, Onward(b, a), Onward(c, b), LoopInv(a)
  PROVE  Onward(c, a)
<1>1. GroupPart(c, a)
  BY GroupPartTwice DEF Onward, LoopInv
<1> QED BY <1>1 DEF Onward, GroupPart

LEMMA StepOnceOnward ==
  ASSUME NEW c, LoopInv(c), c.driver_ok \in BOOLEAN
  PROVE  /\ Onward(StepOnce(c), c)
         /\ Rounds(StepOnce(c).sm) < Rounds(c.sm) \/ Rounds(StepOnce(c).sm) = 0
<1> DEFINE a == PtkStep(c)
           b == PtkGroupStep(a)
           d == StepOnce(c)
<1>1. GroupPart(a, c) /\ (Fewer(a, c) \/ (a = c /\ Stays(c.sm)))
  BY PtkHalf
<1>2. d = [b EXCEPT !.group = wpa_group_sm_step(@)]
  BY DEF StepOnce
<1> HIDE DEF a, d
<1>3. /\ PtkRounds(c.sm) \in Nat /\ GroupRounds(c.sm) \in Nat
      /\ (Stays(c.sm) => PtkRounds(c.sm) = 0 /\ Mid(c.sm))
  BY RoundsTypes DEF LoopInv
<1>4. /\ Onward(a, c) /\ Mid(a.sm) /\ GroupRounds(a.sm) <= GroupRounds(c.sm)
      /\ PtkRounds(a.sm) < PtkRounds(c.sm) \/ PtkRounds(a.sm) = 0
  BY <1>1, <1>3 DEF Onward, LoopInv, GroupPart, Fewer
<1>5. /\ PtkRounds(a.sm) \in Nat /\ GroupRounds(a.sm) \in Nat
  BY <1>4, RoundsTypes DEF Onward, LoopInv
<1>6. /\ GroupPart(b, a)
      /\ Less(b, a) \/ (b = a /\ GroupStays(a.sm))
  BY <1>4, GroupHalf DEF Onward
<1> HIDE DEF b
<1>7. Onward(b, a) /\ (Rounds(b.sm) < Rounds(a.sm) \/ (b = a /\ GroupRounds(a.sm) = 0))
  <2>1. GroupStays(a.sm) => GroupRounds(a.sm) = 0
    BY <1>4, WpaAssumption DEF GroupStays, GroupRounds, Onward, LoopInv, Control, SmTypes
  <2> QED BY <1>4, <1>6, <2>1 DEF Onward, LoopInv, GroupPart, Less
<1>8. Shaped(b) /\ GroupOK(b.group)
  BY <1>7 DEF Onward, LoopInv
<1>9. /\ d.sm = b.sm /\ d.group = wpa_group_sm_step(b.group) /\ d.driver_ok = b.driver_ok
      /\ DOMAIN d = DOMAIN b
  BY <1>2, <1>8 DEF Shaped
<1>10. /\ DOMAIN d.group = DOMAIN NewGroup /\ GroupOK(d.group)
       /\ GroupKept(d, b, {"state", "key"})
  BY <1>8, <1>9, GroupStepEffect DEF Shaped, GroupKept
<1>11. d.group.Counter = b.group.Counter /\ d.group.GKeyDoneStations = b.group.GKeyDoneStations
  BY <1>10, GroupFields DEF GroupKept
<1>12. GroupPart(d, b)
  <2>1. GroupKept(d, b, {"Counter", "GKeyDoneStations", "state", "key"}) /\ Shaped(d)
    BY <1>8, <1>9, <1>10 DEF GroupKept, Shaped
  <2>2. b.group.Counter <= d.group.Counter
    BY <1>8, <1>11 DEF GroupOK
  <2> QED BY <2>1, <2>2, <1>7, <1>9, <1>10, <1>11 DEF GroupPart, Others, Onward
<1>13. Onward(d, b)
  BY <1>7, <1>9, <1>12 DEF Onward, LoopInv, GroupPart
<1>14. Onward(d, c)
  <2>1. Onward(b, c)
    BY <1>4, <1>7, OnwardTwice
  <2> QED BY <2>1, <1>13, OnwardTwice
<1>15. Rounds(d.sm) < Rounds(c.sm) \/ Rounds(d.sm) = 0
  <2>1. PtkRounds(b.sm) \in Nat /\ GroupRounds(b.sm) \in Nat
    BY <1>7, RoundsTypes DEF Onward, LoopInv
  <2>2. Rounds(b.sm) < Rounds(c.sm) \/ Rounds(b.sm) = 0
    <3>1. CASE Rounds(b.sm) < Rounds(a.sm)
      BY <3>1, <2>1, <1>3, <1>4, <1>5 DEF Rounds
    <3>2. CASE b = a /\ GroupRounds(a.sm) = 0
      BY <3>2, <2>1, <1>3, <1>4, <1>5 DEF Rounds
    <3> QED BY <3>1, <3>2, <1>7
  <2> QED BY <2>2, <1>9
<1> QED BY <1>14, <1>15 DEF d

LEMMA ThreeOnward ==
  ASSUME NEW c, LoopInv(c), c.driver_ok \in BOOLEAN
  PROVE  /\ Onward(ThreeSteps(c), c)
         /\ Rounds(ThreeSteps(c).sm) <= Rounds(c.sm) - 3 \/ Rounds(ThreeSteps(c).sm) = 0
<1> DEFINE a == StepOnce(c)
           b == StepOnce(a)
           d == StepOnce(b)
<1>1. ThreeSteps(c) = d
  BY DEF ThreeSteps
<1>2. Onward(a, c) /\ (Rounds(a.sm) < Rounds(c.sm) \/ Rounds(a.sm) = 0)
  BY StepOnceOnward
<1> HIDE DEF a
<1>3. LoopInv(a) /\ a.driver_ok \in BOOLEAN
  BY <1>2 DEF Onward, GroupPart
<1>4. Onward(b, a) /\ (Rounds(b.sm) < Rounds(a.sm) \/ Rounds(b.sm) = 0)
  BY <1>3, StepOnceOnward
<1> HIDE DEF b
<1>5. LoopInv(b) /\ b.driver_ok \in BOOLEAN
  BY <1>3, <1>4 DEF Onward, GroupPart
<1>6. Onward(d, b) /\ (Rounds(d.sm) < Rounds(b.sm) \/ Rounds(d.sm) = 0)
  BY <1>5, StepOnceOnward
<1> HIDE DEF d
<1>7. Onward(d, c)
  <2>1. Onward(b, c)
    BY <1>2, <1>4, OnwardTwice
  <2> QED BY <2>1, <1>6, OnwardTwice
<1>8. Rounds(a.sm) \in Nat /\ Rounds(b.sm) \in Nat /\ Rounds(c.sm) \in Nat /\ Rounds(d.sm) \in Nat
  <2>1. \A m : Control(m) => PtkRounds(m) \in Nat /\ GroupRounds(m) \in Nat
    BY RoundsTypes
  <2>2. Control(a.sm) /\ Control(b.sm) /\ Control(c.sm) /\ Control(d.sm)
    BY <1>3, <1>5, <1>6 DEF Onward, LoopInv
  <2> QED BY <2>1, <2>2 DEF Rounds
<1> QED BY <1>1, <1>2, <1>4, <1>6, <1>7, <1>8

(* wpa_sm_step comes to rest: six rounds are enough.                       *)
LEMMA ComesToRest ==
  ASSUME NEW c, LoopInv(c), c.driver_ok \in BOOLEAN, Rounds(c.sm) <= 6
  PROVE  Onward(wpa_sm_step(c), c) /\ Resting(wpa_sm_step(c).sm)
<1> DEFINE a == ThreeSteps(c)
           d == ThreeSteps(a)
<1>1. wpa_sm_step(c) = d
  BY DEF wpa_sm_step
<1>2. Onward(a, c) /\ (Rounds(a.sm) <= Rounds(c.sm) - 3 \/ Rounds(a.sm) = 0)
  BY ThreeOnward
<1> HIDE DEF a
<1>3. LoopInv(a) /\ a.driver_ok \in BOOLEAN
  BY <1>2 DEF Onward, GroupPart
<1>4. Onward(d, a) /\ (Rounds(d.sm) <= Rounds(a.sm) - 3 \/ Rounds(d.sm) = 0)
  BY <1>3, ThreeOnward
<1> HIDE DEF d
<1>5. Onward(d, c) /\ Control(d.sm)
  BY <1>2, <1>4, OnwardTwice DEF Onward, LoopInv
<1>6. Rounds(c.sm) \in Nat /\ Rounds(a.sm) \in Nat /\ Rounds(d.sm) \in Nat
  <2>1. \A m : Control(m) => PtkRounds(m) \in Nat /\ GroupRounds(m) \in Nat
    BY RoundsTypes
  <2> QED BY <2>1, <1>3, <1>5 DEF Rounds, LoopInv
<1>7. Rounds(d.sm) = 0
  BY <1>2, <1>4, <1>6
<1> QED BY <1>1, <1>5, <1>7, RestIsZero

LEMMA RestStaysOnce ==
  ASSUME NEW c, LoopInv(c), c.driver_ok \in BOOLEAN, Rounds(c.sm) = 0
  PROVE  StepOnce(c).sm = c.sm /\ StepOnce(c).out = c.out
<1> DEFINE a == PtkStep(c)
           b == PtkGroupStep(a)
<1>1. Fewer(a, c) \/ (a = c /\ Stays(c.sm))
  BY PtkHalf
<1>2. /\ \A m : Control(m) => PtkRounds(m) \in Nat /\ GroupRounds(m) \in Nat
      /\ Control(c.sm)
  BY RoundsTypes DEF LoopInv
<1> HIDE DEF a
<1>3. a = c
  BY <1>1, <1>2 DEF Fewer, Rounds
<1>4. Mid(c.sm)
  BY <1>1, <1>2, <1>3, RoundsTypes DEF Fewer
<1>5. Less(b, c) \/ b = c
  BY <1>3, <1>4, GroupHalf
<1> HIDE DEF b
<1>6. b = c
  BY <1>2, <1>5 DEF Less, Rounds
<1>7. StepOnce(c) = [c EXCEPT !.group = wpa_group_sm_step(@)]
  BY <1>3, <1>6 DEF StepOnce, a, b
<1> QED BY <1>7 DEF LoopInv, Shaped

LEMMA RestStays ==
  ASSUME NEW c, LoopInv(c), c.driver_ok \in BOOLEAN, Rounds(c.sm) = 0
  PROVE  /\ ThreeSteps(c).sm = c.sm /\ ThreeSteps(c).out = c.out
         /\ wpa_sm_step(c).sm = c.sm /\ wpa_sm_step(c).out = c.out
<1>1. ASSUME NEW x, LoopInv(x), x.driver_ok \in BOOLEAN, Rounds(x.sm) = 0
      PROVE  ThreeSteps(x).sm = x.sm /\ ThreeSteps(x).out = x.out
  <2> DEFINE a == StepOnce(x)
             b == StepOnce(a)
  <2>1. a.sm = x.sm /\ a.out = x.out /\ Onward(a, x)
    BY <1>1, RestStaysOnce, StepOnceOnward
  <2> HIDE DEF a
  <2>2. b.sm = x.sm /\ b.out = x.out /\ Onward(b, a)
    BY <1>1, <2>1, RestStaysOnce, StepOnceOnward DEF Onward, GroupPart
  <2> HIDE DEF b
  <2>3. StepOnce(b).sm = x.sm /\ StepOnce(b).out = x.out
    BY <1>1, <2>1, <2>2, RestStaysOnce DEF Onward, GroupPart
  <2> QED BY <2>3 DEF ThreeSteps, a, b
<1> DEFINE d == ThreeSteps(c)
<1>2. d.sm = c.sm /\ d.out = c.out /\ Onward(d, c)
  BY <1>1, ThreeOnward
<1> HIDE DEF d
<1>3. ThreeSteps(d).sm = c.sm /\ ThreeSteps(d).out = c.out
  BY <1>1, <1>2 DEF Onward, GroupPart
<1> QED BY <1>2, <1>3 DEF wpa_sm_step, d

-----------------------------------------------------------------------------
(***************************************************************************)
(* Events of one station.  They find the state machine at rest, prepare it *)
(* and let it come to rest again.                                          *)
(***************************************************************************)
Settled(d, c) ==
  /\ LoopInv(d) /\ GroupPart(d, c) /\ Resting(d.sm)
  /\ OnWayOut(c.sm) /\ c.driver_ok => OnWayOut(d.sm)

AtEase(c) == LoopInv(c) /\ Resting(c.sm) /\ c.driver_ok \in BOOLEAN

LEMMA RestFacts ==
  ASSUME NEW m, Control(m), Resting(m)
  PROVE  /\ Stays(m) /\ GroupStays(m) /\ Rounds(m) = 0
         /\ m.rx # "pairwise" /\ m.rx # "group" /\ m.requests = {}
<1>1. Stays(m) /\ GroupStays(m)
  BY PtkNextIs, GroupNextIs DEF Resting, PtkGoes, GroupGoes
<1>2. m.rx # "group"
  BY <1>1 DEF GroupStays, Control, FrameExpected
<1> QED BY <1>1, <1>2, RestIsZero DEF Stays

LEMMA Prepared ==
  ASSUME NEW c, NEW p, LoopInv(c), LoopInv(p), GroupPart(p, c), c.driver_ok \in BOOLEAN,
         Rounds(p.sm) <= 6, OnWayOut(c.sm) /\ c.driver_ok => OnWayOut(p.sm)
  PROVE  /\ Settled(wpa_sm_step(p), c)
         /\ Closing(p.sm) => Closing(wpa_sm_step(p).sm)
<1> DEFINE d == wpa_sm_step(p)
<1>1. p.driver_ok = c.driver_ok
  BY DEF GroupPart
<1>2. Onward(d, p) /\ Resting(d.sm)
  BY <1>1, ComesToRest
<1> HIDE DEF d
<1>3. GroupPart(d, c)
  BY <1>2, GroupPartTwice DEF Onward, LoopInv
<1> QED BY <1>1, <1>2, <1>3 DEF Settled, Onward, d

\* What most events do to a state machine at rest.
Ready(n, m) ==
  /\ SmTypes(n) /\ n.ptk_state = m.ptk_state /\ n.group_state = m.group_state
  /\ n.rx # "pairwise" /\ n.rx # "group" /\ n.TimeoutEvt = m.TimeoutEvt
  /\ m.MICVerified = n.MICVerified
  /\ n.TimeoutCtr \in {m.TimeoutCtr, 0} /\ n.GTimeoutCtr \in {m.GTimeoutCtr, 0}
  /\ n.PTK_valid => m.PTK_valid
  /\ n.rekey_timer => m.rekey_timer
  /\ n.GUpdateStationKeys => m.GUpdateStationKeys
  /\ n.PtkGroupInit => ~n.GUpdateStationKeys
  /\ n.requests \in {{"PTK"}, {"ReAuthentication"}} => ~n.PTK_valid

LEMMA ReadyRuns ==
  ASSUME NEW m, NEW n, Control(m), Resting(m), Ready(n, m)
  PROVE  Control(n) /\ Rounds(n) <= 6
<1>1. /\ Stays(m) /\ GroupStays(m)
      /\ UpdateCount \in Nat \ {0} /\ m.TimeoutCtr \in Nat /\ m.GTimeoutCtr \in Nat
  BY RestFacts, WpaAssumption DEF Control, SmTypes
<1>2. FrameExpected(n) /\ TimeoutHandled(n)
  BY <1>1 DEF FrameExpected, TimeoutHandled, Ready, Stays
<1>3. PtkInvalid(n) => ~n.PTK_valid
  BY DEF Ready, Control, PtkInvalid
<1>4. /\ n.ptk_state \in {"AUTHENTICATION2", "INITPSK", "PTKCALCNEGOTIATING2"}
           => n.TimeoutCtr = 0
      /\ n.group_state \in {"REKEYESTABLISHED", "KEYERROR"} => ~n.GUpdateStationKeys
      /\ n.group_state = "IDLE" => n.GTimeoutCtr = 0
      /\ n.PtkGroupInit => ~n.GUpdateStationKeys /\ n.rx # "group"
      /\ n.ptk_state = "INITIALIZE" => ~n.GUpdateStationKeys /\ ~n.rekey_timer
  BY DEF Ready, Control
<1>5. Control(n)
  BY <1>2, <1>3, <1>4 DEF Control, Ready
<1>6. GroupRounds(n) <= 1
  BY <1>1 DEF GroupRounds, GroupStays, Ready
<1> QED BY <1>5, <1>6, RoundsTypes DEF Rounds

LEMMA Readied ==
  ASSUME NEW c, NEW p, AtEase(c), Ready(p.sm, c.sm), GroupPart(p, c),
         OnWayOut(c.sm) /\ c.driver_ok => OnWayOut(p.sm)
  PROVE  /\ Settled(wpa_sm_step(p), c)
         /\ Closing(p.sm) => Closing(wpa_sm_step(p).sm)
         /\ LoopInv(p)
<1>1. LoopInv(p) /\ Rounds(p.sm) <= 6
  BY ReadyRuns DEF AtEase, LoopInv, GroupPart
<1> QED BY <1>1, Prepared DEF AtEase

(* What an event leaves of the keys: less, or the same.                    *)
Softer(n, m) ==
  /\ n.ANonce = m.ANonce /\ n.ptk_state = m.ptk_state /\ n.leaving = m.leaving
  /\ n.rx # "pairwise" /\ n.PTK \in {m.PTK, NoKey}
  /\ n.PTK_valid => m.PTK_valid /\ n.PTK = m.PTK
  /\ n.pairwise_set => m.pairwise_set /\ n.key = m.key /\ n.PTK = m.PTK
  /\ n.rekey_timer => m.rekey_timer
  /\ n.requests = {"PTK"} => m.PTK_valid \/ m.rekey_timer

Prepares(p, c) ==
  /\ Ready(p.sm, c.sm) /\ Softer(p.sm, c.sm) /\ GroupPart(p, c)
  /\ p.out = c.out /\ p.group.Counter = c.group.Counter

LEMMA RequestEffect ==
  ASSUME NEW c, Shaped(c), NEW r
  PROVE  LET d == Request(c, r) IN
         /\ Shaped(d) /\ d.group = c.group /\ d.out = c.out /\ d.driver_ok = c.driver_ok
         /\ Kept(d, c, {"requests"}) /\ d.sm.requests = c.sm.requests \cup {r}
BY SmFields DEF Shaped, Request, Kept

LEMMA StartEffect ==
  ASSUME NEW c, Shaped(c), SmTypes(c.sm), c.group.GKeyDoneStations \in Nat
  PROVE  LET d == Start(c) IN
         /\ Shaped(d) /\ d.out = c.out /\ d.driver_ok = c.driver_ok
         /\ Kept(d, c, {"started", "GUpdateStationKeys", "PTK_valid", "PTK", "key",
                        "pairwise_set", "rekey_timer", "TimeoutCtr", "authorized",
                        "GTimeoutCtr", "PtkGroupInit", "requests"})
         /\ GroupKept(d, c, {"GKeyDoneStations"})
         /\ d.sm.PTK_valid = FALSE /\ d.sm.PTK = NoKey /\ d.sm.pairwise_set = FALSE
         /\ d.sm.rekey_timer = FALSE /\ d.sm.TimeoutCtr = 0 /\ d.sm.GTimeoutCtr = 0
         /\ d.sm.GUpdateStationKeys = FALSE /\ d.sm.PtkGroupInit = FALSE
         /\ d.sm.requests = c.sm.requests \cup {"Authentication"}
         /\ d.group.GKeyDoneStations = c.group.GKeyDoneStations - Mark(c.sm)
<1> DEFINE a == [c EXCEPT !.sm.started = TRUE]
           b == INITIALIZE(a)
           e == IDLE(b)
           d == Start(c)
           new == {"GUpdateStationKeys", "PTK_valid", "PTK", "key", "pairwise_set",
                   "rekey_timer", "TimeoutCtr", "authorized"}
           rest == {"GTimeoutCtr", "PtkGroupInit", "requests"}
<1>1. d = Request(e, "Authentication")
  BY DEF Start
<1>2. /\ Shaped(a) /\ a.group = c.group /\ a.out = c.out /\ a.driver_ok = c.driver_ok
      /\ Kept(a, c, {"started"})
  BY SmFields DEF Shaped, Kept
<1>3. a.sm.GUpdateStationKeys = c.sm.GUpdateStationKeys /\ a.sm.requests = c.sm.requests
  BY <1>2, SmFields DEF Kept
<1> HIDE DEF a
<1>4. /\ Shaped(b) /\ b.out = a.out /\ b.driver_ok = a.driver_ok
      /\ Kept(b, a, new) /\ GroupKept(b, a, {"GKeyDoneStations"})
      /\ b.sm.PTK_valid = FALSE /\ b.sm.PTK = NoKey /\ b.sm.pairwise_set = FALSE
      /\ b.sm.rekey_timer = FALSE /\ b.sm.TimeoutCtr = 0
      /\ b.sm.GUpdateStationKeys = FALSE
      /\ b.group.GKeyDoneStations = a.group.GKeyDoneStations - Mark(a.sm)
  BY <1>2, <1>3, INITIALIZEEffect DEF SmTypes
<1> HIDE DEF b, d
<1>5. /\ Shaped(d) /\ d.out = b.out /\ d.driver_ok = b.driver_ok /\ d.group = b.group
      /\ Kept(d, b, rest) /\ d.sm.GTimeoutCtr = 0 /\ d.sm.PtkGroupInit = FALSE
      /\ d.sm.requests = b.sm.requests \cup {"Authentication"}
  BY <1>1, <1>4, SmFields DEF Shaped, Kept, IDLE, Request
<1>6. Kept(d, c, ({"started"} \cup new) \cup rest)
  <2>1. Kept(b, c, {"started"} \cup new)
    BY <1>2, <1>4, KeptTwice
  <2> QED BY <2>1, <1>5, KeptTwice
<1>7. b.sm.requests = c.sm.requests
  BY <1>3, <1>4, SmFields DEF Kept
<1>8. /\ d.sm.PTK_valid = FALSE /\ d.sm.PTK = NoKey /\ d.sm.pairwise_set = FALSE
      /\ d.sm.rekey_timer = FALSE /\ d.sm.TimeoutCtr = 0 /\ d.sm.GUpdateStationKeys = FALSE
  BY <1>4, <1>5, SmFields DEF Kept
<1>9. Mark(a.sm) = Mark(c.sm) /\ GroupKept(d, c, {"GKeyDoneStations"})
  BY <1>2, <1>3, <1>4, <1>5 DEF Mark, GroupKept
<1>10. Kept(d, c, {"started", "GUpdateStationKeys", "PTK_valid", "PTK", "key",
                   "pairwise_set", "rekey_timer", "TimeoutCtr", "authorized",
                   "GTimeoutCtr", "PtkGroupInit", "requests"})
  BY <1>6
<1> QED BY <1>2, <1>4, <1>5, <1>7, <1>8, <1>9, <1>10 DEF d

\* From Kept fields to what the events need.
LEMMA PreparesSame ==
  ASSUME NEW c, NEW p, AtEase(c), Shaped(p), p.out = c.out, p.driver_ok = c.driver_ok,
         p.group = c.group,
         Kept(p, c, {"PTK_valid", "PTK", "key", "pairwise_set", "rekey_timer", "requests",
                     "assoc", "counter", "window", "req_replay_counter"}),
         p.sm.PTK_valid = FALSE, p.sm.PTK \in {c.sm.PTK, NoKey},
         p.sm.pairwise_set => c.sm.pairwise_set /\ p.sm.key = c.sm.key /\ p.sm.PTK = c.sm.PTK,
         p.sm.pairwise_set \in BOOLEAN, p.sm.rekey_timer = FALSE, p.sm.counter \in Nat,
         p.sm.window \in 0..RSNA_MAX_EAPOL_RETRIES,
         p.sm.requests \in {{}} \cup {{r} : r \in RequestNames},
         p.sm.requests = {"PTK"} => c.sm.PTK_valid \/ c.sm.rekey_timer
  PROVE  Prepares(p, c)
<1> DEFINE m == c.sm
           n == p.sm
<1>1. /\ n.exists = m.exists
      /\ n.ptk_state = m.ptk_state /\ n.group_state = m.group_state
      /\ n.PtkGroupInit = m.PtkGroupInit /\ n.TimeoutCtr = m.TimeoutCtr
      /\ n.GTimeoutCtr = m.GTimeoutCtr /\ n.TimeoutEvt = m.TimeoutEvt
      /\ n.timers = m.timers /\ n.rx = m.rx /\ n.MICVerified = m.MICVerified
      /\ n.GUpdateStationKeys = m.GUpdateStationKeys /\ n.ANonce = m.ANonce
      /\ n.leaving = m.leaving
  BY SmFields DEF Kept
<1>2. /\ Control(m) /\ m.rx # "pairwise" /\ m.rx # "group" /\ ~m.PtkGroupInit
      /\ LoopInv(c)
  BY RestFacts DEF AtEase, LoopInv, GroupStays
<1>3. GroupPart(p, c)
  BY <1>1, <1>2, GroupPartSame
<1>4. SmTypes(n)
  BY <1>1, <1>2 DEF SmTypes, Control
<1>5. Ready(n, m)
  BY <1>1, <1>2, <1>4 DEF Ready
<1>6. Softer(n, m)
  BY <1>1, <1>2 DEF Softer
<1> QED BY <1>3, <1>5, <1>6 DEF Prepares

LEMMA PreparesUnmarked ==
  ASSUME NEW c, NEW p, AtEase(c), Shaped(p), p.out = c.out, p.driver_ok = c.driver_ok,
         Kept(p, c, {"started", "GUpdateStationKeys", "PTK_valid", "PTK", "key",
                     "pairwise_set", "rekey_timer", "TimeoutCtr", "authorized",
                     "GTimeoutCtr", "PtkGroupInit", "requests"}),
         GroupKept(p, c, {"GKeyDoneStations"}),
         p.sm.PTK_valid = FALSE, p.sm.PTK = NoKey, p.sm.pairwise_set = FALSE,
         p.sm.rekey_timer = FALSE, p.sm.TimeoutCtr \in {c.sm.TimeoutCtr, 0},
         p.sm.GTimeoutCtr \in {c.sm.GTimeoutCtr, 0},
         p.sm.GUpdateStationKeys = FALSE, p.sm.PtkGroupInit \in BOOLEAN,
         p.sm.requests \in {{"Authentication"}, {"ReAuthentication"}},
         p.group.GKeyDoneStations = c.group.GKeyDoneStations - Mark(c.sm)
  PROVE  Prepares(p, c)
<1> DEFINE m == c.sm
           n == p.sm
<1>1. /\ n.exists = m.exists
      /\ n.ptk_state = m.ptk_state /\ n.group_state = m.group_state
      /\ n.TimeoutEvt = m.TimeoutEvt /\ n.timers = m.timers /\ n.rx = m.rx
      /\ n.MICVerified = m.MICVerified /\ n.ANonce = m.ANonce
      /\ n.counter = m.counter /\ n.window = m.window /\ n.leaving = m.leaving
  BY SmFields DEF Kept
<1>2. /\ Control(m) /\ m.rx # "pairwise" /\ m.rx # "group" /\ LoopInv(c)
  BY RestFacts DEF AtEase, LoopInv
<1>3. GroupPart(p, c) /\ p.group.Counter = c.group.Counter
  BY <1>1, <1>2, GroupPartUnmarked, GroupFields DEF GroupKept
<1>4. n.TimeoutCtr \in Nat /\ n.GTimeoutCtr \in Nat
  BY <1>2 DEF SmTypes, Control
<1>5. SmTypes(n)
  BY <1>1, <1>2, <1>4 DEF SmTypes, Control, RequestNames
<1>6. Ready(n, m)
  BY <1>1, <1>2, <1>5 DEF Ready
<1>7. Softer(n, m)
  BY <1>1, <1>2 DEF Softer
<1> QED BY <1>3, <1>6, <1>7 DEF Prepares

(* wpa_auth_sm_event, as far as the state machine has to run.              *)
LEMMA NotedPrepares ==
  ASSUME NEW c, AtEase(c), NEW event \in {"AUTH", "ASSOC", "REAUTH", "DEAUTH", "DISASSOC"}
  PROVE  LET p == wpa_remove_ptk(Noted(c, event)) IN
         /\ Prepares(p, c) /\ p.sm.PTK_valid = FALSE
         /\ event \in {"AUTH", "ASSOC"} => p.sm.requests = {}
         /\ event \in {"DEAUTH", "DISASSOC"} => p.sm.requests = {"Deauthentication"}
<1> DEFINE q == Noted(c, event)
           p == wpa_remove_ptk(q)
           lost == {"PTK_valid", "PTK", "key", "pairwise_set", "rekey_timer"}
           fresh == {"started", "GUpdateStationKeys", "PTK_valid", "PTK", "key",
                     "pairwise_set", "rekey_timer", "TimeoutCtr", "authorized",
                     "GTimeoutCtr", "PtkGroupInit", "requests"}
           again == lost \cup {"requests", "assoc", "counter", "window", "req_replay_counter"}
<1>1. /\ Shaped(c) /\ SmTypes(c.sm) /\ c.sm.requests = {} /\ c.group.GKeyDoneStations \in Nat
      /\ c.sm.counter \in Nat /\ c.sm.window \in 0..RSNA_MAX_EAPOL_RETRIES
      /\ ~c.sm.PtkGroupInit
  BY RestFacts DEF AtEase, LoopInv, Control, SmTypes, GroupOK, GroupStays
<1>2. ASSUME Shaped(q)
      PROVE  /\ Shaped(p) /\ p.group = q.group /\ p.out = q.out /\ p.driver_ok = q.driver_ok
             /\ Kept(p, q, lost) /\ p.sm.PTK_valid = FALSE /\ p.sm.PTK = NoKey
             /\ p.sm.pairwise_set = FALSE /\ p.sm.rekey_timer = FALSE
  BY <1>2, RemovePtkEffect
<1> HIDE DEF q, p
<1>3. ASSUME Shaped(q), q.group = c.group, q.out = c.out, q.driver_ok = c.driver_ok,
             Kept(q, c, {"requests"}),
             q.sm.requests \in {{}, {"Deauthentication"}, {"ReAuthentication"}}
      PROVE  Prepares(p, c) /\ p.sm.PTK_valid = FALSE /\ p.sm.requests = q.sm.requests
  <2>1. Kept(p, c, {"requests"} \cup lost)
    BY <1>2, <1>3, KeptTwice
  <2>2. Kept(p, c, again)
    BY <2>1 DEF Kept
  <2>3. p.sm.requests = q.sm.requests /\ p.sm.counter = c.sm.counter /\ p.sm.window = c.sm.window
    BY <1>2, <1>3, <2>1, SmFields DEF Kept
  <2>4. p.sm.requests \in {{}} \cup {{r} : r \in RequestNames} /\ p.sm.requests # {"PTK"}
    BY <1>3, <2>3 DEF RequestNames
  <2>5. Prepares(p, c)
    BY <1>1, <1>2, <1>3, <2>2, <2>3, <2>4, PreparesSame
  <2> QED BY <1>2, <1>3, <2>3, <2>5
<1>4. CASE event \in {"AUTH", "ASSOC"}
  <2>1. q = c
    BY <1>4 DEF q, Noted
  <2>2. Kept(q, c, {"requests"})
    BY <2>1 DEF Kept
  <2> QED BY <1>1, <1>3, <1>4, <2>1, <2>2 DEF p, q
<1>5. CASE event \in {"DEAUTH", "DISASSOC"}
  <2>1. q = Request(c, "Deauthentication")
    BY <1>5 DEF q, Noted
  <2>2. /\ Shaped(q) /\ q.group = c.group /\ q.out = c.out /\ q.driver_ok = c.driver_ok
        /\ Kept(q, c, {"requests"}) /\ q.sm.requests = c.sm.requests \cup {"Deauthentication"}
    BY <1>1, <2>1, RequestEffect
  <2>3. q.sm.requests = {"Deauthentication"}
    BY <1>1, <2>2
  <2>4. Prepares(p, c) /\ p.sm.PTK_valid = FALSE /\ p.sm.requests = {"Deauthentication"}
    BY <1>3, <2>2, <2>3
  <2> QED BY <1>5, <2>4 DEF p, q
<1>6. CASE event = "REAUTH" /\ ~c.sm.started
  <2>1. q = Start(c)
    BY <1>6 DEF q, Noted
  <2>2. /\ Shaped(q) /\ q.out = c.out /\ q.driver_ok = c.driver_ok
        /\ Kept(q, c, fresh) /\ GroupKept(q, c, {"GKeyDoneStations"})
        /\ q.sm.TimeoutCtr = 0 /\ q.sm.GTimeoutCtr = 0
        /\ q.sm.GUpdateStationKeys = FALSE /\ q.sm.PtkGroupInit = FALSE
        /\ q.sm.requests = c.sm.requests \cup {"Authentication"}
        /\ q.group.GKeyDoneStations = c.group.GKeyDoneStations - Mark(c.sm)
    BY <1>1, <2>1, StartEffect
  <2>3. /\ Shaped(p) /\ p.group = q.group /\ p.out = q.out /\ p.driver_ok = q.driver_ok
        /\ Kept(p, q, lost) /\ p.sm.PTK_valid = FALSE /\ p.sm.PTK = NoKey
        /\ p.sm.pairwise_set = FALSE /\ p.sm.rekey_timer = FALSE
    BY <1>2, <2>2
  <2>4. Kept(p, c, fresh) /\ GroupKept(p, c, {"GKeyDoneStations"})
    BY <2>2, <2>3 DEF Kept, GroupKept
  <2>5. /\ p.sm.TimeoutCtr = 0 /\ p.sm.GTimeoutCtr = 0
        /\ p.sm.GUpdateStationKeys = FALSE /\ p.sm.PtkGroupInit = FALSE
        /\ p.sm.requests = q.sm.requests
    BY <2>2, <2>3, SmFields DEF Kept
  <2>6. p.sm.requests = {"Authentication"}
    BY <1>1, <2>2, <2>5
  <2>7. Prepares(p, c)
    BY <2>2, <2>3, <2>4, <2>5, <2>6, PreparesUnmarked
  <2> QED BY <1>6, <2>3, <2>7 DEF p, q
<1>7. CASE event = "REAUTH" /\ c.sm.started /\ ~c.sm.GUpdateStationKeys
  <2>1. q = Request(c, "ReAuthentication")
    BY <1>7 DEF q, Noted
  <2>2. /\ Shaped(q) /\ q.group = c.group /\ q.out = c.out /\ q.driver_ok = c.driver_ok
        /\ Kept(q, c, {"requests"}) /\ q.sm.requests = c.sm.requests \cup {"ReAuthentication"}
    BY <1>1, <2>1, RequestEffect
  <2>3. q.sm.requests = {"ReAuthentication"}
    BY <1>1, <2>2
  <2>4. Prepares(p, c) /\ p.sm.PTK_valid = FALSE
    BY <1>3, <2>2, <2>3
  <2> QED BY <1>7, <2>4 DEF p, q
<1>8. CASE event = "REAUTH" /\ c.sm.started /\ c.sm.GUpdateStationKeys
  <2> DEFINE a == Unmark(c)
             b == [a EXCEPT !.sm.PtkGroupInit = TRUE]
  <2>1. q = Request(b, "ReAuthentication")
    BY <1>8 DEF q, Noted
  <2>2. /\ Shaped(a) /\ a.out = c.out /\ a.driver_ok = c.driver_ok
        /\ Kept(a, c, {"GUpdateStationKeys"}) /\ GroupKept(a, c, {"GKeyDoneStations"})
        /\ a.sm.GUpdateStationKeys = FALSE
        /\ a.group.GKeyDoneStations = c.group.GKeyDoneStations - Mark(c.sm)
    BY <1>1, UnmarkEffect DEF SmTypes
  <2> HIDE DEF a
  <2>3. /\ Shaped(q) /\ q.out = a.out /\ q.driver_ok = a.driver_ok /\ q.group = a.group
        /\ Kept(q, a, {"PtkGroupInit", "requests"}) /\ q.sm.PtkGroupInit = TRUE
        /\ q.sm.requests = a.sm.requests \cup {"ReAuthentication"}
    BY <2>1, <2>2, SmFields DEF Shaped, Kept, Request
  <2>4. /\ Shaped(p) /\ p.group = q.group /\ p.out = q.out /\ p.driver_ok = q.driver_ok
        /\ Kept(p, q, lost) /\ p.sm.PTK_valid = FALSE /\ p.sm.PTK = NoKey
        /\ p.sm.pairwise_set = FALSE /\ p.sm.rekey_timer = FALSE
    BY <1>2, <2>3
  <2>5. Kept(p, c, fresh) /\ GroupKept(p, c, {"GKeyDoneStations"})
    BY <2>2, <2>3, <2>4 DEF Kept, GroupKept
  <2>6. a.sm.requests = {} /\ q.sm.GUpdateStationKeys = FALSE
    BY <1>1, <2>2, <2>3, SmFields DEF Kept
  <2>7. /\ p.sm.TimeoutCtr = c.sm.TimeoutCtr /\ p.sm.GTimeoutCtr = c.sm.GTimeoutCtr
    <3>1. Kept(p, q, lost) /\ Kept(q, a, {"PtkGroupInit", "requests"})
          /\ Kept(a, c, {"GUpdateStationKeys"})
      BY <2>2, <2>3, <2>4
    <3> QED BY <3>1, SmFields DEF Kept
  <2>8. /\ p.sm.GUpdateStationKeys = FALSE /\ p.sm.PtkGroupInit = TRUE
        /\ p.sm.requests = q.sm.requests
    BY <2>3, <2>4, <2>6, SmFields DEF Kept
  <2>9. p.sm.requests = {"ReAuthentication"}
    BY <2>3, <2>6, <2>8
  <2>10. Prepares(p, c)
    BY <2>2, <2>3, <2>4, <2>5, <2>7, <2>8, <2>9, PreparesUnmarked
  <2> QED BY <1>8, <2>4, <2>10 DEF p, q
<1> QED BY <1>1, <1>4, <1>5, <1>6, <1>7, <1>8

\* wpa_auth_sta_associated
AssociatedStart(c) ==
  IF c.sm.started
  THEN Request([c EXCEPT !.sm.counter = 0, !.sm.window = 0], "ReAuthentication")
  ELSE Start(c)

LEMMA AssociatedPrepares ==
  ASSUME NEW c, AtEase(c), c.sm.PTK_valid = FALSE, c.sm.rekey_timer = FALSE
  PROVE  Prepares(AssociatedStart(c), c)
<1> DEFINE p == AssociatedStart(c)
<1>1. /\ Shaped(c) /\ SmTypes(c.sm) /\ c.sm.requests = {} /\ c.group.GKeyDoneStations \in Nat
      /\ c.sm.pairwise_set \in BOOLEAN
  BY RestFacts DEF AtEase, LoopInv, Control, SmTypes, GroupOK
<1>2. CASE c.sm.started
  <2>1. p = Request([c EXCEPT !.sm.counter = 0, !.sm.window = 0], "ReAuthentication")
    BY <1>2 DEF AssociatedStart
  <2> HIDE DEF p
  <2>2. /\ Shaped(p) /\ p.group = c.group /\ p.out = c.out /\ p.driver_ok = c.driver_ok
        /\ Kept(p, c, {"counter", "window", "requests"}) /\ p.sm.counter = 0 /\ p.sm.window = 0
        /\ p.sm.requests = c.sm.requests \cup {"ReAuthentication"}
    BY <1>1, <2>1, SmFields DEF Shaped, Kept, Request
  <2>3. Kept(p, c, {"PTK_valid", "PTK", "key", "pairwise_set", "rekey_timer", "requests",
                    "assoc", "counter", "window", "req_replay_counter"})
    BY <2>2 DEF Kept
  <2>4. /\ p.sm.PTK_valid = FALSE /\ p.sm.PTK = c.sm.PTK /\ p.sm.key = c.sm.key
        /\ p.sm.pairwise_set = c.sm.pairwise_set /\ p.sm.rekey_timer = FALSE
    BY <2>2, SmFields DEF Kept
  <2>5. /\ p.sm.requests = {"ReAuthentication"} /\ p.sm.counter \in Nat
        /\ p.sm.window \in 0..RSNA_MAX_EAPOL_RETRIES
    BY <1>1, <2>2 DEF RSNA_MAX_EAPOL_RETRIES
  <2>6. p.sm.requests \in {{}} \cup {{r} : r \in RequestNames} /\ p.sm.requests # {"PTK"}
    BY <2>5 DEF RequestNames
  <2>7. Prepares(p, c)
    BY <1>1, <2>2, <2>3, <2>4, <2>5, <2>6, PreparesSame
  <2> QED BY <2>7 DEF p
<1>3. CASE ~c.sm.started
  <2>1. p = Start(c)
    BY <1>3 DEF AssociatedStart
  <2> HIDE DEF p
  <2>2. /\ Shaped(p) /\ p.out = c.out /\ p.driver_ok = c.driver_ok
        /\ Kept(p, c, {"started", "GUpdateStationKeys", "PTK_valid", "PTK", "key",
                        "pairwise_set", "rekey_timer", "TimeoutCtr", "authorized",
                        "GTimeoutCtr", "PtkGroupInit", "requests"})
        /\ GroupKept(p, c, {"GKeyDoneStations"})
        /\ p.sm.PTK_valid = FALSE /\ p.sm.PTK = NoKey /\ p.sm.pairwise_set = FALSE
        /\ p.sm.rekey_timer = FALSE /\ p.sm.TimeoutCtr = 0 /\ p.sm.GTimeoutCtr = 0
        /\ p.sm.GUpdateStationKeys = FALSE /\ p.sm.PtkGroupInit = FALSE
        /\ p.sm.requests = c.sm.requests \cup {"Authentication"}
        /\ p.group.GKeyDoneStations = c.group.GKeyDoneStations - Mark(c.sm)
    BY <1>1, <2>1, StartEffect
  <2>3. p.sm.requests = {"Authentication"}
    BY <1>1, <2>2
  <2>4. Prepares(p, c)
    BY <2>2, <2>3, PreparesUnmarked
  <2> QED BY <2>4 DEF p
<1> QED BY <1>2, <1>3

\* wpa_rekey_ptk: the timer that led here is gone.
LEMMA RekeyPrepares ==
  ASSUME NEW c, AtEase(c), c.sm.rekey_timer = TRUE
  PROVE  Prepares(wpa_request_new_ptk([c EXCEPT !.sm.rekey_timer = FALSE]), c)
<1> DEFINE p == wpa_request_new_ptk([c EXCEPT !.sm.rekey_timer = FALSE])
<1>1. /\ Shaped(c) /\ SmTypes(c.sm) /\ c.sm.requests = {}
  BY RestFacts DEF AtEase, LoopInv, Control
<1>2. /\ Shaped(p) /\ p.group = c.group /\ p.out = c.out /\ p.driver_ok = c.driver_ok
      /\ Kept(p, c, {"requests", "PTK_valid", "rekey_timer"}) /\ p.sm.PTK_valid = FALSE
      /\ p.sm.rekey_timer = FALSE /\ p.sm.requests = c.sm.requests \cup {"PTK"}
  BY <1>1, SmFields DEF Shaped, Kept, Request, wpa_request_new_ptk
<1> HIDE DEF p
<1>3. Kept(p, c, {"PTK_valid", "PTK", "key", "pairwise_set", "rekey_timer", "requests",
                  "assoc", "counter", "window", "req_replay_counter"})
  BY <1>2 DEF Kept
<1>4. /\ p.sm.PTK = c.sm.PTK /\ p.sm.key = c.sm.key /\ p.sm.counter = c.sm.counter
      /\ p.sm.pairwise_set = c.sm.pairwise_set /\ p.sm.window = c.sm.window
  BY <1>2, SmFields DEF Kept
<1>5. /\ p.sm.counter \in Nat /\ p.sm.window \in 0..RSNA_MAX_EAPOL_RETRIES
      /\ p.sm.pairwise_set \in BOOLEAN
  BY <1>1, <1>4 DEF SmTypes
<1>6. p.sm.requests \in {{}} \cup {{r} : r \in RequestNames}
  BY <1>1, <1>2 DEF RequestNames
<1>7. Prepares(p, c)
  BY <1>2, <1>3, <1>4, <1>5, <1>6, PreparesSame
<1> QED BY <1>7 DEF p

(* A state machine that is ready to run, and has no frame to look at.      *)
Starts(p, c) ==
  /\ LoopInv(p) /\ Rounds(p.sm) <= 6 /\ GroupPart(p, c) /\ Softer(p.sm, c.sm)
  /\ p.out = c.out /\ p.group.Counter = c.group.Counter

LEMMA PreparesStarts ==
  ASSUME NEW c, NEW p, AtEase(c), Prepares(p, c)
  PROVE  Starts(p, c)
BY ReadyRuns DEF Prepares, Starts, AtEase, LoopInv, GroupPart

\* wpa_send_eapol_timeout
LEMMA TimeoutStarts ==
  ASSUME NEW c, AtEase(c), c.sm.timers > 0
  PROVE  LET p == [c EXCEPT !.sm.timers = @ - 1, !.sm.TimeoutEvt = TRUE] IN
         Starts(p, c) /\ (OnWayOut(c.sm) => OnWayOut(p.sm))
<1> DEFINE p == [c EXCEPT !.sm.timers = @ - 1, !.sm.TimeoutEvt = TRUE]
           m == c.sm
           n == p.sm
<1>1. /\ LoopInv(c) /\ Shaped(c) /\ Control(m) /\ SmTypes(m) /\ Stays(m) /\ GroupStays(m)
      /\ m.rx # "pairwise" /\ m.rx # "group" /\ m.requests = {} /\ ~m.PtkGroupInit
  BY RestFacts DEF AtEase, LoopInv, Control, GroupStays
<1>2. /\ Shaped(p) /\ p.group = c.group /\ p.out = c.out /\ p.driver_ok = c.driver_ok
      /\ Kept(p, c, {"timers", "TimeoutEvt"}) /\ n.timers = m.timers - 1 /\ n.TimeoutEvt = TRUE
  BY <1>1, SmFields DEF Shaped, Kept
<1> HIDE DEF p
<1>3. /\ n.exists = m.exists /\ n.PTK = m.PTK /\ n.key = m.key
      /\ n.ptk_state = m.ptk_state /\ n.group_state = m.group_state
      /\ n.requests = m.requests /\ n.PtkGroupInit = m.PtkGroupInit
      /\ n.TimeoutCtr = m.TimeoutCtr /\ n.GTimeoutCtr = m.GTimeoutCtr
      /\ n.rekey_timer = m.rekey_timer /\ n.rx = m.rx
      /\ n.MICVerified = m.MICVerified
      /\ n.GUpdateStationKeys = m.GUpdateStationKeys /\ n.ANonce = m.ANonce
      /\ n.PTK_valid = m.PTK_valid /\ n.pairwise_set = m.pairwise_set
      /\ n.counter = m.counter /\ n.window = m.window /\ n.leaving = m.leaving
  BY <1>2, SmFields DEF Kept
<1>4. n.timers \in Nat
  BY <1>1, <1>2 DEF SmTypes
<1>5. Control(n)
  <2>1. SmTypes(n)
    BY <1>1, <1>2, <1>3, <1>4 DEF SmTypes
  <2>2. FrameExpected(n) /\ TimeoutHandled(n)
    BY <1>1, <1>3 DEF FrameExpected, TimeoutHandled, Stays, Waiting
  <2>3. PtkInvalid(n) => ~n.PTK_valid
    BY <1>1, <1>3 DEF PtkInvalid, Control
  <2> QED BY <1>1, <1>3, <2>1, <2>2, <2>3 DEF Control
<1>6. Rounds(n) <= 6
  <2>1. CASE m.ptk_state \in Waiting
    <3>1. GroupRounds(n) = 0
      BY <1>1, <1>3, <2>1, WpaAssumption DEF GroupRounds, GroupStays, SmTypes
    <3> QED BY <1>5, <3>1, RoundsTypes DEF Rounds
  <2>2. CASE m.ptk_state \notin Waiting
    <3>1. PtkRounds(n) = 0
      BY <1>1, <1>3, <2>2 DEF PtkRounds, StateRounds, Stays
    <3> QED BY <1>5, <3>1, RoundsTypes DEF Rounds
  <2> QED BY <2>1, <2>2
<1>7. GroupPart(p, c)
  BY <1>1, <1>2, <1>3, GroupPartSame
<1>8. LoopInv(p)
  BY <1>5, <1>7 DEF LoopInv, GroupPart
<1>9. Softer(n, m)
  BY <1>1, <1>3 DEF Softer
<1>10. OnWayOut(m) => OnWayOut(n)
  BY <1>3 DEF OnWayOut, Closing
<1> QED BY <1>2, <1>6, <1>7, <1>8, <1>9, <1>10 DEF Starts, p

\* wpa_receive, up to the MIC
LEMMA CheckedEffect ==
  ASSUME NEW c, Shaped(c), NEW f
  PROVE  LET d == Checked(c, f) IN
         /\ Shaped(d) /\ d.group = c.group /\ d.out = c.out /\ d.driver_ok = c.driver_ok
         /\ Kept(d, c, {"MICVerified", "timers"})
         /\ d.sm.MICVerified = MicFits(c.sm, f)
         /\ d.sm.timers \in {c.sm.timers, 0}
BY SmFields DEF Shaped, Checked, Kept

LEMMA CheckedRests ==
  ASSUME NEW c, AtEase(c), NEW f, ~MicFits(c.sm, f)
  PROVE  LET d == Checked(c, f) IN
         /\ Settled(d, c) /\ Softer(d.sm, c.sm) /\ d.out = c.out
         /\ d.group.Counter = c.group.Counter
<1> DEFINE d == Checked(c, f)
           m == c.sm
           n == d.sm
<1>1. /\ LoopInv(c) /\ Shaped(c) /\ Control(m) /\ SmTypes(m) /\ Stays(m) /\ GroupStays(m)
      /\ m.rx # "pairwise" /\ m.rx # "group" /\ m.requests = {} /\ Rounds(m) = 0
  BY RestFacts DEF AtEase, LoopInv, Control
<1>2. /\ Shaped(d) /\ d.group = c.group /\ d.out = c.out /\ d.driver_ok = c.driver_ok
      /\ Kept(d, c, {"MICVerified", "timers"})
      /\ n.MICVerified = FALSE /\ n.timers \in {m.timers, 0}
  BY <1>1, CheckedEffect
<1> HIDE DEF d
<1>3. /\ n.exists = m.exists /\ n.PTK = m.PTK /\ n.key = m.key
      /\ n.ptk_state = m.ptk_state /\ n.group_state = m.group_state
      /\ n.requests = m.requests /\ n.PtkGroupInit = m.PtkGroupInit
      /\ n.TimeoutCtr = m.TimeoutCtr /\ n.GTimeoutCtr = m.GTimeoutCtr
      /\ n.TimeoutEvt = m.TimeoutEvt /\ n.rekey_timer = m.rekey_timer
      /\ n.rx = m.rx /\ n.GUpdateStationKeys = m.GUpdateStationKeys
      /\ n.ANonce = m.ANonce /\ n.PTK_valid = m.PTK_valid
      /\ n.pairwise_set = m.pairwise_set /\ n.counter = m.counter
      /\ n.window = m.window /\ n.leaving = m.leaving
  BY <1>2, SmFields DEF Kept
<1>4. n.timers \in Nat
  BY <1>1, <1>2 DEF SmTypes
<1>5. Control(n)
  <2>1. SmTypes(n)
    BY <1>1, <1>2, <1>3, <1>4 DEF SmTypes
  <2>2. FrameExpected(n) /\ TimeoutHandled(n)
    BY <1>1, <1>2, <1>3 DEF FrameExpected, TimeoutHandled, Control
  <2>3. PtkInvalid(n) => ~n.PTK_valid
    BY <1>1, <1>2, <1>3 DEF PtkInvalid, Control, Stays
  <2> QED BY <1>1, <1>3, <2>1, <2>2, <2>3 DEF Control
<1>6. Rounds(n) = 0
  <2>1. PtkRounds(n) = PtkRounds(m) /\ GroupRounds(n) = GroupRounds(m)
    BY <1>1, <1>2, <1>3 DEF PtkRounds, StateRounds, GroupRounds, Stays
  <2> QED BY <1>1, <2>1 DEF Rounds
<1>7. GroupPart(d, c) /\ Softer(n, m)
  BY <1>1, <1>2, <1>3, GroupPartSame DEF Softer
<1>8. OnWayOut(m) => OnWayOut(n)
  BY <1>3 DEF OnWayOut, Closing
<1>9. Settled(d, c)
  BY <1>5, <1>6, <1>7, <1>8, RestIsZero DEF Settled, LoopInv, GroupPart
<1> QED BY <1>2, <1>7, <1>9 DEF d

\* wpa_receive, for a frame that is taken
IsKeyFrame(f) == f.type \in {"2/4", "4/4", "2/2", "Request"}
TakenNow(c, f) ==
  /\ IsKeyFrame(f) /\ Accepted(c.sm, f)
  /\ MicFits(c.sm, f) \/ ~(c.sm.PTK_valid \/ f.type = "Request")

LEMMA TakenEffect ==
  ASSUME NEW c, Shaped(c), NEW f, IsKeyFrame(f)
  PROVE  LET d == Taken(Checked(c, f), f) IN
         /\ Shaped(d) /\ d.group = c.group /\ d.out = c.out /\ d.driver_ok = c.driver_ok
         /\ d.sm.MICVerified = MicFits(c.sm, f) /\ d.sm.timers \in {c.sm.timers, 0}
         /\ d.sm.last_mic = f.mic /\ d.sm.SNonce = f.nonce
         /\ f.type = "Request" =>
              /\ Kept(d, c, {"MICVerified", "timers", "requests", "PTK_valid",
                             "req_replay_counter", "last_mic", "SNonce", "rx"})
              /\ d.sm.requests = c.sm.requests \cup {"PTK"} /\ d.sm.PTK_valid = FALSE
              /\ d.sm.rx = "request"
         /\ f.type # "Request" =>
              /\ Kept(d, c, {"MICVerified", "timers", "window", "last_mic", "SNonce", "rx"})
              /\ d.sm.window = 0
              /\ d.sm.rx = IF f.type = "2/2" THEN "group" ELSE "pairwise"
<1> DEFINE b == Checked(c, f)
           d == Taken(b, f)
           mic == f.mic
           nonce == f.nonce
           replay == f.replay
           fits == MicFits(c.sm, f)
           chk == {"MICVerified", "timers"}
<1>1. /\ Shaped(b) /\ b.group = c.group /\ b.out = c.out /\ b.driver_ok = c.driver_ok
      /\ Kept(b, c, chk) /\ b.sm.MICVerified = fits
      /\ b.sm.timers \in {c.sm.timers, 0}
  BY CheckedEffect
<1> HIDE DEF b, fits
<1>2. b.sm.requests = c.sm.requests
  BY <1>1, SmFields DEF Kept
<1>3. CASE f.type = "Request"
  <2> DEFINE e == wpa_request_new_ptk(b)
             g == [e EXCEPT !.sm.req_replay_counter = replay]
             h == [g EXCEPT !.sm.last_mic = mic, !.sm.SNonce = nonce, !.sm.rx = "request"]
             set == {"requests", "PTK_valid", "req_replay_counter", "last_mic", "SNonce", "rx"}
  <2>1. d = h
    BY <1>3 DEF Taken
  <2> HIDE DEF mic, nonce, replay, d
  <2>2. /\ Shaped(h) /\ h.group = b.group /\ h.out = b.out /\ h.driver_ok = b.driver_ok
        /\ Kept(h, b, set) /\ h.sm.requests = b.sm.requests \cup {"PTK"}
        /\ h.sm.PTK_valid = FALSE /\ h.sm.rx = "request" /\ h.sm.last_mic = mic
        /\ h.sm.SNonce = nonce
    BY <1>1, SmFields DEF Shaped, Kept, wpa_request_new_ptk, Request
  <2> HIDE DEF h
  <2>3. Kept(h, c, chk \cup set)
    BY <1>1, <2>2, KeptTwice
  <2>4. h.sm.MICVerified = b.sm.MICVerified /\ h.sm.timers = b.sm.timers
    BY <2>2, SmFields DEF Kept
  <2>5. Kept(h, c, {"MICVerified", "timers", "requests", "PTK_valid",
                    "req_replay_counter", "last_mic", "SNonce", "rx"})
    BY <2>3
  <2>6. /\ Shaped(d) /\ d.group = c.group /\ d.out = c.out /\ d.driver_ok = c.driver_ok
        /\ d.sm.MICVerified = fits /\ d.sm.timers \in {c.sm.timers, 0}
        /\ d.sm.last_mic = mic /\ d.sm.SNonce = nonce
    BY <1>1, <2>1, <2>2, <2>4
  <2>7. d.sm.requests = c.sm.requests \cup {"PTK"} /\ d.sm.PTK_valid = FALSE /\ d.sm.rx = "request"
    BY <1>2, <2>1, <2>2
  <2> QED BY <1>3, <2>1, <2>5, <2>6, <2>7 DEF d, b, mic, nonce, fits
<1>4. CASE f.type # "Request"
  <2> DEFINE rx == IF f.type = "2/2" THEN "group" ELSE "pairwise"
             g == [b EXCEPT !.sm.window = 0]
             h == [g EXCEPT !.sm.last_mic = mic, !.sm.SNonce = nonce, !.sm.rx = rx]
             set == {"window", "last_mic", "SNonce", "rx"}
  <2>1. d = h
    BY <1>4 DEF Taken, IsKeyFrame
  <2> HIDE DEF mic, nonce, replay, d, rx
  <2>2. /\ Shaped(h) /\ h.group = b.group /\ h.out = b.out /\ h.driver_ok = b.driver_ok
        /\ Kept(h, b, set) /\ h.sm.window = 0 /\ h.sm.rx = rx /\ h.sm.last_mic = mic
        /\ h.sm.SNonce = nonce
    BY <1>1, SmFields DEF Shaped, Kept
  <2> HIDE DEF h
  <2>3. Kept(h, c, chk \cup set)
    BY <1>1, <2>2, KeptTwice
  <2>4. h.sm.MICVerified = b.sm.MICVerified /\ h.sm.timers = b.sm.timers
    BY <2>2, SmFields DEF Kept
  <2>5. Kept(h, c, {"MICVerified", "timers", "window", "last_mic", "SNonce", "rx"})
    BY <2>3
  <2>6. /\ Shaped(d) /\ d.group = c.group /\ d.out = c.out /\ d.driver_ok = c.driver_ok
        /\ d.sm.MICVerified = fits /\ d.sm.timers \in {c.sm.timers, 0}
        /\ d.sm.last_mic = mic /\ d.sm.SNonce = nonce
    BY <1>1, <2>1, <2>2, <2>4
  <2>7. d.sm.window = 0 /\ d.sm.rx = rx
    BY <2>1, <2>2
  <2> QED BY <1>4, <2>1, <2>5, <2>6, <2>7 DEF d, b, mic, nonce, fits, rx
<1> QED BY <1>3, <1>4

LEMMA TakenStarts ==
  ASSUME NEW c, AtEase(c), NEW f, TakenNow(c, f)
  PROVE  LET p == Taken(Checked(c, f), f) IN
         /\ LoopInv(p) /\ Rounds(p.sm) <= 6 /\ GroupPart(p, c)
         /\ OnWayOut(c.sm) => OnWayOut(p.sm)
         /\ f.type \in {"2/2", "Request"} => Softer(p.sm, c.sm)
<1> DEFINE p == Taken(Checked(c, f), f)
           m == c.sm
           n == p.sm
           chk == {"MICVerified", "timers", "window", "last_mic", "SNonce", "rx"}
<1>1. /\ LoopInv(c) /\ Shaped(c) /\ Control(m) /\ SmTypes(m) /\ Stays(m) /\ GroupStays(m)
      /\ m.rx # "pairwise" /\ m.rx # "group" /\ m.requests = {}
      /\ f.type \in {"2/4", "4/4", "2/2", "Request"} /\ UpdateCount \in Nat
  BY RestFacts, WpaAssumption DEF AtEase, LoopInv, Control, TakenNow, IsKeyFrame
<1>0. Shaped(c) /\ IsKeyFrame(f)
  BY <1>1 DEF TakenNow
<1>2. /\ Shaped(p) /\ p.group = c.group /\ p.out = c.out /\ p.driver_ok = c.driver_ok
      /\ n.MICVerified = MicFits(m, f) /\ n.timers \in {m.timers, 0}
  BY <1>0, TakenEffect
<1>3. n.timers \in Nat /\ n.MICVerified \in BOOLEAN
  BY <1>1, <1>2 DEF SmTypes, MicFits
<1>4. ASSUME Control(n), Rounds(n) <= 6, n.exists = m.exists, n.leaving = m.leaving,
             n.GUpdateStationKeys = m.GUpdateStationKeys, ~(OnWayOut(m) /\ m.leaving)
      PROVE  /\ LoopInv(p) /\ Rounds(p.sm) <= 6 /\ GroupPart(p, c)
             /\ OnWayOut(c.sm) => OnWayOut(p.sm)
  <2>1. GroupPart(p, c)
    BY <1>1, <1>2, <1>4, GroupPartSame
  <2> QED BY <1>4, <2>1 DEF LoopInv, GroupPart, OnWayOut
<1>5. ~(OnWayOut(m) /\ m.leaving)
  <2>1. SUFFICES ASSUME OnWayOut(m), m.leaving PROVE FALSE
    OBVIOUS
  <2>2. m.ptk_state = "INITIALIZE"
    BY <1>1, <2>1 DEF OnWayOut, Closing, Stays, Waiting
  <2>3. ~m.PTK_valid
    BY <1>1, <2>2 DEF Control, PtkInvalid
  <2> QED BY <1>1, <2>2, <2>3 DEF TakenNow, Accepted, MicFits
<1>6. CASE f.type = "Request"
  <2>1. /\ Kept(p, c, {"MICVerified", "timers", "requests", "PTK_valid",
                       "req_replay_counter", "last_mic", "SNonce", "rx"})
        /\ n.requests = m.requests \cup {"PTK"} /\ n.PTK_valid = FALSE /\ n.rx = "request"
    BY <1>0, <1>6, TakenEffect
  <2> HIDE DEF p
  <2>2. /\ n.exists = m.exists /\ n.PTK = m.PTK /\ n.key = m.key
        /\ n.ptk_state = m.ptk_state /\ n.group_state = m.group_state
        /\ n.PtkGroupInit = m.PtkGroupInit /\ n.TimeoutCtr = m.TimeoutCtr
        /\ n.GTimeoutCtr = m.GTimeoutCtr /\ n.TimeoutEvt = m.TimeoutEvt
        /\ n.rekey_timer = m.rekey_timer
        /\ n.GUpdateStationKeys = m.GUpdateStationKeys /\ n.ANonce = m.ANonce
        /\ n.pairwise_set = m.pairwise_set /\ n.counter = m.counter
        /\ n.window = m.window /\ n.leaving = m.leaving
    BY <2>1, SmFields DEF Kept
  <2>3. n.requests = {"PTK"} /\ m.PTK_valid /\ ~m.PtkGroupInit
    BY <1>1, <1>6, <2>1 DEF TakenNow, MicFits, GroupStays
  <2>4. Control(n)
    <3>1. SmTypes(n)
      BY <1>1, <1>3, <2>1, <2>2, <2>3 DEF SmTypes, RequestNames
    <3>2. FrameExpected(n) /\ TimeoutHandled(n)
      BY <1>1, <2>1, <2>2 DEF FrameExpected, TimeoutHandled, Stays
    <3> QED BY <1>1, <2>1, <2>2, <3>1, <3>2 DEF Control
  <2>5. GroupRounds(n) = 0
    BY <1>1, <2>1, <2>2, WpaAssumption DEF GroupRounds, GroupStays, SmTypes
  <2>6. Rounds(n) <= 6
    BY <2>4, <2>5, RoundsTypes DEF Rounds
  <2>7. Softer(n, m)
    BY <2>1, <2>2, <2>3 DEF Softer
  <2> QED BY <1>4, <1>5, <2>2, <2>4, <2>6, <2>7 DEF p
<1>7. CASE f.type # "Request"
  <2>1. /\ Kept(p, c, chk) /\ n.window = 0
        /\ n.rx = IF f.type = "2/2" THEN "group" ELSE "pairwise"
    BY <1>0, <1>7, TakenEffect
  <2> HIDE DEF p
  <2>2. /\ n.exists = m.exists /\ n.PTK = m.PTK /\ n.key = m.key
        /\ n.ptk_state = m.ptk_state /\ n.group_state = m.group_state
        /\ n.requests = m.requests /\ n.PtkGroupInit = m.PtkGroupInit
        /\ n.TimeoutCtr = m.TimeoutCtr /\ n.GTimeoutCtr = m.GTimeoutCtr
        /\ n.TimeoutEvt = m.TimeoutEvt /\ n.rekey_timer = m.rekey_timer
        /\ n.GUpdateStationKeys = m.GUpdateStationKeys /\ n.ANonce = m.ANonce
        /\ n.PTK_valid = m.PTK_valid /\ n.pairwise_set = m.pairwise_set
        /\ n.counter = m.counter /\ n.leaving = m.leaving
    BY <2>1, SmFields DEF Kept
  <2>3. /\ n.window \in 0..RSNA_MAX_EAPOL_RETRIES
        /\ n.rx \in {"none", "pairwise", "group", "request"}
    BY <2>1 DEF RSNA_MAX_EAPOL_RETRIES
  <2>4. SmTypes(n)
    BY <1>1, <1>3, <2>2, <2>3 DEF SmTypes
  <2>5. CASE f.type = "2/4"
    <3>1. m.ptk_state \in {"PTKSTART", "PTKCALCNEGOTIATING"} /\ ~m.TimeoutEvt /\ ~m.PtkGroupInit
      BY <1>1, <2>5 DEF TakenNow, Accepted, Stays, Waiting, GroupStays
    <3>2. ~m.PTK_valid
      BY <1>1, <3>1 DEF Control, PtkInvalid, Stays
    <3>3. ~n.MICVerified /\ n.rx = "pairwise"
      BY <1>2, <2>1, <2>5, <3>2 DEF MicFits
    <3>4. FrameExpected(n) /\ TimeoutHandled(n)
      BY <1>1, <2>2, <3>1, <3>3 DEF FrameExpected, TimeoutHandled
    <3>5. Control(n)
      BY <1>1, <2>2, <2>4, <3>1, <3>2, <3>3, <3>4 DEF Control
    <3>6. GroupRounds(n) = 0
      BY <1>1, <2>2, <3>3, WpaAssumption DEF GroupRounds, GroupStays, SmTypes
    <3>7. Rounds(n) <= 6
      BY <3>5, <3>6, RoundsTypes DEF Rounds
    <3> QED BY <1>4, <1>5, <2>2, <2>5, <3>5, <3>7 DEF p
  <2>6. CASE f.type = "4/4"
    <3>1. m.ptk_state = "PTKINITNEGOTIATING" /\ m.PTK_valid /\ ~m.TimeoutEvt /\ ~m.PtkGroupInit
      BY <1>1, <2>6 DEF TakenNow, Accepted, Stays, Waiting, GroupStays
    <3>2. n.MICVerified /\ n.rx = "pairwise"
      BY <1>2, <2>1, <2>6, <3>1 DEF TakenNow
    <3>3. FrameExpected(n) /\ TimeoutHandled(n)
      BY <1>1, <2>2, <3>1, <3>2 DEF FrameExpected, TimeoutHandled
    <3>4. ~PtkInvalid(n)
      BY <1>1, <2>2, <3>1 DEF PtkInvalid
    <3>5. Control(n)
      BY <1>1, <2>2, <2>4, <3>1, <3>2, <3>3, <3>4 DEF Control
    <3>6. GroupRounds(n) = 0
      BY <1>1, <2>2, <3>2, WpaAssumption DEF GroupRounds, GroupStays, SmTypes
    <3>7. Rounds(n) <= 6
      BY <3>5, <3>6, RoundsTypes DEF Rounds
    <3> QED BY <1>4, <1>5, <2>2, <2>6, <3>5, <3>7 DEF p
  <2>7. CASE f.type = "2/2"
    <3>1. m.group_state = "REKEYNEGOTIATING" /\ m.PTK_valid /\ ~m.PtkGroupInit
      BY <1>1, <2>7 DEF TakenNow, Accepted, GroupStays
    <3>2. n.MICVerified /\ n.rx = "group"
      BY <1>2, <2>1, <2>7, <3>1 DEF TakenNow
    <3>3. m.ptk_state \notin {"PTKSTART", "PTKCALCNEGOTIATING"}
      BY <1>1, <3>1 DEF Control, PtkInvalid, Stays
    <3>4. FrameExpected(n) /\ TimeoutHandled(n)
      BY <1>1, <2>2, <3>1, <3>2, <3>3 DEF FrameExpected, TimeoutHandled, Stays
    <3>5. PtkInvalid(n) => ~n.PTK_valid
      BY <1>1, <2>2, <3>3 DEF PtkInvalid, Control
    <3>6. Control(n)
      BY <1>1, <2>2, <2>4, <3>1, <3>2, <3>4, <3>5 DEF Control
    <3>7. PtkRounds(n) = 0
      BY <1>1, <2>2, <3>2, <3>3, WpaAssumption DEF PtkRounds, StateRounds, Stays, Waiting, SmTypes
    <3>8. Rounds(n) <= 6
      BY <3>6, <3>7, RoundsTypes DEF Rounds
    <3>9. Softer(n, m)
      BY <1>1, <2>2, <3>2 DEF Softer
    <3> QED BY <1>4, <1>5, <2>2, <2>7, <3>6, <3>8, <3>9 DEF p
  <2> QED BY <1>1, <1>7, <2>5, <2>6, <2>7
<1> QED BY <1>6, <1>7

-----------------------------------------------------------------------------
(***************************************************************************)
(* wpa_group_update_sta: the station is marked, and stays so.              *)
(***************************************************************************)
Updates(d, c) ==
  /\ LoopInv(d) /\ Resting(d.sm) /\ d.sm.GUpdateStationKeys = TRUE
  /\ d.sm.exists = c.sm.exists /\ d.sm.leaving = c.sm.leaving
  /\ Softer(d.sm, c.sm) /\ SentOther(d.out, c.out)

LEMMA MarkedRuns ==
  ASSUME NEW p, LoopInv(p), p.driver_ok = TRUE, p.sm.GUpdateStationKeys = TRUE,
         p.sm.ptk_state = "PTKINITDONE", p.sm.requests = {}, p.sm.rx # "group",
         ~p.sm.PtkGroupInit, p.sm.group_state \in {"IDLE", "REKEYNEGOTIATING"},
         p.sm.group_state = "REKEYNEGOTIATING" => GroupStays(p.sm)
  PROVE  LET d == wpa_sm_step(p) IN
         /\ LoopInv(d) /\ Resting(d.sm) /\ SentOther(d.out, p.out)
         /\ Kept(d, p, {"group_state", "GTimeoutCtr", "TimeoutEvt", "counter", "window",
                        "timers"})
<1> DEFINE m == p.sm
           d == wpa_sm_step(p)
           used == {"group_state", "GTimeoutCtr", "TimeoutEvt", "counter", "window", "timers"}
<1>1. Control(m) /\ SmTypes(m) /\ m.rx # "pairwise" /\ Shaped(p)
  BY DEF LoopInv, Control, FrameExpected
<1>2. PtkRounds(m) = 0 /\ Mid(m)
  BY <1>1 DEF PtkRounds, StateRounds, Mid, Waiting
<1>3. GroupRounds(m) = IF m.group_state = "IDLE" THEN 1 ELSE 0
  BY <1>1, WpaAssumption DEF GroupRounds, GroupStays, SmTypes
<1>4. LoopInv(d) /\ Resting(d.sm)
  <2>1. Rounds(m) <= 6
    BY <1>2, <1>3 DEF Rounds
  <2>2. p.driver_ok \in BOOLEAN
    OBVIOUS
  <2>3. Onward(d, p) /\ Resting(d.sm)
    BY <2>1, <2>2, ComesToRest
  <2> QED BY <2>3 DEF Onward
<1>5. CASE m.group_state = "REKEYNEGOTIATING"
  <2>1. Rounds(m) = 0
    BY <1>2, <1>3, <1>5 DEF Rounds
  <2>2. d.sm = p.sm /\ d.out = p.out
    BY <2>1, RestStays
  <2>3. Kept(d, p, used) /\ SentOther(d.out, p.out)
    BY <2>2 DEF Kept, SentOther
  <2> QED BY <1>4, <2>3
<1>6. CASE m.group_state = "IDLE"
  <2> DEFINE e == EnterGroup(p, "REKEYNEGOTIATING")
             x == StepOnce(p)
             y == StepOnce(x)
             z == StepOnce(y)
  <2>1. PtkStep(p) = p
    <3> DEFINE a == PtkStep(p)
    <3>1. Fewer(a, p) \/ a = p
      BY PtkHalf
    <3> HIDE DEF a
    <3>2. Fewer(a, p) => FALSE
      BY <1>2, RoundsTypes DEF Fewer
    <3> QED BY <3>1, <3>2 DEF a
  <2>2. PtkGroupStep(p) = e
    BY <1>6 DEF PtkGroupStep, GroupNext
  <2>3. /\ Shaped(e) /\ Kept(e, p, used) /\ SentOther(e.out, p.out)
    BY <1>1, EnterREKEYNEGOTIATING
  <2>4. x.sm = e.sm /\ x.out = e.out
    BY <2>1, <2>2, <2>3 DEF StepOnce, Shaped
  <2>5. Onward(x, p) /\ (Rounds(x.sm) < Rounds(m) \/ Rounds(x.sm) = 0)
    BY StepOnceOnward
  <2> HIDE DEF x, e
  <2>6. LoopInv(x) /\ x.driver_ok \in BOOLEAN /\ Rounds(x.sm) = 0
    <3>1. LoopInv(x) /\ x.driver_ok \in BOOLEAN /\ Control(x.sm)
      BY <2>5 DEF Onward, GroupPart, LoopInv
    <3>2. Rounds(x.sm) \in Nat /\ Rounds(m) = 1
      BY <1>2, <1>3, <1>6, <3>1, RoundsTypes DEF Rounds
    <3> QED BY <2>5, <3>1, <3>2
  <2>7. y.sm = x.sm /\ y.out = x.out /\ LoopInv(y) /\ y.driver_ok \in BOOLEAN
    BY <2>6, RestStaysOnce, StepOnceOnward DEF Onward, GroupPart
  <2> HIDE DEF y
  <2>8. z.sm = x.sm /\ z.out = x.out /\ LoopInv(z) /\ z.driver_ok \in BOOLEAN
    BY <2>6, <2>7, RestStaysOnce, StepOnceOnward DEF Onward, GroupPart
  <2>9. d = ThreeSteps(z)
    BY DEF wpa_sm_step, ThreeSteps, x, y
  <2> HIDE DEF z, d
  <2>10. d.sm = x.sm /\ d.out = x.out
    BY <2>6, <2>8, <2>9, RestStays
  <2>11. Kept(d, p, used) /\ SentOther(d.out, p.out)
    BY <2>3, <2>4, <2>10 DEF Kept
  <2> QED BY <1>4, <2>11 DEF d
<1> QED BY <1>5, <1>6

LEMMA UpdateRuns ==
  ASSUME NEW c, AtEase(c), c.driver_ok = TRUE, c.sm.ptk_state = "PTKINITDONE"
  PROVE  Updates(wpa_group_update_sta(c), c)
<1> DEFINE m == c.sm
           p == IF m.GUpdateStationKeys THEN c
                ELSE [c EXCEPT !.sm.GUpdateStationKeys = TRUE, !.group.GKeyDoneStations = @ + 1]
           n == p.sm
           d == wpa_sm_step(p)
           used == {"group_state", "GTimeoutCtr", "TimeoutEvt", "counter", "window", "timers"}
<1>1. wpa_group_update_sta(c) = d
  BY DEF wpa_group_update_sta
<1>2. /\ LoopInv(c) /\ Shaped(c) /\ Control(m) /\ SmTypes(m) /\ GroupStays(m)
      /\ m.rx # "pairwise" /\ m.rx # "group" /\ m.requests = {} /\ GroupOK(c.group)
      /\ m.GUpdateStationKeys \in BOOLEAN
  BY RestFacts DEF AtEase, LoopInv, Control, SmTypes
<1>3. /\ Shaped(p) /\ p.out = c.out /\ p.driver_ok = c.driver_ok
      /\ Kept(p, c, {"GUpdateStationKeys"}) /\ n.GUpdateStationKeys = TRUE
      /\ GroupKept(p, c, {"GKeyDoneStations"})
      /\ p.group.GKeyDoneStations \in {c.group.GKeyDoneStations, c.group.GKeyDoneStations + 1}
      /\ m.GUpdateStationKeys = FALSE
           => p.group.GKeyDoneStations = c.group.GKeyDoneStations + 1
      /\ m.GUpdateStationKeys = TRUE => p = c
  <2>1. CASE m.GUpdateStationKeys = TRUE
    <3>1. p = c
      BY <2>1
    <3> QED BY <1>2, <2>1, <3>1 DEF Kept, GroupKept
  <2>2. CASE m.GUpdateStationKeys = FALSE
    <3>1. p = [c EXCEPT !.sm.GUpdateStationKeys = TRUE, !.group.GKeyDoneStations = @ + 1]
      BY <2>2
    <3> HIDE DEF p
    <3> QED BY <1>2, <2>2, <3>1, SmFields, GroupFields DEF Shaped, Kept, GroupKept
  <2> QED BY <1>2, <2>1, <2>2
<1> HIDE DEF p
<1>4. /\ n.exists = m.exists /\ n.PTK = m.PTK /\ n.key = m.key
      /\ n.ptk_state = m.ptk_state /\ n.group_state = m.group_state
      /\ n.requests = m.requests /\ n.PtkGroupInit = m.PtkGroupInit
      /\ n.TimeoutCtr = m.TimeoutCtr /\ n.GTimeoutCtr = m.GTimeoutCtr
      /\ n.TimeoutEvt = m.TimeoutEvt /\ n.timers = m.timers
      /\ n.rekey_timer = m.rekey_timer /\ n.rx = m.rx
      /\ n.MICVerified = m.MICVerified /\ n.ANonce = m.ANonce
      /\ n.PTK_valid = m.PTK_valid /\ n.pairwise_set = m.pairwise_set
      /\ n.counter = m.counter /\ n.window = m.window /\ n.leaving = m.leaving
  BY <1>3, SmFields DEF Kept
<1>5. ~m.PtkGroupInit /\ m.group_state \in {"IDLE", "REKEYNEGOTIATING"}
  BY <1>2 DEF GroupStays
<1>6. Control(n)
  <2>1. SmTypes(n)
    BY <1>2, <1>3, <1>4 DEF SmTypes
  <2>2. FrameExpected(n) /\ TimeoutHandled(n) /\ (PtkInvalid(n) => ~n.PTK_valid)
    BY <1>2, <1>4 DEF FrameExpected, TimeoutHandled, PtkInvalid, Control, Waiting
  <2> QED BY <1>2, <1>4, <1>5, <2>1, <2>2 DEF Control
<1>7. LoopInv(p)
  <2>1. /\ p.group.state = c.group.state /\ p.group.GN = c.group.GN /\ p.group.GM = c.group.GM
        /\ p.group.Counter = c.group.Counter
    BY <1>3, GroupFields DEF GroupKept
  <2>2. GroupOK(p.group)
    BY <1>2, <1>3, <2>1 DEF GroupOK
  <2>3. Mark(n) <= p.group.GKeyDoneStations
    <3>1. CASE m.GUpdateStationKeys = TRUE
      BY <1>2, <1>3, <3>1 DEF LoopInv
    <3>2. CASE m.GUpdateStationKeys = FALSE
      BY <1>2, <1>3, <3>2 DEF Mark, GroupOK
    <3> QED BY <1>2, <3>1, <3>2
  <2> QED BY <1>3, <1>6, <2>2, <2>3 DEF LoopInv
<1>8. m.group_state = "REKEYNEGOTIATING" => GroupStays(n)
  BY <1>2, <1>4 DEF GroupStays
<1>9. LoopInv(d) /\ Resting(d.sm) /\ SentOther(d.out, p.out) /\ Kept(d, p, used)
  BY <1>2, <1>3, <1>4, <1>5, <1>7, <1>8, MarkedRuns
<1> HIDE DEF d
<1>10. /\ d.sm.ANonce = n.ANonce /\ d.sm.ptk_state = n.ptk_state /\ d.sm.leaving = n.leaving
       /\ d.sm.rx = n.rx /\ d.sm.PTK = n.PTK /\ d.sm.PTK_valid = n.PTK_valid
       /\ d.sm.pairwise_set = n.pairwise_set /\ d.sm.key = n.key
       /\ d.sm.rekey_timer = n.rekey_timer /\ d.sm.requests = n.requests
       /\ d.sm.exists = n.exists /\ d.sm.GUpdateStationKeys = n.GUpdateStationKeys
  BY <1>9, SmFields DEF Kept
<1>11. Softer(d.sm, m)
  BY <1>2, <1>4, <1>10 DEF Softer
<1> QED BY <1>1, <1>3, <1>4, <1>9, <1>10, <1>11 DEF Updates

-----------------------------------------------------------------------------
(***************************************************************************)
(* The events of hostapd, each from one rest to the next.                  *)
(***************************************************************************)
LEMMA NewSmFacts ==
  /\ Control(NewSm) /\ Resting(NewSm) /\ Mark(NewSm) = 0
  /\ ~NewSm.exists /\ NewSm.timers = 0 /\ ~NewSm.rekey_timer /\ ~NewSm.leaving
  /\ NewSm.ptk_state = "INITIALIZE"
<1>1. SmTypes(NewSm)
  BY DEF NewSm, SmTypes, SmStates, GroupStates, RSNA_MAX_EAPOL_RETRIES
<1>2. Control(NewSm)
  BY <1>1 DEF NewSm, Control, FrameExpected, TimeoutHandled, PtkInvalid, Waiting
<1>3. PtkRounds(NewSm) = 0 /\ GroupRounds(NewSm) = 0
  BY DEF NewSm, PtkRounds, StateRounds, GroupRounds
<1>4. Resting(NewSm)
  BY <1>2, <1>3, RestIsZero DEF Rounds
<1> QED BY <1>2, <1>4 DEF NewSm, Mark

\* The flag that only says whether the station is associated.
LEMMA OtherFlag ==
  ASSUME NEW c, NEW d, AtEase(c), Shaped(d), d.group = c.group, d.driver_ok \in BOOLEAN,
         Kept(d, c, {"assoc", "exists"})
  PROVE  /\ AtEase(d) /\ Others(d) = Others(c) /\ d.sm.leaving = c.sm.leaving
         /\ d.sm.PTK_valid = c.sm.PTK_valid /\ d.sm.rekey_timer = c.sm.rekey_timer
         /\ OnWayOut(c.sm) => OnWayOut(d.sm)
<1> DEFINE m == c.sm
           n == d.sm
<1>1. /\ n.PTK = m.PTK /\ n.key = m.key /\ n.leaving = m.leaving
      /\ n.ptk_state = m.ptk_state /\ n.group_state = m.group_state
      /\ n.requests = m.requests /\ n.PtkGroupInit = m.PtkGroupInit
      /\ n.TimeoutCtr = m.TimeoutCtr /\ n.GTimeoutCtr = m.GTimeoutCtr
      /\ n.TimeoutEvt = m.TimeoutEvt /\ n.timers = m.timers
      /\ n.rekey_timer = m.rekey_timer /\ n.rx = m.rx
      /\ n.MICVerified = m.MICVerified
      /\ n.GUpdateStationKeys = m.GUpdateStationKeys /\ n.ANonce = m.ANonce
      /\ n.PTK_valid = m.PTK_valid /\ n.pairwise_set = m.pairwise_set
      /\ n.counter = m.counter /\ n.window = m.window /\ n.leaving = m.leaving
  BY SmFields DEF Kept
<1>2. LoopInv(c) /\ Control(m) /\ Resting(m) /\ Mark(n) = Mark(m)
  BY <1>1 DEF AtEase, LoopInv, Mark
<1>3. SmTypes(n)
  BY <1>1, <1>2 DEF Control, SmTypes
<1>4. FrameExpected(n) /\ TimeoutHandled(n) /\ (PtkInvalid(n) => ~n.PTK_valid)
  BY <1>1, <1>2 DEF FrameExpected, TimeoutHandled, PtkInvalid, Control
<1>5. Control(n)
  BY <1>1, <1>2, <1>3, <1>4 DEF Control
<1>6. Rounds(n) = 0
  <2>1. PtkRounds(n) = PtkRounds(m) /\ GroupRounds(n) = GroupRounds(m)
    BY <1>1 DEF PtkRounds, RequestRounds, StateRounds, GroupRounds
  <2> QED BY <1>2, <2>1, RestFacts DEF Rounds
<1>7. Resting(n)
  BY <1>5, <1>6, RestIsZero
<1>8. OnWayOut(m) => OnWayOut(n)
  BY <1>1 DEF OnWayOut, Closing
<1> QED BY <1>1, <1>2, <1>5, <1>7, <1>8 DEF AtEase, LoopInv, Others

LEMMA SettledSame ==
  ASSUME NEW c, AtEase(c)
  PROVE  Settled(c, c)
<1>1. GroupPart(c, c)
  BY GroupPartSame DEF AtEase, LoopInv
<1> QED BY <1>1 DEF Settled, AtEase

LEMMA SettledTwice ==
  ASSUME NEW a, NEW b, NEW c, AtEase(a), AtEase(b), a.driver_ok = TRUE, b.driver_ok = TRUE,
         Others(b) = Others(a), OnWayOut(a.sm) => OnWayOut(b.sm), Settled(c, b)
  PROVE  /\ AtEase(c) /\ Others(c) = Others(a) /\ c.sm.exists = b.sm.exists
         /\ c.driver_ok = TRUE
         /\ OnWayOut(a.sm) => OnWayOut(c.sm)
BY DEF Settled, AtEase, GroupPart

\* A station on its way out is in INITIALIZE when it has come to rest, and has no mark.
LEMMA ClosedIsUnmarked ==
  ASSUME NEW m, Control(m), Resting(m), Closing(m)
  PROVE  m.ptk_state = "INITIALIZE" /\ Mark(m) = 0
<1>1. Stays(m)
  BY RestFacts
<1>2. m.ptk_state = "INITIALIZE"
  BY <1>1 DEF Stays, Closing, Waiting
<1> QED BY <1>2 DEF Control, Mark

\* wpa_auth_sm_event
LEMMA EventSettles ==
  ASSUME NEW c, AtEase(c), NEW event \in {"AUTH", "ASSOC", "REAUTH", "DEAUTH", "DISASSOC"},
         event = "REAUTH" => ~c.sm.leaving
  PROVE  LET d == wpa_auth_sm_event(c, event) IN
         /\ Settled(d, c)
         /\ event \in {"AUTH", "ASSOC"} =>
              /\ d.sm.PTK_valid = FALSE /\ d.sm.rekey_timer = FALSE
              /\ d.sm.leaving = c.sm.leaving
         /\ event \in {"DEAUTH", "DISASSOC"} => Mark(d.sm) = 0
<1> DEFINE p == wpa_remove_ptk(Noted(c, event))
           d == wpa_auth_sm_event(c, event)
<1>1. /\ Prepares(p, c) /\ p.sm.PTK_valid = FALSE
      /\ event \in {"AUTH", "ASSOC"} => p.sm.requests = {}
      /\ event \in {"DEAUTH", "DISASSOC"} => p.sm.requests = {"Deauthentication"}
  BY NotedPrepares
<1>2. d = wpa_sm_step(p)
  BY DEF wpa_auth_sm_event
<1>3. event \in {"AUTH", "ASSOC"} => p.sm.rekey_timer = FALSE
  <2>1. SUFFICES ASSUME event \in {"AUTH", "ASSOC"} PROVE p.sm.rekey_timer = FALSE
    OBVIOUS
  <2>2. p = wpa_remove_ptk(c) /\ Shaped(c)
    BY <2>1 DEF Noted, AtEase, LoopInv
  <2> QED BY <2>2, RemovePtkEffect
<1> HIDE DEF p, d
<1>4. Starts(p, c) /\ p.driver_ok = c.driver_ok /\ c.driver_ok \in BOOLEAN
      /\ p.sm.leaving = c.sm.leaving
  BY <1>1, PreparesStarts DEF Prepares, GroupPart, AtEase, Softer
<1>5. OnWayOut(c.sm) => OnWayOut(p.sm)
  <2>1. SUFFICES ASSUME OnWayOut(c.sm), p.sm.leaving PROVE Closing(p.sm)
    BY DEF OnWayOut
  <2>2. c.sm.leaving /\ Closing(c.sm) /\ c.sm.requests = {} /\ p.sm.ptk_state = c.sm.ptk_state
    BY <1>1, <1>4, <2>1, RestFacts DEF OnWayOut, AtEase, LoopInv, Prepares, Softer
  <2>3. event \in {"AUTH", "ASSOC", "DEAUTH", "DISASSOC"}
    BY <2>2
  <2> QED BY <1>1, <2>2, <2>3 DEF Closing
<1>6. /\ Settled(d, c)
      /\ Closing(p.sm) => Closing(d.sm)
  BY <1>1, <1>2, <1>5, Readied DEF Prepares
<1>7. ASSUME event \in {"AUTH", "ASSOC"}
      PROVE  /\ d.sm.PTK_valid = FALSE /\ d.sm.rekey_timer = FALSE
             /\ d.sm.leaving = c.sm.leaving
  <2>1. Rounds(p.sm) = 0
    <3> DEFINE m == c.sm
               n == p.sm
    <3>1. Stays(m) /\ GroupStays(m) /\ SmTypes(m) /\ Ready(n, m) /\ n.requests = {}
          /\ UpdateCount \in Nat
      BY <1>1, <1>7, RestFacts, WpaAssumption DEF AtEase, LoopInv, Control, Prepares
    <3>2. p = wpa_remove_ptk(c) /\ Shaped(c)
      BY <1>7 DEF p, Noted, AtEase, LoopInv
    <3>3. Kept(p, c, {"PTK_valid", "PTK", "key", "pairwise_set", "rekey_timer"})
      BY <3>2, RemovePtkEffect
    <3>4. /\ n.exists = m.exists
          /\ n.ptk_state = m.ptk_state /\ n.group_state = m.group_state
          /\ n.requests = m.requests /\ n.PtkGroupInit = m.PtkGroupInit
          /\ n.TimeoutCtr = m.TimeoutCtr /\ n.GTimeoutCtr = m.GTimeoutCtr
          /\ n.TimeoutEvt = m.TimeoutEvt /\ n.timers = m.timers /\ n.rx = m.rx
          /\ n.MICVerified = m.MICVerified
          /\ n.GUpdateStationKeys = m.GUpdateStationKeys /\ n.ANonce = m.ANonce
          /\ n.counter = m.counter /\ n.window = m.window /\ n.leaving = m.leaving
      BY <3>3, SmFields DEF Kept
    <3> HIDE DEF n, m
    <3>5. PtkRounds(n) = PtkRounds(m) /\ GroupRounds(n) = GroupRounds(m)
      BY <3>1, <3>4 DEF PtkRounds, RequestRounds, StateRounds, GroupRounds, Stays
    <3>6. Rounds(m) = 0
      BY RestFacts DEF AtEase, LoopInv, m
    <3> QED BY <3>5, <3>6 DEF Rounds, n
  <2>2. d.sm = p.sm
    BY <1>2, <1>4, <2>1, RestStays DEF Starts
  <2> QED BY <1>1, <1>3, <1>4, <1>7, <2>2
<1>8. ASSUME event \in {"DEAUTH", "DISASSOC"}
      PROVE  Mark(d.sm) = 0
  <2>1. Closing(d.sm)
    BY <1>1, <1>6, <1>8 DEF Closing
  <2> QED BY <1>6, <2>1, ClosedIsUnmarked DEF Settled, LoopInv
<1> QED BY <1>6, <1>7, <1>8 DEF d

\* What handle_assoc and handle_assoc_cb do to the state machine.
Associated(c) ==
  LET e == wpa_auth_sm_event(wpa_auth_sta_init(c), "ASSOC")
      d == [e EXCEPT !.sm.assoc = TRUE]
  IN IF e.sm.assoc THEN wpa_auth_sm_event(d, "REAUTH") ELSE wpa_auth_sta_associated(d)

LEMMA InitEases ==
  ASSUME NEW c, AtEase(c), c.driver_ok = TRUE, ~c.sm.exists => c.sm = NewSm
  PROVE  LET d == wpa_auth_sta_init(c) IN
         /\ AtEase(d) /\ d.driver_ok = TRUE /\ Others(d) = Others(c)
         /\ d.sm.leaving = c.sm.leaving /\ (OnWayOut(c.sm) => OnWayOut(d.sm))
         /\ d.sm.exists /\ d.group = c.group
<1> DEFINE d == wpa_auth_sta_init(c)
<1>1. CASE c.sm.exists
  <2>1. d = c
    BY <1>1 DEF wpa_auth_sta_init
  <2> QED BY <1>1, <2>1
<1>2. CASE ~c.sm.exists
  <2>1. d = [c EXCEPT !.sm.exists = TRUE]
    <3>1. d = [c EXCEPT !.sm = [NewSm EXCEPT !.exists = TRUE]]
      BY <1>2 DEF wpa_auth_sta_init
    <3>2. c.sm = NewSm /\ Shaped(c)
      BY <1>2 DEF AtEase, LoopInv
    <3> QED BY <3>1, <3>2
  <2> HIDE DEF d
  <2>2. /\ Shaped(d) /\ d.group = c.group /\ d.driver_ok = c.driver_ok
        /\ Kept(d, c, {"assoc", "exists"}) /\ d.sm.exists = TRUE
    BY <2>1, SmFields DEF AtEase, LoopInv, Shaped, Kept
  <2>3. /\ AtEase(d) /\ Others(d) = Others(c) /\ d.sm.leaving = c.sm.leaving
        /\ OnWayOut(c.sm) => OnWayOut(d.sm)
    BY <2>2, OtherFlag
  <2> QED BY <2>2, <2>3 DEF d
<1> QED BY <1>1, <1>2

LEMMA AssociateSettles ==
  ASSUME NEW c, AtEase(c), c.driver_ok = TRUE, ~c.sm.leaving, ~c.sm.exists => c.sm = NewSm
  PROVE  LET d == Associated(c) IN
         /\ AtEase(d) /\ Others(d) = Others(c) /\ d.sm.exists
         /\ OnWayOut(c.sm) => OnWayOut(d.sm)
         /\ c.group.Counter <= d.group.Counter
<1> DEFINE a == wpa_auth_sta_init(c)
           e == wpa_auth_sm_event(a, "ASSOC")
           b == [e EXCEPT !.sm.assoc = TRUE]
           d == Associated(c)
<1>1. d = IF e.sm.assoc THEN wpa_auth_sm_event(b, "REAUTH") ELSE wpa_sm_step(AssociatedStart(b))
  BY DEF Associated, wpa_auth_sta_associated, AssociatedStart
<1>2. /\ AtEase(a) /\ a.driver_ok = TRUE /\ Others(a) = Others(c)
      /\ a.sm.leaving = c.sm.leaving /\ (OnWayOut(c.sm) => OnWayOut(a.sm))
      /\ a.sm.exists /\ a.group = c.group
  BY InitEases
<1> HIDE DEF a, d
<1>3. /\ Settled(e, a) /\ e.sm.PTK_valid = FALSE /\ e.sm.rekey_timer = FALSE
      /\ e.sm.leaving = a.sm.leaving
  <2> DEFINE event == "ASSOC"
  <2>1. event \in {"AUTH", "ASSOC", "REAUTH", "DEAUTH", "DISASSOC"} /\ event # "REAUTH"
        /\ event \in {"AUTH", "ASSOC"} /\ e = wpa_auth_sm_event(a, event)
    OBVIOUS
  <2> HIDE DEF event, e
  <2> QED BY <1>2, <2>1, EventSettles
<1> HIDE DEF e
<1>4. /\ AtEase(e) /\ Others(e) = Others(c) /\ e.sm.exists /\ e.driver_ok = TRUE
      /\ OnWayOut(c.sm) => OnWayOut(e.sm)
  BY <1>2, <1>3 DEF Settled, AtEase, GroupPart
<1>5. /\ Shaped(b) /\ b.group = e.group /\ b.driver_ok = TRUE
      /\ Kept(b, e, {"assoc", "exists"}) /\ b.sm.exists = e.sm.exists
  BY <1>4, SmFields DEF AtEase, LoopInv, Shaped, Kept
<1> HIDE DEF b
<1>6. /\ AtEase(b) /\ Others(b) = Others(e) /\ b.sm.leaving = e.sm.leaving
      /\ b.sm.PTK_valid = FALSE /\ b.sm.rekey_timer = FALSE
      /\ OnWayOut(e.sm) => OnWayOut(b.sm)
  <2>1. b.driver_ok \in BOOLEAN
    BY <1>5
  <2>2. /\ AtEase(b) /\ Others(b) = Others(e) /\ b.sm.leaving = e.sm.leaving
        /\ b.sm.PTK_valid = e.sm.PTK_valid /\ b.sm.rekey_timer = e.sm.rekey_timer
        /\ OnWayOut(e.sm) => OnWayOut(b.sm)
    BY <1>4, <1>5, <2>1, OtherFlag
  <2> QED BY <1>3, <2>2
<1>7. ~b.sm.leaving
  BY <1>2, <1>3, <1>6
<1>8. Settled(d, b)
  <2>1. CASE e.sm.assoc
    <3> DEFINE event == "REAUTH"
    <3>1. event \in {"AUTH", "ASSOC", "REAUTH", "DEAUTH", "DISASSOC"}
          /\ d = wpa_auth_sm_event(b, event)
      BY <1>1, <2>1
    <3> HIDE DEF event
    <3> QED BY <1>6, <1>7, <3>1, EventSettles
  <2>2. CASE ~e.sm.assoc
    <3> DEFINE p == AssociatedStart(b)
    <3>1. d = wpa_sm_step(p) /\ Prepares(p, b)
      BY <1>1, <1>6, <2>2, AssociatedPrepares
    <3> HIDE DEF p
    <3>2. OnWayOut(p.sm)
      BY <1>7, <3>1 DEF Prepares, Softer, OnWayOut
    <3> QED BY <1>6, <3>1, <3>2, Readied DEF Prepares
  <2> QED BY <2>1, <2>2
<1>9. c.group.Counter <= d.group.Counter
  <2>1. a.group.Counter <= e.group.Counter /\ b.group.Counter <= d.group.Counter
    BY <1>3, <1>8 DEF Settled, GroupPart
  <2>2. /\ c.group.Counter \in Nat /\ e.group.Counter \in Nat /\ d.group.Counter \in Nat
    BY <1>4, <1>8 DEF AtEase, LoopInv, Settled, GroupOK
  <2> QED BY <1>2, <1>5, <2>1, <2>2
<1> QED BY <1>4, <1>5, <1>6, <1>8, <1>9 DEF Settled, AtEase, GroupPart, d

\* wpa_receive
LEMMA ReceiveSettles ==
  ASSUME NEW c, AtEase(c), NEW f, IsKeyFrame(f)
  PROVE  Settled(wpa_receive(c, f), c)
<1> DEFINE d == wpa_receive(c, f)
<1>1. CASE ~c.sm.exists \/ ~Accepted(c.sm, f)
  <2>1. d = c
    BY <1>1 DEF wpa_receive
  <2> QED BY <2>1, SettledSame
<1>2. CASE /\ c.sm.exists /\ Accepted(c.sm, f)
           /\ ~MicFits(c.sm, f) /\ (c.sm.PTK_valid \/ f.type = "Request")
  <2>1. d = Checked(c, f)
    BY <1>2 DEF wpa_receive
  <2> QED BY <1>2, <2>1, CheckedRests
<1>3. CASE /\ c.sm.exists /\ Accepted(c.sm, f)
           /\ ~(~MicFits(c.sm, f) /\ (c.sm.PTK_valid \/ f.type = "Request"))
  <2> DEFINE p == Taken(Checked(c, f), f)
  <2>1. d = wpa_sm_step(p)
    BY <1>3 DEF wpa_receive
  <2>2. TakenNow(c, f)
    BY <1>3 DEF TakenNow
  <2>3. /\ LoopInv(p) /\ Rounds(p.sm) <= 6 /\ GroupPart(p, c)
        /\ OnWayOut(c.sm) => OnWayOut(p.sm)
    BY <2>2, TakenStarts
  <2> HIDE DEF p, d
  <2>4. Settled(d, c)
    BY <2>1, <2>3, Prepared DEF AtEase
  <2> QED BY <2>4 DEF d
<1> QED BY <1>1, <1>2, <1>3

LEMMA TimeoutSettles ==
  ASSUME NEW c, AtEase(c), c.sm.timers > 0
  PROVE  Settled(wpa_sm_step([c EXCEPT !.sm.timers = @ - 1, !.sm.TimeoutEvt = TRUE]), c)
<1> DEFINE p == [c EXCEPT !.sm.timers = @ - 1, !.sm.TimeoutEvt = TRUE]
<1>1. Starts(p, c) /\ (OnWayOut(c.sm) => OnWayOut(p.sm))
  BY TimeoutStarts
<1> HIDE DEF p
<1>2. Settled(wpa_sm_step(p), c)
  BY <1>1, Prepared DEF Starts, AtEase
<1> QED BY <1>2 DEF p

LEMMA RekeySettles ==
  ASSUME NEW c, AtEase(c), c.sm.rekey_timer = TRUE
  PROVE  Settled(wpa_sm_step(wpa_request_new_ptk([c EXCEPT !.sm.rekey_timer = FALSE])), c)
<1> DEFINE p == wpa_request_new_ptk([c EXCEPT !.sm.rekey_timer = FALSE])
<1>1. Prepares(p, c)
  BY RekeyPrepares
<1> HIDE DEF p
<1>2. OnWayOut(c.sm) => ~c.sm.leaving
  <2>1. Control(c.sm) /\ Resting(c.sm)
    BY DEF AtEase, LoopInv
  <2>2. Closing(c.sm) => c.sm.ptk_state = "INITIALIZE"
    BY <2>1, ClosedIsUnmarked
  <2>3. c.sm.ptk_state # "INITIALIZE"
    BY <2>1 DEF Control
  <2> QED BY <2>2, <2>3 DEF OnWayOut
<1>3. OnWayOut(c.sm) => OnWayOut(p.sm)
  BY <1>1, <1>2 DEF Prepares, Softer, OnWayOut
<1>4. Settled(wpa_sm_step(p), c)
  BY <1>1, <1>3, Readied DEF Prepares
<1> QED BY <1>4 DEF p

-----------------------------------------------------------------------------
(***************************************************************************)
(* The invariant: every state machine is at rest, and the count is that of *)
(* the marks.  It is stated of the parts of a state, so that it can be     *)
(* said of the state after a step as well.                                 *)
(***************************************************************************)
AtHome(m) ==
  DOMAIN m = DOMAIN NewSm /\ Control(m) /\ Resting(m) /\ (~m.exists => m = NewSm)

MarkedIn(f) == {s \in Sta : f[s].GUpdateStationKeys}

Counted(f, g, l) ==
  /\ Cardinality(MarkedIn(f)) <= g.GKeyDoneStations
  /\ l["drop"] = Budget["drop"]
       => g.GKeyDoneStations = Cardinality(MarkedIn(f))
  /\ l["drop"] = Budget["drop"] => \A s \in Sta : OnWayOut(f[s])

InvOf(f, g, l) ==
  /\ DOMAIN f = Sta /\ DOMAIN g = DOMAIN NewGroup /\ GroupOK(g)
  /\ \A s \in Sta : AtHome(f[s])
  /\ l \in [Events -> Nat] /\ l["drop"] <= Budget["drop"]
  /\ Counted(f, g, l)

WpaInv == InvOf(sm, group, left)

LEMMA MarkedFinite ==
  ASSUME NEW f
  PROVE  IsFiniteSet(MarkedIn(f)) /\ Cardinality(MarkedIn(f)) \in Nat
<1>1. IsFiniteSet(MarkedIn(f))
  BY WpaAssumption, FS_Subset DEF MarkedIn
<1> QED BY <1>1, FS_CardinalityType

\* One station changes: so does its share of the count.
LEMMA MarkCount ==
  ASSUME NEW f, NEW h, NEW s \in Sta, \A t \in Sta : t # s => h[t] = f[t],
         f[s].GUpdateStationKeys \in BOOLEAN, h[s].GUpdateStationKeys \in BOOLEAN
  PROVE  /\ Cardinality(MarkedIn(h)) - Mark(h[s]) = Cardinality(MarkedIn(f)) - Mark(f[s])
         /\ Mark(f[s]) <= Cardinality(MarkedIn(f))
<1> DEFINE A == MarkedIn(f) \ {s}
<1>1. IsFiniteSet(A) /\ Cardinality(A) \in Nat
  BY MarkedFinite, FS_RemoveElement, FS_CardinalityType
<1>2. ASSUME NEW x, x[s].GUpdateStationKeys \in BOOLEAN,
             \A t \in Sta : t # s => x[t].GUpdateStationKeys = f[t].GUpdateStationKeys
      PROVE  Cardinality(MarkedIn(x)) = Cardinality(A) + Mark(x[s])
  <2>1. CASE x[s].GUpdateStationKeys = TRUE
    <3>1. MarkedIn(x) = A \cup {s} /\ s \notin A
      BY <1>2, <2>1 DEF MarkedIn
    <3>2. Cardinality(A \cup {s}) = Cardinality(A) + 1
      BY <1>1, <3>1, FS_AddElement
    <3> QED BY <2>1, <3>1, <3>2 DEF Mark
  <2>2. CASE x[s].GUpdateStationKeys = FALSE
    <3>1. MarkedIn(x) = A
      BY <1>2, <2>2 DEF MarkedIn
    <3> QED BY <1>1, <2>2, <3>1 DEF Mark
  <2> QED BY <1>2, <2>1, <2>2
<1> HIDE DEF A
<1>3. Cardinality(MarkedIn(f)) = Cardinality(A) + Mark(f[s])
  BY <1>2
<1>4. Cardinality(MarkedIn(h)) = Cardinality(A) + Mark(h[s])
  BY <1>2
<1>5. Mark(f[s]) \in Nat /\ Mark(h[s]) \in Nat
  BY DEF Mark
<1> QED BY <1>1, <1>3, <1>4, <1>5

LEMMA OneStation ==
  ASSUME NEW f, NEW g, NEW l, InvOf(f, g, l), NEW s \in Sta, NEW h, NEW k, NEW j, NEW m,
         h = [f EXCEPT ![s] = m], AtHome(m), DOMAIN k = DOMAIN NewGroup, GroupOK(k),
         g.GKeyDoneStations - Mark(f[s]) <= k.GKeyDoneStations - Mark(m),
         j["drop"] = Budget["drop"] =>
           g.GKeyDoneStations - Mark(f[s]) = k.GKeyDoneStations - Mark(m),
         j \in [Events -> Nat], j["drop"] <= l["drop"],
         j["drop"] = Budget["drop"] => OnWayOut(m)
  PROVE  InvOf(h, k, j)
<1>1. /\ DOMAIN h = Sta /\ h[s] = m /\ \A t \in Sta : t # s => h[t] = f[t]
  BY DEF InvOf
<1>2. /\ f[s].GUpdateStationKeys \in BOOLEAN /\ m.GUpdateStationKeys \in BOOLEAN
      /\ g.GKeyDoneStations \in Nat /\ k.GKeyDoneStations \in Nat
  BY DEF InvOf, AtHome, Control, SmTypes, GroupOK
<1>3. Cardinality(MarkedIn(h)) - Mark(m) = Cardinality(MarkedIn(f)) - Mark(f[s])
  <2>1. h[s].GUpdateStationKeys \in BOOLEAN
    BY <1>1, <1>2
  <2>2. Cardinality(MarkedIn(h)) - Mark(h[s]) = Cardinality(MarkedIn(f)) - Mark(f[s])
    BY <1>1, <1>2, <2>1, MarkCount
  <2> QED BY <1>1, <2>2
<1>4. /\ Cardinality(MarkedIn(h)) \in Nat /\ Cardinality(MarkedIn(f)) \in Nat
      /\ Mark(m) \in Nat /\ Mark(f[s]) \in Nat
  BY MarkedFinite DEF Mark
<1>5. /\ Cardinality(MarkedIn(f)) <= g.GKeyDoneStations
      /\ l["drop"] = Budget["drop"]
           => g.GKeyDoneStations = Cardinality(MarkedIn(f))
      /\ l["drop"] = Budget["drop"] => \A t \in Sta : OnWayOut(f[t])
      /\ l["drop"] \in Nat /\ j["drop"] \in Nat /\ Budget["drop"] \in Nat
      /\ l["drop"] <= Budget["drop"]
  BY WpaAssumption DEF InvOf, Counted, Events
<1>6. Cardinality(MarkedIn(h)) <= k.GKeyDoneStations
  BY <1>2, <1>3, <1>4, <1>5
<1>7. j["drop"] <= Budget["drop"] /\ (j["drop"] = Budget["drop"] => l["drop"] = Budget["drop"])
  BY <1>5
<1>8. j["drop"] = Budget["drop"]
        => k.GKeyDoneStations = Cardinality(MarkedIn(h))
  BY <1>2, <1>3, <1>4, <1>5, <1>7
<1>9. j["drop"] = Budget["drop"] => \A t \in Sta : OnWayOut(h[t])
  BY <1>1, <1>5, <1>7
<1>10. \A t \in Sta : AtHome(h[t])
  BY <1>1 DEF InvOf
<1> QED BY <1>1, <1>6, <1>7, <1>8, <1>9, <1>10 DEF InvOf, Counted

LEMMA ContextEases ==
  ASSUME NEW s \in Sta, WpaInv
  PROVE  LET c == Context(s) IN
         /\ AtEase(c) /\ c.driver_ok = TRUE /\ c.sm = sm[s] /\ c.group = group
         /\ AtHome(c.sm) /\ (~c.sm.exists => c.sm = NewSm)
<1> DEFINE c == Context(s)
<1>1. c.sm = sm[s] /\ c.group = group /\ c.driver_ok = TRUE
      /\ DOMAIN c = {"sm", "group", "out", "driver_ok"}
  BY DEF Context
<1>2. AtHome(sm[s]) /\ DOMAIN group = DOMAIN NewGroup /\ GroupOK(group)
      /\ Cardinality(MarkedIn(sm)) <= group.GKeyDoneStations
  BY DEF WpaInv, InvOf, Counted
<1>3. Mark(sm[s]) <= Cardinality(MarkedIn(sm))
  BY <1>2, MarkCount DEF AtHome, Control, SmTypes
<1>4. Mark(sm[s]) <= group.GKeyDoneStations
  BY <1>2, <1>3, MarkedFinite DEF Mark, GroupOK
<1> QED BY <1>1, <1>2, <1>4 DEF AtEase, LoopInv, Shaped, AtHome

\* A step of station s from c to d.
LEMMA SettledStep ==
  ASSUME NEW f, NEW g, NEW l, InvOf(f, g, l), NEW s \in Sta, NEW h, NEW k, NEW j,
         NEW c, c.sm = f[s], c.group = g, NEW d, AtEase(d), ~d.sm.exists => d.sm = NewSm,
         Others(d) = Others(c), h = [f EXCEPT ![s] = d.sm], k = d.group,
         j \in [Events -> Nat], j["drop"] <= l["drop"],
         j["drop"] = Budget["drop"] /\ OnWayOut(c.sm) => OnWayOut(d.sm)
  PROVE  InvOf(h, k, j)
<1>1. AtHome(d.sm) /\ DOMAIN k = DOMAIN NewGroup /\ GroupOK(k)
  BY DEF AtEase, LoopInv, Shaped, AtHome
<1>2. g.GKeyDoneStations - Mark(f[s]) = k.GKeyDoneStations - Mark(d.sm)
  BY DEF Others
<1>3. /\ g.GKeyDoneStations \in Nat /\ k.GKeyDoneStations \in Nat
      /\ Mark(f[s]) \in Nat /\ Mark(d.sm) \in Nat
  BY <1>1 DEF InvOf, GroupOK, Mark
<1>4. g.GKeyDoneStations - Mark(f[s]) <= k.GKeyDoneStations - Mark(d.sm)
  BY <1>2, <1>3
<1>5. j["drop"] = Budget["drop"] => OnWayOut(d.sm)
  <2>1. l["drop"] <= Budget["drop"] /\ l["drop"] \in Nat /\ j["drop"] \in Nat
        /\ Budget["drop"] \in Nat
    BY WpaAssumption DEF InvOf, Events
  <2>2. j["drop"] = Budget["drop"] => l["drop"] = Budget["drop"]
    BY <2>1
  <2> QED BY <2>2 DEF InvOf, Counted
<1> DEFINE m == d.sm
<1>6. /\ AtHome(m) /\ h = [f EXCEPT ![s] = m]
      /\ g.GKeyDoneStations - Mark(f[s]) = k.GKeyDoneStations - Mark(m)
      /\ g.GKeyDoneStations - Mark(f[s]) <= k.GKeyDoneStations - Mark(m)
      /\ j["drop"] = Budget["drop"] => OnWayOut(m)
  BY <1>1, <1>2, <1>4, <1>5
<1> HIDE DEF m
<1> QED BY <1>1, <1>6, OneStation

\* The station is freed, with its mark.
LEMMA FreedStep ==
  ASSUME NEW f, NEW g, NEW l, InvOf(f, g, l), NEW s \in Sta, NEW h, NEW k, NEW j,
         h = [f EXCEPT ![s] = NewSm], DOMAIN k = DOMAIN NewGroup, GroupOK(k),
         g.GKeyDoneStations - Mark(f[s]) <= k.GKeyDoneStations,
         j["drop"] = Budget["drop"] =>
           g.GKeyDoneStations - Mark(f[s]) = k.GKeyDoneStations,
         j \in [Events -> Nat], j["drop"] <= l["drop"]
  PROVE  InvOf(h, k, j)
<1> DEFINE m == NewSm
<1>1. AtHome(m) /\ Mark(m) = 0 /\ OnWayOut(m)
  BY NewSmFacts DEF AtHome, OnWayOut
<1>2. g.GKeyDoneStations \in Nat /\ k.GKeyDoneStations \in Nat /\ Mark(f[s]) \in Nat
  BY DEF InvOf, GroupOK, Mark
<1>3. h = [f EXCEPT ![s] = m]
  OBVIOUS
<1> HIDE DEF m
<1>4. /\ g.GKeyDoneStations - Mark(f[s]) <= k.GKeyDoneStations - Mark(m)
      /\ j["drop"] = Budget["drop"] =>
           g.GKeyDoneStations - Mark(f[s]) = k.GKeyDoneStations - Mark(m)
  BY <1>1, <1>2
<1> QED BY <1>1, <1>3, <1>4, OneStation

LEMMA SpendLess ==
  ASSUME WpaInv, NEW e \in Events, Spend(e)
  PROVE  /\ left' \in [Events -> Nat] /\ left'["drop"] <= left["drop"]
         /\ e = "drop" => left'["drop"] # Budget["drop"]
<1>1. left \in [Events -> Nat] /\ left[e] > 0 /\ left' = [left EXCEPT ![e] = left[e] - 1]
      /\ left["drop"] <= Budget["drop"] /\ Budget["drop"] \in Nat
      /\ "drop" \in Events
  BY WpaAssumption DEF WpaInv, InvOf, Spend, Events
<1>2. left[e] \in Nat /\ left[e] - 1 \in Nat /\ left["drop"] \in Nat
  BY <1>1
<1>3. left' \in [Events -> Nat]
  BY <1>1, <1>2
<1>4. left'["drop"] = IF e = "drop" THEN left["drop"] - 1 ELSE left["drop"]
  BY <1>1
<1> QED BY <1>1, <1>2, <1>3, <1>4

LEMMA KeepLess ==
  ASSUME WpaInv, UNCHANGED left
  PROVE  left' \in [Events -> Nat] /\ left'["drop"] <= left["drop"]
<1>1. left \in [Events -> Nat] /\ left["drop"] \in Nat
  BY DEF WpaInv, InvOf, Events
<1> QED BY <1>1

LEMMA InitInv == Init => WpaInv
<1> SUFFICES ASSUME Init PROVE WpaInv
  OBVIOUS
<1>1. sm = [s \in Sta |-> NewSm] /\ group = NewGroup /\ left = Budget
  BY DEF Init
<1>2. \A s \in Sta : AtHome(sm[s]) /\ ~sm[s].GUpdateStationKeys /\ OnWayOut(sm[s])
  BY <1>1, NewSmFacts DEF AtHome, OnWayOut, NewSm
<1>3. MarkedIn(sm) = {}
  BY <1>2 DEF MarkedIn
<1>4. Cardinality(MarkedIn(sm)) = 0
  BY <1>3, FS_EmptySet
<1>5. GroupOK(group) /\ DOMAIN group = DOMAIN NewGroup /\ group.GKeyDoneStations = 0
  BY <1>1 DEF GroupOK, NewGroup
<1>6. left \in [Events -> Nat] /\ left["drop"] <= Budget["drop"]
  BY <1>1, WpaAssumption DEF Events
<1> QED BY <1>1, <1>2, <1>4, <1>5, <1>6 DEF WpaInv, InvOf, Counted

LEMMA AssociateInv ==
  ASSUME WpaInv, NEW s \in Sta, Associate(s)
  PROVE  WpaInv'
<1> DEFINE c == Context(s)
           d == Associated(c)
<1>1. /\ ~sm[s].leaving /\ Spend("assoc") /\ Becomes(s, d)
  BY DEF Associate, Associated
<1>2. /\ AtEase(c) /\ c.driver_ok = TRUE /\ c.sm = sm[s] /\ c.group = group
      /\ (~c.sm.exists => c.sm = NewSm)
  BY ContextEases
<1>3. sm' = [sm EXCEPT ![s] = d.sm] /\ group' = d.group
  BY <1>1 DEF Becomes
<1>4. left' \in [Events -> Nat] /\ left'["drop"] <= left["drop"]
  BY <1>1, SpendLess DEF Events
<1> HIDE DEF c
<1>5. /\ AtEase(d) /\ Others(d) = Others(c) /\ d.sm.exists
      /\ OnWayOut(c.sm) => OnWayOut(d.sm)
  BY <1>1, <1>2, AssociateSettles
<1> HIDE DEF d
<1> QED BY <1>2, <1>3, <1>4, <1>5, SettledStep DEF WpaInv

\* The steps that end with wpa_sm_step.
LEMMA SettlesInv ==
  ASSUME WpaInv, NEW s \in Sta, NEW c, NEW d, AtEase(c), c.sm = sm[s], c.group = group,
         c.sm.exists, Settled(d, c), sm' = [sm EXCEPT ![s] = d.sm], group' = d.group,
         left' \in [Events -> Nat], left'["drop"] <= left["drop"],
         left'["drop"] = Budget["drop"] => c.driver_ok = TRUE
  PROVE  WpaInv'
<1>1. /\ AtEase(d) /\ d.sm.exists /\ Others(d) = Others(c)
      /\ OnWayOut(c.sm) /\ c.driver_ok => OnWayOut(d.sm)
  BY DEF Settled, AtEase, GroupPart
<1> QED BY <1>1, SettledStep DEF WpaInv

LEMMA AuthenticateInv ==
  ASSUME WpaInv, NEW s \in Sta, Authenticate(s)
  PROVE  WpaInv'
<1> DEFINE c == Context(s)
           event == "AUTH"
           d == wpa_auth_sm_event(c, event)
<1>1. sm[s].exists /\ Spend("leave") /\ Becomes(s, d)
  BY DEF Authenticate
<1>2. /\ AtEase(c) /\ c.driver_ok = TRUE /\ c.sm = sm[s] /\ c.group = group
  BY ContextEases
<1>3. sm' = [sm EXCEPT ![s] = d.sm] /\ group' = d.group
  BY <1>1 DEF Becomes
<1>4. left' \in [Events -> Nat] /\ left'["drop"] <= left["drop"]
  BY <1>1, SpendLess DEF Events
<1>5. event \in {"AUTH", "ASSOC", "REAUTH", "DEAUTH", "DISASSOC"} /\ event # "REAUTH"
  OBVIOUS
<1> HIDE DEF c, event
<1>6. Settled(d, c)
  BY <1>2, <1>5, EventSettles
<1> HIDE DEF d
<1> QED BY <1>1, <1>2, <1>3, <1>4, <1>6, SettlesInv

LEMMA RemoveStaInv ==
  ASSUME WpaInv, NEW s \in Sta, RemoveSta(s)
  PROVE  WpaInv'
<1>1. sm[s].leaving /\ sm' = [sm EXCEPT ![s] = NewSm] /\ group' = group /\ UNCHANGED left
  BY DEF RemoveSta, Becomes, wpa_auth_sta_deinit, Context
<1>2. left' \in [Events -> Nat] /\ left'["drop"] <= left["drop"]
  BY <1>1, KeepLess
<1>3. AtHome(sm[s]) /\ InvOf(sm, group, left) /\ GroupOK(group) /\ DOMAIN group = DOMAIN NewGroup
  BY DEF WpaInv, InvOf
<1>4. group.GKeyDoneStations \in Nat /\ Mark(sm[s]) \in Nat
  BY <1>3 DEF GroupOK, Mark
<1>5. left'["drop"] = Budget["drop"] => Mark(sm[s]) = 0
  <2>1. SUFFICES ASSUME left["drop"] = Budget["drop"] PROVE Mark(sm[s]) = 0
    BY <1>1
  <2>2. OnWayOut(sm[s])
    BY <1>3, <2>1 DEF InvOf, Counted
  <2> QED BY <1>1, <1>3, <2>2, ClosedIsUnmarked DEF OnWayOut, AtHome
<1>6. /\ group.GKeyDoneStations - Mark(sm[s]) <= group'.GKeyDoneStations
      /\ left'["drop"] = Budget["drop"]
           => group.GKeyDoneStations - Mark(sm[s]) = group'.GKeyDoneStations
  BY <1>1, <1>4, <1>5
<1> QED BY <1>1, <1>2, <1>3, <1>6, FreedStep DEF WpaInv

LEMMA DeinitInv ==
  ASSUME WpaInv, NEW s \in Sta, Deinit(s), left' \in [Events -> Nat],
         left'["drop"] <= left["drop"], left'["drop"] = Budget["drop"] => Mark(sm[s]) = 0
  PROVE  WpaInv'
<1>1. sm' = [sm EXCEPT ![s] = NewSm] /\ group' = group
  BY DEF Deinit, Becomes, wpa_auth_sta_deinit, Context
<1>2. InvOf(sm, group, left) /\ GroupOK(group) /\ DOMAIN group = DOMAIN NewGroup
  BY DEF WpaInv, InvOf
<1>3. group.GKeyDoneStations \in Nat /\ Mark(sm[s]) \in Nat
  BY <1>2 DEF GroupOK, Mark
<1>4. /\ group.GKeyDoneStations - Mark(sm[s]) <= group'.GKeyDoneStations
      /\ left'["drop"] = Budget["drop"]
           => group.GKeyDoneStations - Mark(sm[s]) = group'.GKeyDoneStations
  BY <1>1, <1>3
<1> QED BY <1>1, <1>2, <1>4, FreedStep DEF WpaInv

LEMMA SessionTimeoutInv ==
  ASSUME WpaInv, NEW s \in Sta, SessionTimeout(s)
  PROVE  WpaInv'
<1>1. Spend("drop") /\ Deinit(s)
  BY DEF SessionTimeout
<1>2. /\ left' \in [Events -> Nat] /\ left'["drop"] <= left["drop"]
      /\ left'["drop"] # Budget["drop"]
  BY <1>1, SpendLess DEF Events
<1> QED BY <1>1, <1>2, DeinitInv

\* A station that is freed without an event either has no mark or counts as dropped.
LEMMA FreeStaInv ==
  ASSUME WpaInv, NEW s \in Sta, FreeSta(s)
  PROVE  WpaInv'
<1>1. Deinit(s)
  BY DEF FreeSta
<1>2. CASE sm[s].ptk_state = "INITIALIZE"
  <2>1. UNCHANGED left
    BY <1>2 DEF FreeSta
  <2>2. left' \in [Events -> Nat] /\ left'["drop"] <= left["drop"]
    BY <2>1, KeepLess
  <2>3. Mark(sm[s]) = 0
    BY <1>2 DEF WpaInv, InvOf, AtHome, Control, Mark
  <2> QED BY <1>1, <2>2, <2>3, DeinitInv
<1>3. CASE sm[s].ptk_state # "INITIALIZE"
  <2>1. Spend("drop")
    BY <1>3 DEF FreeSta
  <2>2. /\ left' \in [Events -> Nat] /\ left'["drop"] <= left["drop"]
        /\ left'["drop"] # Budget["drop"]
    BY <2>1, SpendLess DEF Events
  <2> QED BY <1>1, <2>2, DeinitInv
<1> QED BY <1>2, <1>3

\* Flags of struct sta_info that the state machine does not ask.
LEMMA FlagsChange ==
  ASSUME NEW c, NEW d, AtEase(c), Shaped(d), d.group = c.group, d.driver_ok \in BOOLEAN,
         Kept(d, c, {"leaving", "assoc", "authorized"}), d.sm.leaving \in BOOLEAN
  PROVE  /\ AtEase(d) /\ Others(d) = Others(c) /\ d.sm.exists = c.sm.exists
         /\ (d.sm.leaving = c.sm.leaving /\ OnWayOut(c.sm)) => OnWayOut(d.sm)
<1> DEFINE m == c.sm
           n == d.sm
<1>1. /\ n.ptk_state = m.ptk_state /\ n.group_state = m.group_state
      /\ n.requests = m.requests /\ n.PtkGroupInit = m.PtkGroupInit
      /\ n.TimeoutCtr = m.TimeoutCtr /\ n.GTimeoutCtr = m.GTimeoutCtr
      /\ n.TimeoutEvt = m.TimeoutEvt /\ n.timers = m.timers
      /\ n.rekey_timer = m.rekey_timer /\ n.rx = m.rx
      /\ n.MICVerified = m.MICVerified
      /\ n.GUpdateStationKeys = m.GUpdateStationKeys /\ n.ANonce = m.ANonce
      /\ n.PTK_valid = m.PTK_valid /\ n.pairwise_set = m.pairwise_set
      /\ n.counter = m.counter /\ n.window = m.window /\ n.exists = m.exists
  BY SmFields DEF Kept
<1>2. LoopInv(c) /\ Control(m) /\ Resting(m) /\ Mark(n) = Mark(m)
  BY <1>1 DEF AtEase, LoopInv, Mark
<1>3. SmTypes(n)
  BY <1>1, <1>2 DEF Control, SmTypes
<1>4. FrameExpected(n) /\ TimeoutHandled(n) /\ (PtkInvalid(n) => ~n.PTK_valid)
  BY <1>1, <1>2 DEF FrameExpected, TimeoutHandled, PtkInvalid, Control
<1>5. Control(n)
  BY <1>1, <1>2, <1>3, <1>4 DEF Control
<1>6. Rounds(n) = 0
  <2>1. PtkRounds(n) = PtkRounds(m) /\ GroupRounds(n) = GroupRounds(m)
    BY <1>1 DEF PtkRounds, RequestRounds, StateRounds, GroupRounds
  <2> QED BY <1>2, <2>1, RestFacts DEF Rounds
<1>7. Resting(n)
  BY <1>5, <1>6, RestIsZero
<1>8. (n.leaving = m.leaving /\ OnWayOut(m)) => OnWayOut(n)
  BY <1>1 DEF OnWayOut, Closing
<1> QED BY <1>1, <1>2, <1>5, <1>7, <1>8 DEF AtEase, LoopInv, Others

\* hostapd disassociates the station and sends it a frame.
LEMMA InactiveEffect ==
  ASSUME NEW c, Shaped(c)
  PROVE  LET d == [c EXCEPT !.sm.assoc = FALSE, !.out = Put(@, [type |-> "Deauth"])] IN
         /\ Shaped(d) /\ d.group = c.group /\ d.driver_ok = c.driver_ok
         /\ Kept(d, c, {"leaving", "assoc", "authorized"}) /\ d.sm.leaving = c.sm.leaving
         /\ SentOther(d.out, c.out)
<1> DEFINE f == [type |-> "Deauth"]
           d == [c EXCEPT !.sm.assoc = FALSE, !.out = Put(@, f)]
<1>1. /\ Shaped(d) /\ d.group = c.group /\ d.driver_ok = c.driver_ok
      /\ Kept(d, c, {"leaving", "assoc", "authorized"}) /\ d.sm.leaving = c.sm.leaving
  BY SmFields DEF Shaped, Kept
<1>2. d.out = Put(c.out, f)
  BY DEF Shaped
<1>3. f.type = "Deauth" /\ (Put(c.out, f) = c.out \/ Put(c.out, f) = Append(c.out, f))
  BY DEF Put
<1> HIDE DEF f, d
<1>4. SentOther(d.out, c.out)
  BY <1>2, <1>3 DEF SentOther
<1> QED BY <1>1, <1>4 DEF d, f

LEMMA InactivityInv ==
  ASSUME WpaInv, NEW s \in Sta, Inactivity(s)
  PROVE  WpaInv'
<1> DEFINE c == Context(s)
           d == [c EXCEPT !.sm.assoc = FALSE, !.out = Put(@, [type |-> "Deauth"])]
<1>1. sm[s].exists /\ Spend("leave") /\ Becomes(s, d)
  BY DEF Inactivity
<1>2. AtEase(c) /\ c.driver_ok = TRUE /\ c.sm = sm[s] /\ c.group = group
  BY ContextEases
<1>3. sm' = [sm EXCEPT ![s] = d.sm] /\ group' = d.group
  BY <1>1 DEF Becomes
<1>4. left' \in [Events -> Nat] /\ left'["drop"] <= left["drop"]
  BY <1>1, SpendLess DEF Events
<1> HIDE DEF c
<1>5. /\ Shaped(d) /\ d.group = c.group /\ d.driver_ok = c.driver_ok
      /\ Kept(d, c, {"leaving", "assoc", "authorized"}) /\ d.sm.leaving = c.sm.leaving
  BY <1>2, InactiveEffect DEF AtEase, LoopInv
<1> HIDE DEF d
<1>6. d.driver_ok \in BOOLEAN /\ d.sm.leaving \in BOOLEAN
  BY <1>2, <1>5 DEF AtEase, LoopInv, Control, SmTypes
<1>7. /\ AtEase(d) /\ Others(d) = Others(c) /\ d.sm.exists = c.sm.exists
      /\ OnWayOut(c.sm) => OnWayOut(d.sm)
  BY <1>2, <1>5, <1>6, FlagsChange
<1>8. d.sm.exists
  BY <1>1, <1>2, <1>7
<1> QED BY <1>2, <1>3, <1>4, <1>7, <1>8, SettledStep DEF WpaInv

LEMMA JoinOtherBssInv ==
  ASSUME WpaInv, NEW s \in Sta, JoinOtherBss(s)
  PROVE  WpaInv'
<1> DEFINE c == Context(s)
           d == wpa_sta_disconnect(c)
<1>1. sm[s].exists /\ Spend("drop") /\ Becomes(s, d)
  BY DEF JoinOtherBss
<1>2. AtEase(c) /\ c.driver_ok = TRUE /\ c.sm = sm[s] /\ c.group = group
  BY ContextEases
<1>3. sm' = [sm EXCEPT ![s] = d.sm] /\ group' = d.group
  BY <1>1 DEF Becomes
<1>4. /\ left' \in [Events -> Nat] /\ left'["drop"] <= left["drop"]
      /\ left'["drop"] # Budget["drop"]
  BY <1>1, SpendLess DEF Events
<1> HIDE DEF c
<1>5. /\ Shaped(d) /\ d.group = c.group /\ d.driver_ok = c.driver_ok
      /\ Kept(d, c, {"leaving", "assoc", "authorized"}) /\ d.sm.leaving = TRUE
  BY <1>2, DisconnectEffect DEF AtEase, LoopInv
<1> HIDE DEF d
<1>6. d.driver_ok \in BOOLEAN /\ d.sm.leaving \in BOOLEAN
  BY <1>2, <1>5
<1>7. AtEase(d) /\ Others(d) = Others(c) /\ d.sm.exists = c.sm.exists
  BY <1>2, <1>5, <1>6, FlagsChange
<1>8. d.sm.exists
  BY <1>1, <1>2, <1>7
<1> QED BY <1>2, <1>3, <1>4, <1>7, <1>8, SettledStep DEF WpaInv

LEMMA EapolTimeoutInv ==
  ASSUME WpaInv, NEW s \in Sta, EapolTimeout(s)
  PROVE  WpaInv'
<1> DEFINE c == Context(s)
           d == wpa_sm_step([c EXCEPT !.sm.timers = @ - 1, !.sm.TimeoutEvt = TRUE])
<1>1. sm[s].timers > 0 /\ UNCHANGED left /\ Becomes(s, d)
  BY DEF EapolTimeout
<1>2. /\ AtEase(c) /\ c.driver_ok = TRUE /\ c.sm = sm[s] /\ c.group = group
      /\ (~c.sm.exists => c.sm = NewSm)
  BY ContextEases
<1>3. sm' = [sm EXCEPT ![s] = d.sm] /\ group' = d.group
  BY <1>1 DEF Becomes
<1>4. left' \in [Events -> Nat] /\ left'["drop"] <= left["drop"]
  BY <1>1, KeepLess
<1> HIDE DEF c
<1>5. Settled(d, c)
  BY <1>1, <1>2, TimeoutSettles
<1> HIDE DEF d
<1>6. c.sm.exists
  BY <1>1, <1>2, NewSmFacts
<1> QED BY <1>2, <1>3, <1>4, <1>5, <1>6, SettlesInv

LEMMA RekeyPtkInv ==
  ASSUME WpaInv, NEW s \in Sta, RekeyPtk(s)
  PROVE  WpaInv'
<1> DEFINE c == Context(s)
           d == wpa_sm_step(wpa_request_new_ptk([c EXCEPT !.sm.rekey_timer = FALSE]))
<1>1. sm[s].rekey_timer /\ Spend("ptk") /\ Becomes(s, d)
  BY DEF RekeyPtk
<1>2. /\ AtEase(c) /\ c.driver_ok = TRUE /\ c.sm = sm[s] /\ c.group = group
      /\ (~c.sm.exists => c.sm = NewSm)
  BY ContextEases
<1>3. sm' = [sm EXCEPT ![s] = d.sm] /\ group' = d.group
  BY <1>1 DEF Becomes
<1>4. left' \in [Events -> Nat] /\ left'["drop"] <= left["drop"]
  BY <1>1, SpendLess DEF Events
<1> HIDE DEF c
<1>5. c.sm.rekey_timer = TRUE /\ c.sm.exists
  BY <1>1, <1>2, NewSmFacts DEF AtEase, LoopInv, Control, SmTypes
<1>6. Settled(d, c)
  BY <1>2, <1>5, RekeySettles
<1> HIDE DEF d
<1> QED BY <1>2, <1>3, <1>4, <1>5, <1>6, SettlesInv

\* Nothing happens at the authenticator.
LEMMA SameInv ==
  ASSUME WpaInv, UNCHANGED <<sm, group>>, left' \in [Events -> Nat],
         left'["drop"] <= left["drop"]
  PROVE  WpaInv'
<1>1. /\ left \in [Events -> Nat] /\ left["drop"] <= Budget["drop"]
      /\ left["drop"] \in Nat /\ left'["drop"] \in Nat /\ Budget["drop"] \in Nat
  BY WpaAssumption DEF WpaInv, InvOf, Events
<1>2. /\ left'["drop"] <= Budget["drop"]
      /\ left'["drop"] = Budget["drop"] => left["drop"] = Budget["drop"]
  BY <1>1
<1>3. Counted(sm, group, left')
  BY <1>2 DEF WpaInv, InvOf, Counted
<1> QED BY <1>2, <1>3 DEF WpaInv, InvOf

LEMMA ApReceivesInv ==
  ASSUME WpaInv, NEW s \in Sta, ApReceives(s)
  PROVE  WpaInv'
<1> DEFINE c == Context(s)
           f == Head(to_ap[s])
<1>1. /\ AtEase(c) /\ c.driver_ok = TRUE /\ c.sm = sm[s] /\ c.group = group
      /\ (~c.sm.exists => c.sm = NewSm) /\ AtHome(c.sm)
  BY ContextEases
<1>2. \A d : Becomes(s, d) => sm' = [sm EXCEPT ![s] = d.sm] /\ group' = d.group
  BY DEF Becomes
<1>3. ASSUME Becomes(s, c), left' \in [Events -> Nat], left'["drop"] <= left["drop"]
      PROVE  WpaInv'
  <2>1. sm' = [sm EXCEPT ![s] = c.sm] /\ group' = c.group
    BY <1>2, <1>3
  <2> HIDE DEF c
  <2> QED BY <1>1, <1>3, <2>1, SettledStep DEF WpaInv
<1>4. CASE IsKeyFrame(f) /\ Becomes(s, wpa_receive(c, f)) /\ UNCHANGED left
  <2> DEFINE d == wpa_receive(c, f)
  <2>1. left' \in [Events -> Nat] /\ left'["drop"] <= left["drop"]
    BY <1>4, KeepLess
  <2>2. CASE ~c.sm.exists
    <3>1. d = c
      BY <2>2 DEF wpa_receive
    <3> QED BY <1>3, <1>4, <2>1, <3>1
  <2>3. CASE c.sm.exists
    <3> HIDE DEF c, f
    <3>1. Settled(d, c)
      BY <1>1, <1>4, ReceiveSettles
    <3>2. sm' = [sm EXCEPT ![s] = d.sm] /\ group' = d.group
      BY <1>2, <1>4
    <3> HIDE DEF d
    <3> QED BY <1>1, <2>1, <2>3, <3>1, <3>2, SettlesInv
  <2> QED BY <2>2, <2>3
<1>5. CASE /\ IsKeyFrame(f) /\ Spend("drop")
           /\ Becomes(s, wpa_receive([c EXCEPT !.driver_ok = FALSE], f))
  <2> DEFINE e == [c EXCEPT !.driver_ok = FALSE]
             d == wpa_receive(e, f)
  <2>1. /\ left' \in [Events -> Nat] /\ left'["drop"] <= left["drop"]
        /\ left'["drop"] # Budget["drop"]
    BY <1>5, SpendLess DEF Events
  <2>2. e.sm = c.sm /\ e.group = c.group /\ e.driver_ok = FALSE /\ Shaped(e)
    BY <1>1 DEF AtEase, LoopInv, Shaped
  <2>3. AtEase(e)
    BY <1>1, <2>2 DEF AtEase, LoopInv
  <2>4. sm' = [sm EXCEPT ![s] = d.sm] /\ group' = d.group
    BY <1>2, <1>5
  <2> HIDE DEF e, f
  <2>5. CASE ~c.sm.exists
    <3>1. d = e
      BY <2>2, <2>5 DEF wpa_receive
    <3>2. Others(d) = Others(c) /\ ~d.sm.exists /\ d.sm = NewSm
      BY <1>1, <2>2, <2>5, <3>1 DEF Others
    <3> HIDE DEF d, c
    <3> QED BY <1>1, <2>1, <2>3, <2>4, <3>1, <3>2, SettledStep DEF WpaInv
  <2>6. CASE c.sm.exists
    <3>1. Settled(d, e)
      BY <1>5, <2>3, ReceiveSettles
    <3> HIDE DEF d
    <3> QED BY <1>1, <2>1, <2>2, <2>3, <2>4, <2>6, <3>1, SettlesInv
  <2> QED BY <2>5, <2>6
<1>6. ASSUME ~c.sm.exists, Becomes(s, c), UNCHANGED left PROVE WpaInv'
  BY <1>3, <1>6, KeepLess
<1>7. CASE /\ UNCHANGED left /\ c.sm.exists
           /\ Becomes(s, wpa_auth_sm_event([c EXCEPT !.sm.assoc = FALSE], "DISASSOC"))
  <2> DEFINE e == [c EXCEPT !.sm.assoc = FALSE]
             event == "DISASSOC"
             d == wpa_auth_sm_event(e, event)
  <2>1. left' \in [Events -> Nat] /\ left'["drop"] <= left["drop"]
    BY <1>7, KeepLess
  <2>2. sm' = [sm EXCEPT ![s] = d.sm] /\ group' = d.group
    BY <1>2, <1>7
  <2>3. /\ Shaped(e) /\ e.group = c.group /\ e.driver_ok = TRUE
        /\ Kept(e, c, {"assoc", "exists"}) /\ e.sm.exists = c.sm.exists
    BY <1>1, SmFields DEF AtEase, LoopInv, Shaped, Kept
  <2>4. event \in {"AUTH", "ASSOC", "REAUTH", "DEAUTH", "DISASSOC"} /\ event # "REAUTH"
    OBVIOUS
  <2> HIDE DEF e, event, c
  <2>5. e.driver_ok \in BOOLEAN
    BY <2>3
  <2>6. /\ AtEase(e) /\ Others(e) = Others(c) /\ (OnWayOut(c.sm) => OnWayOut(e.sm))
    BY <1>1, <2>3, <2>5, OtherFlag
  <2>7. Settled(d, e)
    BY <2>4, <2>6, EventSettles
  <2> HIDE DEF d
  <2>8. /\ AtEase(d) /\ Others(d) = Others(c) /\ d.sm.exists
        /\ OnWayOut(c.sm) => OnWayOut(d.sm)
    BY <1>1, <1>7, <2>3, <2>6, <2>7 DEF Settled, AtEase, GroupPart
  <2> QED BY <1>1, <2>1, <2>2, <2>8, SettledStep DEF WpaInv
<1>8. CASE /\ UNCHANGED left /\ c.sm.exists
           /\ Becomes(s, wpa_auth_sta_deinit(wpa_auth_sm_event(c, "DEAUTH")))
  <2> DEFINE event == "DEAUTH"
             e == wpa_auth_sm_event(c, event)
             d == wpa_auth_sta_deinit(e)
  <2>1. left' \in [Events -> Nat] /\ left'["drop"] <= left["drop"]
    BY <1>8, KeepLess
  <2>2. sm' = [sm EXCEPT ![s] = d.sm] /\ group' = d.group
    BY <1>2, <1>8
  <2>3. /\ event \in {"AUTH", "ASSOC", "REAUTH", "DEAUTH", "DISASSOC"} /\ event # "REAUTH"
        /\ event \in {"DEAUTH", "DISASSOC"}
    OBVIOUS
  <2> HIDE DEF c, event
  <2>4. Settled(e, c) /\ Mark(e.sm) = 0
    BY <1>1, <2>3, EventSettles
  <2> HIDE DEF e
  <2>5. d.sm = NewSm /\ d.group = e.group /\ Shaped(e) /\ GroupOK(e.group)
    BY <2>4 DEF wpa_auth_sta_deinit, Settled, LoopInv, Shaped
  <2>6. group.GKeyDoneStations - Mark(sm[s]) = e.group.GKeyDoneStations - Mark(e.sm)
    BY <1>1, <2>4 DEF Settled, GroupPart, Others
  <2>7. e.group.GKeyDoneStations \in Nat
    BY <2>5 DEF GroupOK
  <2>8. group.GKeyDoneStations - Mark(sm[s]) = e.group.GKeyDoneStations
    BY <2>4, <2>6, <2>7
  <2>9. group.GKeyDoneStations - Mark(sm[s]) <= e.group.GKeyDoneStations
    BY <2>7, <2>8
  <2> QED BY <2>1, <2>2, <2>5, <2>8, <2>9, FreedStep DEF WpaInv, Shaped
<1> QED
  <2>1. \/ /\ f.type \in {"2/4", "4/4", "2/2", "Request"}
           /\ \/ Becomes(s, wpa_receive(c, f)) /\ UNCHANGED left
              \/ /\ f.type = "4/4" /\ Spend("drop")
                 /\ Becomes(s, wpa_receive([c EXCEPT !.driver_ok = FALSE], f))
        \/ /\ f.type = "Disassoc"
           /\ Becomes(s, IF ~c.sm.exists THEN c
                         ELSE wpa_auth_sm_event([c EXCEPT !.sm.assoc = FALSE], "DISASSOC"))
           /\ UNCHANGED left
        \/ /\ f.type = "Deauth"
           /\ Becomes(s, IF ~c.sm.exists THEN c
                         ELSE wpa_auth_sta_deinit(wpa_auth_sm_event(c, "DEAUTH")))
           /\ UNCHANGED left
    BY DEF ApReceives
  <2> HIDE DEF c, f
  <2> QED BY <1>4, <1>5, <1>6, <1>7, <1>8, <2>1 DEF IsKeyFrame

LEMMA NextGtkEffect ==
  ASSUME NEW g, DOMAIN g = DOMAIN NewGroup, GroupOK(g)
  PROVE  LET k == NextGtk(g) IN
         /\ DOMAIN k = DOMAIN NewGroup /\ GroupOK(k)
         /\ k.GKeyDoneStations = g.GKeyDoneStations /\ k.Counter = g.Counter + 1
<1> DEFINE k == NextGtk(g)
<1>1. /\ DOMAIN k = DOMAIN NewGroup /\ k.state = "SETKEYS" /\ k.GM = g.GN /\ k.GN = g.GM
      /\ k.Counter = g.Counter + 1 /\ k.GKeyDoneStations = g.GKeyDoneStations
  BY GroupFields DEF NextGtk
<1> HIDE DEF k
<1>2. GroupOK(k)
  BY <1>1 DEF GroupOK
<1> QED BY <1>1, <1>2 DEF k

\* What wpa_group_setkeys does to one station.
LEMMA UpdatedStation ==
  ASSUME WpaInv, NEW s \in Sta, NEW g, DOMAIN g = DOMAIN NewGroup, GroupOK(g),
         group.GKeyDoneStations <= g.GKeyDoneStations
  PROVE  LET d == Updated(s, g) IN
         /\ AtHome(d.sm)
         /\ OnWayOut(sm[s]) => OnWayOut(d.sm)
         /\ d.sm.GUpdateStationKeys <=>
              (sm[s].GUpdateStationKeys \/ sm[s].ptk_state = "PTKINITDONE")
         /\ Softer(d.sm, sm[s]) /\ SentOther(d.out, to_sta[s])
<1> DEFINE c == Context(s)
           e == [c EXCEPT !.group = g]
           d == Updated(s, g)
<1>1. /\ AtEase(c) /\ c.driver_ok = TRUE /\ c.sm = sm[s] /\ c.group = group
      /\ AtHome(c.sm) /\ (~c.sm.exists => c.sm = NewSm) /\ c.out = to_sta[s]
  BY ContextEases DEF Context
<1>2. d = IF e.sm.ptk_state = "PTKINITDONE" THEN wpa_group_update_sta(e) ELSE e
  BY DEF Updated
<1> HIDE DEF c, d
<1>3. /\ Shaped(e) /\ e.sm = sm[s] /\ e.group = g /\ e.driver_ok = TRUE
      /\ e.out = to_sta[s]
  BY <1>1 DEF AtEase, LoopInv, Shaped
<1> HIDE DEF e
<1>4. Mark(sm[s]) <= g.GKeyDoneStations
  <2>1. Mark(sm[s]) <= group.GKeyDoneStations /\ group.GKeyDoneStations \in Nat
    BY <1>1 DEF AtEase, LoopInv, GroupOK
  <2> QED BY <2>1 DEF Mark, GroupOK
<1>5. AtEase(e)
  BY <1>1, <1>3, <1>4 DEF AtEase, LoopInv
<1>6. CASE sm[s].ptk_state = "PTKINITDONE"
  <2>1. d = wpa_group_update_sta(e)
    BY <1>2, <1>3, <1>6
  <2>2. Updates(d, e)
    BY <1>3, <1>5, <1>6, <2>1, UpdateRuns
  <2>3. sm[s].exists
    BY <1>1, <1>6, NewSmFacts
  <2>4. AtHome(d.sm)
    BY <1>3, <2>2, <2>3 DEF Updates, LoopInv, Shaped, AtHome
  <2>5. OnWayOut(sm[s]) => ~sm[s].leaving
    BY <1>1, <1>6, ClosedIsUnmarked DEF OnWayOut, AtHome
  <2>6. OnWayOut(sm[s]) => OnWayOut(d.sm)
    BY <1>3, <2>2, <2>5 DEF Updates, OnWayOut
  <2>7. Softer(d.sm, sm[s]) /\ SentOther(d.out, to_sta[s])
    BY <1>3, <2>2 DEF Updates
  <2> QED BY <1>6, <2>2, <2>4, <2>6, <2>7 DEF Updates, d
<1>7. CASE sm[s].ptk_state # "PTKINITDONE"
  <2>1. d = e
    BY <1>2, <1>3, <1>7
  <2>2. d.sm = sm[s] /\ d.out = to_sta[s]
    BY <1>3, <2>1
  <2>3. Softer(sm[s], sm[s])
    BY <1>1, RestFacts DEF AtHome, Softer
  <2>4. SentOther(d.out, to_sta[s])
    BY <2>2 DEF SentOther
  <2> QED BY <1>1, <1>7, <2>2, <2>3, <2>4 DEF d
<1> QED BY <1>6, <1>7

LEMMA RekeyGtkInv ==
  ASSUME WpaInv, RekeyGtk
  PROVE  WpaInv'
<1> DEFINE a == wpa_group_sm_step(group)
           g == NextGtk(a)
           new == Cardinality(NewlyMarked)
           k == [g EXCEPT !.GKeyDoneStations = @ + new]
<1>1. /\ Spend("gtk") /\ sm' = [s \in Sta |-> Updated(s, g).sm] /\ group' = wpa_group_sm_step(k)
  BY DEF RekeyGtk
<1>2. left' \in [Events -> Nat] /\ left'["drop"] <= left["drop"]
  BY <1>1, SpendLess DEF Events
<1>3. DOMAIN group = DOMAIN NewGroup /\ GroupOK(group)
  BY DEF WpaInv, InvOf
<1>4. DOMAIN a = DOMAIN NewGroup /\ GroupOK(a) /\ a.GKeyDoneStations = group.GKeyDoneStations
  <2>1. /\ DOMAIN a = DOMAIN NewGroup /\ GroupOK(a)
        /\ \A f \in DOMAIN NewGroup \ {"state", "key"} : a[f] = group[f]
    BY <1>3, GroupStepEffect
  <2> HIDE DEF a
  <2> QED BY <2>1, GroupFields
<1> HIDE DEF a
<1>5. DOMAIN g = DOMAIN NewGroup /\ GroupOK(g) /\ g.GKeyDoneStations = group.GKeyDoneStations
  BY <1>4, NextGtkEffect
<1> HIDE DEF g
<1>6. group.GKeyDoneStations \in Nat /\ group.GKeyDoneStations <= g.GKeyDoneStations
  BY <1>3, <1>5 DEF GroupOK
<1>7. \A s \in Sta :
        /\ AtHome(sm'[s])
        /\ OnWayOut(sm[s]) => OnWayOut(sm'[s])
        /\ sm'[s].GUpdateStationKeys <=>
             (sm[s].GUpdateStationKeys \/ sm[s].ptk_state = "PTKINITDONE")
  <2>1. TAKE s \in Sta
  <2> DEFINE d == Updated(s, g)
  <2>2. /\ AtHome(d.sm)
        /\ OnWayOut(sm[s]) => OnWayOut(d.sm)
        /\ d.sm.GUpdateStationKeys <=>
             (sm[s].GUpdateStationKeys \/ sm[s].ptk_state = "PTKINITDONE")
    BY <1>5, <1>6, UpdatedStation
  <2>3. sm'[s] = d.sm
    BY <1>1
  <2> HIDE DEF d
  <2> QED BY <2>2, <2>3
<1>8. /\ MarkedIn(sm') = MarkedIn(sm) \cup NewlyMarked
      /\ MarkedIn(sm) \cap NewlyMarked = {}
  BY <1>7 DEF MarkedIn, NewlyMarked
<1>9. IsFiniteSet(NewlyMarked) /\ new \in Nat
  <2>1. IsFiniteSet(NewlyMarked)
    BY WpaAssumption, FS_Subset DEF NewlyMarked
  <2> QED BY <2>1, FS_CardinalityType
<1>10. Cardinality(MarkedIn(sm')) = Cardinality(MarkedIn(sm)) + new
  <2>1. Cardinality(MarkedIn(sm) \cup NewlyMarked)
          = Cardinality(MarkedIn(sm)) + Cardinality(NewlyMarked)
              - Cardinality(MarkedIn(sm) \cap NewlyMarked)
    BY <1>9, MarkedFinite, FS_Union
  <2>2. Cardinality(MarkedIn(sm) \cap NewlyMarked) = 0
    BY <1>8, FS_EmptySet
  <2> QED BY <1>8, <1>9, <2>1, <2>2, MarkedFinite
<1> HIDE DEF new
<1>11. DOMAIN k = DOMAIN NewGroup /\ GroupOK(k) /\ k.GKeyDoneStations = g.GKeyDoneStations + new
  <2>1. /\ DOMAIN k = DOMAIN NewGroup /\ k.GKeyDoneStations = g.GKeyDoneStations + new
        /\ k.state = g.state /\ k.GN = g.GN /\ k.GM = g.GM /\ k.Counter = g.Counter
    BY <1>5, GroupFields
  <2> HIDE DEF k
  <2> QED BY <1>5, <1>9, <2>1 DEF GroupOK
<1> HIDE DEF k
<1>12. DOMAIN group' = DOMAIN NewGroup /\ GroupOK(group')
       /\ group'.GKeyDoneStations = group.GKeyDoneStations + new
  <2> DEFINE b == wpa_group_sm_step(k)
  <2>1. /\ DOMAIN b = DOMAIN NewGroup /\ GroupOK(b)
        /\ \A f \in DOMAIN NewGroup \ {"state", "key"} : b[f] = k[f]
    BY <1>11, GroupStepEffect
  <2>2. group' = b
    BY <1>1
  <2> HIDE DEF b
  <2> QED BY <1>5, <1>11, <2>1, <2>2, GroupFields
<1>13. /\ Cardinality(MarkedIn(sm)) <= group.GKeyDoneStations
       /\ left["drop"] = Budget["drop"]
            => group.GKeyDoneStations = Cardinality(MarkedIn(sm))
       /\ left["drop"] = Budget["drop"] => \A s \in Sta : OnWayOut(sm[s])
       /\ left["drop"] <= Budget["drop"] /\ left["drop"] \in Nat
       /\ left'["drop"] \in Nat /\ Budget["drop"] \in Nat
  BY <1>2, WpaAssumption DEF WpaInv, InvOf, Counted, Events
<1>14. left'["drop"] <= Budget["drop"]
       /\ (left'["drop"] = Budget["drop"] => left["drop"] = Budget["drop"])
  BY <1>2, <1>13
<1>15. /\ Cardinality(MarkedIn(sm')) <= group'.GKeyDoneStations
       /\ left'["drop"] = Budget["drop"]
            => group'.GKeyDoneStations = Cardinality(MarkedIn(sm'))
  BY <1>6, <1>9, <1>10, <1>12, <1>13, <1>14, MarkedFinite
<1>16. left'["drop"] = Budget["drop"] => \A s \in Sta : OnWayOut(sm'[s])
  BY <1>7, <1>13, <1>14
<1>17. InvOf(sm', group', left')
  BY <1>1, <1>2, <1>7, <1>12, <1>14, <1>15, <1>16 DEF InvOf, Counted
<1> QED BY <1>17 DEF WpaInv

LEMMA NextInv ==
  ASSUME WpaInv, Next
  PROVE  WpaInv'
<1>1. CASE RekeyGtk
  BY <1>1, RekeyGtkInv
<1>2. ASSUME NEW s \in Sta,
             \/ Associate(s) \/ Authenticate(s) \/ RemoveSta(s) \/ SessionTimeout(s)
             \/ Inactivity(s) \/ FreeSta(s) \/ JoinOtherBss(s) \/ EapolTimeout(s) \/ RekeyPtk(s) \/ ApReceives(s)
      PROVE  WpaInv'
  BY <1>2, AssociateInv, AuthenticateInv, RemoveStaInv, SessionTimeoutInv,
     InactivityInv, FreeStaInv, JoinOtherBssInv, EapolTimeoutInv, RekeyPtkInv, ApReceivesInv
<1>3. ASSUME NEW s \in Sta, StaReceives(s) \/ KeyRequest(s) \/ Leave(s) \/ Lose(s)
      PROVE  WpaInv'
  <2>1. UNCHANGED <<sm, group>>
    BY <1>3 DEF StaReceives, KeyRequest, Leave, Lose
  <2>2. UNCHANGED left \/ \E e \in Events : Spend(e)
    BY <1>3 DEF StaReceives, KeyRequest, Leave, Lose, Events
  <2>3. left' \in [Events -> Nat] /\ left'["drop"] <= left["drop"]
    BY <2>2, SpendLess, KeepLess
  <2> QED BY <2>1, <2>3, SameInv
<1> QED BY <1>1, <1>2, <1>3 DEF Next

(* Whatever happens, in whatever order: every state machine of hostapd     *)
(* comes to rest (wpa_sm_step, wpa_auth.c:2252), and GKeyDoneStations is   *)
(* the number of marks.                                                    *)
THEOREM WpaInvariant == Spec => []WpaInv
<1>1. WpaInv /\ [Next]_vars => WpaInv'
  <2>1. CASE Next
    BY <2>1, NextInv
  <2>2. CASE UNCHANGED vars
    BY <2>2 DEF vars, WpaInv
  <2> QED BY <2>1, <2>2
<1> QED BY <1>1, InitInv, PTL DEF Spec

(* After every event the loop of wpa_sm_step has ended: no request is left *)
(* and no state is left to enter, with six rounds for the longest way.     *)
THEOREM AlwaysAtRest == Spec => []AtRest
<1>1. WpaInv => AtRest
  <2>1. SUFFICES ASSUME WpaInv PROVE AtRest
    OBVIOUS
  <2>2. GroupOK(group) /\ \A s \in Sta : Control(sm[s]) /\ Resting(sm[s])
    BY <2>1 DEF WpaInv, InvOf, AtHome
  <2> QED BY <2>2 DEF AtRest, GroupOK, Control, SmTypes, Resting
<1> QED BY <1>1, WpaInvariant, PTL

(* GKeyDoneStations is never less than the number of marked stations, so a *)
(* new GTK is never put to use while a station is still to be told; and it *)
(* is that number exactly, unless a station was dropped whose state machine *)
(* had not been told: for its session timeout, for inactivity, for another *)
(* BSS, or because the driver refused its key.                             *)
THEOREM MarksAlwaysCounted == Spec => []CountsMarked
<1>1. WpaInv => CountsMarked
  BY DEF WpaInv, InvOf, Counted, CountsMarked, Marked, MarkedIn
<1> QED BY <1>1, WpaInvariant, PTL

-----------------------------------------------------------------------------
(***************************************************************************)
(* Both ends install the same key.  Keys are ordered by the nonces they    *)
(* are derived from, both of which only grow; p is the PSK of the station. *)
(* Low is the key of the station, or less than any key.                    *)
(***************************************************************************)
Keys(p) == {p} \X Nat \X Nat
Points(p) == {p} \X Int \X Int
Le(x, y) == x[2] <= y[2] /\ x[3] <= y[3]

Low(p, u) == IF u.key = NoKey THEN <<p, -1, -1>> ELSE u.key
Latest(p, u) == <<p, u.anonce, u.snonce>>
Heard(p, u) == <<p, u.anonce, 0>>

\* The last nonce the authenticator can have sent to the station.
Top(m, n) == IF m.ANonce = 0 THEN n - 1 ELSE m.ANonce
Told(p, m, n) == <<p, Top(m, n), 0>>

\* What a message says of keys.
Rank(p, f) == IF f.type = "1/4" THEN <<p, f.nonce, 0>> ELSE f.mic

(* The messages of one type in queue q are in order, from lo to hi.        *)
Between(p, q, type, lo, hi) ==
  /\ \A i \in DOMAIN q : q[i].type = type =>
       Rank(p, q[i]) \in Keys(p) /\ Le(lo, Rank(p, q[i])) /\ Le(Rank(p, q[i]), hi)
  /\ \A i, j \in DOMAIN q : i < j /\ q[i].type = type /\ q[j].type = type =>
       Le(Rank(p, q[i]), Rank(p, q[j]))

IsQueue(q) == \E T : q \in Seq(T)

(* Round the last PTK w that the authenticator has derived with station u, *)
(* from old to new: the 4/4 on their way, the key of the station, the 3/4  *)
(* on their way, w, the 2/4 on their way and the nonces of the station.    *)
Ordered(p, w, u, out, in) ==
  /\ IsQueue(out) /\ IsQueue(in)
  /\ w \in Keys(p) /\ (u.key # NoKey => u.key \in Keys(p))
  /\ u.anonce \in Nat /\ u.snonce \in Nat
  /\ Le(Low(p, u), w) /\ Le(w, Latest(p, u))
  /\ Between(p, in, "4/4", <<p, 0, 0>>, Low(p, u))
  /\ Between(p, out, "3/4", Low(p, u), w)
  /\ Between(p, in, "2/4", w, Latest(p, u))

(* A state machine without a nonce is far from a message 1/4.              *)
Fresh(m) ==
  m.ANonce = 0 =>
    /\ m.ptk_state \in {"INITIALIZE", "DISCONNECT", "DISCONNECTED", "AUTHENTICATION"}
    /\ m.requests # {"PTK"} /\ ~m.PTK_valid /\ ~m.rekey_timer

\* The nonces of messages 1/4 arrive in the order they were made.
Nonces(p, m, n, u, out) ==
  /\ n \in Nat \ {0} /\ m.ANonce \in Nat /\ m.ANonce < n
  /\ Fresh(m)
  /\ Le(Heard(p, u), Told(p, m, n))
  /\ Between(p, out, "1/4", Heard(p, u), Told(p, m, n))

Done(m) == m.ptk_state = "PTKINITDONE" /\ m.pairwise_set /\ ~m.leaving

PtkSound(m, w, u) ==
  /\ m.PTK # NoKey => m.PTK = w /\ w[1] = "psk"
  /\ m.PTK_valid => m.PTK # NoKey
  /\ Done(m) => m.PTK # NoKey /\ m.key = m.PTK /\ m.PTK = u.key

\* The frame just received, a 2/4 or a 4/4.
FrameSound(p, w, m, u, in) ==
  m.rx = "pairwise" =>
    /\ m.ptk_state = "PTKINITNEGOTIATING" => m.PTK = u.key
    /\ m.ptk_state # "PTKINITNEGOTIATING" =>
         /\ m.last_mic \in Keys(p) /\ Le(w, m.last_mic) /\ Le(m.last_mic, Latest(p, u))
         /\ Between(p, in, "2/4", m.last_mic, Latest(p, u))

Chain(p, w, m, n, u, out, in) ==
  /\ Ordered(p, w, u, out, in) /\ Nonces(p, m, n, u, out)
  /\ PtkSound(m, w, u) /\ FrameSound(p, w, m, u, in)

LEMMA LeOrder ==
  ASSUME NEW p
  PROVE  /\ \A x, y, z \in Points(p) : Le(x, y) /\ Le(y, z) => Le(x, z)
         /\ \A x \in Points(p) : Le(x, x)
         /\ \A x, y \in Points(p) : Le(x, y) /\ Le(y, x) => x = y
         /\ Keys(p) \subseteq Points(p)
BY DEF Points, Keys, Le

LEMMA QueueAppend ==
  ASSUME NEW q, NEW f, IsQueue(q)
  PROVE  LET r == Append(q, f) IN
         /\ IsQueue(r) /\ Len(q) \in Nat
         /\ DOMAIN q = 1..Len(q) /\ DOMAIN r = 1..(Len(q) + 1)
         /\ r[Len(q) + 1] = f /\ \A i \in DOMAIN q : r[i] = q[i]
<1>1. PICK T : q \in Seq(T)
  BY DEF IsQueue
<1> DEFINE U == T \cup {f}
<1>2. q \in Seq(U) /\ f \in U
  BY <1>1, SeqMonotonic
<1> HIDE DEF U
<1>3. /\ Append(q, f) \in Seq(U) /\ Len(Append(q, f)) = Len(q) + 1
      /\ \A i \in 1..Len(q) : Append(q, f)[i] = q[i]
      /\ Append(q, f)[Len(q) + 1] = f
  BY <1>2, AppendProperties
<1>4. Len(q) \in Nat /\ DOMAIN q = 1..Len(q) /\ DOMAIN Append(q, f) = 1..(Len(q) + 1)
  BY <1>2, <1>3, LenProperties
<1> QED BY <1>3, <1>4 DEF IsQueue

LEMMA QueueTail ==
  ASSUME NEW q, IsQueue(q), q # <<>>
  PROVE  LET r == Tail(q) IN
         /\ IsQueue(r) /\ Len(q) \in Nat \ {0}
         /\ DOMAIN q = 1..Len(q) /\ DOMAIN r = 1..(Len(q) - 1)
         /\ Head(q) = q[1] /\ \A i \in DOMAIN r : r[i] = q[i + 1]
<1>1. PICK T : q \in Seq(T)
  BY DEF IsQueue
<1>2. /\ Tail(q) \in Seq(T) /\ Len(Tail(q)) = Len(q) - 1
      /\ \A i \in 1..Len(Tail(q)) : Tail(q)[i] = q[i + 1]
  BY <1>1, HeadTailProperties
<1>3. /\ Len(q) \in Nat \ {0} /\ DOMAIN q = 1..Len(q) /\ DOMAIN Tail(q) = 1..(Len(q) - 1)
      /\ Head(q) = q[1]
  BY <1>1, <1>2, LenProperties, EmptySeq
<1> QED BY <1>2, <1>3 DEF IsQueue

LEMMA BetweenWiden ==
  ASSUME NEW p, NEW q, NEW type, NEW lo \in Points(p), NEW hi \in Points(p),
         NEW a \in Points(p), NEW b \in Points(p), Between(p, q, type, lo, hi),
         Le(a, lo), Le(hi, b)
  PROVE  Between(p, q, type, a, b)
BY LeOrder DEF Between

LEMMA BetweenOther ==
  ASSUME NEW p, NEW q, NEW f, NEW type, NEW lo, NEW hi, IsQueue(q),
         Between(p, q, type, lo, hi), f.type # type
  PROVE  Between(p, Append(q, f), type, lo, hi)
<1> DEFINE r == Append(q, f)
           n == Len(q) + 1
<1>1. /\ DOMAIN q = 1..Len(q) /\ DOMAIN r = 1..n /\ Len(q) \in Nat
      /\ r[n] = f /\ \A i \in DOMAIN q : r[i] = q[i]
  BY QueueAppend
<1> HIDE DEF r
<1>2. \A i \in DOMAIN r : r[i].type = type => i \in DOMAIN q /\ r[i] = q[i]
  BY <1>1
<1>3. Between(p, r, type, lo, hi)
  BY <1>2 DEF Between
<1> QED BY <1>3 DEF r

LEMMA BetweenAppend ==
  ASSUME NEW p, NEW q, NEW f, NEW type, NEW lo \in Points(p), NEW hi \in Points(p),
         IsQueue(q), Between(p, q, type, lo, hi), f.type = type,
         Rank(p, f) \in Keys(p), Le(lo, Rank(p, f)), Le(hi, Rank(p, f))
  PROVE  Between(p, Append(q, f), type, lo, Rank(p, f))
<1> DEFINE r == Append(q, f)
           n == Len(q) + 1
           k == Rank(p, f)
<1>1. /\ DOMAIN q = 1..Len(q) /\ DOMAIN r = 1..n /\ Len(q) \in Nat
      /\ r[n] = f /\ \A i \in DOMAIN q : r[i] = q[i]
  BY QueueAppend
<1>2. k \in Points(p) /\ Le(k, k)
  BY LeOrder
<1> HIDE DEF r
<1>3. ASSUME NEW i \in DOMAIN q, q[i].type = type
      PROVE  Rank(p, q[i]) \in Keys(p) /\ Le(lo, Rank(p, q[i])) /\ Le(Rank(p, q[i]), k)
  BY <1>2, <1>3, LeOrder DEF Between
<1>4. \A i \in DOMAIN r : r[i].type = type =>
        Rank(p, r[i]) \in Keys(p) /\ Le(lo, Rank(p, r[i])) /\ Le(Rank(p, r[i]), k)
  <2>1. TAKE i \in DOMAIN r
  <2>2. i = n \/ (i \in DOMAIN q /\ r[i] = q[i])
    BY <1>1
  <2>3. CASE i = n
    BY <1>1, <1>2, <2>3
  <2>4. CASE i \in DOMAIN q /\ r[i] = q[i]
    BY <1>3, <2>4
  <2> QED BY <2>2, <2>3, <2>4
<1>5. \A i, j \in DOMAIN r : i < j /\ r[i].type = type /\ r[j].type = type =>
        Le(Rank(p, r[i]), Rank(p, r[j]))
  <2>1. SUFFICES ASSUME NEW i \in DOMAIN r, NEW j \in DOMAIN r, i < j, r[i].type = type,
                        r[j].type = type
        PROVE  Le(Rank(p, r[i]), Rank(p, r[j]))
    OBVIOUS
  <2>2. i \in DOMAIN q /\ r[i] = q[i] /\ (j = n \/ (j \in DOMAIN q /\ r[j] = q[j]))
    BY <1>1, <2>1
  <2>3. CASE j = n
    BY <1>1, <1>3, <2>1, <2>2, <2>3
  <2>4. CASE j \in DOMAIN q /\ r[j] = q[j]
    BY <2>1, <2>2, <2>4 DEF Between
  <2> QED BY <2>2, <2>3, <2>4
<1> HIDE DEF k
<1>6. Between(p, r, type, lo, k)
  BY <1>4, <1>5 DEF Between
<1> QED BY <1>6 DEF r, k

LEMMA BetweenTail ==
  ASSUME NEW p, NEW q, NEW type, NEW lo, NEW hi, IsQueue(q), q # <<>>,
         Between(p, q, type, lo, hi)
  PROVE  /\ Between(p, Tail(q), type, lo, hi)
         /\ Head(q).type = type =>
              LET k == Rank(p, Head(q)) IN
              /\ k \in Keys(p) /\ Le(lo, k) /\ Le(k, hi)
              /\ Between(p, Tail(q), type, k, hi)
<1> DEFINE r == Tail(q)
           h == Head(q)
<1>1. /\ Len(q) \in Nat \ {0} /\ DOMAIN q = 1..Len(q) /\ DOMAIN r = 1..(Len(q) - 1)
      /\ h = q[1] /\ \A i \in DOMAIN r : r[i] = q[i + 1]
  BY QueueTail
<1> HIDE DEF r, h
<1>2. 1 \in DOMAIN q /\ \A i \in DOMAIN r : i + 1 \in DOMAIN q /\ 1 < i + 1
  BY <1>1
<1>3. \A i \in DOMAIN r : r[i].type = type =>
        Rank(p, r[i]) \in Keys(p) /\ Le(lo, Rank(p, r[i])) /\ Le(Rank(p, r[i]), hi)
  BY <1>1, <1>2 DEF Between
<1>4. \A i, j \in DOMAIN r : i < j /\ r[i].type = type /\ r[j].type = type =>
        Le(Rank(p, r[i]), Rank(p, r[j]))
  <2>1. SUFFICES ASSUME NEW i \in DOMAIN r, NEW j \in DOMAIN r, i < j, r[i].type = type,
                        r[j].type = type
        PROVE  Le(Rank(p, r[i]), Rank(p, r[j]))
    OBVIOUS
  <2>2. i + 1 \in DOMAIN q /\ j + 1 \in DOMAIN q /\ i + 1 < j + 1 /\ r[i] = q[i + 1] /\ r[j] = q[j + 1]
    BY <1>1, <1>2, <2>1
  <2> QED BY <2>1, <2>2 DEF Between
<1>5. Between(p, r, type, lo, hi)
  BY <1>3, <1>4 DEF Between
<1>6. ASSUME h.type = type
      PROVE  LET k == Rank(p, h) IN
             /\ k \in Keys(p) /\ Le(lo, k) /\ Le(k, hi)
             /\ Between(p, r, type, k, hi)
  <2>1. Rank(p, h) \in Keys(p) /\ Le(lo, Rank(p, h)) /\ Le(Rank(p, h), hi)
    BY <1>1, <1>2, <1>6 DEF Between
  <2>2. \A i \in DOMAIN r : r[i].type = type => Le(Rank(p, h), Rank(p, r[i]))
    BY <1>1, <1>2, <1>6 DEF Between
  <2>3. Between(p, r, type, Rank(p, h), hi)
    BY <1>3, <1>4, <2>2 DEF Between
  <2> QED BY <2>1, <2>3
<1> QED BY <1>5, <1>6 DEF r, h

LEMMA ChainPoints ==
  ASSUME NEW p, NEW w, NEW m, NEW n, NEW u, NEW out, NEW in, Chain(p, w, m, n, u, out, in)
  PROVE  /\ Low(p, u) \in Points(p) /\ w \in Points(p) /\ Latest(p, u) \in Points(p)
         /\ Heard(p, u) \in Points(p) /\ Told(p, m, n) \in Points(p) /\ <<p, 0, 0>> \in Points(p)
         /\ IsQueue(out) /\ IsQueue(in)
<1>1. /\ w \in Keys(p) /\ (u.key # NoKey => u.key \in Keys(p)) /\ u.anonce \in Nat
      /\ u.snonce \in Nat /\ n \in Nat /\ m.ANonce \in Nat /\ IsQueue(out) /\ IsQueue(in)
  BY DEF Chain, Ordered, Nonces
<1>2. Top(m, n) \in Int
  BY <1>1 DEF Top
<1>3. Low(p, u) \in Points(p) /\ w \in Points(p)
  BY <1>1, LeOrder DEF Low, Points
<1> QED BY <1>1, <1>2, <1>3 DEF Latest, Heard, Told, Points

(* Messages of other kinds than 1/4 and 3/4 are sent.                      *)
LEMMA OtherSent ==
  ASSUME NEW p, NEW new, NEW out, NEW type \in {"1/4", "3/4"}, NEW lo, NEW hi,
         IsQueue(out), SentOther(new, out), Between(p, out, type, lo, hi)
  PROVE  IsQueue(new) /\ Between(p, new, type, lo, hi)
<1>1. CASE new = out
  BY <1>1
<1>2. ASSUME NEW f, f.type \in {"1/2", "Deauth"}, new = Append(out, f)
      PROVE  IsQueue(new) /\ Between(p, new, type, lo, hi)
  <2>1. f.type # type
    BY <1>2
  <2> QED BY <1>2, <2>1, QueueAppend, BetweenOther
<1> QED BY <1>1, <1>2 DEF SentOther

(* The authenticator goes from a to b, and from counter n to k, with no    *)
(* other key than before.                                                  *)
Calmer(b, k, a, n) ==
  /\ b.rx # "pairwise" /\ b.PTK \in {a.PTK, NoKey}
  /\ b.PTK_valid => b.PTK = a.PTK /\ a.PTK_valid
  /\ Done(b) => Done(a) /\ b.key = a.key /\ b.PTK = a.PTK
  /\ k \in Nat /\ n <= k
  /\ b.ANonce \in {a.ANonce, 0} \/ (b.ANonce = n /\ k = n + 1)
  /\ Fresh(b)

LEMMA ToldMore ==
  ASSUME NEW p, NEW a, NEW b, NEW n \in Nat \ {0}, NEW k \in Nat, n <= k, a.ANonce \in Nat,
         a.ANonce < n, b.ANonce \in {a.ANonce, 0} \/ (b.ANonce = n /\ k = n + 1)
  PROVE  /\ Le(Told(p, a, n), Told(p, b, k)) /\ Told(p, b, k) \in Points(p)
         /\ k \in Nat \ {0} /\ b.ANonce \in Nat /\ b.ANonce < k
<1>1. Top(a, n) \in Int /\ Top(b, k) \in Int /\ Top(a, n) <= Top(b, k)
  BY DEF Top
<1> QED BY <1>1 DEF Told, Points, Le

LEMMA ChainSame ==
  ASSUME NEW p, NEW w, NEW a, NEW n, NEW b, NEW k, NEW u, NEW out, NEW new, NEW in,
         Chain(p, w, a, n, u, out, in), Calmer(b, k, a, n), SentOther(new, out)
  PROVE  Chain(p, w, b, k, u, new, in)
<1>1. /\ Low(p, u) \in Points(p) /\ w \in Points(p) /\ Latest(p, u) \in Points(p)
      /\ Heard(p, u) \in Points(p) /\ Told(p, a, n) \in Points(p)
      /\ IsQueue(out) /\ IsQueue(in)
  BY ChainPoints
<1>2. n \in Nat \ {0} /\ k \in Nat /\ n <= k /\ a.ANonce \in Nat /\ a.ANonce < n
      /\ (b.ANonce \in {a.ANonce, 0} \/ (b.ANonce = n /\ k = n + 1))
  BY DEF Chain, Nonces, Calmer
<1>3. /\ Le(Told(p, a, n), Told(p, b, k)) /\ Told(p, b, k) \in Points(p)
      /\ k \in Nat \ {0} /\ b.ANonce \in Nat /\ b.ANonce < k
  BY <1>2, ToldMore
<1>4. Between(p, new, "3/4", Low(p, u), w) /\ IsQueue(new)
  <2> DEFINE type == "3/4"
  <2>1. type \in {"1/4", "3/4"} /\ Between(p, out, type, Low(p, u), w)
    BY DEF Chain, Ordered
  <2> HIDE DEF type
  <2>2. Between(p, new, type, Low(p, u), w) /\ IsQueue(new)
    BY <1>1, <2>1, OtherSent
  <2> QED BY <2>2 DEF type
<1>5. Between(p, new, "1/4", Heard(p, u), Told(p, b, k))
  <2> DEFINE type == "1/4"
             told == Told(p, a, n)
             more == Told(p, b, k)
             heard == Heard(p, u)
  <2>1. type \in {"1/4", "3/4"} /\ Between(p, out, type, heard, told) /\ Le(heard, heard)
    BY <1>1, LeOrder DEF Chain, Nonces
  <2>2. /\ heard \in Points(p) /\ told \in Points(p) /\ more \in Points(p) /\ Le(told, more)
    BY <1>1, <1>3
  <2> HIDE DEF type, told, more, heard
  <2>3. Between(p, new, type, heard, told)
    BY <1>1, <2>1, OtherSent
  <2>4. Between(p, new, type, heard, more)
    BY <2>1, <2>2, <2>3, BetweenWiden
  <2> QED BY <2>4 DEF type, more, heard
<1>6. Le(Heard(p, u), Told(p, b, k))
  BY <1>1, <1>3, LeOrder DEF Chain, Nonces
<1>7. Ordered(p, w, u, new, in)
  BY <1>1, <1>4 DEF Chain, Ordered
<1>8. Nonces(p, b, k, u, new)
  BY <1>3, <1>5, <1>6 DEF Nonces, Calmer
<1>9. PtkSound(b, w, u)
  BY DEF Chain, PtkSound, Calmer
<1> QED BY <1>7, <1>8, <1>9 DEF Chain, FrameSound, Calmer

(* With context c, the station u and the frames on their way from it.      *)
Linked(p, c, u, in) == \E w : Chain(p, w, c.sm, c.group.Counter, u, c.out, in)

Calm(d, c) ==
  Calmer(d.sm, d.group.Counter, c.sm, c.group.Counter) /\ SentOther(d.out, c.out)

LEMMA CalmLinks ==
  ASSUME NEW p, NEW c, NEW d, NEW u, NEW in, Linked(p, c, u, in), Calm(d, c)
  PROVE  Linked(p, d, u, in)
<1>1. PICK w : Chain(p, w, c.sm, c.group.Counter, u, c.out, in)
  BY DEF Linked
<1>2. Chain(p, w, d.sm, d.group.Counter, u, d.out, in)
  BY <1>1, ChainSame DEF Calm
<1> QED BY <1>2 DEF Linked

(* The states that SM_STEP(WPA_PTK) enters with no other key than before.  *)
LEMMA PtkCalm ==
  ASSUME NEW c, LoopInv(c), Fresh(c.sm), NEW st, PtkGoes(c.sm, st),
         st \notin {"none", "PTKSTART", "PTKCALCNEGOTIATING", "PTKINITNEGOTIATING",
                    "PTKINITDONE"}
  PROVE  Calm(EnterPtk(c, st), c)
<1> DEFINE d == EnterPtk(c, st)
           m == c.sm
           n == d.sm
<1>1. /\ Shaped(c) /\ SmTypes(c.sm) /\ c.group.GKeyDoneStations \in Nat
      /\ c.group.Counter \in Nat \ {0} /\ m.PTK_valid \in BOOLEAN /\ m.rekey_timer \in BOOLEAN
  BY DEF LoopInv, Control, GroupOK, SmTypes
<1> HIDE DEF d
<1>2. CASE st = "DISCONNECT" /\ ToDISCONNECT(m)
  <2>1. d = EnterPtk(c, "DISCONNECT")
    BY <1>2 DEF d
  <2>2. /\ n.ptk_state = "DISCONNECT"
        /\ Kept(d, c, {"ptk_state", "requests", "leaving", "assoc", "authorized"})
        /\ n.requests = m.requests \ {"Disconnect"}
        /\ d.group = c.group /\ SentOther(d.out, c.out)
    BY <1>1, <2>1, EnterDISCONNECT
  <2>3. /\ n.PTK = m.PTK /\ n.PTK_valid = m.PTK_valid
        /\ n.pairwise_set = m.pairwise_set /\ n.key = m.key
        /\ n.ANonce = m.ANonce /\ n.rekey_timer = m.rekey_timer
    BY <2>2, SmFields DEF Kept
  <2>4. n.requests = {} /\ n.rx # "pairwise"
    BY <2>1, <1>2, FewerDISCONNECT DEF Fewer, Mid
  <2>5. Calmer(n, d.group.Counter, m, c.group.Counter)
    BY <1>1, <2>2, <2>3, <2>4 DEF Calmer, Fresh, Done
  <2> QED BY <2>2, <2>5 DEF Calm, d
<1>3. CASE st = "DISCONNECTED" /\ ToDISCONNECTED(m)
  <2>1. d = EnterPtk(c, "DISCONNECTED")
    BY <1>3 DEF d
  <2>2. /\ n.ptk_state = "DISCONNECTED"
        /\ Kept(d, c, {"ptk_state", "requests"})
        /\ n.requests = m.requests \ {"Deauthentication"}
        /\ d.group = c.group /\ d.out = c.out
    BY <1>1, <2>1, EnterDISCONNECTED
  <2>3. /\ n.PTK = m.PTK /\ n.PTK_valid = m.PTK_valid
        /\ n.pairwise_set = m.pairwise_set /\ n.key = m.key
        /\ n.leaving = m.leaving /\ n.ANonce = m.ANonce
        /\ n.rekey_timer = m.rekey_timer
    BY <2>2, SmFields DEF Kept
  <2>4. n.requests = {} /\ n.rx # "pairwise"
    BY <2>1, <1>3, FewerDISCONNECTED DEF Fewer, Mid
  <2> QED BY <1>1, <2>2, <2>3, <2>4 DEF Calm, Calmer, Fresh, Done, SentOther, d
<1>4. CASE st = "INITIALIZE" /\ ToINITIALIZE(m)
  <2>1. d = EnterPtk(c, "INITIALIZE")
    BY <1>4 DEF d
  <2>2. /\ n.ptk_state = "INITIALIZE"
        /\ Kept(d, c, {"ptk_state", "GUpdateStationKeys", "PTK_valid", "PTK", "key",
                       "pairwise_set", "rekey_timer", "TimeoutCtr",
                       "authorized"})
        /\ n.PTK_valid = FALSE
        /\ n.PTK = NoKey
        /\ n.rekey_timer = FALSE
        /\ GroupKept(d, c, {"GKeyDoneStations"}) /\ d.out = c.out
    BY <1>1, <2>1, EnterINITIALIZE
  <2>3. /\ n.requests = m.requests /\ n.leaving = m.leaving
        /\ n.ANonce = m.ANonce
    BY <2>2, SmFields DEF Kept
  <2>4. n.requests = {} /\ n.rx # "pairwise"
    BY <2>1, <1>4, FewerINITIALIZE DEF Fewer, Mid
  <2>5. d.group.Counter = c.group.Counter
    BY <2>2, GroupFields DEF GroupKept
  <2> QED BY <1>1, <2>2, <2>3, <2>4, <2>5 DEF Calm, Calmer, Fresh, Done, SentOther, d
<1>5. CASE st = "AUTHENTICATION" /\ ToAUTHENTICATION(m)
  <2>1. d = EnterPtk(c, "AUTHENTICATION")
    BY <1>5 DEF d
  <2>2. /\ n.ptk_state = "AUTHENTICATION"
        /\ Kept(d, c, {"ptk_state", "requests", "PTK", "PTK_valid"})
        /\ n.requests = m.requests \ {"Authentication"}
        /\ n.PTK = NoKey
        /\ n.PTK_valid = FALSE
        /\ d.group = c.group /\ d.out = c.out
    BY <1>1, <2>1, EnterAUTHENTICATION
  <2>3. /\ n.pairwise_set = m.pairwise_set /\ n.key = m.key
        /\ n.leaving = m.leaving /\ n.ANonce = m.ANonce
        /\ n.rekey_timer = m.rekey_timer
    BY <2>2, SmFields DEF Kept
  <2>4. n.requests = {} /\ n.rx # "pairwise"
    BY <2>1, <1>5, FewerAUTHENTICATION DEF Fewer, Mid
  <2> QED BY <1>1, <2>2, <2>3, <2>4 DEF Calm, Calmer, Fresh, Done, SentOther, d
<1>6. CASE st = "AUTHENTICATION2" /\ ToAUTHENTICATION2(m)
  <2>1. d = EnterPtk(c, "AUTHENTICATION2")
    BY <1>6 DEF d
  <2>2. /\ n.ptk_state = "AUTHENTICATION2"
        /\ Kept(d, c, {"ptk_state", "requests", "ANonce", "TimeoutCtr"})
        /\ n.ANonce = c.group.Counter
        /\ d.group.Counter = c.group.Counter + 1 /\ d.out = c.out
    BY <1>1, <2>1, EnterAUTHENTICATION2
  <2>3. /\ n.PTK = m.PTK /\ n.PTK_valid = m.PTK_valid
        /\ n.pairwise_set = m.pairwise_set /\ n.key = m.key
        /\ n.leaving = m.leaving /\ n.rekey_timer = m.rekey_timer
    BY <2>2, SmFields DEF Kept
  <2>4. n.requests = {} /\ n.rx # "pairwise"
    BY <2>1, <1>6, FewerAUTHENTICATION2 DEF Fewer, Mid
  <2> QED BY <1>1, <2>2, <2>3, <2>4 DEF Calm, Calmer, Fresh, Done, SentOther, d
<1>7. CASE st = "INITPSK" /\ ToINITPSK(m)
  <2>1. d = EnterPtk(c, "INITPSK")
    BY <1>7 DEF d
  <2>2. /\ n.ptk_state = "INITPSK"
        /\ Kept(d, c, {"ptk_state", "req_replay_counter"})
        /\ d.group = c.group /\ d.out = c.out
    BY <1>1, <2>1, EnterINITPSK
  <2>3. /\ n.requests = m.requests /\ n.PTK = m.PTK /\ n.PTK_valid = m.PTK_valid
        /\ n.pairwise_set = m.pairwise_set /\ n.key = m.key
        /\ n.leaving = m.leaving /\ n.ANonce = m.ANonce
        /\ n.rekey_timer = m.rekey_timer
    BY <2>2, SmFields DEF Kept
  <2>4. n.requests = {} /\ n.rx # "pairwise"
    BY <2>1, <1>7, FewerINITPSK DEF Fewer, Mid
  <2> QED BY <1>1, <1>7, <2>2, <2>3, <2>4 DEF ToINITPSK, Calm, Calmer, Fresh, Done, SentOther, d
<1>8. CASE st = "PTKCALCNEGOTIATING2" /\ ToPTKCALCNEGOTIATING2(m)
  <2>1. d = EnterPtk(c, "PTKCALCNEGOTIATING2")
    BY <1>8 DEF d
  <2>2. /\ n.ptk_state = "PTKCALCNEGOTIATING2"
        /\ Kept(d, c, {"ptk_state", "TimeoutCtr"})
        /\ d.group = c.group /\ d.out = c.out
    BY <1>1, <2>1, EnterPTKCALCNEGOTIATING2
  <2>3. /\ n.requests = m.requests /\ n.PTK = m.PTK /\ n.PTK_valid = m.PTK_valid
        /\ n.pairwise_set = m.pairwise_set /\ n.key = m.key
        /\ n.leaving = m.leaving /\ n.ANonce = m.ANonce
        /\ n.rekey_timer = m.rekey_timer
    BY <2>2, SmFields DEF Kept
  <2>4. n.requests = {} /\ n.rx # "pairwise"
    BY <2>1, <1>8, FewerPTKCALCNEGOTIATING2 DEF Fewer, Mid
  <2> QED BY <1>1, <1>8, <2>2, <2>3, <2>4 DEF ToPTKCALCNEGOTIATING2, Calm, Calmer, Fresh, Done, SentOther, d
<1> QED BY <1>2, <1>3, <1>4, <1>5, <1>6, <1>7, <1>8 DEF PtkGoes

LEMMA SendFirst ==
  ASSUME NEW p, NEW w, NEW m, NEW n, NEW u, NEW out, NEW new, NEW in,
         Chain(p, w, m, n, u, out, in), m.ANonce # 0,
         Sent(new, out, "1/4", m.ANonce, NoKey)
  PROVE  Chain(p, w, m, n, u, new, in)
<1>1. SUFFICES ASSUME NEW f, f.type = "1/4", f.nonce = m.ANonce
      PROVE  Chain(p, w, m, n, u, Append(out, f), in)
  BY DEF Sent
<1>2. /\ Heard(p, u) \in Points(p) /\ Told(p, m, n) \in Points(p) /\ IsQueue(out)
      /\ Le(Heard(p, u), Told(p, m, n)) /\ Le(Told(p, m, n), Told(p, m, n))
  <2>1. Heard(p, u) \in Points(p) /\ Told(p, m, n) \in Points(p) /\ IsQueue(out)
    BY ChainPoints
  <2> QED BY <2>1, LeOrder DEF Chain, Nonces
<1>3. IsQueue(Append(out, f))
  BY <1>2, QueueAppend
<1>4. Rank(p, f) = Told(p, m, n) /\ Told(p, m, n) \in Keys(p)
  BY <1>1 DEF Rank, Told, Top, Keys, Chain, Nonces
<1>5. Between(p, Append(out, f), "1/4", Heard(p, u), Told(p, m, n))
  <2> DEFINE type == "1/4"
             told == Told(p, m, n)
             heard == Heard(p, u)
  <2>1. /\ heard \in Points(p) /\ told \in Points(p) /\ Le(heard, told) /\ Le(told, told)
        /\ Between(p, out, type, heard, told) /\ f.type = type
        /\ Rank(p, f) = told /\ told \in Keys(p)
    BY <1>1, <1>2, <1>4 DEF Chain, Nonces
  <2> HIDE DEF type, told, heard
  <2>2. Between(p, Append(out, f), type, heard, Rank(p, f))
    BY <1>2, <2>1, BetweenAppend
  <2> QED BY <2>1, <2>2 DEF type, told, heard
<1>6. Between(p, Append(out, f), "3/4", Low(p, u), w)
  <2>1. f.type # "3/4" /\ Between(p, out, "3/4", Low(p, u), w)
    BY <1>1 DEF Chain, Ordered
  <2> QED BY <1>2, <2>1, BetweenOther
<1>7. Ordered(p, w, u, Append(out, f), in)
  BY <1>3, <1>6 DEF Chain, Ordered
<1>8. Nonces(p, m, n, u, Append(out, f))
  BY <1>5 DEF Chain, Nonces
<1> QED BY <1>7, <1>8 DEF Chain

LEMMA SendThird ==
  ASSUME NEW p, NEW w, NEW m, NEW n, NEW u, NEW out, NEW new, NEW in, NEW nonce,
         Chain(p, w, m, n, u, out, in), m.PTK # NoKey, Sent(new, out, "3/4", nonce, m.PTK)
  PROVE  Chain(p, w, m, n, u, new, in)
<1>1. SUFFICES ASSUME NEW f, f.type = "3/4", f.mic = m.PTK
      PROVE  Chain(p, w, m, n, u, Append(out, f), in)
  BY DEF Sent
<1>2. /\ Low(p, u) \in Points(p) /\ w \in Points(p) /\ IsQueue(out) /\ Le(w, w)
  BY ChainPoints, LeOrder
<1>3. IsQueue(Append(out, f))
  BY <1>2, QueueAppend
<1>4. Rank(p, f) = w /\ w \in Keys(p) /\ Le(Low(p, u), w)
  BY <1>1 DEF Rank, Chain, PtkSound, Ordered
<1>5. Between(p, Append(out, f), "3/4", Low(p, u), w)
  <2> DEFINE type == "3/4"
             low == Low(p, u)
  <2>1. Between(p, out, type, low, w) /\ f.type = type /\ low \in Points(p) /\ Le(low, w)
    BY <1>1, <1>2, <1>4 DEF Chain, Ordered
  <2> HIDE DEF type, low
  <2>2. Between(p, Append(out, f), type, low, Rank(p, f))
    BY <1>2, <1>4, <2>1, BetweenAppend
  <2> QED BY <1>4, <2>2 DEF type, low
<1>6. Between(p, Append(out, f), "1/4", Heard(p, u), Told(p, m, n))
  <2>1. f.type # "1/4" /\ Between(p, out, "1/4", Heard(p, u), Told(p, m, n))
    BY <1>1 DEF Chain, Nonces
  <2> QED BY <1>2, <2>1, BetweenOther
<1>7. Ordered(p, w, u, Append(out, f), in)
  BY <1>3, <1>5 DEF Chain, Ordered
<1>8. Nonces(p, m, n, u, Append(out, f))
  BY <1>6 DEF Chain, Nonces
<1> QED BY <1>7, <1>8 DEF Chain

LEMMA LinkedPTKSTART ==
  ASSUME NEW c, LoopInv(c), ToPTKSTART(c.sm), NEW p, NEW u, NEW in, Linked(p, c, u, in)
  PROVE  Linked(p, EnterPtk(c, "PTKSTART"), u, in)
<1> DEFINE d == EnterPtk(c, "PTKSTART")
           m == c.sm
           n == d.sm
<1>1. PICK w : Chain(p, w, m, c.group.Counter, u, c.out, in)
  BY DEF Linked
<1>2. /\ d.group = c.group /\ n.ptk_state = "PTKSTART"
      /\ Kept(d, c, {"ptk_state", "requests", "TimeoutEvt", "TimeoutCtr", "counter",
                     "window", "timers"})
      /\ Sent(d.out, c.out, "1/4", m.ANonce, NoKey)
  BY EnterPTKSTART DEF LoopInv, Control
<1>3. n.ANonce = m.ANonce /\ n.PTK = m.PTK /\ n.PTK_valid = m.PTK_valid
  BY <1>2, SmFields DEF Kept
<1>4. n.rx # "pairwise"
  BY FewerPTKSTART DEF Fewer, Mid
<1>5. m.ANonce # 0 /\ c.group.Counter \in Nat
  BY <1>1 DEF Chain, Nonces, Fresh, ToPTKSTART
<1> HIDE DEF d
<1>6. Calmer(n, d.group.Counter, m, c.group.Counter) /\ SentOther(c.out, c.out)
  BY <1>2, <1>3, <1>4, <1>5 DEF Calmer, Fresh, Done, SentOther
<1>7. Chain(p, w, n, d.group.Counter, u, c.out, in)
  BY <1>1, <1>6, ChainSame
<1>8. Chain(p, w, n, d.group.Counter, u, d.out, in)
  BY <1>2, <1>3, <1>5, <1>7, SendFirst
<1> QED BY <1>8 DEF Linked, d

LEMMA LinkedPTKINITNEGOTIATING ==
  ASSUME NEW c, LoopInv(c), ToPTKINITNEGOTIATING(c.sm), NEW p, NEW u, NEW in,
         Linked(p, c, u, in)
  PROVE  Linked(p, EnterPtk(c, "PTKINITNEGOTIATING"), u, in)
<1> DEFINE d == EnterPtk(c, "PTKINITNEGOTIATING")
           m == c.sm
           n == d.sm
<1>1. PICK w : Chain(p, w, m, c.group.Counter, u, c.out, in)
  BY DEF Linked
<1>2. /\ d.group = c.group /\ n.ptk_state = "PTKINITNEGOTIATING"
      /\ Kept(d, c, {"ptk_state", "TimeoutEvt", "TimeoutCtr", "counter", "window",
                     "timers"})
      /\ Sent(d.out, c.out, "3/4", m.ANonce, m.PTK) /\ (~m.PTK_valid => d.out = c.out)
  BY EnterPTKINITNEGOTIATING DEF LoopInv, Control
<1>3. n.ANonce = m.ANonce /\ n.PTK = m.PTK /\ n.PTK_valid = m.PTK_valid
  BY <1>2, SmFields DEF Kept
<1>4. n.rx # "pairwise"
  BY FewerPTKINITNEGOTIATING DEF Fewer, Mid
<1>5. m.ANonce # 0 /\ c.group.Counter \in Nat
  BY <1>1 DEF Chain, Nonces, Fresh, ToPTKINITNEGOTIATING
<1> HIDE DEF d
<1>6. Calmer(n, d.group.Counter, m, c.group.Counter) /\ SentOther(c.out, c.out)
  BY <1>2, <1>3, <1>4, <1>5 DEF Calmer, Fresh, Done, SentOther
<1>7. Chain(p, w, n, d.group.Counter, u, c.out, in)
  BY <1>1, <1>6, ChainSame
<1>8. Chain(p, w, n, d.group.Counter, u, d.out, in)
  <2>1. CASE m.PTK_valid
    <3>1. n.PTK # NoKey
      BY <2>1, <1>1, <1>3 DEF Chain, PtkSound
    <3>2. Sent(d.out, c.out, "3/4", m.ANonce, n.PTK)
      BY <1>2, <1>3
    <3> QED BY <3>1, <3>2, <1>7, SendThird
  <2>2. CASE ~m.PTK_valid
    BY <2>2, <1>2, <1>7
  <2> QED BY <2>1, <2>2
<1> QED BY <1>8 DEF Linked, d

(* A 2/4 with the right MIC: the key derived from it is the last one.      *)
LEMMA LinkedPTKCALCNEGOTIATING ==
  ASSUME NEW c, LoopInv(c), ToPTKCALCNEGOTIATING(c.sm), NEW p, NEW u, NEW in,
         Linked(p, c, u, in)
  PROVE  Linked(p, EnterPtk(c, "PTKCALCNEGOTIATING"), u, in)
<1> DEFINE d == EnterPtk(c, "PTKCALCNEGOTIATING")
           m == c.sm
           n == d.sm
           ptk == Ptk("psk", m.ANonce, m.SNonce)
           g == c.group.Counter
<1>1. PICK w : Chain(p, w, m, g, u, c.out, in)
  BY DEF Linked
<1>2. /\ d.group = c.group /\ d.out = c.out
      /\ n.ptk_state = "PTKCALCNEGOTIATING" /\ n.rx = "none"
      /\ m.last_mic # ptk => Kept(d, c, {"ptk_state", "rx"})
      /\ m.last_mic = ptk =>
           /\ Kept(d, c, {"ptk_state", "rx", "timers", "MICVerified", "PTK", "PTK_valid"})
           /\ n.PTK_valid = TRUE /\ n.PTK = ptk
  BY EnterPTKCALCNEGOTIATING DEF LoopInv
<1>3. m.ANonce # 0 /\ g \in Nat
  BY <1>1 DEF Chain, Nonces, Fresh, ToPTKCALCNEGOTIATING
<1>4. CASE m.last_mic # ptk
  <2>1. Kept(d, c, {"ptk_state", "rx"})
    BY <1>2, <1>4
  <2> HIDE DEF d
  <2>2. n.ANonce = m.ANonce /\ n.PTK = m.PTK /\ n.PTK_valid = m.PTK_valid
    BY <2>1, SmFields DEF Kept
  <2>3. Calm(d, c)
    BY <1>2, <1>3, <2>2 DEF Calm, Calmer, Fresh, Done, SentOther
  <2> QED BY <2>3, CalmLinks DEF d
<1>5. CASE m.last_mic = ptk
  <2>1. /\ Kept(d, c, {"ptk_state", "rx", "timers", "MICVerified", "PTK", "PTK_valid"})
        /\ n.PTK_valid = TRUE /\ n.PTK = ptk
    BY <1>2, <1>5
  <2>2. ptk[1] = "psk" /\ ptk # NoKey
    BY DEF Ptk, NoKey
  <2> HIDE DEF d, ptk
  <2>3. n.ANonce = m.ANonce
    BY <2>1, SmFields DEF Kept
  <2>4. /\ ptk \in Keys(p) /\ Le(w, ptk) /\ Le(ptk, Latest(p, u))
        /\ Between(p, in, "2/4", ptk, Latest(p, u))
    BY <1>1, <1>5 DEF Chain, FrameSound, ToPTKCALCNEGOTIATING
  <2>5. /\ Low(p, u) \in Points(p) /\ w \in Points(p) /\ ptk \in Points(p)
        /\ Le(Low(p, u), Low(p, u)) /\ Le(Low(p, u), w)
    BY <1>1, <2>4, ChainPoints, LeOrder DEF Chain, Ordered
  <2>6. Between(p, c.out, "3/4", Low(p, u), ptk)
    <3> DEFINE type == "3/4"
               low == Low(p, u)
    <3>1. Between(p, c.out, type, low, w) /\ low \in Points(p) /\ Le(low, low)
      BY <1>1, <2>5 DEF Chain, Ordered
    <3> HIDE DEF type, low
    <3>2. Between(p, c.out, type, low, ptk)
      BY <2>4, <2>5, <3>1, BetweenWiden
    <3> QED BY <3>2 DEF type, low
  <2>7. Le(Low(p, u), ptk)
    BY <2>4, <2>5, LeOrder
  <2>8. Ordered(p, ptk, u, c.out, in)
    BY <1>1, <2>4, <2>6, <2>7 DEF Chain, Ordered
  <2>9. Nonces(p, n, g, u, c.out)
    BY <1>1, <1>3, <2>3 DEF Chain, Nonces, Fresh, Told, Top
  <2>10. PtkSound(n, ptk, u) /\ FrameSound(p, ptk, n, u, in)
    BY <1>2, <2>1, <2>2 DEF PtkSound, FrameSound, Done
  <2>11. Chain(p, ptk, n, d.group.Counter, u, d.out, in)
    BY <1>2, <2>8, <2>9, <2>10 DEF Chain
  <2> QED BY <2>11 DEF Linked, d
<1> QED BY <1>4, <1>5

(* A 4/4 with the right MIC: the station has installed the PTK.            *)
LEMMA LinkedPTKINITDONE ==
  ASSUME NEW c, LoopInv(c), ToPTKINITDONE(c.sm), c.driver_ok \in BOOLEAN,
         NEW p, NEW u, NEW in, Linked(p, c, u, in)
  PROVE  Linked(p, EnterPtk(c, "PTKINITDONE"), u, in)
<1> DEFINE d == EnterPtk(c, "PTKINITDONE")
           m == c.sm
           n == d.sm
           g == c.group.Counter
<1>1. PICK w : Chain(p, w, m, g, u, c.out, in)
  BY DEF Linked
<1>2. /\ d.group = c.group /\ n.ptk_state = "PTKINITDONE" /\ n.rx = "none"
      /\ c.driver_ok =>
           /\ Kept(d, c, {"ptk_state", "rx", "key", "pairwise_set", "rekey_timer",
                          "authorized", "has_GTK"})
           /\ d.out = c.out /\ n.key = m.PTK
      /\ ~c.driver_ok =>
           /\ Kept(d, c, {"ptk_state", "rx", "leaving", "assoc", "authorized"})
           /\ n.leaving = TRUE /\ SentOther(d.out, c.out)
  BY EnterPTKINITDONE DEF LoopInv
<1>3. m.ANonce # 0 /\ g \in Nat
  BY <1>1 DEF Chain, Nonces, Fresh, ToPTKINITDONE
<1> HIDE DEF d
<1>4. CASE ~c.driver_ok
  <2>1. /\ Kept(d, c, {"ptk_state", "rx", "leaving", "assoc", "authorized"})
        /\ n.leaving = TRUE /\ SentOther(d.out, c.out)
    BY <1>2, <1>4
  <2>2. n.ANonce = m.ANonce /\ n.PTK = m.PTK /\ n.PTK_valid = m.PTK_valid
    BY <2>1, SmFields DEF Kept
  <2>3. Calmer(n, d.group.Counter, m, g)
    BY <1>2, <1>3, <2>1, <2>2 DEF Calmer, Fresh, Done
  <2>4. Calm(d, c)
    BY <2>1, <2>3 DEF Calm
  <2> QED BY <2>4, CalmLinks DEF d
<1>5. CASE c.driver_ok
  <2>1. /\ Kept(d, c, {"ptk_state", "rx", "key", "pairwise_set", "rekey_timer",
                       "authorized", "has_GTK"})
        /\ d.out = c.out /\ n.key = m.PTK
    BY <1>2, <1>5
  <2>2. n.ANonce = m.ANonce /\ n.PTK = m.PTK /\ n.PTK_valid = m.PTK_valid
    BY <2>1, SmFields DEF Kept
  <2>3. m.PTK = u.key /\ m.PTK_valid
    BY <1>1 DEF Chain, FrameSound, ToPTKINITDONE, LoopInv, Control, FrameExpected
  <2>4. m.PTK # NoKey /\ m.PTK = w /\ w[1] = "psk"
    BY <1>1, <2>3 DEF Chain, PtkSound
  <2>5. Nonces(p, n, g, u, c.out)
    BY <1>1, <1>3, <2>2 DEF Chain, Nonces, Fresh, Told, Top
  <2>6. PtkSound(n, w, u) /\ FrameSound(p, w, n, u, in)
    BY <1>2, <2>1, <2>2, <2>3, <2>4 DEF PtkSound, FrameSound
  <2>7. Chain(p, w, n, d.group.Counter, u, d.out, in)
    BY <1>1, <1>2, <2>1, <2>5, <2>6 DEF Chain
  <2> QED BY <2>7 DEF Linked, d
<1> QED BY <1>4, <1>5

LEMMA PtkLinked ==
  ASSUME NEW c, LoopInv(c), c.driver_ok \in BOOLEAN, NEW p, NEW u, NEW in,
         Linked(p, c, u, in)
  PROVE  Linked(p, PtkStep(c), u, in)
<1> DEFINE st == PtkNext(c.sm)
<1>1. PtkGoes(c.sm, st) /\ PtkStep(c) = EnterPtk(c, st)
  BY PtkNextIs DEF LoopInv, PtkStep
<1>2. Fresh(c.sm)
  BY DEF Linked, Chain, Nonces
<1> HIDE DEF st
<1>3. CASE st = "none"
  <2>1. EnterPtk(c, st) = c
    BY <1>3 DEF EnterPtk
  <2> QED BY <1>1, <2>1
<1>4. CASE st = "PTKSTART"
  <2>1. ToPTKSTART(c.sm)
    BY <1>1, <1>4 DEF PtkGoes
  <2> QED BY <1>1, <1>4, <2>1, LinkedPTKSTART
<1>5. CASE st = "PTKCALCNEGOTIATING"
  <2>1. ToPTKCALCNEGOTIATING(c.sm)
    BY <1>1, <1>5 DEF PtkGoes
  <2> QED BY <1>1, <1>5, <2>1, LinkedPTKCALCNEGOTIATING
<1>6. CASE st = "PTKINITNEGOTIATING"
  <2>1. ToPTKINITNEGOTIATING(c.sm)
    BY <1>1, <1>6 DEF PtkGoes
  <2> QED BY <1>1, <1>6, <2>1, LinkedPTKINITNEGOTIATING
<1>7. CASE st = "PTKINITDONE"
  <2>1. ToPTKINITDONE(c.sm)
    BY <1>1, <1>7 DEF PtkGoes
  <2> QED BY <1>1, <1>7, <2>1, LinkedPTKINITDONE
<1>8. CASE st \notin {"none", "PTKSTART", "PTKCALCNEGOTIATING", "PTKINITNEGOTIATING",
                      "PTKINITDONE"}
  <2>1. Calm(EnterPtk(c, st), c)
    BY <1>1, <1>2, <1>8, PtkCalm
  <2> QED BY <1>1, <2>1, CalmLinks
<1> QED BY <1>3, <1>4, <1>5, <1>6, <1>7, <1>8

LEMMA GroupCalm ==
  ASSUME NEW c, LoopInv(c), Mid(c.sm), Fresh(c.sm)
  PROVE  Calm(PtkGroupStep(c), c)
<1> DEFINE st == GroupNext(c.sm)
           d == EnterGroup(c, st)
           m == c.sm
           n == d.sm
           new == {"group_state", "GUpdateStationKeys", "GTimeoutCtr", "PtkGroupInit",
                   "TimeoutEvt", "counter", "window", "timers", "requests", "rx", "has_GTK"}
<1>1. /\ Shaped(c) /\ SmTypes(c.sm) /\ c.group.GKeyDoneStations \in Nat
      /\ c.group.Counter \in Nat \ {0} /\ m.requests = {} /\ m.rx # "pairwise"
      /\ GroupGoes(m, st) /\ PtkGroupStep(c) = d
  BY GroupNextIs DEF LoopInv, Control, GroupOK, Mid, PtkGroupStep
<1> HIDE DEF st, d
<1>2. /\ Kept(d, c, new) /\ d.group.Counter = c.group.Counter /\ SentOther(d.out, c.out)
      /\ n.requests \in {{}, {"Disconnect"}} /\ n.rx # "pairwise"
  <2>1. CASE st = "none"
    <3>1. d = c
      BY <2>1 DEF EnterGroup, d
    <3> QED BY <1>1, <3>1 DEF Kept, SentOther
  <2>2. CASE st = "IDLE"
    <3>1. /\ Kept(d, c, {"group_state", "GTimeoutCtr", "PtkGroupInit"})
          /\ d.group = c.group /\ d.out = c.out
      BY <1>1, <2>2, EnterIDLE DEF d
    <3>2. n.requests = m.requests /\ n.rx = m.rx
      BY <3>1, SmFields DEF Kept
    <3> QED BY <1>1, <3>1, <3>2 DEF Kept, SentOther
  <2>3. CASE st = "REKEYNEGOTIATING"
    <3>1. /\ Kept(d, c, {"group_state", "GTimeoutCtr", "TimeoutEvt", "counter", "window",
                         "timers"})
          /\ d.group = c.group /\ SentOther(d.out, c.out)
      BY <1>1, <2>3, EnterREKEYNEGOTIATING DEF d
    <3>2. n.requests = m.requests /\ n.rx = m.rx
      BY <3>1, SmFields DEF Kept
    <3> QED BY <1>1, <3>1, <3>2 DEF Kept
  <2>4. CASE st = "REKEYESTABLISHED"
    <3>1. /\ Kept(d, c, {"group_state", "GUpdateStationKeys", "rx", "GTimeoutCtr",
                         "has_GTK"})
          /\ GroupKept(d, c, {"GKeyDoneStations"}) /\ d.out = c.out /\ n.rx = "none"
      BY <1>1, <2>4, EnterUnmarked DEF d
    <3>2. n.requests = m.requests /\ d.group.Counter = c.group.Counter
      BY <3>1, SmFields, GroupFields DEF Kept, GroupKept
    <3> QED BY <1>1, <3>1, <3>2 DEF Kept, SentOther
  <2>5. CASE st = "KEYERROR"
    <3>1. /\ Kept(d, c, {"group_state", "GUpdateStationKeys", "requests"})
          /\ GroupKept(d, c, {"GKeyDoneStations"}) /\ d.out = c.out
          /\ n.requests = m.requests \cup {"Disconnect"}
      BY <1>1, <2>5, EnterUnmarked DEF d
    <3>2. n.rx = m.rx /\ d.group.Counter = c.group.Counter
      BY <3>1, SmFields, GroupFields DEF Kept, GroupKept
    <3> QED BY <1>1, <3>1, <3>2 DEF Kept, SentOther
  <2> QED BY <1>1, <2>1, <2>2, <2>3, <2>4, <2>5 DEF GroupGoes
<1>3. /\ n.ptk_state = m.ptk_state /\ n.PTK = m.PTK /\ n.PTK_valid = m.PTK_valid
      /\ n.pairwise_set = m.pairwise_set /\ n.key = m.key /\ n.leaving = m.leaving
      /\ n.ANonce = m.ANonce /\ n.rekey_timer = m.rekey_timer
  BY <1>2, SmFields DEF Kept
<1>4. Calmer(n, d.group.Counter, m, c.group.Counter)
  BY <1>1, <1>2, <1>3 DEF Calmer, Fresh, Done
<1> QED BY <1>1, <1>2, <1>4 DEF Calm

LEMMA OnceLinked ==
  ASSUME NEW c, LoopInv(c), c.driver_ok \in BOOLEAN, NEW p, NEW u, NEW in,
         Linked(p, c, u, in)
  PROVE  Linked(p, StepOnce(c), u, in)
<1> DEFINE a == PtkStep(c)
           b == PtkGroupStep(a)
           d == StepOnce(c)
<1>1. GroupPart(a, c) /\ (Fewer(a, c) \/ (a = c /\ Stays(c.sm))) /\ Linked(p, a, u, in)
  BY PtkHalf, PtkLinked
<1>2. d = [b EXCEPT !.group = wpa_group_sm_step(@)]
  BY DEF StepOnce
<1> HIDE DEF a, d
<1>3. LoopInv(a) /\ Mid(a.sm)
  <2>1. Stays(c.sm) => Mid(c.sm)
    BY RoundsTypes DEF LoopInv
  <2> QED BY <1>1, <2>1 DEF LoopInv, GroupPart, Fewer
<1>4. Fresh(a.sm)
  BY <1>1 DEF Linked, Chain, Nonces
<1>5. GroupPart(b, a) /\ Calm(b, a)
  BY <1>3, <1>4, GroupHalf, GroupCalm
<1> HIDE DEF b
<1>6. Linked(p, b, u, in)
  BY <1>1, <1>5, CalmLinks
<1>7. Shaped(b) /\ GroupOK(b.group)
  BY <1>5 DEF GroupPart
<1>8. d.sm = b.sm /\ d.out = b.out /\ d.group = wpa_group_sm_step(b.group)
  BY <1>2, <1>7 DEF Shaped
<1>9. d.group.Counter = b.group.Counter
  <2>1. \A f \in DOMAIN NewGroup \ {"state", "key"} : d.group[f] = b.group[f]
    BY <1>7, <1>8, GroupStepEffect DEF Shaped
  <2> QED BY <2>1, GroupFields
<1> QED BY <1>6, <1>8, <1>9 DEF Linked, d

LEMMA ThreeLinked ==
  ASSUME NEW c, LoopInv(c), c.driver_ok \in BOOLEAN, NEW p, NEW u, NEW in,
         Linked(p, c, u, in)
  PROVE  Linked(p, ThreeSteps(c), u, in)
<1> DEFINE a == StepOnce(c)
           b == StepOnce(a)
           d == StepOnce(b)
<1>1. Linked(p, a, u, in) /\ LoopInv(a) /\ a.driver_ok \in BOOLEAN
  BY OnceLinked, StepOnceOnward DEF Onward, GroupPart
<1> HIDE DEF a
<1>2. Linked(p, b, u, in) /\ LoopInv(b) /\ b.driver_ok \in BOOLEAN
  BY <1>1, OnceLinked, StepOnceOnward DEF Onward, GroupPart
<1> HIDE DEF b
<1>3. Linked(p, d, u, in)
  BY <1>2, OnceLinked
<1> QED BY <1>3 DEF ThreeSteps, a, b

LEMMA RunLinked ==
  ASSUME NEW c, LoopInv(c), c.driver_ok \in BOOLEAN, NEW p, NEW u, NEW in,
         Linked(p, c, u, in)
  PROVE  Linked(p, wpa_sm_step(c), u, in)
<1> DEFINE a == ThreeSteps(c)
<1>1. Linked(p, a, u, in) /\ LoopInv(a) /\ a.driver_ok \in BOOLEAN
  BY ThreeLinked, ThreeOnward DEF Onward, GroupPart
<1> HIDE DEF a
<1>2. Linked(p, ThreeSteps(a), u, in)
  BY <1>1, ThreeLinked
<1> QED BY <1>2 DEF wpa_sm_step, a

-----------------------------------------------------------------------------
(* The events of hostapd.                                                  *)

LEMMA SofterCalm ==
  ASSUME NEW c, NEW d, LoopInv(c), Fresh(c.sm), Softer(d.sm, c.sm), d.out = c.out,
         d.group.Counter = c.group.Counter
  PROVE  Calm(d, c)
<1>1. c.group.Counter \in Nat
  BY DEF LoopInv, GroupOK
<1>2. Fresh(d.sm)
  BY DEF Fresh, Softer
<1>3. Calmer(d.sm, d.group.Counter, c.sm, c.group.Counter)
  BY <1>1, <1>2 DEF Calmer, Softer, Done
<1> QED BY <1>3 DEF Calm, SentOther

LEMMA StartsLinked ==
  ASSUME NEW c, NEW d, AtEase(c), Starts(d, c), NEW p, NEW u, NEW in, Linked(p, c, u, in)
  PROVE  Linked(p, wpa_sm_step(d), u, in)
<1>1. Fresh(c.sm)
  BY DEF Linked, Chain, Nonces
<1>2. Linked(p, d, u, in)
  BY <1>1, SofterCalm, CalmLinks DEF Starts, AtEase
<1> QED BY <1>2, RunLinked DEF Starts, GroupPart, AtEase

LEMMA EventLinked ==
  ASSUME NEW c, AtEase(c), NEW event \in {"AUTH", "ASSOC", "REAUTH", "DEAUTH", "DISASSOC"},
         NEW p, NEW u, NEW in, Linked(p, c, u, in)
  PROVE  Linked(p, wpa_auth_sm_event(c, event), u, in)
<1> DEFINE d == wpa_remove_ptk(Noted(c, event))
<1>1. Starts(d, c)
  BY NotedPrepares, PreparesStarts
<1> HIDE DEF d
<1>2. Linked(p, wpa_sm_step(d), u, in)
  BY <1>1, StartsLinked
<1> QED BY <1>2 DEF wpa_auth_sm_event, d

\* The flag that only says whether the station is associated.
LEMMA FlagLinked ==
  ASSUME NEW c, NEW d, d.group = c.group, d.out = c.out, Kept(d, c, {"assoc", "exists"}),
         NEW p, NEW u, NEW in, Linked(p, c, u, in)
  PROVE  Linked(p, d, u, in)
<1> DEFINE m == c.sm
           n == d.sm
<1>1. /\ n.ptk_state = m.ptk_state /\ n.PTK = m.PTK /\ n.PTK_valid = m.PTK_valid
      /\ n.pairwise_set = m.pairwise_set /\ n.key = m.key /\ n.leaving = m.leaving
      /\ n.ANonce = m.ANonce /\ n.rekey_timer = m.rekey_timer /\ n.rx = m.rx
      /\ n.last_mic = m.last_mic /\ n.requests = m.requests
  BY SmFields DEF Kept
<1>2. PICK w : Chain(p, w, m, c.group.Counter, u, c.out, in)
  BY DEF Linked
<1>3. Nonces(p, n, c.group.Counter, u, c.out)
  BY <1>1, <1>2 DEF Chain, Nonces, Fresh, Told, Top
<1>4. PtkSound(n, w, u) /\ FrameSound(p, w, n, u, in)
  BY <1>1, <1>2 DEF Chain, PtkSound, Done, FrameSound
<1> QED BY <1>2, <1>3, <1>4 DEF Linked, Chain

\* wpa_auth_sta_deinit, and what may be sent with it
LEMMA FreedLinked ==
  ASSUME NEW c, NEW d, d.sm = NewSm, GroupOK(c.group), GroupOK(d.group),
         c.group.Counter <= d.group.Counter, SentOther(d.out, c.out),
         NEW p, NEW u, NEW in, Linked(p, c, u, in)
  PROVE  Linked(p, d, u, in)
<1>1. /\ NewSm.rx = "none" /\ NewSm.PTK = NoKey /\ NewSm.PTK_valid = FALSE /\ NewSm.ANonce = 0
      /\ ~Done(NewSm) /\ Fresh(NewSm)
  BY DEF NewSm, Done, Fresh
<1>2. Calmer(d.sm, d.group.Counter, c.sm, c.group.Counter)
  BY <1>1 DEF Calmer, GroupOK
<1> QED BY <1>2, CalmLinks DEF Calm

LEMMA AssociatedLinked ==
  ASSUME NEW c, AtEase(c), c.driver_ok = TRUE, ~c.sm.leaving, ~c.sm.exists => c.sm = NewSm,
         NEW p, NEW u, NEW in, Linked(p, c, u, in)
  PROVE  Linked(p, Associated(c), u, in)
<1> DEFINE a == wpa_auth_sta_init(c)
           e == wpa_auth_sm_event(a, "ASSOC")
           b == [e EXCEPT !.sm.assoc = TRUE]
           d == Associated(c)
<1>1. d = IF e.sm.assoc THEN wpa_auth_sm_event(b, "REAUTH") ELSE wpa_sm_step(AssociatedStart(b))
  BY DEF Associated, wpa_auth_sta_associated, AssociatedStart
<1>2. AtEase(a) /\ a.driver_ok = TRUE /\ a.sm.leaving = c.sm.leaving
  BY InitEases
<1>3. Linked(p, a, u, in)
  <2>1. CASE c.sm.exists
    BY <2>1 DEF wpa_auth_sta_init
  <2>2. CASE ~c.sm.exists
    <3>1. a = [c EXCEPT !.sm = [NewSm EXCEPT !.exists = TRUE]] /\ c.sm = NewSm /\ Shaped(c)
      BY <2>2 DEF wpa_auth_sta_init, AtEase, LoopInv
    <3>2. a.group = c.group /\ a.out = c.out /\ Kept(a, c, {"assoc", "exists"})
      BY <3>1, SmFields DEF Shaped, Kept
    <3> HIDE DEF a
    <3> QED BY <3>2, FlagLinked
  <2> QED BY <2>1, <2>2
<1> HIDE DEF a, d
<1>4. /\ Settled(e, a) /\ e.sm.PTK_valid = FALSE /\ e.sm.rekey_timer = FALSE
      /\ Linked(p, e, u, in)
  <2> DEFINE event == "ASSOC"
  <2>1. event \in {"AUTH", "ASSOC", "REAUTH", "DEAUTH", "DISASSOC"} /\ event # "REAUTH"
        /\ event \in {"AUTH", "ASSOC"} /\ e = wpa_auth_sm_event(a, event)
    OBVIOUS
  <2> HIDE DEF event, e
  <2> QED BY <1>2, <1>3, <2>1, EventSettles, EventLinked
<1> HIDE DEF e
<1>5. AtEase(e) /\ e.driver_ok = TRUE
  BY <1>2, <1>4 DEF Settled, AtEase, GroupPart
<1>6. /\ Shaped(b) /\ b.group = e.group /\ b.out = e.out /\ b.driver_ok = TRUE
      /\ Kept(b, e, {"assoc", "exists"})
  BY <1>5, SmFields DEF AtEase, LoopInv, Shaped, Kept
<1> HIDE DEF b
<1>7. AtEase(b) /\ b.sm.PTK_valid = FALSE /\ b.sm.rekey_timer = FALSE /\ Linked(p, b, u, in)
  <2>1. b.driver_ok \in BOOLEAN
    BY <1>6
  <2>2. /\ AtEase(b) /\ b.sm.PTK_valid = e.sm.PTK_valid
        /\ b.sm.rekey_timer = e.sm.rekey_timer
    BY <1>5, <1>6, <2>1, OtherFlag
  <2> QED BY <1>4, <1>6, <2>2, FlagLinked
<1>8. CASE e.sm.assoc
  <2> DEFINE event == "REAUTH"
  <2>1. event \in {"AUTH", "ASSOC", "REAUTH", "DEAUTH", "DISASSOC"}
        /\ d = wpa_auth_sm_event(b, event)
    BY <1>1, <1>8
  <2> HIDE DEF event
  <2> QED BY <1>7, <2>1, EventLinked DEF d
<1>9. CASE ~e.sm.assoc
  <2> DEFINE q == AssociatedStart(b)
  <2>1. d = wpa_sm_step(q) /\ Prepares(q, b)
    BY <1>1, <1>7, <1>9, AssociatedPrepares
  <2> HIDE DEF q
  <2>2. Starts(q, b)
    BY <1>7, <2>1, PreparesStarts
  <2> QED BY <1>7, <2>1, <2>2, StartsLinked DEF d
<1> QED BY <1>8, <1>9

LEMMA TimeoutLinked ==
  ASSUME NEW c, AtEase(c), c.sm.timers > 0, NEW p, NEW u, NEW in, Linked(p, c, u, in)
  PROVE  Linked(p, wpa_sm_step([c EXCEPT !.sm.timers = @ - 1, !.sm.TimeoutEvt = TRUE]), u, in)
<1> DEFINE d == [c EXCEPT !.sm.timers = @ - 1, !.sm.TimeoutEvt = TRUE]
<1>1. Starts(d, c)
  BY TimeoutStarts
<1> HIDE DEF d
<1>2. Linked(p, wpa_sm_step(d), u, in)
  BY <1>1, StartsLinked
<1> QED BY <1>2 DEF d

LEMMA RekeyLinked ==
  ASSUME NEW c, AtEase(c), c.sm.rekey_timer = TRUE, NEW p, NEW u, NEW in, Linked(p, c, u, in)
  PROVE  Linked(p, wpa_sm_step(wpa_request_new_ptk([c EXCEPT !.sm.rekey_timer = FALSE])), u, in)
<1> DEFINE d == wpa_request_new_ptk([c EXCEPT !.sm.rekey_timer = FALSE])
<1>1. Starts(d, c)
  BY RekeyPrepares, PreparesStarts
<1> HIDE DEF d
<1>2. Linked(p, wpa_sm_step(d), u, in)
  BY <1>1, StartsLinked
<1> QED BY <1>2 DEF d

\* The first frame of the station is taken from its queue.
LEMMA TailChain ==
  ASSUME NEW p, NEW w, NEW m, NEW n, NEW u, NEW out, NEW in, Chain(p, w, m, n, u, out, in),
         m.rx # "pairwise", in # <<>>
  PROVE  Chain(p, w, m, n, u, out, Tail(in))
<1>1. IsQueue(in) /\ IsQueue(Tail(in))
  BY QueueTail DEF Chain, Ordered
<1>2. Between(p, Tail(in), "4/4", <<p, 0, 0>>, Low(p, u))
  <2>1. Between(p, in, "4/4", <<p, 0, 0>>, Low(p, u))
    BY DEF Chain, Ordered
  <2> QED BY <1>1, <2>1, BetweenTail
<1>3. Between(p, Tail(in), "2/4", w, Latest(p, u))
  <2>1. Between(p, in, "2/4", w, Latest(p, u))
    BY DEF Chain, Ordered
  <2> QED BY <1>1, <2>1, BetweenTail
<1>4. Ordered(p, w, u, out, Tail(in))
  BY <1>1, <1>2, <1>3 DEF Chain, Ordered
<1> QED BY <1>4 DEF Chain, FrameSound

LEMMA TailLinked ==
  ASSUME NEW p, NEW c, NEW u, NEW in, Linked(p, c, u, in), c.sm.rx # "pairwise", in # <<>>
  PROVE  Linked(p, c, u, Tail(in))
BY TailChain DEF Linked

(* A 2/4 that is taken was made from the newest nonces of the station; a   *)
(* 4/4 that is taken, when the station had installed the PTK.              *)
LEMMA TakenLinked ==
  ASSUME NEW c, AtEase(c), NEW p, NEW u, NEW in, Linked(p, c, u, in), in # <<>>,
         NEW f, f = Head(in), TakenNow(c, f), f.type \in {"2/4", "4/4"}
  PROVE  Linked(p, Taken(Checked(c, f), f), u, Tail(in))
<1> DEFINE d == Taken(Checked(c, f), f)
           m == c.sm
           n == d.sm
           g == c.group.Counter
<1>1. PICK w : Chain(p, w, m, g, u, c.out, in)
  BY DEF Linked
<1>2. Shaped(c) /\ Control(m) /\ m.rx # "pairwise" /\ IsKeyFrame(f)
  BY RestFacts DEF AtEase, LoopInv, TakenNow
<1>3. /\ d.group = c.group /\ d.out = c.out /\ n.last_mic = f.mic /\ n.rx = "pairwise"
      /\ Kept(d, c, {"MICVerified", "timers", "window", "last_mic", "SNonce", "rx"})
  BY <1>2, TakenEffect
<1> HIDE DEF d
<1>4. /\ n.ptk_state = m.ptk_state /\ n.PTK = m.PTK /\ n.PTK_valid = m.PTK_valid
      /\ n.pairwise_set = m.pairwise_set /\ n.key = m.key /\ n.leaving = m.leaving
      /\ n.ANonce = m.ANonce /\ n.rekey_timer = m.rekey_timer /\ n.requests = m.requests
  BY <1>3, SmFields DEF Kept
<1>5. Chain(p, w, m, g, u, c.out, Tail(in))
  BY <1>1, <1>2, TailChain
<1>6. Nonces(p, n, g, u, c.out) /\ PtkSound(n, w, u)
  <2>1. Nonces(p, n, g, u, c.out)
    BY <1>4, <1>5 DEF Chain, Nonces, Fresh, Told, Top
  <2> QED BY <2>1, <1>4, <1>5 DEF Chain, PtkSound, Done
<1>7. IsQueue(in)
  BY <1>1 DEF Chain, Ordered
<1>8. FrameSound(p, w, n, u, Tail(in))
  <2>1. CASE f.type = "2/4"
    <3>1. m.ptk_state # "PTKINITNEGOTIATING"
      BY <2>1 DEF TakenNow, Accepted
    <3>2. Between(p, in, "2/4", w, Latest(p, u)) /\ Rank(p, f) = f.mic
      BY <1>1, <2>1 DEF Chain, Ordered, Rank
    <3>3. LET k == Rank(p, Head(in)) IN
          /\ k \in Keys(p) /\ Le(w, k) /\ Le(k, Latest(p, u))
          /\ Between(p, Tail(in), "2/4", k, Latest(p, u))
      BY <1>7, <2>1, <3>2, BetweenTail
    <3>4. /\ f.mic \in Keys(p) /\ Le(w, f.mic) /\ Le(f.mic, Latest(p, u))
          /\ Between(p, Tail(in), "2/4", f.mic, Latest(p, u))
      BY <3>2, <3>3
    <3> QED BY <1>3, <1>4, <3>1, <3>4 DEF FrameSound
  <2>2. CASE f.type = "4/4"
    <3>1. m.ptk_state = "PTKINITNEGOTIATING" /\ m.PTK_valid /\ f.mic = m.PTK
      BY <2>2 DEF TakenNow, Accepted, MicFits
    <3>2. m.PTK = w /\ w \in Keys(p) /\ Le(Low(p, u), w)
      BY <1>1, <3>1 DEF Chain, PtkSound, Ordered
    <3>3. Between(p, in, "4/4", <<p, 0, 0>>, Low(p, u)) /\ Rank(p, f) = w
      BY <1>1, <2>2, <3>1, <3>2 DEF Chain, Ordered, Rank
    <3>4. Le(w, Low(p, u))
      BY <1>7, <2>2, <3>3, BetweenTail
    <3>5. Low(p, u) \in Points(p) /\ w \in Points(p)
      BY <1>1, ChainPoints
    <3>6. Low(p, u) = w
      BY <3>2, <3>4, <3>5, LeOrder
    <3>7. u.key = w
      BY <3>2, <3>6 DEF Low, Keys
    <3> QED BY <1>4, <3>1, <3>2, <3>7 DEF FrameSound
  <2> QED BY <2>1, <2>2
<1>9. Chain(p, w, n, d.group.Counter, u, d.out, Tail(in))
  BY <1>3, <1>5, <1>6, <1>8 DEF Chain
<1> QED BY <1>9 DEF Linked, d

LEMMA ReceiveLinked ==
  ASSUME NEW c, AtEase(c), NEW p, NEW u, NEW in, Linked(p, c, u, in), in # <<>>,
         NEW f, f = Head(in), IsKeyFrame(f)
  PROVE  Linked(p, wpa_receive(c, f), u, Tail(in))
<1> DEFINE d == wpa_receive(c, f)
<1>1. c.sm.rx # "pairwise" /\ LoopInv(c)
  BY RestFacts DEF AtEase, LoopInv
<1>2. Linked(p, c, u, Tail(in))
  BY <1>1, TailLinked
<1>3. Fresh(c.sm)
  BY <1>2 DEF Linked, Chain, Nonces
<1>4. CASE ~c.sm.exists \/ ~Accepted(c.sm, f)
  BY <1>2, <1>4 DEF wpa_receive
<1>5. CASE /\ c.sm.exists /\ Accepted(c.sm, f)
           /\ ~MicFits(c.sm, f) /\ (c.sm.PTK_valid \/ f.type = "Request")
  <2>1. d = Checked(c, f)
    BY <1>5 DEF wpa_receive
  <2>2. Softer(d.sm, c.sm) /\ d.out = c.out /\ d.group.Counter = c.group.Counter
    BY <1>5, <2>1, CheckedRests
  <2> HIDE DEF d
  <2>3. Calm(d, c)
    BY <1>1, <1>3, <2>2, SofterCalm
  <2> QED BY <1>2, <2>3, CalmLinks DEF d
<1>6. CASE /\ c.sm.exists /\ Accepted(c.sm, f)
           /\ ~(~MicFits(c.sm, f) /\ (c.sm.PTK_valid \/ f.type = "Request"))
  <2> DEFINE a == Taken(Checked(c, f), f)
  <2>1. d = wpa_sm_step(a)
    BY <1>6 DEF wpa_receive
  <2>2. TakenNow(c, f)
    BY <1>6 DEF TakenNow
  <2>3. /\ LoopInv(a) /\ GroupPart(a, c)
        /\ f.type \in {"2/2", "Request"} => Softer(a.sm, c.sm)
    BY <2>2, TakenStarts
  <2>4. a.group = c.group /\ a.out = c.out
    BY <1>1, TakenEffect DEF LoopInv
  <2>5. Linked(p, a, u, Tail(in))
    <3>1. CASE f.type \in {"2/4", "4/4"}
      BY <2>2, <3>1, TakenLinked
    <3>2. CASE f.type \in {"2/2", "Request"}
      <4> HIDE DEF a
      <4>1. Calm(a, c)
        BY <1>1, <1>3, <2>3, <2>4, <3>2, SofterCalm
      <4> QED BY <1>2, <4>1, CalmLinks
    <3> QED BY <3>1, <3>2 DEF IsKeyFrame
  <2> HIDE DEF a
  <2>6. a.driver_ok \in BOOLEAN
    BY <2>3 DEF GroupPart, AtEase
  <2> QED BY <2>1, <2>3, <2>5, <2>6, RunLinked
<1> QED BY <1>4, <1>5, <1>6

-----------------------------------------------------------------------------
(* The station.  Its key and its nonces are all that the order is about.   *)
SameKeys(v, u) == v.key = u.key /\ v.anonce = u.anonce /\ v.snonce = u.snonce

LEMMA SameChain ==
  ASSUME NEW p, NEW w, NEW m, NEW n, NEW u, NEW out, NEW in, Chain(p, w, m, n, u, out, in),
         NEW v, SameKeys(v, u)
  PROVE  Chain(p, w, m, n, v, out, in)
<1>1. Low(p, v) = Low(p, u) /\ Latest(p, v) = Latest(p, u) /\ Heard(p, v) = Heard(p, u)
  BY DEF SameKeys, Low, Latest, Heard
<1>2. Ordered(p, w, v, out, in)
  BY <1>1 DEF Chain, Ordered, SameKeys
<1>3. Nonces(p, m, n, v, out)
  BY <1>1 DEF Chain, Nonces
<1>4. PtkSound(m, w, v) /\ FrameSound(p, w, m, v, in)
  BY <1>1 DEF Chain, PtkSound, FrameSound, SameKeys
<1> QED BY <1>2, <1>3, <1>4 DEF Chain

\* The first frame to the station is lost, dropped, or no 1/4 and no 3/4.
LEMMA OutTailChain ==
  ASSUME NEW p, NEW w, NEW m, NEW n, NEW u, NEW out, NEW in, Chain(p, w, m, n, u, out, in),
         out # <<>>
  PROVE  Chain(p, w, m, n, u, Tail(out), in)
<1>1. IsQueue(out) /\ IsQueue(Tail(out))
  BY QueueTail DEF Chain, Ordered
<1>2. Between(p, Tail(out), "3/4", Low(p, u), w)
  <2>1. Between(p, out, "3/4", Low(p, u), w)
    BY DEF Chain, Ordered
  <2> QED BY <1>1, <2>1, BetweenTail
<1>3. Between(p, Tail(out), "1/4", Heard(p, u), Told(p, m, n))
  <2>1. Between(p, out, "1/4", Heard(p, u), Told(p, m, n))
    BY DEF Chain, Nonces
  <2> QED BY <1>1, <2>1, BetweenTail
<1>4. Ordered(p, w, u, Tail(out), in)
  BY <1>1, <1>2 DEF Chain, Ordered
<1>5. Nonces(p, m, n, u, Tail(out))
  BY <1>3 DEF Chain, Nonces
<1> QED BY <1>4, <1>5 DEF Chain

\* The station says something else than 2/4 or 4/4.
LEMMA SaidChain ==
  ASSUME NEW p, NEW w, NEW m, NEW n, NEW u, NEW out, NEW in, Chain(p, w, m, n, u, out, in),
         m.rx # "pairwise", NEW e, e.type # "2/4", e.type # "4/4"
  PROVE  Chain(p, w, m, n, u, out, Put(in, e))
<1>1. CASE Put(in, e) = in
  BY <1>1
<1>2. CASE Put(in, e) = Append(in, e)
  <2> DEFINE q == Append(in, e)
  <2>1. IsQueue(in) /\ IsQueue(q)
    BY QueueAppend DEF Chain, Ordered
  <2>2. Between(p, q, "4/4", <<p, 0, 0>>, Low(p, u))
    <3>1. Between(p, in, "4/4", <<p, 0, 0>>, Low(p, u))
      BY DEF Chain, Ordered
    <3> QED BY <2>1, <3>1, BetweenOther
  <2>3. Between(p, q, "2/4", w, Latest(p, u))
    <3>1. Between(p, in, "2/4", w, Latest(p, u))
      BY DEF Chain, Ordered
    <3> QED BY <2>1, <3>1, BetweenOther
  <2> HIDE DEF q
  <2>4. Ordered(p, w, u, out, q)
    BY <2>1, <2>2, <2>3 DEF Chain, Ordered
  <2>5. Chain(p, w, m, n, u, out, q)
    BY <2>4 DEF Chain, FrameSound
  <2> QED BY <1>2, <2>5 DEF q
<1> QED BY <1>1, <1>2 DEF Put

(* wpa_supplicant_process_1_of_4: the nonces of the station grow, and the  *)
(* 2/4 it sends is the newest of all.                                      *)
LEMMA FirstHeard ==
  ASSUME NEW p, NEW w, NEW m, NEW n, NEW u, NEW out, NEW in, Chain(p, w, m, n, u, out, in),
         m.rx # "pairwise", out # <<>>, NEW f, f = Head(out), f.type = "1/4",
         NEW v, v.key = u.key, v.anonce = f.nonce, v.snonce \in {u.snonce, u.snonce + 1},
         NEW e, e.type = "2/4", e.mic = <<p, v.anonce, v.snonce>>
  PROVE  Chain(p, w, m, n, v, Tail(out), Put(in, e))
<1> DEFINE q == Put(in, e)
           r == Tail(out)
           old == Latest(p, u)
           new == Latest(p, v)
           told == Told(p, m, n)
<1>1. /\ IsQueue(out) /\ IsQueue(in) /\ w \in Points(p) /\ old \in Points(p)
      /\ Low(p, u) \in Points(p) /\ u.anonce \in Nat /\ u.snonce \in Nat
      /\ w \in Keys(p) /\ (u.key # NoKey => u.key \in Keys(p))
      /\ <<p, 0, 0>> \in Points(p) /\ IsQueue(r)
  BY ChainPoints, QueueTail DEF Chain, Ordered
<1>2. /\ Rank(p, f) \in Keys(p) /\ Le(Heard(p, u), Rank(p, f)) /\ Le(Rank(p, f), told)
      /\ Between(p, r, "1/4", Rank(p, f), told)
  <2>1. Between(p, out, "1/4", Heard(p, u), told)
    BY DEF Chain, Nonces
  <2> QED BY <1>1, <2>1, BetweenTail
<1>3. Rank(p, f) = Heard(p, v)
  BY DEF Rank, Heard
<1>4. v.anonce \in Nat /\ u.anonce <= v.anonce
  <2>1. v.anonce \in Nat
    BY <1>2, <1>3 DEF Heard, Keys
  <2> QED BY <2>1, <1>2, <1>3 DEF Heard, Le
<1>5. v.snonce \in Nat /\ u.snonce <= v.snonce
  BY <1>1
<1>6. new \in Keys(p) /\ new \in Points(p) /\ Le(old, new) /\ Low(p, v) = Low(p, u)
      /\ Rank(p, e) = new /\ Le(new, new)
  BY <1>4, <1>5 DEF Latest, Keys, Points, Le, Low, Rank
<1>7. Le(w, old) /\ Between(p, in, "2/4", w, old) /\ Between(p, in, "4/4", <<p, 0, 0>>, Low(p, u))
  BY DEF Chain, Ordered
<1> HIDE DEF old, new, told
<1>8. Le(w, new)
  BY <1>1, <1>6, <1>7, LeOrder
<1>9. Le(w, w)
  BY <1>1, LeOrder
<1>10. /\ IsQueue(q) /\ Between(p, q, "2/4", w, new)
       /\ Between(p, q, "4/4", <<p, 0, 0>>, Low(p, v))
  <2>1. CASE q = in
    <3>1. Between(p, in, "2/4", w, new)
      BY <1>1, <1>6, <1>7, <1>9, BetweenWiden
    <3> QED BY <1>1, <1>6, <1>7, <2>1, <3>1
  <2>2. CASE q = Append(in, e)
    <3>1. IsQueue(Append(in, e))
      BY <1>1, QueueAppend
    <3>2. Between(p, Append(in, e), "4/4", <<p, 0, 0>>, Low(p, v))
      BY <1>1, <1>6, <1>7, BetweenOther
    <3>3. Between(p, Append(in, e), "2/4", w, Rank(p, e))
      <4>1. Rank(p, e) \in Keys(p) /\ Le(w, Rank(p, e)) /\ Le(old, Rank(p, e))
        BY <1>6, <1>8
      <4> QED BY <1>1, <1>7, <4>1, BetweenAppend
    <3> QED BY <1>6, <2>2, <3>1, <3>2, <3>3
  <2> QED BY <2>1, <2>2 DEF Put
<1> HIDE DEF q
<1>11. Between(p, r, "3/4", Low(p, v), w)
  <2>1. Between(p, out, "3/4", Low(p, u), w)
    BY DEF Chain, Ordered
  <2> QED BY <1>1, <1>6, <2>1, BetweenTail
<1> HIDE DEF r
<1>12. Ordered(p, w, v, r, q)
  <2>1. Le(Low(p, v), w)
    BY <1>6 DEF Chain, Ordered
  <2> QED BY <1>1, <1>4, <1>5, <1>8, <1>10, <1>11, <2>1 DEF Ordered, new
<1>13. Nonces(p, m, n, v, r)
  BY <1>2, <1>3 DEF Chain, Nonces, told
<1>14. PtkSound(m, w, v) /\ FrameSound(p, w, m, v, q)
  BY DEF Chain, PtkSound, FrameSound
<1>15. Chain(p, w, m, n, v, r, q)
  BY <1>12, <1>13, <1>14 DEF Chain
<1> QED BY <1>15 DEF r, q

(* wpa_supplicant_process_3_of_4: the station takes the key of the 3/4,    *)
(* which is no older than the one it had; when hostapd has set a key, all  *)
(* 3/4 on their way are of that key.                                       *)
LEMMA ThirdHeard ==
  ASSUME NEW p, NEW w, NEW m, NEW n, NEW u, NEW out, NEW in, Chain(p, w, m, n, u, out, in),
         m.rx # "pairwise", out # <<>>, NEW f, f = Head(out), f.type = "3/4",
         NEW v, v.key = f.mic, v.anonce = u.anonce, v.snonce = u.snonce,
         NEW e, e.type = "4/4", e.mic = f.mic
  PROVE  Chain(p, w, m, n, v, Tail(out), Put(in, e))
<1> DEFINE q == Put(in, e)
           r == Tail(out)
           k == f.mic
<1>1. /\ IsQueue(out) /\ IsQueue(in) /\ w \in Points(p) /\ Latest(p, u) \in Points(p)
      /\ Low(p, u) \in Points(p) /\ u.anonce \in Nat /\ u.snonce \in Nat
      /\ w \in Keys(p) /\ (u.key # NoKey => u.key \in Keys(p))
      /\ <<p, 0, 0>> \in Points(p) /\ IsQueue(r)
  BY ChainPoints, QueueTail DEF Chain, Ordered
<1>2. Rank(p, f) = k /\ Rank(p, e) = k
  BY DEF Rank
<1>3. k \in Keys(p) /\ Le(Low(p, u), k) /\ Le(k, w) /\ Between(p, r, "3/4", k, w)
  <2>1. Between(p, out, "3/4", Low(p, u), w)
    BY DEF Chain, Ordered
  <2> QED BY <1>1, <1>2, <2>1, BetweenTail
<1>4. k # NoKey /\ Low(p, v) = k /\ k \in Points(p) /\ Le(<<p, 0, 0>>, k)
  <2>1. k = <<k[1], k[2], k[3]>>
    BY <1>3 DEF Keys
  <2>2. k # NoKey
    BY <2>1 DEF NoKey
  <2> QED BY <1>3, <2>2 DEF Low, Keys, Points, Le
<1>5. Latest(p, v) = Latest(p, u) /\ Heard(p, v) = Heard(p, u)
  BY DEF Latest, Heard
<1>6. /\ Between(p, in, "2/4", w, Latest(p, u)) /\ Le(w, Latest(p, u))
      /\ Between(p, in, "4/4", <<p, 0, 0>>, Low(p, u))
  BY DEF Chain, Ordered
<1> HIDE DEF k
<1>7. /\ IsQueue(q) /\ Between(p, q, "2/4", w, Latest(p, u)) /\ Between(p, q, "4/4", <<p, 0, 0>>, k)
  <2>1. CASE q = in
    <3>1. Le(<<p, 0, 0>>, <<p, 0, 0>>)
      BY DEF Le
    <3>2. Between(p, in, "4/4", <<p, 0, 0>>, k)
      BY <1>1, <1>3, <1>4, <1>6, <3>1, BetweenWiden
    <3> QED BY <1>1, <1>6, <2>1, <3>2
  <2>2. CASE q = Append(in, e)
    <3>1. IsQueue(Append(in, e))
      BY <1>1, QueueAppend
    <3>2. Between(p, Append(in, e), "2/4", w, Latest(p, u))
      BY <1>1, <1>6, BetweenOther
    <3>3. Between(p, Append(in, e), "4/4", <<p, 0, 0>>, Rank(p, e))
      <4>1. /\ Rank(p, e) \in Keys(p) /\ Le(<<p, 0, 0>>, Rank(p, e))
            /\ Le(Low(p, u), Rank(p, e))
        BY <1>2, <1>3, <1>4
      <4> QED BY <1>1, <1>6, <4>1, BetweenAppend
    <3> QED BY <1>2, <2>2, <3>1, <3>2, <3>3
  <2> QED BY <2>1, <2>2 DEF Put
<1> HIDE DEF q
<1>8. Between(p, r, "1/4", Heard(p, u), Told(p, m, n))
  <2>1. Between(p, out, "1/4", Heard(p, u), Told(p, m, n))
    BY DEF Chain, Nonces
  <2> QED BY <1>1, <2>1, BetweenTail
<1> HIDE DEF r
<1>9. Ordered(p, w, v, r, q)
  <2>1. v.key = k
    BY DEF k
  <2> QED BY <1>1, <1>3, <1>4, <1>5, <1>6, <1>7, <2>1 DEF Ordered
<1>10. Nonces(p, m, n, v, r)
  BY <1>5, <1>8 DEF Chain, Nonces
<1>11. Done(m) => w = k
  <2>1. SUFFICES ASSUME Done(m) PROVE w = k
    OBVIOUS
  <2>2. m.PTK = w /\ u.key = w /\ u.key # NoKey
    BY <2>1 DEF Chain, PtkSound
  <2>3. Low(p, u) = w
    BY <2>2 DEF Low
  <2> QED BY <1>1, <1>3, <1>4, <2>3, LeOrder
<1>12. PtkSound(m, w, v)
  BY <1>11 DEF Chain, PtkSound, k
<1>13. FrameSound(p, w, m, v, q)
  BY DEF FrameSound
<1>14. Chain(p, w, m, n, v, r, q)
  BY <1>9, <1>10, <1>12, <1>13 DEF Chain
<1> QED BY <1>14 DEF r, q

-----------------------------------------------------------------------------
(***************************************************************************)
(* The invariant: such an order exists for every station.  It is stated of *)
(* the parts of a state, and needs WpaInv.                                 *)
(***************************************************************************)
Link(p, m, n, u, out, in) ==
  DOMAIN u = DOMAIN NewSup /\ \E w : Chain(p, w, m, n, u, out, in)

LinksOf(f, n, us, outs, ins) ==
  /\ DOMAIN f = Sta /\ DOMAIN us = Sta /\ DOMAIN outs = Sta /\ DOMAIN ins = Sta
  /\ \A s \in Sta : Link(Psk(s), f[s], n, us[s], outs[s], ins[s])

KeysInv == LinksOf(sm, group.Counter, sup, to_sta, to_ap)

LEMMA SupFields ==
  DOMAIN NewSup =
    {"assoc", "ptk", "tptk", "anonce", "snonce", "renew_snonce", "rx_replay_counter",
     "request_counter", "key", "gtk"}
BY DEF NewSup

\* Of the functions over the stations, only what they are at s has changed.
Only(s, new, old) == DOMAIN new = Sta /\ \A t \in Sta : t # s => new[t] = old[t]

LEMMA OnlyOne ==
  ASSUME NEW s \in Sta, NEW old, DOMAIN old = Sta, NEW new, NEW x,
         new = [old EXCEPT ![s] = x]
  PROVE  Only(s, new, old) /\ new[s] = x
BY DEF Only

LEMMA OnlyNone ==
  ASSUME NEW s \in Sta, NEW old, DOMAIN old = Sta, NEW new, new = old
  PROVE  Only(s, new, old) /\ new[s] = old[s]
BY DEF Only

\* Another station, or the group handshake, may use up nonces.
LEMMA CounterLink ==
  ASSUME NEW p, NEW m, NEW n, NEW u, NEW out, NEW in, Link(p, m, n, u, out, in),
         m.rx # "pairwise", NEW k \in Nat, n <= k, NEW b, Softer(b, m),
         NEW new, SentOther(new, out)
  PROVE  Link(p, b, k, u, new, in)
<1>1. PICK w : Chain(p, w, m, n, u, out, in)
  BY DEF Link
<1>2. Fresh(m)
  BY <1>1 DEF Chain, Nonces
<1>3. Fresh(b)
  BY <1>2 DEF Fresh, Softer
<1>4. Calmer(b, k, m, n)
  BY <1>3 DEF Calmer, Softer, Done
<1>5. Chain(p, w, b, k, u, new, in)
  BY <1>1, <1>4, ChainSame
<1> QED BY <1>5 DEF Link

\* A step of station s or of hostapd with station s.
LEMMA StationStep ==
  ASSUME WpaInv, KeysInv, NEW s \in Sta, Only(s, sm', sm), Only(s, sup', sup),
         Only(s, to_sta', to_sta), Only(s, to_ap', to_ap),
         group'.Counter \in Nat, group.Counter <= group'.Counter,
         Link(Psk(s), sm'[s], group'.Counter, sup'[s], to_sta'[s], to_ap'[s])
  PROVE  KeysInv'
<1> DEFINE n == group.Counter
           k == group'.Counter
<1>1. ASSUME NEW t \in Sta
      PROVE  Link(Psk(t), sm'[t], k, sup'[t], to_sta'[t], to_ap'[t])
  <2>1. CASE t = s
    BY <2>1
  <2>2. CASE t # s
    <3>1. /\ sm'[t] = sm[t] /\ sup'[t] = sup[t] /\ to_sta'[t] = to_sta[t]
          /\ to_ap'[t] = to_ap[t]
      BY <2>2 DEF Only
    <3>2. Link(Psk(t), sm[t], n, sup[t], to_sta[t], to_ap[t]) /\ k \in Nat /\ n <= k
      BY DEF KeysInv, LinksOf
    <3>3. sm[t].rx # "pairwise" /\ sm[t].requests = {}
      BY RestFacts DEF WpaInv, InvOf, AtHome
    <3>4. Softer(sm[t], sm[t])
      BY <3>3 DEF Softer
    <3>5. SentOther(to_sta[t], to_sta[t])
      BY DEF SentOther
    <3> HIDE DEF n, k
    <3>6. Link(Psk(t), sm[t], k, sup[t], to_sta[t], to_ap[t])
      BY <3>2, <3>3, <3>4, <3>5, CounterLink
    <3> QED BY <3>1, <3>6
  <2> QED BY <2>1, <2>2
<1>2. /\ DOMAIN sm' = Sta /\ DOMAIN sup' = Sta /\ DOMAIN to_sta' = Sta /\ DOMAIN to_ap' = Sta
  BY DEF Only
<1>3. LinksOf(sm', k, sup', to_sta', to_ap')
  BY <1>1, <1>2 DEF LinksOf
<1> QED BY <1>3 DEF KeysInv

\* What an event of station s starts from.
LEMMA ContextLinked ==
  ASSUME WpaInv, KeysInv, NEW s \in Sta
  PROVE  LET c == Context(s) IN
         /\ AtEase(c) /\ c.driver_ok = TRUE /\ c.sm = sm[s] /\ c.group = group
         /\ c.out = to_sta[s] /\ (~c.sm.exists => c.sm = NewSm) /\ c.sm.rx # "pairwise"
         /\ Linked(Psk(s), c, sup[s], to_ap[s]) /\ DOMAIN sup[s] = DOMAIN NewSup
<1> DEFINE c == Context(s)
<1>1. /\ AtEase(c) /\ c.driver_ok = TRUE /\ c.sm = sm[s] /\ c.group = group
      /\ (~c.sm.exists => c.sm = NewSm) /\ c.out = to_sta[s] /\ AtHome(c.sm)
  BY ContextEases DEF Context
<1> HIDE DEF c
<1>2. c.sm.rx # "pairwise"
  BY <1>1, RestFacts DEF AtHome
<1>3. Link(Psk(s), sm[s], group.Counter, sup[s], to_sta[s], to_ap[s])
  BY DEF KeysInv, LinksOf
<1>4. Linked(Psk(s), c, sup[s], to_ap[s]) /\ DOMAIN sup[s] = DOMAIN NewSup
  BY <1>1, <1>3 DEF Link, Linked
<1> QED BY <1>1, <1>2, <1>4 DEF c

LEMMA BecomesLinks ==
  ASSUME WpaInv, KeysInv, NEW s \in Sta, NEW d, Becomes(s, d), GroupOK(d.group),
         group.Counter <= d.group.Counter, Only(s, sup', sup), Only(s, to_ap', to_ap),
         DOMAIN sup'[s] = DOMAIN NewSup, Linked(Psk(s), d, sup'[s], to_ap'[s])
  PROVE  KeysInv'
<1>1. DOMAIN sm = Sta /\ DOMAIN to_sta = Sta
  BY DEF KeysInv, LinksOf
<1>2. /\ Only(s, sm', sm) /\ sm'[s] = d.sm /\ group' = d.group
      /\ Only(s, to_sta', to_sta) /\ to_sta'[s] = d.out
  <2>1. sm' = [sm EXCEPT ![s] = d.sm] /\ to_sta' = [to_sta EXCEPT ![s] = d.out]
        /\ group' = d.group
    BY DEF Becomes
  <2> QED BY <1>1, <2>1, OnlyOne
<1>3. group'.Counter \in Nat /\ group.Counter <= group'.Counter
  BY <1>2 DEF GroupOK
<1>4. Link(Psk(s), sm'[s], group'.Counter, sup'[s], to_sta'[s], to_ap'[s])
  BY <1>2 DEF Link, Linked
<1> QED BY <1>2, <1>3, <1>4, StationStep

\* The station does its part: c is unchanged.
LEMMA StationLinks ==
  ASSUME WpaInv, KeysInv, NEW s \in Sta, UNCHANGED <<sm, group>>, Only(s, sup', sup),
         Only(s, to_sta', to_sta), Only(s, to_ap', to_ap), DOMAIN sup'[s] = DOMAIN NewSup,
         \A w : Chain(Psk(s), w, sm[s], group.Counter, sup[s], to_sta[s], to_ap[s]) =>
                Chain(Psk(s), w, sm[s], group.Counter, sup'[s], to_sta'[s], to_ap'[s])
  PROVE  KeysInv'
<1>1. Link(Psk(s), sm[s], group.Counter, sup[s], to_sta[s], to_ap[s]) /\ DOMAIN sm = Sta
  BY DEF KeysInv, LinksOf
<1>2. Link(Psk(s), sm[s], group.Counter, sup'[s], to_sta'[s], to_ap'[s])
  BY <1>1 DEF Link
<1>3. Only(s, sm', sm) /\ sm'[s] = sm[s]
  BY <1>1, OnlyNone
<1>4. group.Counter \in Nat
  BY DEF WpaInv, InvOf, GroupOK
<1>5. group'.Counter \in Nat /\ group.Counter <= group'.Counter
  BY <1>4
<1>6. Link(Psk(s), sm'[s], group'.Counter, sup'[s], to_sta'[s], to_ap'[s])
  BY <1>2, <1>3
<1> QED BY <1>3, <1>5, <1>6, StationStep

LEMMA InitLinks == Init => KeysInv
<1> SUFFICES ASSUME Init PROVE KeysInv
  OBVIOUS
<1>1. /\ sm = [s \in Sta |-> NewSm] /\ group = NewGroup /\ sup = [s \in Sta |-> NewSup]
      /\ to_sta = [s \in Sta |-> <<>>] /\ to_ap = [s \in Sta |-> <<>>]
  BY DEF Init
<1>2. ASSUME NEW p PROVE Chain(p, <<p, 0, 0>>, NewSm, 2, NewSup, <<>>, <<>>)
  <2>1. IsQueue(<<>>) /\ \A type, lo, hi : Between(p, <<>>, type, lo, hi)
    <3>1. <<>> \in Seq({})
      OBVIOUS
    <3>2. DOMAIN <<>> = {}
      OBVIOUS
    <3> QED BY <3>1, <3>2 DEF IsQueue, Between
  <2>2. NewSup.key = NoKey /\ NewSup.anonce = 0 /\ NewSup.snonce = 0
    BY DEF NewSup
  <2>3. Low(p, NewSup) = <<p, -1, -1>> /\ Latest(p, NewSup) = <<p, 0, 0>> /\ Heard(p, NewSup) = <<p, 0, 0>>
    BY <2>2 DEF Low, Latest, Heard
  <2>4. <<p, 0, 0>> \in Keys(p) /\ Le(<<p, -1, -1>>, <<p, 0, 0>>) /\ Le(<<p, 0, 0>>, <<p, 0, 0>>)
    BY DEF Keys, Le
  <2>5. Ordered(p, <<p, 0, 0>>, NewSup, <<>>, <<>>)
    BY <2>1, <2>2, <2>3, <2>4 DEF Ordered
  <2>6. NewSm.ANonce = 0 /\ NewSm.rx = "none" /\ NewSm.PTK = NoKey /\ ~NewSm.PTK_valid
        /\ ~Done(NewSm) /\ Fresh(NewSm)
    BY DEF NewSm, Done, Fresh
  <2>7. Told(p, NewSm, 2) = <<p, 1, 0>>
    BY <2>6 DEF Told, Top
  <2>8. Nonces(p, NewSm, 2, NewSup, <<>>)
    <3>1. Le(<<p, 0, 0>>, <<p, 1, 0>>)
      BY DEF Le
    <3> QED BY <2>1, <2>3, <2>6, <2>7, <3>1 DEF Nonces
  <2>9. PtkSound(NewSm, <<p, 0, 0>>, NewSup) /\ FrameSound(p, <<p, 0, 0>>, NewSm, NewSup, <<>>)
    BY <2>6 DEF PtkSound, FrameSound
  <2> QED BY <2>5, <2>8, <2>9 DEF Chain
<1>3. NewGroup.Counter = 2
  BY DEF NewGroup
<1>4. \A p : Link(p, NewSm, 2, NewSup, <<>>, <<>>)
  BY <1>2 DEF Link
<1> QED BY <1>1, <1>3, <1>4 DEF KeysInv, LinksOf

LEMMA AssociateLinks ==
  ASSUME WpaInv, KeysInv, NEW s \in Sta, Associate(s)
  PROVE  KeysInv'
<1> DEFINE c == Context(s)
           d == Associated(c)
           v == wpa_sm_notify_assoc(sup[s])
<1>1. /\ ~sm[s].leaving /\ Becomes(s, d) /\ sup' = [sup EXCEPT ![s] = v] /\ UNCHANGED to_ap
  BY DEF Associate, Associated
<1>2. /\ AtEase(c) /\ c.driver_ok = TRUE /\ c.sm = sm[s] /\ c.group = group
      /\ (~c.sm.exists => c.sm = NewSm)
      /\ Linked(Psk(s), c, sup[s], to_ap[s]) /\ DOMAIN sup[s] = DOMAIN NewSup
  BY ContextLinked
<1>3. SameKeys(v, sup[s]) /\ DOMAIN v = DOMAIN NewSup
  BY <1>2, SupFields DEF wpa_sm_notify_assoc, SameKeys
<1> HIDE DEF c, v
<1>4. AtEase(d) /\ c.group.Counter <= d.group.Counter /\ Linked(Psk(s), d, sup[s], to_ap[s])
  BY <1>1, <1>2, AssociateSettles, AssociatedLinked
<1> HIDE DEF d
<1>5. DOMAIN sup = Sta /\ DOMAIN to_ap = Sta
  BY DEF KeysInv, LinksOf
<1>6. Only(s, sup', sup) /\ sup'[s] = v /\ Only(s, to_ap', to_ap) /\ to_ap'[s] = to_ap[s]
  BY <1>1, <1>5, OnlyOne, OnlyNone
<1>7. Linked(Psk(s), d, v, to_ap[s])
  BY <1>3, <1>4, SameChain DEF Linked
<1>8. GroupOK(d.group) /\ group.Counter <= d.group.Counter
  BY <1>2, <1>4 DEF AtEase, LoopInv
<1> QED BY <1>1, <1>3, <1>6, <1>7, <1>8, BecomesLinks

\* The steps that leave the station alone.
LEMMA SettlesLinks ==
  ASSUME WpaInv, KeysInv, NEW s \in Sta, NEW c, c.group = group, NEW d, Settled(d, c),
         Becomes(s, d), UNCHANGED <<sup, to_ap>>, Linked(Psk(s), d, sup[s], to_ap[s])
  PROVE  KeysInv'
<1>1. DOMAIN sup = Sta /\ DOMAIN to_ap = Sta /\ DOMAIN sup[s] = DOMAIN NewSup
  BY DEF KeysInv, LinksOf, Link
<1>2. Only(s, sup', sup) /\ sup'[s] = sup[s] /\ Only(s, to_ap', to_ap) /\ to_ap'[s] = to_ap[s]
  BY <1>1, OnlyNone
<1>3. GroupOK(d.group) /\ group.Counter <= d.group.Counter
  BY DEF Settled, GroupPart
<1> QED BY <1>1, <1>2, <1>3, BecomesLinks

LEMMA AuthenticateLinks ==
  ASSUME WpaInv, KeysInv, NEW s \in Sta, Authenticate(s)
  PROVE  KeysInv'
<1> DEFINE c == Context(s)
           event == "AUTH"
           d == wpa_auth_sm_event(c, event)
           v == [sup[s] EXCEPT !.assoc = FALSE]
<1>1. Becomes(s, d) /\ sup' = [sup EXCEPT ![s] = v] /\ UNCHANGED to_ap
  BY DEF Authenticate
<1>2. /\ AtEase(c) /\ c.group = group
      /\ Linked(Psk(s), c, sup[s], to_ap[s]) /\ DOMAIN sup[s] = DOMAIN NewSup
  BY ContextLinked
<1>3. SameKeys(v, sup[s]) /\ DOMAIN v = DOMAIN NewSup
  BY <1>2, SupFields DEF SameKeys
<1>4. event \in {"AUTH", "ASSOC", "REAUTH", "DEAUTH", "DISASSOC"} /\ event # "REAUTH"
  OBVIOUS
<1> HIDE DEF c, event, v
<1>5. Settled(d, c) /\ Linked(Psk(s), d, sup[s], to_ap[s])
  BY <1>2, <1>4, EventSettles, EventLinked
<1> HIDE DEF d
<1>6. DOMAIN sup = Sta /\ DOMAIN to_ap = Sta
  BY DEF KeysInv, LinksOf
<1>7. Only(s, sup', sup) /\ sup'[s] = v /\ Only(s, to_ap', to_ap) /\ to_ap'[s] = to_ap[s]
  BY <1>1, <1>6, OnlyOne, OnlyNone
<1>8. Linked(Psk(s), d, v, to_ap[s])
  BY <1>3, <1>5, SameChain DEF Linked
<1>9. GroupOK(d.group) /\ group.Counter <= d.group.Counter
  BY <1>2, <1>5 DEF Settled, GroupPart
<1> QED BY <1>1, <1>3, <1>7, <1>8, <1>9, BecomesLinks

\* The station is freed.
LEMMA FreedLinks ==
  ASSUME WpaInv, KeysInv, NEW s \in Sta, NEW d, Becomes(s, d), d.sm = NewSm, d.group = group,
         SentOther(d.out, to_sta[s]), UNCHANGED <<sup, to_ap>>
  PROVE  KeysInv'
<1> DEFINE c == Context(s)
<1>1. /\ c.group = group /\ c.out = to_sta[s] /\ GroupOK(c.group)
      /\ Linked(Psk(s), c, sup[s], to_ap[s]) /\ DOMAIN sup[s] = DOMAIN NewSup
  BY ContextLinked DEF AtEase, LoopInv
<1> HIDE DEF c
<1>2. GroupOK(d.group) /\ group.Counter <= d.group.Counter
  BY <1>1 DEF GroupOK
<1>3. Linked(Psk(s), d, sup[s], to_ap[s])
  BY <1>1, <1>2, FreedLinked
<1>4. DOMAIN sup = Sta /\ DOMAIN to_ap = Sta
  BY DEF KeysInv, LinksOf
<1>5. Only(s, sup', sup) /\ sup'[s] = sup[s] /\ Only(s, to_ap', to_ap) /\ to_ap'[s] = to_ap[s]
  BY <1>4, OnlyNone
<1> QED BY <1>1, <1>2, <1>3, <1>5, BecomesLinks

LEMMA RemoveStaLinks ==
  ASSUME WpaInv, KeysInv, NEW s \in Sta, RemoveSta(s) \/ SessionTimeout(s) \/ FreeSta(s)
  PROVE  KeysInv'
<1> DEFINE a == wpa_auth_sta_deinit(Context(s))
           b == [a EXCEPT !.out = Put(@, [type |-> "Deauth"])]
<1>1. /\ a.sm = NewSm /\ a.group = group /\ a.out = to_sta[s]
      /\ b.sm = NewSm /\ b.group = group /\ b.out = Put(to_sta[s], [type |-> "Deauth"])
  BY DEF wpa_auth_sta_deinit, Context
<1>2. (Becomes(s, a) \/ Becomes(s, b)) /\ UNCHANGED <<sup, to_ap>>
  BY DEF RemoveSta, SessionTimeout, FreeSta, Deinit
<1> HIDE DEF a, b
<1>3. SentOther(a.out, to_sta[s])
  BY <1>1 DEF SentOther
<1>4. SentOther(b.out, to_sta[s])
  <2> DEFINE f == [type |-> "Deauth"]
  <2>1. f.type \in {"1/2", "Deauth"} /\ b.out = Put(to_sta[s], f)
    BY <1>1
  <2> HIDE DEF f
  <2> QED BY <2>1 DEF Put, SentOther
<1>5. CASE Becomes(s, a)
  BY <1>1, <1>2, <1>3, <1>5, FreedLinks
<1>6. CASE Becomes(s, b)
  BY <1>1, <1>2, <1>4, <1>6, FreedLinks
<1> QED BY <1>2, <1>5, <1>6

\* Flags that the state machine does not ask: the keys stay.
LEMMA FlagsLinked ==
  ASSUME NEW c, NEW d, AtEase(c), d.group = c.group, SentOther(d.out, c.out),
         Kept(d, c, {"leaving", "assoc", "authorized"}), d.sm.leaving \in {c.sm.leaving, TRUE},
         NEW p, NEW u, NEW in, Linked(p, c, u, in)
  PROVE  Linked(p, d, u, in)
<1> DEFINE m == c.sm
           n == d.sm
<1>1. /\ n.ptk_state = m.ptk_state /\ n.PTK = m.PTK /\ n.PTK_valid = m.PTK_valid
      /\ n.pairwise_set = m.pairwise_set /\ n.key = m.key
      /\ n.ANonce = m.ANonce /\ n.rekey_timer = m.rekey_timer /\ n.rx = m.rx
      /\ n.requests = m.requests
  BY SmFields DEF Kept
<1>2. m.rx # "pairwise"
  BY RestFacts DEF AtEase, LoopInv
<1>3. Fresh(m) /\ c.group.Counter \in Nat
  BY DEF Linked, Chain, Nonces
<1>4. Fresh(n)
  BY <1>1, <1>3 DEF Fresh
<1>5. Done(n) => Done(m)
  BY <1>1 DEF Done
<1>6. Calmer(n, d.group.Counter, m, c.group.Counter)
  BY <1>1, <1>2, <1>3, <1>4, <1>5 DEF Calmer
<1> QED BY <1>6, CalmLinks DEF Calm

LEMMA InactivityLinks ==
  ASSUME WpaInv, KeysInv, NEW s \in Sta, Inactivity(s)
  PROVE  KeysInv'
<1> DEFINE c == Context(s)
           d == [c EXCEPT !.sm.assoc = FALSE, !.out = Put(@, [type |-> "Deauth"])]
<1>1. Becomes(s, d) /\ UNCHANGED <<sup, to_ap>>
  BY DEF Inactivity
<1>2. /\ AtEase(c) /\ c.group = group
      /\ Linked(Psk(s), c, sup[s], to_ap[s]) /\ DOMAIN sup[s] = DOMAIN NewSup
  BY ContextLinked
<1> HIDE DEF c
<1>3. /\ d.group = c.group /\ SentOther(d.out, c.out)
      /\ Kept(d, c, {"leaving", "assoc", "authorized"}) /\ d.sm.leaving = c.sm.leaving
  BY <1>2, InactiveEffect DEF AtEase, LoopInv
<1> HIDE DEF d
<1>4. Linked(Psk(s), d, sup[s], to_ap[s])
  BY <1>2, <1>3, FlagsLinked
<1>5. GroupOK(d.group) /\ group.Counter <= d.group.Counter
  BY <1>2, <1>3 DEF AtEase, LoopInv, GroupOK
<1>6. DOMAIN sup = Sta /\ DOMAIN to_ap = Sta
  BY DEF KeysInv, LinksOf
<1>7. Only(s, sup', sup) /\ sup'[s] = sup[s] /\ Only(s, to_ap', to_ap) /\ to_ap'[s] = to_ap[s]
  BY <1>1, <1>6, OnlyNone
<1> QED BY <1>1, <1>2, <1>4, <1>5, <1>7, BecomesLinks

LEMMA JoinOtherBssLinks ==
  ASSUME WpaInv, KeysInv, NEW s \in Sta, JoinOtherBss(s)
  PROVE  KeysInv'
<1> DEFINE c == Context(s)
           d == wpa_sta_disconnect(c)
           v == [sup[s] EXCEPT !.assoc = FALSE]
<1>1. Becomes(s, d) /\ sup' = [sup EXCEPT ![s] = v] /\ UNCHANGED to_ap
  BY DEF JoinOtherBss
<1>2. /\ AtEase(c) /\ c.group = group
      /\ Linked(Psk(s), c, sup[s], to_ap[s]) /\ DOMAIN sup[s] = DOMAIN NewSup
  BY ContextLinked
<1>3. SameKeys(v, sup[s]) /\ DOMAIN v = DOMAIN NewSup
  BY <1>2, SupFields DEF SameKeys
<1> HIDE DEF c, v
<1>4. /\ d.group = c.group /\ SentOther(d.out, c.out)
      /\ Kept(d, c, {"leaving", "assoc", "authorized"}) /\ d.sm.leaving = TRUE
  BY <1>2, DisconnectEffect DEF AtEase, LoopInv
<1> HIDE DEF d
<1>5. Linked(Psk(s), d, sup[s], to_ap[s])
  BY <1>2, <1>4, FlagsLinked
<1>6. DOMAIN sup = Sta /\ DOMAIN to_ap = Sta
  BY DEF KeysInv, LinksOf
<1>7. Only(s, sup', sup) /\ sup'[s] = v /\ Only(s, to_ap', to_ap) /\ to_ap'[s] = to_ap[s]
  BY <1>1, <1>6, OnlyOne, OnlyNone
<1>8. Linked(Psk(s), d, v, to_ap[s])
  BY <1>3, <1>5, SameChain DEF Linked
<1>9. GroupOK(d.group) /\ group.Counter <= d.group.Counter
  BY <1>2, <1>4 DEF AtEase, LoopInv, GroupOK
<1> QED BY <1>1, <1>3, <1>7, <1>8, <1>9, BecomesLinks

LEMMA EapolTimeoutLinks ==
  ASSUME WpaInv, KeysInv, NEW s \in Sta, EapolTimeout(s)
  PROVE  KeysInv'
<1> DEFINE c == Context(s)
           d == wpa_sm_step([c EXCEPT !.sm.timers = @ - 1, !.sm.TimeoutEvt = TRUE])
<1>1. sm[s].timers > 0 /\ Becomes(s, d) /\ UNCHANGED <<sup, to_ap>>
  BY DEF EapolTimeout
<1>2. AtEase(c) /\ c.sm = sm[s] /\ c.group = group /\ Linked(Psk(s), c, sup[s], to_ap[s])
  BY ContextLinked
<1> HIDE DEF c
<1>3. Settled(d, c) /\ Linked(Psk(s), d, sup[s], to_ap[s])
  BY <1>1, <1>2, TimeoutSettles, TimeoutLinked
<1> HIDE DEF d
<1> QED BY <1>1, <1>2, <1>3, SettlesLinks

LEMMA RekeyPtkLinks ==
  ASSUME WpaInv, KeysInv, NEW s \in Sta, RekeyPtk(s)
  PROVE  KeysInv'
<1> DEFINE c == Context(s)
           d == wpa_sm_step(wpa_request_new_ptk([c EXCEPT !.sm.rekey_timer = FALSE]))
<1>1. sm[s].rekey_timer /\ Becomes(s, d) /\ UNCHANGED <<sup, to_ap>>
  BY DEF RekeyPtk
<1>2. AtEase(c) /\ c.sm = sm[s] /\ c.group = group /\ Linked(Psk(s), c, sup[s], to_ap[s])
  BY ContextLinked
<1> HIDE DEF c
<1>3. c.sm.rekey_timer = TRUE
  BY <1>1, <1>2 DEF AtEase, LoopInv, Control, SmTypes
<1>4. Settled(d, c) /\ Linked(Psk(s), d, sup[s], to_ap[s])
  BY <1>2, <1>3, RekeySettles, RekeyLinked
<1> HIDE DEF d
<1> QED BY <1>1, <1>2, <1>4, SettlesLinks

LEMMA ApReceivesLinks ==
  ASSUME WpaInv, KeysInv, NEW s \in Sta, ApReceives(s)
  PROVE  KeysInv'
<1> DEFINE c == Context(s)
           in == to_ap[s]
           f == Head(in)
           u == sup[s]
           p == Psk(s)
<1>1. /\ AtEase(c) /\ c.driver_ok = TRUE /\ c.sm = sm[s] /\ c.group = group
      /\ c.sm.rx # "pairwise" /\ Linked(p, c, u, in) /\ DOMAIN u = DOMAIN NewSup
  BY ContextLinked
<1>2. in # <<>> /\ to_ap' = [to_ap EXCEPT ![s] = Tail(in)] /\ UNCHANGED sup
  BY DEF ApReceives
<1>3. /\ Only(s, sup', sup) /\ sup'[s] = u /\ Only(s, to_ap', to_ap)
      /\ to_ap'[s] = Tail(in)
  <2>1. DOMAIN sup = Sta /\ DOMAIN to_ap = Sta
    BY DEF KeysInv, LinksOf
  <2> QED BY <1>2, <2>1, OnlyOne, OnlyNone
<1>4. \/ /\ IsKeyFrame(f)
         /\ \/ Becomes(s, wpa_receive(c, f))
            \/ Becomes(s, wpa_receive([c EXCEPT !.driver_ok = FALSE], f))
      \/ Becomes(s, c)
      \/ Becomes(s, wpa_auth_sm_event([c EXCEPT !.sm.assoc = FALSE], "DISASSOC"))
      \/ Becomes(s, wpa_auth_sta_deinit(wpa_auth_sm_event(c, "DEAUTH")))
  BY DEF ApReceives, IsKeyFrame
<1> HIDE DEF c, in, f, u, p
<1>5. ASSUME NEW d, Becomes(s, d), GroupOK(d.group), group.Counter <= d.group.Counter,
             Linked(p, d, u, Tail(in))
      PROVE  KeysInv'
  <2>1. DOMAIN sup'[s] = DOMAIN NewSup /\ Linked(Psk(s), d, sup'[s], to_ap'[s])
    BY <1>1, <1>3, <1>5 DEF p
  <2> QED BY <1>3, <1>5, <2>1, BecomesLinks
<1>6. Linked(p, c, u, Tail(in)) /\ GroupOK(c.group) /\ c.group.Counter <= c.group.Counter
  <2>1. GroupOK(c.group)
    BY <1>1 DEF AtEase, LoopInv
  <2>2. c.group.Counter <= c.group.Counter
    BY <2>1 DEF GroupOK
  <2> QED BY <1>1, <1>2, <2>1, <2>2, TailLinked
<1>7. CASE IsKeyFrame(f) /\ Becomes(s, wpa_receive(c, f))
  <2> DEFINE d == wpa_receive(c, f)
  <2>1. Settled(d, c) /\ Linked(p, d, u, Tail(in))
    BY <1>1, <1>2, <1>7, ReceiveSettles, ReceiveLinked DEF f
  <2> HIDE DEF d
  <2>2. GroupOK(d.group) /\ group.Counter <= d.group.Counter
    BY <1>1, <2>1 DEF Settled, GroupPart
  <2> QED BY <1>5, <1>7, <2>1, <2>2 DEF d
<1>8. CASE IsKeyFrame(f) /\ Becomes(s, wpa_receive([c EXCEPT !.driver_ok = FALSE], f))
  <2> DEFINE e == [c EXCEPT !.driver_ok = FALSE]
             d == wpa_receive(e, f)
  <2>1. /\ e.sm = c.sm /\ e.group = c.group /\ e.out = c.out /\ e.driver_ok = FALSE
        /\ Shaped(e)
    BY <1>1 DEF AtEase, LoopInv, Shaped
  <2>2. AtEase(e) /\ Linked(p, e, u, in)
    BY <1>1, <2>1 DEF AtEase, LoopInv, Linked
  <2> HIDE DEF e
  <2>3. Settled(d, e) /\ Linked(p, d, u, Tail(in))
    BY <1>2, <1>8, <2>2, ReceiveSettles, ReceiveLinked DEF f
  <2> HIDE DEF d
  <2>4. GroupOK(d.group) /\ group.Counter <= d.group.Counter
    BY <1>1, <2>1, <2>3 DEF Settled, GroupPart
  <2> QED BY <1>5, <1>8, <2>3, <2>4 DEF d, e
<1>9. CASE Becomes(s, c)
  BY <1>1, <1>5, <1>6, <1>9
<1>10. CASE Becomes(s, wpa_auth_sm_event([c EXCEPT !.sm.assoc = FALSE], "DISASSOC"))
  <2> DEFINE e == [c EXCEPT !.sm.assoc = FALSE]
             event == "DISASSOC"
             d == wpa_auth_sm_event(e, event)
  <2>1. /\ Shaped(e) /\ e.group = c.group /\ e.out = c.out /\ e.driver_ok = TRUE
        /\ Kept(e, c, {"assoc", "exists"})
    BY <1>1, SmFields DEF AtEase, LoopInv, Shaped, Kept
  <2>2. event \in {"AUTH", "ASSOC", "REAUTH", "DEAUTH", "DISASSOC"} /\ event # "REAUTH"
    OBVIOUS
  <2>3. Becomes(s, d)
    BY <1>10
  <2> HIDE DEF e, event
  <2>4. e.driver_ok \in BOOLEAN
    BY <2>1
  <2>5. AtEase(e) /\ Linked(p, e, u, Tail(in))
    BY <1>1, <1>6, <2>1, <2>4, OtherFlag, FlagLinked
  <2>6. Settled(d, e) /\ Linked(p, d, u, Tail(in))
    BY <2>2, <2>5, EventSettles, EventLinked
  <2> HIDE DEF d
  <2>7. GroupOK(d.group) /\ group.Counter <= d.group.Counter
    BY <1>1, <2>1, <2>6 DEF Settled, GroupPart
  <2> QED BY <1>5, <2>3, <2>6, <2>7
<1>11. CASE Becomes(s, wpa_auth_sta_deinit(wpa_auth_sm_event(c, "DEAUTH")))
  <2> DEFINE event == "DEAUTH"
             e == wpa_auth_sm_event(c, event)
             d == wpa_auth_sta_deinit(e)
  <2>1. /\ event \in {"AUTH", "ASSOC", "REAUTH", "DEAUTH", "DISASSOC"} /\ event # "REAUTH"
        /\ Becomes(s, d)
    BY <1>11
  <2> HIDE DEF event
  <2>2. Settled(e, c) /\ Linked(p, e, u, Tail(in))
    BY <1>1, <1>6, <2>1, EventSettles, EventLinked
  <2> HIDE DEF e
  <2>3. d.sm = NewSm /\ d.group = e.group /\ d.out = e.out /\ GroupOK(e.group)
        /\ group.Counter <= e.group.Counter
    BY <1>1, <2>2 DEF wpa_auth_sta_deinit, Settled, LoopInv, Shaped, GroupPart
  <2> HIDE DEF d
  <2>4. SentOther(d.out, e.out) /\ e.group.Counter <= d.group.Counter
    BY <2>3 DEF SentOther, GroupOK
  <2>5. Linked(p, d, u, Tail(in))
    BY <2>2, <2>3, <2>4, FreedLinked
  <2> QED BY <1>5, <2>1, <2>3, <2>5
<1> QED BY <1>4, <1>7, <1>8, <1>9, <1>10, <1>11

LEMMA StaReceivesLinks ==
  ASSUME WpaInv, KeysInv, NEW s \in Sta, StaReceives(s)
  PROVE  KeysInv'
<1> DEFINE m == sm[s]
           n == group.Counter
           out == to_sta[s]
           in == to_ap[s]
           f == Head(out)
           u == sup[s]
           p == Psk(s)
<1>1. m.rx # "pairwise" /\ DOMAIN u = DOMAIN NewSup
  BY ContextLinked
<1>2. DOMAIN sup = Sta /\ DOMAIN to_ap = Sta /\ DOMAIN to_sta = Sta
  BY DEF KeysInv, LinksOf
<1>3. out # <<>> /\ to_sta' = [to_sta EXCEPT ![s] = Tail(out)] /\ UNCHANGED <<sm, group>>
  BY DEF StaReceives
<1>4. Only(s, to_sta', to_sta) /\ to_sta'[s] = Tail(out)
  BY <1>2, <1>3, OnlyOne
<1>5. ASSUME NEW v, DOMAIN v = DOMAIN NewSup, NEW q, sup' = [sup EXCEPT ![s] = v],
             to_ap' = [to_ap EXCEPT ![s] = q],
             \A w : Chain(p, w, m, n, u, out, in) => Chain(p, w, m, n, v, Tail(out), q)
      PROVE  KeysInv'
  <2>1. Only(s, sup', sup) /\ sup'[s] = v /\ Only(s, to_ap', to_ap) /\ to_ap'[s] = q
    BY <1>2, <1>5, OnlyOne
  <2> QED BY <1>3, <1>4, <1>5, <2>1, StationLinks
<1>6. CASE UNCHANGED <<sup, to_ap>>
  <2>1. /\ Only(s, sup', sup) /\ sup'[s] = u /\ Only(s, to_ap', to_ap) /\ to_ap'[s] = in
    BY <1>2, <1>6, OnlyNone
  <2>2. \A w : Chain(p, w, m, n, u, out, in) => Chain(p, w, m, n, u, Tail(out), in)
    BY <1>3, OutTailChain
  <2> QED BY <1>1, <1>3, <1>4, <2>1, <2>2, StationLinks
<1>7. CASE f.type = "1/4" /\ Process1Of4(s, f)
  <2> DEFINE snonce == IF u.renew_snonce THEN u.snonce + 1 ELSE u.snonce
             tptk == Ptk(p, f.nonce, snonce)
             v == [u EXCEPT !.snonce = snonce, !.renew_snonce = FALSE, !.tptk = tptk,
                            !.anonce = f.nonce]
             e == Reply("2/4", f.replay, snonce, tptk)
  <2>1. sup' = [sup EXCEPT ![s] = v] /\ to_ap' = [to_ap EXCEPT ![s] = Put(in, e)]
    BY <1>7 DEF Process1Of4, Says
  <2>2. /\ DOMAIN v = DOMAIN NewSup /\ v.key = u.key /\ v.anonce = f.nonce
        /\ v.snonce = snonce
    BY <1>1, SupFields
  <2>3. snonce \in {u.snonce, u.snonce + 1}
    OBVIOUS
  <2>4. e.type = "2/4" /\ e.mic = <<p, f.nonce, snonce>>
    BY DEF Reply, Ptk
  <2> HIDE DEF v, e, snonce
  <2>5. e.mic = <<p, v.anonce, v.snonce>> /\ v.snonce \in {u.snonce, u.snonce + 1}
    BY <2>2, <2>3, <2>4
  <2>6. ASSUME NEW w, Chain(p, w, m, n, u, out, in)
        PROVE  Chain(p, w, m, n, v, Tail(out), Put(in, e))
    BY <1>1, <1>3, <1>7, <2>2, <2>4, <2>5, <2>6, FirstHeard
  <2> QED BY <1>5, <2>1, <2>2, <2>6
<1>8. ASSUME NEW v, SameKeys(v, u), NEW e, e.type # "2/4", e.type # "4/4", NEW w,
             Chain(p, w, m, n, u, out, in)
      PROVE  Chain(p, w, m, n, v, Tail(out), Put(in, e))
  <2>1. Chain(p, w, m, n, u, Tail(out), in)
    BY <1>3, <1>8, OutTailChain
  <2>2. Chain(p, w, m, n, v, Tail(out), in)
    BY <1>8, <2>1, SameChain
  <2> QED BY <1>1, <1>8, <2>2, SaidChain
<1>9. CASE f.type = "3/4" /\ Process3Of4(s, f)
  <2> DEFINE a == Verified(u, f)
             b == [a EXCEPT !.renew_snonce = TRUE, !.key = a.ptk, !.gtk[f.idx] = f.gtk]
             d == [a EXCEPT !.assoc = FALSE]
             e == Reply("4/4", f.replay, 0, a.ptk)
             bye == [type |-> "Deauth"]
  <2>1. \/ sup' = [sup EXCEPT ![s] = b] /\ to_ap' = [to_ap EXCEPT ![s] = Put(in, e)]
        \/ sup' = [sup EXCEPT ![s] = d] /\ to_ap' = [to_ap EXCEPT ![s] = Put(in, bye)]
    BY <1>9 DEF Process3Of4, Says
  <2>2. /\ DOMAIN a = DOMAIN NewSup /\ SameKeys(a, u) /\ a.ptk = f.mic
    BY <1>1, SupFields DEF Verified, SameKeys
  <2> HIDE DEF a
  <2>3. /\ DOMAIN b = DOMAIN NewSup /\ b.key = f.mic /\ b.anonce = u.anonce
        /\ b.snonce = u.snonce
    BY <2>2, SupFields DEF SameKeys
  <2>4. DOMAIN d = DOMAIN NewSup /\ SameKeys(d, u)
    BY <2>2, SupFields DEF SameKeys
  <2>5. e.type = "4/4" /\ e.mic = f.mic /\ bye.type # "2/4" /\ bye.type # "4/4"
    BY <2>2 DEF Reply
  <2> HIDE DEF b, d, e, bye
  <2>6. ASSUME NEW w, Chain(p, w, m, n, u, out, in)
        PROVE  /\ Chain(p, w, m, n, b, Tail(out), Put(in, e))
               /\ Chain(p, w, m, n, d, Tail(out), Put(in, bye))
    <3>1. Chain(p, w, m, n, b, Tail(out), Put(in, e))
      BY <1>1, <1>3, <1>9, <2>3, <2>5, <2>6, ThirdHeard
    <3>2. Chain(p, w, m, n, d, Tail(out), Put(in, bye))
      BY <1>8, <2>4, <2>5, <2>6
    <3> QED BY <3>1, <3>2
  <2> QED BY <1>5, <2>1, <2>3, <2>4, <2>6
<1>10. CASE Process1Of2(s, f)
  <2> DEFINE a == Verified(u, f)
             v == [a EXCEPT !.gtk[f.idx] = f.gtk]
             e == Reply("2/2", f.replay, 0, a.ptk)
  <2>1. sup' = [sup EXCEPT ![s] = v] /\ to_ap' = [to_ap EXCEPT ![s] = Put(in, e)]
    BY <1>10 DEF Process1Of2, Says
  <2>2. DOMAIN a = DOMAIN NewSup /\ SameKeys(a, u)
    BY <1>1, SupFields DEF Verified, SameKeys
  <2>3. e.type # "2/4" /\ e.type # "4/4"
    BY DEF Reply
  <2> HIDE DEF a
  <2>4. DOMAIN v = DOMAIN NewSup /\ SameKeys(v, u)
    BY <2>2, SupFields DEF SameKeys
  <2> HIDE DEF v, e
  <2>5. \A w : Chain(p, w, m, n, u, out, in) => Chain(p, w, m, n, v, Tail(out), Put(in, e))
    BY <1>8, <2>3, <2>4
  <2> QED BY <1>5, <2>1, <2>4, <2>5
<1>11. CASE sup' = [sup EXCEPT ![s].assoc = FALSE] /\ UNCHANGED to_ap
  <2> DEFINE v == [u EXCEPT !.assoc = FALSE]
  <2>1. sup' = [sup EXCEPT ![s] = v]
    BY <1>11
  <2>2. DOMAIN v = DOMAIN NewSup /\ SameKeys(v, u)
    BY <1>1, SupFields DEF SameKeys
  <2> HIDE DEF v
  <2>3. Only(s, sup', sup) /\ sup'[s] = v /\ Only(s, to_ap', to_ap) /\ to_ap'[s] = in
    BY <1>2, <1>11, <2>1, OnlyOne, OnlyNone
  <2>4. \A w : Chain(p, w, m, n, u, out, in) => Chain(p, w, m, n, v, Tail(out), in)
    BY <1>3, <2>2, OutTailChain, SameChain
  <2> QED BY <1>3, <1>4, <2>2, <2>3, <2>4, StationLinks
<1> QED BY <1>6, <1>7, <1>9, <1>10, <1>11 DEF StaReceives

\* KeyRequest and Leave
LEMMA SaysLinks ==
  ASSUME WpaInv, KeysInv, NEW s \in Sta, NEW e, Says(s, e), e.type # "2/4", e.type # "4/4",
         NEW v, SameKeys(v, sup[s]), DOMAIN v = DOMAIN NewSup,
         sup' = [sup EXCEPT ![s] = v], UNCHANGED <<sm, group, to_sta>>
  PROVE  KeysInv'
<1>1. DOMAIN sup = Sta /\ DOMAIN to_ap = Sta /\ DOMAIN to_sta = Sta
  BY DEF KeysInv, LinksOf
<1>2. to_ap' = [to_ap EXCEPT ![s] = Put(to_ap[s], e)]
  BY DEF Says
<1>3. /\ Only(s, sup', sup) /\ sup'[s] = v /\ Only(s, to_ap', to_ap)
      /\ to_ap'[s] = Put(to_ap[s], e) /\ Only(s, to_sta', to_sta) /\ to_sta'[s] = to_sta[s]
  BY <1>1, <1>2, OnlyOne, OnlyNone
<1>4. sm[s].rx # "pairwise"
  BY ContextLinked
<1>5. ASSUME NEW w,
             Chain(Psk(s), w, sm[s], group.Counter, sup[s], to_sta[s], to_ap[s])
      PROVE  Chain(Psk(s), w, sm[s], group.Counter, v, to_sta[s], Put(to_ap[s], e))
  BY <1>4, <1>5, SameChain, SaidChain
<1> QED BY <1>3, <1>5, StationLinks

LEMMA StationSaysLinks ==
  ASSUME WpaInv, KeysInv, NEW s \in Sta, KeyRequest(s) \/ Leave(s)
  PROVE  KeysInv'
<1> DEFINE u == sup[s]
<1>1. DOMAIN u = DOMAIN NewSup
  BY ContextLinked
<1>2. CASE KeyRequest(s)
  <2> DEFINE e == Reply("Request", u.request_counter, 0, u.ptk)
             v == [u EXCEPT !.request_counter = @ + 1]
  <2>1. Says(s, e) /\ sup' = [sup EXCEPT ![s] = v] /\ UNCHANGED <<sm, group, to_sta>>
    BY <1>2 DEF KeyRequest
  <2>2. DOMAIN v = DOMAIN NewSup /\ SameKeys(v, u) /\ e.type # "2/4" /\ e.type # "4/4"
    BY <1>1, SupFields DEF SameKeys, Reply
  <2> HIDE DEF e, v
  <2> QED BY <2>1, <2>2, SaysLinks
<1>3. CASE Leave(s)
  <2> DEFINE v == [u EXCEPT !.assoc = FALSE]
  <2>1. PICK type \in {"Disassoc", "Deauth"} : Says(s, [type |-> type])
    BY <1>3 DEF Leave
  <2> DEFINE e == [type |-> type]
  <2>2. Says(s, e) /\ sup' = [sup EXCEPT ![s] = v] /\ UNCHANGED <<sm, group, to_sta>>
    BY <1>3, <2>1 DEF Leave
  <2>3. DOMAIN v = DOMAIN NewSup /\ SameKeys(v, u) /\ e.type # "2/4" /\ e.type # "4/4"
    BY <1>1, SupFields DEF SameKeys
  <2> HIDE DEF e, v
  <2> QED BY <2>2, <2>3, SaysLinks
<1> QED BY <1>2, <1>3

LEMMA LoseLinks ==
  ASSUME WpaInv, KeysInv, NEW s \in Sta, Lose(s)
  PROVE  KeysInv'
<1>1. DOMAIN sup = Sta /\ DOMAIN to_ap = Sta /\ DOMAIN to_sta = Sta
      /\ DOMAIN sup[s] = DOMAIN NewSup
  BY DEF KeysInv, LinksOf, Link
<1>2. UNCHANGED <<sm, group, sup>>
  BY DEF Lose
<1>3. Only(s, sup', sup) /\ sup'[s] = sup[s]
  BY <1>1, <1>2, OnlyNone
<1>4. CASE /\ to_sta[s] # <<>> /\ to_sta' = [to_sta EXCEPT ![s] = Tail(to_sta[s])]
           /\ UNCHANGED to_ap
  <2>1. /\ Only(s, to_sta', to_sta) /\ to_sta'[s] = Tail(to_sta[s])
        /\ Only(s, to_ap', to_ap) /\ to_ap'[s] = to_ap[s]
    BY <1>1, <1>4, OnlyOne, OnlyNone
  <2>2. ASSUME NEW w, Chain(Psk(s), w, sm[s], group.Counter, sup[s], to_sta[s], to_ap[s])
        PROVE  Chain(Psk(s), w, sm[s], group.Counter, sup[s], Tail(to_sta[s]), to_ap[s])
    BY <1>4, <2>2, OutTailChain
  <2> QED BY <1>1, <1>2, <1>3, <2>1, <2>2, StationLinks
<1>5. CASE /\ to_ap[s] # <<>> /\ to_ap' = [to_ap EXCEPT ![s] = Tail(to_ap[s])]
           /\ UNCHANGED to_sta
  <2>1. /\ Only(s, to_ap', to_ap) /\ to_ap'[s] = Tail(to_ap[s])
        /\ Only(s, to_sta', to_sta) /\ to_sta'[s] = to_sta[s]
    BY <1>1, <1>5, OnlyOne, OnlyNone
  <2>2. sm[s].rx # "pairwise"
    BY ContextLinked
  <2>3. ASSUME NEW w, Chain(Psk(s), w, sm[s], group.Counter, sup[s], to_sta[s], to_ap[s])
        PROVE  Chain(Psk(s), w, sm[s], group.Counter, sup[s], to_sta[s], Tail(to_ap[s]))
    BY <1>5, <2>2, <2>3, TailChain
  <2> QED BY <1>1, <1>2, <1>3, <2>1, <2>3, StationLinks
<1> QED BY <1>4, <1>5 DEF Lose

LEMMA RekeyGtkLinks ==
  ASSUME WpaInv, KeysInv, RekeyGtk
  PROVE  KeysInv'
<1> DEFINE a == wpa_group_sm_step(group)
           g == NextGtk(a)
           new == Cardinality(NewlyMarked)
           k == [g EXCEPT !.GKeyDoneStations = @ + new]
<1>1. /\ sm' = [s \in Sta |-> Updated(s, g).sm] /\ to_sta' = [s \in Sta |-> Updated(s, g).out]
      /\ group' = wpa_group_sm_step(k) /\ UNCHANGED <<sup, to_ap>>
  BY DEF RekeyGtk
<1>2. DOMAIN group = DOMAIN NewGroup /\ GroupOK(group)
  BY DEF WpaInv, InvOf
<1>3. /\ DOMAIN a = DOMAIN NewGroup /\ GroupOK(a) /\ a.Counter = group.Counter
      /\ a.GKeyDoneStations = group.GKeyDoneStations
  <2>1. /\ DOMAIN a = DOMAIN NewGroup /\ GroupOK(a)
        /\ \A f \in DOMAIN NewGroup \ {"state", "key"} : a[f] = group[f]
    BY <1>2, GroupStepEffect
  <2> HIDE DEF a
  <2> QED BY <2>1, GroupFields
<1> HIDE DEF a
<1>4. /\ DOMAIN g = DOMAIN NewGroup /\ GroupOK(g) /\ g.Counter = group.Counter + 1
      /\ g.GKeyDoneStations = group.GKeyDoneStations
  BY <1>3, NextGtkEffect
<1> HIDE DEF g
<1>5. new \in Nat
  <2>1. IsFiniteSet(NewlyMarked)
    BY WpaAssumption, FS_Subset DEF NewlyMarked
  <2> QED BY <2>1, FS_CardinalityType
<1> HIDE DEF new
<1>6. DOMAIN k = DOMAIN NewGroup /\ GroupOK(k) /\ k.Counter = g.Counter
  <2>1. /\ DOMAIN k = DOMAIN NewGroup /\ k.GKeyDoneStations = g.GKeyDoneStations + new
        /\ k.state = g.state /\ k.GN = g.GN /\ k.GM = g.GM /\ k.Counter = g.Counter
    BY <1>4, GroupFields
  <2> HIDE DEF k
  <2> QED BY <1>4, <1>5, <2>1 DEF GroupOK
<1> HIDE DEF k
<1>7. group'.Counter = group.Counter + 1
  <2> DEFINE b == wpa_group_sm_step(k)
  <2>1. \A f \in DOMAIN NewGroup \ {"state", "key"} : b[f] = k[f]
    BY <1>6, GroupStepEffect
  <2>2. group' = b
    BY <1>1
  <2> HIDE DEF b
  <2> QED BY <1>4, <1>6, <2>1, <2>2, GroupFields
<1>8. group'.Counter \in Nat /\ group.Counter <= group'.Counter
      /\ group.GKeyDoneStations <= g.GKeyDoneStations
  BY <1>2, <1>4, <1>7 DEF GroupOK
<1>9. ASSUME NEW s \in Sta
      PROVE  Link(Psk(s), sm'[s], group'.Counter, sup'[s], to_sta'[s], to_ap'[s])
  <2> DEFINE d == Updated(s, g)
             n == group'.Counter
  <2>1. Softer(d.sm, sm[s]) /\ SentOther(d.out, to_sta[s])
    BY <1>4, <1>8, UpdatedStation
  <2>2. sm'[s] = d.sm /\ to_sta'[s] = d.out /\ sup'[s] = sup[s] /\ to_ap'[s] = to_ap[s]
    BY <1>1
  <2>3. Link(Psk(s), sm[s], group.Counter, sup[s], to_sta[s], to_ap[s])
    BY DEF KeysInv, LinksOf
  <2>4. sm[s].rx # "pairwise" /\ n \in Nat /\ group.Counter <= n
    BY <1>8, ContextLinked
  <2> HIDE DEF d, n
  <2>5. Link(Psk(s), d.sm, n, sup[s], d.out, to_ap[s])
    BY <2>1, <2>3, <2>4, CounterLink
  <2> QED BY <2>2, <2>5 DEF n
<1>10. DOMAIN sm' = Sta /\ DOMAIN to_sta' = Sta /\ DOMAIN sup' = Sta /\ DOMAIN to_ap' = Sta
  BY <1>1 DEF KeysInv, LinksOf
<1>11. LinksOf(sm', group'.Counter, sup', to_sta', to_ap')
  BY <1>9, <1>10 DEF LinksOf
<1> QED BY <1>11 DEF KeysInv

LEMMA NextLinks ==
  ASSUME WpaInv, KeysInv, Next
  PROVE  KeysInv'
<1>1. CASE RekeyGtk
  BY <1>1, RekeyGtkLinks
<1>2. ASSUME NEW s \in Sta,
             \/ Associate(s) \/ Authenticate(s) \/ RemoveSta(s) \/ SessionTimeout(s)
             \/ Inactivity(s) \/ FreeSta(s) \/ JoinOtherBss(s) \/ EapolTimeout(s) \/ RekeyPtk(s) \/ ApReceives(s)
      PROVE  KeysInv'
  BY <1>2, AssociateLinks, AuthenticateLinks, RemoveStaLinks, InactivityLinks,
     JoinOtherBssLinks, EapolTimeoutLinks,
     RekeyPtkLinks, ApReceivesLinks
<1>3. ASSUME NEW s \in Sta, StaReceives(s) \/ KeyRequest(s) \/ Leave(s) \/ Lose(s)
      PROVE  KeysInv'
  BY <1>3, StaReceivesLinks, StationSaysLinks, LoseLinks
<1> QED BY <1>1, <1>2, <1>3 DEF Next

(* For every station there is an order of the keys on both sides and in    *)
(* the frames between them, round the last PTK that hostapd has derived.   *)
THEOREM KeysInvariant == Spec => []KeysInv
<1>1. WpaInv /\ KeysInv /\ [Next]_vars => KeysInv'
  <2>1. ASSUME WpaInv, KeysInv, Next PROVE KeysInv'
    BY <2>1, NextLinks
  <2>2. ASSUME KeysInv, UNCHANGED vars PROVE KeysInv'
    BY <2>2 DEF vars, KeysInv
  <2> QED BY <2>1, <2>2
<1> QED BY <1>1, InitLinks, WpaInvariant, PTL DEF Spec

(* When hostapd has finished the 4-way handshake and set the pairwise key, *)
(* the station has installed the same key, whatever frames were lost, sent *)
(* again or answered late, and it knows the PSK.                           *)
THEOREM KeysAlwaysAgree == Spec => []KeysAgree
<1>1. KeysInv => KeysAgree
  <2>1. SUFFICES ASSUME KeysInv, NEW s \in Sta, Done(sm[s])
        PROVE  sm[s].key = sup[s].key /\ sm[s].key[1] = "psk"
    BY DEF KeysAgree, Done
  <2>2. PICK w : Chain(Psk(s), w, sm[s], group.Counter, sup[s], to_sta[s], to_ap[s])
    BY <2>1 DEF KeysInv, LinksOf, Link
  <2> QED BY <2>1, <2>2 DEF Chain, PtkSound
<1> QED BY <1>1, KeysInvariant, PTL
=============================================================================
