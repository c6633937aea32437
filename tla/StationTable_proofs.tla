-------------------------- MODULE StationTable_proofs --------------------------
(***************************************************************************)
(* Proofs about hostapd's stations, for any number of BSSs, stations and   *)
(* association ids and whatever order frames, statuses, timers and         *)
(* commands come in: each station has its one timer, the books balance,    *)
(* associations are sound and the kernel follows.                          *)
(***************************************************************************)
EXTENDS StationTable, FiniteSetTheorems, TLAPS

-----------------------------------------------------------------------------
(***************************************************************************)
(* The inductive invariant.                                                *)
(***************************************************************************)

Frames == [bss : Bss, addr : Stations, kind : {"auth", "assoc", "poll"}]

\* The lists and the frames are what the type invariant says of their elements.
TableOK ==
  /\ sta = [b \in Bss |-> sta[b]]
  /\ \A b \in Bss : Known(b) \subseteq Stations /\ sta[b] \in [Known(b) -> StaInfo]

\* A station that is not authenticated any more is on its way out, so that a late
\* acknowledgement cannot leave it associated for good.
OnWayOut ==
  \A b \in Bss : \A s \in Known(b) :
    ~sta[b][s].auth => sta[b][s].timeout_next \in {"STA_DEAUTH", "STA_REMOVE"}

\* Only stations without ERP rates are counted as such.
NonErpMarked == \A b \in Bss : \A s \in Known(b) : sta[b][s].nonerp_set => s \in NonErp

StationInv ==
  /\ TableOK /\ tx \in Seq(Frames)
  /\ OneTimerEach /\ BooksBalance /\ OneAssociation /\ KernelFollows
  /\ OnWayOut /\ NonErpMarked

-----------------------------------------------------------------------------
(***************************************************************************)
(* Lemmas about the table.                                                 *)
(***************************************************************************)

\* The entry of s in b becomes r, all others stay.
SetTo(b, s, r) ==
  /\ sta' = [c \in Bss |-> sta'[c]]
  /\ \A c \in Bss : Known(c)' = Known(c) /\ sta'[c] \in [Known(c) -> StaInfo]
  /\ \A c \in Bss : \A t \in Known(c) : sta'[c][t] = IF c = b /\ t = s THEN r ELSE sta[c][t]

LEMMA EntryChanged ==
  ASSUME TableOK, NEW b \in Bss, NEW s \in Known(b), NEW r \in StaInfo,
         sta' = [sta EXCEPT ![b][s] = r]
  PROVE  SetTo(b, s, r)
BY DEF TableOK, SetTo, Known

LEMMA EntryTyped ==
  ASSUME TableOK, NEW b \in Bss, NEW s \in Known(b)
  PROVE  sta[b][s] \in StaInfo /\ s \in Stations
BY DEF TableOK

\* The stations that num_sta_non_erp counts.
Counted(b, s) == s \in Known(b) /\ sta[b][s].nonerp_set
CountedSet == {e \in Bss \X Stations : Counted(e[1], e[2])}

LEMMA CountedSetIs ==
  /\ CountedSet = {e \in Entries : sta[e[1]][e[2]].nonerp_set}
  /\ CountedSet' = {e \in Entries : sta[e[1]][e[2]].nonerp_set}'
BY Zenon DEF CountedSet, Counted, Entries

LEMMA CountedFinite ==
  /\ IsFiniteSet(CountedSet) /\ IsFiniteSet(CountedSet')
  /\ CountedSet \subseteq Bss \X Stations /\ CountedSet' \subseteq Bss \X Stations
<1>1. IsFiniteSet(Bss \X Stations)
  BY StationAssumption, FS_Product
<1>2. CountedSet \subseteq Bss \X Stations /\ CountedSet' \subseteq Bss \X Stations
  BY DEF CountedSet
<1> QED
  BY <1>1, <1>2, FS_Subset

LEMMA CountedMember ==
  ASSUME NEW b \in Bss, NEW s \in Stations
  PROVE  /\ <<b, s>> \in CountedSet <=> Counted(b, s)
         /\ <<b, s>> \in CountedSet' <=> Counted(b, s)'
BY DEF CountedSet

LEMMA CountedSame ==
  ASSUME \A b \in Bss, s \in Stations : Counted(b, s)' <=> Counted(b, s)
  PROVE  CountedSet' = CountedSet
<1>1. \A e \in Bss \X Stations : e[1] \in Bss /\ e[2] \in Stations
  OBVIOUS
<1> QED
  BY <1>1, Zenon DEF CountedSet

LEMMA CountedMore ==
  ASSUME NEW b \in Bss, NEW s \in Stations, Counted(b, s)', ~Counted(b, s),
         \A c \in Bss, t \in Stations : <<c, t>> # <<b, s>> => (Counted(c, t)' <=> Counted(c, t))
  PROVE  Cardinality(CountedSet') = Cardinality(CountedSet) + 1
<1>1. \A e \in Bss \X Stations : e = <<e[1], e[2]>> /\ e[1] \in Bss /\ e[2] \in Stations
  OBVIOUS
<1>2. <<b, s>> \notin CountedSet /\ <<b, s>> \in CountedSet'
  BY CountedMember
<1>3. \A e \in Bss \X Stations : e # <<b, s>> => (e \in CountedSet' <=> e \in CountedSet)
  BY <1>1, Zenon DEF CountedSet
<1>4. CountedSet' = CountedSet \cup {<<b, s>>}
  BY <1>2, <1>3, CountedFinite, Zenon
<1> QED
  BY <1>2, <1>4, CountedFinite, FS_AddElement

LEMMA CountedLess ==
  ASSUME NEW b \in Bss, NEW s \in Stations, ~Counted(b, s)', Counted(b, s),
         \A c \in Bss, t \in Stations : <<c, t>> # <<b, s>> => (Counted(c, t)' <=> Counted(c, t))
  PROVE  /\ Cardinality(CountedSet') = Cardinality(CountedSet) - 1
         /\ Cardinality(CountedSet) \in Nat \ {0}
<1>1. \A e \in Bss \X Stations : e = <<e[1], e[2]>> /\ e[1] \in Bss /\ e[2] \in Stations
  OBVIOUS
<1>2. <<b, s>> \in CountedSet /\ <<b, s>> \notin CountedSet'
  BY CountedMember
<1>3. \A e \in Bss \X Stations : e # <<b, s>> => (e \in CountedSet' <=> e \in CountedSet)
  BY <1>1, Zenon DEF CountedSet
<1>4. CountedSet' = CountedSet \ {<<b, s>>}
  BY <1>2, <1>3, CountedFinite, Zenon
<1>5. Cardinality(CountedSet) \in Nat /\ Cardinality(CountedSet') \in Nat
  BY CountedFinite, FS_CardinalityType
<1>6. Cardinality(CountedSet') = Cardinality(CountedSet) - 1
  BY <1>2, <1>4, CountedFinite, FS_RemoveElement
<1> QED
  BY <1>5, <1>6

LEMMA KnownFinite ==
  ASSUME TableOK, NEW b \in Bss
  PROVE  IsFiniteSet(Known(b)) /\ Cardinality(Known(b)) \in Nat
<1>1. Known(b) \subseteq Stations /\ IsFiniteSet(Stations)
  BY StationAssumption DEF TableOK
<1>2. IsFiniteSet(Known(b))
  BY <1>1, FS_Subset
<1> QED
  BY <1>2, FS_CardinalityType

-----------------------------------------------------------------------------
(***************************************************************************)
(* The invariant holds at first.                                           *)
(***************************************************************************)

LEMMA StationInvInit == Init => StationInv
<1> SUFFICES ASSUME Init PROVE StationInv
  OBVIOUS
<1>1. /\ sta = [b \in Bss |-> <<>>]
      /\ \A b \in Bss : Known(b) = {} /\ sta[b] \in [Known(b) -> StaInfo]
  BY DEF Init, Known
<1>2. TableOK /\ OnWayOut /\ NonErpMarked /\ OneAssociation
  BY <1>1 DEF TableOK, OnWayOut, NonErpMarked, OneAssociation
<1>3. tx \in Seq(Frames) /\ DOMAIN tx = {}
  BY DEF Init
<1>4. OneTimerEach
  <2>1. /\ timer \in [Bss -> [Stations -> Nat]] /\ session \in [Bss -> [Stations -> BOOLEAN]]
        /\ sta_aid \in [Bss -> SUBSET (1..MaxAid)] /\ num_sta \in [Bss -> 0..MaxNumSta]
        /\ num_sta_non_erp \in Nat /\ driver \in [Bss -> SUBSET Stations]
    BY StationAssumption DEF Init
  <2>2. StationTypeOK
    BY <1>1, <1>3, <2>1, Zenon DEF StationTypeOK
  <2>3. \A b \in Bss, s \in Stations : timer[b][s] = 0 /\ ~session[b][s]
    BY DEF Init
  <2> QED
    BY <1>1, <2>2, <2>3 DEF OneTimerEach
<1>5. BooksBalance
  <2>1. CountedSet = {} /\ Cardinality({}) = 0
    BY <1>1, FS_EmptySet DEF CountedSet, Counted
  <2>2. num_sta_non_erp = Cardinality(CountedSet)
    BY <2>1 DEF Init
  <2>3. ASSUME NEW b \in Bss
        PROVE  /\ sta_aid[b] = {sta[b][s].aid : s \in Known(b)} \ {0}
               /\ num_sta[b] = Cardinality(Known(b))
    BY <1>1, <2>1 DEF Init
  <2> QED
    BY <1>1, <2>2, <2>3, CountedSetIs DEF BooksBalance
<1>6. KernelFollows
  BY <1>1 DEF KernelFollows, Init
<1> QED
  BY <1>2, <1>3, <1>4, <1>5, <1>6 DEF StationInv

-----------------------------------------------------------------------------
(***************************************************************************)
(* Steps that change an entry and leave the lists and the books alone.     *)
(***************************************************************************)

SameBooks ==
  /\ \A c \in Bss : Known(c)' = Known(c)
  /\ \A c \in Bss : \A t \in Known(c) : /\ sta'[c][t].aid = sta[c][t].aid
                                        /\ sta'[c][t].nonerp_set = sta[c][t].nonerp_set
  /\ UNCHANGED countVars

LEMMA BooksKept ==
  ASSUME StationInv, SameBooks
  PROVE  BooksBalance' /\ NonErpMarked'
<1>1. ASSUME NEW b \in Bss
      PROVE  {sta'[b][s].aid : s \in Known(b)'} = {sta[b][s].aid : s \in Known(b)}
  BY DEF SameBooks
<1>2. CountedSet' = CountedSet
  <2>1. \A b \in Bss, s \in Stations : Counted(b, s)' <=> Counted(b, s)
    BY Zenon DEF SameBooks, Counted
  <2> QED
    BY <2>1, CountedSame
<1>3. sta_aid' = sta_aid /\ num_sta' = num_sta /\ num_sta_non_erp' = num_sta_non_erp
  BY DEF SameBooks, countVars
<1>4. num_sta_non_erp' = Cardinality(CountedSet')
  BY <1>2, <1>3, CountedSetIs DEF StationInv, BooksBalance
<1>5. num_sta_non_erp' = Cardinality({e \in Entries : sta[e[1]][e[2]].nonerp_set}')
  BY <1>4, CountedSetIs
<1>6. ASSUME NEW b \in Bss
      PROVE  /\ sta_aid'[b] = {sta'[b][s].aid : s \in Known(b)'} \ {0}
             /\ \A s, t \in Known(b)' :
                  sta'[b][s].aid = sta'[b][t].aid => s = t \/ sta'[b][s].aid = 0
             /\ num_sta'[b] = Cardinality(Known(b)')
  <2>1. /\ sta_aid[b] = {sta[b][s].aid : s \in Known(b)} \ {0}
        /\ \A s, t \in Known(b) : sta[b][s].aid = sta[b][t].aid => s = t \/ sta[b][s].aid = 0
        /\ num_sta[b] = Cardinality(Known(b))
    BY DEF StationInv, BooksBalance
  <2>2. Known(b)' = Known(b) /\ \A s \in Known(b) : sta'[b][s].aid = sta[b][s].aid
    BY DEF SameBooks
  <2> QED
    BY <1>1, <1>3, <2>1, <2>2, Zenon
<1>7. BooksBalance'
  BY <1>5, <1>6, Zenon DEF BooksBalance
<1>8. NonErpMarked'
  BY Zenon DEF StationInv, NonErpMarked, SameBooks
<1> QED
  BY <1>7, <1>8

\* What the timers may do when the lists stay: be registered again, or begin or
\* end a session.
SameTimers ==
  /\ timer' \in [Bss -> [Stations -> Nat]] /\ session' \in [Bss -> [Stations -> BOOLEAN]]
  /\ \A c \in Bss, t \in Stations :
       /\ timer'[c][t] = timer[c][t] \/ (t \in Known(c) /\ timer'[c][t] = 1)
       /\ session'[c][t] => session[c][t] \/ t \in Known(c)

CountsTyped ==
  /\ sta_aid \in [Bss -> SUBSET (1..MaxAid)] /\ num_sta \in [Bss -> 0..MaxNumSta]
  /\ num_sta_non_erp \in Nat

LEMMA TypesKept ==
  ASSUME TableOK', tx' \in Seq(Frames), driver' \in [Bss -> SUBSET Stations], CountsTyped',
         timer' \in [Bss -> [Stations -> Nat]], session' \in [Bss -> [Stations -> BOOLEAN]]
  PROVE  StationTypeOK'
<1>1. \A i \in DOMAIN tx' : tx'[i] \in Frames
  OBVIOUS
<1> QED
  BY <1>1, Zenon DEF StationTypeOK, CountsTyped, TableOK, Frames

LEMMA TimersKept ==
  ASSUME StationInv, SameTimers, TableOK', tx' \in Seq(Frames),
         driver' \in [Bss -> SUBSET Stations],
         \A c \in Bss : Known(c)' = Known(c), UNCHANGED countVars
  PROVE  OneTimerEach'
<1>1. StationTypeOK'
  <2>1. CountsTyped'
    BY DEF StationInv, OneTimerEach, StationTypeOK, countVars, CountsTyped
  <2> QED
    BY <2>1, TypesKept DEF SameTimers
<1>2. ASSUME NEW b \in Bss, NEW s \in Stations
      PROVE  /\ timer'[b][s] = IF s \in Known(b)' THEN 1 ELSE 0
             /\ session'[b][s] => s \in Known(b)'
  <2>1. /\ timer[b][s] = IF s \in Known(b) THEN 1 ELSE 0
        /\ session[b][s] => s \in Known(b)
    BY DEF StationInv, OneTimerEach
  <2>2. /\ timer'[b][s] = timer[b][s] \/ (s \in Known(b) /\ timer'[b][s] = 1)
        /\ session'[b][s] => session[b][s] \/ s \in Known(b)
    BY DEF SameTimers
  <2>3. Known(b)' = Known(b)
    OBVIOUS
  <2>4. session'[b][s] => s \in Known(b)'
    BY <2>1, <2>2, <2>3, Zenon
  <2>5. timer'[b][s] = IF s \in Known(b)' THEN 1 ELSE 0
    BY <2>1, <2>2, <2>3, Zenon
  <2> QED
    BY <2>4, <2>5
<1> QED
  BY <1>1, <1>2, Zenon DEF OneTimerEach

\* The timers of an entry that is known.
LEMMA RearmedFacts ==
  ASSUME StationInv, NEW b \in Bss, NEW s \in Known(b),
         timer' = timer \/ timer' = Rearmed(b, s),
         session' = session \/ \E x \in BOOLEAN : session' = [session EXCEPT ![b][s] = x]
  PROVE  SameTimers
<1>1. /\ timer \in [Bss -> [Stations -> Nat]] /\ session \in [Bss -> [Stations -> BOOLEAN]]
      /\ s \in Stations
  BY EntryTyped DEF StationInv, OneTimerEach, StationTypeOK
<1>2. /\ timer' \in [Bss -> [Stations -> Nat]]
      /\ \A c \in Bss, t \in Stations :
           timer'[c][t] = timer[c][t] \/ (t \in Known(c) /\ timer'[c][t] = 1)
  <2>1. CASE timer' = timer
    BY <1>1, <2>1
  <2>2. CASE timer' = [timer EXCEPT ![b][s] = 1]
    BY <1>1, <2>2
  <2> QED
    BY <2>1, <2>2 DEF Rearmed
<1>3. ASSUME NEW x \in BOOLEAN, session' = [session EXCEPT ![b][s] = x]
      PROVE  /\ session' \in [Bss -> [Stations -> BOOLEAN]]
             /\ \A c \in Bss, t \in Stations : <<c, t>> # <<b, s>> => session'[c][t] = session[c][t]
  BY <1>1, <1>3
<1>4. /\ session' \in [Bss -> [Stations -> BOOLEAN]]
      /\ \A c \in Bss, t \in Stations :
           session'[c][t] => session[c][t] \/ t \in Known(c)
  <2>1. CASE session' = session
    BY <1>1, <2>1, Zenon
  <2>2. CASE \E x \in BOOLEAN : session' = [session EXCEPT ![b][s] = x]
    <3>1. PICK x \in BOOLEAN : session' = [session EXCEPT ![b][s] = x]
      BY <2>2
    <3>2. \A c \in Bss, t \in Stations : <<c, t>> = <<b, s>> => t \in Known(c)
      OBVIOUS
    <3> QED
      BY <1>3, <3>1, <3>2, Zenon
  <2> QED
    BY <2>1, <2>2
<1> QED
  BY <1>2, <1>4, Zenon DEF SameTimers

\* No station gets associated.
NoneAssociated ==
  \A c \in Bss : \A t \in Known(c)' :
    sta'[c][t].assoc => /\ t \in Known(c) /\ sta[c][t].assoc
                        /\ sta'[c][t].added = sta[c][t].added

LEMMA AssociationKept ==
  ASSUME OneAssociation, NoneAssociated
  PROVE  OneAssociation'
<1> SUFFICES ASSUME NEW s \in Stations, NEW b \in Bss, NEW c \in Bss,
                    s \in Known(b)', s \in Known(c)', sta'[b][s].assoc, sta'[c][s].assoc
             PROVE  b = c
  BY Zenon DEF OneAssociation
<1>1. s \in Known(b) /\ sta[b][s].assoc /\ s \in Known(c) /\ sta[c][s].assoc
  BY Zenon DEF NoneAssociated
<1> QED
  BY <1>1, Zenon DEF OneAssociation

\* The kernel loses stations that are not associated any more, and those that are
\* not known any more.
KernelTold ==
  \A c \in Bss : /\ \A t \in driver'[c] : t \in driver[c] /\ (t \in Known(c) => t \in Known(c)')
                 /\ \A t \in Known(c)' : sta'[c][t].assoc /\ t \in driver[c] => t \in driver'[c]

LEMMA KernelKept ==
  ASSUME KernelFollows, NoneAssociated, KernelTold
  PROVE  KernelFollows'
<1>1. ASSUME NEW c \in Bss, NEW t \in driver'[c] PROVE t \in Known(c)'
  BY Zenon DEF KernelFollows, KernelTold
<1>2. ASSUME NEW c \in Bss, NEW t \in Known(c)', sta'[c][t].assoc
      PROVE  t \in driver'[c] <=> sta'[c][t].added
  <2>1. t \in Known(c) /\ sta[c][t].assoc /\ sta'[c][t].added = sta[c][t].added
    BY <1>2, Zenon DEF NoneAssociated
  <2>2. t \in driver[c] <=> sta[c][t].added
    BY <1>2, <2>1, Zenon DEF KernelFollows
  <2>3. t \in driver'[c] <=> t \in driver[c]
    BY <1>2, <2>1, Zenon DEF KernelTold
  <2> QED
    BY <2>1, <2>2, <2>3, Zenon
<1> QED
  BY <1>1, <1>2, Zenon DEF KernelFollows

\* An entry may become r: it keeps its place in the books, gets associated in no
\* other way than by handle_assoc_cb, and is on its way out when not authenticated.
Harmless(old, r) ==
  /\ r \in StaInfo
  /\ r.aid = old.aid /\ r.nonerp_set = old.nonerp_set
  /\ r.assoc => old.assoc /\ r.added = old.added
  /\ ~r.auth => r.timeout_next \in {"STA_DEAUTH", "STA_REMOVE"}

LEMMA ChangeKeepsInv ==
  ASSUME StationInv, NEW b \in Bss, NEW s \in Known(b), NEW r, Harmless(sta[b][s], r),
         sta' = [sta EXCEPT ![b][s] = r], SameTimers, UNCHANGED countVars,
         tx' \in Seq(Frames),
         \/ driver' = driver
         \/ driver' = [driver EXCEPT ![b] = @ \ {s}] /\ ~r.assoc
  PROVE  StationInv'
<1>1. TableOK
  BY DEF StationInv
<1>2. SetTo(b, s, r)
  BY <1>1, EntryChanged, Zenon DEF Harmless
<1>same. \A c \in Bss : Known(c)' = Known(c)
  BY <1>2 DEF SetTo
<1>3. TableOK'
  <2>1. sta' = [c \in Bss |-> sta'[c]]
    BY <1>2 DEF SetTo
  <2>2. \A c \in Bss : sta'[c] \in [Known(c)' -> StaInfo] /\ Known(c)' \subseteq Stations
    BY <1>1, <1>2 DEF SetTo, TableOK
  <2> QED
    BY <2>1, <2>2, Zenon DEF TableOK
<1>4. BooksBalance' /\ NonErpMarked'
  <2>1. SameBooks
    BY <1>2, Zenon DEF SetTo, SameBooks, Harmless
  <2> QED
    BY <2>1, BooksKept
<1>5. driver \in [Bss -> SUBSET Stations]
  BY DEF StationInv, OneTimerEach, StationTypeOK
<1>6. OneTimerEach'
  <2>1. driver' \in [Bss -> SUBSET Stations]
    BY <1>5
  <2> QED
    BY <1>3, <1>same, <2>1, TimersKept
<1>7. NoneAssociated
  <2>1. \A c \in Bss : \A t \in Known(c) :
          sta'[c][t].assoc => sta[c][t].assoc /\ sta'[c][t].added = sta[c][t].added
    BY <1>2, Zenon DEF SetTo, Harmless
  <2> QED
    BY <1>same, <2>1, Zenon DEF NoneAssociated
<1>8. OneAssociation'
  BY <1>7, AssociationKept DEF StationInv
<1>9. KernelFollows'
  <2>1. CASE driver' = driver
    BY <1>same, <1>7, <2>1, KernelKept, Zenon DEF StationInv, KernelTold
  <2>2. CASE driver' = [driver EXCEPT ![b] = @ \ {s}] /\ ~r.assoc
    <3>1. \A c \in Bss : /\ driver'[c] \subseteq driver[c]
                         /\ \A t \in driver[c] : t \in driver'[c] \/ (c = b /\ t = s)
      BY <1>5, <2>2
    <3>2. ~sta'[b][s].assoc
      BY <1>2, <2>2, Zenon DEF SetTo
    <3>3. KernelTold
      BY <1>same, <3>1, <3>2, Zenon DEF KernelTold
    <3> QED
      BY <1>7, <3>3, KernelKept DEF StationInv
  <2> QED
    BY <2>1, <2>2
<1>10. OnWayOut'
  BY <1>2, Zenon DEF SetTo, StationInv, OnWayOut, Harmless
<1> QED
  BY <1>3, <1>4, <1>6, <1>8, <1>9, <1>10 DEF StationInv

\* The same when the table stays as it is.
LEMMA NoChangeKeepsInv ==
  ASSUME StationInv, UNCHANGED <<sta, driver>>, SameTimers, UNCHANGED countVars,
         tx' \in Seq(Frames)
  PROVE  StationInv'
<1>1. sta' = sta /\ driver' = driver /\ \A c \in Bss : Known(c)' = Known(c)
  BY DEF Known
<1>2. TableOK' /\ OneAssociation' /\ KernelFollows' /\ OnWayOut'
  BY <1>1, Zenon DEF StationInv, TableOK, OneAssociation, KernelFollows, OnWayOut, Known
<1>3. BooksBalance' /\ NonErpMarked'
  BY <1>1, BooksKept, Zenon DEF SameBooks
<1>4. OneTimerEach'
  <2>1. driver' \in [Bss -> SUBSET Stations]
    BY <1>1 DEF StationInv, OneTimerEach, StationTypeOK
  <2> QED
    BY <1>1, <1>2, <2>1, TimersKept
<1> QED
  BY <1>2, <1>3, <1>4 DEF StationInv

-----------------------------------------------------------------------------
(***************************************************************************)
(* The actions that change an entry.                                       *)
(***************************************************************************)

LEMMA SentTyped ==
  ASSUME StationInv, NEW b \in Bss, NEW s \in Stations, NEW k \in {"auth", "assoc", "poll"}
  PROVE  Sent(b, s, k) \in Seq(Frames)
<1>1. tx \in Seq(Frames) /\ [bss |-> b, addr |-> s, kind |-> k] \in Frames
  BY DEF StationInv, Frames
<1> QED
  BY <1>1 DEF Sent

\* What is known of an entry before the step.
LEMMA OldEntry ==
  ASSUME StationInv, NEW b \in Bss, NEW s \in Known(b)
  PROVE  /\ sta[b][s] \in StaInfo /\ s \in Stations
         /\ ~sta[b][s].auth => sta[b][s].timeout_next \in {"STA_DEAUTH", "STA_REMOVE"}
         /\ sta[b][s].nonerp_set => s \in NonErp
<1>1. sta[b][s] \in StaInfo /\ s \in Stations
  BY EntryTyped DEF StationInv
<1> QED
  BY <1>1, Zenon DEF StationInv, OnWayOut, NonErpMarked

\* The ways in which handlers change an entry.
Authenticated(r) == [r EXCEPT !.auth = TRUE]
Polled(r) == [r EXCEPT !.pending_poll = FALSE]
Disconnected(r) == [r EXCEPT !.auth = FALSE, !.assoc = FALSE, !.added = FALSE,
                             !.timeout_next = "STA_REMOVE"]
Disassociated(r) == [r EXCEPT !.assoc = FALSE, !.added = FALSE, !.timeout_next = "STA_DEAUTH"]
Dropped(r) == [r EXCEPT !.assoc = FALSE, !.added = FALSE]
SeenActive(r) == [r EXCEPT !.timeout_next = "STA_NULLFUNC"]
ToPoll(r) == [r EXCEPT !.pending_poll = @ \/ r.assoc, !.timeout_next = "STA_DISASSOC"]

LEMMA HarmlessChanges ==
  ASSUME NEW r \in StaInfo, ~r.auth => r.timeout_next \in {"STA_DEAUTH", "STA_REMOVE"}
  PROVE  /\ Harmless(r, Authenticated(r)) /\ Harmless(r, Polled(r))
         /\ Harmless(r, Disconnected(r)) /\ ~Disconnected(r).assoc
         /\ Harmless(r, Disassociated(r)) /\ ~Disassociated(r).assoc
         /\ Harmless(r, Dropped(r)) /\ ~Dropped(r).assoc
         /\ r.auth => Harmless(r, SeenActive(r)) /\ Harmless(r, ToPoll(r))
<1>1. "STA_REMOVE" \in TimeoutNext /\ "STA_DEAUTH" \in TimeoutNext
      /\ "STA_NULLFUNC" \in TimeoutNext /\ "STA_DISASSOC" \in TimeoutNext
  BY DEF TimeoutNext
<1>2. Harmless(r, Authenticated(r))
  BY Zenon DEF Harmless, Authenticated, StaInfo
<1>3. Harmless(r, Polled(r))
  BY Zenon DEF Harmless, Polled, StaInfo
<1>4. Harmless(r, Disconnected(r)) /\ ~Disconnected(r).assoc
  BY <1>1, Zenon DEF Harmless, Disconnected, StaInfo
<1>5. Harmless(r, Disassociated(r)) /\ ~Disassociated(r).assoc
  BY <1>1, Zenon DEF Harmless, Disassociated, StaInfo
<1>6. Harmless(r, Dropped(r)) /\ ~Dropped(r).assoc
  BY <1>1, Zenon DEF Harmless, Dropped, StaInfo
<1>7. ASSUME r.auth PROVE Harmless(r, SeenActive(r))
  BY <1>1, <1>7, Zenon DEF Harmless, SeenActive, StaInfo
<1>8. ASSUME r.auth PROVE Harmless(r, ToPoll(r))
  <2>1. r.pending_poll \in BOOLEAN /\ r.assoc \in BOOLEAN
    BY DEF StaInfo
  <2>2. (r.pending_poll \/ r.assoc) \in BOOLEAN
    OBVIOUS
  <2> QED
    BY <1>1, <1>8, <2>2, Zenon DEF Harmless, ToPoll, StaInfo
<1> QED
  BY <1>2, <1>3, <1>4, <1>5, <1>6, <1>7, <1>8

LEMMA AuthOfKnown ==
  ASSUME StationInv, NEW b \in Bss, NEW s \in Known(b),
         sta' = [sta EXCEPT ![b][s].auth = TRUE], UNCHANGED <<timer, countVars, driver>>,
         session' = session \/ \E x \in BOOLEAN : session' = [session EXCEPT ![b][s] = x],
         tx' \in Seq(Frames)
  PROVE  StationInv'
<1>1. sta' = [sta EXCEPT ![b][s] = Authenticated(sta[b][s])]
  BY Zenon DEF Authenticated
<1>2. Harmless(sta[b][s], Authenticated(sta[b][s]))
  BY OldEntry, HarmlessChanges
<1>3. SameTimers
  BY RearmedFacts
<1> QED
  BY <1>1, <1>2, <1>3, ChangeKeepsInv

LEMMA DisassocKeepsInv ==
  ASSUME StationInv, NEW b \in Bss, NEW s \in Stations, handle_disassoc(b, s)
  PROVE  StationInv'
<1>1. /\ s \in Known(b) /\ driver' = [driver EXCEPT ![b] = @ \ {s}]
      /\ UNCHANGED <<session, countVars, tx>>
      /\ \/ /\ sta' = [sta EXCEPT ![b][s].assoc = FALSE, ![b][s].added = FALSE,
                                  ![b][s].timeout_next = "STA_DEAUTH"]
            /\ timer' = Rearmed(b, s)
         \/ sta' = [sta EXCEPT ![b][s].assoc = FALSE, ![b][s].added = FALSE] /\ timer' = timer
  BY Zenon DEF handle_disassoc
<1>2. SameTimers /\ tx' \in Seq(Frames) /\ UNCHANGED countVars
  BY <1>1, RearmedFacts DEF StationInv
<1>3. \/ sta' = [sta EXCEPT ![b][s] = Disassociated(sta[b][s])]
      \/ sta' = [sta EXCEPT ![b][s] = Dropped(sta[b][s])]
  <2>1. CASE sta' = [sta EXCEPT ![b][s].assoc = FALSE, ![b][s].added = FALSE,
                                ![b][s].timeout_next = "STA_DEAUTH"]
    BY <2>1, Zenon DEF Disassociated
  <2>2. CASE sta' = [sta EXCEPT ![b][s].assoc = FALSE, ![b][s].added = FALSE]
    BY <2>2, Zenon DEF Dropped
  <2> QED
    BY <1>1, <2>1, <2>2, Zenon
<1>4. /\ Harmless(sta[b][s], Disassociated(sta[b][s])) /\ ~Disassociated(sta[b][s]).assoc
      /\ Harmless(sta[b][s], Dropped(sta[b][s])) /\ ~Dropped(sta[b][s]).assoc
  BY <1>1, OldEntry, HarmlessChanges
<1> QED
  BY <1>1, <1>2, <1>3, <1>4, ChangeKeepsInv

LEMMA ControlKeepsInv ==
  ASSUME StationInv, NEW b \in Bss, NEW s \in Stations, Control(b, s)
  PROVE  StationInv'
<1>1. /\ s \in Known(b) /\ UNCHANGED <<session, countVars, tx>> /\ timer' = Rearmed(b, s)
      /\ \/ sta' = [sta EXCEPT ![b][s].auth = FALSE, ![b][s].assoc = FALSE, ![b][s].added = FALSE,
                               ![b][s].timeout_next = "STA_REMOVE"]
         \/ sta' = [sta EXCEPT ![b][s].assoc = FALSE, ![b][s].added = FALSE,
                               ![b][s].timeout_next = "STA_DEAUTH"]
      /\ driver' = driver \/ driver' = [driver EXCEPT ![b] = @ \ {s}]
  BY Zenon DEF Control, ap_sta_deauthenticate, ap_sta_disassociate, ap_sta_disconnect
<1>2. SameTimers /\ tx' \in Seq(Frames) /\ UNCHANGED countVars
  BY <1>1, RearmedFacts DEF StationInv
<1>3. \/ sta' = [sta EXCEPT ![b][s] = Disconnected(sta[b][s])]
      \/ sta' = [sta EXCEPT ![b][s] = Disassociated(sta[b][s])]
  <2>1. CASE sta' = [sta EXCEPT ![b][s].auth = FALSE, ![b][s].assoc = FALSE, ![b][s].added = FALSE,
                                ![b][s].timeout_next = "STA_REMOVE"]
    BY <2>1, Zenon DEF Disconnected
  <2>2. CASE sta' = [sta EXCEPT ![b][s].assoc = FALSE, ![b][s].added = FALSE,
                                ![b][s].timeout_next = "STA_DEAUTH"]
    BY <2>2, Zenon DEF Disassociated
  <2> QED
    BY <1>1, <2>1, <2>2, Zenon
<1>4. /\ Harmless(sta[b][s], Disassociated(sta[b][s])) /\ ~Disassociated(sta[b][s]).assoc
      /\ Harmless(sta[b][s], Disconnected(sta[b][s])) /\ ~Disconnected(sta[b][s]).assoc
  BY <1>1, OldEntry, HarmlessChanges
<1> QED
  BY <1>1, <1>2, <1>3, <1>4, ChangeKeepsInv

-----------------------------------------------------------------------------
(***************************************************************************)
(* A station leaves the list.                                              *)
(***************************************************************************)

LEMMA FreeKeepsInv ==
  ASSUME StationInv, NEW b \in Bss, NEW s \in Known(b), ap_free_sta(b, s), tx' = tx
  PROVE  StationInv'
<1> DEFINE n == IF sta[b][s].nonerp_set THEN 1 ELSE 0
<1>1. /\ sta' = [sta EXCEPT ![b] = [x \in Known(b) \ {s} |-> sta[b][x]]]
      /\ sta_aid' = [sta_aid EXCEPT ![b] = @ \ {sta[b][s].aid}]
      /\ num_sta' = [num_sta EXCEPT ![b] = @ - 1]
      /\ num_sta_non_erp' = num_sta_non_erp - n
      /\ timer' = [timer EXCEPT ![b][s] = 0]
      /\ session' = [session EXCEPT ![b][s] = FALSE]
      /\ driver' = [driver EXCEPT ![b] = @ \ {s}]
  BY Zenon DEF ap_free_sta
<1>2. TableOK /\ sta[b][s] \in StaInfo /\ s \in Stations
  BY OldEntry DEF StationInv
<1>3. /\ sta' = [c \in Bss |-> sta'[c]]
      /\ \A c \in Bss : /\ Known(c)' = IF c = b THEN Known(b) \ {s} ELSE Known(c)
                        /\ sta'[c] \in [Known(c)' -> StaInfo]
      /\ \A c \in Bss : \A t \in Known(c)' : sta'[c][t] = sta[c][t]
  BY <1>1, <1>2 DEF TableOK, Known
<1>4. \A c \in Bss : Known(c)' \subseteq Known(c)
  BY <1>3
<1>5. TableOK'
  BY <1>2, <1>3, <1>4 DEF TableOK
<1>6. /\ timer \in [Bss -> [Stations -> Nat]] /\ session \in [Bss -> [Stations -> BOOLEAN]]
      /\ sta_aid \in [Bss -> SUBSET (1..MaxAid)] /\ num_sta \in [Bss -> 0..MaxNumSta]
      /\ num_sta_non_erp \in Nat /\ driver \in [Bss -> SUBSET Stations]
      /\ tx \in Seq(Frames)
  BY DEF StationInv, OneTimerEach, StationTypeOK
<1>7. /\ \A c \in Bss : /\ sta_aid[c] = {sta[c][t].aid : t \in Known(c)} \ {0}
                        /\ \A t, u \in Known(c) :
                             sta[c][t].aid = sta[c][u].aid => t = u \/ sta[c][t].aid = 0
                        /\ num_sta[c] = Cardinality(Known(c))
      /\ num_sta_non_erp = Cardinality(CountedSet)
  BY CountedSetIs, Zenon DEF StationInv, BooksBalance
<1>8. /\ Cardinality(Known(b)') = num_sta[b] - 1 /\ num_sta[b] \in Nat \ {0}
      /\ \A c \in Bss : c # b => Known(c)' = Known(c)
  <2>1. IsFiniteSet(Known(b)) /\ Known(b)' = Known(b) \ {s} /\ IsFiniteSet(Known(b)')
    BY <1>2, <1>3, <1>5, KnownFinite, FS_RemoveElement
  <2>2. Cardinality(Known(b)') \in Nat /\ Cardinality(Known(b)) \in Nat
    BY <2>1, FS_CardinalityType
  <2>3. Cardinality(Known(b)') = Cardinality(Known(b)) - 1
    BY <2>1, FS_RemoveElement
  <2> QED
    BY <1>3, <1>7, <2>2, <2>3
<1>9. num_sta' \in [Bss -> 0..MaxNumSta] /\ \A c \in Bss : num_sta'[c] = Cardinality(Known(c)')
  <2>1. num_sta[b] - 1 \in 0..MaxNumSta
    BY <1>6, <1>8, StationAssumption
  <2> QED
    BY <1>1, <1>6, <1>7, <1>8, <2>1
<1>10. num_sta_non_erp' = Cardinality(CountedSet') /\ num_sta_non_erp' \in Nat
  <2>1. \A c \in Bss, t \in Stations : <<c, t>> # <<b, s>> => (Counted(c, t)' <=> Counted(c, t))
    <3>1. \A c \in Bss, t \in Stations : <<c, t>> # <<b, s>> => (t \in Known(c)' <=> t \in Known(c))
      BY <1>3
    <3> QED
      BY <1>3, <3>1, Zenon DEF Counted
  <2>2. ~Counted(b, s)'
    BY <1>3 DEF Counted
  <2>3. CASE sta[b][s].nonerp_set
    <3>1. Counted(b, s) /\ n = 1
      BY <2>3 DEF Counted
    <3>2. /\ Cardinality(CountedSet') = Cardinality(CountedSet) - 1
          /\ Cardinality(CountedSet) \in Nat \ {0}
      BY <1>2, <2>1, <2>2, <3>1, CountedLess
    <3> HIDE DEF n
    <3> QED
      BY <1>1, <1>7, <3>1, <3>2
  <2>4. CASE ~sta[b][s].nonerp_set
    <3>1. ~Counted(b, s) /\ n = 0
      BY <2>4 DEF Counted
    <3>2. \A c \in Bss, t \in Stations : Counted(c, t)' <=> Counted(c, t)
      BY <2>1, <2>2, <3>1
    <3>3. CountedSet' = CountedSet
      BY <3>2, CountedSame
    <3> HIDE DEF n
    <3> QED
      BY <1>1, <1>6, <1>7, <3>1, <3>3
  <2> QED
    BY <2>3, <2>4
<1>11. ASSUME NEW c \in Bss
       PROVE  /\ sta_aid'[c] = {sta'[c][t].aid : t \in Known(c)'} \ {0}
              /\ \A t, u \in Known(c)' :
                   sta'[c][t].aid = sta'[c][u].aid => t = u \/ sta'[c][t].aid = 0
  <2>1. \A t, u \in Known(c)' :
          sta'[c][t].aid = sta'[c][u].aid => t = u \/ sta'[c][t].aid = 0
    BY <1>3, <1>4, <1>7
  <2>2. {sta'[c][t].aid : t \in Known(c)'} = {sta[c][t].aid : t \in Known(c)'}
    BY <1>3
  <2>3. CASE c # b
    <3>1. sta_aid'[c] = sta_aid[c] /\ Known(c)' = Known(c)
      BY <1>1, <1>3, <1>6, <2>3
    <3> QED
      BY <1>7, <2>1, <2>2, <3>1
  <2>4. CASE c = b
    <3>1. sta_aid'[b] = sta_aid[b] \ {sta[b][s].aid}
      BY <1>1, <1>6
    <3>2. Known(b)' = Known(b) \ {s}
      BY <1>3
    <3>3. sta_aid'[b] = {sta[b][t].aid : t \in Known(b) \ {s}} \ {0}
      BY <1>7, <3>1
    <3> QED
      BY <2>1, <2>2, <2>4, <3>2, <3>3
  <2> QED
    BY <2>3, <2>4
<1>12. BooksBalance'
  BY <1>9, <1>10, <1>11, CountedSetIs, Zenon DEF BooksBalance
<1>13. OneTimerEach'
  <2>1. timer' \in [Bss -> [Stations -> Nat]]
    BY <1>1, <1>6
  <2>2. session' \in [Bss -> [Stations -> BOOLEAN]]
    BY <1>1, <1>6
  <2>3. sta_aid' \in [Bss -> SUBSET (1..MaxAid)] /\ driver' \in [Bss -> SUBSET Stations]
    BY <1>1, <1>6
  <2>4. StationTypeOK'
    BY <1>5, <1>6, <1>9, <1>10, <2>1, <2>2, <2>3, TypesKept DEF CountsTyped
  <2>5. ASSUME NEW c \in Bss, NEW t \in Stations
        PROVE  timer'[c][t] = IF t \in Known(c)' THEN 1 ELSE 0
    <3>1. timer[c][t] = IF t \in Known(c) THEN 1 ELSE 0
      BY DEF StationInv, OneTimerEach
    <3> QED
      BY <1>1, <1>3, <1>6, <3>1
  <2>6. ASSUME NEW c \in Bss, NEW t \in Stations, session'[c][t]
        PROVE  t \in Known(c)'
    <3>1. session[c][t] => t \in Known(c)
      BY Zenon DEF StationInv, OneTimerEach
    <3>2. <<c, t>> # <<b, s>> => session'[c][t] = session[c][t]
      BY <1>1, <1>6
    <3>3. session'[b][s] = FALSE
      BY <1>1, <1>2, <1>6
    <3>4. <<c, t>> # <<b, s>> /\ t \in Known(c)
      BY <2>6, <3>1, <3>2, <3>3, Zenon
    <3> QED
      BY <1>3, <3>4
  <2> QED
    BY <2>4, <2>5, <2>6, Zenon DEF OneTimerEach
<1>14. NoneAssociated
  BY <1>3, <1>4, Zenon DEF NoneAssociated
<1>15. OneAssociation'
  BY <1>14, AssociationKept DEF StationInv
<1>16. KernelFollows'
  <2>1. \A c \in Bss : /\ driver'[c] \subseteq driver[c]
                       /\ \A t \in driver'[c] : t \in Known(c) => t \in Known(c)'
                       /\ \A t \in driver[c] : t \in Known(c)' => t \in driver'[c]
    BY <1>1, <1>3, <1>6
  <2>2. KernelTold
    BY <2>1, Zenon DEF KernelTold
  <2> QED
    BY <1>14, <2>2, KernelKept DEF StationInv
<1>17. OnWayOut' /\ NonErpMarked'
  BY <1>3, <1>4, Zenon DEF StationInv, OnWayOut, NonErpMarked
<1> QED
  BY <1>5, <1>6, <1>12, <1>13, <1>15, <1>16, <1>17 DEF StationInv

-----------------------------------------------------------------------------
(***************************************************************************)
(* A station joins the list: ap_sta_add in handle_auth.                    *)
(***************************************************************************)

LEMMA NewEntry ==
  /\ [NewSta EXCEPT !.auth = TRUE] \in StaInfo
  /\ [NewSta EXCEPT !.auth = TRUE].aid = 0
  /\ [NewSta EXCEPT !.auth = TRUE].auth
  /\ ~[NewSta EXCEPT !.auth = TRUE].assoc
  /\ ~[NewSta EXCEPT !.auth = TRUE].nonerp_set
<1>1. NewSta \in StaInfo
  BY StationAssumption DEF NewSta, StaInfo, TimeoutNext
<1>2. [NewSta EXCEPT !.auth = TRUE] \in StaInfo /\ [NewSta EXCEPT !.auth = TRUE].auth
  BY <1>1, Zenon DEF StaInfo
<1>3. /\ [NewSta EXCEPT !.auth = TRUE].aid = NewSta.aid
      /\ [NewSta EXCEPT !.auth = TRUE].assoc = NewSta.assoc
      /\ [NewSta EXCEPT !.auth = TRUE].nonerp_set = NewSta.nonerp_set
  BY <1>1, Zenon DEF StaInfo
<1>4. NewSta.aid = 0 /\ ~NewSta.assoc /\ ~NewSta.nonerp_set
  BY DEF NewSta
<1> QED
  BY <1>2, <1>3, <1>4, Zenon

\* The table after ap_sta_add.
Added(b, s) ==
  /\ sta' = [c \in Bss |-> sta'[c]]
  /\ \A c \in Bss : Known(c)' = Known(c) \cup (IF c = b THEN {s} ELSE {})
  /\ \A c \in Bss : sta'[c] \in [Known(c)' -> StaInfo]
  /\ sta'[b][s] = [NewSta EXCEPT !.auth = TRUE]
  /\ \A c \in Bss : \A t \in Known(c) :
       sta'[c][t] = IF t = s THEN Disconnected(sta[c][t]) ELSE sta[c][t]

LEMMA AddedTable ==
  ASSUME StationInv, NEW b \in Bss, NEW s \in Stations, s \notin Known(b), ap_sta_add(b, s)
  PROVE  Added(b, s)
<1> DEFINE nw == [NewSta EXCEPT !.auth = TRUE]
<1>1. TableOK
  BY DEF StationInv
<1>2. nw \in StaInfo
  BY NewEntry
<1>3. sta' = [c \in Bss |->
                IF c = b THEN [t \in Known(c) \cup {s} |-> IF t = s THEN nw ELSE sta[c][t]]
                ELSE IF s \in Known(c)
                THEN [sta[c] EXCEPT ![s].auth = FALSE, ![s].assoc = FALSE, ![s].added = FALSE,
                                    ![s].timeout_next = "STA_REMOVE"]
                ELSE sta[c]]
  BY Zenon DEF ap_sta_add
<1> HIDE DEF nw
<1>4. sta'[b] = [t \in Known(b) \cup {s} |-> IF t = s THEN nw ELSE sta[b][t]]
  BY <1>3, Zenon
<1>5. /\ Known(b)' = Known(b) \cup {s} /\ sta'[b] \in [Known(b)' -> StaInfo]
      /\ sta'[b][s] = nw /\ \A t \in Known(b) : t # s /\ sta'[b][t] = sta[b][t]
  BY <1>1, <1>2, <1>4 DEF TableOK, Known
<1>6. ASSUME NEW c \in Bss, c # b
      PROVE  /\ Known(c)' = Known(c) /\ sta'[c] \in [Known(c) -> StaInfo]
             /\ \A t \in Known(c) :
                  sta'[c][t] = IF t = s THEN Disconnected(sta[c][t]) ELSE sta[c][t]
  <2>1. sta[c] \in [Known(c) -> StaInfo]
    BY <1>1 DEF TableOK
  <2>2. CASE s \in Known(c)
    <3>1. sta'[c] = [sta[c] EXCEPT ![s].auth = FALSE, ![s].assoc = FALSE, ![s].added = FALSE,
                                   ![s].timeout_next = "STA_REMOVE"]
      BY <1>3, <1>6, <2>2, Zenon
    <3>2. sta'[c] = [sta[c] EXCEPT ![s] = Disconnected(sta[c][s])]
      BY <3>1, Zenon DEF Disconnected
    <3>3. Disconnected(sta[c][s]) \in StaInfo
      BY <2>2, OldEntry, HarmlessChanges DEF Harmless
    <3> QED
      BY <2>1, <2>2, <3>2, <3>3 DEF Known
  <2>3. CASE s \notin Known(c)
    <3>1. sta'[c] = sta[c]
      BY <1>3, <1>6, <2>3, Zenon
    <3> QED
      BY <2>1, <2>3, <3>1 DEF Known
  <2> QED
    BY <2>2, <2>3
<1>7. sta' = [c \in Bss |-> sta'[c]]
  BY <1>3
<1>8. ASSUME NEW c \in Bss
      PROVE  /\ Known(c)' = Known(c) \cup (IF c = b THEN {s} ELSE {})
             /\ sta'[c] \in [Known(c)' -> StaInfo]
             /\ \A t \in Known(c) :
                  sta'[c][t] = IF t = s THEN Disconnected(sta[c][t]) ELSE sta[c][t]
  <2>1. CASE c = b
    BY <1>5, <2>1
  <2>2. CASE c # b
    BY <1>6, <2>2
  <2> QED
    BY <2>1, <2>2
<1> QED
  BY <1>5, <1>7, <1>8, Zenon DEF Added, nw

LEMMA AddKeepsInv ==
  ASSUME StationInv, NEW b \in Bss, NEW s \in Stations, s \notin Known(b), ap_sta_add(b, s),
         NEW x \in BOOLEAN, session' = [session EXCEPT ![b][s] = x], tx' \in Seq(Frames),
         UNCHANGED <<sta_aid, num_sta_non_erp, driver>>
  PROVE  StationInv'
<1>1. Added(b, s)
  BY AddedTable
<1>2. TableOK /\ TableOK'
  BY <1>1 DEF StationInv, TableOK, Added
<1>3. /\ sta'[b][s].aid = 0 /\ sta'[b][s].auth /\ ~sta'[b][s].assoc /\ ~sta'[b][s].nonerp_set
  BY <1>1, NewEntry, Zenon DEF Added
<1>4. /\ \A c \in Bss : c # b => Known(c)' = Known(c)
      /\ Known(b)' = Known(b) \cup {s}
      /\ \A c \in Bss : Known(c) \subseteq Known(c)'
      /\ \A c \in Bss : \A t \in Known(c)' : t \in Known(c) \/ (c = b /\ t = s)
  BY <1>1 DEF Added
<1>5. ASSUME NEW c \in Bss, NEW t \in Known(c)
      PROVE  /\ sta'[c][t].aid = sta[c][t].aid /\ sta'[c][t].nonerp_set = sta[c][t].nonerp_set
             /\ sta'[c][t].assoc => sta[c][t].assoc /\ sta'[c][t].added = sta[c][t].added
             /\ ~sta'[c][t].auth => sta'[c][t].timeout_next \in {"STA_DEAUTH", "STA_REMOVE"}
  <2>1. Harmless(sta[c][t], Disconnected(sta[c][t]))
    BY OldEntry, HarmlessChanges
  <2>2. sta'[c][t] = Disconnected(sta[c][t]) \/ sta'[c][t] = sta[c][t]
    BY <1>1, Zenon DEF Added
  <2> QED
    BY <2>1, <2>2, OldEntry, Zenon DEF Harmless
<1>6. /\ timer \in [Bss -> [Stations -> Nat]] /\ session \in [Bss -> [Stations -> BOOLEAN]]
      /\ sta_aid \in [Bss -> SUBSET (1..MaxAid)] /\ num_sta \in [Bss -> 0..MaxNumSta]
      /\ num_sta_non_erp \in Nat /\ driver \in [Bss -> SUBSET Stations]
  BY DEF StationInv, OneTimerEach, StationTypeOK
<1>7. num_sta[b] < MaxNumSta /\ num_sta' = [num_sta EXCEPT ![b] = @ + 1]
  BY DEF ap_sta_add
<1>8. /\ timer' = [c \in Bss |-> IF c = b THEN [timer[c] EXCEPT ![s] = @ + 1]
                                 ELSE IF s \in Known(c) THEN [timer[c] EXCEPT ![s] = 1]
                                 ELSE timer[c]]
  BY Zenon DEF ap_sta_add
<1>9. num_sta' \in [Bss -> 0..MaxNumSta] /\ \A c \in Bss : num_sta'[c] = Cardinality(Known(c)')
  <2>1. \A c \in Bss : num_sta[c] = Cardinality(Known(c))
    BY DEF StationInv, BooksBalance
  <2>2. Cardinality(Known(b)') = Cardinality(Known(b)) + 1
    <3>1. IsFiniteSet(Known(b))
      BY <1>2, KnownFinite
    <3> QED
      BY <1>4, <3>1, FS_AddElement
  <2>3. num_sta[b] + 1 \in 0..MaxNumSta
    BY <1>6, <1>7, StationAssumption
  <2> QED
    BY <1>4, <1>6, <1>7, <2>1, <2>2, <2>3
<1>10. num_sta_non_erp' = Cardinality(CountedSet')
  <2>0. \A c \in Bss : \A t \in Known(c) : sta'[c][t].nonerp_set = sta[c][t].nonerp_set
    BY <1>5
  <2>1. \A c \in Bss, t \in Stations : Counted(c, t)' <=> Counted(c, t)
    BY <1>3, <1>4, <2>0, Zenon DEF Counted
  <2>2. CountedSet' = CountedSet
    BY <2>1, CountedSame
  <2> QED
    BY <2>2, CountedSetIs DEF StationInv, BooksBalance
<1>11. ASSUME NEW c \in Bss
       PROVE  /\ sta_aid'[c] = {sta'[c][t].aid : t \in Known(c)'} \ {0}
              /\ \A t, u \in Known(c)' :
                   sta'[c][t].aid = sta'[c][u].aid => t = u \/ sta'[c][t].aid = 0
  <2>1. /\ sta_aid[c] = {sta[c][t].aid : t \in Known(c)} \ {0}
        /\ \A t, u \in Known(c) : sta[c][t].aid = sta[c][u].aid => t = u \/ sta[c][t].aid = 0
    BY DEF StationInv, BooksBalance
  <2>2. /\ \A t \in Known(c) : t \in Known(c)' /\ sta'[c][t].aid = sta[c][t].aid
        /\ \A t \in Known(c)' : t \in Known(c) \/ sta'[c][t].aid = 0
    BY <1>3, <1>4, <1>5, Zenon
  <2> HIDE DEF Known
  <2>3. {sta'[c][t].aid : t \in Known(c)'} \ {0} = {sta[c][t].aid : t \in Known(c)} \ {0}
    BY <2>2
  <2>4. \A t, u \in Known(c)' :
          sta'[c][t].aid = sta'[c][u].aid => t = u \/ sta'[c][t].aid = 0
    BY <2>1, <2>2, Zenon
  <2> QED
    BY <2>1, <2>3, <2>4, Zenon
<1>12. BooksBalance'
  BY <1>9, <1>10, <1>11, CountedSetIs, Zenon DEF BooksBalance
<1>13. OneTimerEach'
  <2>1. timer' \in [Bss -> [Stations -> Nat]]
    BY <1>6, <1>8
  <2>2. /\ session' \in [Bss -> [Stations -> BOOLEAN]]
        /\ \A c \in Bss, t \in Stations : <<c, t>> # <<b, s>> => session'[c][t] = session[c][t]
    BY <1>6
  <2>3. CountsTyped' /\ driver' \in [Bss -> SUBSET Stations]
    BY <1>6, <1>9 DEF CountsTyped
  <2>4. StationTypeOK'
    BY <1>2, <2>1, <2>2, <2>3, TypesKept
  <2>5. ASSUME NEW c \in Bss, NEW t \in Stations
        PROVE  timer'[c][t] = IF t \in Known(c)' THEN 1 ELSE 0
    <3>1. /\ timer[c][t] = IF t \in Known(c) THEN 1 ELSE 0
          /\ timer[b][s] = 0
      BY DEF StationInv, OneTimerEach
    <3>2. CASE c = b
      <4>1. timer'[c] = [timer[c] EXCEPT ![s] = @ + 1]
        BY <1>8, <3>2, Zenon
      <4> QED
        BY <1>4, <1>6, <3>1, <3>2, <4>1
    <3>3. CASE c # b
      <4>1. timer'[c] = IF s \in Known(c) THEN [timer[c] EXCEPT ![s] = 1] ELSE timer[c]
        BY <1>8, <3>3
      <4> QED
        BY <1>4, <1>6, <3>1, <3>3, <4>1
    <3> QED
      BY <3>2, <3>3
  <2>6. ASSUME NEW c \in Bss, NEW t \in Stations, session'[c][t]
        PROVE  t \in Known(c)'
    <3>1. session[c][t] => t \in Known(c)
      BY Zenon DEF StationInv, OneTimerEach
    <3>2. CASE <<c, t>> = <<b, s>>
      BY <1>4, <3>2
    <3>3. CASE <<c, t>> # <<b, s>>
      BY <1>4, <2>2, <2>6, <3>1, <3>3, Zenon
    <3> QED
      BY <3>2, <3>3
  <2> QED
    BY <2>4, <2>5, <2>6, Zenon DEF OneTimerEach
<1>14. NoneAssociated
  BY <1>3, <1>4, <1>5, Zenon DEF NoneAssociated
<1>15. OneAssociation'
  BY <1>14, AssociationKept DEF StationInv
<1>16. KernelFollows'
  <2>1. driver' = driver
    OBVIOUS
  <2>2. KernelTold
    BY <1>4, <2>1, Zenon DEF KernelTold
  <2> QED
    BY <1>14, <2>2, KernelKept DEF StationInv
<1>17. OnWayOut'
  BY <1>3, <1>4, <1>5, Zenon DEF OnWayOut
<1>18. NonErpMarked'
  BY <1>3, <1>4, <1>5, Zenon DEF StationInv, NonErpMarked
<1> QED
  BY <1>2, <1>12, <1>13, <1>15, <1>16, <1>17, <1>18 DEF StationInv

-----------------------------------------------------------------------------
(***************************************************************************)
(* A station asks for association: handle_assoc gives it an id.            *)
(***************************************************************************)

Admitted(r, a, s) ==
  [r EXCEPT !.aid = a, !.nonerp_set = s \in NonErp, !.timeout_next = "STA_NULLFUNC"]

LEMMA AdmittedFacts ==
  ASSUME NEW r \in StaInfo, NEW a \in 1..MaxAid, NEW s
  PROVE  /\ Admitted(r, a, s) \in StaInfo
         /\ Admitted(r, a, s).aid = a /\ Admitted(r, a, s).auth = r.auth
         /\ Admitted(r, a, s).assoc = r.assoc /\ Admitted(r, a, s).added = r.added
         /\ (Admitted(r, a, s).nonerp_set <=> s \in NonErp)
<1>1. a \in 0..MaxAid /\ "STA_NULLFUNC" \in TimeoutNext
  BY StationAssumption DEF TimeoutNext
<1>2. (s \in NonErp) \in BOOLEAN
  OBVIOUS
<1> QED
  BY <1>1, <1>2, Zenon DEF Admitted, StaInfo

LEMMA AssocKeepsInv ==
  ASSUME StationInv, NEW b \in Bss, NEW s \in Stations, handle_assoc(b, s)
  PROVE  StationInv'
<1> DEFINE old == sta[b][s]
           n == IF s \in NonErp /\ ~old.nonerp_set THEN 1 ELSE 0
<1>1. PICK a \in 1..MaxAid :
        /\ hostapd_get_aid(b, s, a)
        /\ sta' = [sta EXCEPT ![b][s].aid = a, ![b][s].nonerp_set = s \in NonErp,
                              ![b][s].timeout_next = "STA_NULLFUNC"]
  BY Zenon DEF handle_assoc
<1>2. /\ s \in Known(b) /\ old.auth
      /\ num_sta_non_erp' = num_sta_non_erp + n
      /\ tx' = Sent(b, s, "assoc") /\ UNCHANGED <<timer, session, num_sta, driver>>
  BY Zenon DEF handle_assoc, timerVars
<1>3. /\ TableOK /\ old \in StaInfo /\ (old.nonerp_set => s \in NonErp)
  BY <1>2, OldEntry DEF StationInv
<1>4. PICK r : r = Admitted(old, a, s)
  OBVIOUS
<1>5. /\ r \in StaInfo /\ r.aid = a /\ r.auth /\ r.assoc = old.assoc /\ r.added = old.added
      /\ r.nonerp_set <=> s \in NonErp
  <2> HIDE DEF n, old
  <2>1. old \in StaInfo
    BY <1>3
  <2>2. /\ Admitted(old, a, s) \in StaInfo
        /\ Admitted(old, a, s).aid = a /\ Admitted(old, a, s).auth = old.auth
        /\ Admitted(old, a, s).assoc = old.assoc /\ Admitted(old, a, s).added = old.added
        /\ Admitted(old, a, s).nonerp_set <=> s \in NonErp
    BY <2>1, AdmittedFacts, Zenon
  <2> QED
    BY <1>2, <1>4, <2>2, Zenon
<1>6. sta' = [sta EXCEPT ![b][s] = r]
  BY <1>1, <1>4, Zenon DEF Admitted
<1>7. SetTo(b, s, r)
  BY <1>2, <1>3, <1>5, <1>6, EntryChanged
<1>8. /\ \A c \in Bss : Known(c)' = Known(c)
      /\ sta'[b][s] = r
      /\ \A c \in Bss : \A t \in Known(c) : <<c, t>> # <<b, s>> => sta'[c][t] = sta[c][t]
  BY <1>2, <1>7 DEF SetTo
<1>9. TableOK'
  <2>1. sta' = [c \in Bss |-> sta'[c]]
    BY <1>7 DEF SetTo
  <2>2. \A c \in Bss : sta'[c] \in [Known(c)' -> StaInfo] /\ Known(c)' \subseteq Stations
    BY <1>3, <1>7 DEF SetTo, TableOK
  <2> QED
    BY <2>1, <2>2, Zenon DEF TableOK
<1>10. /\ timer \in [Bss -> [Stations -> Nat]] /\ session \in [Bss -> [Stations -> BOOLEAN]]
       /\ sta_aid \in [Bss -> SUBSET (1..MaxAid)] /\ num_sta \in [Bss -> 0..MaxNumSta]
       /\ num_sta_non_erp \in Nat /\ driver \in [Bss -> SUBSET Stations]
  BY DEF StationInv, OneTimerEach, StationTypeOK
<1>11. /\ \A c \in Bss : /\ sta_aid[c] = {sta[c][t].aid : t \in Known(c)} \ {0}
                         /\ \A t, u \in Known(c) :
                              sta[c][t].aid = sta[c][u].aid => t = u \/ sta[c][t].aid = 0
                         /\ num_sta[c] = Cardinality(Known(c))
       /\ num_sta_non_erp = Cardinality(CountedSet)
  BY CountedSetIs, Zenon DEF StationInv, BooksBalance
<1>12. /\ IF old.aid > 0 THEN a = old.aid ELSE a \notin sta_aid[b]
       /\ sta_aid' = [sta_aid EXCEPT ![b] = @ \cup {a}]
  BY <1>1 DEF hostapd_get_aid
<1>13. num_sta_non_erp' = Cardinality(CountedSet') /\ num_sta_non_erp' \in Nat
  <2>1. \A c \in Bss, t \in Stations : <<c, t>> # <<b, s>> => (Counted(c, t)' <=> Counted(c, t))
    BY <1>8, Zenon DEF Counted
  <2>2. /\ Counted(b, s)' <=> s \in NonErp
        /\ Counted(b, s) <=> old.nonerp_set
    BY <1>2, <1>5, <1>8, Zenon DEF Counted
  <2>3. CASE s \in NonErp /\ ~old.nonerp_set
    <3>1. n = 1
      BY <2>3
    <3>2. Cardinality(CountedSet') = Cardinality(CountedSet) + 1
      BY <2>1, <2>2, <2>3, CountedMore
    <3> HIDE DEF n
    <3> QED
      BY <1>2, <1>10, <1>11, <3>1, <3>2
  <2>4. CASE ~(s \in NonErp /\ ~old.nonerp_set)
    <3>1. n = 0
      BY <2>4
    <3>2. Counted(b, s)' <=> Counted(b, s)
      BY <1>3, <2>2, <2>4, Zenon
    <3>3. \A c \in Bss, t \in Stations : Counted(c, t)' <=> Counted(c, t)
      BY <2>1, <3>2
    <3>4. CountedSet' = CountedSet
      BY <3>3, CountedSame
    <3> HIDE DEF n
    <3> QED
      BY <1>2, <1>10, <1>11, <3>1, <3>4
  <2> QED
    BY <2>3, <2>4
<1> HIDE DEF n
<1>14. ASSUME NEW c \in Bss
       PROVE  /\ sta_aid'[c] = {sta'[c][t].aid : t \in Known(c)'} \ {0}
              /\ \A t, u \in Known(c)' :
                   sta'[c][t].aid = sta'[c][u].aid => t = u \/ sta'[c][t].aid = 0
  <2>1. /\ sta_aid[c] = {sta[c][t].aid : t \in Known(c)} \ {0}
        /\ \A t, u \in Known(c) : sta[c][t].aid = sta[c][u].aid => t = u \/ sta[c][t].aid = 0
        /\ Known(c)' = Known(c)
    BY <1>8, <1>11, Zenon
  <2>2. CASE c # b
    <3>1. sta_aid'[c] = sta_aid[c] /\ \A t \in Known(c) : sta'[c][t] = sta[c][t]
      BY <1>8, <1>10, <1>12, <2>2
    <3>2. {sta'[c][t].aid : t \in Known(c)} = {sta[c][t].aid : t \in Known(c)}
      BY <3>1
    <3> QED
      BY <2>1, <3>1, <3>2
  <2>3. CASE c = b
    <3>1. /\ sta_aid'[b] = sta_aid[b] \cup {a}
          /\ \A t \in Known(b) : sta'[b][t].aid = IF t = s THEN a ELSE sta[b][t].aid
      BY <1>2, <1>5, <1>8, <1>10, <1>12
    <3>2. a \in Nat \ {0} /\ old.aid \in Nat
      BY <1>3, StationAssumption DEF StaInfo
    <3>3. old.aid = a \/ (old.aid = 0 /\ \A t \in Known(b) : sta[b][t].aid # a)
      BY <1>12, <2>1, <2>3, <3>2
    <3>4. {sta'[b][t].aid : t \in Known(b)} = {sta[b][t].aid : t \in Known(b) \ {s}} \cup {a}
      BY <1>2, <3>1
    <3>5. {sta[b][t].aid : t \in Known(b)} = {sta[b][t].aid : t \in Known(b) \ {s}} \cup {old.aid}
      BY <1>2
    <3>6. sta_aid'[b] = {sta'[b][t].aid : t \in Known(b)} \ {0}
      BY <2>1, <2>3, <3>1, <3>2, <3>3, <3>4, <3>5
    <3>7. \A t, u \in Known(b) :
            sta'[b][t].aid = sta'[b][u].aid => t = u \/ sta'[b][t].aid = 0
      BY <1>2, <2>1, <2>3, <3>1, <3>2, <3>3
    <3> QED
      BY <2>1, <2>3, <3>6, <3>7
  <2> QED
    BY <2>2, <2>3
<1>15. \A c \in Bss : num_sta'[c] = Cardinality(Known(c)')
  BY <1>2, <1>8, <1>11
<1>16. BooksBalance'
  BY <1>13, <1>14, <1>15, CountedSetIs, Zenon DEF BooksBalance
<1>17. tx' \in Seq(Frames)
  BY <1>2, SentTyped
<1>18. OneTimerEach'
  <2>1. sta_aid' \in [Bss -> SUBSET (1..MaxAid)]
    BY <1>10, <1>12
  <2>2. StationTypeOK'
    BY <1>2, <1>9, <1>10, <1>13, <1>17, <2>1, TypesKept DEF CountsTyped
  <2> QED
    BY <1>2, <1>8, <2>2 DEF StationInv, OneTimerEach
<1>19. NoneAssociated
  <2>1. \A c \in Bss : \A t \in Known(c) :
          sta'[c][t].assoc => sta[c][t].assoc /\ sta'[c][t].added = sta[c][t].added
    BY <1>5, <1>8, Zenon
  <2> QED
    BY <1>8, <2>1, Zenon DEF NoneAssociated
<1>20. OneAssociation'
  BY <1>19, AssociationKept DEF StationInv
<1>21. KernelFollows'
  <2>1. KernelTold
    BY <1>2, <1>8, Zenon DEF KernelTold
  <2> QED
    BY <1>19, <2>1, KernelKept DEF StationInv
<1>22. OnWayOut'
  BY <1>5, <1>8, Zenon DEF StationInv, OnWayOut
<1>23. NonErpMarked'
  BY <1>5, <1>8, Zenon DEF StationInv, NonErpMarked
<1> QED
  BY <1>9, <1>16, <1>17, <1>18, <1>20, <1>21, <1>22, <1>23 DEF StationInv

-----------------------------------------------------------------------------
(***************************************************************************)
(* The association is acknowledged: handle_assoc_cb.                       *)
(***************************************************************************)

Associated(r, ok) == [r EXCEPT !.assoc = TRUE, !.added = ok]

LEMMA AssociatedFacts ==
  ASSUME NEW r \in StaInfo, NEW ok \in BOOLEAN
  PROVE  /\ Associated(r, ok) \in StaInfo /\ Associated(r, ok).aid = r.aid
         /\ Associated(r, ok).auth = r.auth /\ Associated(r, ok).nonerp_set = r.nonerp_set
         /\ Associated(r, ok).timeout_next = r.timeout_next /\ Associated(r, ok).added = ok
BY Zenon DEF Associated, StaInfo

LEMMA AssocCbKeepsInv ==
  ASSUME StationInv, NEW b \in Bss, NEW s \in Known(b), handle_assoc_cb(b, s),
         UNCHANGED <<session, countVars>>, tx' \in Seq(Frames)
  PROVE  StationInv'
<1> DEFINE P == {c \in Bss \ {b} : s \in Known(c)}
<1>ok. PICK ok \in BOOLEAN :
      /\ sta' = [c \in Bss |->
                   IF c = b THEN [sta[c] EXCEPT ![s].assoc = TRUE, ![s].added = ok]
                   ELSE IF c \in P
                   THEN [sta[c] EXCEPT ![s].assoc = FALSE, ![s].added = FALSE,
                                       ![s].timeout_next = "STA_DEAUTH"]
                   ELSE sta[c]]
      /\ timer' = [c \in Bss |-> IF c \in P THEN [timer[c] EXCEPT ![s] = 1] ELSE timer[c]]
      /\ driver' = [c \in Bss |-> IF c = b /\ ok THEN driver[c] \cup {s}
                                  ELSE IF c = b \/ c \in P THEN driver[c] \ {s}
                                  ELSE driver[c]]
  BY Zenon DEF handle_assoc_cb
<1>1. /\ sta' = [c \in Bss |->
                   IF c = b THEN [sta[c] EXCEPT ![s].assoc = TRUE, ![s].added = ok]
                   ELSE IF c \in P
                   THEN [sta[c] EXCEPT ![s].assoc = FALSE, ![s].added = FALSE,
                                       ![s].timeout_next = "STA_DEAUTH"]
                   ELSE sta[c]]
      /\ timer' = [c \in Bss |-> IF c \in P THEN [timer[c] EXCEPT ![s] = 1] ELSE timer[c]]
      /\ driver' = [c \in Bss |-> IF c = b /\ ok THEN driver[c] \cup {s}
                                  ELSE IF c = b \/ c \in P THEN driver[c] \ {s}
                                  ELSE driver[c]]
  BY <1>ok
<1>2. \A c \in Bss : c \in P <=> c # b /\ s \in Known(c)
  BY Zenon
<1> HIDE DEF P
<1>3. TableOK /\ s \in Stations
  BY OldEntry DEF StationInv
<1>4. ASSUME NEW c \in Bss
      PROVE  /\ Known(c)' = Known(c) /\ sta'[c] \in [Known(c) -> StaInfo]
             /\ \A t \in Known(c) :
                  sta'[c][t] = IF t # s THEN sta[c][t]
                               ELSE IF c = b THEN Associated(sta[c][t], ok)
                               ELSE Disassociated(sta[c][t])
  <2>1. sta[c] \in [Known(c) -> StaInfo]
    BY <1>3 DEF TableOK
  <2>2. CASE c = b
    <3>1. sta'[c] = [sta[c] EXCEPT ![s].assoc = TRUE, ![s].added = ok]
      BY <1>1, <2>2, Zenon
    <3>2. sta'[c] = [sta[c] EXCEPT ![s] = Associated(sta[c][s], ok)]
      BY <3>1, Zenon DEF Associated
    <3>3. Associated(sta[c][s], ok) \in StaInfo
      BY <2>1, <2>2, AssociatedFacts
    <3> QED
      BY <2>1, <2>2, <3>2, <3>3 DEF Known
  <2>3. CASE c # b /\ s \in Known(c)
    <3>1. sta'[c] = [sta[c] EXCEPT ![s].assoc = FALSE, ![s].added = FALSE,
                                   ![s].timeout_next = "STA_DEAUTH"]
      BY <1>1, <1>2, <2>3, Zenon
    <3>2. sta'[c] = [sta[c] EXCEPT ![s] = Disassociated(sta[c][s])]
      BY <3>1, Zenon DEF Disassociated
    <3>3. Disassociated(sta[c][s]) \in StaInfo
      BY <2>3, OldEntry, HarmlessChanges DEF Harmless
    <3> QED
      BY <2>1, <2>3, <3>2, <3>3 DEF Known
  <2>4. CASE c # b /\ s \notin Known(c)
    <3>1. sta'[c] = sta[c]
      BY <1>1, <1>2, <2>4, Zenon
    <3> QED
      BY <2>1, <2>4, <3>1 DEF Known
  <2> QED
    BY <2>2, <2>3, <2>4
<1>5. \A c \in Bss : Known(c)' = Known(c)
  BY <1>4
<1>6. TableOK'
  <2>1. sta' = [c \in Bss |-> sta'[c]]
    BY <1>1
  <2>2. \A c \in Bss : sta'[c] \in [Known(c)' -> StaInfo] /\ Known(c)' \subseteq Stations
    BY <1>3, <1>4 DEF TableOK
  <2> QED
    BY <2>1, <2>2, Zenon DEF TableOK
<1>7. ASSUME NEW c \in Bss, NEW t \in Known(c)
      PROVE  /\ sta'[c][t].aid = sta[c][t].aid /\ sta'[c][t].nonerp_set = sta[c][t].nonerp_set
             /\ sta'[c][t].assoc => sta[c][t].assoc \/ (c = b /\ t = s)
             /\ (c # b /\ t = s) => ~sta'[c][t].assoc
             /\ (c = b /\ t = s) => sta'[c][t].added = ok
             /\ (sta'[c][t].assoc /\ ~(c = b /\ t = s)) => sta'[c][t].added = sta[c][t].added
             /\ ~sta'[c][t].auth => sta'[c][t].timeout_next \in {"STA_DEAUTH", "STA_REMOVE"}
  <2>1. /\ sta[c][t] \in StaInfo
        /\ ~sta[c][t].auth => sta[c][t].timeout_next \in {"STA_DEAUTH", "STA_REMOVE"}
    BY OldEntry
  <2>2. Harmless(sta[c][t], Disassociated(sta[c][t])) /\ ~Disassociated(sta[c][t]).assoc
    BY <2>1, HarmlessChanges
  <2>3. CASE t # s
    <3>1. sta'[c][t] = sta[c][t]
      BY <1>4, <2>3
    <3> QED
      BY <2>1, <2>3, <3>1, Zenon
  <2>4. CASE t = s /\ c = b
    <3>1. sta'[c][t] = Associated(sta[c][t], ok)
      BY <1>4, <2>4
    <3>2. /\ sta'[c][t].aid = sta[c][t].aid /\ sta'[c][t].auth = sta[c][t].auth
          /\ sta'[c][t].nonerp_set = sta[c][t].nonerp_set
          /\ sta'[c][t].timeout_next = sta[c][t].timeout_next /\ sta'[c][t].added = ok
      BY <2>1, <3>1, AssociatedFacts
    <3> QED
      BY <2>1, <2>4, <3>2, Zenon
  <2>5. CASE t = s /\ c # b
    <3>1. sta'[c][t] = Disassociated(sta[c][t])
      BY <1>4, <2>5
    <3> QED
      BY <2>2, <2>5, <3>1, Zenon DEF Harmless
  <2> QED
    BY <2>3, <2>4, <2>5
<1>8. BooksBalance' /\ NonErpMarked'
  <2>1. UNCHANGED countVars
    OBVIOUS
  <2>books. \A c \in Bss : \A t \in Known(c) :
          sta'[c][t].aid = sta[c][t].aid /\ sta'[c][t].nonerp_set = sta[c][t].nonerp_set
    BY <1>7
  <2>2. SameBooks
    BY <1>5, <2>books, <2>1, Zenon DEF SameBooks
  <2> QED
    BY <2>2, BooksKept
<1>9. /\ timer \in [Bss -> [Stations -> Nat]] /\ session \in [Bss -> [Stations -> BOOLEAN]]
      /\ driver \in [Bss -> SUBSET Stations]
  BY DEF StationInv, OneTimerEach, StationTypeOK
<1>10. OneTimerEach'
  <2>1. /\ timer' \in [Bss -> [Stations -> Nat]]
        /\ \A c \in Bss, t \in Stations :
             timer'[c][t] = timer[c][t] \/ (t \in Known(c) /\ timer'[c][t] = 1)
    BY <1>1, <1>2, <1>9
  <2>2. SameTimers
    BY <1>9, <2>1, Zenon DEF SameTimers
  <2>3. driver' \in [Bss -> SUBSET Stations]
    BY <1>1, <1>3, <1>9
  <2> QED
    BY <1>5, <1>6, <2>2, <2>3, TimersKept
<1>11. OneAssociation'
  <2> SUFFICES ASSUME NEW t \in Stations, NEW c \in Bss, NEW d \in Bss,
                      t \in Known(c)', t \in Known(d)', sta'[c][t].assoc, sta'[d][t].assoc
               PROVE  c = d
    BY Zenon DEF OneAssociation
  <2>1. t \in Known(c) /\ t \in Known(d)
    BY <1>5
  <2>2. CASE t = s
    BY <1>7, <2>1, <2>2, Zenon
  <2>3. CASE t # s
    <3>1. sta[c][t].assoc /\ sta[d][t].assoc
      BY <1>7, <2>1, <2>3, Zenon
    <3> QED
      BY <2>1, <3>1, Zenon DEF StationInv, OneAssociation
  <2> QED
    BY <2>2, <2>3
<1>12. KernelFollows'
  <2>1. \A c \in Bss : \A t : t # s \/ c # b =>
                       /\ t \in driver'[c] => t \in driver[c]
                       /\ t \in driver[c] => t \in driver'[c] \/ (c # b /\ t = s)
    BY <1>1, <1>9
  <2>2. s \in driver'[b] <=> ok
    BY <1>1
  <2>3. ASSUME NEW c \in Bss, NEW t \in driver'[c] PROVE t \in Known(c)'
    <3>1. t \in Known(c)
      BY <2>1, <2>3, Zenon DEF StationInv, KernelFollows
    <3> QED
      BY <1>5, <3>1
  <2>4. ASSUME NEW c \in Bss, NEW t \in Known(c)', sta'[c][t].assoc
        PROVE  t \in driver'[c] <=> sta'[c][t].added
    <3>1. t \in Known(c)
      BY <1>5
    <3>2. CASE c = b /\ t = s
      <4>1. sta'[c][t].added = ok
        BY <1>7, <3>1, <3>2, Zenon
      <4> QED
        BY <2>2, <3>2, <4>1, Zenon
    <3>3. CASE ~(c = b /\ t = s)
      <4>1. sta[c][t].assoc /\ ~(c # b /\ t = s) /\ sta'[c][t].added = sta[c][t].added
        BY <1>7, <2>4, <3>1, <3>3, Zenon
      <4>2. t \in driver[c] <=> sta[c][t].added
        BY <3>1, <4>1, Zenon DEF StationInv, KernelFollows
      <4>3. t # s
        BY <3>3, <4>1
      <4>4. t \in driver'[c] <=> t \in driver[c]
        BY <2>1, <4>3
      <4> QED
        BY <4>1, <4>2, <4>4, Zenon
    <3> QED
      BY <3>2, <3>3
  <2> QED
    BY <2>3, <2>4, Zenon DEF KernelFollows
<1>13. OnWayOut'
  BY <1>5, <1>7, Zenon DEF OnWayOut
<1> QED
  BY <1>6, <1>8, <1>10, <1>11, <1>12, <1>13 DEF StationInv

-----------------------------------------------------------------------------
(***************************************************************************)
(* The handlers that combine these.                                        *)
(***************************************************************************)

LEMMA TimersUnchanged ==
  ASSUME StationInv, UNCHANGED <<timer, session>>
  PROVE  SameTimers
<1>1. timer \in [Bss -> [Stations -> Nat]] /\ session \in [Bss -> [Stations -> BOOLEAN]]
  BY DEF StationInv, OneTimerEach, StationTypeOK
<1> QED
  BY <1>1, Zenon DEF SameTimers

LEMMA AuthKeepsInv ==
  ASSUME StationInv, NEW b \in Bss, NEW s \in Stations, handle_auth(b, s)
  PROVE  StationInv'
<1>1. PICK x \in BOOLEAN : session' = [session EXCEPT ![b][s] = x]
  BY Zenon DEF handle_auth
<1>2. tx' \in Seq(Frames)
  BY SentTyped DEF handle_auth
<1>3. UNCHANGED <<sta_aid, num_sta_non_erp, driver>>
  BY DEF handle_auth
<1>4. CASE s \in Known(b)
  <2>1. sta' = [sta EXCEPT ![b][s].auth = TRUE] /\ UNCHANGED <<timer, num_sta>>
    BY <1>4, Zenon DEF handle_auth
  <2>2. UNCHANGED <<timer, countVars, driver>>
    BY <1>3, <2>1 DEF countVars
  <2> QED
    BY <1>1, <1>2, <1>4, <2>1, <2>2, AuthOfKnown, Zenon
<1>5. CASE s \notin Known(b)
  <2>1. ap_sta_add(b, s)
    BY <1>5, Zenon DEF handle_auth
  <2> QED
    BY <1>1, <1>2, <1>3, <1>5, <2>1, AddKeepsInv
<1> QED
  BY <1>4, <1>5

LEMMA TimerKeepsInv ==
  ASSUME StationInv, NEW b \in Bss, NEW s \in Stations, ap_handle_timer(b, s)
  PROVE  StationInv'
<1>1. s \in Known(b)
  BY DEF ap_handle_timer
<1>2. PICK r : r = sta[b][s]
  OBVIOUS
<1>3. /\ r \in StaInfo
      /\ ~r.auth => r.timeout_next \in {"STA_DEAUTH", "STA_REMOVE"}
  BY <1>1, <1>2, OldEntry
<1>4. r.timeout_next \in {"STA_NULLFUNC", "STA_DISASSOC"} => r.auth
  <2>1. r.timeout_next \in {"STA_NULLFUNC", "STA_DISASSOC"}
          => r.timeout_next \notin {"STA_DEAUTH", "STA_REMOVE"}
    OBVIOUS
  <2> QED
    BY <1>3, <2>1, Zenon
<1>5. /\ r.auth => Harmless(r, SeenActive(r)) /\ Harmless(r, ToPoll(r))
      /\ Harmless(r, Disassociated(r))
  BY <1>3, HarmlessChanges
<1>6. CASE Active(b, s) /\ sta' = [sta EXCEPT ![b][s].timeout_next = "STA_NULLFUNC"]
           /\ UNCHANGED <<timerVars, countVars, driver, tx>>
  <2>1. r.auth
    BY <1>2, <1>4, <1>6, Zenon DEF Active
  <2>2. sta' = [sta EXCEPT ![b][s] = SeenActive(r)]
    BY <1>2, <1>6, Zenon DEF SeenActive
  <2>3. SameTimers /\ UNCHANGED countVars /\ driver' = driver /\ tx' \in Seq(Frames)
    BY <1>6, TimersUnchanged DEF timerVars, StationInv
  <2> QED
    BY <1>1, <1>2, <1>5, <2>1, <2>2, <2>3, ChangeKeepsInv
<1>7. CASE /\ r.timeout_next = "STA_NULLFUNC"
           /\ sta' = [sta EXCEPT ![b][s].pending_poll = @ \/ sta[b][s].assoc,
                                 ![b][s].timeout_next = "STA_DISASSOC"]
           /\ tx' = IF sta[b][s].assoc THEN Sent(b, s, "poll") ELSE tx
           /\ UNCHANGED <<timerVars, countVars, driver>>
  <2>1. r.auth
    BY <1>4, <1>7, Zenon
  <2>2. sta' = [sta EXCEPT ![b][s] = ToPoll(r)]
    BY <1>2, <1>7, Zenon DEF ToPoll
  <2>3. SameTimers /\ UNCHANGED countVars /\ driver' = driver
    BY <1>7, TimersUnchanged DEF timerVars
  <2>4. Sent(b, s, "poll") \in Seq(Frames) /\ tx \in Seq(Frames)
    BY SentTyped DEF StationInv
  <2>5. tx' \in Seq(Frames)
    BY <1>7, <2>4, Zenon
  <2> QED
    BY <1>1, <1>2, <1>5, <2>1, <2>2, <2>3, <2>5, ChangeKeepsInv
<1>8. CASE /\ sta' = [sta EXCEPT ![b][s].assoc = FALSE, ![b][s].added = FALSE,
                                 ![b][s].timeout_next = "STA_DEAUTH"]
           /\ UNCHANGED <<timerVars, countVars, driver, tx>>
  <2>1. sta' = [sta EXCEPT ![b][s] = Disassociated(r)]
    BY <1>2, <1>8, Zenon DEF Disassociated
  <2>2. SameTimers /\ UNCHANGED countVars /\ driver' = driver /\ tx' \in Seq(Frames)
    BY <1>8, TimersUnchanged DEF timerVars, StationInv
  <2> QED
    BY <1>1, <1>2, <1>5, <2>1, <2>2, ChangeKeepsInv
<1>9. CASE ap_free_sta(b, s) /\ UNCHANGED tx
  BY <1>1, <1>9, FreeKeepsInv
<1> QED
  BY <1>2, <1>6, <1>7, <1>8, <1>9, Zenon DEF ap_handle_timer

LEMMA SessionKeepsInv ==
  ASSUME StationInv, NEW b \in Bss, NEW s \in Stations, ap_handle_session_timer(b, s)
  PROVE  StationInv'
<1>1. s \in Known(b) /\ tx' = tx
  BY DEF ap_handle_session_timer
<1>2. CASE ap_free_sta(b, s)
  BY <1>1, <1>2, FreeKeepsInv
<1>3. CASE session' = [session EXCEPT ![b][s] = FALSE] /\ UNCHANGED <<sta, timer, countVars, driver>>
  <2>1. SameTimers
    BY <1>1, <1>3, RearmedFacts
  <2> QED
    BY <1>1, <1>3, <2>1, NoChangeKeepsInv DEF StationInv
<1> QED
  BY <1>2, <1>3, Zenon DEF ap_handle_session_timer

LEMMA TxStatusKeepsInv ==
  ASSUME StationInv, TxStatus
  PROVE  StationInv'
<1>1. /\ tx # <<>> /\ tx' = Tail(tx) /\ UNCHANGED <<session, countVars>>
  BY DEF TxStatus
<1>2. tx' \in Seq(Frames) /\ Head(tx) \in Frames
  BY <1>1 DEF StationInv
<1>3. PICK f : f = Head(tx)
  OBVIOUS
<1>4. f.bss \in Bss /\ f.addr \in Stations
  BY <1>2, <1>3 DEF Frames
<1>5. CASE UNCHANGED <<sta, timer, driver>>
  BY <1>1, <1>2, <1>5, TimersUnchanged, NoChangeKeepsInv
<1>6. CASE hostapd_tx_status(f.addr)
  <2>1. PICK b \in Bss : /\ f.addr \in Known(b)
                         /\ sta' = [sta EXCEPT ![b][f.addr].pending_poll = FALSE]
    BY <1>6, Zenon DEF hostapd_tx_status
  <2>2. UNCHANGED <<timer, driver>>
    BY <1>6 DEF hostapd_tx_status
  <2>3. sta' = [sta EXCEPT ![b][f.addr] = Polled(sta[b][f.addr])]
    BY <2>1, Zenon DEF Polled
  <2>4. Harmless(sta[b][f.addr], Polled(sta[b][f.addr]))
    BY <2>1, OldEntry, HarmlessChanges
  <2> QED
    BY <1>1, <1>2, <2>1, <2>2, <2>3, <2>4, TimersUnchanged, ChangeKeepsInv
<1>7. CASE f.addr \in Known(f.bss) /\ handle_auth_cb(f.bss, f.addr)
  <2>1. sta' = [sta EXCEPT ![f.bss][f.addr].auth = TRUE] /\ UNCHANGED <<timer, driver>>
    BY <1>7 DEF handle_auth_cb
  <2>2. UNCHANGED <<timer, countVars, driver>> /\ session' = session
    BY <1>1, <2>1
  <2> QED
    BY <1>2, <1>4, <1>7, <2>1, <2>2, AuthOfKnown, Zenon
<1>8. CASE f.addr \in Known(f.bss) /\ handle_assoc_cb(f.bss, f.addr)
  BY <1>1, <1>2, <1>4, <1>8, AssocCbKeepsInv
<1> QED
  BY <1>3, <1>5, <1>6, <1>7, <1>8, Zenon DEF TxStatus

LEMMA StationInvStep == StationInv /\ [Next]_vars => StationInv'
<1> SUFFICES ASSUME StationInv, [Next]_vars PROVE StationInv'
  OBVIOUS
<1>1. CASE TxStatus
  BY <1>1, TxStatusKeepsInv
<1>2. ASSUME NEW s \in Stations, Leave(s) PROVE StationInv'
  <2>1. UNCHANGED <<sta, timer, session, countVars, driver, tx>>
    BY <1>2 DEF Leave, timerVars
  <2> QED
    BY <2>1, TimersUnchanged, NoChangeKeepsInv DEF StationInv
<1>3. ASSUME NEW s \in Stations, NEW b \in Bss, handle_auth(b, s) PROVE StationInv'
  BY <1>3, AuthKeepsInv
<1>4. ASSUME NEW s \in Stations, NEW b \in Bss, handle_assoc(b, s) PROVE StationInv'
  BY <1>4, AssocKeepsInv
<1>5. ASSUME NEW s \in Stations, NEW b \in Bss, handle_disassoc(b, s) PROVE StationInv'
  BY <1>5, DisassocKeepsInv
<1>6. ASSUME NEW s \in Stations, NEW b \in Bss, handle_deauth(b, s) PROVE StationInv'
  BY <1>6, FreeKeepsInv DEF handle_deauth
<1>7. ASSUME NEW s \in Stations, NEW b \in Bss, ap_handle_timer(b, s) PROVE StationInv'
  BY <1>7, TimerKeepsInv
<1>8. ASSUME NEW s \in Stations, NEW b \in Bss, ap_handle_session_timer(b, s) PROVE StationInv'
  BY <1>8, SessionKeepsInv
<1>9. ASSUME NEW s \in Stations, NEW b \in Bss, Control(b, s) PROVE StationInv'
  BY <1>9, ControlKeepsInv
<1>10. CASE UNCHANGED vars
  <2>1. UNCHANGED <<sta, timer, session, countVars, driver, tx>>
    BY <1>10 DEF vars, timerVars
  <2> QED
    BY <2>1, TimersUnchanged, NoChangeKeepsInv DEF StationInv
<1> QED
  BY <1>1, <1>2, <1>3, <1>4, <1>5, <1>6, <1>7, <1>8, <1>9, <1>10, Zenon DEF Next

LEMMA StationInvAlways == Spec => []StationInv
BY StationInvInit, StationInvStep, PTL DEF Spec

-----------------------------------------------------------------------------
(***************************************************************************)
(* The theorems.                                                           *)
(***************************************************************************)

\* Every station of a list has exactly one timer of ap_handle_timer registered
\* and a freed one none, however frames, statuses, timers and commands follow
\* each other, for any number of BSSs and stations.
THEOREM EachStationTimed == Spec => []OneTimerEach
<1>1. StationInv => OneTimerEach
  BY DEF StationInv
<1> QED
  BY <1>1, StationInvAlways, PTL

\* The association ids in use are those of the stations, no two stations of a
\* BSS share one, and num_sta and num_sta_non_erp count what they are named for:
\* ap_free_sta and the handlers keep the books whatever comes between.
THEOREM BooksAlwaysBalance == Spec => []BooksBalance
<1>1. StationInv => BooksBalance
  BY DEF StationInv
<1> QED
  BY <1>1, StationInvAlways, PTL

\* A station is associated in one BSS at most, and an association that a late
\* acknowledgement brings about for a station no longer authenticated is removed
\* by its next timer: handle_assoc_cb prunes, and nothing else associates.
THEOREM LateAcksAreHarmless == Spec => []AssociationsSound
<1>1. StationInv => AssociationsSound
  <2>1. StationInv => UnauthenticatedLeaves
    BY Zenon DEF StationInv, OnWayOut, UnauthenticatedLeaves
  <2> QED
    BY <2>1 DEF StationInv, AssociationsSound
<1> QED
  BY <1>1, StationInvAlways, PTL

\* The kernel's station entries are those of known stations, and an associated
\* one is among them exactly if the kernel took its entry when handle_assoc_cb
\* last added it, for any number of BSSs and stations.
THEOREM KernelAlwaysFollows == Spec => []KernelFollows
<1>1. StationInv => KernelFollows
  BY DEF StationInv
<1> QED
  BY <1>1, StationInvAlways, PTL
=============================================================================
