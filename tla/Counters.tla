------------------------------ MODULE Counters ------------------------------
(***************************************************************************)
(* The media-lock and clock counters of firmware/avdecc.c and the pushes   *)
(* that tell registered controllers of them.  The lock state of an input   *)
(* is bumped from three places: ACMP connects and disconnects, the main    *)
(* loop's lock tracking, and (for the clock domain) avdecc_poll.           *)
(***************************************************************************)
EXTENDS Integers, FiniteSets

CONSTANTS
    Ctrls,     \* controllers
    NoCtrl,    \* the all-zero controller entity id
    SLOTS,     \* AVDECC_MAX_UNSOL_CTRL
    SEQ,       \* number of sequence ids of a push (2^16)
    MaxLock    \* bound: LOCKED counters do not pass it

ASSUME CountersAssumption ==
    /\ NoCtrl \notin Ctrls
    /\ SLOTS \in Nat \ {0} /\ SEQ \in Nat \ {0} /\ MaxLock \in Nat

VARIABLES
    source,     \* current_clock_source: 0 internal (gPTP), 1 media clock (CRF)
    clock,      \* clock_locked_count, clock_unlocked_count, clock_last_locked
    media,      \* stream_media_locked, stream_media_unlocked, stream_last_locked
    prevAaf,    \* main.c prev_aaf_locked
    unsol,      \* unsol_ctrl[]: active, controller and next sequence id
    gptpLocked, \* servo_locked of the gPTP servo
    engine,     \* mcr and aaf: bound, and with it mcr.servo_locked or aaf.rx_count > 0
    base,       \* history: what track_clock_lock adopted as its baseline
    heard,      \* history: the sequence id each controller expects next
    view        \* history: the counters each controller was last told

vars == <<source, clock, media, prevAaf, unsol, gptpLocked, engine, base, heard, view>>

Uids == {"CRF", "AAF"}
Domain == "CLOCK"
Slots == 1..SLOTS
Unknown == 255   \* the sentinel of clock_last_locked
Bit(b) == IF b THEN 1 ELSE 0

Tally == [locked : Nat, unlocked : Nat, last : {0, 1}]
Engine == {"unbound", "waiting", "good"}
Slot  == [active : BOOLEAN, ctrl : Ctrls \cup {NoCtrl}, seq : 0..SEQ - 1]

TypeOK ==
    /\ source \in {0, 1}
    /\ clock \in [locked : Nat, unlocked : Nat, last : {0, 1, Unknown}]
    /\ media \in [Uids -> Tally]
    /\ prevAaf \in {0, 1} /\ base \in {0, 1}
    /\ unsol \in [Slots -> Slot]
    /\ gptpLocked \in BOOLEAN /\ engine \in [Uids -> Engine]
    /\ heard \in [Ctrls -> 0..SEQ - 1]
    /\ view \in [Ctrls -> [Uids \cup {Domain} -> Nat \X Nat]]

Untold == [d \in Uids \cup {Domain} |-> <<0, 0>>]
Told(d) == IF d = Domain THEN <<clock.locked, clock.unlocked>>
           ELSE <<media[d].locked, media[d].unlocked>>

Init ==
    /\ source = 0
    /\ clock = [locked |-> 0, unlocked |-> 0, last |-> Unknown]
    /\ media = [u \in Uids |-> [locked |-> 0, unlocked |-> 0, last |-> 0]]
    /\ prevAaf = 0 /\ base = 0
    /\ unsol = [i \in Slots |-> [active |-> FALSE, ctrl |-> NoCtrl, seq |-> 0]]
    /\ gptpLocked = FALSE /\ engine = [u \in Uids |-> "unbound"]
    /\ heard = [c \in Ctrls |-> 0]
    /\ view = [c \in Ctrls |-> Untold]

-----------------------------------------------------------------------------
Active(c) == {i \in Slots : unsol[i].active /\ unsol[i].ctrl = c}
Members == {c \in Ctrls : Active(c) # {}}

NextSeq_Wide(s, n) == s.seq + n  \* fault: the counter is wider than the field it is sent in
NextSeq(s, n) == (s.seq + n) % SEQ

(* push_unsol_counters and push_unsol_stream_info: n pushes to every registered
   controller; the counters of the descriptors ds are among them. *)
Push(n, ds) ==
    /\ unsol' = [i \in Slots |-> IF unsol[i].active
                                 THEN [unsol[i] EXCEPT !.seq = NextSeq(unsol[i], n)] ELSE unsol[i]]
    /\ heard' = [c \in Ctrls |-> IF c \in Members THEN (heard[c] + n) % SEQ ELSE heard[c]]
    /\ view' = [c \in Ctrls |-> IF c \in Members
                                THEN [d \in Uids \cup {Domain} |-> IF d \in ds THEN Told(d)' ELSE view[c][d]]
                                ELSE view[c]]

Silent == UNCHANGED <<unsol, heard, view>>

Up(t)   == [locked |-> t.locked + 1, unlocked |-> t.unlocked, last |-> 1]
Down(t) == [locked |-> t.locked, unlocked |-> t.unlocked + 1, last |-> 0]

(* avdecc_listener_lock_changed *)
Changed(t, now) == now # t.last
Bumped(t, now) == IF ~ Changed(t, now) THEN t ELSE IF now = 1 THEN Up(t) ELSE Down(t)

Reported_LocksOnly(t, now) == now = 1 /\ now # t.last  \* fault: only LOCKED edges are pushed
Reported(t, now) == Changed(t, now)

(* notify_listener_connected and notify_listener_disconnected, which test the
   counters rather than the last state. *)
Connected(t) == IF t.locked = t.unlocked THEN Up(t) ELSE t
Disconnected_NoLast(t) ==  \* fault: stream_last_locked is left at 1
    IF t.unlocked < t.locked THEN [t EXCEPT !.unlocked = @ + 1] ELSE t
Disconnected(t) == IF t.unlocked < t.locked THEN Down(t) ELSE t

-----------------------------------------------------------------------------
(* The main loop's lock tracking: AAF on a change of its flow, CRF every pass. *)
Good(u) == engine[u] = "good"

LoopTargets ==
    [u \in Uids |-> IF u = "CRF" \/ Bit(Good("AAF")) # prevAaf THEN Bit(Good(u))
                    ELSE media[u].last]

TrackMediaLock ==
    /\ \A u \in Uids : media[u].locked < MaxLock \/ ~ Good(u)
    /\ media' = [u \in Uids |-> Bumped(media[u], LoopTargets[u])]
    /\ prevAaf' = Bit(Good("AAF"))
    /\ LET ds == {u \in Uids : Reported(media[u], LoopTargets[u])}
       IN  Push(Cardinality(ds), ds)
    /\ UNCHANGED <<source, clock, gptpLocked, engine, base>>

(* The counter half of the ACMP handlers.  Binding an engine clears aaf.rx_count or
   mcr.servo_locked, parking the input leaves them; unbinding clears aaf.bound or servo_locked. *)
NotifyConnected(u, bind) ==
    /\ media[u].locked < MaxLock
    /\ media' = [media EXCEPT ![u] = Connected(@)]
    /\ engine' = IF bind THEN [engine EXCEPT ![u] = "waiting"] ELSE engine
    /\ Push(2, {u})
    /\ UNCHANGED <<source, clock, prevAaf, gptpLocked, base>>

NotifyDisconnected(u) ==
    /\ media' = [media EXCEPT ![u] = Disconnected(@)]
    /\ engine' = [engine EXCEPT ![u] = "unbound"]
    /\ Push(2, {u})
    /\ UNCHANGED <<source, clock, prevAaf, gptpLocked, base>>

(* track_clock_lock, called by avdecc_poll *)
SourceLocked == Bit(IF source = 1 THEN Good("CRF") ELSE gptpLocked)

Adopted_Counted(k, now) ==  \* fault: the first sample is counted as well
    [k EXCEPT !.locked = @ + now, !.last = now]
Adopted(k, now) == [k EXCEPT !.last = now]

TrackClockLock ==
    /\ clock.locked < MaxLock
    /\ \/ /\ clock.last = Unknown
          /\ clock' = Adopted(clock, SourceLocked)
          /\ base' = SourceLocked
          /\ Silent
       \/ /\ clock.last \notin {Unknown, SourceLocked}
          /\ clock' = Bumped(clock, SourceLocked)
          /\ Push(1, {Domain})
          /\ UNCHANGED base
       \/ clock.last = SourceLocked /\ Silent /\ UNCHANGED <<clock, base>>
    /\ UNCHANGED <<source, media, prevAaf, gptpLocked, engine>>

(* AEM SET_CLOCK_SOURCE; the on_clock_source_change callback is never set. *)
SetClockSource(s) ==
    /\ source' = s
    /\ UNCHANGED <<clock, media, prevAaf, unsol, gptpLocked, engine, base, heard, view>>

-----------------------------------------------------------------------------
(* AEM REGISTER_UNSOLICITED_NOTIFICATION: the controller's own slot, else the
   first free one, whose sequence id starts at 0; a full table changes nothing. *)
Lowest(i, S) == i \in S /\ \A j \in S : i <= j
Free == {i \in Slots : ~ unsol[i].active}

OwnSlot_FirstFree(c) ==  \* fault: the search stops at the first free slot
    {i \in Active(c) : \A j \in Free : i < j}
OwnSlot(c) == Active(c)

StartSeq_Kept(i) == unsol[i].seq  \* fault: a reused slot goes on where it was
StartSeq(i) == 0

Occupy(i, c, seq) == unsol' = [unsol EXCEPT ![i] = [active |-> TRUE, ctrl |-> c, seq |-> seq]]

Register(c) ==
    /\ \/ \E i \in Slots : Lowest(i, OwnSlot(c)) /\ Occupy(i, c, unsol[i].seq)
       \/ \E i \in Slots : OwnSlot(c) = {} /\ Lowest(i, Free) /\ Occupy(i, c, StartSeq(i))
       \/ OwnSlot(c) = {} /\ Free = {} /\ UNCHANGED unsol
    /\ heard' = IF c \in Members THEN heard ELSE [heard EXCEPT ![c] = 0]
    /\ view' = IF Active(c)' = {} THEN view
               ELSE [view EXCEPT ![c] = [d \in Uids \cup {Domain} |-> Told(d)]]
    /\ UNCHANGED <<source, clock, media, prevAaf, gptpLocked, engine, base>>

Deregister(c) ==
    /\ \/ \E i \in Slots : Lowest(i, OwnSlot(c)) /\ unsol' = [unsol EXCEPT ![i].active = FALSE]
       \/ OwnSlot(c) = {} /\ UNCHANGED unsol
    /\ heard' = [heard EXCEPT ![c] = 0]
    /\ view' = [view EXCEPT ![c] = Untold]
    /\ UNCHANGED <<source, clock, media, prevAaf, gptpLocked, engine, base>>

(* What the main loop reads of the engines and the gPTP servo, and what changes it without
   a word to ACMP's counters: mcr_servo_update locks and unlocks, mcr_watchdog_tick unlocks,
   aaf_process_rx counts the first frame, on_talker_advertise binds a parked input and the
   console's force-clear unbinds both. *)
ServoGptp == gptpLocked' = ~ gptpLocked /\ UNCHANGED engine
Gain(u) == engine[u] = "waiting" /\ engine' = [engine EXCEPT ![u] = "good"]
ServoLost == Good("CRF") /\ engine' = [engine EXCEPT !["CRF"] = "waiting"]
Rebind(u) == engine' = [engine EXCEPT ![u] = "waiting"]
ForceClear == engine' = [u \in Uids |-> "unbound"]
Media ==
    /\ \/ ServoGptp
       \/ /\ ServoLost \/ ForceClear \/ \E u \in Uids : Gain(u) \/ Rebind(u)
          /\ UNCHANGED gptpLocked
    /\ UNCHANGED <<source, clock, media, prevAaf, unsol, base, heard, view>>

Next ==
    \/ TrackMediaLock \/ TrackClockLock \/ Media
    \/ \E u \in Uids : NotifyDisconnected(u) \/ \E bind \in BOOLEAN : NotifyConnected(u, bind)
    \/ \E s \in {0, 1} : SetClockSource(s)
    \/ \E c \in Ctrls : Register(c) \/ Deregister(c)

Spec == Init /\ [][Next]_vars

-----------------------------------------------------------------------------
(* Milan: |LOCKED - UNLOCKED| <= 1, whichever of the three sources bumps, and the
   counters agree with the last state reported (comment at avdecc.c:2298). *)
MediaBalanced == \A u \in Uids : media[u].locked = media[u].unlocked + media[u].last

(* The clock domain's counters count the edges since the baseline. *)
ClockBalanced ==
    clock.last = Unknown \/ clock.locked - clock.unlocked = clock.last - base

(* A controller holds at most one slot, so it gets no push twice. *)
RegisteredOnce ==
    \A i, j \in Slots :
        unsol[i].active /\ unsol[j].active /\ unsol[i].ctrl = unsol[j].ctrl => i = j

(* A registered controller sees contiguous sequence ids over its session, also
   across a renewed registration and a slot that another one used before. *)
PushesContiguous == \A i \in Slots : unsol[i].active => unsol[i].seq = heard[unsol[i].ctrl]

(* Slots, edge detectors and pushes implement a numbered subscription to the counts
   (push_unsol_counters, REGISTER_UNSOLICITED_NOTIFICATION). *)
Counts == [d \in Uids \cup {Domain} |-> Told(d)]
Subs == [c \in Members |-> [seq |-> unsol[CHOOSE i \in Active(c) : TRUE].seq, told |-> view[c]]]

P == INSTANCE Subscription
     WITH tally <- Counts, subs <- Subs, Descs <- Uids \cup {Domain}, CAPACITY <- SLOTS,
          MOST <- 2

ImplementsSubscription == P!Spec

(* A registered controller was pushed the counters as they are now: the
   indicators are right without a manual refresh. *)
ViewsCurrent == \A c \in Members, d \in Uids \cup {Domain} : view[c][d] = Told(d)
=============================================================================
