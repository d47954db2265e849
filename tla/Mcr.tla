-------------------------------- MODULE Mcr --------------------------------
(***************************************************************************)
(* Media clock recovery: the gateware extractor of crf_extractor.py queues *)
(* timestamp pairs of the bound CRF stream while the main loop feeds them, *)
(* and the CRF frames that reach the CPU, to the servo of firmware/mcr.c;  *)
(* two watchdogs, mcr_watchdog_tick and avdecc_crf_flow_watchdog, look at  *)
(* the count of CRF packets once per pass.  A pass is dispatch, pump,      *)
(* watchdogs (phase); frames and the clock interleave with all of them.    *)
(* The NCO's increment is only told apart from its base value.             *)
(***************************************************************************)
EXTENDS Integers, Sequences

CONSTANTS
    Offsets,       \* offsets (avtp_ts - local_ts) a pair may have
    ENTER, EXIT,   \* MCR_LOCK_ENTER_NS, MCR_LOCK_EXIT_NS
    EXIT_STREAK,   \* MCR_LOCK_EXIT_STREAK; MCR_LOCK_ENTER_STREAK is 1
    CLAMP,         \* MCR_INTEGRAL_CLAMP
    DEPTH,         \* fifo_depth of the extractor
    STALE,         \* MCR_STALE_THRESHOLD_MS
    STALL, RETRY,  \* CRF_WD_STALL_MS, CRF_WD_RETRY_MS
    MaxRx,         \* bound: CRF packets counted since a bind
    MaxLag         \* bound: ticks in one pass of the main loop

ASSUME McrAssumption ==
    /\ Offsets \subseteq Int /\ Offsets # {}
    /\ ENTER \in Nat \ {0} /\ EXIT \in Nat /\ ENTER <= EXIT + 1
    /\ EXIT_STREAK \in Nat \ {0}
    /\ CLAMP \in Nat
    /\ DEPTH \in Nat \ {0} /\ MaxRx \in Nat /\ MaxLag \in Nat \ {0}
    /\ STALE \in Nat \ {0} /\ STALL \in Nat \ {0} /\ RETRY \in Nat \ {0}

VARIABLES
    conn,    \* listeners[CRF].connected
    bound,   \* mcr.bound, and crf_ts.enabled with it
    fifo,    \* the extractor's pairs, by their offsets; mcr_bind does not empty it
    latest,  \* latest_offset_ns of a frame the CPU took, {} while servo_consumed
    servo,   \* have_prev, prev_offset_ns, servo_integral, servo_locked, lock_streak, the NCO
    rx,      \* rx_count
    wd,      \* last_rx_count_snapshot, age of last_rx_check_ms, watchdog_reset_active
    flow,    \* crf_wd_init, _rx_snapshot, _recovery, ages of _flow_ms and _last_retry_ms
    sent,    \* the ACMP command the flow watchdog sent at the end of this pass
    phase,   \* where the main loop is
    lag,     \* ticks since the watchdogs last ran
    quiet,   \* history: ticks since the servo was last fed
    old,     \* history: how many of the queued pairs are of an earlier binding, they lead
    trace,   \* history of the servo since its baseline: the first offset, deltas past EXIT
             \* in a row, whose the last sample was, the calm deltas seen
    blind    \* history: the mcr snapshot, or the flow one, was taken before the bind
             \* or before a step of the clock

loopVars  == <<phase, lag>>
servoVars == <<latest, servo, rx, quiet, trace>>
dogVars   == <<wd, flow, sent>>
vars == <<conn, bound, fifo, old, servoVars, dogVars, loopVars, blind>>

Servo == [havePrev : BOOLEAN, prev : Offsets \cup {0}, integral : Int,
          locked : BOOLEAN, streak : 0..(EXIT_STREAK - 1), nco : {"base", "tuned"}]
Flow  == [init : BOOLEAN, snap : Nat, age : 0..STALL, recovery : BOOLEAN, retry : 0..RETRY]
Trace == [origin : Offsets \cup {0}, bad : 0..EXIT_STREAK,
          last : {"none", "old", "own"},  \* of an earlier binding, of the one now
          calm : {"none", "mixed", "own"}]  \* of two samples of the binding now, or not
QUIET ==  \* nothing tells longer silences apart
    IF STALL > STALE + 2 * MaxLag THEN STALL ELSE STALE + 2 * MaxLag + 1

TypeOK ==
    /\ conn \in BOOLEAN /\ bound \in BOOLEAN
    /\ fifo \in Seq(Offsets) /\ Len(fifo) <= DEPTH
    /\ old \in 0..Len(fifo)
    /\ latest \subseteq Offsets
    /\ servo \in Servo
    /\ rx \in Nat
    /\ wd \in [snap : Nat, age : 0..(STALE + 1), reset : BOOLEAN]
    /\ flow \in Flow
    /\ sent \in {"none", "disconnect", "connect"}
    /\ phase \in {"dispatch", "pump", "servo", "watch"}
    /\ lag \in 0..MaxLag
    /\ quiet \in 0..QUIET
    /\ trace \in Trace
    /\ blind \in [mcr : BOOLEAN, flow : BOOLEAN]

(* Ages and histories saturate at the thresholds they are compared to. *)
Older(age, limit) == IF age < limit THEN age + 1 ELSE limit

Idle == [init |-> FALSE, snap |-> 0, age |-> 0, recovery |-> FALSE, retry |-> 0]
Fresh == [havePrev |-> FALSE, prev |-> 0, integral |-> 0, locked |-> FALSE,
          streak |-> 0, nco |-> "base"]
Blank == [origin |-> 0, bad |-> 0, last |-> "none", calm |-> "none"]

Init ==
    /\ conn = FALSE /\ bound = FALSE
    /\ fifo = <<>> /\ old = 0
    /\ latest = {}
    /\ servo = Fresh
    /\ rx = 0
    /\ wd = [snap |-> 0, age |-> 0, reset |-> TRUE]
    /\ flow = Idle
    /\ sent = "none"
    /\ phase = "dispatch" /\ lag = 0
    /\ quiet = QUIET
    /\ trace = Blank
    /\ blind = [mcr |-> FALSE, flow |-> FALSE]

-----------------------------------------------------------------------------
(* The servo, mcr_servo_update on one sample. *)
Abs(d) == IF d < 0 THEN -d ELSE d
Clamped(i) == IF i > CLAMP THEN CLAMP ELSE IF i < -CLAMP THEN -CLAMP ELSE i

Wild(d) == Abs(d) > EXIT
Calm(d) == Abs(d) < ENTER

(* One more sample past EXIT in a row; any other sample ends the row. *)
Streak(s, d) == IF Wild(d) THEN s.streak + 1 ELSE 0

Exits(n) == n >= EXIT_STREAK

Judged_Carried(s, d) ==  \* fault: a lock does not clear lock_streak
    IF ~ s.locked THEN [s EXCEPT !.locked = Calm(d), !.streak = IF Calm(d) THEN @ ELSE 0]
    ELSE IF Exits(Streak(s, d)) THEN [s EXCEPT !.locked = FALSE, !.streak = 0]
    ELSE [s EXCEPT !.streak = Streak(s, d)]
Judged(s, d) ==
    IF ~ s.locked THEN [s EXCEPT !.locked = Calm(d), !.streak = 0]
    ELSE IF Exits(Streak(s, d)) THEN [s EXCEPT !.locked = FALSE, !.streak = 0]
    ELSE [s EXCEPT !.streak = Streak(s, d)]

Tuned(s, off) ==
    Judged([s EXCEPT !.prev = off, !.integral = Clamped(@ + off - s.prev), !.nco = "tuned"],
           off - s.prev)

Baselined(s, off) == [s EXCEPT !.havePrev = TRUE, !.prev = off]

(* Whose a sample is, and the best calm delta so far. *)
Traced(off, whose) ==
    LET d == off - servo.prev
    IN  [trace EXCEPT !.bad = IF Abs(d) > EXIT THEN Older(@, EXIT_STREAK) ELSE 0,
                      !.last = whose,
                      !.calm = IF ~ Abs(d) < ENTER THEN @
                               ELSE IF whose = "own" /\ trace.last = "own" THEN "own"
                               ELSE IF "old" \in {whose, trace.last} /\ @ = "none" THEN "mixed"
                               ELSE @]

Feed(off, whose) ==
    /\ servo' = IF servo.havePrev THEN Tuned(servo, off) ELSE Baselined(servo, off)
    /\ trace' = IF servo.havePrev THEN Traced(off, whose)
                ELSE [Blank EXCEPT !.origin = off, !.last = whose]
    /\ quiet' = 0

-----------------------------------------------------------------------------
(* mcr_bind clears the servo and the count, and keeps lock_streak, the NCO and
   what the extractor has queued; mcr_unbind.
   prev_offset_ns is not read before it is set again: a dead value is 0. *)
Cleared_KeepPrev(s) == [s EXCEPT !.integral = 0, !.locked = FALSE]  \* fault: have_prev kept
Cleared_KeepDrift(s) ==  \* fault: servo_integral kept
    [Fresh EXCEPT !.streak = s.streak, !.nco = s.nco, !.integral = s.integral]
Cleared(s) == [Fresh EXCEPT !.streak = s.streak, !.nco = s.nco]

McrBind ==
    /\ bound' = TRUE
    /\ servo' = Cleared(servo)
    /\ latest' = {}
    /\ rx' = 0
    /\ old' = Len(fifo)
    /\ trace' = Blank
    /\ blind' = [mcr |-> TRUE, flow |-> TRUE]

Released(s) == [s EXCEPT !.locked = FALSE, !.streak = 0, !.nco = "base"]

McrUnbind ==
    /\ bound' = FALSE
    /\ servo' = Released(servo)
    /\ latest' = {}
    /\ old' = Len(fifo)
    /\ trace' = [Blank EXCEPT !.origin = trace.origin]
    /\ wd' = [wd EXCEPT !.reset = TRUE]

(* What dispatch_rx may find: ACMP connects the input (binding it at once, later or
   never), disconnects it, or a CRF frame made it through the receive slots. *)
Connect ==
    /\ phase = "dispatch"
    /\ conn' = TRUE
    /\ \/ McrBind
       \/ UNCHANGED <<bound, servo, latest, rx, old, trace, blind>>
    /\ UNCHANGED <<fifo, dogVars, loopVars, quiet>>

Disconnect ==
    /\ phase = "dispatch"
    /\ conn' = FALSE
    /\ McrUnbind
    /\ UNCHANGED <<fifo, rx, quiet, flow, sent, loopVars, blind>>

ProcessRx(off) ==
    /\ phase = "dispatch" /\ bound
    /\ rx + Len(fifo) < MaxRx
    /\ latest' = {off}
    /\ rx' = rx + 1
    /\ UNCHANGED <<conn, bound, fifo, old, servo, quiet, trace, dogVars, loopVars, blind>>

EndDispatch ==
    /\ phase = "dispatch"
    /\ phase' = "pump"
    /\ sent' = "none"
    /\ UNCHANGED <<conn, bound, fifo, old, servoVars, wd, flow, lag, blind>>

(* The extractor, at the end of any frame of the bound stream: a full FIFO drops it. *)
Capture(off) ==
    /\ bound /\ rx + Len(fifo) < MaxRx
    /\ Len(fifo) < DEPTH
    /\ fifo' = Append(fifo, off)
    /\ UNCHANGED <<conn, bound, old, servoVars, dogVars, loopVars, blind>>

(* mcr_pump_hw, one pair: it takes the place of a CPU sample not yet consumed. *)
PumpOne ==
    /\ phase = "pump" /\ bound /\ fifo # <<>>
    /\ Feed(Head(fifo), IF old > 0 THEN "old" ELSE "own")
    /\ fifo' = Tail(fifo)
    /\ old' = IF old > 0 THEN old - 1 ELSE 0
    /\ latest' = {}
    /\ rx' = rx + 1
    /\ UNCHANGED <<conn, bound, dogVars, loopVars, blind>>

EndPump ==
    /\ phase = "pump" /\ (bound => fifo = <<>>)
    /\ phase' = "servo"
    /\ UNCHANGED <<conn, bound, fifo, old, servoVars, dogVars, lag, blind>>

(* mcr_servo_update from the main loop, on the CPU sample if one is waiting. *)
ServoUpdate ==
    /\ phase = "servo"
    /\ phase' = "watch"
    /\ \/ /\ bound /\ latest # {}
          /\ \E off \in latest : Feed(off, "own")
          /\ latest' = {}
       \/ ~ (bound /\ latest # {}) /\ UNCHANGED <<servo, trace, quiet, latest>>
    /\ UNCHANGED <<conn, bound, fifo, old, rx, dogVars, lag, blind>>

-----------------------------------------------------------------------------
(* mcr_watchdog_tick: the NCO goes back to base when nothing was counted for
   longer than STALE. *)
Lost_Locked == [Fresh EXCEPT !.locked = servo.locked]  \* fault: the lock is left on
Lost == Fresh

Stale == wd.age > STALE

McrWatchdog ==
    \/ /\ ~ bound
       /\ servo' = IF wd.reset THEN servo ELSE [servo EXCEPT !.nco = "base"]
       /\ wd' = [wd EXCEPT !.reset = TRUE]
    \/ /\ bound /\ rx # wd.snap
       /\ wd' = [snap |-> rx, age |-> 0, reset |-> FALSE]
       /\ UNCHANGED servo
    \/ /\ bound /\ rx = wd.snap
       /\ servo' = IF Stale /\ ~ wd.reset THEN Lost ELSE servo
       /\ wd' = [wd EXCEPT !.reset = @ \/ Stale]

(* avdecc_crf_flow_watchdog: a stalled flow on a connected input is started again
   by DISCONNECT_TX and then by CONNECT_TX every RETRY. *)
Flowing == [flow EXCEPT !.init = TRUE, !.snap = rx, !.age = 0, !.recovery = FALSE, !.retry = 0]

Stalled_Early == flow.age >= STALL - 1  \* fault: off by one
Stalled == flow.age = STALL

Recovering_Forgotten == [flow EXCEPT !.retry = 0]  \* fault: crf_wd_recovery not set
Recovering == [flow EXCEPT !.recovery = TRUE, !.retry = 0]

Moved == conn /\ flow.init /\ rx # flow.snap
Still == conn /\ flow.init /\ rx = flow.snap

FlowWatchdog ==
    \/ /\ ~ conn
       /\ flow' = Idle
       /\ sent' = "none"
    \/ /\ Moved \/ (conn /\ ~ flow.init)
       /\ flow' = Flowing
       /\ sent' = "none"
    \/ /\ Still /\ Stalled /\ ~ flow.recovery
       /\ flow' = Recovering
       /\ sent' = "disconnect"
    \/ /\ Still /\ Stalled /\ flow.recovery /\ flow.retry = RETRY
       /\ flow' = [flow EXCEPT !.retry = 0]
       /\ sent' = "connect"
    \/ /\ Still /\ (Stalled => flow.recovery /\ flow.retry < RETRY)
       /\ UNCHANGED flow
       /\ sent' = "none"

(* The end of a pass of the main loop. *)
Watch ==
    /\ phase = "watch"
    /\ McrWatchdog
    /\ FlowWatchdog
    /\ phase' = "dispatch"
    /\ lag' = 0
    /\ blind' = [mcr  |-> blind.mcr /\ ~ (bound /\ rx # wd.snap),
                 flow |-> blind.flow /\ ~ (conn /\ (flow.init => rx # flow.snap))]
    /\ trace' = IF servo'.havePrev THEN trace ELSE Blank
    /\ UNCHANGED <<conn, bound, fifo, old, latest, rx, quiet>>

(* The millisecond clock. *)
Tick ==
    /\ lag < MaxLag
    /\ lag' = lag + 1
    /\ wd' = [wd EXCEPT !.age = Older(@, STALE + 1)]
    /\ flow' = [flow EXCEPT !.age = Older(@, STALL), 
                             !.retry = IF flow.recovery THEN Older(@, RETRY) ELSE 0]
    /\ quiet' = Older(quiet, QUIET)
    /\ UNCHANGED <<conn, bound, fifo, old, latest, servo, rx, trace, sent, phase, blind>>

(* gptp_uptime_ms reads the clock that gptp.c steps.  Forwards, every age grows by the
   jump; backwards, the unsigned differences are huge: mcr_watchdog_tick finds the
   stream stale at once, avdecc_crf_flow_watchdog's wrap guard starts afresh. *)
Jumped(age, d, max) == IF age + d > max THEN max ELSE age + d
StepForwards(d) ==
    /\ wd' = [wd EXCEPT !.age = Jumped(@, d, STALE + 1)]
    /\ flow' = [flow EXCEPT !.age = Jumped(@, d, STALL),
                            !.retry = IF flow.recovery THEN Jumped(@, d, RETRY) ELSE 0]
StepBackwards ==
    /\ wd' = [wd EXCEPT !.age = STALE + 1]
    /\ flow' = [flow EXCEPT !.age = 0, !.retry = IF flow.recovery THEN RETRY ELSE 0]
Step ==
    /\ phase = "dispatch"
    /\ StepBackwards \/ \E d \in 1..QUIET : StepForwards(d)
    /\ blind' = [mcr |-> TRUE, flow |-> TRUE]
    /\ UNCHANGED <<conn, bound, fifo, old, servoVars, sent, loopVars>>

Next ==
    \/ Connect \/ Disconnect \/ EndDispatch
    \/ \E off \in Offsets : ProcessRx(off) \/ Capture(off)
    \/ PumpOne \/ EndPump \/ ServoUpdate \/ Watch
    \/ Tick \/ Step

Spec == Init /\ [][Next]_vars

(* The main loop goes round and the clock runs. *)
FairSpec == Spec /\ WF_vars(EndDispatch) /\ WF_vars(PumpOne) /\ WF_vars(EndPump)
                 /\ WF_vars(ServoUpdate) /\ WF_vars(Watch) /\ WF_vars(Tick)

-----------------------------------------------------------------------------
(* A lock is never inherited from an earlier binding: since its baseline the servo was
   fed a calm delta and never EXIT_STREAK wild ones in a row, although mcr_bind leaves
   lock_streak as it was.  The calm delta is between two samples of the stream bound
   now, unless a pair that was in the extractor's FIFO at the bind, which mcr_bind does
   not empty, has a part in it: such a pair may be the baseline, and two of them are
   enough to lock (mcr_servo_update, mcr_bind, mcr_unbind, mcr_pump_hw). *)
LockIsEarned ==
    servo.locked => /\ bound /\ servo.havePrev
                    /\ trace.calm # "none"
                    /\ trace.bad < EXIT_STREAK

(* Jitter does not unlock: a sample ends a lock only as the last of EXIT_STREAK wild
   ones in a row (comment at mcr.c: "4 consecutive bad samples"). *)
SpikesTolerated ==
    [][servo.locked /\ ~ servo'.locked /\ bound' /\ servo'.havePrev
         => trace'.bad >= EXIT_STREAK]_vars

(* The integral is the phase drift since the servo's baseline, whichever of bind,
   unbind and staleness came in between (comment at mcr_servo_update); without
   saturation, that is.  The baseline is the first sample fed since, which may be a
   pair queued before the bind. *)
DriftSinceBaseline ==
    (\A o, p \in Offsets : o - p <= CLAMP) /\ bound /\ servo.havePrev
      => servo.integral = servo.prev - trace.origin

(* A lock does not outlive its stream: within STALE and the lateness of the polls
   it is gone.  Blind: the count happens to equal that of an earlier binding. *)
LockIsAlive == servo.locked /\ ~ blind.mcr => quiet <= STALE + MaxLag + lag

(* mcr.h: watchdog_reset_active is 1 while the increment is held at base; an input
   that is not bound leaves no tuning behind. *)
NcoAtBase ==
    /\ ~ bound => servo.nco = "base"
    /\ phase = "dispatch" /\ wd.reset /\ ~ blind.mcr => servo.nco = "base" /\ ~ servo.locked

(* A talker is only disturbed when its stream is connected and has been silent
   for STALL (avdecc_crf_flow_watchdog). *)
RestartIsJustified ==
    [][sent' # "none" /\ phase = "watch" /\ phase' = "dispatch"
         => conn /\ (quiet >= STALL \/ blind.flow)]_vars

(* While a connected input gets nothing, CONNECT_TX is sent again and again: no
   state of the watchdog gives up. *)
RetriesContinue ==
    <>[](conn /\ quiet = QUIET) /\ <>[][~ Step]_vars => []<>(sent = "connect")

(* avdecc.c: "no CRF for 3 s while connected = stalled", so no talker is stopped
   while its stream still arrives. *)
StalledIsSilent == [][sent = "none" /\ sent' = "disconnect" => quiet >= STALL]_vars
=============================================================================
