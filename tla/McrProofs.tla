----------------------------- MODULE McrProofs -----------------------------
(* Theorems about Mcr: its type, what a lock is worth, and what the servo
   remembers, for any offsets, thresholds, streak, FIFO depth and periods. *)
EXTENDS Mcr, TLAPS

(* While the servo is locked its exit streak is the row of wild samples seen, and a calm
   delta made the lock; of the last sample it is known whose it was. *)
StreakCounts ==
    /\ servo.locked => /\ bound /\ servo.havePrev /\ trace.calm # "none"
                       /\ trace.bad = servo.streak
    /\ bound /\ servo.havePrev => trace.last # "none"

(* Without saturation the integral is the distance from the baseline; without a
   baseline it is 0. *)
Memory ==
    /\ ~ servo.havePrev => servo.integral = 0
    /\ servo.havePrev => trace.origin \in Offsets
    /\ (\A o, p \in Offsets : o - p <= CLAMP) /\ servo.havePrev
         => servo.integral = servo.prev - trace.origin

(* TypeOK's conjuncts on the servo and its history. *)
ServoType ==
    /\ bound \in BOOLEAN /\ latest \subseteq Offsets /\ servo \in Servo
    /\ rx \in Nat /\ quiet \in 0..QUIET /\ trace \in Trace

IInv == TypeOK /\ StreakCounts /\ Memory

-----------------------------------------------------------------------------
(* The lock hysteresis of mcr_servo_update keeps the servo's type: an exit streak
   that would reach EXIT_STREAK unlocks and starts again. *)
LEMMA JudgedTyped ==
    ASSUME NEW s \in Servo, NEW d \in Int
    PROVE  Judged(s, d) \in Servo
<1>1. Calm(d) \in BOOLEAN
  BY DEF Calm
<1>5. 0 \in 0..(EXIT_STREAK - 1)
  BY McrAssumption DEF McrAssumption
<1>2. CASE ~ s.locked
  BY <1>1, <1>2, <1>5 DEF Judged, Servo
<1>3. CASE s.locked /\ Exits(Streak(s, d))
  BY <1>3, <1>5 DEF Judged, Servo
<1>4. CASE s.locked /\ ~ Exits(Streak(s, d))
  <2>1. Streak(s, d) \in 0..(EXIT_STREAK - 1)
    BY <1>4, McrAssumption DEF McrAssumption, Exits, Streak, Servo
  <2>. QED BY <1>4, <2>1 DEF Judged, Servo
<1>. QED BY <1>2, <1>3, <1>4

(* The hysteresis moves nothing but the lock and its streak. *)
LEMMA JudgedKeeps ==
    ASSUME NEW s \in Servo, NEW d \in Int
    PROVE  /\ Judged(s, d).havePrev = s.havePrev
           /\ Judged(s, d).prev = s.prev
           /\ Judged(s, d).integral = s.integral
BY DEF Judged, Servo

(* What mcr_servo_update remembers of a sample: the sample, and its distance from
   the one before, added to the clamped integral. *)
LEMMA TunedTyped ==
    ASSUME NEW s \in Servo, NEW off \in Offsets
    PROVE  /\ Tuned(s, off) \in Servo
           /\ Tuned(s, off).havePrev = s.havePrev
           /\ Tuned(s, off).prev = off
           /\ Tuned(s, off).integral = Clamped(s.integral + off - s.prev)
<1> DEFINE t == [s EXCEPT !.prev = off, !.integral = Clamped(@ + off - s.prev),
                          !.nco = "tuned"]
<1>1. off - s.prev \in Int /\ s.integral + off - s.prev \in Int
  <2>1. s.prev \in Offsets \cup {0}
    BY DEF Servo
  <2>2. off \in Int /\ s.prev \in Int
    <3>1. \A o \in Offsets \cup {0} : o \in Int
      BY McrAssumption DEF McrAssumption
    <3>2. off \in Offsets \cup {0}
      OBVIOUS
    <3>. QED BY <2>1, <3>1, <3>2, Zenon
  <2>. QED BY <2>2 DEF Servo
<1>2. Clamped(s.integral + off - s.prev) \in Int
  BY <1>1, McrAssumption DEF McrAssumption, Clamped
<1>3. /\ t \in Servo /\ t.havePrev = s.havePrev /\ t.prev = off
      /\ t.integral = Clamped(s.integral + off - s.prev)
  BY <1>2 DEF Servo
<1>4. Tuned(s, off) = Judged(t, off - s.prev)
  BY DEF Tuned
<1>. HIDE DEF t
<1>. QED BY <1>1, <1>3, <1>4, JudgedTyped, JudgedKeeps

(* The exit streak is the row of wild samples, and a lock ends only when that row
   is EXIT_STREAK long; ENTER <= EXIT + 1 makes a calm sample end a row. *)
LEMMA JudgedCounts ==
    ASSUME NEW s \in Servo, NEW d \in Int, NEW bad \in 0..EXIT_STREAK,
           s.locked => bad = s.streak,
           NEW row, row = IF Abs(d) > EXIT THEN Older(bad, EXIT_STREAK) ELSE 0
    PROVE  /\ Judged(s, d).locked =>
                 row = Judged(s, d).streak /\ (s.locked \/ Abs(d) < ENTER)
           /\ s.locked /\ ~ Judged(s, d).locked => row >= EXIT_STREAK
<1>1. s.streak \in 0..(EXIT_STREAK - 1) /\ Abs(d) \in Nat
  BY DEF Servo, Abs
<1>2. CASE ~ s.locked
  <2>1. Judged(s, d).locked = Calm(d) /\ Judged(s, d).streak = 0
    BY <1>2 DEF Judged, Servo
  <2>2. Calm(d) => row = 0 /\ Abs(d) < ENTER
    BY <1>1, McrAssumption DEF McrAssumption, Calm
  <2>. QED BY <1>2, <2>1, <2>2
<1>3. CASE s.locked /\ Exits(Streak(s, d))
  <2>1. Abs(d) > EXIT /\ s.streak + 1 >= EXIT_STREAK
    BY <1>1, <1>3, McrAssumption DEF McrAssumption, Exits, Streak, Wild
  <2>2. row = EXIT_STREAK
    BY <1>1, <1>3, <2>1, McrAssumption DEF McrAssumption, Older
  <2>3. ~ Judged(s, d).locked
    BY <1>3 DEF Judged, Servo
  <2>. QED BY <2>2, <2>3, McrAssumption DEF McrAssumption
<1>4. CASE s.locked /\ ~ Exits(Streak(s, d))
  <2>1. row = Streak(s, d)
    BY <1>1, <1>4, McrAssumption DEF McrAssumption, Exits, Streak, Wild, Older
  <2>2. Judged(s, d).locked /\ Judged(s, d).streak = Streak(s, d)
    BY <1>4 DEF Judged, Servo
  <2>. QED BY <1>4, <2>1, <2>2
<1>. QED BY <1>2, <1>3, <1>4

-----------------------------------------------------------------------------
(* The history of a servo without a baseline is of its type. *)
LEMMA BlankTyped == Blank \in Trace
<1>1. 0 \in 0..EXIT_STREAK
  BY McrAssumption DEF McrAssumption
<1>. QED BY <1>1 DEF Blank, Trace

(* One sample: the first is the baseline, every other moves the integral and the
   lock (mcr_servo_update). *)
LEMMA FeedKeeps ==
    ASSUME ServoType, StreakCounts, Memory, bound, bound' = bound,
           NEW off \in Offsets, NEW whose \in {"old", "own"}, Feed(off, whose)
    PROVE  /\ servo' \in Servo /\ trace' \in Trace /\ quiet' = 0
           /\ StreakCounts' /\ Memory'
           /\ servo.locked /\ ~ servo'.locked => trace'.bad >= EXIT_STREAK
<1>. DEFINE d == off - servo.prev
            row == IF Abs(d) > EXIT THEN Older(trace.bad, EXIT_STREAK) ELSE 0
<1>0. quiet' = 0
  BY DEF Feed
<1>1. CASE ~ servo.havePrev
  <2>1. servo' = Baselined(servo, off) /\ trace' = [Blank EXCEPT !.origin = off, !.last = whose]
    BY <1>1 DEF Feed
  <2>2. servo' \in Servo /\ servo'.havePrev /\ servo'.prev = off
        /\ servo'.integral = servo.integral /\ servo'.locked = servo.locked
    BY <2>1 DEF Baselined, Servo, ServoType
  <2>3. trace' \in Trace /\ trace'.origin = off /\ trace'.last # "none"
    BY <2>1, BlankTyped DEF Trace
  <2>4. ~ servo.locked
    BY <1>1 DEF StreakCounts
  <2>5. off - off = 0
    <3>1. off \in Int
      BY McrAssumption DEF McrAssumption
    <3>. QED BY <3>1
  <2>6. servo.integral = 0
    BY <1>1 DEF Memory
  <2>. QED BY <1>0, <2>2, <2>3, <2>4, <2>5, <2>6 DEF StreakCounts, Memory
<1>2. CASE servo.havePrev
  <2>1. d \in Int /\ servo.prev \in Int /\ off \in Int /\ servo.integral \in Int
    <3>1. \A o \in Offsets \cup {0} : o \in Int
      BY McrAssumption DEF McrAssumption
    <3>2. off \in Offsets \cup {0} /\ servo.prev \in Offsets \cup {0}
      BY DEF ServoType, Servo
    <3>3. off \in Int /\ servo.prev \in Int
      BY <3>1, <3>2, Zenon
    <3>. QED BY <3>3 DEF ServoType, Servo
  <2>2. servo' = Tuned(servo, off)
    BY <1>2 DEF Feed
  <2>3. trace' = Traced(off, whose)
    BY <1>2 DEF Feed
  <2>4. /\ servo' \in Servo /\ servo'.havePrev /\ servo'.prev = off
        /\ servo'.integral = Clamped(servo.integral + off - servo.prev)
    BY <1>2, <2>2, TunedTyped DEF ServoType
  <2>5. row \in 0..EXIT_STREAK
    BY McrAssumption DEF McrAssumption, ServoType, Trace, Older
  <2>6. /\ trace' \in Trace /\ trace'.bad = row /\ trace'.origin = trace.origin
        /\ trace'.last = whose /\ (trace.calm # "none" \/ Abs(d) < ENTER => trace'.calm # "none")
    <3>. DEFINE best == IF ~ Abs(d) < ENTER THEN trace.calm
                        ELSE IF whose = "own" /\ trace.last = "own" THEN "own"
                        ELSE IF "old" \in {whose, trace.last} /\ trace.calm = "none" THEN "mixed"
                        ELSE trace.calm
    <3>1. trace' = [trace EXCEPT !.bad = row, !.last = whose, !.calm = best]
      BY <2>3 DEF Traced
    <3>2. best \in {"none", "mixed", "own"}
      BY DEF ServoType, Trace
    <3>3. trace.last \in {"old", "own"}
      BY <1>2 DEF StreakCounts, ServoType, Trace
    <3>4. trace.calm # "none" \/ Abs(d) < ENTER => best # "none"
      BY <3>3
    <3>. HIDE DEF row, d, best
    <3>. QED BY <2>5, <3>1, <3>2, <3>4 DEF ServoType, Trace
  <2>7. /\ servo'.locked => row = servo'.streak /\ (servo.locked \/ Abs(d) < ENTER)
        /\ servo.locked /\ ~ servo'.locked => row >= EXIT_STREAK
    <3>. DEFINE t == [servo EXCEPT !.prev = off, !.integral = Clamped(@ + off - servo.prev),
                                   !.nco = "tuned"]
    <3>1. servo' = Judged(t, d)
      BY <2>2 DEF Tuned
    <3>2. Clamped(servo.integral + off - servo.prev) \in Int
      BY <2>1, McrAssumption DEF McrAssumption, Clamped
    <3>3. t \in Servo /\ t.locked = servo.locked /\ t.streak = servo.streak
      BY <3>2 DEF ServoType, Servo
    <3>4. trace.bad \in 0..EXIT_STREAK /\ (t.locked => trace.bad = t.streak)
      BY <3>3 DEF ServoType, Trace, StreakCounts
    <3>. HIDE DEF t
    <3>. QED BY <2>1, <3>1, <3>3, <3>4, JudgedCounts
  <2>8. StreakCounts'
    BY <1>2, <2>4, <2>6, <2>7 DEF StreakCounts
  <2>9. Memory'
    <3>1. trace.origin \in Offsets /\ trace.origin \in Int
      BY <1>2, McrAssumption DEF McrAssumption, Memory
    <3>2. ASSUME \A o, p \in Offsets : o - p <= CLAMP
          PROVE  servo'.integral = servo'.prev - trace'.origin
      <4>1. servo.integral + off - servo.prev = off - trace.origin
        BY <1>2, <2>1, <3>1, <3>2 DEF Memory
      <4>2. off - trace.origin <= CLAMP /\ trace.origin - off <= CLAMP
        BY <3>1, <3>2
      <4>3. Clamped(off - trace.origin) = off - trace.origin
        BY <2>1, <3>1, <4>2, McrAssumption DEF McrAssumption, Clamped
      <4>. QED BY <2>4, <2>6, <4>1, <4>3
    <3>. QED BY <2>4, <2>6, <3>1, <3>2 DEF Memory
  <2>. QED BY <1>0, <2>4, <2>6, <2>7, <2>8, <2>9
<1>. QED BY <1>1, <1>2 DEF ServoType, Servo

-----------------------------------------------------------------------------
(* The servo of mcr_init, which a stale stream leaves too, and what mcr_bind keeps. *)
LEMMA FreshTyped ==
    /\ Fresh \in Servo
    /\ \A s \in Servo : /\ Cleared(s) \in Servo /\ ~ Cleared(s).havePrev
                        /\ ~ Cleared(s).locked /\ Cleared(s).integral = 0
<1>1. 0 \in Offsets \cup {0} /\ 0 \in 0..(EXIT_STREAK - 1)
  BY McrAssumption DEF McrAssumption
<1>2. Fresh \in Servo
  BY <1>1 DEF Fresh, Servo
<1>3. ASSUME NEW s \in Servo
      PROVE  /\ Cleared(s) \in Servo /\ ~ Cleared(s).havePrev
             /\ ~ Cleared(s).locked /\ Cleared(s).integral = 0
  <2>1. ~ Fresh.havePrev /\ ~ Fresh.locked /\ Fresh.integral = 0
    BY DEF Fresh
  <2>. QED BY <1>2, <2>1 DEF Cleared, Servo
<1>. QED BY <1>2, <1>3

(* mcr_init. *)
LEMMA InitHolds == Init => IInv
<1>. SUFFICES ASSUME Init PROVE IInv
  OBVIOUS
<1>. USE DEF Init
<1>1. servo \in Servo
  BY FreshTyped
<1>2. fifo \in Seq(Offsets) /\ Len(fifo) <= DEPTH /\ old \in 0..Len(fifo)
  BY McrAssumption DEF McrAssumption
<1>3. wd \in [snap : Nat, age : 0..(STALE + 1), reset : BOOLEAN]
  BY McrAssumption DEF McrAssumption
<1>4. flow \in Flow
  BY McrAssumption DEF McrAssumption, Flow, Idle
<1>5. lag \in 0..MaxLag /\ quiet \in 0..QUIET
  BY McrAssumption DEF McrAssumption, QUIET
<1>6. TypeOK
  BY <1>1, <1>2, <1>3, <1>4, <1>5, BlankTyped DEF TypeOK
<1>. QED BY <1>6 DEF IInv, StreakCounts, Memory, Fresh

(* mcr_bind forgets the baseline, the integral and the lock. *)
LEMMA BindKeeps ==
    ASSUME IInv, McrBind
    PROVE  /\ servo' \in Servo /\ ~ servo'.havePrev /\ ~ servo'.locked
           /\ servo'.integral = 0 /\ trace' \in Trace /\ StreakCounts' /\ Memory'
           /\ old' \in 0..Len(fifo)
<1>1. servo' \in Servo /\ ~ servo'.havePrev /\ ~ servo'.locked /\ servo'.integral = 0
  BY FreshTyped DEF McrBind, IInv, TypeOK
<1>2. trace' \in Trace
  BY BlankTyped DEF McrBind
<1>3. old' \in 0..Len(fifo)
  <2>1. Len(fifo) \in Nat
    BY DEF IInv, TypeOK
  <2>. QED BY <2>1 DEF McrBind
<1>. QED BY <1>1, <1>2, <1>3 DEF StreakCounts, Memory

(* on_listener_connect, with and without a bind. *)
LEMMA ConnectKeeps == ASSUME IInv, Connect PROVE IInv'
<1>1. CASE McrBind
  <2>1. TypeOK'
    BY <1>1, BindKeeps DEF Connect, McrBind, IInv, TypeOK, dogVars, loopVars
  <2>. QED BY <1>1, <2>1, BindKeeps DEF IInv
<1>2. CASE UNCHANGED <<bound, servo, latest, rx, old, trace, blind>>
  BY <1>2 DEF Connect, IInv, TypeOK, StreakCounts, Memory, dogVars, loopVars
<1>. QED BY <1>1, <1>2 DEF Connect

(* mcr_unbind drops the lock and keeps the rest. *)
LEMMA DisconnectKeeps == ASSUME IInv, Disconnect PROVE IInv'
<1>1. /\ servo' \in Servo /\ servo'.havePrev = servo.havePrev /\ ~ servo'.locked
      /\ servo'.integral = servo.integral /\ servo'.prev = servo.prev
  <2>1. 0 \in 0..(EXIT_STREAK - 1)
    BY McrAssumption DEF McrAssumption
  <2>. QED BY <2>1 DEF Disconnect, McrUnbind, Released, IInv, TypeOK, Servo
<1>2. wd' \in [snap : Nat, age : 0..(STALE + 1), reset : BOOLEAN]
  BY DEF Disconnect, McrUnbind, IInv, TypeOK
<1>4. old' \in 0..Len(fifo)
  <2>1. Len(fifo) \in Nat
    BY DEF IInv, TypeOK
  <2>. QED BY <2>1 DEF Disconnect, McrUnbind
<1>5. trace' \in Trace /\ trace'.origin = trace.origin
  BY BlankTyped DEF Disconnect, McrUnbind, IInv, TypeOK, Trace
<1>3. TypeOK'
  BY <1>1, <1>2, <1>4, <1>5 DEF Disconnect, McrUnbind, IInv, TypeOK, loopVars
<1>6. ~ bound'
  BY DEF Disconnect, McrUnbind
<1>. QED BY <1>1, <1>3, <1>5, <1>6 DEF IInv, StreakCounts, Memory

(* Steps that leave the servo, its history and the binding alone. *)
LEMMA ServoRests ==
    ASSUME IInv, TypeOK', UNCHANGED <<bound, servo, trace>>
    PROVE  IInv'
BY DEF IInv, StreakCounts, Memory

(* A frame counted, a pair queued within the FIFO's depth. *)
LEMMA FrameKeeps ==
    ASSUME IInv, NEW off \in Offsets, ProcessRx(off) \/ Capture(off)
    PROVE  IInv'
<1>1. CASE ProcessRx(off)
  <2>1. TypeOK'
    BY <1>1 DEF ProcessRx, IInv, TypeOK, dogVars, loopVars
  <2>. QED BY <1>1, <2>1, ServoRests DEF ProcessRx
<1>2. CASE Capture(off)
  <2>1. fifo' \in Seq(Offsets) /\ Len(fifo') <= DEPTH /\ old' \in 0..Len(fifo')
    BY <1>2, McrAssumption DEF McrAssumption, Capture, IInv, TypeOK
  <2>2. TypeOK'
    BY <1>2, <2>1 DEF Capture, IInv, TypeOK, servoVars, dogVars, loopVars
  <2>. QED BY <1>2, <2>2, ServoRests DEF Capture, servoVars
<1>. QED BY <1>1, <1>2

(* The main loop going on. *)
LEMMA PhaseKeeps == ASSUME IInv, EndDispatch \/ EndPump PROVE IInv'
<1>1. TypeOK'
  BY DEF EndDispatch, EndPump, IInv, TypeOK, servoVars, dogVars
<1>. QED BY <1>1, ServoRests DEF EndDispatch, EndPump, servoVars

(* One pair of the FIFO, and the CPU sample: each is one sample to the servo. *)
LEMMA PumpKeeps ==
    ASSUME IInv, PumpOne
    PROVE  IInv' /\ (servo.locked /\ ~ servo'.locked => trace'.bad >= EXIT_STREAK)
<1>1. Head(fifo) \in Offsets /\ fifo' \in Seq(Offsets) /\ Len(fifo') <= DEPTH /\ old' \in 0..Len(fifo')
  BY McrAssumption DEF McrAssumption, PumpOne, IInv, TypeOK
<1>. DEFINE whose == IF old > 0 THEN "old" ELSE "own"
<1>2. ServoType /\ bound /\ bound' = bound /\ Feed(Head(fifo), whose) /\ whose \in {"old", "own"}
  BY DEF PumpOne, IInv, TypeOK, ServoType
<1>. HIDE DEF whose
<1>3. /\ servo' \in Servo /\ trace' \in Trace /\ quiet' = 0
      /\ StreakCounts' /\ Memory'
      /\ servo.locked /\ ~ servo'.locked => trace'.bad >= EXIT_STREAK
  BY <1>1, <1>2, FeedKeeps DEF IInv
<1>4. quiet' \in 0..QUIET
  BY <1>3, McrAssumption DEF McrAssumption, QUIET
<1>5. TypeOK'
  BY <1>1, <1>3, <1>4 DEF PumpOne, IInv, TypeOK, dogVars, loopVars
<1>. QED BY <1>3, <1>5 DEF IInv

(* mcr_servo_update from the main loop. *)
LEMMA ServoUpdateKeeps ==
    ASSUME IInv, ServoUpdate
    PROVE  IInv' /\ (servo.locked /\ ~ servo'.locked => trace'.bad >= EXIT_STREAK)
<1>1. CASE bound /\ latest # {}
  <2>1. PICK off \in latest : Feed(off, "own")
    BY <1>1 DEF ServoUpdate
  <2>2. off \in Offsets /\ ServoType /\ bound' = bound /\ latest' = {}
    BY <1>1 DEF ServoUpdate, IInv, TypeOK, ServoType
  <2>3. /\ servo' \in Servo /\ trace' \in Trace /\ quiet' = 0
        /\ StreakCounts' /\ Memory'
        /\ servo.locked /\ ~ servo'.locked => trace'.bad >= EXIT_STREAK
    BY <1>1, <2>1, <2>2, FeedKeeps DEF IInv
  <2>4. quiet' \in 0..QUIET
    BY <2>3, McrAssumption DEF McrAssumption, QUIET
  <2>5. TypeOK'
    BY <2>2, <2>3, <2>4 DEF ServoUpdate, IInv, TypeOK, dogVars
  <2>. QED BY <2>3, <2>5 DEF IInv
<1>2. CASE ~ (bound /\ latest # {})
  <2>1. UNCHANGED <<bound, servo, trace, quiet, latest>>
    BY <1>2 DEF ServoUpdate
  <2>2. TypeOK'
    BY <2>1 DEF ServoUpdate, IInv, TypeOK, dogVars
  <2>. QED BY <2>1, <2>2, ServoRests
<1>. QED BY <1>1, <1>2

(* mcr_watchdog_tick either keeps what the servo remembers or forgets all of it. *)
LEMMA WatchdogKeeps ==
    ASSUME IInv, McrWatchdog
    PROVE  /\ servo' \in Servo
           /\ wd' \in [snap : Nat, age : 0..(STALE + 1), reset : BOOLEAN]
           /\ \/ /\ servo'.havePrev = servo.havePrev /\ servo'.locked = servo.locked
                 /\ servo'.integral = servo.integral /\ servo'.prev = servo.prev
                 /\ servo'.streak = servo.streak
              \/ ~ servo'.havePrev /\ ~ servo'.locked /\ servo'.integral = 0
<1>. USE DEF IInv, TypeOK
<1>1. CASE ~ bound
  <2>1. /\ [servo EXCEPT !.nco = "base"] \in Servo
        /\ [servo EXCEPT !.nco = "base"].havePrev = servo.havePrev
        /\ [servo EXCEPT !.nco = "base"].locked = servo.locked
        /\ [servo EXCEPT !.nco = "base"].integral = servo.integral
        /\ [servo EXCEPT !.nco = "base"].prev = servo.prev
        /\ [servo EXCEPT !.nco = "base"].streak = servo.streak
    BY DEF Servo
  <2>2. servo' = servo \/ servo' = [servo EXCEPT !.nco = "base"]
    BY <1>1 DEF McrWatchdog
  <2>3. wd' = [wd EXCEPT !.reset = TRUE]
    BY <1>1 DEF McrWatchdog
  <2>. QED BY <2>1, <2>2, <2>3
<1>2. CASE bound /\ rx # wd.snap
  <2>1. wd' = [snap |-> rx, age |-> 0, reset |-> FALSE] /\ servo' = servo
    BY <1>2 DEF McrWatchdog
  <2>2. 0 \in 0..(STALE + 1)
    BY McrAssumption DEF McrAssumption
  <2>. QED BY <2>1, <2>2
<1>3. CASE bound /\ rx = wd.snap
  <2>1. servo' = servo \/ servo' = Fresh
    BY <1>3 DEF McrWatchdog, Lost
  <2>2. wd' = [wd EXCEPT !.reset = @ \/ Stale]
    BY <1>3 DEF McrWatchdog
  <2>3. (wd.reset \/ Stale) \in BOOLEAN
    OBVIOUS
  <2>4. wd' \in [snap : Nat, age : 0..(STALE + 1), reset : BOOLEAN]
    BY <2>2, <2>3
  <2>5. CASE servo' = servo
    BY <2>4, <2>5
  <2>6. CASE servo' = Fresh
    <3>1. ~ Fresh.havePrev /\ ~ Fresh.locked /\ Fresh.integral = 0
      BY DEF Fresh
    <3>. QED BY <2>4, <2>6, <3>1, FreshTyped
  <2>. QED BY <2>1, <2>5, <2>6
<1>. QED BY <1>1, <1>2, <1>3

(* avdecc_crf_flow_watchdog keeps its own fields. *)
LEMMA FlowTyped ==
    ASSUME IInv, FlowWatchdog
    PROVE  flow' \in Flow /\ sent' \in {"none", "disconnect", "connect"}
<1>1. 0 \in 0..STALL /\ 0 \in 0..RETRY /\ 0 \in Nat
  BY McrAssumption DEF McrAssumption
<1>2. flow \in Flow /\ rx \in Nat
  BY DEF IInv, TypeOK
<1>3. Idle \in Flow /\ Flowing \in Flow /\ Recovering \in Flow /\ [flow EXCEPT !.retry = 0] \in Flow
  BY <1>1, <1>2 DEF Idle, Flowing, Recovering, Flow
<1>. QED BY <1>2, <1>3 DEF FlowWatchdog

(* The end of a pass: both watchdogs. *)
LEMMA WatchKeeps == ASSUME IInv, Watch PROVE IInv'
<1>1. /\ servo' \in Servo
      /\ wd' \in [snap : Nat, age : 0..(STALE + 1), reset : BOOLEAN]
      /\ \/ /\ servo'.havePrev = servo.havePrev /\ servo'.locked = servo.locked
            /\ servo'.integral = servo.integral /\ servo'.prev = servo.prev
            /\ servo'.streak = servo.streak
         \/ ~ servo'.havePrev /\ ~ servo'.locked /\ servo'.integral = 0
  BY WatchdogKeeps DEF Watch
<1>2. flow' \in Flow /\ sent' \in {"none", "disconnect", "connect"}
  BY FlowTyped DEF Watch
<1>3. trace' = IF servo'.havePrev THEN trace ELSE Blank
  BY DEF Watch
<1>4. trace' \in Trace
  BY <1>3, BlankTyped DEF IInv, TypeOK
<1>5. blind' \in [mcr : BOOLEAN, flow : BOOLEAN]
  BY DEF Watch
<1>6. lag' \in 0..MaxLag
  BY McrAssumption DEF McrAssumption, Watch
<1>7. TypeOK'
  BY <1>1, <1>2, <1>4, <1>5, <1>6 DEF Watch, IInv, TypeOK
<1>8. bound' = bound
  BY DEF Watch
<1>9. StreakCounts'
  BY <1>1, <1>3, <1>8 DEF IInv, StreakCounts
<1>10. Memory'
  BY <1>1, <1>3 DEF IInv, Memory
<1>. QED BY <1>7, <1>9, <1>10 DEF IInv

(* Ages never pass the threshold they are compared to. *)
LEMMA OlderTyped ==
    ASSUME NEW limit \in Nat, NEW age \in 0..limit
    PROVE  Older(age, limit) \in 0..limit
BY DEF Older

LEMMA JumpedTyped ==
    ASSUME NEW max \in Nat, NEW age \in 0..max, NEW d \in Nat
    PROVE  Jumped(age, d, max) \in 0..max
BY DEF Jumped

(* Time passing, and time stepped by gPTP. *)
LEMMA ClockKeeps == ASSUME IInv, Tick \/ Step PROVE IInv'
<1>. USE DEF IInv, TypeOK
<1>1. CASE Tick
  <2>1. wd.age \in 0..(STALE + 1) /\ flow.age \in 0..STALL /\ flow.retry \in 0..RETRY
    BY DEF Flow
  <2>2. STALE + 1 \in Nat /\ STALL \in Nat /\ RETRY \in Nat /\ QUIET \in Nat
    BY McrAssumption DEF McrAssumption, QUIET
  <2>3. /\ Older(wd.age, STALE + 1) \in 0..(STALE + 1)
        /\ Older(flow.age, STALL) \in 0..STALL
        /\ (IF flow.recovery THEN Older(flow.retry, RETRY) ELSE 0) \in 0..RETRY
        /\ Older(quiet, QUIET) \in 0..QUIET
    <3>1. Older(wd.age, STALE + 1) \in 0..(STALE + 1)
      BY <2>1, <2>2, OlderTyped
    <3>2. Older(flow.age, STALL) \in 0..STALL
      BY <2>1, <2>2, OlderTyped
    <3>3. Older(flow.retry, RETRY) \in 0..RETRY
      BY <2>1, <2>2, OlderTyped
    <3>5. 0 \in 0..RETRY
      BY <2>2
    <3>4. Older(quiet, QUIET) \in 0..QUIET
      BY <2>2, OlderTyped
    <3>. QED BY <3>1, <3>2, <3>3, <3>4, <3>5
  <2>4. wd' \in [snap : Nat, age : 0..(STALE + 1), reset : BOOLEAN]
    BY <1>1, <2>3 DEF Tick
  <2>5. flow' \in Flow
    BY <1>1, <2>3 DEF Tick, Flow
  <2>6. lag' \in 0..MaxLag
    <3>1. lag \in 0..MaxLag /\ MaxLag \in Nat
      BY McrAssumption DEF McrAssumption
    <3>2. lag' = lag + 1 /\ lag < MaxLag
      BY <1>1 DEF Tick
    <3>. QED BY <3>1, <3>2
  <2>7. TypeOK'
    BY <1>1, <2>3, <2>4, <2>5, <2>6 DEF Tick
  <2>. QED BY <1>1, <2>7, ServoRests DEF Tick
<1>2. CASE Step
  <2>9. /\ STALE + 1 \in Nat /\ STALL \in Nat /\ RETRY \in Nat /\ QUIET \in Nat
        /\ wd.age \in 0..(STALE + 1) /\ flow.age \in 0..STALL /\ flow.retry \in 0..RETRY
    BY McrAssumption DEF McrAssumption, QUIET, Flow
  <2>0. 0 \in 0..STALL /\ 0 \in 0..RETRY /\ RETRY \in 0..RETRY /\ STALE + 1 \in 0..(STALE + 1)
    BY <2>9
  <2>1. CASE StepBackwards
    <3>1. wd' \in [snap : Nat, age : 0..(STALE + 1), reset : BOOLEAN]
      BY <2>0, <2>1 DEF StepBackwards
    <3>2. (IF flow.recovery THEN RETRY ELSE 0) \in 0..RETRY
      BY <2>0
    <3>3. flow' \in Flow
      BY <2>0, <2>1, <3>2 DEF StepBackwards, Flow
    <3>4. TypeOK'
      BY <1>2, <3>1, <3>3 DEF Step, servoVars, loopVars
    <3>. QED BY <1>2, <3>4, ServoRests DEF Step, servoVars
  <2>2. CASE \E d \in 1..QUIET : StepForwards(d)
    <3>1. PICK d \in 1..QUIET : StepForwards(d)
      BY <2>2
    <3>0. d \in Nat
      BY <2>9
    <3>2. Jumped(wd.age, d, STALE + 1) \in 0..(STALE + 1)
      BY <2>9, <3>0, JumpedTyped
    <3>3. Jumped(flow.age, d, STALL) \in 0..STALL
      BY <2>9, <3>0, JumpedTyped
    <3>4. Jumped(flow.retry, d, RETRY) \in 0..RETRY
      BY <2>9, <3>0, JumpedTyped
    <3>5. (IF flow.recovery THEN Jumped(flow.retry, d, RETRY) ELSE 0) \in 0..RETRY
      BY <2>0, <3>4
    <3>6. wd' \in [snap : Nat, age : 0..(STALE + 1), reset : BOOLEAN]
      BY <3>1, <3>2 DEF StepForwards
    <3>7. flow' \in Flow
      BY <3>1, <3>3, <3>5 DEF StepForwards, Flow
    <3>8. TypeOK'
      BY <1>2, <3>6, <3>7 DEF Step, servoVars, loopVars
    <3>. QED BY <1>2, <3>8, ServoRests DEF Step, servoVars
  <2>. QED BY <1>2, <2>1, <2>2 DEF Step
<1>. QED BY <1>1, <1>2

(* IInv is inductive. *)
LEMMA StepKeeps == IInv /\ [Next]_vars => IInv'
<1>. SUFFICES ASSUME IInv, [Next]_vars PROVE IInv'
  OBVIOUS
<1>1. CASE Connect
  BY <1>1, ConnectKeeps
<1>2. CASE Disconnect
  BY <1>2, DisconnectKeeps
<1>3. CASE EndDispatch \/ EndPump
  BY <1>3, PhaseKeeps
<1>4. ASSUME NEW off \in Offsets, ProcessRx(off) \/ Capture(off) PROVE IInv'
  BY <1>4, FrameKeeps
<1>5. CASE PumpOne
  BY <1>5, PumpKeeps
<1>6. CASE ServoUpdate
  BY <1>6, ServoUpdateKeeps
<1>7. CASE Watch
  BY <1>7, WatchKeeps
<1>8. CASE Tick \/ Step
  BY <1>8, ClockKeeps
<1>9. CASE UNCHANGED vars
  BY <1>9 DEF vars, servoVars, dogVars, loopVars, IInv, TypeOK, StreakCounts, Memory
<1>. QED BY <1>1, <1>2, <1>3, <1>4, <1>5, <1>6, <1>7, <1>8, <1>9 DEF Next

(* TypeOK and what the servo remembers hold for ever (mcr.c). *)
THEOREM McrCorrect == Spec => []IInv
<1>1. Init => IInv
  BY InitHolds
<1>2. IInv /\ [Next]_vars => IInv'
  BY StepKeeps
<1>. QED BY <1>1, <1>2, PTL DEF Spec

(* A lock is never inherited over a bind, an unbind or a stale episode: a calm delta since
   the servo's baseline made it, of two samples of the stream bound now unless a pair left
   in the FIFO at the bind has a part in it (mcr_servo_update, mcr_bind, mcr_pump_hw). *)
THEOREM LocksAreEarned == Spec => []LockIsEarned
<1>1. IInv => LockIsEarned
  <2>. SUFFICES ASSUME IInv, servo.locked PROVE trace.bad < EXIT_STREAK
    BY DEF IInv, StreakCounts, LockIsEarned
  <2>1. trace.bad = servo.streak /\ servo.streak \in 0..(EXIT_STREAK - 1)
    BY DEF IInv, StreakCounts, TypeOK, Servo
  <2>. QED BY <2>1, McrAssumption DEF McrAssumption
<1>. QED BY <1>1, McrCorrect, PTL

(* Without saturation the integral is the drift since the baseline. *)
THEOREM IntegralIsDrift == Spec => []DriftSinceBaseline
<1>1. IInv => DriftSinceBaseline
  BY DEF IInv, Memory, DriftSinceBaseline
<1>. QED BY <1>1, McrCorrect, PTL

(* Fewer than EXIT_STREAK wild samples in a row never unlock (mcr_servo_update). *)
THEOREM JitterIsTolerated == Spec => SpikesTolerated
<1>. DEFINE Ends == servo.locked /\ ~ servo'.locked /\ bound' /\ servo'.havePrev
                      => trace'.bad >= EXIT_STREAK
<1>1. IInv /\ [Next]_vars => [Ends]_vars
  <2>. SUFFICES ASSUME IInv, Next, servo.locked, ~ servo'.locked, bound', servo'.havePrev
                PROVE  trace'.bad >= EXIT_STREAK
    OBVIOUS
  <2>1. CASE Connect
    BY <2>1, BindKeeps DEF Connect
  <2>2. CASE Disconnect
    BY <2>2 DEF Disconnect, McrUnbind
  <2>3. CASE PumpOne
    BY <2>3, PumpKeeps
  <2>4. CASE ServoUpdate
    BY <2>4, ServoUpdateKeeps
  <2>5. CASE Watch
    BY <2>5, WatchdogKeeps DEF Watch
  <2>6. CASE servo' = servo
    BY <2>6
  <2>. QED BY <2>1, <2>2, <2>3, <2>4, <2>5, <2>6
         DEF Next, EndDispatch, EndPump, ProcessRx, Capture, Tick, Step, servoVars
<1>. QED BY <1>1, McrCorrect, PTL DEF Spec, SpikesTolerated

-----------------------------------------------------------------------------
(* What ties the watchdogs' snapshots and ages to the servo: a count that moved since
   the last pass was fed in this one, and a count that did not move is as old as the
   silence, give or take the lateness of one pass. *)
Dog ==
    ~ blind.mcr =>
      /\ wd.snap <= rx /\ (latest # {} => rx # wd.snap)
      /\ wd.reset /\ (rx = wd.snap \/ phase = "dispatch")
           => servo.nco = "base" /\ ~ servo.locked
      /\ servo.locked => /\ quiet <= STALE + MaxLag + lag
                         /\ wd.age <= STALE => quiet <= wd.age + MaxLag

Fed ==
    /\ phase = "watch" => latest = {}
    /\ ~ bound => servo.nco = "base" /\ latest = {}
    /\ servo.locked /\ rx # wd.snap => latest # {} \/ quiet <= lag

Supply ==
    ~ blind.flow /\ flow.init =>
      /\ flow.snap <= rx /\ (latest # {} => rx # flow.snap)
      /\ rx = flow.snap => flow.age <= quiet

Timely == Dog /\ Fed /\ Supply

(* mcr_init: nothing was counted, nothing is locked. *)
LEMMA TimelyInit == Init => Timely
BY McrAssumption DEF McrAssumption, Init, Timely, Dog, Fed, Supply, Fresh, Idle

(* A bind or a step of the clock makes the stamps worth nothing (blind); a frame the
   CPU takes is counted now and fed later in the pass. *)
LEMMA TimelyDispatch ==
    ASSUME IInv, Timely, NEW off \in Offsets,
           Connect \/ Disconnect \/ ProcessRx(off) \/ EndDispatch \/ Step
    PROVE  Timely'
<1>. USE DEF IInv, TypeOK, Timely
<1>1. CASE Connect
  <2>1. CASE McrBind
    <3>1. ~ servo'.locked /\ blind'.mcr /\ blind'.flow /\ bound' /\ phase' = "dispatch"
      BY <1>1, <2>1, BindKeeps DEF Connect, McrBind, loopVars
    <3>. QED BY <3>1 DEF Dog, Fed, Supply
  <2>2. CASE UNCHANGED <<bound, servo, latest, rx, old, trace, blind>>
    BY <1>1, <2>2 DEF Connect, Dog, Fed, Supply, dogVars, loopVars
  <2>. QED BY <1>1, <2>1, <2>2 DEF Connect
<1>2. CASE Disconnect
  <2>1. ~ servo'.locked /\ servo'.nco = "base" /\ latest' = {} /\ wd'.snap = wd.snap
    BY <1>2 DEF Disconnect, McrUnbind, Released, Servo
  <2>2. UNCHANGED <<rx, quiet, flow, blind, phase, lag>>
    BY <1>2 DEF Disconnect, loopVars
  <2>. QED BY <2>1, <2>2 DEF Dog, Fed, Supply
<1>3. CASE ProcessRx(off)
  <2>1. /\ latest' # {} /\ rx' = rx + 1 /\ bound /\ phase = "dispatch"
        /\ UNCHANGED <<bound, servo, quiet, wd, flow, phase, lag, blind>>
    BY <1>3 DEF ProcessRx, dogVars, loopVars
  <2>2. Dog'
    BY <2>1 DEF Dog
  <2>3. Supply'
    BY <2>1 DEF Supply, Flow
  <2>4. Fed'
    BY <2>1 DEF Fed
  <2>. QED BY <2>2, <2>3, <2>4
<1>4. CASE EndDispatch
  <2>1. /\ phase' = "pump"
        /\ UNCHANGED <<bound, latest, servo, rx, quiet, wd, flow, lag, blind>>
    BY <1>4 DEF EndDispatch, servoVars
  <2>. QED BY <2>1 DEF Dog, Fed, Supply
<1>5. CASE Step
  <2>1. wd'.snap = wd.snap
    BY <1>5 DEF Step, StepForwards, StepBackwards, IInv, TypeOK
  <2>2. /\ blind'.mcr /\ blind'.flow
        /\ UNCHANGED <<bound, latest, servo, rx, quiet, phase, lag>>
    BY <1>5 DEF Step, servoVars, loopVars
  <2>. QED BY <2>1, <2>2 DEF Dog, Fed, Supply
<1>. QED BY <1>1, <1>2, <1>3, <1>4, <1>5

(* A sample fed in this pass: its count is new to both watchdogs. *)
LEMMA TimelyFeed ==
    ASSUME IInv, IInv', Timely, bound, bound' = bound, quiet' = 0, latest' = {},
           UNCHANGED <<wd, flow, lag, blind>>, phase' # "dispatch", rx' \in {rx, rx + 1},
           rx' = rx => latest # {}
    PROVE  Timely'
<1>1. rx \in Nat /\ rx' \in Nat /\ lag \in Nat /\ wd.snap \in Nat /\ wd.age \in Nat
  BY DEF IInv, TypeOK
<1>2. Dog'
  <2>1. ~ blind.mcr => wd.snap < rx'
    BY <1>1 DEF Timely, Dog
  <2>2. 0 <= STALE + MaxLag + lag /\ 0 <= wd.age + MaxLag
    BY <1>1, McrAssumption DEF McrAssumption
  <2>. QED BY <1>1, <2>1, <2>2 DEF Dog
<1>3. Supply'
  <2>1. ~ blind.flow /\ flow.init => flow.snap < rx'
    BY <1>1 DEF Timely, Supply, IInv, TypeOK, Flow
  <2>2. flow.snap \in Nat
    BY DEF IInv, TypeOK, Flow
  <2>. QED BY <1>1, <2>1, <2>2 DEF Supply
<1>4. Fed'
  BY <1>1 DEF Fed
<1>. QED BY <1>2, <1>3, <1>4 DEF Timely

(* The pump phase feeds what was counted. *)
LEMMA TimelyPump ==
    ASSUME IInv, IInv', Timely, PumpOne \/ EndPump \/ ServoUpdate
    PROVE  Timely'
<1>1. CASE PumpOne
  <2>1. /\ bound /\ bound' = bound /\ quiet' = 0 /\ latest' = {} /\ rx' = rx + 1
        /\ UNCHANGED <<wd, flow, lag, blind>> /\ phase' = "pump"
    BY <1>1 DEF PumpOne, Feed, dogVars, loopVars
  <2>2. rx' # rx
    BY <2>1 DEF IInv, TypeOK
  <2>. QED BY <2>1, <2>2, TimelyFeed
<1>2. CASE EndPump
  <2>1. /\ phase' = "servo" /\ phase = "pump"
        /\ UNCHANGED <<bound, latest, servo, rx, quiet, wd, flow, lag, blind>>
    BY <1>2 DEF EndPump, servoVars, dogVars
  <2>. QED BY <2>1 DEF Timely, Dog, Fed, Supply
<1>3. CASE ServoUpdate /\ bound /\ latest # {}
  <2>1. /\ quiet' = 0 /\ latest' = {} /\ bound' = bound /\ phase' = "watch" /\ rx' = rx
        /\ UNCHANGED <<wd, flow, lag, blind>>
    BY <1>3 DEF ServoUpdate, Feed, dogVars
  <2>. QED BY <1>3, <2>1, TimelyFeed
<1>4. CASE ServoUpdate /\ ~ (bound /\ latest # {})
  <2>1. /\ phase' = "watch" /\ phase = "servo"
        /\ UNCHANGED <<bound, latest, servo, rx, quiet, wd, flow, lag, blind>>
    BY <1>4 DEF ServoUpdate, dogVars
  <2>2. latest = {}
    BY <1>4 DEF Timely, Fed
  <2>. QED BY <2>1, <2>2 DEF Timely, Dog, Fed, Supply
<1>. QED BY <1>1, <1>2, <1>3, <1>4

(* A tick makes the silence and the ages older alike. *)
LEMMA TimelyTick == ASSUME IInv, Timely, Tick PROVE Timely'
<1>. USE DEF IInv, TypeOK, Timely
<1>1. /\ lag' = lag + 1 /\ lag \in Nat /\ quiet \in Nat /\ rx \in Nat /\ wd.snap \in Nat
      /\ UNCHANGED <<bound, latest, servo, rx, phase, blind>>
  BY DEF Tick
<1>2. wd'.snap = wd.snap /\ wd'.reset = wd.reset /\ wd'.age = Older(wd.age, STALE + 1)
  BY DEF Tick
<1>3. flow'.init = flow.init /\ flow'.snap = flow.snap /\ flow'.age = Older(flow.age, STALL)
  BY DEF Tick, Flow
<1>4. quiet' = Older(quiet, QUIET) /\ QUIET \in Nat /\ quiet <= QUIET /\ STALL <= QUIET
  <2>1. QUIET \in Nat /\ STALL <= QUIET
    BY McrAssumption DEF McrAssumption, QUIET
  <2>2. quiet <= QUIET
    BY <2>1
  <2>. QED BY <2>1, <2>2 DEF Tick
<1>5. quiet' <= quiet + 1 /\ quiet' \in Nat
  BY <1>1, <1>4 DEF Older
<1>6. Dog'
  <2>1. wd'.age <= STALE => wd'.age = wd.age + 1 /\ wd.age <= STALE
    BY <1>2, McrAssumption DEF McrAssumption, Older
  <2>2. wd.age \in Nat
    OBVIOUS
  <2>. QED BY <1>1, <1>2, <1>5, <2>1, <2>2, McrAssumption DEF McrAssumption, Dog
<1>7. Fed'
  BY <1>1, <1>2, <1>5 DEF Fed
<1>8. Supply'
  <2>1. flow.age \in 0..STALL
    BY DEF Flow
  <2>2. flow.age <= quiet => flow'.age <= quiet'
    BY <1>1, <1>3, <1>4, <2>1, McrAssumption DEF McrAssumption, Older
  <2>. QED BY <1>1, <1>3, <2>2 DEF Supply
<1>. QED BY <1>6, <1>7, <1>8

(* A pass ends: what counted is noted, and what did not count for longer than STALE
   loses its lock. *)
LEMMA TimelyWatch == ASSUME IInv, IInv', Timely, Watch PROVE Timely'
<1>. USE DEF IInv, TypeOK, Timely
<1>1. /\ phase = "watch" /\ phase' = "dispatch" /\ lag' = 0 /\ latest = {} /\ latest' = {}
      /\ lag <= MaxLag /\ lag \in Nat /\ quiet \in Nat /\ rx \in Nat /\ wd.snap \in Nat
      /\ UNCHANGED <<bound, rx, quiet>>
      /\ blind'.mcr = (blind.mcr /\ ~ (bound /\ rx # wd.snap))
      /\ blind'.flow = (blind.flow /\ ~ (conn /\ (flow.init => rx # flow.snap)))
  BY DEF Watch, Fed
<1>2. Dog' /\ Fed'
  <2>1. CASE ~ bound
    <3>1. ~ servo'.locked /\ servo'.nco = "base" /\ wd'.snap = wd.snap
      <4>1. ~ servo.locked /\ servo.nco = "base"
        BY <2>1 DEF StreakCounts, Fed
      <4>2. servo' = servo \/ servo' = [servo EXCEPT !.nco = "base"]
        BY <2>1 DEF Watch, McrWatchdog
      <4>3. wd' = [wd EXCEPT !.reset = TRUE]
        BY <2>1 DEF Watch, McrWatchdog
      <4>. QED BY <4>1, <4>2, <4>3 DEF Servo
    <3>2. Dog'
      BY <1>1, <2>1, <3>1 DEF Dog
    <3>. QED BY <1>1, <2>1, <3>1, <3>2 DEF Fed
  <2>2. CASE bound /\ rx # wd.snap
    <3>1. wd' = [snap |-> rx, age |-> 0, reset |-> FALSE] /\ servo' = servo
      BY <2>2 DEF Watch, McrWatchdog
    <3>2. servo.locked => quiet <= MaxLag
      BY <1>1, <2>2, McrAssumption DEF McrAssumption, Fed
    <3>3. Dog'
      BY <1>1, <3>1, <3>2, McrAssumption DEF McrAssumption, Dog
    <3>. QED BY <1>1, <2>2, <3>1, <3>3 DEF Fed
  <2>3. CASE bound /\ rx = wd.snap
    <3>1. /\ servo' = IF Stale /\ ~ wd.reset THEN Fresh ELSE servo
          /\ wd' = [wd EXCEPT !.reset = @ \/ Stale]
      BY <2>3 DEF Watch, McrWatchdog, Lost
    <3>2. wd'.snap = wd.snap /\ wd'.age = wd.age /\ wd'.reset = (wd.reset \/ Stale)
      BY <3>1
    <3>3. blind'.mcr = blind.mcr
      BY <1>1, <2>3
    <3>4. ~ Fresh.locked /\ Fresh.nco = "base"
      BY DEF Fresh
    <3>5. Dog'
      <4>1. CASE Stale /\ ~ wd.reset
        BY <1>1, <2>3, <3>1, <3>2, <3>3, <3>4, <4>1 DEF Dog
      <4>2. CASE wd.reset
        BY <1>1, <2>3, <3>1, <3>2, <3>3, <4>2 DEF Dog
      <4>3. CASE ~ Stale /\ ~ wd.reset
        <5>1. servo' = servo /\ ~ wd'.reset /\ wd.age <= STALE /\ wd.age \in Nat
          <6>1. wd.age \in Nat /\ STALE \in Nat /\ ~ (wd.age > STALE)
            BY <4>3, McrAssumption DEF McrAssumption, Stale
          <6>2. wd.age <= STALE
            BY <6>1
          <6>. QED BY <3>1, <3>2, <4>3, <6>1, <6>2
        <5>. QED BY <1>1, <2>3, <3>2, <3>3, <5>1, McrAssumption DEF McrAssumption, Dog
      <4>. QED BY <4>1, <4>2, <4>3
    <3>. QED BY <1>1, <2>3, <3>2, <3>5 DEF Fed
  <2>. QED BY <2>1, <2>2, <2>3
<1>3. Supply'
  <2>1. CASE ~ conn
    BY <2>1 DEF Watch, FlowWatchdog, Supply, Idle, Moved, Still
  <2>2. CASE conn /\ (flow.init => rx # flow.snap)
    <3>1. flow' = Flowing
      BY <2>2 DEF Watch, FlowWatchdog, Moved, Still
    <3>2. flow'.snap = rx /\ flow'.age = 0
      BY <3>1 DEF Flowing, Flow
    <3>. QED BY <1>1, <3>2 DEF Supply
  <2>3. CASE conn /\ flow.init /\ rx = flow.snap
    <3>1. flow' \in {flow, Recovering, [flow EXCEPT !.retry = 0]}
      BY <2>3 DEF Watch, FlowWatchdog, Moved, Still
    <3>2. flow'.init = flow.init /\ flow'.snap = flow.snap /\ flow'.age = flow.age
      BY <3>1 DEF Recovering, Flow
    <3>3. blind'.flow = blind.flow
      BY <1>1, <2>3
    <3>. QED BY <1>1, <2>3, <3>2, <3>3 DEF Supply
  <2>. QED BY <2>1, <2>2, <2>3
<1>. QED BY <1>2, <1>3

(* Timely is inductive with IInv. *)
LEMMA TimelyKeeps == IInv /\ IInv' /\ Timely /\ [Next]_vars => Timely'
<1>. SUFFICES ASSUME IInv, IInv', Timely, [Next]_vars PROVE Timely'
  OBVIOUS
<1>1. ASSUME NEW off \in Offsets,
             Connect \/ Disconnect \/ ProcessRx(off) \/ EndDispatch \/ Step
      PROVE  Timely'
  BY <1>1, TimelyDispatch
<1>2. CASE Connect \/ Disconnect \/ EndDispatch \/ Step
  <2>1. PICK off \in Offsets : TRUE
    BY McrAssumption DEF McrAssumption
  <2>. QED BY <1>1, <1>2, <2>1
<1>3. ASSUME NEW off \in Offsets, Capture(off) PROVE Timely'
  BY <1>3 DEF Capture, servoVars, dogVars, loopVars, Timely, Dog, Fed, Supply
<1>4. CASE PumpOne \/ EndPump \/ ServoUpdate
  BY <1>4, TimelyPump
<1>5. CASE Watch
  BY <1>5, TimelyWatch
<1>6. CASE Tick
  BY <1>6, TimelyTick
<1>7. CASE UNCHANGED vars
  BY <1>7 DEF vars, servoVars, dogVars, loopVars, Timely, Dog, Fed, Supply
<1>. QED BY <1>1, <1>2, <1>3, <1>4, <1>5, <1>6, <1>7 DEF Next

(* Both watchdogs' stamps stay in step with the servo's silence (mcr_watchdog_tick,
   avdecc_crf_flow_watchdog). *)
THEOREM McrTimely == Spec => []Timely
<1>1. Init => Timely
  BY TimelyInit
<1>2. IInv /\ IInv' /\ Timely /\ [Next]_vars => Timely'
  BY TimelyKeeps
<1>. QED BY <1>1, <1>2, McrCorrect, PTL DEF Spec

(* A lock does not outlive its stream (mcr_watchdog_tick), and while the snap-back
   flag is set the NCO is at base (mcr.h). *)
THEOREM LocksDie == Spec => [](LockIsAlive /\ NcoAtBase)
<1>1. Timely => LockIsAlive /\ NcoAtBase
  BY DEF Timely, Dog, Fed, LockIsAlive, NcoAtBase
<1>. QED BY <1>1, McrTimely, PTL

(* avdecc_crf_flow_watchdog only disturbs a talker whose stream is missing. *)
THEOREM RestartsAreJustified == Spec => RestartIsJustified
<1>. DEFINE Justified == sent' # "none" /\ phase = "watch" /\ phase' = "dispatch"
                           => conn /\ (quiet >= STALL \/ blind.flow)
<1>1. IInv /\ Timely /\ [Next]_vars => [Justified]_vars
  <2>. SUFFICES ASSUME IInv, Timely, Next, sent' # "none", phase = "watch", phase' = "dispatch"
                PROVE  conn /\ (quiet >= STALL \/ blind.flow)
    OBVIOUS
  <2>1. Watch
    BY DEF Next, Connect, Disconnect, EndDispatch, ProcessRx, Capture, PumpOne, EndPump,
           ServoUpdate, Tick, Step, loopVars
  <2>2. Still /\ Stalled
    BY <2>1 DEF Watch, FlowWatchdog
  <2>3. quiet \in Nat /\ STALL \in Nat
    BY McrAssumption DEF McrAssumption, IInv, TypeOK
  <2>. QED BY <2>2, <2>3 DEF Still, Stalled, Timely, Supply
<1>. QED BY <1>1, McrCorrect, McrTimely, PTL DEF Spec, RestartIsJustified

(* Servo, watchdogs and queues stay in their types; the integral stays clamped. *)
THEOREM McrTypes == Spec => []TypeOK
<1>1. IInv => TypeOK
  BY DEF IInv
<1>. QED BY <1>1, McrCorrect, PTL

-----------------------------------------------------------------------------
(* How far the next CONNECT_TX of avdecc_crf_flow_watchdog is: the rest of the stall time,
   then the rest of the retry time, and one for the DISCONNECT_TX between them. *)
ToRestart == (STALL - flow.age) + (IF flow.recovery THEN RETRY - flow.retry ELSE RETRY + 1)

(* The next pass of the loop acts. *)
RestartDue == flow.age = STALL /\ (flow.recovery => flow.retry = RETRY)

(* While nothing comes on a connected input, its restart draws nearer with every tick, at
   the pass that is due the talker is stopped or started, and nothing else that happens,
   a rebind included, puts it off, unless gPTP steps the clock. *)
RestartNears ==
    [][Still /\ Still' /\ ~ Step =>
          \/ sent = "none" /\ sent' = "connect"
          \/ ToRestart' < ToRestart
          \/ UNCHANGED flow /\ ~ (Tick /\ ~ RestartDue) /\ ~ (Watch /\ RestartDue)]_vars

(* A pass starts with nothing sent; the retry stamp is only read in recovery. *)
Orderly == (phase # "dispatch" => sent = "none") /\ (~ flow.recovery => flow.retry = 0)

LEMMA OrderlyKeeps == TypeOK /\ Orderly /\ [Next]_vars => Orderly'
<1>. SUFFICES ASSUME TypeOK, Orderly, [Next]_vars PROVE Orderly'
  OBVIOUS
<1>1. flow \in Flow
  BY DEF TypeOK
<1>2. CASE Connect \/ Disconnect \/ EndDispatch \/ PumpOne \/ EndPump \/ ServoUpdate \/ UNCHANGED vars
           \/ \E off \in Offsets : ProcessRx(off) \/ Capture(off)
  BY <1>2 DEF Orderly, Connect, Disconnect, EndDispatch, PumpOne, EndPump, ServoUpdate, ProcessRx, Capture,
              vars, dogVars, loopVars
<1>3. CASE Watch
  <2>1. flow' \in {Idle, Flowing, Recovering, [flow EXCEPT !.retry = 0], flow}
    BY <1>3 DEF Watch, FlowWatchdog
  <2>2. ~ Idle.recovery /\ Idle.retry = 0
    BY DEF Idle
  <2>3. /\ Flowing.retry = 0 /\ Recovering.retry = 0 /\ [flow EXCEPT !.retry = 0].retry = 0
    BY <1>1 DEF Flowing, Recovering, Flow
  <2>4. phase' = "dispatch"
    BY <1>3 DEF Watch
  <2>. QED BY <2>1, <2>2, <2>3, <2>4 DEF Orderly
<1>4. CASE Tick
  BY <1>1, <1>4 DEF Orderly, Tick, Flow
<1>5. CASE Step
  <2>1. ~ flow'.recovery => flow'.retry = 0
    <3>1. CASE StepBackwards
      BY <1>1, <3>1 DEF StepBackwards, Flow
    <3>2. ASSUME NEW d \in 1..QUIET, StepForwards(d) PROVE ~ flow'.recovery => flow'.retry = 0
      BY <1>1, <3>2 DEF StepForwards, Flow
    <3>. QED BY <1>5, <3>1, <3>2 DEF Step
  <2>2. phase' = "dispatch"
    BY <1>5 DEF Step, loopVars
  <2>. QED BY <2>1, <2>2 DEF Orderly
<1>. QED BY <1>2, <1>3, <1>4, <1>5 DEF Next

LEMMA WatchRestarts ==
    ASSUME TypeOK, Orderly, Watch, Still
    PROVE  \/ sent = "none" /\ sent' = "connect"
           \/ ToRestart' < ToRestart
           \/ UNCHANGED flow /\ ~ RestartDue
<1>1. flow \in Flow /\ sent = "none" /\ STALL \in Nat /\ RETRY \in Nat
  BY McrAssumption DEF McrAssumption, TypeOK, Orderly, Watch
<1>2. CASE Stalled /\ ~ flow.recovery
  <2>1. flow' = Recovering
    BY <1>2 DEF Watch, FlowWatchdog, Still, Moved
  <2>. QED BY <1>1, <1>2, <2>1 DEF Recovering, Flow, ToRestart
<1>3. CASE Stalled /\ flow.recovery /\ flow.retry = RETRY
  <2>1. sent' = "connect"
    BY <1>1, <1>3 DEF Watch, FlowWatchdog, Still, Moved
  <2>. QED BY <1>1, <2>1
<1>4. CASE Stalled => flow.recovery /\ flow.retry # RETRY
  <2>1. UNCHANGED flow
    BY <1>4 DEF Watch, FlowWatchdog, Still, Moved
  <2>. QED BY <1>4, <2>1 DEF RestartDue, Stalled
<1>. QED BY <1>2, <1>3, <1>4

LEMMA TickRestarts ==
    ASSUME TypeOK, Orderly, Tick
    PROVE  ToRestart' < ToRestart \/ (UNCHANGED flow /\ RestartDue)
<1>1. /\ flow \in Flow /\ flow.age \in 0..STALL /\ flow.retry \in 0..RETRY /\ flow.recovery \in BOOLEAN
      /\ STALL \in Nat /\ RETRY \in Nat
      /\ ~ flow.recovery => flow.retry = 0
  BY McrAssumption DEF McrAssumption, TypeOK, Orderly, Flow
<1>2. /\ flow'.recovery = flow.recovery /\ flow'.init = flow.init /\ flow'.snap = flow.snap
      /\ flow'.age = Older(flow.age, STALL)
      /\ flow'.retry = IF flow.recovery THEN Older(flow.retry, RETRY) ELSE 0
  BY <1>1 DEF Tick, Flow
<1>3. CASE RestartDue
  <2>1. flow'.age = flow.age /\ flow'.retry = flow.retry
    BY <1>1, <1>2, <1>3 DEF RestartDue, Older
  <2>2. /\ flow = [init |-> flow.init, snap |-> flow.snap, age |-> flow.age,
                   recovery |-> flow.recovery, retry |-> flow.retry]
        /\ flow' = [init |-> flow'.init, snap |-> flow'.snap, age |-> flow'.age,
                    recovery |-> flow'.recovery, retry |-> flow'.retry]
    BY <1>1 DEF Tick, Flow
  <2>3. flow' = flow
    BY <1>2, <2>1, <2>2
  <2>. QED BY <1>3, <2>3
<1>4. CASE flow.age # STALL
  <2>1. flow'.age = flow.age + 1
    BY <1>1, <1>2, <1>4 DEF Older
  <2>2. flow.recovery => flow'.retry >= flow.retry /\ flow'.retry \in Nat
    BY <1>1, <1>2 DEF Older
  <2>. QED BY <1>1, <1>2, <2>1, <2>2 DEF ToRestart
<1>5. CASE flow.age = STALL /\ flow.recovery /\ flow.retry # RETRY
  <2>1. flow'.age = STALL /\ flow'.retry = flow.retry + 1
    BY <1>1, <1>2, <1>5 DEF Older
  <2>. QED BY <1>1, <1>2, <1>5, <2>1 DEF ToRestart
<1>. QED BY <1>3, <1>4, <1>5 DEF RestartDue

LEMMA StepRestarts ==
    TypeOK /\ Orderly /\ [Next]_vars =>
      [Still /\ Still' /\ ~ Step =>
          \/ sent = "none" /\ sent' = "connect"
          \/ ToRestart' < ToRestart
          \/ UNCHANGED flow /\ ~ (Tick /\ ~ RestartDue) /\ ~ (Watch /\ RestartDue)]_vars
<1>. SUFFICES ASSUME TypeOK, Orderly, Next, Still, Still', ~ Step
              PROVE  \/ sent = "none" /\ sent' = "connect"
                     \/ ToRestart' < ToRestart
                     \/ UNCHANGED flow /\ ~ (Tick /\ ~ RestartDue) /\ ~ (Watch /\ RestartDue)
  OBVIOUS
<1>1. Tick => ~ Watch
  BY DEF TypeOK, Tick, Watch
<1>2. CASE Watch
  BY <1>1, <1>2, WatchRestarts
<1>3. CASE Tick
  BY <1>1, <1>3, TickRestarts
<1>4. CASE Connect \/ EndDispatch \/ PumpOne \/ EndPump \/ ServoUpdate
           \/ \E off \in Offsets : ProcessRx(off) \/ Capture(off)
  <2>1. UNCHANGED flow
    BY <1>4 DEF Connect, EndDispatch, PumpOne, EndPump, ServoUpdate, ProcessRx, Capture, dogVars
  <2>. QED BY <1>2, <1>3, <2>1
<1>5. CASE Disconnect
  BY <1>5 DEF Disconnect, Still
<1>. QED BY <1>2, <1>3, <1>4, <1>5 DEF Next

(* The restart of a silent talker comes, for any thresholds (avdecc_crf_flow_watchdog). *)
THEOREM RestartsDrawNear == Spec => RestartNears
<1>1. Init => Orderly
  BY DEF Init, Orderly, Idle
<1>2. Spec => []Orderly
  BY <1>1, OrderlyKeeps, McrTypes, PTL DEF Spec
<1>. QED BY <1>2, StepRestarts, McrTypes, PTL DEF Spec, RestartNears
=============================================================================
