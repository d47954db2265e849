-------------------------------- MODULE Gptp --------------------------------
(***************************************************************************)
(* The gPTP slave port of firmware/gptp.c: Sync and Follow_Up pairing, the *)
(* median filter, the clock servo with its lock, and the Sync time-out.    *)
(* Frames come in any order and at any time between two polls.  An offset  *)
(* is what process_follow_up computes from the stamps of one pair; which   *)
(* one comes out is the network's choice.  A Follow_Up that does not match *)
(* the last Sync changes nothing and is no step.                           *)
(***************************************************************************)
EXTENDS Integers, Sequences, FiniteSets

CONSTANTS
    Offsets,         \* raw offsets from the master
    WINDOW,          \* length of off_median_buf, 5
    GOOD, BAD, BIG,  \* the offsets below which the servo may lock, above which it
                     \* unlocks, and above which the clock is stepped
    LOCK,            \* the limit of lock_sample_count, 8
    TIMEOUT,         \* sync_timeout_ms
    MaxLag           \* bound: ticks between two polls

ASSUME GptpAssumption ==
    /\ Offsets \subseteq Int
    /\ WINDOW \in Nat \ {0, 1}
    /\ GOOD \in Nat /\ BAD \in Nat /\ BIG \in Nat /\ GOOD <= BAD /\ BAD <= BIG
    /\ LOCK \in Nat /\ TIMEOUT \in Nat \ {0} /\ MaxLag \in Nat \ {0}

VARIABLES
    port,      \* state
    received,  \* sync_received
    syncAge,   \* age of last_sync_time_ms
    filter,    \* off_median_buf, _idx, _filled
    servo,     \* servo_step_count # 0, servo_locked, lock_sample_count
    did,       \* what the last step did to the clock
    lag,       \* ticks since gptp_poll
    silence,   \* history: ticks since the last Sync
    calm,      \* history: offsets in a row that were not huge
    orphan     \* history: a Follow_Up was used after its Sync had timed out

vars == <<port, received, syncAge, filter, servo, did, lag, silence, calm, orphan>>

Slots == 0..(WINDOW - 1)
SILENCE == 2 * TIMEOUT + 2 * MaxLag + 1  \* nothing tells longer silences apart

TypeOK ==
    /\ port \in {"listening", "slave"}
    /\ received \in BOOLEAN
    /\ syncAge \in 0..(TIMEOUT + MaxLag)
    /\ filter \in [buf : [Slots -> Offsets \cup {0}], idx : Slots, filled : 0..WINDOW]
    /\ servo \in [stepped : BOOLEAN, locked : BOOLEAN, good : 0..LOCK]
    /\ did \in {"none", "step", "tune"}
    /\ lag \in 0..MaxLag
    /\ silence \in 0..SILENCE
    /\ calm \in 0..WINDOW
    /\ orphan \in BOOLEAN

Older(age, limit) == IF age < limit THEN age + 1 ELSE limit

Init ==
    /\ port = "listening"
    /\ received = FALSE
    /\ syncAge = 0
    /\ filter = [buf |-> [i \in Slots |-> 0], idx |-> 0, filled |-> 0]
    /\ servo = [stepped |-> FALSE, locked |-> FALSE, good |-> 0]
    /\ did = "none"
    /\ lag = 0
    /\ silence = SILENCE
    /\ calm = 0
    /\ orphan = FALSE

-----------------------------------------------------------------------------
(* The median filter: a ring of the last offsets, sorted by insertion. *)
Abs(d) == IF d < 0 THEN -d ELSE d

After(i) == (i + 1) % WINDOW

Entered_Stuck(f, off) ==  \* fault: the oldest offset is not the one replaced
    [f EXCEPT !.buf[f.idx] = off, !.filled = Older(@, WINDOW),
              !.idx = IF f.filled < WINDOW - 1 THEN After(@) ELSE @]
Entered(f, off) ==
    [f EXCEPT !.buf[f.idx] = off, !.filled = Older(@, WINDOW), !.idx = After(@)]

Inserted(s, v) ==
    LET k == Cardinality({i \in DOMAIN s : s[i] <= v})
    IN  SubSeq(s, 1, k) \o <<v>> \o SubSeq(s, k + 1, Len(s))

Sorted(f) ==
    LET Upto[n \in 0..WINDOW] == IF n = 0 THEN <<>> ELSE Inserted(Upto[n - 1], f.buf[n - 1])
    IN  Upto[f.filled]

Median_Top(f) == Sorted(f)[f.filled]  \* fault: the largest of the offsets
Median(f) == Sorted(f)[f.filled \div 2 + 1]

-----------------------------------------------------------------------------
(* gptp_servo_update: the first offset and a huge one step the clock, and stamp
   last_sync_time_ms anew; any other turns the addend and judges the lock. *)
Coarse(m) == ~ servo.stepped \/ Abs(m) > BIG

Earned_Recounted(s) ==  \* fault: a full count starts again
    IF s.good < LOCK THEN [s EXCEPT !.good = @ + 1] ELSE [s EXCEPT !.good = 0]
Earned(s) == IF s.good < LOCK THEN [s EXCEPT !.good = @ + 1] ELSE [s EXCEPT !.locked = TRUE]

Judged(s, m) ==
    IF ~ s.locked
    THEN IF Abs(m) < GOOD THEN Earned(s) ELSE [s EXCEPT !.good = 0]
    ELSE IF Abs(m) > BAD THEN [s EXCEPT !.locked = FALSE, !.good = 0] ELSE s

ServoUpdate(m) ==
    \/ /\ Coarse(m)
       /\ servo' = [servo EXCEPT !.stepped = TRUE]
       /\ syncAge' = 0
       /\ did' = "step"
    \/ /\ ~ Coarse(m)
       /\ servo' = Judged(servo, m)
       /\ did' = "tune"
       /\ UNCHANGED syncAge

(* process_sync and process_follow_up, from gptp_process_rx. *)
Sync ==
    /\ port' = "slave"
    /\ received' = TRUE
    /\ syncAge' = 0
    /\ did' = "none"
    /\ silence' = 0
    /\ orphan' = FALSE
    /\ UNCHANGED <<filter, servo, lag, calm>>

FollowUp(off) ==
    /\ received
    /\ received' = FALSE
    /\ filter' = Entered(filter, off)
    /\ ServoUpdate(Median(filter'))
    /\ calm' = IF Abs(off) > BIG THEN 0 ELSE Older(calm, WINDOW)
    /\ orphan' = (orphan \/ port = "listening")
    /\ UNCHANGED <<port, lag, silence>>

-----------------------------------------------------------------------------
(* The Sync time-out of gptp_poll.  lock_sample_count is not reset. *)
TimedOut_Locked(s) == s  \* fault: servo_locked is not cleared
TimedOut(s) == [s EXCEPT !.locked = FALSE]

Poll ==
    /\ \/ /\ port = "slave" /\ syncAge > TIMEOUT
          /\ port' = "listening"
          /\ servo' = TimedOut(servo)
       \/ /\ port = "slave" => syncAge <= TIMEOUT
          /\ UNCHANGED <<port, servo>>
    /\ lag' = 0
    /\ did' = "none"
    /\ UNCHANGED <<received, syncAge, filter, silence, calm, orphan>>

Tick ==
    /\ lag < MaxLag
    /\ lag' = lag + 1
    /\ syncAge' = Older(syncAge, TIMEOUT + MaxLag)
    /\ silence' = Older(silence, SILENCE)
    /\ did' = "none"
    /\ UNCHANGED <<port, received, filter, servo, calm, orphan>>

Next == Sync \/ (\E off \in Offsets : FollowUp(off)) \/ Poll \/ Tick

Spec == Init /\ [][Next]_vars

FairSpec == Spec /\ WF_vars(Tick) /\ WF_vars(Poll)

-----------------------------------------------------------------------------
(* The ring, the sort and the flags implement the sliding window and the lock
   that Discipline promises (process_follow_up, gptp_servo_update). *)
Window == [i \in 1..filter.filled |-> filter.buf[(filter.idx + WINDOW - filter.filled + i - 1) % WINDOW]]

D == INSTANCE Discipline
     WITH window <- Window, good <- servo.good, locked <- servo.locked

ImplementsDiscipline == D!Spec

(* A lock does not outlive its master: without a Sync it is gone after two
   time-outs, a step by the last Follow_Up having stamped last_sync_time_ms anew,
   and the lateness of the polls.  Excepted is a Follow_Up that comes when its Sync
   has already timed out: it may lock a port that is listening. *)
LockNeedsSync ==
    servo.locked => orphan \/ (port = "slave" /\ silence <= 2 * TIMEOUT + MaxLag + lag)

(* One jump of the master is answered by a few steps, the ring still holding what
   the first has corrected (comment at off_median_buf: outliers "age out"): after
   half a window of ordinary offsets there is none. *)
StepsSettle == did = "step" => calm <= WINDOW \div 2

(* As long as pairs come whose offset is good, the servo locks again and again,
   whatever the ring and the count were left at by time-outs and steps. *)
GoodPairsLock ==
    <>[][did' = "tune" \/ did' = "step" => Abs(filter'.buf[filter.idx]) < GOOD]_vars
        /\ []<>(did \in {"tune", "step"})
      => []<>servo.locked
=============================================================================
