----------------------------- MODULE GptpProofs -----------------------------
(* Theorems about Gptp: its type, how long a lock outlives its master, how soon a
   jump settles, and that ring, sort and flags implement Discipline, for any
   offsets, window, thresholds and periods. *)
EXTENDS Gptp, FiniteSetTheorems, SequenceTheorems, WellFoundedInduction, TLAPS

(* While the port is a slave its Sync is younger than the time-out, but for the lag
   of the poll; last_sync_time_ms is that of the Sync until the Follow_Up is used,
   and may then be as late as the Follow_Up. *)
Timely ==
    port = "slave" =>
        /\ syncAge <= TIMEOUT + lag
        /\ silence <= syncAge + IF received THEN 0 ELSE TIMEOUT + MaxLag

(* Only a Follow_Up that comes too late locks a port that is listening. *)
Attended == servo.locked => orphan \/ port = "slave"

IInv == TypeOK /\ Timely /\ Attended

Filter == [buf : [Slots -> Offsets \cup {0}], idx : Slots, filled : 0..WINDOW]
Servo  == [stepped : BOOLEAN, locked : BOOLEAN, good : 0..LOCK]

-----------------------------------------------------------------------------
LEMMA AfterIs ==
    ASSUME NEW i \in Slots
    PROVE  After(i) = IF i = WINDOW - 1 THEN 0 ELSE i + 1
<1>1. i \in Nat /\ WINDOW \in Nat /\ WINDOW > 1 /\ i <= WINDOW - 1
  BY GptpAssumption DEF GptpAssumption, Slots
<1>2. CASE i = WINDOW - 1
  <2>1. i + 1 = WINDOW /\ WINDOW % WINDOW = 0
    BY <1>1, <1>2
  <2>. QED BY <1>2, <2>1 DEF After
<1>3. CASE i # WINDOW - 1
  <2>1. i + 1 \in Nat /\ i + 1 < WINDOW
    BY <1>1, <1>3
  <2>2. (i + 1) % WINDOW = i + 1
    BY <1>1, <2>1
  <2>. QED BY <1>3, <2>2 DEF After
<1>. QED BY <1>2, <1>3

LEMMA EnteredTyped ==
    ASSUME NEW f \in Filter, NEW off \in Offsets
    PROVE  /\ Entered(f, off) \in Filter
           /\ Entered(f, off).buf = [f.buf EXCEPT ![f.idx] = off]
           /\ Entered(f, off).idx = After(f.idx)
           /\ Entered(f, off).filled = Older(f.filled, WINDOW)
<1>1. After(f.idx) \in Slots
  BY AfterIs, GptpAssumption DEF GptpAssumption, Filter, Slots
<1>2. Older(f.filled, WINDOW) \in 0..WINDOW
  BY GptpAssumption DEF GptpAssumption, Filter, Older
<1>3. [f.buf EXCEPT ![f.idx] = off] \in [Slots -> Offsets \cup {0}]
  BY DEF Filter
<1>. DEFINE new == [f.buf EXCEPT ![f.idx] = off]
<1>4. Entered(f, off) = [f EXCEPT !.buf = new, !.filled = Older(f.filled, WINDOW), !.idx = After(f.idx)]
  BY DEF Entered
<1>. HIDE DEF new
<1>5. Entered(f, off) = [buf |-> new, idx |-> After(f.idx), filled |-> Older(f.filled, WINDOW)]
  BY <1>4 DEF Filter
<1>. QED BY <1>1, <1>2, <1>3, <1>5 DEF Filter, new

(* The lock's count stays in its range whatever the median is. *)
LEMMA JudgedTyped ==
    ASSUME NEW s \in Servo, NEW m
    PROVE  Judged(s, m) \in Servo /\ Judged(s, m).stepped = s.stepped
<1>1. 0 \in 0..LOCK
  BY GptpAssumption DEF GptpAssumption
<1>2. Earned(s) \in Servo /\ Earned(s).stepped = s.stepped
  <2>1. CASE s.good < LOCK
    <3>1. s.good + 1 \in 0..LOCK
      BY <2>1, GptpAssumption DEF GptpAssumption, Servo
    <3>. QED BY <2>1, <3>1 DEF Earned, Servo
  <2>2. CASE ~ (s.good < LOCK)
    BY <2>2 DEF Earned, Servo
  <2>. QED BY <2>1, <2>2
<1>3. CASE ~ s.locked /\ Abs(m) < GOOD
  BY <1>2, <1>3 DEF Judged
<1>4. CASE ~ s.locked /\ ~ (Abs(m) < GOOD)
  BY <1>1, <1>4 DEF Judged, Servo
<1>5. CASE s.locked /\ Abs(m) > BAD
  BY <1>1, <1>5 DEF Judged, Servo
<1>6. CASE s.locked /\ ~ (Abs(m) > BAD)
  BY <1>6 DEF Judged, Servo
<1>. QED BY <1>3, <1>4, <1>5, <1>6

LEMMA InitHolds == Init => IInv
<1>. SUFFICES ASSUME Init PROVE IInv
  OBVIOUS
<1>1. /\ 0 \in 0..(TIMEOUT + MaxLag) /\ 0 \in Slots /\ 0 \in 0..WINDOW /\ 0 \in 0..LOCK
      /\ 0 \in 0..MaxLag /\ SILENCE \in 0..SILENCE
  BY GptpAssumption DEF GptpAssumption, Slots, SILENCE
<1>2. [i \in Slots |-> 0] \in [Slots -> Offsets \cup {0}]
  OBVIOUS
<1>3. filter \in Filter /\ servo \in Servo
  BY <1>1, <1>2 DEF Init, Filter, Servo
<1>4. TypeOK
  BY <1>1, <1>3 DEF Init, TypeOK, Filter, Servo
<1>5. Timely /\ Attended
  BY DEF Init, Timely, Attended
<1>. QED BY <1>4, <1>5 DEF IInv

-----------------------------------------------------------------------------
LEMMA SyncKeeps ==
    ASSUME IInv, Sync
    PROVE  IInv'
<1>1. 0 \in 0..(TIMEOUT + MaxLag) /\ 0 \in 0..SILENCE
  BY GptpAssumption DEF GptpAssumption, SILENCE
<1>2. TypeOK'
  BY <1>1 DEF Sync, IInv, TypeOK
<1>3. Timely' /\ Attended'
  BY GptpAssumption DEF GptpAssumption, Sync, IInv, TypeOK, Timely, Attended
<1>. QED BY <1>2, <1>3 DEF IInv

LEMMA FollowUpKeeps ==
    ASSUME IInv, NEW off \in Offsets, FollowUp(off)
    PROVE  IInv'
<1>. DEFINE m == Median(filter')
<1>1. received /\ ~ received' /\ UNCHANGED <<port, lag, silence>> /\ ServoUpdate(m)
  BY DEF FollowUp
<1>. HIDE DEF m
<1>2. filter' \in Filter
  BY EnteredTyped DEF FollowUp, IInv, TypeOK, Filter
<1>3. servo \in Servo /\ syncAge \in 0..(TIMEOUT + MaxLag) /\ 0 \in 0..(TIMEOUT + MaxLag)
  BY GptpAssumption DEF GptpAssumption, IInv, TypeOK, Servo
<1>4. servo' \in Servo /\ syncAge' \in {0, syncAge} /\ did' \in {"step", "tune"}
  <2>1. CASE servo' = [servo EXCEPT !.stepped = TRUE] /\ syncAge' = 0 /\ did' = "step"
    BY <1>3, <2>1 DEF Servo
  <2>2. CASE servo' = Judged(servo, m) /\ syncAge' = syncAge /\ did' = "tune"
    BY <1>3, <2>2, JudgedTyped
  <2>. QED BY <1>1, <2>1, <2>2 DEF ServoUpdate
<1>5. orphan' = (orphan \/ port = "listening") /\ calm' \in 0..WINDOW
  BY GptpAssumption DEF GptpAssumption, FollowUp, Older, IInv, TypeOK
<1>6. orphan' \in BOOLEAN /\ received' \in BOOLEAN
  BY <1>5 DEF FollowUp, IInv, TypeOK
<1>7. TypeOK'
  BY <1>1, <1>2, <1>3, <1>4, <1>5, <1>6 DEF IInv, TypeOK, Filter, Servo
<1>8. Timely'
  <2>1. /\ TIMEOUT \in Nat /\ MaxLag \in Nat /\ lag \in 0..MaxLag /\ silence \in Nat
        /\ syncAge \in Nat /\ syncAge' \in Nat
    BY <1>3, <1>4, GptpAssumption DEF GptpAssumption, IInv, TypeOK, SILENCE
  <2>2. CASE port = "slave"
    <3>1. syncAge <= TIMEOUT + lag /\ silence <= syncAge
      BY <1>1, <2>1, <2>2 DEF IInv, Timely
    <3>2. syncAge' <= TIMEOUT + lag /\ silence <= syncAge' + (TIMEOUT + MaxLag)
      <4>1. CASE syncAge' = 0
        BY <2>1, <3>1, <4>1
      <4>2. CASE syncAge' = syncAge
        BY <2>1, <3>1, <4>2
      <4>. QED BY <1>4, <4>1, <4>2
    <3>. QED BY <1>1, <3>2 DEF Timely
  <2>3. CASE port # "slave"
    BY <1>1, <2>3 DEF Timely
  <2>. QED BY <2>2, <2>3
<1>9. Attended'
  BY <1>1, <1>5 DEF IInv, TypeOK, Attended
<1>. QED BY <1>7, <1>8, <1>9 DEF IInv

LEMMA PollKeeps ==
    ASSUME IInv, Poll
    PROVE  IInv'
<1>1. UNCHANGED <<received, syncAge, filter, silence, calm, orphan>> /\ lag' = 0 /\ did' = "none"
  BY DEF Poll
<1>2. 0 \in 0..MaxLag
  BY GptpAssumption DEF GptpAssumption
<1>3. CASE port' = "listening" /\ servo' = TimedOut(servo)
  <2>1. servo' \in Servo /\ ~ servo'.locked
    BY <1>3 DEF TimedOut, IInv, TypeOK, Servo
  <2>2. TypeOK'
    BY <1>1, <1>2, <1>3, <2>1 DEF IInv, TypeOK, Servo
  <2>3. Timely' /\ Attended'
    BY <1>3, <2>1 DEF Timely, Attended
  <2>. QED BY <2>2, <2>3 DEF IInv
<1>4. CASE (port = "slave" => syncAge <= TIMEOUT) /\ UNCHANGED <<port, servo>>
  <2>1. TypeOK'
    BY <1>1, <1>2, <1>4 DEF IInv, TypeOK
  <2>2. Timely' /\ Attended'
    BY <1>1, <1>4, GptpAssumption DEF GptpAssumption, IInv, TypeOK, Timely, Attended
  <2>. QED BY <2>1, <2>2 DEF IInv
<1>. QED BY <1>3, <1>4 DEF Poll

LEMMA TickKeeps ==
    ASSUME IInv, Tick
    PROVE  IInv'
<1>1. /\ lag' = lag + 1 /\ lag' \in 0..MaxLag
      /\ UNCHANGED <<port, received, filter, servo, calm, orphan>>
      /\ syncAge' = Older(syncAge, TIMEOUT + MaxLag) /\ silence' = Older(silence, SILENCE)
  BY GptpAssumption DEF GptpAssumption, Tick, IInv, TypeOK
<1>2. syncAge' \in 0..(TIMEOUT + MaxLag) /\ silence' \in 0..SILENCE
  BY <1>1, GptpAssumption DEF GptpAssumption, Older, SILENCE, IInv, TypeOK
<1>3. TypeOK'
  BY <1>1, <1>2 DEF Tick, IInv, TypeOK
<1>4. Timely'
  <2>1. CASE port = "slave"
    <3>1. syncAge' = syncAge + 1
      BY <1>1, <2>1, GptpAssumption DEF GptpAssumption, Older, Tick, IInv, TypeOK, Timely
    <3>2. silence' <= silence + 1 /\ silence \in Nat /\ silence' \in Nat
      BY <1>1, GptpAssumption DEF GptpAssumption, Older, SILENCE, IInv, TypeOK
    <3>. QED BY <1>1, <2>1, <3>1, <3>2, GptpAssumption DEF GptpAssumption, IInv, TypeOK, Timely
  <2>2. CASE port # "slave"
    BY <1>1, <2>2 DEF Timely
  <2>. QED BY <2>1, <2>2
<1>5. Attended'
  BY <1>1 DEF IInv, Attended
<1>. QED BY <1>3, <1>4, <1>5 DEF IInv

LEMMA StepHolds == IInv /\ [Next]_vars => IInv'
<1>. SUFFICES ASSUME IInv, [Next]_vars PROVE IInv'
  OBVIOUS
<1>1. CASE Sync
  BY <1>1, SyncKeeps
<1>2. ASSUME NEW off \in Offsets, FollowUp(off) PROVE IInv'
  BY <1>2, FollowUpKeeps
<1>3. CASE Poll
  BY <1>3, PollKeeps
<1>4. CASE Tick
  BY <1>4, TickKeeps
<1>5. CASE UNCHANGED vars
  BY <1>5 DEF vars, IInv, TypeOK, Timely, Attended
<1>. QED BY <1>1, <1>2, <1>3, <1>4, <1>5 DEF Next

LEMMA Invariance == Spec => []IInv
BY InitHolds, StepHolds, PTL DEF Spec

(* Every state is of its type: the ring's index and the lock's count stay in range. *)
THEOREM GptpTypes == Spec => []TypeOK
<1>1. IInv => TypeOK
  BY DEF IInv
<1>. QED BY <1>1, Invariance, PTL

(* The time-out of gptp_poll ends a lock within two time-outs of the last Sync. *)
THEOREM LocksFollowSync == Spec => []LockNeedsSync
<1>1. IInv => LockNeedsSync
  BY GptpAssumption DEF GptpAssumption, IInv, TypeOK, Timely, Attended, LockNeedsSync
<1>. QED BY <1>1, Invariance, PTL

-----------------------------------------------------------------------------
(* Where the ring keeps the i-th of its last offsets, oldest first. *)
Place(f, i) == (f.idx + WINDOW - f.filled + i - 1) % WINDOW

LEMMA PlaceIs ==
    ASSUME NEW f \in Filter, NEW i \in 1..f.filled
    PROVE  LET k == f.idx - f.filled + i - 1
           IN  Place(f, i) = (IF k < 0 THEN k + WINDOW ELSE k) /\ Place(f, i) \in Slots
<1>. DEFINE k == f.idx - f.filled + i - 1
<1>1. /\ WINDOW \in Nat /\ WINDOW > 1 /\ f.idx \in 0..(WINDOW - 1) /\ f.filled \in 0..WINDOW
      /\ i \in Nat /\ 1 <= i /\ i <= f.filled
  BY GptpAssumption DEF GptpAssumption, Filter, Slots
<1>2. k \in Int /\ k >= 0 - WINDOW /\ k <= WINDOW - 2 /\ f.idx + WINDOW - f.filled + i - 1 = k + WINDOW
  BY <1>1
<1>. HIDE DEF k
<1>3. CASE k < 0
  <2>1. k + WINDOW \in Nat /\ k + WINDOW < WINDOW
    BY <1>1, <1>2, <1>3
  <2>2. (k + WINDOW) % WINDOW = k + WINDOW
    BY <1>1, <2>1
  <2>3. Place(f, i) = k + WINDOW
    BY <1>2, <2>2 DEF Place
  <2>. QED BY <1>1, <1>3, <2>1, <2>3 DEF Slots, k
<1>4. CASE ~ (k < 0)
  <2>1. k \in Nat /\ k < WINDOW
    BY <1>1, <1>2, <1>4
  <2>2. (k + WINDOW) % WINDOW = k
    BY <1>1, <2>1
  <2>3. Place(f, i) = k
    BY <1>2, <2>2 DEF Place
  <2>. QED BY <1>1, <1>4, <2>1, <2>3 DEF Slots, k
<1>. QED BY <1>3, <1>4

(* A new offset takes the place of the oldest, and every other moves up one: what
   the ring loses at its end is what the window drops. *)
LEMMA RingSlides ==
    ASSUME NEW f \in Filter, NEW off \in Offsets
    PROVE  LET g == Entered(f, off)
           IN  /\ g.filled = IF f.filled < WINDOW THEN f.filled + 1 ELSE WINDOW
               /\ g.buf[Place(g, g.filled)] = off
               /\ \A i \in 1..(g.filled - 1) :
                     g.buf[Place(g, i)] = f.buf[Place(f, i + f.filled + 1 - g.filled)]
<1>. DEFINE g == Entered(f, off)
<1>1. /\ g \in Filter /\ g.buf = [f.buf EXCEPT ![f.idx] = off] /\ g.idx = After(f.idx)
      /\ g.filled = IF f.filled < WINDOW THEN f.filled + 1 ELSE WINDOW
  BY EnteredTyped DEF Older
<1>2. /\ WINDOW \in Nat /\ WINDOW > 1 /\ f.idx \in 0..(WINDOW - 1) /\ f.filled \in 0..WINDOW
      /\ g.filled \in 1..WINDOW /\ f.buf \in [Slots -> Offsets \cup {0}] /\ f.idx \in Slots
  BY <1>1, GptpAssumption DEF GptpAssumption, Filter, Slots
<1>. HIDE DEF g
<1>3. g.idx = IF f.idx = WINDOW - 1 THEN 0 ELSE f.idx + 1
  BY <1>1, <1>2, AfterIs
<1>4. Place(g, g.filled) = f.idx
  <2>1. LET k == g.idx - g.filled + g.filled - 1
        IN  Place(g, g.filled) = IF k < 0 THEN k + WINDOW ELSE k
    BY <1>1, <1>2, PlaceIs
  <2>2. g.idx - g.filled + g.filled - 1 = g.idx - 1
    BY <1>2, <1>3
  <2>. QED BY <1>2, <1>3, <2>1, <2>2
<1>5. g.buf[Place(g, g.filled)] = off
  BY <1>1, <1>2, <1>4
<1>6. ASSUME NEW i \in 1..(g.filled - 1)
      PROVE  g.buf[Place(g, i)] = f.buf[Place(f, i + f.filled + 1 - g.filled)]
  <2>. DEFINE j == i + f.filled + 1 - g.filled
  <2>1. /\ i \in 1..g.filled /\ j \in 1..f.filled /\ i \in Nat
        /\ f.idx - f.filled + j - 1 = f.idx - g.filled + i
        /\ i - g.filled <= 0 - 1 /\ i - g.filled > 0 - WINDOW
    BY <1>1, <1>2
  <2>2. LET k == f.idx - f.filled + j - 1
        IN  Place(f, j) = (IF k < 0 THEN k + WINDOW ELSE k) /\ Place(f, j) \in Slots
    BY <2>1, PlaceIs
  <2>3. LET k == g.idx - g.filled + i - 1
        IN  Place(g, i) = IF k < 0 THEN k + WINDOW ELSE k
    BY <1>1, <2>1, PlaceIs
  <2>. HIDE DEF j
  <2>4. Place(f, j) = IF f.idx - g.filled + i < 0 THEN f.idx - g.filled + i + WINDOW
                      ELSE f.idx - g.filled + i
    BY <2>1, <2>2
  <2>5. Place(g, i) = Place(f, j) /\ Place(g, i) # f.idx
    <3>1. CASE f.idx = WINDOW - 1
      BY <1>2, <1>3, <2>1, <2>3, <2>4, <3>1
    <3>2. CASE f.idx # WINDOW - 1
      BY <1>2, <1>3, <2>1, <2>3, <2>4, <3>2
    <3>. QED BY <3>1, <3>2
  <2>6. Place(f, j) \in Slots
    BY <2>2
  <2>. QED BY <1>1, <1>2, <2>5, <2>6 DEF j
<1>. QED BY <1>1, <1>5, <1>6 DEF g

(* In the terms of the refinement: process_follow_up slides the window. *)
LEMMA WindowSlides ==
    ASSUME filter \in Filter, NEW off \in Offsets, filter' = Entered(filter, off)
    PROVE  Window' = D!Slid(Window, off) /\ (Window = <<>> <=> filter.filled = 0)
<1>. DEFINE f == filter
            g == Entered(filter, off)
<1>1. /\ g \in Filter /\ f.filled \in 0..WINDOW /\ g.filled \in 0..WINDOW /\ WINDOW \in Nat
      /\ g.filled = IF f.filled < WINDOW THEN f.filled + 1 ELSE WINDOW
      /\ WINDOW > 1
  <2>1. g \in Filter
    BY EnteredTyped
  <2>2. g.filled = IF f.filled < WINDOW THEN f.filled + 1 ELSE WINDOW
    BY RingSlides
  <2>3. f.filled \in 0..WINDOW /\ g.filled \in 0..WINDOW
    BY <2>1 DEF Filter
  <2>. QED BY <2>1, <2>2, <2>3, GptpAssumption DEF GptpAssumption
<1>2. \A i \in 1..f.filled : f.buf[Place(f, i)] \in Offsets \cup {0}
  BY PlaceIs DEF Filter
<1>3. \A i \in 1..g.filled : g.buf[Place(g, i)] \in Offsets \cup {0}
  BY <1>1, PlaceIs DEF Filter
<1>4. Window = [i \in 1..f.filled |-> f.buf[Place(f, i)]]
  BY DEF Window, Place
<1>5. Window' = [i \in 1..g.filled |-> g.buf[Place(g, i)]]
  BY DEF Window, Place
<1>6. /\ g.buf[Place(g, g.filled)] = off
      /\ \A i \in 1..(g.filled - 1) : g.buf[Place(g, i)] = f.buf[Place(f, i + f.filled + 1 - g.filled)]
  BY RingSlides
<1>. HIDE DEF f, g
<1>7. Window \in Seq(Offsets \cup {0}) /\ Len(Window) = f.filled
  BY <1>1, <1>2, <1>4
<1>8. Window' \in Seq(Offsets \cup {0}) /\ Len(Window') = g.filled
  BY <1>1, <1>3, <1>5
<1>. DEFINE kept == IF f.filled < WINDOW THEN Window ELSE Tail(Window)
<1>9. /\ kept \in Seq(Offsets \cup {0}) /\ Len(kept) = g.filled - 1
      /\ \A i \in 1..(g.filled - 1) : kept[i] = Window[i + f.filled + 1 - g.filled]
  <2>1. CASE f.filled < WINDOW
    <3>1. kept = Window /\ g.filled = f.filled + 1
      BY <1>1, <2>1
    <3>2. \A i \in 1..(g.filled - 1) : i + f.filled + 1 - g.filled = i
      BY <1>1, <3>1
    <3>. QED BY <1>1, <1>7, <3>1, <3>2
  <2>2. CASE ~ (f.filled < WINDOW)
    <3>1. kept = Tail(Window) /\ g.filled = WINDOW /\ f.filled = WINDOW
      BY <1>1, <2>2
    <3>2. \A i \in 1..(g.filled - 1) : i + f.filled + 1 - g.filled = i + 1
      BY <1>1, <3>1
    <3>3. Window # <<>>
      BY <1>1, <1>7, <3>1
    <3>. QED BY <1>1, <1>7, <3>1, <3>2, <3>3
  <2>. QED BY <2>1, <2>2
<1>10. \A i \in 1..(g.filled - 1) : Window'[i] = kept[i]
  <2>. SUFFICES ASSUME NEW i \in 1..(g.filled - 1) PROVE Window'[i] = kept[i]
    OBVIOUS
  <2>1. i \in 1..g.filled /\ i + f.filled + 1 - g.filled \in 1..f.filled
    BY <1>1
  <2>. QED BY <1>4, <1>5, <1>6, <1>9, <2>1
<1>. HIDE DEF kept
<1>11. Append(kept, off) \in Seq(Offsets \cup {0}) /\ Len(Append(kept, off)) = g.filled
  BY <1>1, <1>9
<1>12. ASSUME NEW i \in 1..g.filled PROVE Window'[i] = Append(kept, off)[i]
  <2>1. CASE i = g.filled
    BY <1>1, <1>5, <1>6, <1>9, <2>1
  <2>2. CASE i # g.filled
    <3>1. i \in 1..(g.filled - 1)
      BY <1>1, <2>2
    <3>. QED BY <1>1, <1>9, <1>10, <3>1
  <2>. QED BY <2>1, <2>2
<1>13. Window' = Append(kept, off)
  BY <1>8, <1>11, <1>12
<1>14. Append(kept, off) = D!Slid(Window, off)
  BY <1>7 DEF D!Slid, kept
<1>15. Window = <<>> <=> f.filled = 0
  BY <1>7
<1>. QED BY <1>13, <1>14, <1>15 DEF f

-----------------------------------------------------------------------------
(* The sort of process_follow_up. *)

(* Induction is by the least counterexample. *)
LEMMA HasLeast ==
    ASSUME NEW I \in SUBSET Nat, I # {}
    PROVE  \E i \in I : \A j \in I : i <= j
<1>1. PICK i \in I : \A j \in I : <<j, i>> \notin OpToRel(<, Nat)
  BY WFMin, NatLessThanWellFounded, Zenon
<1>2. \A j \in I : ~ (j < i)
  BY <1>1, Zenon DEF OpToRel
<1>. QED BY <1>2

(* u[n] is the first n of the ring in order: what the loop of process_follow_up has
   sorted after n rounds. *)
Sorts(u, buf, m) == u = [n \in 0..m |-> IF n = 0 THEN <<>> ELSE Inserted(u[n - 1], buf[n - 1])]

LEMMA SortsMeans ==
    ASSUME NEW m \in Nat, NEW u, NEW buf, Sorts(u, buf, m)
    PROVE  u[0] = <<>> /\ \A n \in 1..m : u[n] = Inserted(u[n - 1], buf[n - 1])
<1>1. 0 \in 0..m /\ \A n \in 1..m : n \in 0..m /\ n # 0
  OBVIOUS
<1>2. \A n \in 0..m : u[n] = IF n = 0 THEN <<>> ELSE Inserted(u[n - 1], buf[n - 1])
  BY Zenon DEF Sorts
<1>. QED BY <1>1, <1>2, Zenon

(* The recursion that defines the sort has a solution. *)
LEMMA SortExists ==
    ASSUME NEW buf, NEW m \in Nat
    PROVE  \E u : Sorts(u, buf, m)
<1>. DEFINE bad == {n \in Nat : ~ \E u : Sorts(u, buf, n)}
<1>. SUFFICES ASSUME bad # {} PROVE FALSE
  OBVIOUS
<1>1. PICK n \in bad : \A j \in bad : n <= j
  <2>. bad \in SUBSET Nat
    OBVIOUS
  <2>. HIDE DEF bad
  <2>. QED BY HasLeast
<1>2. n \in Nat /\ (\A u : ~ Sorts(u, buf, n))
  OBVIOUS
<1>3. CASE n = 0
  <2>. DEFINE u == [k \in 0..0 |-> <<>>]
  <2>1. u = [k \in 0..0 |-> IF k = 0 THEN <<>> ELSE Inserted(u[k - 1], buf[k - 1])]
    OBVIOUS
  <2>2. Sorts(u, buf, 0)
    BY <2>1 DEF Sorts
  <2>. QED BY <1>2, <1>3, <2>2
<1>4. CASE n # 0
  <2>1. n - 1 \in Nat /\ ~ (n <= n - 1)
    BY <1>2, <1>4
  <2>2. PICK g : Sorts(g, buf, n - 1)
    BY <1>1, <2>1
  <2>3. g[0] = <<>> /\ \A k \in 1..(n - 1) : g[k] = Inserted(g[k - 1], buf[k - 1])
    BY <2>1, <2>2, SortsMeans
  <2>. DEFINE u == [k \in 0..n |-> IF k = 0 THEN <<>> ELSE Inserted(g[k - 1], buf[k - 1])]
  <2>4. \A k \in 0..n : u[k] = IF k = 0 THEN <<>> ELSE Inserted(g[k - 1], buf[k - 1])
    OBVIOUS
  <2>5. \A k \in 1..n : u[k - 1] = g[k - 1]
    <3>. SUFFICES ASSUME NEW k \in 1..n PROVE u[k - 1] = g[k - 1]
      OBVIOUS
    <3>. HIDE DEF u
    <3>1. k - 1 \in 0..n /\ k - 1 \in 0..(n - 1)
      BY <1>2
    <3>2. CASE k - 1 = 0
      BY <2>3, <2>4, <3>1, <3>2
    <3>3. CASE k - 1 # 0
      <4>1. k - 1 \in 1..(n - 1)
        BY <3>1, <3>3
      <4>2. u[k - 1] = Inserted(g[k - 1 - 1], buf[k - 1 - 1])
        BY <2>4, <3>1, <3>3
      <4>3. g[k - 1] = Inserted(g[k - 1 - 1], buf[k - 1 - 1])
        BY <2>3, <4>1
      <4>. QED BY <4>2, <4>3
    <3>. QED BY <3>2, <3>3
  <2>6. \A k \in 0..n : k # 0 => k \in 1..n
    BY <1>2
  <2>7. \A k \in 0..n : (IF k = 0 THEN <<>> ELSE Inserted(g[k - 1], buf[k - 1]))
                      = (IF k = 0 THEN <<>> ELSE Inserted(u[k - 1], buf[k - 1]))
    <3>. HIDE DEF u
    <3>. QED BY <2>5, <2>6
  <2>8. u = [k \in 0..n |-> IF k = 0 THEN <<>> ELSE Inserted(u[k - 1], buf[k - 1])]
    BY <2>7, Zenon
  <2>9. Sorts(u, buf, n)
    BY <2>8, Zenon DEF Sorts
  <2>. QED BY <1>2, <2>9
<1>. QED BY <1>3, <1>4

LEMMA SortedIs ==
    ASSUME NEW f
    PROVE  \E u : Sorts(u, f.buf, WINDOW) /\ Sorted(f) = u[f.filled]
<1>. DEFINE U == CHOOSE u : u = [n \in 0..WINDOW |-> IF n = 0 THEN <<>> ELSE Inserted(u[n - 1], f.buf[n - 1])]
<1>1. \E u : Sorts(u, f.buf, WINDOW)
  BY SortExists, GptpAssumption DEF GptpAssumption
<1>2. Sorts(U, f.buf, WINDOW)
  BY <1>1 DEF Sorts
<1>3. Sorted(f) = U[f.filled]
  BY DEF Sorted
<1>. QED BY <1>2, <1>3

(* Which of the first n offsets of the ring are at most v, and how many. *)
UpTo(buf, n, v) == {j \in 0..(n - 1) : buf[j] <= v}
Count(buf, n, v) == Cardinality(UpTo(buf, n, v))

LEMMA CountBounds ==
    ASSUME NEW buf, NEW n \in Nat, NEW v \in Int
    PROVE  IsFiniteSet(UpTo(buf, n, v)) /\ Count(buf, n, v) \in 0..n
<1>1. IsFiniteSet(0..(n - 1)) /\ Cardinality(0..(n - 1)) = n
  <2>1. n - 1 \in Int /\ 0 \in Int
    OBVIOUS
  <2>2. IsFiniteSet(0..(n - 1)) /\ Cardinality(0..(n - 1)) = IF 0 > n - 1 THEN 0 ELSE n - 1 - 0 + 1
    BY <2>1, FS_Interval
  <2>. QED BY <2>2
<1>2. UpTo(buf, n, v) \in SUBSET (0..(n - 1))
  BY DEF UpTo
<1>3. IsFiniteSet(UpTo(buf, n, v)) /\ Count(buf, n, v) <= n
  BY <1>1, <1>2, FS_Subset DEF Count
<1>. QED BY <1>3, FS_CardinalityType DEF Count

LEMMA CountGrows ==
    ASSUME NEW n \in Nat, NEW buf, \A j \in 0..(n - 1) : buf[j] \in Int,
           NEW v \in Int, NEW w \in Int, v <= w
    PROVE  Count(buf, n, v) <= Count(buf, n, w)
<1>1. UpTo(buf, n, v) \in SUBSET UpTo(buf, n, w)
  BY DEF UpTo
<1>. QED BY <1>1, CountBounds, FS_Subset DEF Count

LEMMA CountNext ==
    ASSUME NEW n \in Nat, NEW buf, NEW v \in Int
    PROVE  Count(buf, n + 1, v) = IF buf[n] <= v THEN Count(buf, n, v) + 1 ELSE Count(buf, n, v)
<1>1. 0..(n + 1 - 1) = 0..(n - 1) \cup {n} /\ n \notin 0..(n - 1)
  OBVIOUS
<1>2. CASE buf[n] <= v
  <2>1. UpTo(buf, n + 1, v) = UpTo(buf, n, v) \cup {n} /\ n \notin UpTo(buf, n, v)
    BY <1>1, <1>2 DEF UpTo
  <2>. QED BY <1>2, <2>1, CountBounds, FS_AddElement DEF Count
<1>3. CASE ~ (buf[n] <= v)
  <2>1. UpTo(buf, n + 1, v) = UpTo(buf, n, v)
    BY <1>1, <1>3 DEF UpTo
  <2>. QED BY <1>3, <2>1 DEF Count
<1>. QED BY <1>2, <1>3

(* A sorted arrangement of the first n offsets, said without permutations: as many of
   its elements as of theirs are at most v, and those come first. *)
Ranked(s, buf, n) ==
    /\ s \in Seq(Int) /\ Len(s) = n
    /\ \A i \in 1..n, v \in Int : s[i] <= v <=> i <= Count(buf, n, v)

(* One round of the insertion sort: everything up to the new value stays, everything
   above it moves up one. *)
LEMMA PartsOf ==
    ASSUME NEW n \in Nat, NEW s \in Seq(Int), Len(s) = n, NEW k \in 0..n
    PROVE  /\ SubSeq(s, 1, k) \in Seq(Int) /\ Len(SubSeq(s, 1, k)) = k
           /\ \A i \in 1..k : SubSeq(s, 1, k)[i] = s[i]
           /\ SubSeq(s, k + 1, n) \in Seq(Int) /\ Len(SubSeq(s, k + 1, n)) = n - k
           /\ \A i \in 1..(n - k) : SubSeq(s, k + 1, n)[i] = s[k + i]
<1>1. SubSeq(s, 1, k) \in Seq(Int) /\ Len(SubSeq(s, 1, k)) = k
  <2>1. \A i \in 1..k : s[i] \in Int
    OBVIOUS
  <2>2. SubSeq(s, 1, k) \in Seq(Int)
    BY <2>1
  <2>3. Len(SubSeq(s, 1, k)) = k
    OBVIOUS
  <2>. QED BY <2>2, <2>3
<1>2. ASSUME NEW i \in 1..k PROVE SubSeq(s, 1, k)[i] = s[i]
  OBVIOUS
<1>3. SubSeq(s, k + 1, n) \in Seq(Int) /\ Len(SubSeq(s, k + 1, n)) = n - k
  <2>1. \A i \in (k + 1)..n : s[i] \in Int
    OBVIOUS
  <2>2. SubSeq(s, k + 1, n) \in Seq(Int)
    BY <2>1
  <2>3. Len(SubSeq(s, k + 1, n)) = n - k
    OBVIOUS
  <2>. QED BY <2>2, <2>3
<1>4. ASSUME NEW i \in 1..(n - k) PROVE SubSeq(s, k + 1, n)[i] = s[k + i]
  OBVIOUS
<1>. QED BY <1>1, <1>2, <1>3, <1>4, Zenon

LEMMA InsertedIs ==
    ASSUME NEW n \in Nat, NEW s \in Seq(Int), Len(s) = n, NEW x \in Int, NEW k \in 0..n,
           k = Cardinality({i \in DOMAIN s : s[i] <= x}), NEW z, z = Inserted(s, x)
    PROVE  /\ z \in Seq(Int) /\ Len(z) = n + 1
           /\ \A i \in 1..k : z[i] = s[i]
           /\ z[k + 1] = x
           /\ \A i \in (k + 2)..(n + 1) : z[i] = s[i - 1]
<1>. DEFINE a == SubSeq(s, 1, k)
            b == SubSeq(s, k + 1, n)
            y == <<x>>
            ay == a \o y
            t == ay \o b
<1>1. Inserted(s, x) = t
  BY DEF Inserted
<1>2. /\ a \in Seq(Int) /\ Len(a) = k /\ \A i \in 1..k : a[i] = s[i]
      /\ b \in Seq(Int) /\ Len(b) = n - k /\ \A i \in 1..(n - k) : b[i] = s[k + i]
  BY PartsOf, Zenon
<1>3. y \in Seq(Int) /\ Len(y) = 1 /\ y[1] = x
  OBVIOUS
<1>. HIDE DEF a, b, y
<1>4. /\ ay \in Seq(Int) /\ Len(ay) = Len(a) + Len(y)
      /\ \A i \in 1..(Len(a) + Len(y)) : ay[i] = IF i <= Len(a) THEN a[i] ELSE y[i - Len(a)]
  BY <1>2, <1>3, ConcatProperties, Zenon
<1>. HIDE DEF ay
<1>5. /\ t \in Seq(Int) /\ Len(t) = Len(ay) + Len(b)
      /\ \A i \in 1..(Len(ay) + Len(b)) : t[i] = IF i <= Len(ay) THEN ay[i] ELSE b[i - Len(ay)]
  <2>1. ay \in Seq(Int) /\ b \in Seq(Int)
    BY <1>2, <1>4
  <2>. QED BY <2>1, ConcatProperties, Zenon
<1>. HIDE DEF t
<1>6. Len(ay) = k + 1 /\ Len(t) = n + 1 /\ Len(ay) + Len(b) = n + 1
  BY <1>2, <1>3, <1>4, <1>5
<1>7. \A i \in 1..(n + 1) : (i <= k + 1 => t[i] = ay[i]) /\ (~ (i <= k + 1) => t[i] = b[i - (k + 1)])
  BY <1>5, <1>6
<1>8. \A i \in 1..k : t[i] = s[i]
  <2>1. \A i \in 1..k : i \in 1..(n + 1) /\ i <= k /\ i <= k + 1 /\ i \in 1..(k + 1)
    OBVIOUS
  <2>2. \A i \in 1..k : ay[i] = a[i]
    BY <1>2, <1>3, <1>4, <2>1
  <2>. QED BY <1>2, <1>7, <2>1, <2>2, Zenon
<1>9. t[k + 1] = x
  <2>1. k + 1 \in 1..(n + 1) /\ k + 1 <= k + 1 /\ ~ (k + 1 <= k) /\ k + 1 - k = 1
    OBVIOUS
  <2>2. t[k + 1] = ay[k + 1]
    BY <1>7, <2>1, Zenon
  <2>3. ay[k + 1] = y[1]
    <3>1. /\ k + 1 \in 1..(Len(a) + Len(y)) /\ ~ (k + 1 <= Len(a)) /\ k + 1 - Len(a) = 1
      BY <1>2, <1>3
    <3>2. ay[k + 1] = IF k + 1 <= Len(a) THEN a[k + 1] ELSE y[k + 1 - Len(a)]
      BY <1>4, <3>1
    <3>. QED BY <3>1, <3>2
  <2>. QED BY <1>3, <2>2, <2>3, Zenon
<1>10. \A i \in (k + 2)..(n + 1) : t[i] = s[i - 1]
  <2>1. \A i \in (k + 2)..(n + 1) :
        /\ i \in 1..(n + 1) /\ ~ (i <= k + 1)
        /\ i - (k + 1) \in 1..(n - k) /\ k + (i - (k + 1)) = i - 1
    OBVIOUS
  <2>. QED BY <1>2, <1>7, <2>1, Zenon
<1>. QED BY <1>1, <1>5, <1>6, <1>8, <1>9, <1>10, Zenon

(* The loop invariant of the sort. *)
LEMMA InsertKeepsRank ==
    ASSUME NEW n \in Nat, NEW buf, \A j \in 0..n : buf[j] \in Int,
           NEW s, Ranked(s, buf, n)
    PROVE  Ranked(Inserted(s, buf[n]), buf, n + 1)
<1>. DEFINE x == buf[n]
            k == Count(buf, n, x)
            t == Inserted(s, x)
<1>1. x \in Int /\ s \in Seq(Int) /\ Len(s) = n /\ k \in 0..n /\ DOMAIN s = 1..n
  <2>1. x \in Int /\ s \in Seq(Int) /\ Len(s) = n
    BY DEF Ranked
  <2>. QED BY <2>1, CountBounds
<1>2. \A i \in 1..n, v \in Int : s[i] <= v <=> i <= Count(buf, n, v)
  BY DEF Ranked
<1>3. ASSUME NEW v \in Int
      PROVE  /\ Count(buf, n, v) \in 0..n
             /\ v <= x => Count(buf, n, v) <= k
             /\ x <= v => k <= Count(buf, n, v)
             /\ Count(buf, n + 1, v) = IF x <= v THEN Count(buf, n, v) + 1 ELSE Count(buf, n, v)
  <2>1. \A j \in 0..(n - 1) : buf[j] \in Int
    OBVIOUS
  <2>2. Count(buf, n, v) \in 0..n
    BY CountBounds, Zenon
  <2>3. (v <= x => Count(buf, n, v) <= k) /\ (x <= v => k <= Count(buf, n, v))
    BY <1>1, <2>1, CountGrows, Zenon
  <2>4. Count(buf, n + 1, v) = IF x <= v THEN Count(buf, n, v) + 1 ELSE Count(buf, n, v)
    BY CountNext, Zenon
  <2>. QED BY <2>2, <2>3, <2>4, Zenon
<1>. HIDE DEF k, x
<1>4. k = Cardinality({i \in DOMAIN s : s[i] <= x})
  <2>0. \A i \in 1..n : s[i] <= x <=> i <= k
    BY <1>1, <1>2 DEF k
  <2>1. {i \in DOMAIN s : s[i] <= x} = 1..k
    <3>1. {i \in DOMAIN s : s[i] <= x} = {i \in 1..n : i <= k}
      BY <1>1, <2>0, Zenon
    <3>2. {i \in 1..n : i <= k} = 1..k
      BY <1>1
    <3>. QED BY <3>1, <3>2
  <2>2. Cardinality(1..k) = IF 1 > k THEN 0 ELSE k - 1 + 1
    <3>1. 1 \in Int /\ k \in Int
      BY <1>1
    <3>. QED BY <3>1, FS_Interval, Zenon
  <2>3. (IF 1 > k THEN 0 ELSE k - 1 + 1) = k
    BY <1>1
  <2>. QED BY <2>1, <2>2, <2>3, Zenon
<1>5. /\ t \in Seq(Int) /\ Len(t) = n + 1
      /\ \A i \in 1..k : t[i] = s[i]
      /\ t[k + 1] = x
      /\ \A i \in (k + 2)..(n + 1) : t[i] = s[i - 1]
  <2>1. \A z : z = Inserted(s, x) =>
           /\ z \in Seq(Int) /\ Len(z) = n + 1
           /\ \A i \in 1..k : z[i] = s[i]
           /\ z[k + 1] = x
           /\ \A i \in (k + 2)..(n + 1) : z[i] = s[i - 1]
    BY <1>1, <1>4, InsertedIs, Zenon
  <2>. QED BY <2>1, Zenon
<1>. HIDE DEF t
<1>6. ASSUME NEW i \in 1..(n + 1), NEW v \in Int
      PROVE  t[i] <= v <=> i <= Count(buf, n + 1, v)
  <2>. DEFINE c == Count(buf, n, v)
              d == Count(buf, n + 1, v)
  <2>1. /\ c \in 0..n
        /\ v <= x => c <= k
        /\ x <= v => k <= c
        /\ d = IF x <= v THEN c + 1 ELSE c
    BY <1>3
  <2>2. \A h \in 1..n : s[h] <= v <=> h <= c
    BY <1>2
  <2>. HIDE DEF c, d
  <2>3. CASE i <= k
    <3>1. t[i] = s[i] /\ i \in 1..n
      BY <1>1, <1>5, <2>3
    <3>2. t[i] <= v <=> i <= c
      BY <2>2, <3>1
    <3>3. i <= c <=> i <= d
      BY <1>1, <2>1, <2>3
    <3>. QED BY <3>2, <3>3 DEF d
  <2>4. CASE i = k + 1
    BY <1>1, <1>5, <2>1, <2>4 DEF d
  <2>5. CASE i > k + 1
    <3>1. t[i] = s[i - 1] /\ i - 1 \in 1..n
      BY <1>1, <1>5, <2>5
    <3>2. t[i] <= v <=> i - 1 <= c
      BY <2>2, <3>1
    <3>3. i - 1 <= c <=> i <= d
      BY <1>1, <2>1, <2>5
    <3>. QED BY <3>2, <3>3 DEF d
  <2>. QED BY <1>1, <2>3, <2>4, <2>5
<1>7. Ranked(t, buf, n + 1)
  BY <1>1, <1>5, <1>6 DEF Ranked
<1>. QED BY <1>7 DEF t, x

(* Hence the sort sorts ... *)
LEMMA SortRanks ==
    ASSUME NEW m \in Nat, NEW buf, \A j \in 0..(m - 1) : buf[j] \in Int,
           NEW u, Sorts(u, buf, m)
    PROVE  \A n \in 0..m : Ranked(u[n], buf, n)
<1>. DEFINE bad == {n \in 0..m : ~ Ranked(u[n], buf, n)}
<1>. SUFFICES ASSUME bad # {} PROVE FALSE
  OBVIOUS
<1>1. PICK n \in bad : \A j \in bad : n <= j
  <2>. bad \in SUBSET Nat
    OBVIOUS
  <2>. HIDE DEF bad
  <2>. QED BY HasLeast
<1>2. n \in 0..m /\ ~ Ranked(u[n], buf, n)
  OBVIOUS
<1>3. u[0] = <<>> /\ \A k \in 1..m : u[k] = Inserted(u[k - 1], buf[k - 1])
  BY SortsMeans
<1>4. CASE n = 0
  <2>1. Ranked(<<>>, buf, 0)
    BY DEF Ranked
  <2>. QED BY <1>2, <1>3, <1>4, <2>1
<1>5. CASE n # 0
  <2>1. n - 1 \in Nat /\ n - 1 \in 0..m /\ ~ (n <= n - 1) /\ n \in 1..m /\ n - 1 + 1 = n
    BY <1>2, <1>5
  <2>2. Ranked(u[n - 1], buf, n - 1)
    BY <1>1, <2>1
  <2>3. \A j \in 0..(n - 1) : buf[j] \in Int
    BY <1>2
  <2>4. Ranked(Inserted(u[n - 1], buf[n - 1]), buf, n - 1 + 1)
    BY <2>1, <2>2, <2>3, InsertKeepsRank, Zenon
  <2>5. Ranked(u[n], buf, n)
    BY <1>3, <2>1, <2>4, Zenon
  <2>. QED BY <1>2, <2>5
<1>. QED BY <1>4, <1>5

(* ... and its element n \div 2 is the middle one. *)
LEMMA RankedMiddle ==
    ASSUME NEW n \in Nat \ {0}, NEW buf, \A j \in 0..(n - 1) : buf[j] \in Int,
           NEW s, Ranked(s, buf, n)
    PROVE  LET m == s[n \div 2 + 1]
           IN  /\ m \in Int
               /\ \A v \in Int : m <= v <=> Count(buf, n, v) > n \div 2
               /\ \E j \in 0..(n - 1) : buf[j] = m
<1>. DEFINE k == n \div 2 + 1
            m == s[k]
<1>1. k \in 1..n /\ n \div 2 \in Nat
  OBVIOUS
<1>2. s \in Seq(Int) /\ Len(s) = n /\ \A v \in Int : s[k] <= v <=> k <= Count(buf, n, v)
  BY <1>1 DEF Ranked
<1>. HIDE DEF k
<1>3. m \in Int
  BY <1>1, <1>2
<1>. HIDE DEF m
<1>4. ASSUME NEW v \in Int PROVE m <= v <=> Count(buf, n, v) > n \div 2
  <2>1. m <= v <=> k <= Count(buf, n, v)
    BY <1>2 DEF m
  <2>2. Count(buf, n, v) \in Nat
    BY CountBounds
  <2>. QED BY <1>1, <2>1, <2>2 DEF k
<1>5. \E j \in 0..(n - 1) : buf[j] = m
  <2>. SUFFICES ASSUME \A j \in 0..(n - 1) : buf[j] # m PROVE FALSE
    OBVIOUS
  <2>1. UpTo(buf, n, m) = UpTo(buf, n, m - 1)
    BY <1>3 DEF UpTo
  <2>2. Count(buf, n, m) = Count(buf, n, m - 1)
    BY <2>1 DEF Count
  <2>3. m - 1 \in Int /\ m <= m /\ ~ (m <= m - 1)
    BY <1>3
  <2>. QED BY <1>3, <1>4, <2>2, <2>3
<1>. QED BY <1>3, <1>4, <1>5 DEF m, k

-----------------------------------------------------------------------------
(* Until the ring is full it is filled from its start, and what it counts as filled
   are offsets. *)
Ringed(f) ==
    /\ f.filled < WINDOW => f.idx = f.filled
    /\ \A j \in 0..(f.filled - 1) : f.buf[j] \in Offsets

(* Window and ring hold the same offsets. *)
LEMMA PlaceOneToOne ==
    ASSUME NEW f \in Filter, Ringed(f)
    PROVE  /\ \A i \in 1..f.filled : Place(f, i) \in 0..(f.filled - 1)
           /\ \A i, h \in 1..f.filled : Place(f, i) = Place(f, h) => i = h
           /\ \A j \in 0..(f.filled - 1) : \E i \in 1..f.filled : Place(f, i) = j
<1>. DEFINE n == f.filled
            x == f.idx
<1>1. /\ WINDOW \in Nat /\ WINDOW > 1 /\ n \in 0..WINDOW /\ x \in 0..(WINDOW - 1)
      /\ n < WINDOW => x = n
  BY GptpAssumption DEF GptpAssumption, Filter, Slots, Ringed
<1>2. \A i \in 1..n : Place(f, i) = IF x - n + i - 1 < 0 THEN x - n + i - 1 + WINDOW ELSE x - n + i - 1
  BY PlaceIs
<1>. HIDE DEF n, x
<1>3. CASE n < WINDOW
  <2>1. x = n /\ \A i \in 1..n : x - n + i - 1 = i - 1 /\ ~ (x - n + i - 1 < 0)
    BY <1>1, <1>3
  <2>2. \A i \in 1..n : Place(f, i) = i - 1
    BY <1>2, <2>1
  <2>3. \A i \in 1..n : Place(f, i) \in 0..(n - 1)
    BY <1>1, <2>2
  <2>4. \A i, h \in 1..n : Place(f, i) = Place(f, h) => i = h
    BY <1>1, <2>2
  <2>5. ASSUME NEW j \in 0..(n - 1) PROVE \E i \in 1..n : Place(f, i) = j
    <3>1. j + 1 \in 1..n /\ j + 1 - 1 = j
      BY <1>1
    <3>. QED BY <2>2, <3>1
  <2>. QED BY <2>3, <2>4, <2>5 DEF n
<1>4. CASE ~ (n < WINDOW)
  <2>1. n = WINDOW /\ \A i \in 1..n : x - n + i - 1 + WINDOW = x + i - 1
    BY <1>1, <1>4
  <2>2. \A i \in 1..n : Place(f, i) = IF x + i - 1 < n THEN x + i - 1 ELSE x + i - 1 - n
    BY <1>1, <1>2, <2>1
  <2>3. \A i \in 1..n : Place(f, i) \in 0..(n - 1)
    BY <1>1, <2>1, <2>2
  <2>4. \A i, h \in 1..n : Place(f, i) = Place(f, h) => i = h
    BY <1>1, <2>1, <2>2
  <2>5. ASSUME NEW j \in 0..(n - 1) PROVE \E i \in 1..n : Place(f, i) = j
    <3>1. CASE j < x
      <4>1. j - x + n + 1 \in 1..n /\ x + (j - x + n + 1) - 1 = j + n
        BY <1>1, <2>1, <3>1
      <4>2. Place(f, j - x + n + 1) = j
        BY <1>1, <2>1, <2>2, <4>1
      <4>. QED BY <4>1, <4>2
    <3>2. CASE ~ (j < x)
      <4>1. j - x + 1 \in 1..n /\ x + (j - x + 1) - 1 = j
        BY <1>1, <2>1, <3>2
      <4>2. Place(f, j - x + 1) = j
        BY <1>1, <2>1, <2>2, <4>1
      <4>. QED BY <4>1, <4>2
    <3>. QED BY <3>1, <3>2
  <2>. QED BY <2>3, <2>4, <2>5 DEF n
<1>. QED BY <1>3, <1>4

LEMMA WindowCounts ==
    ASSUME filter \in Filter, Ringed(filter), NEW v \in Int
    PROVE  /\ Window \in Seq(Offsets) /\ Window \in Seq(Int) /\ Len(Window) = filter.filled
           /\ IsFiniteSet({i \in DOMAIN Window : Window[i] <= v})
           /\ Cardinality({i \in DOMAIN Window : Window[i] <= v}) = Count(filter.buf, filter.filled, v)
<1>. DEFINE n == filter.filled
            A == {i \in 1..n : filter.buf[Place(filter, i)] <= v}
            B == UpTo(filter.buf, n, v)
            p == [i \in A |-> Place(filter, i)]
<1>1. n \in Nat
  BY GptpAssumption DEF GptpAssumption, Filter
<1>2. /\ \A i \in 1..n : Place(filter, i) \in 0..(n - 1)
      /\ \A i, h \in 1..n : Place(filter, i) = Place(filter, h) => i = h
      /\ \A j \in 0..(n - 1) : \E i \in 1..n : Place(filter, i) = j
  BY PlaceOneToOne
<1>3. Window = [i \in 1..n |-> filter.buf[Place(filter, i)]]
  BY DEF Window, Place
<1>4. \A i \in 1..n : filter.buf[Place(filter, i)] \in Offsets /\ filter.buf[Place(filter, i)] \in Int
  BY <1>2, GptpAssumption DEF GptpAssumption, Ringed
<1>. HIDE DEF n
<1>5. Window \in Seq(Offsets) /\ Window \in Seq(Int) /\ Len(Window) = n /\ DOMAIN Window = 1..n
  BY <1>1, <1>3, <1>4
<1>6. {i \in DOMAIN Window : Window[i] <= v} = A
  BY <1>3, <1>5
<1>7. p \in [A -> B]
  BY <1>2 DEF UpTo
<1>8. \A i, h \in A : p[i] = p[h] => i = h
  BY <1>2
<1>9. \A j \in B : \E i \in A : p[i] = j
  <2>. SUFFICES ASSUME NEW j \in B PROVE \E i \in A : p[i] = j
    OBVIOUS
  <2>1. j \in 0..(n - 1) /\ filter.buf[j] <= v
    BY DEF UpTo
  <2>2. PICK i \in 1..n : Place(filter, i) = j
    BY <1>2, <2>1
  <2>. QED BY <2>1, <2>2
<1>10. IsFiniteSet(B) /\ Cardinality(B) = Count(filter.buf, n, v)
  BY <1>1, CountBounds DEF Count
<1>. HIDE DEF A, B, p
<1>11. p \in Bijection(A, B)
  <2>1. p \in Injection(A, B)
    BY <1>7, <1>8, Zenon DEF Injection, IsInjective
  <2>2. p \in Surjection(A, B)
    BY <1>7, <1>9, Zenon DEF Surjection
  <2>. QED BY <2>1, <2>2, Zenon DEF Bijection
<1>12. IsFiniteSet(A) /\ Cardinality(A) = Cardinality(B)
  <2>1. p \in Injection(A, B) /\ p \in Surjection(A, B)
    BY <1>11 DEF Bijection
  <2>. QED BY <1>10, <2>1, FS_Injection
<1>. QED BY <1>5, <1>6, <1>10, <1>12 DEF n

(* Discipline has its own copy of FiniteSets. *)
LEMMA SameSize ==
    ASSUME NEW S
    PROVE  D!Cardinality(S) = Cardinality(S)
BY Zenon DEF D!Cardinality, Cardinality

(* What the insertion sort of process_follow_up finds is the median of the window. *)
LEMMA MedianFound ==
    ASSUME filter \in Filter, Ringed(filter), filter.filled # 0
    PROVE  /\ Median(filter) \in Offsets /\ Median(filter) = D!Middle(Window)
           /\ Cardinality({i \in DOMAIN Window : Window[i] < Median(filter)}) <= Len(Window) \div 2
           /\ Cardinality({i \in DOMAIN Window : Window[i] > Median(filter)})
                < Len(Window) - Len(Window) \div 2
<1>. DEFINE n == filter.filled
            m == Median(filter)
            w == Window
            h == n \div 2
            LE(v) == Cardinality({i \in DOMAIN w : w[i] <= v})
            Mid(v) == /\ \E i \in DOMAIN w : w[i] = v
                      /\ Cardinality({i \in DOMAIN w : w[i] < v}) <= Len(w) \div 2
                      /\ Cardinality({i \in DOMAIN w : w[i] > v}) < Len(w) - Len(w) \div 2
<1>1. n \in Nat \ {0} /\ n \in 0..WINDOW /\ WINDOW \in Nat /\ Offsets \subseteq Int
  BY GptpAssumption DEF GptpAssumption, Filter
<1>2. /\ \A j \in 0..(n - 1) : filter.buf[j] \in Offsets
      /\ \A j \in 0..(WINDOW - 1) : filter.buf[j] \in Int
  <2>1. filter.buf \in [Slots -> Offsets \cup {0}]
    BY DEF Filter
  <2>2. \A j \in 0..(WINDOW - 1) : filter.buf[j] \in Int
    <3>1. \A j \in 0..(WINDOW - 1) : filter.buf[j] \in Offsets \cup {0}
      BY <2>1, Zenon DEF Slots
    <3>2. Offsets \cup {0} \subseteq Int
      BY <1>1
    <3>. QED BY <3>1, <3>2, Zenon
  <2>. QED BY <2>2 DEF Ringed
<1>3. PICK u : Sorts(u, filter.buf, WINDOW) /\ Sorted(filter) = u[n]
  BY SortedIs
<1>4. Ranked(u[n], filter.buf, n)
  BY <1>1, <1>2, <1>3, SortRanks, Zenon
<1>5. m = u[n][h + 1]
  BY <1>3 DEF Median
<1>6. \A j \in 0..(n - 1) : filter.buf[j] \in Int
  BY <1>1, <1>2
<1>7. /\ u[n][h + 1] \in Int
      /\ \A v \in Int : u[n][h + 1] <= v <=> Count(filter.buf, n, v) > h
      /\ \E j \in 0..(n - 1) : filter.buf[j] = u[n][h + 1]
  BY <1>1, <1>4, <1>6, RankedMiddle, Zenon
<1>8. m \in Offsets /\ m \in Int
  BY <1>1, <1>2, <1>5, <1>7
<1>9. \A v \in Int : m <= v <=> Count(filter.buf, n, v) > h
  BY <1>5, <1>7, Zenon
<1>10. /\ w \in Seq(Offsets) /\ Len(w) = n /\ DOMAIN w = 1..n
       /\ \A v \in Int : IsFiniteSet({i \in DOMAIN w : w[i] <= v}) /\ LE(v) = Count(filter.buf, n, v)
  <2>1. w \in Seq(Offsets) /\ Len(w) = n
    <3>1. 0 \in Int
      OBVIOUS
    <3>. QED BY <3>1, WindowCounts, Zenon
  <2>2. \A v \in Int : IsFiniteSet({i \in DOMAIN w : w[i] <= v}) /\ LE(v) = Count(filter.buf, n, v)
    BY WindowCounts, Zenon
  <2>. HIDE DEF w
  <2>3. DOMAIN w = 1..n
    BY <2>1
  <2>. QED BY <2>1, <2>2, <2>3
<1>11. \A i \in 1..n : w[i] \in Offsets /\ w[i] \in Int
  <2>1. w \in Seq(Offsets) /\ Len(w) = n
    BY <1>10
  <2>. HIDE DEF w
  <2>2. \A i \in 1..n : w[i] \in Offsets
    BY <2>1, ElementOfSeq, Zenon
  <2>. QED BY <1>1, <2>2
<1>12. \A v \in Int : LE(v) \in 0..n /\ (m <= v <=> LE(v) > h)
  BY <1>1, <1>9, <1>10, CountBounds
<1>13. h \in Nat /\ h < n
  BY <1>1
<1>. HIDE DEF m, w, n, h
<1>14. ASSUME NEW v \in Int
       PROVE  /\ Cardinality({i \in DOMAIN w : w[i] < v}) = LE(v - 1)
              /\ Cardinality({i \in DOMAIN w : w[i] > v}) = n - LE(v)
  <2>1. {i \in DOMAIN w : w[i] < v} = {i \in DOMAIN w : w[i] <= v - 1}
    BY <1>10, <1>11
  <2>. DEFINE L == {i \in DOMAIN w : w[i] <= v}
              G == {i \in DOMAIN w : w[i] > v}
  <2>2. L \cup G = 1..n /\ L \cap G = {} /\ G \subseteq 1..n
    BY <1>10, <1>11
  <2>3. IsFiniteSet(1..n) /\ Cardinality(1..n) = n
    <3>1. IsFiniteSet(1..n) /\ Cardinality(1..n) = IF 1 > n THEN 0 ELSE n - 1 + 1
      <4>1. 1 \in Int /\ n \in Int
        BY <1>1
      <4>. QED BY <4>1, FS_Interval, Zenon
    <3>. QED BY <1>1, <3>1
  <2>4. IsFiniteSet(L)
    BY <1>10
  <2>. HIDE DEF L, G
  <2>5. IsFiniteSet(G)
    BY <2>2, <2>3, FS_Subset
  <2>6. Cardinality(L \cup G) = Cardinality(L) + Cardinality(G) - Cardinality(L \cap G)
    BY <2>4, <2>5, FS_Union
  <2>7. Cardinality(L) \in Nat /\ Cardinality(G) \in Nat /\ Cardinality({}) = 0
    BY <2>4, <2>5, FS_CardinalityType, FS_EmptySet
  <2>8. Cardinality(G) = n - Cardinality(L)
    <3>1. n = Cardinality(L) + Cardinality(G) - 0
      BY <2>2, <2>3, <2>6, <2>7, Zenon
    <3>. QED BY <1>1, <2>7, <3>1
  <2>. QED BY <2>1, <2>8 DEF L, G
<1>15. Mid(m)
  <2>1. m - 1 \in Int /\ m <= m /\ ~ (m <= m - 1)
    BY <1>8
  <2>2. LE(m - 1) <= h /\ LE(m) > h /\ LE(m) \in 0..n
    BY <1>8, <1>12, <1>13, <2>1
  <2>3. \E i \in DOMAIN w : w[i] = m
    <3>. SUFFICES ASSUME \A i \in DOMAIN w : w[i] # m PROVE FALSE
      OBVIOUS
    <3>1. {i \in DOMAIN w : w[i] <= m} = {i \in DOMAIN w : w[i] <= m - 1}
      BY <1>8, <1>10, <1>11
    <3>2. LE(m) = LE(m - 1)
      BY <3>1
    <3>. QED BY <1>8, <1>12, <2>1, <3>2
  <2>4. Len(w) \div 2 = h /\ Len(w) = n
    BY <1>10 DEF h
  <2>5. Cardinality({i \in DOMAIN w : w[i] < m}) = LE(m - 1)
    BY <1>8, <1>14
  <2>6. Cardinality({i \in DOMAIN w : w[i] > m}) = n - LE(m)
    BY <1>8, <1>14
  <2>. HIDE DEF LE
  <2>7. LE(m - 1) <= h /\ n - LE(m) < n - h
    BY <1>1, <1>13, <2>2
  <2>. QED BY <2>3, <2>4, <2>5, <2>6, <2>7, Zenon
<1>16. ASSUME NEW v \in Offsets, Mid(v) PROVE v = m
  <2>1. v \in Int /\ v - 1 \in Int
    BY <1>1
  <2>2. Len(w) \div 2 = h /\ Len(w) = n
    BY <1>10 DEF h
  <2>3. LE(v - 1) <= h /\ n - LE(v) < n - h
    BY <1>14, <1>16, <2>1, <2>2, Zenon
  <2>. HIDE DEF LE, Mid
  <2>4. LE(v) > h /\ ~ (LE(v - 1) > h)
    BY <1>1, <1>12, <1>13, <2>1, <2>3
  <2>5. m <= v /\ ~ (m <= v - 1)
    BY <1>12, <2>1, <2>4
  <2>. QED BY <1>8, <2>1, <2>5
<1>17. D!Middle(w) = CHOOSE v \in Offsets : Mid(v)
  BY SameSize, Zenon DEF D!Middle
<1>. HIDE DEF Mid
<1>18. D!Middle(w) = m
  BY <1>8, <1>15, <1>16, <1>17
<1>19. /\ Cardinality({i \in DOMAIN w : w[i] < m}) <= Len(w) \div 2
       /\ Cardinality({i \in DOMAIN w : w[i] > m}) < Len(w) - Len(w) \div 2
  BY <1>15, Zenon DEF Mid
<1>. QED BY <1>8, <1>18, <1>19, Zenon DEF m, w

-----------------------------------------------------------------------------
(* The first offset steps the clock, so that the servo has stepped when the window
   holds an offset. *)
Stepped == servo.stepped <=> filter.filled # 0

(* The servo is given the middle of the window. *)
MedianIsMiddle ==
    filter.filled # 0 => Median(filter) \in Offsets /\ Median(filter) = D!Middle(Window)

LEMMA SteppedInit == Init => Stepped /\ D!Init
<1>. SUFFICES ASSUME Init PROVE Stepped /\ D!Init
  OBVIOUS
<1>1. filter.filled = 0 /\ ~ servo.stepped /\ servo.good = 0 /\ servo.locked = FALSE /\ did = "none"
  BY DEF Init
<1>2. Window = <<>>
  BY <1>1 DEF Window
<1>. QED BY <1>1, <1>2 DEF Stepped, D!Init

LEMMA FollowUpSimulates ==
    ASSUME IInv, Stepped, NEW off \in Offsets, FollowUp(off), MedianIsMiddle'
    PROVE  Stepped' /\ D!Observe(off)
<1>. DEFINE m == Median(filter')
<1>1. /\ filter \in Filter /\ filter' = Entered(filter, off) /\ filter'.filled # 0
      /\ servo \in Servo /\ filter.filled \in Nat
  <2>1. filter \in Filter /\ filter' = Entered(filter, off)
    BY DEF FollowUp, IInv, TypeOK, Filter
  <2>2. filter'.filled = IF filter.filled < WINDOW THEN filter.filled + 1 ELSE WINDOW
    BY <2>1, RingSlides
  <2>3. filter.filled \in Nat /\ filter'.filled # 0
    BY <2>1, <2>2, GptpAssumption DEF GptpAssumption, Filter
  <2>. QED BY <2>1, <2>3 DEF IInv, TypeOK, Servo
<1>2. Window' = D!Slid(Window, off) /\ (Window = <<>> <=> filter.filled = 0)
  BY <1>1, WindowSlides
<1>3. m \in Int /\ m = D!Middle(Window')
  BY <1>1, GptpAssumption DEF GptpAssumption, MedianIsMiddle
<1>4. ServoUpdate(m)
  BY DEF FollowUp
<1>5. Abs(m) = D!Size(m) /\ Abs(m) \in Int
  BY <1>3 DEF Abs, D!Size
<1>. HIDE DEF m
<1>6. CASE Coarse(m) /\ servo' = [servo EXCEPT !.stepped = TRUE] /\ did' = "step"
  <2>1. servo'.stepped /\ servo'.good = servo.good /\ servo'.locked = servo.locked
    BY <1>1, <1>6 DEF Servo
  <2>2. Window = <<>> \/ D!Size(m) > BIG
    BY <1>2, <1>5, <1>6 DEF Coarse, Stepped
  <2>3. D!Set(m)
    BY <1>6, <2>1, <2>2 DEF D!Set
  <2>. QED BY <1>1, <1>2, <1>3, <2>1, <2>3 DEF Stepped, D!Observe
<1>7. CASE ~ Coarse(m) /\ servo' = Judged(servo, m) /\ did' = "tune"
  <2>1. servo.stepped /\ Window # <<>> /\ ~ (Abs(m) > BIG)
    BY <1>1, <1>2, <1>7 DEF Coarse, Stepped
  <2>2. servo'.stepped
    BY <1>1, <1>7, <2>1, JudgedTyped
  <2>3. D!Size(m) <= BIG
    BY <1>5, <2>1, GptpAssumption DEF GptpAssumption
  <2>4. D!Tune(m)
    <3>1. CASE ~ servo.locked /\ Abs(m) < GOOD /\ servo.good < LOCK
      <4>1. servo'.good = servo.good + 1 /\ servo'.locked = servo.locked
        BY <1>1, <1>7, <3>1 DEF Judged, Earned, Servo
      <4>. QED BY <1>5, <1>7, <2>1, <2>3, <3>1, <4>1 DEF D!Tune
    <3>2. CASE ~ servo.locked /\ Abs(m) < GOOD /\ ~ (servo.good < LOCK)
      <4>1. servo'.locked = TRUE /\ servo'.good = servo.good /\ servo.good = LOCK
        BY <1>1, <1>7, <3>2, GptpAssumption DEF GptpAssumption, Judged, Earned, Servo
      <4>. QED BY <1>5, <1>7, <2>1, <2>3, <3>2, <4>1 DEF D!Tune
    <3>3. CASE ~ servo.locked /\ ~ (Abs(m) < GOOD)
      <4>1. servo'.good = 0 /\ servo'.locked = servo.locked
        BY <1>1, <1>7, <3>3 DEF Judged, Servo
      <4>2. D!Size(m) >= GOOD
        BY <1>5, <3>3, GptpAssumption DEF GptpAssumption
      <4>. QED BY <1>5, <1>7, <2>1, <2>3, <3>3, <4>1, <4>2 DEF D!Tune
    <3>4. CASE servo.locked /\ Abs(m) > BAD
      <4>1. servo'.good = 0 /\ servo'.locked = FALSE
        BY <1>1, <1>7, <3>4 DEF Judged, Servo
      <4>. QED BY <1>5, <1>7, <2>1, <2>3, <3>4, <4>1 DEF D!Tune
    <3>5. CASE servo.locked /\ ~ (Abs(m) > BAD)
      <4>1. servo' = servo
        BY <1>7, <3>5 DEF Judged
      <4>2. D!Size(m) <= BAD
        BY <1>5, <3>5, GptpAssumption DEF GptpAssumption
      <4>. QED BY <1>5, <1>7, <2>1, <2>3, <3>5, <4>1, <4>2 DEF D!Tune
    <3>. QED BY <3>1, <3>2, <3>3, <3>4, <3>5
  <2>. QED BY <1>1, <1>2, <1>3, <2>2, <2>4 DEF Stepped, D!Observe
<1>. QED BY <1>4, <1>6, <1>7 DEF ServoUpdate

(* Everything else is silence to the servo. *)
LEMMA OthersSimulate ==
    ASSUME IInv, Stepped, Sync \/ Poll \/ Tick
    PROVE  Stepped' /\ D!Silence
<1>1. filter' = filter /\ did' = "none"
  BY DEF Sync, Poll, Tick
<1>2. servo \in Servo
  BY DEF IInv, TypeOK, Servo
<1>3. /\ servo'.stepped = servo.stepped /\ servo'.good = servo.good
      /\ servo'.locked \in {FALSE, servo.locked}
  BY <1>2 DEF Sync, Poll, Tick, TimedOut, Servo
<1>4. Window' = Window
  BY <1>1 DEF Window
<1>. QED BY <1>1, <1>3, <1>4 DEF Stepped, D!Silence

LEMMA StepSimulates ==
    IInv /\ Stepped /\ MedianIsMiddle' /\ [Next]_vars => Stepped' /\ [D!Next]_(D!vars)
<1>. SUFFICES ASSUME IInv, Stepped, MedianIsMiddle', [Next]_vars
              PROVE  Stepped' /\ [D!Next]_(D!vars)
  OBVIOUS
<1>1. CASE Sync \/ Poll \/ Tick
  BY <1>1, OthersSimulate DEF D!Next
<1>2. ASSUME NEW off \in Offsets, FollowUp(off) PROVE Stepped' /\ [D!Next]_(D!vars)
  BY <1>2, FollowUpSimulates DEF D!Next
<1>3. CASE UNCHANGED vars
  <2>1. Window' = Window
    BY <1>3 DEF vars, Window
  <2>. QED BY <1>3, <2>1 DEF vars, Stepped, D!vars
<1>. QED BY <1>1, <1>2, <1>3 DEF Next

-----------------------------------------------------------------------------
(* At most half of the window lies below its median, and less than half above. *)
MedianSplits ==
    filter.filled # 0 =>
      /\ Median(filter) \in Int /\ Len(Window) = filter.filled /\ Window \in Seq(Int)
      /\ Cardinality({i \in DOMAIN Window : Window[i] < Median(filter)}) <= Len(Window) \div 2
      /\ Cardinality({i \in DOMAIN Window : Window[i] > Median(filter)})
           < Len(Window) - Len(Window) \div 2

(* The last calm offsets of the window are not huge. *)
Quiet ==
    /\ calm \in 0..filter.filled
    /\ \A i \in 1..filter.filled : i > filter.filled - calm => Abs(Window[i]) <= BIG

RInv == IInv /\ Ringed(filter) /\ Stepped /\ Quiet /\ StepsSettle

LEMMA RingMeans == IInv /\ Ringed(filter) => MedianIsMiddle /\ MedianSplits
<1>. SUFFICES ASSUME IInv, Ringed(filter), filter.filled # 0
              PROVE  MedianIsMiddle /\ MedianSplits
  BY DEF MedianIsMiddle, MedianSplits
<1>1. filter \in Filter
  BY DEF IInv, TypeOK, Filter
<1>2. Median(filter) \in Int
  BY <1>1, MedianFound, GptpAssumption DEF GptpAssumption
<1>3. Len(Window) = filter.filled /\ Window \in Seq(Int)
  <2>1. 0 \in Int
    OBVIOUS
  <2>. QED BY <1>1, <2>1, WindowCounts, Zenon
<1>. QED BY <1>1, <1>2, <1>3, MedianFound, Zenon DEF MedianIsMiddle, MedianSplits

LEMMA RingInit == Init => RInv
<1>. SUFFICES ASSUME Init PROVE RInv
  OBVIOUS
<1>1. filter.filled = 0 /\ filter.idx = 0 /\ calm = 0 /\ did = "none"
  BY DEF Init
<1>2. Ringed(filter) /\ Quiet /\ StepsSettle
  BY <1>1 DEF Ringed, Quiet, StepsSettle
<1>. QED BY <1>2, InitHolds, SteppedInit DEF RInv

LEMMA EnterKeepsRing ==
    ASSUME NEW f \in Filter, Ringed(f), NEW off \in Offsets
    PROVE  Ringed(Entered(f, off))
<1>. DEFINE g == Entered(f, off)
<1>1. /\ g.buf = [f.buf EXCEPT ![f.idx] = off]
      /\ g.idx = IF f.idx = WINDOW - 1 THEN 0 ELSE f.idx + 1
      /\ g.filled = IF f.filled < WINDOW THEN f.filled + 1 ELSE WINDOW
      /\ f.idx \in Slots /\ f.filled \in 0..WINDOW /\ f.buf \in [Slots -> Offsets \cup {0}]
  <2>1. f.idx \in Slots /\ f.filled \in 0..WINDOW /\ f.buf \in [Slots -> Offsets \cup {0}]
    BY DEF Filter
  <2>. QED BY <2>1, EnteredTyped, AfterIs DEF Older
<1>2. WINDOW \in Nat /\ WINDOW > 1
  BY GptpAssumption DEF GptpAssumption
<1>. HIDE DEF g
<1>3. g.filled < WINDOW => g.idx = g.filled
  BY <1>1, <1>2 DEF Ringed
<1>4. ASSUME NEW j \in 0..(g.filled - 1) PROVE g.buf[j] \in Offsets
  <2>1. j \in Slots /\ (j # f.idx => j \in 0..(f.filled - 1))
    BY <1>1, <1>2 DEF Ringed, Slots
  <2>2. g.buf[j] = IF j = f.idx THEN off ELSE f.buf[j]
    BY <1>1, <2>1
  <2>. QED BY <2>1, <2>2 DEF Ringed
<1>. QED BY <1>3, <1>4 DEF Ringed, g

(* A huge median needs half of the window huge: the calm ones are the other half. *)
LEMMA FollowUpSettles ==
    ASSUME RInv, NEW off \in Offsets, FollowUp(off), MedianSplits'
    PROVE  Quiet' /\ StepsSettle'
<1>1. /\ filter \in Filter /\ filter' = Entered(filter, off) /\ filter.filled \in 0..WINDOW
      /\ calm \in 0..WINDOW /\ WINDOW \in Nat /\ WINDOW > 1 /\ BIG \in Nat /\ off \in Int
  BY GptpAssumption DEF GptpAssumption, RInv, IInv, TypeOK, FollowUp, Filter
<1>2. /\ filter'.filled = IF filter.filled < WINDOW THEN filter.filled + 1 ELSE WINDOW
      /\ Window'[filter'.filled] = off
      /\ \A i \in 1..(filter'.filled - 1) : Window'[i] = Window[i + filter.filled + 1 - filter'.filled]
  <2>1. /\ filter'.filled = IF filter.filled < WINDOW THEN filter.filled + 1 ELSE WINDOW
        /\ filter'.buf[Place(filter', filter'.filled)] = off
        /\ \A i \in 1..(filter'.filled - 1) :
              filter'.buf[Place(filter', i)] = filter.buf[Place(filter, i + filter.filled + 1 - filter'.filled)]
    BY <1>1, RingSlides
  <2>2. \A i \in 1..filter'.filled : Window'[i] = filter'.buf[Place(filter', i)]
    BY DEF Window, Place
  <2>3. \A i \in 1..filter.filled : Window[i] = filter.buf[Place(filter, i)]
    BY DEF Window, Place
  <2>4. /\ filter'.filled \in 1..filter'.filled
        /\ \A i \in 1..(filter'.filled - 1) :
              i \in 1..filter'.filled /\ i + filter.filled + 1 - filter'.filled \in 1..filter.filled
    BY <1>1, <2>1
  <2>. QED BY <2>1, <2>2, <2>3, <2>4, Zenon
<1>3. calm' = IF Abs(off) > BIG THEN 0 ELSE IF calm < WINDOW THEN calm + 1 ELSE WINDOW
  BY DEF FollowUp, Older
<1>. DEFINE n == filter.filled
            q == filter'.filled
<1>4. /\ n \in 0..WINDOW /\ q \in 1..WINDOW /\ q = (IF n < WINDOW THEN n + 1 ELSE WINDOW)
      /\ calm \in 0..n
  BY <1>1, <1>2 DEF RInv, Quiet
<1>5. Abs(off) \in Nat
  BY <1>1 DEF Abs
<1>6. calm' \in 0..q /\ (calm' # 0 => ~ (Abs(off) > BIG)) /\ calm' <= calm + 1
  BY <1>1, <1>3, <1>4
<1>7. ASSUME NEW i \in 1..q, i > q - calm'
      PROVE  Abs(Window'[i]) <= BIG
  <2>1. calm' # 0
    BY <1>4, <1>6, <1>7
  <2>2. CASE i = q
    <3>1. Window'[i] = off
      BY <1>2, <2>2
    <3>2. Abs(off) <= BIG
      BY <1>1, <1>5, <1>6, <2>1
    <3>. QED BY <3>1, <3>2
  <2>3. CASE i # q
    <3>. DEFINE j == i + n + 1 - q
    <3>1. i \in 1..(q - 1) /\ j \in 1..n /\ j > n - calm
      BY <1>4, <1>6, <1>7, <2>3
    <3>2. Window'[i] = Window[j]
      BY <1>2, <3>1
    <3>. HIDE DEF j
    <3>. QED BY <3>1, <3>2 DEF RInv, Quiet
  <2>. QED BY <2>2, <2>3
<1>8. Quiet'
  BY <1>6, <1>7 DEF Quiet
<1>9. StepsSettle'
  <2>. SUFFICES ASSUME did' = "step" PROVE calm' <= WINDOW \div 2
    BY DEF StepsSettle
  <2>. DEFINE m == Median(filter)'
              recent == (q - calm' + 1)..q
              below == {i \in DOMAIN Window' : Window'[i] < m}
              above == {i \in DOMAIN Window' : Window'[i] > m}
  <2>1. q # 0 /\ q \in Nat /\ 1 <= WINDOW \div 2
    BY <1>1, <1>4
  <2>2. q \div 2 <= WINDOW \div 2 /\ q \div 2 \in Nat /\ WINDOW \div 2 \in Nat
    BY <1>1, <1>4
  <2>3. q - q \div 2 <= q \div 2 + 1
    BY <2>1
  <2>4. /\ m \in Int /\ Cardinality(below) <= q \div 2 /\ Cardinality(above) < q - q \div 2
        /\ DOMAIN Window' = 1..q
    <3>1. DOMAIN Window' = 1..q
      BY DEF Window
    <3>. QED BY <2>1, <3>1 DEF MedianSplits
  <2>5. CASE ~ servo.stepped
    <3>1. n = 0 /\ calm' <= 1
      BY <1>4, <1>6, <2>5 DEF RInv, Stepped
    <3>. QED BY <1>6, <2>1, <2>2, <3>1
  <2>6. CASE servo.stepped /\ calm' # 0
    <3>1. Coarse(m)
      BY DEF FollowUp, ServoUpdate
    <3>2. Abs(m) > BIG
      BY <2>6, <3>1 DEF Coarse
    <3>3. recent \subseteq 1..q /\ Cardinality(recent) = calm' /\ IsFiniteSet(1..q)
      <4>1. q - calm' + 1 \in Int /\ q \in Int /\ 1 \in Int
        BY <1>6, <2>1
      <4>2. Cardinality(recent) = IF q - calm' + 1 > q THEN 0 ELSE q - (q - calm' + 1) + 1
        BY <4>1, FS_Interval, Zenon
      <4>3. IsFiniteSet(1..q)
        BY <4>1, FS_Interval, Zenon
      <4>. QED BY <1>6, <2>1, <4>2, <4>3
    <3>4. \A i \in recent : Abs(Window'[i]) <= BIG
      BY <1>6, <1>7, <2>1
    <3>5. \A i \in 1..q : Window'[i] \in Int
      <4>1. Window' \in Seq(Int) /\ Len(Window') = q
        BY <2>1 DEF MedianSplits
      <4>. QED BY <4>1, ElementOfSeq, Zenon
    <3>6. CASE m > BIG
      <4>1. recent \in SUBSET below
        BY <1>1, <2>4, <3>3, <3>4, <3>5, <3>6 DEF Abs
      <4>2. below \in SUBSET (1..q)
        BY <2>4
      <4>3. IsFiniteSet(below)
        BY <3>3, <4>2, FS_Subset
      <4>. HIDE DEF below, recent
      <4>4. Cardinality(recent) <= Cardinality(below) /\ Cardinality(below) \in Nat
        BY <4>1, <4>3, FS_Subset, FS_CardinalityType
      <4>. QED BY <1>6, <2>1, <2>2, <2>4, <3>3, <4>4
    <3>7. CASE m < 0 - BIG
      <4>1. recent \in SUBSET above
        BY <1>1, <2>4, <3>3, <3>4, <3>5, <3>7 DEF Abs
      <4>2. above \in SUBSET (1..q)
        BY <2>4
      <4>3. IsFiniteSet(above)
        BY <3>3, <4>2, FS_Subset
      <4>. HIDE DEF above, recent
      <4>4. Cardinality(recent) <= Cardinality(above) /\ Cardinality(above) \in Nat
        BY <4>1, <4>3, FS_Subset, FS_CardinalityType
      <4>. QED BY <1>6, <2>1, <2>2, <2>3, <2>4, <3>3, <4>4
    <3>. QED BY <1>1, <2>4, <3>2, <3>6, <3>7 DEF Abs
  <2>7. CASE calm' = 0
    BY <2>2, <2>7
  <2>. QED BY <2>5, <2>6, <2>7
<1>. QED BY <1>8, <1>9

LEMMA RingStep == RInv /\ [Next]_vars => RInv'
<1>. SUFFICES ASSUME RInv, [Next]_vars PROVE RInv'
  OBVIOUS
<1>1. IInv'
  BY StepHolds DEF RInv
<1>2. ASSUME NEW off \in Offsets, FollowUp(off)
      PROVE  Ringed(filter)' /\ Stepped' /\ Quiet' /\ StepsSettle'
  <2>1. filter \in Filter /\ filter' = Entered(filter, off)
    BY <1>2 DEF RInv, IInv, TypeOK, FollowUp, Filter
  <2>2. Ringed(filter)'
    BY <2>1, EnterKeepsRing DEF RInv
  <2>3. MedianIsMiddle' /\ MedianSplits'
    BY <1>1, <2>2, RingMeans, PTL
  <2>. QED BY <1>2, <2>2, <2>3, FollowUpSimulates, FollowUpSettles DEF RInv
<1>3. ASSUME filter' = filter, calm' = calm, did' = "none" \/ did' = did
      PROVE  Ringed(filter)' /\ Quiet' /\ StepsSettle'
  BY <1>3 DEF RInv, Ringed, Quiet, StepsSettle, Window
<1>4. CASE Sync \/ Poll \/ Tick
  <2>1. filter' = filter /\ calm' = calm /\ did' = "none"
    BY <1>4 DEF Sync, Poll, Tick
  <2>. QED BY <1>1, <1>3, <1>4, <2>1, OthersSimulate DEF RInv
<1>5. CASE UNCHANGED vars
  BY <1>1, <1>3, <1>5 DEF RInv, vars, Stepped
<1>. QED BY <1>1, <1>2, <1>4, <1>5 DEF RInv, Next

LEMMA RingInvariance == Spec => []RInv
BY RingInit, RingStep, PTL DEF Spec

(* One jump of the master is answered by few steps: a step is taken only while half
   of the window is huge, or is the first. *)
THEOREM JumpsSettle == Spec => []StepsSettle
<1>1. RInv => StepsSettle
  BY DEF RInv
<1>. QED BY <1>1, RingInvariance, PTL

(* The ring buffer, its insertion sort, the flags and the time-outs implement the
   sliding median and the lock of Discipline. *)
THEOREM RingImplementsWindow == Spec => ImplementsDiscipline
<1>1. Init => D!Init
  BY SteppedInit
<1>2. RInv => IInv /\ Stepped /\ MedianIsMiddle
  BY RingMeans DEF RInv
<1>3. IInv /\ Stepped /\ MedianIsMiddle' /\ [Next]_vars => [D!Next]_(D!vars)
  BY StepSimulates
<1>. QED BY <1>1, <1>2, <1>3, RingInvariance, PTL DEF Spec, ImplementsDiscipline, D!Spec
-----------------------------------------------------------------------------
(* The offsets of the window that lie at b or beyond, on either side. *)
Beyond(b) == {i \in DOMAIN Window : Abs(Window[i]) >= b}
AtLeast(b) == Cardinality(Beyond(b))

(* The median only lies beyond b when no less than half of the window does. *)
MiddleSpeaks ==
    filter.filled # 0 =>
        /\ Median(filter) \in Int /\ Len(Window) \in Nat
        /\ \A b \in Nat : /\ AtLeast(b) \in Nat
                          /\ Abs(Median(filter)) >= b => 2 * AtLeast(b) >= Len(Window)

LEMMA BeyondCounts ==
    ASSUME MedianSplits, filter.filled # 0, NEW b \in Nat
    PROVE  AtLeast(b) \in Nat
<1>. DEFINE n == Len(Window)
<1>1. n \in Nat /\ DOMAIN Window = 1..n
  BY DEF MedianSplits
<1>2. 1 \in Int /\ n \in Int
  BY <1>1
<1>3. IsFiniteSet(1..n)
  BY <1>2, FS_Interval, Zenon
<1>4. Beyond(b) \subseteq 1..n
  BY <1>1 DEF Beyond
<1>5. IsFiniteSet(Beyond(b))
  BY <1>3, <1>4, FS_Subset, Zenon
<1>. QED BY <1>5, FS_CardinalityType, Zenon DEF AtLeast

LEMMA HalfIsBeyond ==
    ASSUME MedianSplits, filter.filled # 0, NEW b \in Nat, Abs(Median(filter)) >= b
    PROVE  2 * AtLeast(b) >= Len(Window)
<1>. DEFINE n == Len(Window)
            m == Median(filter)
            below == {i \in DOMAIN Window : Window[i] < m}
            above == {i \in DOMAIN Window : Window[i] > m}
<1>1. /\ Window \in Seq(Int) /\ m \in Int /\ n \in Nat /\ DOMAIN Window = 1..n
      /\ Cardinality(below) <= n \div 2 /\ Cardinality(above) < n - n \div 2
  BY DEF MedianSplits
<1>2. \A i \in 1..n : Window[i] \in Int
  BY <1>1, ElementOfSeq, Zenon
<1>3. IsFiniteSet(1..n) /\ Cardinality(1..n) = n
  <2>1. IsFiniteSet(1..n) /\ Cardinality(1..n) = IF 1 > n THEN 0 ELSE n - 1 + 1
    <3>1. 1 \in Int /\ n \in Int
      BY <1>1
    <3>. QED BY <3>1, FS_Interval, Zenon
  <2>. QED BY <1>1, <2>1
<1>4. Beyond(b) \subseteq 1..n /\ below \subseteq 1..n /\ above \subseteq 1..n
  BY <1>1 DEF Beyond
<1>5. ASSUME NEW side, side \subseteq 1..n, 1..n \subseteq Beyond(b) \cup side
      PROVE  /\ n <= Cardinality(Beyond(b)) + Cardinality(side)
             /\ Cardinality(Beyond(b)) \in Nat /\ Cardinality(side) \in Nat
  <2>1. IsFiniteSet(Beyond(b)) /\ IsFiniteSet(side) /\ IsFiniteSet(Beyond(b) \cap side)
    BY <1>3, <1>4, <1>5, FS_Subset, FS_Intersection
  <2>2. /\ IsFiniteSet(Beyond(b) \cup side)
        /\ Cardinality(Beyond(b) \cup side)
             = Cardinality(Beyond(b)) + Cardinality(side) - Cardinality(Beyond(b) \cap side)
    BY <2>1, FS_Union
  <2>3. n <= Cardinality(Beyond(b) \cup side)
    BY <1>3, <1>5, <2>2, FS_Subset, Zenon
  <2>4. /\ Cardinality(Beyond(b)) \in Nat /\ Cardinality(side) \in Nat
        /\ Cardinality(Beyond(b) \cap side) \in Nat
    BY <2>1, FS_CardinalityType
  <2>. QED BY <1>1, <2>2, <2>3, <2>4
<1>. HIDE DEF n, m
<1>6. CASE m >= 0
  <2>1. m >= b
    BY <1>1, <1>6 DEF Abs, m
  <2>2. 1..n \subseteq Beyond(b) \cup below
    BY <1>1, <1>2, <2>1 DEF Beyond, Abs
  <2>. HIDE DEF below
  <2>3. n <= Cardinality(Beyond(b)) + Cardinality(below) /\ Cardinality(Beyond(b)) \in Nat
        /\ Cardinality(below) \in Nat
    BY <1>4, <1>5, <2>2
  <2>. QED BY <1>1, <2>3 DEF AtLeast, n
<1>7. CASE m < 0
  <2>1. -m >= b
    BY <1>1, <1>7 DEF Abs, m
  <2>2. 1..n \subseteq Beyond(b) \cup above
    BY <1>1, <1>2, <1>7, <2>1 DEF Beyond, Abs
  <2>. HIDE DEF above
  <2>3. n <= Cardinality(Beyond(b)) + Cardinality(above) /\ Cardinality(Beyond(b)) \in Nat
        /\ Cardinality(above) \in Nat
    BY <1>4, <1>5, <2>2
  <2>. QED BY <1>1, <2>3 DEF AtLeast, n
<1>. QED BY <1>1, <1>6, <1>7

LEMMA SplitsSpeak == MedianSplits => MiddleSpeaks
<1>1. MedianSplits /\ filter.filled # 0 => Median(filter) \in Int /\ Len(Window) \in Nat
  BY DEF MedianSplits
<1>. QED BY <1>1, HalfIsBeyond, BeyondCounts DEF MiddleSpeaks

(* A minority of outliers in the window neither takes the lock away nor holds it up:
   while most of it is good, every tuning counts towards the lock, and a lock goes
   with the Sync time-out or when at least half of the window is bad (comment at
   off_median_buf; gptp_servo_update). *)
MajorityDecides ==
    [][/\ did' = "tune" /\ 2 * AtLeast(GOOD)' < Len(Window') =>
             servo'.locked \/ servo'.good = servo.good + 1
       /\ servo.locked /\ ~ servo'.locked =>
             \/ port' = "listening" /\ syncAge > TIMEOUT
             \/ did' = "tune" /\ 2 * AtLeast(BAD + 1)' >= Len(Window')]_vars

LEMMA FollowUpDecides ==
    ASSUME RInv, NEW off \in Offsets, FollowUp(off), MiddleSpeaks'
    PROVE  /\ did' = "tune" /\ 2 * AtLeast(GOOD)' < Len(Window') =>
                servo'.locked \/ servo'.good = servo.good + 1
           /\ servo.locked /\ ~ servo'.locked =>
                did' = "tune" /\ 2 * AtLeast(BAD + 1)' >= Len(Window')
<1>. DEFINE m == Median(filter')
<1>1. filter \in Filter /\ filter' = Entered(filter, off) /\ servo \in Servo
  BY DEF RInv, IInv, TypeOK, FollowUp, Filter, Servo
<1>2. filter'.filled # 0
  BY <1>1, RingSlides, GptpAssumption DEF GptpAssumption, Filter
<1>3. GOOD \in Nat /\ BAD \in Nat /\ BAD + 1 \in Nat /\ GOOD <= BAD /\ LOCK \in Nat
  BY GptpAssumption DEF GptpAssumption
<1>4. /\ m \in Int /\ Len(Window') \in Nat
      /\ AtLeast(GOOD)' \in Nat /\ AtLeast(BAD + 1)' \in Nat
      /\ Abs(m) >= GOOD => 2 * AtLeast(GOOD)' >= Len(Window')
      /\ Abs(m) >= BAD + 1 => 2 * AtLeast(BAD + 1)' >= Len(Window')
  BY <1>2, <1>3 DEF MiddleSpeaks
<1>5. ServoUpdate(m)
  BY DEF FollowUp
<1>6. Abs(m) \in Int
  BY <1>4 DEF Abs
<1>. HIDE DEF m
<1>7. CASE servo' = [servo EXCEPT !.stepped = TRUE] /\ did' = "step"
  BY <1>1, <1>7 DEF Servo
<1>8. CASE servo' = Judged(servo, m) /\ did' = "tune"
  <2>1. CASE ~ servo.locked /\ Abs(m) < GOOD /\ servo.good < LOCK
    BY <1>1, <1>8, <2>1 DEF Judged, Earned, Servo
  <2>2. CASE ~ servo.locked /\ Abs(m) < GOOD /\ ~ (servo.good < LOCK)
    BY <1>1, <1>8, <2>2 DEF Judged, Earned, Servo
  <2>3. CASE ~ servo.locked /\ ~ (Abs(m) < GOOD)
    <3>1. Abs(m) >= GOOD
      BY <1>3, <1>6, <2>3
    <3>2. ~ (2 * AtLeast(GOOD)' < Len(Window'))
      BY <1>4, <3>1
    <3>. QED BY <2>3, <3>2
  <2>4. CASE servo.locked /\ Abs(m) > BAD
    <3>1. Abs(m) >= BAD + 1 /\ Abs(m) >= GOOD
      BY <1>3, <1>6, <2>4
    <3>2. ~ (2 * AtLeast(GOOD)' < Len(Window')) /\ 2 * AtLeast(BAD + 1)' >= Len(Window')
      BY <1>4, <3>1
    <3>. QED BY <1>8, <3>2
  <2>5. CASE servo.locked /\ ~ (Abs(m) > BAD)
    BY <1>8, <2>5 DEF Judged
  <2>. QED BY <2>1, <2>2, <2>3, <2>4, <2>5
<1>. QED BY <1>5, <1>7, <1>8 DEF ServoUpdate

LEMMA StepDecides ==
    RInv /\ MiddleSpeaks' /\ [Next]_vars =>
      [/\ did' = "tune" /\ 2 * AtLeast(GOOD)' < Len(Window') =>
             servo'.locked \/ servo'.good = servo.good + 1
       /\ servo.locked /\ ~ servo'.locked =>
             \/ port' = "listening" /\ syncAge > TIMEOUT
             \/ did' = "tune" /\ 2 * AtLeast(BAD + 1)' >= Len(Window')]_vars
<1>. SUFFICES ASSUME RInv, MiddleSpeaks', Next
              PROVE  /\ did' = "tune" /\ 2 * AtLeast(GOOD)' < Len(Window') =>
                          servo'.locked \/ servo'.good = servo.good + 1
                     /\ servo.locked /\ ~ servo'.locked =>
                          \/ port' = "listening" /\ syncAge > TIMEOUT
                          \/ did' = "tune" /\ 2 * AtLeast(BAD + 1)' >= Len(Window')
  OBVIOUS
<1>1. CASE Sync \/ Tick
  BY <1>1 DEF Sync, Tick
<1>2. CASE Poll
  BY <1>2 DEF Poll
<1>3. ASSUME NEW off \in Offsets, FollowUp(off)
      PROVE  /\ did' = "tune" /\ 2 * AtLeast(GOOD)' < Len(Window') =>
                  servo'.locked \/ servo'.good = servo.good + 1
             /\ servo.locked /\ ~ servo'.locked =>
                  did' = "tune" /\ 2 * AtLeast(BAD + 1)' >= Len(Window')
  BY <1>3, FollowUpDecides
<1>. QED BY <1>1, <1>2, <1>3 DEF Next

(* The lock is the majority's, for any window and thresholds. *)
THEOREM LockIsMajoritys == Spec => MajorityDecides
<1>1. RInv => MedianSplits
  BY RingMeans DEF RInv
<1>2. RInv => MiddleSpeaks
  BY <1>1, SplitsSpeak
<1>. QED BY <1>2, StepDecides, RingInvariance, PTL DEF Spec, MajorityDecides
=============================================================================
