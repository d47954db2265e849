--------------------------- MODULE CountersProofs ---------------------------
(***************************************************************************)
(* The counters and the pushes of module Counters are right for any number  *)
(* of controllers, any table size and any width of the sequence ids.        *)
(***************************************************************************)
EXTENDS Counters, FiniteSetTheorems, TLAPS

(* What the invariants of the runs rest on: an active slot names a controller,
   and before the first sample of the clock nothing was counted. *)
SlotsNamed == \A i \in Slots : unsol[i].active => unsol[i].ctrl \in Ctrls
Baseline   == clock.last = Unknown => clock.locked = clock.unlocked

CountInv == MediaBalanced /\ ClockBalanced /\ Baseline
TableInv == SlotsNamed /\ RegisteredOnce /\ PushesContiguous
IInv     == TypeOK /\ CountInv /\ TableInv /\ ViewsCurrent

-----------------------------------------------------------------------------
(* Sequence ids stay within the field. *)
LEMMA SeqInField ==
    ASSUME NEW a \in 0..SEQ-1, NEW n \in Nat
    PROVE  (a + n) % SEQ \in 0..SEQ-1
BY CountersAssumption, SMT

(* The bumps keep a tally a tally, and balanced. *)
Balanced(t) == t \in Tally /\ t.locked = t.unlocked + t.last

LEMMA UpTally ==
    ASSUME NEW t, Balanced(t), t.last = 0
    PROVE  Balanced(Up(t))
BY DEF Balanced, Tally, Up

LEMMA DownTally ==
    ASSUME NEW t, Balanced(t), t.last = 1
    PROVE  Balanced(Down(t))
BY DEF Balanced, Tally, Down

LEMMA TallyBits ==
    ASSUME NEW t, Balanced(t)
    PROVE  /\ t.last \in {0, 1}
           /\ t.locked = t.unlocked => t.last = 0
           /\ t.unlocked < t.locked => t.last = 1
BY DEF Balanced, Tally

LEMMA BumpedBalanced ==
    ASSUME NEW t, Balanced(t), NEW now \in {0, 1}
    PROVE  Balanced(Bumped(t, now))
BY UpTally, DownTally, TallyBits DEF Bumped, Changed

LEMMA ConnectedBalanced ==
    ASSUME NEW t, Balanced(t)
    PROVE  Balanced(Connected(t))
BY UpTally, TallyBits DEF Connected

LEMMA DisconnectedBalanced ==
    ASSUME NEW t, Balanced(t)
    PROVE  Balanced(Disconnected(t))
BY DownTally, TallyBits DEF Disconnected

(* A bump that is not reported changes nothing. *)
LEMMA UnreportedSame ==
    ASSUME NEW t, NEW now, ~ Reported(t, now)
    PROVE  Bumped(t, now) = t
BY DEF Reported, Bumped

-----------------------------------------------------------------------------
(* A push keeps the table and keeps every controller in step with its slot. *)
LEMMA PushKeepsTable ==
    ASSUME TypeOK, TableInv, NEW n \in Nat, NEW ds, Push(n, ds)
    PROVE  /\ unsol' \in [Slots -> Slot]
           /\ heard' \in [Ctrls -> 0..SEQ - 1]
           /\ TableInv'
           /\ Members' = Members
<1>1. \A i \in Slots : /\ unsol'[i] \in Slot
                       /\ unsol'[i].active = unsol[i].active
                       /\ unsol'[i].ctrl = unsol[i].ctrl
                       /\ unsol[i].active => unsol'[i].seq = (unsol[i].seq + n) % SEQ
  <2> TAKE i \in Slots
  <2>1. unsol[i] \in Slot
    BY DEF TypeOK
  <2>2. (unsol[i].seq + n) % SEQ \in 0..SEQ-1
    BY <2>1, SeqInField DEF Slot
  <2>3. unsol'[i] = IF unsol[i].active THEN [unsol[i] EXCEPT !.seq = (unsol[i].seq + n) % SEQ]
                                       ELSE unsol[i]
    BY DEF Push, NextSeq
  <2> QED BY <2>1, <2>2, <2>3 DEF Slot
<1>2. unsol' \in [Slots -> Slot]
  BY <1>1 DEF Push
<1>3. \A c \in Ctrls : Active(c)' = Active(c)
  BY <1>1 DEF Active
<1>4. Members' = Members
  BY <1>3 DEF Members
<1>5. \A c \in Ctrls : heard'[c] = IF c \in Members THEN (heard[c] + n) % SEQ ELSE heard[c]
  BY DEF Push
<1>6. heard' \in [Ctrls -> 0..SEQ - 1]
  <2>1. \A c \in Ctrls : heard'[c] \in 0..SEQ-1
    BY <1>5, SeqInField DEF TypeOK
  <2> QED BY <2>1 DEF Push
<1>7. SlotsNamed' /\ RegisteredOnce'
  BY <1>1 DEF TableInv, SlotsNamed, RegisteredOnce
<1>8. PushesContiguous'
  <2> SUFFICES ASSUME NEW i \in Slots, unsol'[i].active
               PROVE  unsol'[i].seq = heard'[unsol'[i].ctrl]
    BY DEF PushesContiguous
  <2>1. unsol[i].active /\ unsol[i].ctrl \in Ctrls /\ unsol[i].seq = heard[unsol[i].ctrl]
    BY <1>1 DEF TableInv, SlotsNamed, PushesContiguous
  <2>2. unsol[i].ctrl \in Members
    BY <2>1 DEF Members, Active
  <2> QED BY <1>1, <1>5, <2>1, <2>2
<1> QED BY <1>2, <1>4, <1>6, <1>7, <1>8 DEF TableInv

(* Every member is told of the descriptors pushed; what was not pushed is as the
   member knew it when it did not change. *)
LEMMA PushKeepsViews ==
    ASSUME TypeOK, TableInv, ViewsCurrent, NEW n \in Nat, NEW ds, Push(n, ds),
           \A d \in (Uids \cup {Domain}) \ ds : Told(d)' = Told(d),
           \A d \in Uids \cup {Domain} : Told(d)' \in Nat \X Nat
    PROVE  view' \in [Ctrls -> [Uids \cup {Domain} -> Nat \X Nat]] /\ ViewsCurrent'
<1>1. \A c \in Ctrls : view'[c] =
        IF c \in Members THEN [d \in Uids \cup {Domain} |-> IF d \in ds THEN Told(d)' ELSE view[c][d]]
                         ELSE view[c]
  BY DEF Push
<1>2. \A c \in Ctrls : view[c] \in [Uids \cup {Domain} -> Nat \X Nat]
  BY DEF TypeOK
<1>3. \A c \in Ctrls : view'[c] \in [Uids \cup {Domain} -> Nat \X Nat]
  <2> TAKE c \in Ctrls
  <2>1. \A d \in Uids \cup {Domain} :
          (IF d \in ds THEN Told(d)' ELSE view[c][d]) \in Nat \X Nat
    BY <1>2
  <2>2. CASE c \in Members
    <3>1. view'[c] = [d \in Uids \cup {Domain} |-> IF d \in ds THEN Told(d)' ELSE view[c][d]]
      BY <1>1, <2>2
    <3> QED BY <2>1, <3>1
  <2>3. CASE c \notin Members
    BY <1>1, <1>2, <2>3
  <2> QED BY <2>2, <2>3
<1>4. view' \in [Ctrls -> [Uids \cup {Domain} -> Nat \X Nat]]
  BY <1>3 DEF Push
<1>5. \A c \in Members, d \in Uids \cup {Domain} : view'[c][d] = Told(d)'
  <2> TAKE c \in Members, d \in Uids \cup {Domain}
  <2>1. c \in Ctrls /\ view[c][d] = Told(d)
    BY DEF Members, ViewsCurrent
  <2>2. view'[c][d] = IF d \in ds THEN Told(d)' ELSE view[c][d]
    BY <1>1, <2>1
  <2> QED BY <2>1, <2>2
<1>6. Members' = Members
  BY PushKeepsTable
<1> QED BY <1>4, <1>5, <1>6 DEF ViewsCurrent

(* What controllers are told is a pair of counts. *)
LEMMA ToldPairs ==
    ASSUME TypeOK
    PROVE  \A d \in Uids \cup {Domain} : Told(d) \in Nat \X Nat
BY DEF TypeOK, Told, Tally, Uids, Domain

LEMMA MediaTallies ==
    ASSUME TypeOK, MediaBalanced
    PROVE  \A u \in Uids : Balanced(media[u])
BY DEF TypeOK, MediaBalanced, Balanced

-----------------------------------------------------------------------------
(* One lemma per action. *)
LEMMA MediaLockKeeps ==
    ASSUME IInv, TrackMediaLock
    PROVE  IInv'
<1> DEFINE T(u) == Bumped(media[u], LoopTargets[u])
           ds   == {u \in Uids : Reported(media[u], LoopTargets[u])}
<1>1. \A u \in Uids : Balanced(media[u])
  BY MediaTallies DEF IInv, CountInv
<1>2. \A u \in Uids : LoopTargets[u] \in {0, 1}
  BY <1>1, TallyBits DEF LoopTargets, Bit
<1>3. \A u \in Uids : Balanced(T(u))
  BY <1>1, <1>2, BumpedBalanced
<1>4. media' = [u \in Uids |-> T(u)]
  BY DEF TrackMediaLock
<1>5. media' \in [Uids -> Tally] /\ MediaBalanced'
  <2> HIDE DEF T
  <2> QED BY <1>3, <1>4 DEF Balanced, MediaBalanced
<1>6. Cardinality(ds) \in Nat /\ ds \subseteq Uids
  <2>1. IsFiniteSet(Uids)
    BY FS_EmptySet, FS_AddElement, Uids = ({} \cup {"CRF"}) \cup {"AAF"} DEF Uids
  <2>2. ds \subseteq Uids
    OBVIOUS
  <2> QED BY <2>1, <2>2, FS_Subset, FS_CardinalityType
<1>7. Push(Cardinality(ds), ds)
  BY DEF TrackMediaLock
<1>8. \A d \in (Uids \cup {Domain}) \ ds : Told(d)' = Told(d)
  <2> SUFFICES ASSUME NEW d \in (Uids \cup {Domain}) \ ds PROVE Told(d)' = Told(d)
    OBVIOUS
  <2>1. CASE d = Domain
    BY <2>1 DEF Told, TrackMediaLock
  <2>2. CASE d # Domain
    <3>1. d \in Uids /\ ~ Reported(media[d], LoopTargets[d])
      BY <2>2
    <3>2. media'[d] = media[d]
      BY <1>4, <3>1, UnreportedSame
    <3> QED BY <2>2, <3>2 DEF Told
  <2> QED BY <2>1, <2>2
<1>9. TypeOK' /\ TableInv' /\ ViewsCurrent'
  <2> HIDE DEF ds
  <2>1. /\ unsol' \in [Slots -> Slot] /\ heard' \in [Ctrls -> 0..SEQ - 1] /\ TableInv'
    BY <1>6, <1>7, PushKeepsTable DEF IInv
  <2>2. \A d \in Uids \cup {Domain} : Told(d)' \in Nat \X Nat
    BY <1>5 DEF IInv, TypeOK, TrackMediaLock, Told, Tally, Uids, Domain
  <2>3. view' \in [Ctrls -> [Uids \cup {Domain} -> Nat \X Nat]] /\ ViewsCurrent'
    BY <1>6, <1>7, <1>8, <2>2, PushKeepsViews DEF IInv
  <2>4. /\ UNCHANGED <<source, clock, base, gptpLocked, engine>>
        /\ prevAaf' \in {0, 1}
    BY DEF TrackMediaLock, Bit
  <2> QED BY <1>5, <2>1, <2>3, <2>4 DEF IInv, TypeOK
<1>10. ClockBalanced' /\ Baseline'
  BY DEF IInv, CountInv, TrackMediaLock, ClockBalanced, Baseline
<1> QED BY <1>5, <1>9, <1>10 DEF IInv, CountInv

(* What the connect and the disconnect counters have in common: one tally is
   bumped and pushed with the stream info, two pushes in all. *)
LEMMA NotifyKeeps ==
    ASSUME IInv, NEW u \in Uids, NEW t, Balanced(t), media' = [media EXCEPT ![u] = t],
           Push(2, {u}), engine' \in [Uids -> Engine],
           UNCHANGED <<source, clock, prevAaf, gptpLocked, base>>
    PROVE  IInv'
<1>1. \A v \in Uids : Balanced(media[v]) /\ media'[v] = IF v = u THEN t ELSE media[v]
  BY MediaTallies DEF IInv, CountInv, TypeOK
<1>2. media' \in [Uids -> Tally]
  BY DEF IInv, TypeOK, Balanced
<1>3. MediaBalanced'
  BY <1>1 DEF MediaBalanced, Balanced
<1>4. \A d \in (Uids \cup {Domain}) \ {u} : Told(d)' = Told(d)
  BY <1>1 DEF Told, Domain, Uids
<1>5. \A d \in Uids \cup {Domain} : Told(d)' \in Nat \X Nat
  BY <1>2 DEF IInv, TypeOK, Told, Tally, Uids, Domain
<1>6. /\ unsol' \in [Slots -> Slot] /\ heard' \in [Ctrls -> 0..SEQ - 1] /\ TableInv'
  BY PushKeepsTable DEF IInv
<1>7. view' \in [Ctrls -> [Uids \cup {Domain} -> Nat \X Nat]] /\ ViewsCurrent'
  BY <1>4, <1>5, PushKeepsViews DEF IInv
<1>8. TypeOK'
  BY <1>2, <1>6, <1>7 DEF IInv, TypeOK
<1>9. ClockBalanced' /\ Baseline'
  BY DEF IInv, CountInv, ClockBalanced, Baseline
<1> QED BY <1>3, <1>6, <1>7, <1>8, <1>9 DEF IInv, CountInv

LEMMA ConnectedKeeps ==
    ASSUME IInv, NEW u \in Uids, NEW bind \in BOOLEAN, NotifyConnected(u, bind)
    PROVE  IInv'
<1>1. Balanced(Connected(media[u]))
  BY MediaTallies, ConnectedBalanced DEF IInv, CountInv
<1>2. engine' \in [Uids -> Engine]
  BY DEF NotifyConnected, Engine, IInv, TypeOK
<1> QED BY <1>1, <1>2, NotifyKeeps DEF NotifyConnected

LEMMA DisconnectedKeeps ==
    ASSUME IInv, NEW u \in Uids, NotifyDisconnected(u)
    PROVE  IInv'
<1>1. Balanced(Disconnected(media[u]))
  BY MediaTallies, DisconnectedBalanced DEF IInv, CountInv
<1>2. engine' \in [Uids -> Engine]
  BY DEF NotifyDisconnected, Engine, IInv, TypeOK
<1> QED BY <1>1, <1>2, NotifyKeeps DEF NotifyDisconnected

LEMMA ClockLockKeeps ==
    ASSUME IInv, TrackClockLock
    PROVE  IInv'
<1> DEFINE now == SourceLocked
<1>1. now \in {0, 1}
  BY DEF SourceLocked, Bit
<1>2. media' = media /\ MediaBalanced'
  BY DEF TrackClockLock, IInv, CountInv, MediaBalanced
<1>4. CASE clock.last = Unknown /\ clock' = Adopted(clock, now) /\ base' = now /\ Silent
  <2> HIDE DEF now
  <2>1. /\ clock' \in [locked : Nat, unlocked : Nat, last : {0, 1, Unknown}]
        /\ clock'.locked = clock.locked /\ clock'.unlocked = clock.unlocked /\ clock'.last = now
    BY <1>1, <1>4 DEF Adopted, IInv, TypeOK
  <2>2. clock.locked \in Nat /\ clock.locked = clock.unlocked
    BY <1>4 DEF IInv, TypeOK, CountInv, Baseline
  <2>3. CountInv'
    BY <1>1, <1>2, <1>4, <2>1, <2>2 DEF CountInv, ClockBalanced, Baseline, Unknown
  <2>4. TypeOK'
    BY <1>1, <1>4, <2>1 DEF TrackClockLock, IInv, TypeOK, Silent
  <2>5. TableInv'
    BY <1>4 DEF IInv, TableInv, SlotsNamed, RegisteredOnce, PushesContiguous, Silent
  <2>6. ViewsCurrent'
    BY <1>2, <1>4, <2>1 DEF IInv, ViewsCurrent, Members, Active, Told, Silent
  <2> QED BY <2>3, <2>4, <2>5, <2>6 DEF IInv
<1>5. CASE /\ clock.last \notin {Unknown, now} /\ clock' = Bumped(clock, now)
           /\ Push(1, {Domain}) /\ UNCHANGED base
  <2> HIDE DEF now
  <2>1. /\ clock.locked \in Nat /\ clock.unlocked \in Nat /\ clock.last \in {0, 1} /\ base \in {0, 1}
        /\ clock.locked - clock.unlocked = clock.last - base
    BY <1>5 DEF IInv, TypeOK, CountInv, ClockBalanced
  <2>2. clock' = IF now = 1 THEN Up(clock) ELSE Down(clock)
    BY <1>5 DEF Bumped, Changed
  <2>3. now # clock.last
    BY <1>5
  <2>4. /\ clock' \in [locked : Nat, unlocked : Nat, last : {0, 1, Unknown}]
        /\ clock'.last \in {0, 1}
        /\ clock'.locked - clock'.unlocked = clock'.last - base
    <3>1. CASE now = 1
      <4>1. clock' = [locked |-> clock.locked + 1, unlocked |-> clock.unlocked, last |-> 1]
        BY <2>2, <3>1 DEF Up
      <4>2. clock.last = 0
        BY <2>1, <2>3, <3>1
      <4> QED BY <2>1, <4>1, <4>2
    <3>2. CASE now = 0
      <4>1. clock' = [locked |-> clock.locked, unlocked |-> clock.unlocked + 1, last |-> 0]
        BY <2>2, <3>2 DEF Down
      <4>2. clock.last = 1
        BY <2>1, <2>3, <3>2
      <4> QED BY <2>1, <4>1, <4>2
    <3> QED BY <1>1, <3>1, <3>2
  <2>5. CountInv'
    BY <1>2, <1>5, <2>4 DEF CountInv, ClockBalanced, Baseline, Unknown
  <2>6. /\ unsol' \in [Slots -> Slot] /\ heard' \in [Ctrls -> 0..SEQ - 1] /\ TableInv'
    BY <1>5, PushKeepsTable DEF IInv
  <2>7. \A d \in (Uids \cup {Domain}) \ {Domain} : Told(d)' = Told(d)
    BY <1>2 DEF Told
  <2>8. \A d \in Uids \cup {Domain} : Told(d)' \in Nat \X Nat
    BY <1>2, <2>4 DEF IInv, TypeOK, Told, Tally, Uids, Domain
  <2>9. view' \in [Ctrls -> [Uids \cup {Domain} -> Nat \X Nat]] /\ ViewsCurrent'
    BY <1>5, <2>7, <2>8, PushKeepsViews DEF IInv
  <2>10. TypeOK'
    BY <1>5, <2>4, <2>6, <2>9 DEF TrackClockLock, IInv, TypeOK
  <2> QED BY <2>5, <2>6, <2>9, <2>10 DEF IInv
<1>6. CASE clock.last = now /\ Silent /\ UNCHANGED <<clock, base>>
  <2>1. TypeOK'
    BY <1>6 DEF TrackClockLock, IInv, TypeOK, Silent
  <2>2. CountInv'
    BY <1>2, <1>6 DEF IInv, CountInv, ClockBalanced, Baseline
  <2>3. TableInv' /\ ViewsCurrent'
    BY <1>2, <1>6 DEF IInv, TableInv, SlotsNamed, RegisteredOnce, PushesContiguous, Silent,
                      ViewsCurrent, Members, Active, Told
  <2> QED BY <2>1, <2>2, <2>3 DEF IInv
<1> QED BY <1>4, <1>5, <1>6 DEF TrackClockLock

(* Actions that leave the counters, the table and the views alone. *)
LEMMA QuietKeeps ==
    ASSUME IInv, UNCHANGED <<clock, media, prevAaf, unsol, base, heard, view>>,
           source' \in {0, 1}, gptpLocked' \in BOOLEAN, engine' \in [Uids -> Engine]
    PROVE  IInv'
<1>1. TypeOK'
  BY DEF IInv, TypeOK
<1>2. CountInv'
  BY DEF IInv, CountInv, MediaBalanced, ClockBalanced, Baseline
<1>3. TableInv' /\ ViewsCurrent'
  BY DEF IInv, TableInv, SlotsNamed, RegisteredOnce, PushesContiguous, ViewsCurrent,
         Members, Active, Told
<1> QED BY <1>1, <1>2, <1>3 DEF IInv

-----------------------------------------------------------------------------
(* Registration: the table changes, the counters do not. *)
LEMMA TableChangeKeeps ==
    ASSUME IInv, UNCHANGED <<source, clock, media, prevAaf, gptpLocked, engine,
                             base>>,
           unsol' \in [Slots -> Slot], heard' \in [Ctrls -> 0..SEQ - 1],
           view' \in [Ctrls -> [Uids \cup {Domain} -> Nat \X Nat]],
           TableInv', ViewsCurrent'
    PROVE  IInv'
<1>1. TypeOK'
  BY DEF IInv, TypeOK
<1>2. CountInv'
  BY DEF IInv, CountInv, MediaBalanced, ClockBalanced, Baseline
<1> QED BY <1>1, <1>2 DEF IInv

LEMMA OccupyKeeps ==
    ASSUME IInv, NEW c \in Ctrls, NEW i \in Slots, Active(c) = {} \/ Active(c) = {i},
           NEW seq \in 0..SEQ - 1, Occupy(i, c, seq),
           heard' = IF c \in Members THEN heard ELSE [heard EXCEPT ![c] = 0],
           seq = IF c \in Members THEN unsol[i].seq ELSE 0,
           ~ unsol[i].active \/ unsol[i].ctrl = c
    PROVE  /\ unsol' \in [Slots -> Slot] /\ heard' \in [Ctrls -> 0..SEQ - 1] /\ TableInv'
           /\ \A k \in Ctrls : k # c => Active(k)' = Active(k)
           /\ Active(c)' # {}
<1> DEFINE new == [active |-> TRUE, ctrl |-> c, seq |-> seq]
<1>1. \A j \in Slots : unsol'[j] = IF j = i THEN new ELSE unsol[j]
  BY DEF Occupy, IInv, TypeOK
<1>2. unsol' \in [Slots -> Slot]
  BY DEF Occupy, IInv, TypeOK, Slot
<1>3. heard' \in [Ctrls -> 0..SEQ - 1]
  <2>1. 0 \in 0..SEQ - 1
    BY CountersAssumption
  <2> QED BY <2>1 DEF IInv, TypeOK
<1>4. \A k \in Ctrls : k # c => Active(k)' = Active(k)
  BY <1>1 DEF Active
<1>5. Active(c)' # {}
  BY <1>1 DEF Active
<1>6. SlotsNamed'
  BY <1>1 DEF IInv, TableInv, SlotsNamed
<1>7. \A j \in Slots : unsol[j].active /\ unsol[j].ctrl = c => j = i
  BY DEF Active
<1>8. RegisteredOnce'
  BY <1>1, <1>7 DEF IInv, TableInv, RegisteredOnce
<1>9. PushesContiguous'
  <2> SUFFICES ASSUME NEW j \in Slots, unsol'[j].active
               PROVE  unsol'[j].seq = heard'[unsol'[j].ctrl]
    BY DEF PushesContiguous
  <2>1. CASE j = i
    <3>1. unsol'[j].seq = seq /\ unsol'[j].ctrl = c
      BY <1>1, <2>1
    <3>2. CASE c \in Members
      <4>1. unsol[i].active /\ unsol[i].ctrl = c
        BY <3>2 DEF Members, Active
      <4> QED BY <3>1, <3>2, <4>1 DEF IInv, TableInv, PushesContiguous
    <3>3. CASE c \notin Members
      BY <3>1, <3>3 DEF IInv, TypeOK
    <3> QED BY <3>2, <3>3
  <2>2. CASE j # i
    <3>1. unsol'[j] = unsol[j] /\ unsol[j].ctrl \in Ctrls /\ unsol[j].ctrl # c
      BY <1>1, <1>7, <2>2 DEF IInv, TableInv, SlotsNamed
    <3> QED BY <3>1 DEF IInv, TableInv, PushesContiguous, TypeOK
  <2> QED BY <2>1, <2>2
<1> QED BY <1>2, <1>3, <1>4, <1>5, <1>6, <1>8, <1>9 DEF TableInv

LEMMA RegisterKeeps ==
    ASSUME IInv, NEW c \in Ctrls, Register(c)
    PROVE  IInv'
<1>1. c \in Members <=> Active(c) # {}
  BY DEF Members
<1>2. heard' = IF c \in Members THEN heard ELSE [heard EXCEPT ![c] = 0]
  BY DEF Register
<1>3. UNCHANGED <<source, clock, media, prevAaf, gptpLocked, engine, base>>
  BY DEF Register
<1>4. \A d \in Uids \cup {Domain} : Told(d)' = Told(d) /\ Told(d) \in Nat \X Nat
  BY <1>3, ToldPairs DEF Told, IInv
<1> DEFINE outcome == /\ unsol' \in [Slots -> Slot] /\ heard' \in [Ctrls -> 0..SEQ - 1] /\ TableInv'
                      /\ \A k \in Ctrls : k # c => Active(k)' = Active(k)
<1>5. outcome
  <2>1. CASE \E i \in Slots : Lowest(i, OwnSlot(c)) /\ Occupy(i, c, unsol[i].seq)
    <3>1. PICK i \in Slots : Lowest(i, OwnSlot(c)) /\ Occupy(i, c, unsol[i].seq)
      BY <2>1
    <3>2. i \in Active(c) /\ unsol[i].active /\ unsol[i].ctrl = c
      BY <3>1 DEF Lowest, OwnSlot, Active
    <3>3. Active(c) = {i}
      BY <3>2 DEF Active, IInv, TableInv, RegisteredOnce
    <3>4. unsol[i].seq \in 0..SEQ - 1
      BY DEF IInv, TypeOK, Slot
    <3> QED BY <1>1, <1>2, <3>1, <3>2, <3>3, <3>4, OccupyKeeps
  <2>2. CASE \E i \in Slots : OwnSlot(c) = {} /\ Lowest(i, Free) /\ Occupy(i, c, StartSeq(i))
    <3>1. PICK i \in Slots : OwnSlot(c) = {} /\ Lowest(i, Free) /\ Occupy(i, c, 0)
      BY <2>2 DEF StartSeq
    <3>2. ~ unsol[i].active /\ Active(c) = {}
      BY <3>1 DEF Lowest, Free, OwnSlot
    <3>3. 0 \in 0..SEQ - 1
      BY CountersAssumption
    <3> QED BY <1>1, <1>2, <3>1, <3>2, <3>3, OccupyKeeps
  <2>3. CASE OwnSlot(c) = {} /\ Free = {} /\ UNCHANGED unsol
    <3>1. heard' = [heard EXCEPT ![c] = 0]
      BY <1>1, <1>2, <2>3 DEF OwnSlot
    <3>2. 0 \in 0..SEQ - 1
      BY CountersAssumption
    <3>3. heard' \in [Ctrls -> 0..SEQ - 1] /\ unsol' \in [Slots -> Slot]
      BY <2>3, <3>1, <3>2 DEF IInv, TypeOK
    <3>4. \A i \in Slots : unsol[i].active => unsol[i].ctrl # c
      BY <2>3 DEF OwnSlot, Active
    <3>5. SlotsNamed' /\ RegisteredOnce'
      BY <2>3 DEF IInv, TableInv, SlotsNamed, RegisteredOnce
    <3>6. PushesContiguous'
      BY <2>3, <3>1, <3>4 DEF IInv, TableInv, SlotsNamed, PushesContiguous, TypeOK
    <3>7. \A k \in Ctrls : Active(k)' = Active(k)
      BY <2>3 DEF Active
    <3> QED BY <3>3, <3>5, <3>6, <3>7 DEF TableInv
  <2> QED BY <2>1, <2>2, <2>3 DEF Register
<1>6. view' = IF Active(c)' = {} THEN view
              ELSE [view EXCEPT ![c] = [d \in Uids \cup {Domain} |-> Told(d)]]
  BY DEF Register
<1>7. view' \in [Ctrls -> [Uids \cup {Domain} -> Nat \X Nat]]
  <2>1. [d \in Uids \cup {Domain} |-> Told(d)] \in [Uids \cup {Domain} -> Nat \X Nat]
    BY <1>4
  <2> QED BY <1>6, <2>1 DEF IInv, TypeOK
<1>8. ViewsCurrent'
  <2> SUFFICES ASSUME NEW k \in Ctrls, Active(k)' # {}, NEW d \in Uids \cup {Domain}
               PROVE  view'[k][d] = Told(d)'
    BY DEF ViewsCurrent, Members
  <2>1. view \in [Ctrls -> [Uids \cup {Domain} -> Nat \X Nat]]
    BY DEF IInv, TypeOK
  <2>2. CASE k = c
    <3>1. view'[c] = [e \in Uids \cup {Domain} |-> Told(e)]
      BY <1>6, <2>1, <2>2
    <3> QED BY <1>4, <2>2, <3>1
  <2>3. CASE k # c
    <3>1. Active(k) # {} /\ view'[k] = view[k]
      BY <1>5, <1>6, <2>1, <2>3
    <3> QED BY <1>4, <3>1 DEF IInv, ViewsCurrent, Members
  <2> QED BY <2>2, <2>3
<1> QED BY <1>3, <1>5, <1>7, <1>8, TableChangeKeeps

LEMMA DeregisterKeeps ==
    ASSUME IInv, NEW c \in Ctrls, Deregister(c)
    PROVE  IInv'
<1>1. UNCHANGED <<source, clock, media, prevAaf, gptpLocked, engine, base>>
  BY DEF Deregister
<1>2. \A j \in Slots : /\ unsol'[j] \in Slot
                       /\ unsol'[j].ctrl = unsol[j].ctrl /\ unsol'[j].seq = unsol[j].seq
                       /\ unsol'[j].active <=> unsol[j].active /\ unsol[j].ctrl # c
  <2>1. CASE \E i \in Slots : Lowest(i, OwnSlot(c)) /\ unsol' = [unsol EXCEPT ![i].active = FALSE]
    <3>1. PICK i \in Slots : Lowest(i, OwnSlot(c)) /\ unsol' = [unsol EXCEPT ![i].active = FALSE]
      BY <2>1
    <3>2. unsol[i].active /\ unsol[i].ctrl = c
      BY <3>1 DEF Lowest, OwnSlot, Active
    <3>3. \A j \in Slots : unsol[j].active /\ unsol[j].ctrl = c => j = i
      BY <3>2 DEF IInv, TableInv, RegisteredOnce
    <3> QED BY <3>1, <3>2, <3>3 DEF IInv, TypeOK, Slot
  <2>2. CASE OwnSlot(c) = {} /\ UNCHANGED unsol
    BY <2>2 DEF OwnSlot, Active, IInv, TypeOK
  <2> QED BY <2>1, <2>2 DEF Deregister
<1>3. unsol' \in [Slots -> Slot]
  BY <1>2 DEF Deregister, IInv, TypeOK
<1>4. heard' = [heard EXCEPT ![c] = 0] /\ heard' \in [Ctrls -> 0..SEQ - 1]
  <2>1. 0 \in 0..SEQ - 1
    BY CountersAssumption
  <2> QED BY <2>1 DEF Deregister, IInv, TypeOK
<1>5. SlotsNamed' /\ RegisteredOnce'
  BY <1>2 DEF IInv, TableInv, SlotsNamed, RegisteredOnce
<1>6. PushesContiguous'
  BY <1>2, <1>4 DEF IInv, TypeOK, TableInv, SlotsNamed, PushesContiguous
<1>7. view' = [view EXCEPT ![c] = Untold] /\ view' \in [Ctrls -> [Uids \cup {Domain} -> Nat \X Nat]]
  <2>1. Untold \in [Uids \cup {Domain} -> Nat \X Nat]
    BY DEF Untold
  <2> QED BY <2>1 DEF Deregister, IInv, TypeOK
<1>8. ViewsCurrent'
  <2> SUFFICES ASSUME NEW k \in Ctrls, Active(k)' # {}, NEW d \in Uids \cup {Domain}
               PROVE  view'[k][d] = Told(d)'
    BY DEF ViewsCurrent, Members
  <2>1. k # c /\ Active(k) # {}
    BY <1>2 DEF Active
  <2>2. view'[k] = view[k]
    BY <1>7, <2>1 DEF IInv, TypeOK
  <2>3. Told(d)' = Told(d)
    BY <1>1 DEF Told
  <2> QED BY <2>1, <2>2, <2>3 DEF IInv, ViewsCurrent, Members
<1> QED BY <1>1, <1>3, <1>4, <1>5, <1>6, <1>7, <1>8, TableChangeKeeps DEF TableInv

-----------------------------------------------------------------------------
LEMMA InitHolds ==
    ASSUME Init
    PROVE  IInv
<1>1. 0 \in 0..SEQ - 1
  BY CountersAssumption
<1>2. TypeOK
  BY <1>1 DEF Init, TypeOK, Slot, Tally, Untold, Engine
<1>3. CountInv
  BY DEF Init, CountInv, MediaBalanced, ClockBalanced, Baseline
<1>4. TableInv
  BY DEF Init, TableInv, SlotsNamed, RegisteredOnce, PushesContiguous
<1>5. ViewsCurrent
  BY DEF Init, ViewsCurrent, Members, Active
<1> QED BY <1>2, <1>3, <1>4, <1>5 DEF IInv

LEMMA StepKeeps ==
    ASSUME IInv, [Next]_vars
    PROVE  IInv'
<1>1. CASE TrackMediaLock
  BY <1>1, MediaLockKeeps
<1>2. CASE TrackClockLock
  BY <1>2, ClockLockKeeps
<1>3. CASE Media
  BY <1>3, QuietKeeps DEF Media, ServoGptp, Gain, ServoLost, Rebind, ForceClear, Engine, IInv, TypeOK
<1>4. ASSUME NEW u \in Uids, NotifyDisconnected(u) PROVE IInv'
  BY <1>4, DisconnectedKeeps
<1>5. ASSUME NEW u \in Uids, NEW bind \in BOOLEAN, NotifyConnected(u, bind) PROVE IInv'
  BY <1>5, ConnectedKeeps
<1>6. ASSUME NEW s \in {0, 1}, SetClockSource(s) PROVE IInv'
  BY <1>6, QuietKeeps DEF SetClockSource, IInv, TypeOK
<1>7. ASSUME NEW c \in Ctrls, Register(c) PROVE IInv'
  BY <1>7, RegisterKeeps
<1>8. ASSUME NEW c \in Ctrls, Deregister(c) PROVE IInv'
  BY <1>8, DeregisterKeeps
<1>9. CASE UNCHANGED vars
  BY <1>9, QuietKeeps DEF vars, IInv, TypeOK
<1> QED BY <1>1, <1>2, <1>3, <1>4, <1>5, <1>6, <1>7, <1>8, <1>9 DEF Next

(* The counters reported for an input never drift apart, and the pushes of every
   registered controller are contiguous and leave it with the current counters,
   whatever the order of connects, disconnects, lock changes and registrations. *)
THEOREM CountersCorrect ==
    Spec => []IInv
<1>1. Init => IInv
  BY InitHolds
<1>2. IInv /\ [Next]_vars => IInv'
  BY StepKeeps
<1> QED BY <1>1, <1>2, PTL DEF Spec

(* Milan's rule on the media counters (notify_listener_connected and its kin). *)
THEOREM LockCountsBalanced == Spec => [](MediaBalanced /\ ClockBalanced)
<1>1. IInv => MediaBalanced /\ ClockBalanced
  BY DEF IInv, CountInv
<1> QED BY <1>1, CountersCorrect, PTL

(* What push_unsol_counters promises a registered controller. *)
THEOREM ControllersInStep == Spec => [](RegisteredOnce /\ PushesContiguous /\ ViewsCurrent)
<1>1. IInv => RegisteredOnce /\ PushesContiguous /\ ViewsCurrent
  BY DEF IInv, TableInv
<1> QED BY <1>1, CountersCorrect, PTL

(* Every variable of the notification and counter state stays in its type; sequence ids
   never leave 16 bits (push_unsol_counters). *)
THEOREM CountersTypes == Spec => []TypeOK
<1>1. IInv => TypeOK
  BY DEF IInv
<1> QED BY <1>1, CountersCorrect, PTL

(* LOCKED and UNLOCKED of the clock domain balance over every change of source
   (track_clock_lock, SET_CLOCK_SOURCE). *)
THEOREM ClockCountsBalanced == Spec => []ClockBalanced
BY LockCountsBalanced, PTL

(* No controller gets a push twice for holding two slots (REGISTER_UNSOLICITED). *)
THEOREM OneSlotEach == Spec => []RegisteredOnce
BY ControllersInStep, PTL

(* No controller sees a gap or a repetition in its sequence ids (push_unsol_counters). *)
THEOREM NoGapInPushes == Spec => []PushesContiguous
BY ControllersInStep, PTL

-----------------------------------------------------------------------------
(* The descriptors with a pair of counts. *)
Descs == Uids \cup {Domain}

(* What the slots and the controllers' views stand for: every member at the id it
   expects next, told the counts as they are. *)
SubsAreInStep == Subs = [c \in Members |-> [seq |-> heard[c], told |-> Counts]]

LEMMA InStep == IInv => SubsAreInStep
<1>1. ASSUME IInv, NEW c \in Members
      PROVE  /\ unsol[CHOOSE i \in Active(c) : TRUE].seq = heard[c]
             /\ view[c] = Counts
  <2>1. (CHOOSE i \in Active(c) : TRUE) \in Active(c)
    BY DEF Members
  <2>2. unsol[CHOOSE i \in Active(c) : TRUE].seq = heard[c]
    BY <1>1, <2>1 DEF Active, IInv, TableInv, PushesContiguous
  <2>3. c \in Ctrls /\ view[c] \in [Uids \cup {Domain} -> Nat \X Nat]
    BY <1>1 DEF Members, IInv, TypeOK
  <2>4. \A d \in Uids \cup {Domain} : view[c][d] = Told(d)
    BY <1>1 DEF IInv, ViewsCurrent
  <2>5. view[c] = [d \in Uids \cup {Domain} |-> view[c][d]]
    BY <2>3
  <2>6. view[c] = [d \in Uids \cup {Domain} |-> Told(d)]
    BY <2>4, <2>5
  <2> QED BY <2>2, <2>6 DEF Counts
<1> QED BY <1>1 DEF Subs, SubsAreInStep

(* The same after a step. *)
LEMMA InStepNext ==
    ASSUME IInv'
    PROVE  SubsAreInStep'
BY InStep, PTL

(* With a slot free there is room for one more: members are no more than the slots
   taken. *)
LEMMA MembersFit ==
    ASSUME IInv, Free # {}
    PROVE  Cardinality(Members) < SLOTS
<1> DEFINE used == {i \in Slots : unsol[i].active}
           f == [i \in used |-> unsol[i].ctrl]
<1>1. IsFiniteSet(Slots) /\ Cardinality(Slots) = SLOTS
  <2>1. 1 \in Int /\ SLOTS \in Int /\ ~ (1 > SLOTS) /\ SLOTS - 1 + 1 = SLOTS
    BY CountersAssumption
  <2> QED BY <2>1, FS_Interval, Zenon DEF Slots
<1>2. f \in Surjection(used, Members)
  <2>1. f \in [used -> Members] /\ \A c \in Members : \E i \in used : f[i] = c
    BY DEF Members, Active, IInv, TableInv, SlotsNamed
  <2> HIDE DEF f, used
  <2> QED BY <2>1, Zenon DEF Surjection
<1>3. used \in SUBSET Slots /\ used # Slots
  BY DEF Free
<1> HIDE DEF f, used
<1>4. /\ IsFiniteSet(used) /\ Cardinality(used) <= SLOTS
      /\ Cardinality(used) # SLOTS
  BY <1>1, <1>3, FS_Subset, Zenon
<1>5. IsFiniteSet(Members) /\ Cardinality(Members) <= Cardinality(used)
  BY <1>2, <1>4, FS_Surjection, Zenon
<1>6. Cardinality(used) \in Nat /\ Cardinality(Members) \in Nat
  BY <1>4, <1>5, FS_CardinalityType, Zenon
<1> QED BY <1>4, <1>5, <1>6, CountersAssumption

(* Subscription has its own copy of FiniteSets. *)
LEMMA SameSize ==
    ASSUME NEW S
    PROVE  P!Cardinality(S) = Cardinality(S)
BY Zenon DEF P!Cardinality, Cardinality

(* The counts of a descriptor are never more than one apart. *)
CountsNear == \A d \in Descs : P!Near(Counts[d])

LEMMA CountsStayNear == IInv => CountsNear
<1> SUFFICES ASSUME IInv, NEW d \in Descs
             PROVE  P!Near(Counts[d])
  BY DEF CountsNear
<1>1. CASE d = Domain
  <2>1. Counts[d] = <<clock.locked, clock.unlocked>>
    BY <1>1 DEF Counts, Told, Descs
  <2>2. /\ clock.locked \in Nat /\ clock.unlocked \in Nat /\ base \in {0, 1}
        /\ clock.last # Unknown => clock.last \in {0, 1}
    BY DEF IInv, TypeOK
  <2> QED BY <2>1, <2>2 DEF IInv, CountInv, ClockBalanced, Baseline, P!Near
<1>2. CASE d \in Uids /\ d # Domain
  <2>1. Counts[d] = <<media[d].locked, media[d].unlocked>>
    BY <1>2 DEF Counts, Told
  <2>2. /\ media[d].locked \in Nat /\ media[d].unlocked \in Nat /\ media[d].last \in {0, 1}
        /\ media[d].locked = media[d].unlocked + media[d].last
    BY <1>2 DEF IInv, TypeOK, Tally, CountInv, MediaBalanced
  <2> QED BY <2>1, <2>2 DEF P!Near
<1> QED BY <1>1, <1>2 DEF Descs, Uids, Domain

(* The same after a step. *)
LEMMA CountsNearNext ==
    ASSUME IInv'
    PROVE  CountsNear'
BY CountsStayNear, PTL

(* One count of each descriptor that is pushed went up. *)
Moved(d) == \/ Counts'[d] = [Counts[d] EXCEPT ![1] = @ + 1]
            \/ Counts'[d] = [Counts[d] EXCEPT ![2] = @ + 1]

(* A push that tells of every count that moved publishes it. *)
LEMMA PushPublishes ==
    ASSUME IInv, IInv', NEW n \in Nat, NEW ps, Push(n, ps),
           NEW ds \in SUBSET Descs, Cardinality(ds) <= n, n <= 2,
           \A d \in Descs \ ds : Counts'[d] = Counts[d],
           \A d \in ds : Moved(d)
    PROVE  P!Next
<1>1. SubsAreInStep /\ SubsAreInStep'
  BY InStep, InStepNext
<1>2. Members' = Members
  BY PushKeepsTable DEF IInv
<1>3. \A c \in Members : heard'[c] = (heard[c] + n) % SEQ
  BY DEF Push, Members
<1>4. Subs' = [c \in DOMAIN Subs |-> [seq |-> (Subs[c].seq + n) % SEQ, told |-> Counts']]
  BY <1>1, <1>2, <1>3 DEF SubsAreInStep
<1> DEFINE way == [d \in ds |-> IF Counts'[d] = [Counts[d] EXCEPT ![1] = @ + 1] THEN 1 ELSE 2]
<1>5. way \in [ds -> {1, 2}] /\ \A d \in ds : Counts'[d] = [Counts[d] EXCEPT ![way[d]] = @ + 1]
  BY DEF Moved
<1>6. Counts' = [d \in Descs |-> Counts'[d]]
  BY DEF Counts, Descs
<1> HIDE DEF way
<1>7. Counts' = [d \in Descs |-> IF d \in ds THEN [Counts[d] EXCEPT ![way[d]] = @ + 1]
                                ELSE Counts[d]]
  BY <1>5, <1>6
<1>8. \A d \in ds : P!Near(Counts'[d])
  BY CountsNearNext DEF CountsNear
<1>9. P!Publish(ds, n)
  BY <1>4, <1>5, <1>7, <1>8, Zenon DEF P!Publish, P!Subscribers, Descs
<1>10. ds \in SUBSET Descs /\ n \in Cardinality(ds)..2
  <2>1. IsFiniteSet(Descs)
    BY FS_EmptySet, FS_AddElement, Descs = (({} \cup {"CRF"}) \cup {"AAF"}) \cup {Domain} DEF Descs, Uids
  <2>2. Cardinality(ds) \in Nat
    BY <2>1, FS_Subset, FS_CardinalityType, Zenon
  <2> QED BY <2>2
<1> QED BY <1>9, <1>10, SameSize, Zenon DEF P!Next, Descs

(* A bumped tally has one count more. *)
LEMMA BumpMoves ==
    ASSUME NEW t
    PROVE  /\ <<Up(t).locked, Up(t).unlocked>> = [<<t.locked, t.unlocked>> EXCEPT ![1] = @ + 1]
           /\ <<Down(t).locked, Down(t).unlocked>> = [<<t.locked, t.unlocked>> EXCEPT ![2] = @ + 1]
BY DEF Up, Down

(* What is told of a descriptor, before and after. *)
LEMMA CountsAre ==
    /\ \A d \in Descs : Counts[d] = Told(d) /\ Counts'[d] = Told(d)'
    /\ \A u \in Uids : /\ Counts[u] = <<media[u].locked, media[u].unlocked>>
                       /\ Counts'[u] = <<media'[u].locked, media'[u].unlocked>>
    /\ Counts[Domain] = <<clock.locked, clock.unlocked>>
    /\ Counts'[Domain] = <<clock'.locked, clock'.unlocked>>
BY DEF Counts, Descs, Told, Uids, Domain

(* A set of at most one descriptor of the pair of inputs, and the pair. *)
LEMMA FewDescs ==
    /\ Cardinality({}) = 0 /\ \A d : Cardinality({d}) = 1
    /\ \A ds \in SUBSET Uids : Cardinality(ds) \in Nat /\ Cardinality(ds) <= 2
<1>1. IsFiniteSet({"CRF"}) /\ Cardinality({"CRF"}) = 1
  BY FS_Singleton, Zenon
<1>2. Uids = {"CRF"} \cup {"AAF"} /\ "AAF" \notin {"CRF"}
  BY DEF Uids
<1>3. IsFiniteSet(Uids) /\ Cardinality(Uids) = Cardinality({"CRF"}) + 1
  BY <1>1, <1>2, FS_AddElement, Zenon
<1>4. \A ds \in SUBSET Uids : IsFiniteSet(ds) /\ Cardinality(ds) <= Cardinality(Uids)
  BY <1>3, FS_Subset, Zenon
<1>5. \A ds \in SUBSET Uids : Cardinality(ds) \in Nat
  BY <1>4, FS_CardinalityType, Zenon
<1>6. Cardinality(Uids) = 2
  BY <1>1, <1>3
<1>7. Cardinality({}) = 0 /\ \A d : Cardinality({d}) = 1
  BY FS_EmptySet, FS_Singleton, Zenon
<1> QED BY <1>4, <1>5, <1>6, <1>7

(* One lemma per action that pushes or changes the table. *)
LEMMA LockTrackingPublishes ==
    ASSUME IInv, IInv', TrackMediaLock
    PROVE  P!Next
<1> DEFINE ds == {u \in Uids : Reported(media[u], LoopTargets[u])}
<1>1. Push(Cardinality(ds), ds) /\ UNCHANGED clock
      /\ media' = [u \in Uids |-> Bumped(media[u], LoopTargets[u])]
  BY DEF TrackMediaLock
<1>2. ds \in SUBSET Uids
  OBVIOUS
<1>3. \A u \in Uids \ ds : media'[u] = media[u]
  BY <1>1, UnreportedSame
<1>4. \A u \in ds : media'[u] = Up(media[u]) \/ media'[u] = Down(media[u])
  BY <1>1 DEF Reported, Bumped
<1> HIDE DEF ds
<1>5. Cardinality(ds) \in Nat /\ Cardinality(ds) <= 2
  BY <1>2, FewDescs
<1>6. \A d \in Descs \ ds : Counts'[d] = Counts[d]
  BY <1>1, <1>3, CountsAre DEF Descs
<1>7. \A d \in ds : Moved(d)
  <2> TAKE d \in ds
  <2>1. d \in Uids /\ (media'[d] = Up(media[d]) \/ media'[d] = Down(media[d]))
    BY <1>2, <1>4
  <2>2. /\ Counts[d] = <<media[d].locked, media[d].unlocked>>
        /\ Counts'[d] = <<media'[d].locked, media'[d].unlocked>>
    BY <2>1, CountsAre
  <2> QED BY <2>1, <2>2, BumpMoves DEF Moved
<1>8. ds \in SUBSET Descs /\ Cardinality(ds) <= Cardinality(ds)
  BY <1>2, <1>5 DEF Descs
<1> QED BY <1>1, <1>5, <1>6, <1>7, <1>8, PushPublishes

(* The connect and disconnect notifications: two pushes, of which the counters' tells of
   at most one edge. *)
LEMMA NotifyPublishes ==
    ASSUME IInv, IInv', NEW u \in Uids, NEW t, media' = [media EXCEPT ![u] = t],
           t = media[u] \/ t = Up(media[u]) \/ t = Down(media[u]),
           Push(2, {u}), UNCHANGED clock
    PROVE  P!Next
<1>1. \A v \in Uids : media'[v] = IF v = u THEN t ELSE media[v]
  BY DEF IInv, TypeOK
<1>2. \A d \in Descs \ {u} : Counts'[d] = Counts[d]
  BY <1>1, CountsAre DEF Descs
<1>3. CASE t = media[u]
  <2>1. \A d \in Descs \ {} : Counts'[d] = Counts[d]
    BY <1>1, <1>2, <1>3, CountsAre
  <2>2. {} \in SUBSET Descs /\ Cardinality({}) <= 2 /\ \A d \in {} : Moved(d)
    BY FewDescs
  <2>3. 2 \in Nat /\ 2 <= 2
    OBVIOUS
  <2> QED BY <2>1, <2>2, <2>3, PushPublishes
<1>4. CASE t = Up(media[u]) \/ t = Down(media[u])
  <2>1. Moved(u)
    <3>1. /\ Counts[u] = <<media[u].locked, media[u].unlocked>>
          /\ Counts'[u] = <<t.locked, t.unlocked>>
      BY <1>1, CountsAre
    <3> QED BY <1>4, <3>1, BumpMoves DEF Moved
  <2>2. {u} \in SUBSET Descs /\ Cardinality({u}) <= 2 /\ \A d \in {u} : Moved(d)
    BY <2>1, FewDescs DEF Descs
  <2>3. 2 \in Nat /\ 2 <= 2
    OBVIOUS
  <2> QED BY <1>2, <2>2, <2>3, PushPublishes
<1> QED BY <1>3, <1>4

LEMMA ClockTrackingPublishes ==
    ASSUME IInv, IInv', TrackClockLock, Push(1, {Domain}), clock' = Bumped(clock, SourceLocked),
           clock.last # SourceLocked
    PROVE  P!Next
<1>1. UNCHANGED media
  BY DEF TrackClockLock
<1>2. clock' = Up(clock) \/ clock' = Down(clock)
  BY DEF Bumped, Changed
<1>3. \A d \in Descs \ {Domain} : Counts'[d] = Counts[d]
  BY <1>1, CountsAre DEF Descs
<1>4. Moved(Domain)
  <2>1. /\ Counts[Domain] = <<clock.locked, clock.unlocked>>
        /\ Counts'[Domain] = <<clock'.locked, clock'.unlocked>>
    BY CountsAre
  <2> QED BY <1>2, <2>1, BumpMoves DEF Moved
<1>5. {Domain} \in SUBSET Descs /\ Cardinality({Domain}) <= 1 /\ \A d \in {Domain} : Moved(d)
  <2>1. Cardinality({Domain}) = 1
    BY FewDescs, Zenon
  <2> QED BY <1>4, <2>1 DEF Descs
<1>6. 1 \in Nat /\ 1 <= 2
  OBVIOUS
<1> QED BY <1>3, <1>5, <1>6, PushPublishes

(* Steps that concern neither the counts nor the table. *)
LEMMA QuietStutters ==
    ASSUME IInv, IInv', UNCHANGED <<media, unsol, heard>>,
           clock'.locked = clock.locked, clock'.unlocked = clock.unlocked
    PROVE  UNCHANGED <<Counts, Subs>>
<1>1. Counts' = Counts
  BY DEF Counts, Told
<1>2. Members' = Members
  BY DEF Members, Active
<1>3. SubsAreInStep /\ SubsAreInStep'
  BY InStep, InStepNext
<1> QED BY <1>1, <1>2, <1>3 DEF SubsAreInStep

(* A registration joins, repeats itself, or finds no room. *)
LEMMA RegisterJoins ==
    ASSUME IInv, IInv', NEW c \in Ctrls, Register(c)
    PROVE  [P!Next]_<<Counts, Subs>>
<1>1. Counts' = Counts
  BY DEF Register, Counts, Told
<1>2. SubsAreInStep /\ SubsAreInStep'
  BY InStep, InStepNext
<1>3. c \in Members <=> Active(c) # {}
  BY DEF Members
<1>4. heard' = IF c \in Members THEN heard ELSE [heard EXCEPT ![c] = 0]
  BY DEF Register
<1>5. DOMAIN Subs = Members
  BY DEF Subs
<1>6. CASE \E i \in Slots : Lowest(i, OwnSlot(c)) /\ Occupy(i, c, unsol[i].seq)
  <2>1. PICK i \in Slots : Lowest(i, OwnSlot(c)) /\ Occupy(i, c, unsol[i].seq)
    BY <1>6
  <2>2. i \in Active(c) /\ unsol[i].active /\ unsol[i].ctrl = c
    BY <2>1 DEF Lowest, OwnSlot, Active
  <2>3. \A j \in Slots : unsol'[j].active = unsol[j].active /\ unsol'[j].ctrl = unsol[j].ctrl
    BY <2>1, <2>2 DEF Occupy, IInv, TypeOK, Slot
  <2>4. Members' = Members
    BY <2>3 DEF Members, Active
  <2>5. heard' = heard
    BY <1>3, <1>4, <2>2
  <2> QED BY <1>1, <1>2, <2>4, <2>5 DEF SubsAreInStep
<1>7. CASE \E i \in Slots : OwnSlot(c) = {} /\ Lowest(i, Free) /\ Occupy(i, c, StartSeq(i))
  <2>1. PICK i \in Slots : OwnSlot(c) = {} /\ Lowest(i, Free) /\ Occupy(i, c, 0)
    BY <1>7 DEF StartSeq
  <2>2. ~ unsol[i].active /\ c \notin Members /\ Free # {}
    BY <1>3, <2>1 DEF Lowest, Free, OwnSlot
  <2>3. \A j \in Slots : unsol'[j] = IF j = i THEN [active |-> TRUE, ctrl |-> c, seq |-> 0] ELSE unsol[j]
    BY <2>1 DEF Occupy, IInv, TypeOK
  <2>4. \A k \in Ctrls : Active(k)' = IF k = c THEN Active(k) \cup {i} ELSE Active(k)
    BY <2>2, <2>3 DEF Active
  <2>5. Members' = Members \cup {c}
    BY <2>4 DEF Members
  <2>6. \A k \in Members \cup {c} : heard'[k] = IF k = c THEN 0 ELSE heard[k]
    BY <1>4, <2>2 DEF IInv, TypeOK, Members
  <2>7. Subs' = [k \in Members \cup {c} |-> IF k = c THEN [seq |-> 0, told |-> Counts] ELSE Subs[k]]
    BY <1>1, <1>2, <2>5, <2>6 DEF SubsAreInStep
  <2>8. Cardinality(Members) < SLOTS
    BY <2>2, MembersFit
  <2>9. P!Join(c)
    BY <1>1, <1>5, <2>2, <2>7, <2>8, SameSize, Zenon DEF P!Join, P!Subscribers
  <2> QED BY <2>9, Zenon DEF P!Next
<1>8. CASE OwnSlot(c) = {} /\ Free = {} /\ UNCHANGED unsol
  <2>1. Members' = Members /\ c \notin Members
    BY <1>3, <1>8 DEF Members, Active, OwnSlot
  <2>2. \A k \in Members : heard'[k] = heard[k]
    BY <1>4, <2>1 DEF IInv, TypeOK, Members
  <2> QED BY <1>1, <1>2, <2>1, <2>2 DEF SubsAreInStep
<1> QED BY <1>6, <1>7, <1>8 DEF Register

LEMMA DeregisterLeaves ==
    ASSUME IInv, IInv', NEW c \in Ctrls, Deregister(c)
    PROVE  P!Leave(c)
<1>1. Counts' = Counts
  BY DEF Deregister, Counts, Told
<1>2. SubsAreInStep /\ SubsAreInStep'
  BY InStep, InStepNext
<1>3. \A j \in Slots : /\ unsol'[j].ctrl = unsol[j].ctrl
                       /\ unsol'[j].active <=> unsol[j].active /\ unsol[j].ctrl # c
  <2>1. CASE \E i \in Slots : Lowest(i, OwnSlot(c)) /\ unsol' = [unsol EXCEPT ![i].active = FALSE]
    <3>1. PICK i \in Slots : Lowest(i, OwnSlot(c)) /\ unsol' = [unsol EXCEPT ![i].active = FALSE]
      BY <2>1
    <3>2. unsol[i].active /\ unsol[i].ctrl = c
      BY <3>1 DEF Lowest, OwnSlot, Active
    <3>3. \A j \in Slots : unsol[j].active /\ unsol[j].ctrl = c => j = i
      BY <3>2 DEF IInv, TableInv, RegisteredOnce
    <3> QED BY <3>1, <3>2, <3>3 DEF IInv, TypeOK, Slot
  <2>2. CASE OwnSlot(c) = {} /\ UNCHANGED unsol
    BY <2>2 DEF OwnSlot, Active
  <2> QED BY <2>1, <2>2 DEF Deregister
<1>4. \A k \in Ctrls : Active(k)' = IF k = c THEN {} ELSE Active(k)
  BY <1>3 DEF Active
<1>5. Members' = Members \ {c}
  BY <1>4 DEF Members
<1>6. \A k \in Members \ {c} : heard'[k] = heard[k]
  BY DEF Deregister, IInv, TypeOK, Members
<1>7. Subs' = [k \in Members \ {c} |-> Subs[k]]
  BY <1>1, <1>2, <1>5, <1>6 DEF SubsAreInStep
<1>8. DOMAIN Subs = Members
  BY DEF Subs
<1> QED BY <1>1, <1>7, <1>8, Zenon DEF P!Leave, P!Subscribers

(* Every step is one of the subscription, or none of its business. *)
LEMMA StepSubscribes ==
    ASSUME IInv, IInv', [Next]_vars
    PROVE  [P!Next]_<<Counts, Subs>>
<1>1. CASE TrackMediaLock
  BY <1>1, LockTrackingPublishes
<1>2. CASE TrackClockLock
  <2>1. UNCHANGED media
    BY <1>2 DEF TrackClockLock
  <2>2. CASE clock' = Adopted(clock, SourceLocked) /\ Silent
    <3>1. clock'.locked = clock.locked /\ clock'.unlocked = clock.unlocked
      BY <2>2 DEF Adopted, IInv, TypeOK
    <3> QED BY <2>1, <2>2, <3>1, QuietStutters DEF Silent
  <2>3. CASE clock.last # SourceLocked /\ clock' = Bumped(clock, SourceLocked) /\ Push(1, {Domain})
    BY <1>2, <2>3, ClockTrackingPublishes
  <2>4. CASE Silent /\ UNCHANGED clock
    BY <2>1, <2>4, QuietStutters DEF Silent
  <2> QED BY <1>2, <2>2, <2>3, <2>4 DEF TrackClockLock
<1>3. CASE Media
  BY <1>3, QuietStutters DEF Media
<1>4. ASSUME NEW u \in Uids, NotifyDisconnected(u) PROVE P!Next
  BY <1>4, NotifyPublishes DEF NotifyDisconnected, Disconnected
<1>5. ASSUME NEW u \in Uids, NEW bind \in BOOLEAN, NotifyConnected(u, bind) PROVE P!Next
  BY <1>5, NotifyPublishes DEF NotifyConnected, Connected
<1>6. ASSUME NEW s \in {0, 1}, SetClockSource(s) PROVE UNCHANGED <<Counts, Subs>>
  BY <1>6, QuietStutters DEF SetClockSource
<1>7. ASSUME NEW c \in Ctrls, Register(c) PROVE [P!Next]_<<Counts, Subs>>
  BY <1>7, RegisterJoins
<1>8. ASSUME NEW c \in Ctrls, Deregister(c) PROVE P!Next
  BY <1>8, DeregisterLeaves, Zenon DEF P!Next
<1>9. CASE UNCHANGED vars
  BY <1>9, QuietStutters DEF vars
<1> QED BY <1>1, <1>2, <1>3, <1>4, <1>5, <1>6, <1>7, <1>8, <1>9 DEF Next

(* Slots, edge detectors and baselines implement a numbered subscription, for any number
   of controllers and slots and any width of the ids (push_unsol_counters,
   REGISTER_UNSOLICITED_NOTIFICATION). *)
THEOREM PushesImplementSubscription == Spec => ImplementsSubscription
<1>1. ASSUME Init
      PROVE  P!Init
  <2>1. Members = {}
    BY <1>1 DEF Init, Members, Active
  <2>2. Subs = [c \in {} |-> 0]
    BY <2>1 DEF Subs
  <2>3. Counts = [d \in Descs |-> <<0, 0>>]
    BY <1>1 DEF Init, Counts, Told, Descs, Uids, Domain
  <2> QED BY <2>2, <2>3 DEF P!Init, Descs
<1>2. IInv /\ IInv' /\ [Next]_vars => [P!Next]_<<Counts, Subs>>
  BY StepSubscribes
<1> QED BY <1>1, <1>2, CountersCorrect, PTL DEF Spec, ImplementsSubscription, P!Spec, P!vars
=============================================================================
