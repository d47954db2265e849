----------------------------- MODULE SrpProofs -----------------------------
(***************************************************************************)
(* The MSRP applicant and registrar of module Srp are right for any number *)
(* of talkers, any table size and any timer periods.                       *)
(***************************************************************************)
EXTENDS Srp, FiniteSetTheorems, WellFoundedInduction, TLAPS

(* How late the timers and the ages can be when the last poll was lag ticks ago. *)
Timely ==
    /\ \A i \in Slots : table[i].age < AGE + lag
    /\ seen.age < AGE + lag
    /\ sinceJoin < JOIN + lag
    /\ sinceLva < LEAVEALL + lag

(* A free slot has no age, and neither has a registration that is not there. *)
Blank == /\ \A i \in Slots : table[i].sid = NoSid => table[i] = FreeSlot
         /\ ~ seen.registered => seen = NotSeen

(* The applicant counts exactly what the bridge was told, and an enabled listener
   is declared Ready from the start: the keepalive of srp_poll has nothing to do. *)
Applicant == newCount = announced /\ (listener.enabled => listener.substate = "ready")

FreshNamed == fresh => listener.sid \in Sids

IInv == TypeOK /\ Timely /\ Blank /\ Applicant /\ FreshNamed
        /\ RegistrarKeepsLatest /\ RegisteredIsHeard

-----------------------------------------------------------------------------
(* The slot an advertise is stored in exists. *)
LEMMA LeastIsLeast ==
    ASSUME NEW I \in SUBSET Nat, I # {}
    PROVE  Least(I) \in I /\ \A j \in I : Least(I) <= j
<1>1. PICK i \in I : \A j \in I : <<j, i>> \notin OpToRel(<, Nat)
  BY WFMin, NatLessThanWellFounded, Zenon
<1>2. \A j \in I : ~ (j < i)
  BY <1>1, Zenon DEF OpToRel
<1>3. \A j \in I : i <= j
  BY <1>2
<1> QED BY <1>3 DEF Least

(* A table has a least recently seen entry: the one with the greatest age. *)
LEMMA OldestExists ==
    ASSUME TypeOK
    PROVE  Oldest # {}
<1> DEFINE gaps == {OLD - table[i].age : i \in Slots}
<1>1. /\ OLD \in Nat
      /\ \A i \in Slots : table[i].age \in Nat /\ table[i].age <= OLD
  BY SrpAssumption DEF TypeOK, OLD, AGE
<1>2. gaps \subseteq Nat /\ gaps # {}
  <2>1. 1 \in Slots
    BY SrpAssumption DEF Slots
  <2> QED BY <1>1, <2>1
<1>3. Least(gaps) \in gaps /\ \A g \in gaps : Least(gaps) <= g
  BY <1>2, LeastIsLeast
<1>4. PICK i \in Slots : Least(gaps) = OLD - table[i].age
  BY <1>3
<1>5. \A j \in Slots : table[j].age <= table[i].age
  <2> TAKE j \in Slots
  <2>1. OLD - table[i].age <= OLD - table[j].age
    BY <1>3, <1>4
  <2> QED BY <1>1, <2>1
<1> QED BY <1>5 DEF Oldest

(* What the upsert of srp_process_rx does: one slot is taken, the stream's own when
   it has one, a free one when there is one, and else one no younger than any other. *)
LEMMA UpsertTakesOne ==
    ASSUME TypeOK, NEW s \in Sids
    PROVE  \E k \in Slots :
             /\ Upsert(s) = [table EXCEPT ![k] = [sid |-> s, age |-> 0]]
             /\ \/ table[k].sid = s
                \/ SlotsOf(s) = {} /\ table[k].sid = NoSid
                \/ /\ SlotsOf(s) = {} /\ \A i \in Slots : table[i].sid # NoSid
                   /\ \A i \in Slots : table[i].age <= table[k].age
<1>1. SlotsOf(s) \subseteq Nat /\ Free \subseteq Nat /\ Oldest \subseteq Nat
  BY DEF SlotsOf, Free, Oldest, Slots
<1>2. CASE SlotsOf(s) # {}
  <2>1. Least(SlotsOf(s)) \in SlotsOf(s)
    BY <1>1, <1>2, LeastIsLeast
  <2>2. Upsert(s) = [table EXCEPT ![Least(SlotsOf(s))] = [sid |-> s, age |-> 0]]
    BY <1>2 DEF Upsert
  <2> QED BY <2>1, <2>2 DEF SlotsOf
<1>3. CASE SlotsOf(s) = {} /\ Free # {}
  <2>1. Least(Free) \in Free
    BY <1>1, <1>3, LeastIsLeast
  <2>2. Upsert(s) = [table EXCEPT ![Least(Free)] = [sid |-> s, age |-> 0]]
    BY <1>3 DEF Upsert
  <2> QED BY <1>3, <2>1, <2>2 DEF Free
<1>4. CASE SlotsOf(s) = {} /\ Free = {}
  <2>1. Least(Oldest) \in Oldest
    BY <1>1, OldestExists, LeastIsLeast
  <2>2. Upsert(s) = [table EXCEPT ![Least(Oldest)] = [sid |-> s, age |-> 0]]
    BY <1>4 DEF Upsert
  <2> QED BY <1>4, <2>1, <2>2 DEF Oldest, Free
<1> QED BY <1>2, <1>3, <1>4

(* The table after an advertise still holds the talkers heard most recently. *)
LEMMA UpsertKeepsLatest ==
    ASSUME TypeOK, Timely, RegistrarKeepsLatest, NEW s \in Sids,
           table' = Upsert(s), heard' = [heard EXCEPT ![s] = 0]
    PROVE  RegistrarKeepsLatest'
<1>1. PICK k \in Slots :
             /\ table' = [table EXCEPT ![k] = [sid |-> s, age |-> 0]]
             /\ \/ table[k].sid = s
                \/ SlotsOf(s) = {} /\ table[k].sid = NoSid
                \/ /\ SlotsOf(s) = {} /\ \A i \in Slots : table[i].sid # NoSid
                   /\ \A i \in Slots : table[i].age <= table[k].age
  BY UpsertTakesOne
<1>2. \A i \in Slots : table'[i] = IF i = k THEN [sid |-> s, age |-> 0] ELSE table[i]
  BY <1>1 DEF TypeOK
<1>3. \A t \in Sids : heard'[t] = IF t = s THEN 0 ELSE heard[t]
  BY DEF TypeOK
<1>4. \A i \in Slots : i # k => table[i].sid # s
  BY <1>1, SrpAssumption DEF SlotsOf, RegistrarKeepsLatest
<1>5. s # NoSid
  BY SrpAssumption
<1>6. \A i \in Slots : table[i].sid \in Sids \cup {NoSid} /\ table[i].age \in Nat
  BY SrpAssumption DEF TypeOK, OLD, AGE
<1>7. \A i, j \in Slots : table'[i].sid = table'[j].sid /\ table'[i].sid # NoSid => i = j
  BY <1>2, <1>4 DEF RegistrarKeepsLatest
<1>8. \A i \in Slots : table'[i].sid # NoSid => table'[i].age = heard'[table'[i].sid]
  <2> TAKE i \in Slots
  <2>1. CASE i = k
    BY <1>2, <1>3, <2>1
  <2>2. CASE i # k
    BY <1>2, <1>3, <1>4, <1>6, <2>2 DEF RegistrarKeepsLatest
  <2> QED BY <2>1, <2>2
<1>9. ASSUME NEW t \in Sids, heard'[t] < AGE
      PROVE  \/ \E i \in Slots : table'[i].sid = t
             \/ \A i \in Slots : table'[i].sid # NoSid /\ table'[i].age <= heard'[t]
  <2>0. t # NoSid /\ heard[t] \in Nat
    BY SrpAssumption DEF TypeOK, Ages
  <2>1. CASE t = s
    BY <1>2, <2>1
  <2>2. CASE t # s /\ \E i \in Slots : i # k /\ table[i].sid = t
    BY <1>2, <2>2
  <2>3. CASE t # s /\ table[k].sid = t
    <3>1. /\ \A i \in Slots : table[i].sid # NoSid
          /\ \A i \in Slots : table[i].age <= table[k].age
      BY <1>1, <2>0, <2>3
    <3>2. table[k].age = heard[t]
      BY <2>0, <2>3 DEF RegistrarKeepsLatest
    <3> QED BY <1>2, <1>3, <1>5, <2>0, <2>3, <3>1, <3>2
  <2>4. CASE t # s /\ \A i \in Slots : table[i].sid # t
    <3>1. \A i \in Slots : table[i].sid # NoSid /\ table[i].age <= heard[t]
      BY <1>3, <1>9, <2>4 DEF RegistrarKeepsLatest
    <3> QED BY <1>2, <1>3, <1>5, <2>0, <2>4, <3>1
  <2> QED BY <2>1, <2>2, <2>3, <2>4
<1> QED BY <1>7, <1>8, <1>9 DEF RegistrarKeepsLatest

-----------------------------------------------------------------------------
(* One lemma per action. *)
LEMMA SizesOK ==
    /\ AGE \in Nat \ {0} /\ OLD \in Nat /\ AGE + MaxLag = OLD
    /\ JOIN \in Nat \ {0} /\ LEAVEALL \in Nat \ {0} /\ MaxLag \in Nat \ {0}
BY SrpAssumption DEF AGE, OLD

(* Attaching the listener to a stream. *)
LEMMA AttachKeeps ==
    ASSUME IInv, NEW s \in Sids, Attach(s)
    PROVE  /\ listener' \in Listener /\ listener'.enabled /\ listener'.sid = s
           /\ listener'.substate = "ready"
           /\ newCount' \in [Attrs -> 0..2] /\ newCount' = announced'
BY DEF IInv, TypeOK, Attach, Listener, Restarted, Attrs, Applicant

LEMMA TalkerEnableKeeps ==
    ASSUME IInv, NEW on \in BOOLEAN, TalkerEnable(on)
    PROVE  IInv'
<1>1. TypeOK'
  BY DEF IInv, TypeOK, TalkerEnable, Restarted, Attrs, rxVars, askVars, joinVars
<1>2. Applicant'
  BY DEF IInv, Applicant, TalkerEnable, Restarted, rxVars, askVars, joinVars
<1>3. Timely' /\ Blank' /\ FreshNamed' /\ RegistrarKeepsLatest' /\ RegisteredIsHeard'
  BY DEF IInv, TalkerEnable, rxVars, askVars, joinVars, Timely, Blank, FreshNamed,
         RegistrarKeepsLatest, RegisteredIsHeard
<1> QED BY <1>1, <1>2, <1>3 DEF IInv

LEMMA ListenerEnableKeeps ==
    ASSUME IInv, NEW s \in Sids, ListenerEnable(s)
    PROVE  IInv'
<1>1. /\ seen' = NotSeen /\ fresh' = FALSE /\ learning' = NoSid
      /\ UNCHANGED <<rxVars, joinVars, talkerOn, domain>> /\ Attach(s)
  BY DEF ListenerEnable, SeenAtEnable
<1>2. /\ listener' \in Listener /\ listener'.substate = "ready"
      /\ newCount' \in [Attrs -> 0..2] /\ newCount' = announced'
  BY <1>1, AttachKeeps
<1>3. NotSeen \in [registered : BOOLEAN, age : 0..(OLD - 1)]
  BY SizesOK DEF NotSeen
<1>4. TypeOK'
  BY <1>1, <1>2, <1>3 DEF IInv, TypeOK, rxVars, joinVars
<1>5. Timely'
  BY <1>1, SizesOK DEF IInv, TypeOK, Timely, NotSeen, rxVars, joinVars
<1>6. Blank' /\ Applicant' /\ FreshNamed' /\ RegistrarKeepsLatest' /\ RegisteredIsHeard'
  BY <1>1, <1>2 DEF IInv, Blank, NotSeen, Applicant, FreshNamed, RegistrarKeepsLatest,
                    RegisteredIsHeard, rxVars
<1> QED BY <1>4, <1>5, <1>6 DEF IInv

LEMMA ListenerDisableKeeps ==
    ASSUME IInv, ListenerDisable
    PROVE  IInv'
<1>1. listener' \in Listener /\ ~ listener'.enabled /\ listener'.sid = listener.sid
  BY DEF IInv, TypeOK, ListenerDisable, Listener
<1>2. TypeOK'
  BY <1>1 DEF IInv, TypeOK, ListenerDisable, rxVars, joinVars
<1>3. Timely' /\ Blank' /\ Applicant' /\ FreshNamed' /\ RegistrarKeepsLatest'
  BY <1>1 DEF IInv, ListenerDisable, rxVars, joinVars, Timely, Blank, Applicant, FreshNamed,
              RegistrarKeepsLatest
<1>4. RegisteredIsHeard'
  BY <1>1 DEF IInv, ListenerDisable, rxVars, RegisteredIsHeard
<1> QED BY <1>2, <1>3, <1>4 DEF IInv

(* Parking, and a Domain that is received, are no matter of the invariant. *)
LEMMA AsideKeeps ==
    ASSUME IInv, UNCHANGED <<rxVars, askVars, joinVars, talkerOn, newCount, announced>>,
           domain' \in Domains \cup {Default}, learning' \in Sids \cup {NoSid}
    PROVE  IInv'
<1>1. TypeOK'
  BY DEF IInv, TypeOK, rxVars, askVars, joinVars
<1>2. Timely' /\ Blank' /\ Applicant' /\ FreshNamed' /\ RegistrarKeepsLatest' /\ RegisteredIsHeard'
  BY DEF IInv, rxVars, askVars, joinVars, Timely, Blank, Applicant, FreshNamed,
         RegistrarKeepsLatest, RegisteredIsHeard
<1> QED BY <1>1, <1>2 DEF IInv

(* The substate a matching advertise sets is the one the listener has. *)
LEMMA MatchedStutters ==
    ASSUME IInv, NEW s \in Sids, Matched(s)
    PROVE  listener' = listener
<1>1. CASE listener.enabled /\ listener.sid = s
  <2>1. listener.substate = "ready" /\ listener' = [listener EXCEPT !.substate = "ready"]
    BY <1>1 DEF IInv, Applicant, Matched
  <2> QED BY <2>1 DEF IInv, TypeOK, Listener
<1>2. CASE ~ (listener.enabled /\ listener.sid = s)
  BY <1>2 DEF Matched
<1> QED BY <1>1, <1>2

LEMMA AdvertiseKeeps ==
    ASSUME IInv, NEW s \in Sids, RxTalkerAdvertise(s)
    PROVE  IInv'
<1>1. PICK k \in Slots : table' = [table EXCEPT ![k] = [sid |-> s, age |-> 0]]
  BY UpsertTakesOne DEF IInv, RxTalkerAdvertise
<1>2. [sid |-> s, age |-> 0] \in [sid : Sids \cup {NoSid}, age : 0..(OLD - 1)]
  BY SizesOK
<1>3. /\ listener' \in Listener /\ newCount' \in [Attrs -> 0..2] /\ newCount' = announced'
      /\ listener'.enabled => listener'.substate = "ready"
      /\ learning' \in Sids \cup {NoSid}
  <2>1. CASE learning = s
    BY <2>1, AttachKeeps DEF RxTalkerAdvertise
  <2>2. CASE learning # s
    BY <2>2, MatchedStutters DEF RxTalkerAdvertise, IInv, TypeOK, Applicant
  <2> QED BY <2>1, <2>2
<1>4. /\ seen' \in [registered : BOOLEAN, age : 0..(OLD - 1)]
      /\ seen' = [registered |-> TRUE, age |-> 0] \/ seen' = NotSeen \/ seen' = seen
  BY SizesOK DEF RxTalkerAdvertise, SeenAtEnable, NotSeen, IInv, TypeOK
<1>5. UNCHANGED <<joinVars, talkerOn, domain>> /\ fresh' \in BOOLEAN
  BY DEF RxTalkerAdvertise, IInv, TypeOK
<1>6. heard' = [heard EXCEPT ![s] = 0] /\ heard' \in [Sids -> Ages]
  BY SizesOK DEF RxTalkerAdvertise, IInv, TypeOK, Ages
<1>7. TypeOK'
  BY <1>1, <1>2, <1>3, <1>4, <1>5, <1>6 DEF IInv, TypeOK, joinVars
<1>8. Timely'
  <2>1. \A i \in Slots : table'[i].age = 0 \/ table'[i] = table[i]
    BY <1>1 DEF IInv, TypeOK
  <2>2. seen'.age = 0 \/ seen'.age = seen.age
    BY <1>4 DEF NotSeen
  <2> QED BY <1>5, <2>1, <2>2, SizesOK DEF IInv, TypeOK, Timely, joinVars
<1>9. Blank'
  <2>1. \A i \in Slots : table'[i].sid = NoSid => table'[i] = FreeSlot
    BY <1>1, SrpAssumption DEF IInv, TypeOK, Blank
  <2> QED BY <1>4, <2>1 DEF IInv, Blank
<1>10. Applicant'
  BY <1>3 DEF Applicant
<1>11. FreshNamed'
  <2>1. CASE learning = s
    BY <2>1, AttachKeeps DEF RxTalkerAdvertise, FreshNamed
  <2>2. CASE learning # s
    BY <2>2, MatchedStutters DEF RxTalkerAdvertise, IInv, FreshNamed
  <2> QED BY <2>1, <2>2
<1>12. RegistrarKeepsLatest'
  BY <1>6, UpsertKeepsLatest DEF IInv, RxTalkerAdvertise
<1>13. RegisteredIsHeard'
  <2> SUFFICES ASSUME seen'.registered
               PROVE  /\ fresh' /\ heard'[listener'.sid] <= seen'.age
                      /\ listener'.enabled => heard'[listener'.sid] = seen'.age
    BY DEF RegisteredIsHeard
  <2>1. heard'[s] = 0
    BY <1>6 DEF IInv, TypeOK
  <2>2. CASE listener'.enabled /\ listener'.sid = s
    <3>1. seen' = [registered |-> TRUE, age |-> 0] /\ fresh'
      BY <2>2 DEF RxTalkerAdvertise, Wanted
    <3> QED BY <2>1, <2>2, <3>1
  <2>3. CASE ~ (listener'.enabled /\ listener'.sid = s)
    <3>1. learning # s
      BY <2>3, AttachKeeps DEF RxTalkerAdvertise
    <3>2. seen' = seen /\ listener' = listener /\ (fresh => fresh')
      BY <2>3, <3>1, MatchedStutters DEF RxTalkerAdvertise, Wanted
    <3>3. fresh /\ listener.sid \in Sids
      BY <3>2 DEF IInv, RegisteredIsHeard, FreshNamed
    <3>4. heard'[listener.sid] = IF listener.sid = s THEN 0 ELSE heard[listener.sid]
      BY <1>6, <3>3 DEF IInv, TypeOK
    <3>5. seen.age \in Nat
      BY SizesOK DEF IInv, TypeOK
    <3> QED BY <2>3, <3>2, <3>3, <3>4, <3>5 DEF IInv, RegisteredIsHeard
  <2> QED BY <2>2, <2>3
<1> QED BY <1>7, <1>8, <1>9, <1>10, <1>11, <1>12, <1>13 DEF IInv

(* srp_poll on the table: what is too old goes, the rest stays. *)
LEMMA PolledTable ==
    ASSUME IInv, SrpPoll
    PROVE  \A i \in Slots : /\ table'[i] = IF table[i].age >= AGE THEN FreeSlot ELSE table[i]
                            /\ table'[i].age < AGE
<1> TAKE i \in Slots
<1>1. table'[i] = IF table[i].age >= AGE THEN FreeSlot ELSE table[i]
  BY DEF SrpPoll, Expires
<1>2. table[i].age \in Nat
  BY SizesOK DEF IInv, TypeOK
<1> QED BY <1>1, <1>2, SizesOK DEF FreeSlot

(* srp_poll's applicant: a count only moves from below two, and the bridge is told. *)
LEMMA PolledCounts ==
    ASSUME IInv, SrpPoll
    PROVE  /\ listener' = listener
           /\ newCount' \in [Attrs -> 0..2] /\ newCount' = announced'
           /\ sinceJoin >= JOIN => \A a \in Declared : announced[a] = 2 \/ announced'[a] = announced[a] + 1
<1>1. ~ Reassert
  BY DEF IInv, Applicant, Reassert
<1> DEFINE fired == {a \in Declared : JoinDue /\ IsNew(newCount[a])}
<1>2. listener' = listener /\ newCount' = Bumped(newCount, fired)
      /\ announced' = Bumped(announced, {a \in fired : announced[a] < 2})
  BY <1>1 DEF SrpPoll
<1>3. newCount = announced /\ \A a \in Attrs : newCount[a] \in 0..2
  BY DEF IInv, TypeOK, Applicant
<1>4. \A a \in fired : a \in Attrs /\ newCount[a] < 2
  BY DEF IsNew, Declared
<1>5. {a \in fired : announced[a] < 2} = fired
  BY <1>3, <1>4
<1>6. newCount' = [a \in Attrs |-> IF a \in fired THEN newCount[a] + 1 ELSE newCount[a]]
      /\ announced' = newCount'
  <2> HIDE DEF fired
  <2> QED BY <1>2, <1>3, <1>5 DEF Bumped
<1>7. newCount' \in [Attrs -> 0..2]
  <2>1. \A a \in Attrs : (IF a \in fired THEN newCount[a] + 1 ELSE newCount[a]) \in 0..2
    <3> HIDE DEF fired
    <3> QED BY <1>3, <1>4
  <2> HIDE DEF fired
  <2> QED BY <1>6, <2>1
<1>8. ASSUME sinceJoin >= JOIN, NEW a \in Declared
      PROVE  announced[a] = 2 \/ announced'[a] = announced[a] + 1
  <2>1. a \in Attrs /\ (a \in fired <=> newCount[a] < 2)
    BY <1>8 DEF Declared, JoinDue, IsNew
  <2> HIDE DEF fired
  <2> QED BY <1>3, <1>6, <2>1
<1> QED BY <1>2, <1>6, <1>7, <1>8

LEMMA PollKeeps ==
    ASSUME IInv, SrpPoll
    PROVE  IInv'
<1>1. \A i \in Slots : /\ table'[i] = IF table[i].age >= AGE THEN FreeSlot ELSE table[i]
                       /\ table'[i].age < AGE
  BY PolledTable
<1>2. listener' = listener /\ newCount' \in [Attrs -> 0..2] /\ newCount' = announced'
  BY PolledCounts
<1>3. seen' = IF seen.registered /\ seen.age >= AGE THEN NotSeen ELSE seen
  BY DEF SrpPoll, Expires
<1>4. UNCHANGED <<heard, fresh, talkerOn, domain, learning>> /\ lag' = 0
  BY DEF SrpPoll
<1>5. /\ sinceJoin' \in 0..(JOIN - 1 + MaxLag) /\ sinceJoin' < JOIN
      /\ sinceLva' \in 0..(LEAVEALL - 1 + MaxLag) /\ sinceLva' < LEAVEALL
  BY SizesOK DEF SrpPoll, JoinDue, LvaDue, IInv, TypeOK
<1>6. table' \in [Slots -> [sid : Sids \cup {NoSid}, age : 0..(OLD - 1)]]
  <2>1. FreeSlot \in [sid : Sids \cup {NoSid}, age : 0..(OLD - 1)]
    BY SizesOK DEF FreeSlot
  <2>2. \A i \in Slots : table'[i] \in [sid : Sids \cup {NoSid}, age : 0..(OLD - 1)]
    BY <1>1, <2>1 DEF IInv, TypeOK
  <2> QED BY <2>2 DEF SrpPoll
<1>7. seen' \in [registered : BOOLEAN, age : 0..(OLD - 1)] /\ seen'.age < AGE
      /\ (seen'.registered => seen' = seen) /\ (~ seen'.registered => seen' = NotSeen)
  <2>1. seen \in [registered : BOOLEAN, age : 0..(OLD - 1)] /\ (~ seen.registered => seen = NotSeen)
    BY DEF IInv, TypeOK, Blank
  <2>2. /\ NotSeen \in [registered : BOOLEAN, age : 0..(OLD - 1)]
        /\ ~ NotSeen.registered /\ NotSeen.age = 0
    BY SizesOK DEF NotSeen
  <2>3. CASE seen.registered /\ seen.age >= AGE
    BY <1>3, <2>2, <2>3, SizesOK
  <2>4. CASE seen.registered /\ ~ (seen.age >= AGE)
    BY <1>3, <2>1, <2>4, SizesOK
  <2>5. CASE ~ seen.registered
    BY <1>3, <2>1, <2>2, <2>5, SizesOK
  <2> QED BY <2>3, <2>4, <2>5
<1>8. TypeOK'
  BY <1>2, <1>4, <1>5, <1>6, <1>7, SizesOK DEF IInv, TypeOK
<1>9. Timely'
  BY <1>1, <1>4, <1>5, <1>7, SizesOK DEF Timely
<1>10. Blank'
  BY <1>1, <1>7 DEF IInv, Blank
<1>11. Applicant' /\ FreshNamed' /\ RegisteredIsHeard'
  BY <1>2, <1>4, <1>7 DEF IInv, Applicant, FreshNamed, RegisteredIsHeard
<1>12. RegistrarKeepsLatest'
  <2>0. \A s \in Sids : s # NoSid /\ heard[s] \in Nat
    BY SrpAssumption DEF IInv, TypeOK, Ages
  <2>1. \A i \in Slots : table'[i].sid # NoSid => table'[i] = table[i]
    BY <1>1 DEF FreeSlot
  <2>2. \A i \in Slots : table[i].age < AGE => table'[i] = table[i]
    BY <1>1, SizesOK DEF IInv, TypeOK
  <2>3. \A i, j \in Slots : table'[i].sid = table'[j].sid /\ table'[i].sid # NoSid => i = j
    BY <2>1 DEF IInv, RegistrarKeepsLatest
  <2>4. \A i \in Slots : table'[i].sid # NoSid => table'[i].age = heard'[table'[i].sid]
    BY <1>4, <2>1 DEF IInv, RegistrarKeepsLatest
  <2>5. ASSUME NEW s \in Sids, heard'[s] < AGE
        PROVE  \/ \E i \in Slots : table'[i].sid = s
               \/ \A i \in Slots : table'[i].sid # NoSid /\ table'[i].age <= heard'[s]
    <3>1. CASE \E i \in Slots : table[i].sid = s
      <4>1. PICK i \in Slots : table[i].sid = s
        BY <3>1
      <4>2. table[i].age = heard[s]
        BY <2>0, <4>1 DEF IInv, RegistrarKeepsLatest
      <4> QED BY <1>4, <2>2, <2>5, <4>1, <4>2
    <3>2. CASE \A i \in Slots : table[i].sid # NoSid /\ table[i].age <= heard[s]
      <4>1. \A i \in Slots : table[i].age < AGE
        BY <1>4, <2>0, <2>5, <3>2, SizesOK DEF IInv, TypeOK
      <4> QED BY <1>4, <2>2, <3>2, <4>1
    <3> QED BY <1>4, <2>5, <3>1, <3>2 DEF IInv, RegistrarKeepsLatest
  <2> QED BY <2>3, <2>4, <2>5 DEF RegistrarKeepsLatest
<1> QED BY <1>8, <1>9, <1>10, <1>11, <1>12 DEF IInv

LEMMA TickKeeps ==
    ASSUME IInv, Tick
    PROVE  IInv'
<1>1. lag' = lag + 1 /\ lag' \in 0..MaxLag /\ lag \in Nat
  BY SizesOK DEF Tick, IInv, TypeOK
<1>2. UNCHANGED <<listener, fresh, talkerOn, domain, newCount, learning, announced>>
  BY DEF Tick
<1>3. \A i \in Slots : /\ table[i].sid = NoSid => table'[i] = FreeSlot
                       /\ table[i].sid # NoSid => /\ table'[i].sid = table[i].sid
                                                  /\ table'[i].age = table[i].age + 1
                       /\ table'[i] \in [sid : Sids \cup {NoSid}, age : 0..(OLD - 1)]
                       /\ table'[i].age < AGE + lag'
  <2> TAKE i \in Slots
  <2>1. /\ table[i] \in [sid : Sids \cup {NoSid}, age : 0..(OLD - 1)] /\ table[i].age \in Nat
        /\ table[i].age + 1 < AGE + lag'
    BY <1>1, SizesOK DEF IInv, TypeOK, Timely
  <2>2. CASE table[i].sid = NoSid
    <3>1. table'[i] = FreeSlot
      BY <2>2 DEF Tick, IInv, Blank
    <3> QED BY <1>1, <2>2, <3>1, SizesOK DEF FreeSlot
  <2>3. CASE table[i].sid # NoSid
    <3>1. table'[i] = [table[i] EXCEPT !.age = @ + 1]
      BY <2>3 DEF Tick
    <3>2. table[i].age + 1 \in 0..(OLD - 1)
      BY <1>1, <2>1, SizesOK
    <3> QED BY <2>1, <2>3, <3>1, <3>2
  <2> QED BY <2>2, <2>3
<1>4. table' \in [Slots -> [sid : Sids \cup {NoSid}, age : 0..(OLD - 1)]]
  BY <1>3 DEF Tick
<1>5. /\ seen' \in [registered : BOOLEAN, age : 0..(OLD - 1)]
      /\ seen'.age < AGE + lag' /\ (~ seen'.registered => seen' = NotSeen)
      /\ seen'.registered = seen.registered
      /\ seen.registered => seen'.age = seen.age + 1
  <2>1. seen \in [registered : BOOLEAN, age : 0..(OLD - 1)] /\ seen.age + 1 < AGE + lag'
    BY <1>1, SizesOK DEF IInv, TypeOK, Timely
  <2>2. CASE seen.registered
    <3>1. seen' = [seen EXCEPT !.age = @ + 1]
      BY <2>2 DEF Tick
    <3>2. seen.age + 1 \in 0..(OLD - 1)
      BY <1>1, <2>1, SizesOK
    <3> QED BY <2>1, <2>2, <3>1, <3>2
  <2>3. CASE ~ seen.registered
    <3>1. seen' = NotSeen /\ seen = NotSeen
      BY <2>3 DEF Tick, IInv, Blank
    <3> QED BY <1>1, <2>1, <2>3, <3>1, SizesOK DEF NotSeen
  <2> QED BY <2>2, <2>3
<1>6. /\ sinceJoin' \in 0..(JOIN - 1 + MaxLag) /\ sinceJoin' < JOIN + lag'
      /\ sinceLva' \in 0..(LEAVEALL - 1 + MaxLag) /\ sinceLva' < LEAVEALL + lag'
  BY <1>1, SizesOK DEF Tick, IInv, TypeOK, Timely
<1>7. \A s \in Sids : /\ heard[s] \in Nat /\ heard[s] <= OLD /\ heard'[s] \in Ages
                      /\ heard'[s] = IF heard[s] < OLD THEN heard[s] + 1 ELSE OLD
  BY SizesOK DEF Tick, IInv, TypeOK, Ages
<1>8. heard' \in [Sids -> Ages]
  BY <1>7 DEF Tick
<1>9. TypeOK'
  BY <1>1, <1>2, <1>4, <1>5, <1>6, <1>8 DEF IInv, TypeOK
<1>10. Timely' /\ Blank' /\ Applicant' /\ FreshNamed'
  BY <1>1, <1>2, <1>3, <1>5, <1>6 DEF IInv, Timely, Blank, Applicant, FreshNamed, FreeSlot
<1>11. RegistrarKeepsLatest'
  <2>1. \A i \in Slots : table'[i].sid = table[i].sid
    BY <1>3 DEF FreeSlot
  <2>2. \A i, j \in Slots : table'[i].sid = table'[j].sid /\ table'[i].sid # NoSid => i = j
    BY <2>1 DEF IInv, RegistrarKeepsLatest
  <2>3. \A i \in Slots : table'[i].sid # NoSid => table'[i].age = heard'[table'[i].sid]
    <3> SUFFICES ASSUME NEW i \in Slots, table[i].sid # NoSid
                 PROVE  table'[i].age = heard'[table[i].sid]
      BY <2>1
    <3>1. /\ table[i].sid \in Sids /\ table[i].age = heard[table[i].sid]
          /\ table[i].age \in Nat /\ table[i].age < OLD
      BY SizesOK DEF IInv, TypeOK, RegistrarKeepsLatest
    <3> QED BY <1>3, <1>7, <3>1
  <2>4. ASSUME NEW s \in Sids, heard'[s] < AGE
        PROVE  \/ \E i \in Slots : table'[i].sid = s
               \/ \A i \in Slots : table'[i].sid # NoSid /\ table'[i].age <= heard'[s]
    <3>1. heard[s] \in Nat /\ heard[s] < AGE /\ heard'[s] = heard[s] + 1
      BY <1>7, <2>4, SizesOK
    <3>2. CASE \E i \in Slots : table[i].sid = s
      BY <2>1, <3>2
    <3>3. CASE \A i \in Slots : table[i].sid # NoSid /\ table[i].age <= heard[s]
      <4>1. \A i \in Slots : table[i].age \in Nat
        BY SizesOK DEF IInv, TypeOK
      <4> QED BY <1>3, <2>1, <3>1, <3>3, <4>1
    <3> QED BY <3>1, <3>2, <3>3 DEF IInv, RegistrarKeepsLatest
  <2> QED BY <2>2, <2>3, <2>4 DEF RegistrarKeepsLatest
<1>12. RegisteredIsHeard'
  <2> SUFFICES ASSUME seen.registered
               PROVE  /\ fresh /\ heard'[listener.sid] <= seen'.age
                      /\ listener.enabled => heard'[listener.sid] = seen'.age
    BY <1>2, <1>5 DEF RegisteredIsHeard
  <2>1. /\ fresh /\ listener.sid \in Sids /\ heard[listener.sid] <= seen.age
        /\ listener.enabled => heard[listener.sid] = seen.age
    BY DEF IInv, RegisteredIsHeard, FreshNamed
  <2>2. seen.age \in Nat /\ seen.age < OLD
    BY SizesOK DEF IInv, TypeOK
  <2> QED BY <1>5, <1>7, <2>1, <2>2, SizesOK
<1> QED BY <1>9, <1>10, <1>11, <1>12 DEF IInv

-----------------------------------------------------------------------------
LEMMA InitHolds ==
    ASSUME Init
    PROVE  IInv
<1>1. TypeOK
  <2>1. table \in [Slots -> [sid : Sids \cup {NoSid}, age : 0..(OLD - 1)]]
    BY SizesOK DEF Init, FreeSlot
  <2>2. seen \in [registered : BOOLEAN, age : 0..(OLD - 1)] /\ listener \in Listener
    BY SizesOK DEF Init, NotSeen, Listener
  <2>3. newCount \in [Attrs -> 0..2] /\ announced \in [Attrs -> 0..2] /\ heard \in [Sids -> Ages]
    BY SizesOK DEF Init, Ages
  <2>4. sinceJoin \in 0..(JOIN - 1 + MaxLag) /\ sinceLva \in 0..(LEAVEALL - 1 + MaxLag)
        /\ lag \in 0..MaxLag
    BY SizesOK DEF Init
  <2> QED BY <2>1, <2>2, <2>3, <2>4 DEF Init, TypeOK
<1>2. Timely /\ Blank
  BY SizesOK DEF Init, Timely, Blank, FreeSlot, NotSeen
<1>3. Applicant /\ FreshNamed /\ RegisteredIsHeard
  BY DEF Init, Applicant, FreshNamed, RegisteredIsHeard, NotSeen
<1>4. RegistrarKeepsLatest
  BY SizesOK DEF Init, RegistrarKeepsLatest, FreeSlot, OLD
<1> QED BY <1>1, <1>2, <1>3, <1>4 DEF IInv

LEMMA StepKeeps ==
    ASSUME IInv, [Next]_vars
    PROVE  IInv'
<1>1. ASSUME NEW on \in BOOLEAN, TalkerEnable(on) PROVE IInv'
  BY <1>1, TalkerEnableKeeps
<1>2. ASSUME NEW s \in Sids, ListenerEnable(s) PROVE IInv'
  BY <1>2, ListenerEnableKeeps
<1>3. ASSUME NEW s \in Sids, Park(s) PROVE IInv'
  BY <1>3, AsideKeeps DEF Park, IInv, TypeOK
<1>4. ASSUME NEW s \in Sids, RxTalkerAdvertise(s) PROVE IInv'
  BY <1>4, AdvertiseKeeps
<1>5. CASE ListenerDisable
  BY <1>5, ListenerDisableKeeps
<1>6. ASSUME NEW d \in Domains, RxDomain(d) PROVE IInv'
  BY <1>6, AsideKeeps DEF RxDomain, IInv, TypeOK
<1>7. CASE SrpPoll
  BY <1>7, PollKeeps
<1>8. CASE Tick
  BY <1>8, TickKeeps
<1>9. CASE UNCHANGED vars
  BY <1>9, AsideKeeps DEF vars, IInv, TypeOK
<1> QED BY <1>1, <1>2, <1>3, <1>4, <1>5, <1>6, <1>7, <1>8, <1>9 DEF Next

LEMMA Invariance == Spec => []IInv
<1>1. Init => IInv
  BY InitHolds
<1>2. IInv /\ [Next]_vars => IInv'
  BY StepKeeps
<1> QED BY <1>1, <1>2, PTL DEF Spec

(* The registrar table is the least-recently-heard cache it is meant to be, for
   any number of talkers on the network (srp_process_rx, srp_poll). *)
THEOREM RegistrarIsCache == Spec => [](RegistrarKeepsLatest /\ SilenceIsNoticed)
<1>1. IInv => RegistrarKeepsLatest /\ SilenceIsNoticed
  BY SizesOK DEF IInv, Timely, SilenceIsNoticed
<1> QED BY <1>1, Invariance, PTL

(* talker_registered speaks of the present attachment. *)
THEOREM RegistrationIsCurrent == Spec => []RegisteredIsHeard
<1>1. IInv => RegisteredIsHeard
  BY DEF IInv
<1> QED BY <1>1, Invariance, PTL

(* The applicant's sequence of declarations: NEW twice, then JOININ, Listener Ready. *)
THEOREM NewsBeforeJoins == Spec => NewBeforeJoin
<1>1. ASSUME IInv, [Next]_vars
      PROVE  [Joining => /\ \A a \in Declared : announced[a] = 2 \/ announced'[a] = announced[a] + 1
                         /\ listener.enabled => listener'.substate = "ready"]_vars
  <2> SUFFICES ASSUME Next, Joining
               PROVE  /\ \A a \in Declared : announced[a] = 2 \/ announced'[a] = announced[a] + 1
                      /\ listener.enabled => listener'.substate = "ready"
    BY <1>1
  <2>1. sinceJoin \in Nat /\ sinceJoin >= JOIN /\ sinceJoin' = 0 /\ sinceJoin # 0
    BY <1>1, SizesOK DEF Joining, IInv, TypeOK
  <2>2. ~ Tick
    BY <2>1 DEF Tick
  <2>3. SrpPoll
    BY <2>1, <2>2 DEF Next, TalkerEnable, ListenerEnable, Park, RxTalkerAdvertise,
                      ListenerDisable, RxDomain, joinVars
  <2> QED BY <1>1, <2>1, <2>3, PolledCounts DEF IInv, Applicant
<1> QED BY <1>1, Invariance, PTL DEF Spec, NewBeforeJoin

(* The stream an advertise makes known is registered by that same advertise. *)
THEOREM LearnedIsRegistered == Spec => AdvertiseRegisters
<1>1. ASSUME IInv, [Next]_vars
      PROVE  [\A s \in Sids : heard[s] # 0 /\ heard'[s] = 0 /\ listener'.enabled /\ listener'.sid = s
                => seen'.registered]_vars
  <2> SUFFICES ASSUME Next, NEW s \in Sids, heard[s] # 0, heard'[s] = 0,
                      listener'.enabled, listener'.sid = s
               PROVE  seen'.registered
    BY <1>1
  <2>1. heard[s] \in Nat
    BY <1>1, SizesOK DEF IInv, TypeOK, Ages
  <2>2. ~ Tick
    <3>1. Tick => heard'[s] = IF heard[s] < OLD THEN heard[s] + 1 ELSE OLD
      BY DEF Tick
    <3> QED BY <2>1, <3>1, SizesOK DEF OLD
  <2>3. PICK t \in Sids : RxTalkerAdvertise(t)
    BY <2>2 DEF Next, TalkerEnable, ListenerEnable, Park, ListenerDisable, RxDomain, SrpPoll, rxVars
  <2>4. t = s
    BY <1>1, <2>3 DEF RxTalkerAdvertise, IInv, TypeOK
  <2> QED BY <2>3, <2>4 DEF RxTalkerAdvertise, Wanted
<1> QED BY <1>1, Invariance, PTL DEF Spec, AdvertiseRegisters

(* The SRP state stays in its type; no declaration is counted NEW a third time. *)
THEOREM SrpTypes == Spec => []TypeOK
<1>1. IInv => TypeOK
  BY DEF IInv
<1> QED BY <1>1, Invariance, PTL

(* A talker that fell silent is forgotten within the age-out and the lateness of a
   poll (srp_poll). *)
THEOREM SilentIsForgotten == Spec => []SilenceIsNoticed
BY RegistrarIsCache, PTL

-----------------------------------------------------------------------------
(* The cache that the slots stand for: the talkers held, with the time since each
   was heard. *)
CacheIsOfHeard == Cache = [s \in Held |-> heard[s]]

LEMMA CacheIsHeard == IInv => CacheIsOfHeard
<1>1. ASSUME IInv, NEW s \in Held
      PROVE  table[Least(SlotsOf(s))].age = heard[s]
  <2>1. SlotsOf(s) \in SUBSET Nat /\ SlotsOf(s) # {}
    BY DEF SlotsOf, Slots, Held
  <2>2. Least(SlotsOf(s)) \in SlotsOf(s)
    BY <2>1, LeastIsLeast
  <2> QED BY <1>1, <2>2 DEF SlotsOf, Held, IInv, RegistrarKeepsLatest
<1> QED BY <1>1, Zenon DEF Cache, CacheIsOfHeard

(* The same after a step. *)
LEMMA CacheIsHeardNext ==
    ASSUME IInv'
    PROVE  CacheIsOfHeard'
BY CacheIsHeard, PTL

(* Slots are as many as talkers held: none is held twice. *)
LEMMA HeldFits ==
    ASSUME IInv
    PROVE  /\ Free = {} => Cardinality(Held) = TABLE
           /\ Free # {} => Cardinality(Held) < TABLE
<1> DEFINE used == {i \in Slots : table[i].sid # NoSid}
           f == [i \in used |-> table[i].sid]
<1>1. IsFiniteSet(Slots) /\ Cardinality(Slots) = TABLE
  <2>1. 1 \in Int /\ TABLE \in Int /\ ~ (1 > TABLE) /\ TABLE - 1 + 1 = TABLE
    BY SrpAssumption
  <2> QED BY <2>1, FS_Interval, Zenon DEF Slots
<1>2. f \in Bijection(used, Held)
  <2>1. f \in [used -> Held] /\ \A t \in Held : \E i \in used : f[i] = t
    BY DEF Held
  <2>2. \A i, j \in used : f[i] = f[j] => i = j
    BY DEF IInv, RegistrarKeepsLatest
  <2> HIDE DEF f, used
  <2> QED BY <2>1, <2>2, Zenon DEF Bijection, Injection, Surjection, IsInjective
<1>3. used \in SUBSET Slots
  OBVIOUS
<1>4. /\ IsFiniteSet(used) /\ Cardinality(used) \in Nat /\ Cardinality(used) <= TABLE
      /\ Cardinality(used) = TABLE => used = Slots
  <2> HIDE DEF used
  <2>1. IsFiniteSet(used) /\ Cardinality(used) <= TABLE /\ (Cardinality(Slots) = Cardinality(used) => Slots = used)
    BY <1>1, <1>3, FS_Subset, Zenon
  <2>2. Cardinality(used) \in Nat
    BY <2>1, FS_CardinalityType, Zenon
  <2> QED BY <1>1, <2>1, <2>2, Zenon
<1>5. Cardinality(Held) = Cardinality(used)
  <2> HIDE DEF used, f
  <2> QED BY <1>2, <1>4, FS_Bijection, Zenon DEF ExistsBijection
<1>6. Free = {} <=> used = Slots
  BY DEF Free
<1> HIDE DEF used, f
<1>7. Free = {} => Cardinality(used) = TABLE
  BY <1>1, <1>6, Zenon
<1>8. Free # {} => Cardinality(used) # TABLE
  BY <1>4, <1>6, Zenon
<1> QED BY <1>4, <1>5, <1>7, <1>8, SrpAssumption

(* TalkerCache has its own copy of FiniteSets. *)
LEMMA SameSize ==
    ASSUME NEW S
    PROVE  T!Cardinality(S) = Cardinality(S)
BY Zenon DEF T!Cardinality, Cardinality

(* An advertise is heard by the cache. *)
LEMMA AdvertiseIsHeard ==
    ASSUME IInv, IInv', NEW s \in Sids, RxTalkerAdvertise(s)
    PROVE  T!Hear(s)
<1>0. table' = Upsert(s) /\ heard' = [heard EXCEPT ![s] = 0] /\ s # NoSid
  BY SrpAssumption DEF RxTalkerAdvertise
<1>1. PICK k \in Slots :
             /\ table' = [table EXCEPT ![k] = [sid |-> s, age |-> 0]]
             /\ \/ table[k].sid = s
                \/ SlotsOf(s) = {} /\ table[k].sid = NoSid
                \/ /\ SlotsOf(s) = {} /\ \A i \in Slots : table[i].sid # NoSid
                   /\ \A i \in Slots : table[i].age <= table[k].age
  BY <1>0, UpsertTakesOne DEF IInv
<1>2. \A i \in Slots : table'[i] = IF i = k THEN [sid |-> s, age |-> 0] ELSE table[i]
  BY <1>1 DEF IInv, TypeOK
<1>3. Cache = [t \in Held |-> heard[t]] /\ Cache' = [t \in Held' |-> heard'[t]]
  <2>1. Cache = [t \in Held |-> heard[t]]
    BY CacheIsHeard DEF CacheIsOfHeard
  <2>2. Cache' = [t \in Held' |-> heard'[t]]
    BY CacheIsHeardNext DEF CacheIsOfHeard
  <2> QED BY <2>1, <2>2
<1>4. Held \subseteq Sids /\ Held' \subseteq Sids
  BY DEF IInv, TypeOK, Held
<1>5. \A t \in Sids : heard'[t] = IF t = s THEN 0 ELSE heard[t]
  BY <1>0 DEF IInv, TypeOK
<1>6. \A i, j \in Slots : table[i].sid = table[j].sid /\ table[i].sid # NoSid => i = j
  BY DEF IInv, RegistrarKeepsLatest
<1>7. s \in Held <=> SlotsOf(s) # {}
  BY <1>0 DEF Held, SlotsOf
<1>8. Held' = (Held \ {table[k].sid}) \cup {s}
  BY <1>0, <1>1, <1>2, <1>6 DEF Held
<1>9. CASE table[k].sid = s
  <2>1. s \in Held /\ Held' = Held \cup {s}
    BY <1>0, <1>8, <1>9 DEF Held
  <2>2. Cache' = [t \in Held \cup {s} |-> IF t = s THEN 0 ELSE Cache[t]]
    BY <1>3, <1>4, <1>5, <2>1
  <2> QED BY <1>3, <2>1, <2>2, Zenon DEF T!Hear, T!Known, T!Refreshed
<1>10. CASE SlotsOf(s) = {} /\ table[k].sid = NoSid
  <2>1. s \notin Held /\ Held' = Held \cup {s}
    BY <1>7, <1>8, <1>10 DEF Held
  <2>2. Cache' = [t \in Held \cup {s} |-> IF t = s THEN 0 ELSE Cache[t]]
    BY <1>3, <1>4, <1>5, <2>1
  <2>3. Cardinality(Held) < TABLE
    BY <1>10, HeldFits DEF Free
  <2>4. DOMAIN Cache = Held
    BY <1>3
  <2> QED BY <2>1, <2>2, <2>3, <2>4, SameSize, Zenon DEF T!Hear, T!Known, T!Refreshed
<1>11. CASE /\ SlotsOf(s) = {} /\ \A i \in Slots : table[i].sid # NoSid
            /\ \A i \in Slots : table[i].age <= table[k].age
  <2> DEFINE old == table[k].sid
  <2>1. s \notin Held /\ old \in Held /\ Held' = (Held \ {old}) \cup {s}
    BY <1>7, <1>8, <1>11 DEF Held
  <2>2. Cardinality(Held) = TABLE
    BY <1>11, HeldFits DEF Free
  <2>3. \A i \in Slots : table[i].age = heard[table[i].sid]
    BY <1>11 DEF IInv, RegistrarKeepsLatest
  <2>4. \A t \in Held : heard[t] <= heard[old]
    BY <1>11, <2>3 DEF Held
  <2>5. DOMAIN Cache = Held /\ \A t \in Held : Cache[t] = heard[t]
    BY <1>3
  <2>6. \A t \in Held : Cache[t] <= Cache[old]
    BY <2>1, <2>4, <2>5
  <2>7. Cache' = [t \in (Held \ {old}) \cup {s} |-> IF t = s THEN 0 ELSE Cache[t]]
    BY <1>3, <1>4, <1>5, <2>1, <2>5
  <2> HIDE DEF old
  <2> QED BY <2>1, <2>2, <2>5, <2>6, <2>7, SameSize, Zenon DEF T!Hear, T!Known, T!Replaced
<1> QED BY <1>1, <1>9, <1>10, <1>11

(* srp_poll forgets. *)
LEMMA PollForgets ==
    ASSUME IInv, IInv', SrpPoll
    PROVE  T!Forget
<1>1. Cache = [t \in Held |-> heard[t]]
  BY CacheIsHeard DEF CacheIsOfHeard
<1>2. Cache' = [t \in Held' |-> heard[t]]
  <2>1. Cache' = [t \in Held' |-> heard'[t]]
    BY CacheIsHeardNext DEF CacheIsOfHeard
  <2> QED BY <2>1 DEF SrpPoll
<1>3. \A i \in Slots : table'[i] = IF table[i].age >= AGE THEN FreeSlot ELSE table[i]
  BY PolledTable
<1>4. \A i \in Slots : /\ table[i].age \in Nat
                       /\ table[i].sid # NoSid => table[i].age = heard[table[i].sid]
  BY SizesOK DEF IInv, TypeOK, RegistrarKeepsLatest
<1>5. Held' = {t \in Held : heard[t] < AGE}
  <2>1. \A i \in Slots : /\ table[i].age >= AGE => table'[i].sid = NoSid
                         /\ ~ (table[i].age >= AGE) => table'[i].sid = table[i].sid
    BY <1>3 DEF FreeSlot
  <2>2. \A i \in Slots : table[i].sid # NoSid => (~ (table[i].age >= AGE) <=> heard[table[i].sid] < AGE)
    BY <1>4, SizesOK
  <2> QED BY <2>1, <2>2 DEF Held
<1>6. DOMAIN Cache = Held /\ \A t \in Held : Cache[t] = heard[t]
  BY <1>1
<1>7. {t \in Held : heard[t] < AGE} = {t \in DOMAIN Cache : Cache[t] < AGE}
  BY <1>6
<1>8. Cache' = [t \in {t \in DOMAIN Cache : Cache[t] < AGE} |-> Cache[t]]
  BY <1>2, <1>5, <1>6, <1>7
<1> QED BY <1>8, Zenon DEF T!Forget, T!Known

(* The clock ages what is held. *)
LEMMA TickElapses ==
    ASSUME IInv, IInv', Tick
    PROVE  T!Elapse
<1>1. Cache = [t \in Held |-> heard[t]]
  BY CacheIsHeard DEF CacheIsOfHeard
<1>2. Cache' = [t \in Held' |-> heard'[t]]
  BY CacheIsHeardNext DEF CacheIsOfHeard
<1>3. Held' = Held
  <2>1. \A i \in Slots : table'[i].sid = table[i].sid
    BY DEF Tick, IInv, TypeOK
  <2> QED BY <2>1 DEF Held
<1>4. ASSUME NEW t \in Held
      PROVE  heard[t] \in Nat /\ heard[t] + 1 < AGE + MaxLag /\ heard'[t] = heard[t] + 1
  <2>1. PICK i \in Slots : table[i].sid = t /\ t \in Sids
    BY DEF Held, IInv, TypeOK
  <2>2. heard[t] = table[i].age /\ table[i].age \in Nat /\ table[i].age < AGE + lag
    BY <2>1, SizesOK, SrpAssumption DEF IInv, TypeOK, Timely, RegistrarKeepsLatest, Held
  <2>3. lag \in Nat /\ lag + 1 <= MaxLag
    BY SizesOK DEF Tick, IInv, TypeOK
  <2>4. heard'[t] = IF heard[t] < OLD THEN heard[t] + 1 ELSE OLD
    BY <2>1 DEF Tick
  <2> QED BY <2>2, <2>3, <2>4, SizesOK
<1>5. DOMAIN Cache = Held /\ \A t \in Held : Cache[t] = heard[t]
  BY <1>1
<1>6. Cache' = [t \in DOMAIN Cache |-> Cache[t] + 1]
  BY <1>2, <1>3, <1>4, <1>5
<1>7. \A t \in DOMAIN Cache : Cache[t] + 1 < AGE + MaxLag
  BY <1>4, <1>5
<1> QED BY <1>6, <1>7, Zenon DEF T!Elapse, T!Known

(* Every step is one of the cache, or none of its business. *)
LEMMA StepCaches ==
    ASSUME IInv, IInv', [Next]_vars
    PROVE  [T!Next]_Cache
<1>0. CASE UNCHANGED rxVars
  <2>1. UNCHANGED <<table, heard>>
    BY <1>0 DEF rxVars
  <2>2. Held' = Held
    BY <2>1 DEF Held
  <2>3. Cache' = [t \in Held |-> heard[t]]
    <3>1. Cache' = [t \in Held' |-> heard'[t]]
      BY CacheIsHeardNext DEF CacheIsOfHeard
    <3> QED BY <2>1, <2>2, <3>1
  <2> QED BY <2>3, CacheIsHeard DEF CacheIsOfHeard
<1>1. CASE \E s \in Sids : RxTalkerAdvertise(s)
  BY <1>1, AdvertiseIsHeard DEF T!Next
<1>2. CASE SrpPoll
  BY <1>2, PollForgets DEF T!Next
<1>3. CASE Tick
  BY <1>3, TickElapses DEF T!Next
<1> QED BY <1>0, <1>1, <1>2, <1>3 DEF Next, vars, TalkerEnable, ListenerEnable, Park,
                                  ListenerDisable, RxDomain

(* The table with its slots, stamps and late polls is a bounded cache of talkers, for
   any number of talkers and slots and any periods (srp_process_rx, srp_poll). *)
THEOREM TableImplementsCache == Spec => ImplementsCache
<1>1. ASSUME Init
      PROVE  T!Init
  <2>1. Held = {}
    BY <1>1 DEF Init, Held, FreeSlot
  <2>2. Cache = [t \in {} |-> 0]
    BY <2>1 DEF Cache
  <2> QED BY <2>2 DEF T!Init
<1>2. IInv /\ IInv' /\ [Next]_vars => [T!Next]_Cache
  BY StepCaches
<1> QED BY <1>1, <1>2, Invariance, PTL DEF Spec, ImplementsCache, T!Spec
=============================================================================
