-------------------------------- MODULE Srp --------------------------------
(***************************************************************************)
(* firmware/srp.c: the MSRP applicant that declares our Domain, Talker and  *)
(* Listener, and the registrar table of the remote talkers that are heard. *)
(* Time is the millisecond clock in coarse ticks; srp_poll runs once per   *)
(* pass of the main loop, so up to MaxLag ticks may go by between polls.   *)
(* A PDU is taken one vector at a time: a PDU with several is its vectors  *)
(* in a row.  The PDU layouts are left out, and so are MVRP's, whose       *)
(* applicant counter moves with the Domain's.                              *)
(***************************************************************************)
EXTENDS Naturals, FiniteSets

CONSTANTS
    Sids, NoSid,     \* stream_ids of remote talkers, and "none"
    Domains, Default,\* SR class, priority and VID a bridge may declare; SR_CLASS_A
    TABLE,           \* SRP_MAX_REMOTE_TALKERS
    JOIN,            \* MRP_JOIN_PERIOD_MS
    LEAVEALL,        \* MRP_LEAVEALL_PERIOD_MS
    MaxLag           \* bound: ticks between two polls

ASSUME SrpAssumption ==
    /\ NoSid \notin Sids
    /\ TABLE \in Nat \ {0} /\ JOIN \in Nat \ {0} /\ LEAVEALL \in Nat \ {0}
    /\ MaxLag \in Nat \ {0}

VARIABLES
    table,     \* remote_talkers[]: the stream of each slot and the time since it was seen
    listener,  \* listener_enabled, listener_stream_id, listener_substate
    seen,      \* talker_registered and the time since talker_last_seen_ms
    talkerOn,  \* talker_enabled
    domain,    \* the SR domain declared, a bridge's once one was received
    newCount,  \* domain_new_count, talker_new_count, listener_new_count
    sinceJoin, \* time since last_join_ms
    sinceLva,  \* time since last_leaveall_ms
    learning,  \* external: the stream main.c enables the listener for once advertised
    lag,       \* ticks since the last poll
    heard,     \* history: time since each talker was heard, OLD when too long ago
    fresh,     \* history: the listener's stream was heard since it was enabled
    announced  \* history: NEW declarations sent since each attribute was enabled

rxVars   == <<table, heard>>
askVars  == <<listener, seen, fresh>>
joinVars == <<sinceJoin, sinceLva, lag>>
vars == <<rxVars, askVars, joinVars, talkerOn, domain, newCount, learning, announced>>

Slots == 1..TABLE
Attrs == {"domain", "talker", "listener"}
AGE   == 3 * LEAVEALL
OLD   == AGE + MaxLag       \* nothing tells later times apart
Ages  == 0..OLD

Listener == [enabled : BOOLEAN, sid : Sids \cup {NoSid}, substate : {"ready", "askfailed"}]

TypeOK ==
    /\ table \in [Slots -> [sid : Sids \cup {NoSid}, age : 0..(OLD - 1)]]
    /\ listener \in Listener
    /\ seen \in [registered : BOOLEAN, age : 0..(OLD - 1)]
    /\ talkerOn \in BOOLEAN
    /\ domain \in Domains \cup {Default}
    /\ newCount \in [Attrs -> 0..2]
    /\ sinceJoin \in 0..(JOIN - 1 + MaxLag)
    /\ sinceLva \in 0..(LEAVEALL - 1 + MaxLag)
    /\ learning \in Sids \cup {NoSid}
    /\ lag \in 0..MaxLag
    /\ heard \in [Sids -> Ages]
    /\ fresh \in BOOLEAN
    /\ announced \in [Attrs -> 0..2]

FreeSlot == [sid |-> NoSid, age |-> 0]
NotSeen  == [registered |-> FALSE, age |-> 0]

Init ==
    /\ table = [i \in Slots |-> FreeSlot]
    /\ listener = [enabled |-> FALSE, sid |-> NoSid, substate |-> "askfailed"]
    /\ seen = NotSeen
    /\ talkerOn = FALSE
    /\ domain = Default
    /\ newCount = [a \in Attrs |-> 0]
    /\ sinceJoin = 0
    /\ sinceLva = 0
    /\ learning = NoSid
    /\ lag = 0
    /\ heard = [s \in Sids |-> OLD]
    /\ fresh = FALSE
    /\ announced = [a \in Attrs |-> 0]

-----------------------------------------------------------------------------
(* srp_talker_enable and srp_listener_enable restart the applicant: the next
   two declarations are NEW. *)
Restarted_Kept(a) == newCount  \* fault: the new_count is not cleared
Restarted(a) == [newCount EXCEPT ![a] = 0]

TalkerEnable(on) ==
    /\ talkerOn' = on
    /\ newCount' = IF on THEN Restarted("talker") ELSE newCount
    /\ announced' = IF on THEN [announced EXCEPT !["talker"] = 0] ELSE announced
    /\ UNCHANGED <<rxVars, askVars, joinVars, domain, learning>>

SeenAtEnable_Kept == seen  \* fault: talker_registered survives a new attachment
SeenAtEnable == NotSeen

Attach(s) ==
    /\ listener' = [enabled |-> TRUE, sid |-> s, substate |-> "ready"]
    /\ newCount' = Restarted("listener")
    /\ announced' = [announced EXCEPT !["listener"] = 0]

ListenerEnable(s) ==
    /\ Attach(s)
    /\ seen' = SeenAtEnable
    /\ fresh' = FALSE
    /\ learning' = NoSid
    /\ UNCHANGED <<rxVars, joinVars, talkerOn, domain>>

ListenerDisable ==
    /\ listener.enabled
    /\ listener' = [listener EXCEPT !.enabled = FALSE]
    /\ learning' = NoSid
    /\ UNCHANGED <<rxVars, joinVars, seen, fresh, talkerOn, domain, newCount, announced>>

(* External: main.c parks a listener whose stream_id it does not know. *)
Park(s) ==
    /\ learning' = s
    /\ UNCHANGED <<rxVars, askVars, joinVars, talkerOn, domain, newCount, announced>>

-----------------------------------------------------------------------------
(* srp_process_rx, Domain: the bridge's SR class, priority and VID. *)
RxDomain(d) ==
    /\ domain' = d
    /\ UNCHANGED <<rxVars, askVars, joinVars, talkerOn, newCount, learning, announced>>

(* The slot an advertise is stored in: its stream's, else the first free one,
   else the least recently seen. *)
Least(I) == CHOOSE i \in I : \A j \in I : i <= j
SlotsOf(s) == {i \in Slots : table[i].sid = s}
Free    == {i \in Slots : table[i].sid = NoSid}
Oldest_Newest == {i \in Slots : \A j \in Slots : table[j].age >= table[i].age}  \* fault: order turned round
Oldest == {i \in Slots : \A j \in Slots : table[j].age <= table[i].age}

Upsert_AnyFree(s) ==  \* fault: a free slot is taken before the stream's own is looked for
    LET slot == IF Free # {} THEN Least(Free)
                ELSE IF SlotsOf(s) # {} THEN Least(SlotsOf(s)) ELSE Least(Oldest)
    IN  [table EXCEPT ![slot] = [sid |-> s, age |-> 0]]
Upsert(s) ==
    LET slot == IF SlotsOf(s) # {} THEN Least(SlotsOf(s))
                ELSE IF Free # {} THEN Least(Free) ELSE Least(Oldest)
    IN  [table EXCEPT ![slot] = [sid |-> s, age |-> 0]]

(* Whether the advertise is of the stream our listener wants, looked at after
   on_talker_advertise has run. *)
Wanted_Before(s) == listener.enabled /\ listener.sid = s  \* fault: looked at first
Wanted(s) == listener'.enabled /\ listener'.sid = s

Matched(s) ==
    listener' = IF listener.enabled /\ listener.sid = s
                THEN [listener EXCEPT !.substate = "ready"] ELSE listener

(* srp_process_rx, TalkerAdvertise: registrar, callback, then our listener. *)
RxTalkerAdvertise(s) ==
    /\ table' = Upsert(s)
    /\ heard' = [heard EXCEPT ![s] = 0]
    /\ IF learning = s
       THEN Attach(s) /\ learning' = NoSid
       ELSE Matched(s) /\ UNCHANGED <<newCount, announced, learning>>
    /\ seen' = IF Wanted(s) THEN [registered |-> TRUE, age |-> 0]
               ELSE IF learning = s THEN SeenAtEnable ELSE seen
    /\ fresh' = (fresh \/ listener'.sid = s)
    /\ UNCHANGED <<joinVars, talkerOn, domain>>

-----------------------------------------------------------------------------
(* srp_poll: LeaveAll timer, ageing, keepalive, then the join timer. *)
JoinDue  == sinceJoin >= JOIN
LvaDue   == sinceLva >= LEAVEALL

Declared == {a \in Attrs : CASE a = "domain"   -> TRUE
                             [] a = "talker"   -> talkerOn
                             [] a = "listener" -> listener.enabled}
IsNew(n) == n < 2      \* MRP_EVT_NEW for the first two declarations, then JOININ
Bumped(count, A) == [a \in Attrs |-> IF a \in A THEN count[a] + 1 ELSE count[a]]

Expires_Late(age) == age > AGE  \* fault: off by one
Expires(age) == age >= AGE

(* The keepalive would set the substate again, and restart the applicant. *)
Reassert == listener.enabled /\ listener.substate # "ready"

SrpPoll ==
    LET count == IF Reassert THEN Restarted("listener") ELSE newCount
        fired == {a \in Declared : JoinDue /\ IsNew(count[a])}
    IN  /\ lag > 0      \* at the same millisecond nothing falls due again
        /\ lag' = 0
        /\ sinceLva' = IF LvaDue THEN 0 ELSE sinceLva
        /\ seen' = IF seen.registered /\ Expires(seen.age) THEN NotSeen ELSE seen
        /\ listener' = IF Reassert THEN [listener EXCEPT !.substate = "ready"] ELSE listener
        /\ table' = [i \in Slots |-> IF Expires(table[i].age) THEN FreeSlot ELSE table[i]]
        /\ newCount' = Bumped(count, fired)
        /\ announced' = Bumped(announced, {a \in fired : announced[a] < 2})
        /\ sinceJoin' = IF JoinDue THEN 0 ELSE sinceJoin
        /\ UNCHANGED <<heard, fresh, talkerOn, domain, learning>>

Tick ==
    /\ lag < MaxLag
    /\ lag' = lag + 1
    /\ sinceJoin' = sinceJoin + 1
    /\ sinceLva' = sinceLva + 1
    /\ table' = [i \in Slots |-> IF table[i].sid = NoSid THEN table[i]
                                 ELSE [table[i] EXCEPT !.age = @ + 1]]
    /\ seen' = IF seen.registered THEN [seen EXCEPT !.age = @ + 1] ELSE seen
    /\ heard' = [s \in Sids |-> IF heard[s] < OLD THEN heard[s] + 1 ELSE OLD]
    /\ UNCHANGED <<listener, fresh, talkerOn, domain, newCount, learning, announced>>

Next ==
    \/ \E on \in BOOLEAN : TalkerEnable(on)
    \/ \E s \in Sids : ListenerEnable(s) \/ Park(s) \/ RxTalkerAdvertise(s)
    \/ ListenerDisable
    \/ \E d \in Domains : RxDomain(d)
    \/ SrpPoll
    \/ Tick

Spec == Init /\ [][Next]_vars

-----------------------------------------------------------------------------
(* The registrar holds one entry for each of the talkers heard most recently,
   with its true age: a talker is missing only when it fell silent, or when every
   slot is taken by one heard no earlier (the upsert of srp_process_rx and the
   ageing of srp_poll, which get_stream_info and get_avb_info report from). *)
RegistrarKeepsLatest ==
    /\ \A i, j \in Slots : table[i].sid = table[j].sid /\ table[i].sid # NoSid => i = j
    /\ \A i \in Slots : table[i].sid # NoSid => table[i].age = heard[table[i].sid]
    /\ \A s \in Sids : heard[s] < AGE =>
          \/ \E i \in Slots : table[i].sid = s
          \/ \A i \in Slots : table[i].sid # NoSid /\ table[i].age <= heard[s]

(* Upsert, ageing and blanking of the slots implement a bounded cache that evicts
   the talker heard longest ago (srp_process_rx, srp_poll). *)
Held  == {table[i].sid : i \in Slots} \ {NoSid}
Cache == [s \in Held |-> table[Least(SlotsOf(s))].age]

T == INSTANCE TalkerCache WITH cache <- Cache, CAPACITY <- TABLE, LATE <- MaxLag

ImplementsCache == T!Spec

(* A talker that fell silent is forgotten at the first poll after its time: no
   entry and no "registered" outlives AGE by more than the polls are late. *)
SilenceIsNoticed ==
    lag = 0 => /\ \A i \in Slots : table[i].age < AGE
               /\ seen.age < AGE

(* talker_registered is about the stream the listener is attached to now, and is
   never left over from an earlier attachment (srp_listener_enable). *)
RegisteredIsHeard ==
    seen.registered => /\ fresh
                       /\ heard[listener.sid] <= seen.age
                       /\ listener.enabled => heard[listener.sid] = seen.age

(* An advertise registers the listener it is for, also when the callback of that
   very advertise attached it (on_talker_advertise learns the stream_id). *)
AdvertiseRegisters ==
    [][\A s \in Sids : heard[s] # 0 /\ heard'[s] = 0 /\ listener'.enabled /\ listener'.sid = s
          => seen'.registered]_vars

(* The bridge's registrar is told of every attribute twice with NEW since it was
   enabled, before the first JOININ, and a Listener is only declared Ready. *)
Joining == sinceJoin >= JOIN /\ sinceJoin' = 0
NewBeforeJoin ==
    [][Joining => /\ \A a \in Declared : announced[a] = 2 \/ announced'[a] = announced[a] + 1
                  /\ listener.enabled => listener'.substate = "ready"]_vars
=============================================================================
