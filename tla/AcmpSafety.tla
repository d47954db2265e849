----------------------------- MODULE AcmpSafety -----------------------------
(***************************************************************************)
(* The safety invariants of Acmp as theorems.  ListenerSide is inductive   *)
(* over the callbacks alone; QuerySide over the protocol state alone.      *)
(***************************************************************************)
EXTENDS AcmpProofs, Integers

(* A parked AAF input keeps the address given with it, which the learnt stream gets. *)
ParkedAsGiven == pending["AAF"].active => pending["AAF"].mac = given

ListenerSide == /\ ConnectedIsServed /\ NothingServedUnasked /\ ReadyIsReceived
                /\ AudioIsExtracted /\ ParkedAsGiven

LEMMA ConnectKeepsListenerSide ==
    ASSUME TypeOK, ListenerSide, NEW u \in Uids, NEW sid \in Streams \cup {NoStream},
           NEW mac \in Macs \cup {NoMac}, NEW out \in Streams \cup {NoStream},
           OnListenerConnect(u, sid, mac, out), Given(u, mac),
           lst' = [lst EXCEPT ![u] = Connected(u, sid, out)]
    PROVE  ListenerSide'
<1>1. \A v \in Uids : v # u => lst'[v] = lst[v] /\ pending'[v] = pending[v] /\ engine'[v] = engine[v]
  BY DEF TypeOK, BindTypeOK, OnListenerConnect
<1>2. lst'[u].connected /\ lst'[u].sid = sid
  BY DEF TypeOK, Connected
<1>3. CASE sid = NoStream
  <2>1. pending'[u].active /\ pending'[u].mac = mac /\ UNCHANGED <<engine, srpL, filter>>
    BY <1>3 DEF TypeOK, BindTypeOK, OnListenerConnect
  <2>2. ConnectedIsServed'
    BY <1>1, <2>1 DEF ListenerSide, ConnectedIsServed, Hijacked
  <2>3. NothingServedUnasked'
    BY <1>1, <1>2, <2>1 DEF ListenerSide, NothingServedUnasked, Hijacked
  <2>4. ParkedAsGiven'
    BY <1>1, <2>1, UidFacts DEF ListenerSide, ParkedAsGiven, Given
  <2>5. AudioIsExtracted'
    BY <1>1, <2>1, UidFacts DEF ListenerSide, AudioIsExtracted, Hijacked, Given
  <2> QED
    BY <2>1, <2>2, <2>3, <2>4, <2>5 DEF ListenerSide, ReadyIsReceived, Hijacked
<1>4. CASE sid # NoStream
  <2>1. engine'[u].bound /\ engine'[u].sid = sid
    BY <1>4 DEF TypeOK, BindTypeOK, OnListenerConnect, Bound
  <2>2. srpL'.sid = sid
    BY <1>4 DEF OnListenerConnect, SrpListenerOn
  <2>3. u = "AAF" => filter'.en /\ filter'.sid = sid /\ filter'.mac = given'
    BY <1>4 DEF OnListenerConnect, FilterFor, Given
  <2>4. u # "AAF" => filter' = filter /\ given' = given
    BY <1>4 DEF OnListenerConnect, FilterFor, Given
  <2>5. ConnectedIsServed'
    BY <1>1, <1>2, <2>1 DEF ListenerSide, ConnectedIsServed, Hijacked
  <2>6. NothingServedUnasked'
    BY <1>1, <1>2 DEF ListenerSide, NothingServedUnasked, Hijacked
  <2>7. ReadyIsReceived'
    BY <2>1, <2>2 DEF ReadyIsReceived
  <2>8. AudioIsExtracted'
    BY <1>1, <2>1, <2>3, <2>4, UidFacts DEF ListenerSide, AudioIsExtracted, Hijacked
  <2>9. ParkedAsGiven'
    <3>1. ~ pending'[u].active
      BY <1>4 DEF TypeOK, BindTypeOK, Parked, OnListenerConnect, Unparked
    <3> QED  BY <1>1, <2>4, <3>1, UidFacts DEF ListenerSide, ParkedAsGiven
  <2> QED  BY <2>5, <2>6, <2>7, <2>8, <2>9 DEF ListenerSide
<1> QED  BY <1>3, <1>4

LEMMA DisconnectKeepsListenerSide ==
    ASSUME TypeOK, ListenerSide, NEW u \in Uids, DisconnectRx(u)
    PROVE  ListenerSide'
<1>1. \A v \in Uids : v # u => lst'[v] = lst[v] /\ pending'[v] = pending[v] /\ engine'[v] = engine[v]
  BY DEF TypeOK, BindTypeOK, DisconnectRx, OnListenerDisconnect
<1>2. ~ lst'[u].connected
  BY DEF TypeOK, Listener, DisconnectRx
<1>3. ~ pending'[u].active
  BY DEF TypeOK, BindTypeOK, Parked, DisconnectRx, OnListenerDisconnect, Unparked
<1>4. ~ engine'[u].bound
  BY DEF TypeOK, BindTypeOK, Engine, DisconnectRx, OnListenerDisconnect
<1>5. /\ u # "AAF" => engine'["AAF"] = engine["AAF"] /\ filter' = filter
      /\ given' = given
  BY UidFacts, <1>1 DEF DisconnectRx, OnListenerDisconnect
<1>6. ConnectedIsServed'
  BY <1>1, <1>2, <1>5, UidFacts DEF ListenerSide, ConnectedIsServed, Hijacked
<1>7. NothingServedUnasked'
  BY <1>1, <1>3, <1>4, <1>5, UidFacts DEF ListenerSide, NothingServedUnasked, Hijacked
<1>8. ReadyIsReceived'
  <2>1. CASE engine[u].bound
    <3>1. ~ srpL'.enabled
      BY <2>1 DEF TypeOK, BindTypeOK, Declared, DisconnectRx, OnListenerDisconnect, SrpListenerOff
    <3> QED  BY <3>1 DEF ReadyIsReceived
  <2>2. CASE ~ engine[u].bound
    <3>1. srpL' = srpL  BY <2>2 DEF DisconnectRx, OnListenerDisconnect
    <3> QED  BY <2>2, <3>1, <1>1, UidFacts DEF ListenerSide, ReadyIsReceived, Hijacked
  <2> QED  BY <2>1, <2>2
<1>9. AudioIsExtracted'
  BY <1>1, <1>4, <1>5, UidFacts DEF ListenerSide, AudioIsExtracted, Hijacked
<1>10. ParkedAsGiven'
  BY <1>1, <1>3, <1>5, UidFacts DEF ListenerSide, ParkedAsGiven
<1> QED  BY <1>6, <1>7, <1>8, <1>9, <1>10 DEF ListenerSide

LEMMA AdvertiseKeepsListenerSide ==
    ASSUME TypeOK, ListenerSide, NEW s \in Streams, TalkerAdvertise(s)
    PROVE  ListenerSide'
<1>1. ASSUME NEW u \in Uids, u \notin Learners(s)
      PROVE  lst'[u] = lst[u] /\ pending'[u] = pending[u] /\ engine'[u] = engine[u]
  BY <1>1 DEF TypeOK, BindTypeOK, TalkerAdvertise, OnTalkerAdvertise
<1>2. ASSUME NEW u \in Uids, u \in Learners(s)
      PROVE  /\ lst[u].connected /\ lst'[u].connected /\ lst'[u].sid = s
             /\ engine'[u].bound /\ engine'[u].sid = s
  <2>1. pending[u].active
    BY <1>2 DEF Learners, AdvertMatches
  <2>2. lst[u].connected
    BY <2>1 DEF ListenerSide, NothingServedUnasked
  <2>3. lst'[u] = Learned(lst[u], s) /\ lst[u] \in Listener
    BY <1>2 DEF TypeOK, TalkerAdvertise
  <2>4. lst'[u].connected /\ lst'[u].sid = s
    BY <2>2, <2>3 DEF Listener, Learned
  <2>5. engine'[u] = Bound(s)
    BY <1>2 DEF TalkerAdvertise, OnTalkerAdvertise
  <2> QED  BY <2>2, <2>4, <2>5 DEF Bound
<1>3. srpL'.sid = s
  BY DEF TalkerAdvertise, OnTalkerAdvertise, SrpListenerOn
<1>4. ConnectedIsServed'
  BY <1>1, <1>2 DEF ListenerSide, ConnectedIsServed, Hijacked
<1>5. NothingServedUnasked'
  BY <1>1, <1>2 DEF ListenerSide, NothingServedUnasked, Hijacked
<1>6. ReadyIsReceived'
  <2>1. PICK u \in Uids : u \in Learners(s)
    BY DEF TalkerAdvertise, Learners
  <2> QED  BY <1>2, <1>3, <2>1 DEF ReadyIsReceived
<1>7. AudioIsExtracted'
  <2>1. CASE "AAF" \in Learners(s)
    <3>1. filter'.en /\ filter'.sid = s /\ filter'.mac = pending["AAF"].mac
      BY <2>1 DEF TalkerAdvertise, OnTalkerAdvertise, FilterFor
    <3>2. pending["AAF"].mac = given /\ given' = given
      BY <2>1 DEF ListenerSide, ParkedAsGiven, TalkerAdvertise, Learners, AdvertMatches
    <3> QED  BY <2>1, <3>1, <3>2, <1>2, UidFacts DEF AudioIsExtracted
  <2>2. CASE "AAF" \notin Learners(s)
    <3>1. filter' = filter /\ given' = given
      BY <2>2 DEF TalkerAdvertise, OnTalkerAdvertise
    <3> QED  BY <2>2, <3>1, <1>1, UidFacts DEF ListenerSide, AudioIsExtracted, Hijacked
  <2> QED  BY <2>1, <2>2
<1>8. ParkedAsGiven'
  <2>1. "AAF" \in Learners(s) => ~ pending'["AAF"].active
    BY UidFacts DEF TypeOK, BindTypeOK, Parked, TalkerAdvertise, OnTalkerAdvertise, Unparked
  <2> QED  BY <1>1, <2>1, UidFacts DEF ListenerSide, ParkedAsGiven, TalkerAdvertise
<1> QED  BY <1>4, <1>5, <1>6, <1>7, <1>8 DEF ListenerSide

LEMMA ConsoleKeepsListenerSide ==
    ASSUME TypeOK, ListenerSide, UartForceTx \/ UartForceClear
    PROVE  ListenerSide'
<1>1. CASE UartForceTx
  <2>1. /\ engine'["AAF"].bound /\ engine'["AAF"].sid = Own
        /\ engine'["CRF"] = engine["CRF"]
        /\ UNCHANGED <<lst, pending, srpL, filter, given>>
    BY <1>1, UidFacts DEF TypeOK, BindTypeOK, UartForceTx, ForceTx, Bound, rxVars
  <2>2. Hijacked'  BY <2>1 DEF Hijacked
  <2>3. ConnectedIsServed'
    BY <2>1, <2>2, UidFacts DEF ListenerSide, ConnectedIsServed, Hijacked
  <2>4. NothingServedUnasked'
    BY <2>1, <2>2, UidFacts DEF ListenerSide, NothingServedUnasked, Hijacked
  <2> QED  BY <2>1, <2>2, <2>3, <2>4 DEF ListenerSide, ReadyIsReceived, AudioIsExtracted, ParkedAsGiven
<1>2. CASE UartForceClear
  <2>1. \A u \in Uids : ~ lst'[u].connected
    BY <1>2 DEF UartForceClear, IdleListener
  <2>2. \A u \in Uids : ~ pending'[u].active
    BY <1>2 DEF TypeOK, BindTypeOK, Parked, UartForceClear, ForceClearBindings, Unparked
  <2>3. \A u \in Uids : ~ engine'[u].bound
    BY <1>2 DEF TypeOK, BindTypeOK, Engine, UartForceClear, ForceClearBindings
  <2>4. ~ srpL'.enabled
    <3>1. CASE \E u \in Uids : engine[u].bound
      BY <1>2, <3>1 DEF TypeOK, BindTypeOK, Declared, UartForceClear, ForceClearBindings, SrpListenerOff
    <3>2. CASE ~ \E u \in Uids : engine[u].bound
      <4>1. srpL' = srpL  BY <1>2, <3>2 DEF UartForceClear, ForceClearBindings
      <4> QED  BY <3>2, <4>1, UidFacts DEF ListenerSide, ReadyIsReceived, Hijacked
    <3> QED  BY <3>1, <3>2
  <2> QED
    BY <2>1, <2>2, <2>3, <2>4, UidFacts
    DEF ListenerSide, ConnectedIsServed, NothingServedUnasked, ReadyIsReceived, AudioIsExtracted,
        ParkedAsGiven
<1> QED  BY <1>1, <1>2

LEMMA OtherStepsKeepListenerSide ==
    ListenerSide /\ UNCHANGED <<lst, listenVars, given>> => ListenerSide'
BY DEF ListenerSide, listenVars, ConnectedIsServed, NothingServedUnasked, ReadyIsReceived,
       AudioIsExtracted, ParkedAsGiven, Hijacked

-----------------------------------------------------------------------------
QuerySide == AtMostOneReply /\ AnswerableOnce

LEMMA RefusedKeepsQuerySide ==
    ASSUME TypeOK, QuerySide, NEW c \in Cmds, ConnectRxRefused(c)
    PROVE  QuerySide'
<1>1. \A d \in Cmds : d # c => reply'[d] = reply[d]
  BY DEF TypeOK, ConnectRxRefused, Respond
<1>2. c \notin taken /\ taken' = taken \cup {c} /\ reply[c] = "none" /\ reply'[c] = "failure"
  BY DEF TypeOK, QuerySide, AtMostOneReply, ConnectRxRefused, Receive, Respond, Answered
<1>3. AtMostOneReply'
  BY <1>1, <1>2 DEF TypeOK, QuerySide, AtMostOneReply
<1>4. AnswerableOnce'
  BY <1>1, <1>2 DEF TypeOK, QuerySide, AnswerableOnce, ConnectRxRefused
<1> QED  BY <1>3, <1>4 DEF QuerySide

LEMMA SlowKeepsQuerySide ==
    ASSUME TypeOK, QuerySide, NEW c \in Cmds, NEW u \in Uids, NEW out \in Streams, ConnectRxSlow(c, u, out)
    PROVE  QuerySide'
<1> DEFINE request == [seq |-> nextSeq, out |-> out]
<1>1. \A v \in Uids : v # u => resolves'[v] = resolves[v]
  BY DEF TypeOK, ConnectRxSlow
<1>2. /\ resolves'[u].active /\ resolves'[u].seq = nextSeq
      /\ resolves'[u].cmd = c /\ resolves'[u].out = out
  BY DEF TypeOK, ConnectRxSlow
<1>3. c \notin taken /\ taken' = taken \cup {c} /\ reply' = reply /\ reply[c] = "none"
  BY DEF TypeOK, QuerySide, AtMostOneReply, ConnectRxSlow, Receive
<1>4. /\ nextSeq \in Nat /\ nextSeq' = nextSeq + 1 /\ wire' = wire \cup {request}
      /\ request.seq = nextSeq /\ request.out = out
      /\ \A w \in wire : w.seq \in Nat
  BY DEF TypeOK, ConnectRxSlow, AfterSeq
<1>5. \A v \in Uids : resolves[v].seq \in Nat  BY DEF TypeOK, Resolve
<1> HIDE DEF request
<1>6. AtMostOneReply'
  BY <1>3 DEF QuerySide, AtMostOneReply
<1>7. ASSUME NEW v \in Uids, NEW x \in Uids, resolves'[v].active, resolves'[x].active,
             resolves'[v].seq = resolves'[x].seq \/ resolves'[v].cmd = resolves'[x].cmd
      PROVE  v = x
  BY <1>1, <1>2, <1>3, <1>4, <1>5, <1>7 DEF QuerySide, AnswerableOnce
<1>8. ASSUME NEW v \in Uids, resolves'[v].active
      PROVE  /\ resolves'[v].cmd \in taken' /\ reply'[resolves'[v].cmd] = "none"
             /\ resolves'[v].seq < nextSeq'
             /\ \A w \in wire' : w.seq = resolves'[v].seq => w.out = resolves'[v].out
  <2>1. CASE v = u
    BY <2>1, <1>2, <1>3, <1>4 DEF QuerySide, AnswerableOnce
  <2>2. CASE v # u
    BY <2>2, <1>1, <1>3, <1>4, <1>5, <1>8 DEF QuerySide, AnswerableOnce
  <2> QED  BY <2>1, <2>2
<1>9. \A w \in wire' : w.seq < nextSeq'
  BY <1>4 DEF QuerySide, AnswerableOnce
<1> QED  BY <1>6, <1>7, <1>8, <1>9 DEF QuerySide, AnswerableOnce

LEMMA FastKeepsQuerySide ==
    ASSUME TypeOK, QuerySide, NEW c \in Cmds, NEW u \in Uids, NEW out, NEW sid, NEW mac,
           ConnectRxFast(c, u, out, sid, mac)
    PROVE  QuerySide'
<1>1. \A d \in Cmds : d # c => reply'[d] = reply[d]
  BY DEF TypeOK, ConnectRxFast, Respond
<1>2. c \notin taken /\ taken' = taken \cup {c} /\ reply[c] = "none" /\ reply'[c] = "success"
  BY DEF TypeOK, QuerySide, AtMostOneReply, ConnectRxFast, Receive, Respond, Answered
<1>3. AtMostOneReply'
  BY <1>1, <1>2 DEF TypeOK, QuerySide, AtMostOneReply
<1>4. AnswerableOnce'
  BY <1>1, <1>2 DEF TypeOK, QuerySide, AnswerableOnce, ConnectRxFast
<1> QED  BY <1>3, <1>4 DEF QuerySide

LEMMA ResponseKeepsQuerySide ==
    ASSUME TypeOK, QuerySide, NEW u \in Uids, NEW w \in wire, NEW st \in {"success", "failure"},
           ConnectTxResponse(u, w, st)
    PROVE  QuerySide'
<1> DEFINE c == resolves[u].cmd
<1>1. resolves[u].active /\ c \in taken /\ c \in Cmds /\ reply[c] = "none"
  BY DEF TypeOK, QuerySide, AnswerableOnce, ConnectTxResponse, Matches, Carriers
<1>2. \A v \in Uids : v # u => resolves'[v] = resolves[v]
  BY DEF TypeOK, ConnectTxResponse
<1>3. ~ resolves'[u].active
  BY DEF TypeOK, Resolve, ConnectTxResponse, Completed
<1>4. reply'[c] = st /\ \A d \in Cmds : d # c => reply'[d] = reply[d]
  BY <1>1 DEF TypeOK, ConnectTxResponse, Respond, Answered
<1>5. \A v \in Uids : v # u /\ resolves[v].active => resolves[v].cmd # c
  BY <1>1 DEF QuerySide, AnswerableOnce
<1>6. UNCHANGED <<taken, wire, nextSeq>>
  BY DEF ConnectTxResponse
<1>7. \A v \in Uids : resolves[v].active => resolves[v].cmd \in Cmds
  BY DEF TypeOK, QuerySide, AnswerableOnce
<1> HIDE DEF c
<1>8. AtMostOneReply'
  BY <1>1, <1>4, <1>6 DEF QuerySide, AtMostOneReply
<1>9. AnswerableOnce'
  BY <1>2, <1>3, <1>4, <1>5, <1>6, <1>7 DEF QuerySide, AnswerableOnce
<1> QED  BY <1>8, <1>9 DEF QuerySide

LEMMA PollKeepsQuerySide ==
    ASSUME TypeOK, QuerySide, AvdeccPoll
    PROVE  QuerySide'
<1>1. \A u \in Uids : u \in Expired => resolves[u].active /\ ~ resolves'[u].active
  BY DEF TypeOK, Resolve, AvdeccPoll, Completed, Expired
<1>2. \A u \in Uids : u \notin Expired => resolves'[u] = resolves[u]
  BY DEF AvdeccPoll
<1>3. UNCHANGED <<taken, wire, nextSeq>>
  BY DEF AvdeccPoll
<1>4. ASSUME NEW c \in Cmds, \E u \in Expired : resolves[u].cmd = c
      PROVE  c \in taken /\ reply'[c] = "failure"
  <2>1. PICK u \in Expired : resolves[u].cmd = c  BY <1>4
  <2>2. u \in Uids  BY <2>1 DEF Expired, Polled
  <2>3. c \in taken /\ reply[c] = "none"
    BY <1>1, <2>1, <2>2 DEF QuerySide, AnswerableOnce
  <2> QED  BY <1>4, <2>3 DEF AvdeccPoll, Answered
<1>5. ASSUME NEW c \in Cmds, ~ \E u \in Expired : resolves[u].cmd = c
      PROVE  reply'[c] = reply[c]
  BY <1>5 DEF AvdeccPoll
<1>6. AtMostOneReply'
  BY <1>3, <1>4, <1>5 DEF QuerySide, AtMostOneReply
<1>7. ASSUME NEW u \in Uids, resolves'[u].active
      PROVE  reply'[resolves[u].cmd] = "none"
  <2>1. resolves[u].active /\ resolves[u].cmd \in Cmds /\ reply[resolves[u].cmd] = "none"
    BY <1>1, <1>2, <1>7 DEF TypeOK, QuerySide, AnswerableOnce
  <2>2. ~ \E v \in Expired : resolves[v].cmd = resolves[u].cmd
    BY <1>1, <1>7, <2>1 DEF QuerySide, AnswerableOnce, Expired, Polled
  <2> QED  BY <1>5, <2>1, <2>2
<1>8. AnswerableOnce'
  BY <1>1, <1>2, <1>3, <1>7 DEF QuerySide, AnswerableOnce
<1> QED  BY <1>6, <1>8 DEF QuerySide

LEMMA TickKeepsQuerySide ==
    ASSUME TypeOK, QuerySide, Tick
    PROVE  QuerySide'
<1>1. \A u \in Uids : /\ resolves'[u].active = resolves[u].active
                      /\ resolves'[u].seq = resolves[u].seq
                      /\ resolves'[u].cmd = resolves[u].cmd
                      /\ resolves'[u].out = resolves[u].out
  BY DEF TypeOK, Resolve, Tick
<1> QED  BY <1>1 DEF Tick, QuerySide, AtMostOneReply, AnswerableOnce

LEMMA RebootstrapKeepsQuerySide ==
    ASSUME TypeOK, QuerySide, CrfRebootstrap
    PROVE  QuerySide'
<1> DEFINE request == [seq |-> nextSeq, out |-> lst["CRF"].out]
<1>1. /\ nextSeq \in Nat /\ nextSeq' = nextSeq + 1 /\ request.seq = nextSeq
      /\ \A w \in wire' : w \in wire \/ w = request
      /\ \A w \in wire : w.seq \in Nat
  BY DEF TypeOK, CrfRebootstrap, AfterSeq
<1>2. UNCHANGED <<resolves, taken, reply>>  BY DEF CrfRebootstrap
<1>3. \A v \in Uids : resolves[v].seq \in Nat  BY DEF TypeOK, Resolve
<1> HIDE DEF request
<1>4. AtMostOneReply'
  BY <1>2 DEF QuerySide, AtMostOneReply
<1>5. ASSUME NEW u \in Uids, resolves[u].active
      PROVE  /\ resolves[u].seq < nextSeq'
             /\ \A w \in wire' : w.seq = resolves[u].seq => w.out = resolves[u].out
  BY <1>1, <1>3, <1>5 DEF QuerySide, AnswerableOnce
<1>6. \A w \in wire' : w.seq < nextSeq'
  BY <1>1 DEF QuerySide, AnswerableOnce
<1>7. AnswerableOnce'
  BY <1>2, <1>5, <1>6 DEF QuerySide, AnswerableOnce
<1> QED  BY <1>4, <1>7 DEF QuerySide

LEMMA OtherStepsKeepQuerySide ==
    QuerySide /\ UNCHANGED <<resolves, nextSeq, wire, taken, reply>> => QuerySide'
BY DEF QuerySide, AtMostOneReply, AnswerableOnce

-----------------------------------------------------------------------------
(* StreamOfItsTalker leans on AnswerableOnce: the response that completes a
   query answers the request the query sent, or a request SEQ or more away. *)
LEMMA Division ==
    ASSUME NEW n \in Nat
    PROVE  n \div SEQ \in Int /\ SeqId(n) \in Int /\ n = SEQ * (n \div SEQ) + SeqId(n)
<1>1. SEQ \in Nat /\ SEQ > 0
  BY AcmpAssumption
<1> QED BY <1>1 DEF SeqId

LEMMA SameIdIsFar ==
    ASSUME NEW a \in Nat, NEW b \in Nat, a < b, SeqId(a) = SeqId(b)
    PROVE  a + SEQ <= b
<1>1. SEQ \in Nat /\ SEQ > 0
  BY AcmpAssumption
<1>2. PICK p \in Int : a = SEQ * p + SeqId(a)
  BY Division
<1>3. PICK q \in Int : b = SEQ * q + SeqId(b)
  BY Division
<1>4. SeqId(a) \in Int
  BY Division
<1>5. b - a = SEQ * (q - p)
  BY <1>1, <1>2, <1>3, <1>4
<1>6. q - p >= 1
  BY <1>1, <1>5
<1>7. SEQ * (q - p) >= SEQ
  BY <1>1, <1>6
<1> QED  BY <1>1, <1>5, <1>7

LEMMA MistakenIsAmbiguous ==
    ASSUME TypeOK, QuerySide, NEW u \in Uids, NEW w \in wire, Matches(u, w)
    PROVE  w.out = resolves[u].out \/ w.out \in Ambiguous
<1>1. /\ resolves[u].active /\ SeqId(resolves[u].seq) = SeqId(w.seq)
      /\ resolves[u].seq \in Nat /\ w.seq \in Nat /\ nextSeq \in Nat /\ SEQ \in Nat
  BY AcmpAssumption DEF TypeOK, Resolve, Matches, Carriers
<1>2. resolves[u].seq < nextSeq
  BY <1>1 DEF QuerySide, AnswerableOnce
<1>3. CASE w.seq = resolves[u].seq
  BY <1>1, <1>3 DEF QuerySide, AnswerableOnce
<1>4. CASE w.seq < resolves[u].seq
  <2>1. w.seq + SEQ <= resolves[u].seq
    BY <1>1, <1>4, SameIdIsFar
  <2> QED  BY <1>1, <1>2, <2>1 DEF Ambiguous
<1>5. CASE resolves[u].seq < w.seq
  <2>1. resolves[u].seq + SEQ <= w.seq
    BY <1>1, <1>5, SameIdIsFar
  <2> QED  BY <1>1, <2>1 DEF Ambiguous
<1> QED  BY <1>1, <1>3, <1>4, <1>5

LEMMA AmbiguousGrows == TypeOK /\ [Next]_vars => Ambiguous \subseteq Ambiguous'
<1> SUFFICES ASSUME TypeOK, [Next]_vars PROVE Ambiguous \subseteq Ambiguous'  OBVIOUS
<1>1. \/ UNCHANGED <<nextSeq, wire>>
      \/ nextSeq' = nextSeq + 1 /\ wire \subseteq wire'
  BY DEF Next, Controller, Network, Operator, ConnectRx, ConnectRxRefused, ConnectRxSlow, ConnectRxFast,
         ConnectTxResponse, DisconnectRx, AvdeccPoll, CrfRebootstrap, Tick, TalkerAdvertise, ConnectTx,
         DisconnectTx, DomainChange, UartForceTx, UartStopTx, UartForceClear, AfterSeq, vars, rxVars
<1>2. nextSeq \in Nat /\ SEQ \in Nat /\ \A w \in wire : w.seq \in Nat
  BY AcmpAssumption DEF TypeOK
<1>3. nextSeq' >= nextSeq /\ nextSeq' \in Nat /\ wire \subseteq wire'
  BY <1>1, <1>2
<1>4. ASSUME NEW w \in wire, w.seq >= SEQ \/ w.seq + SEQ < nextSeq
      PROVE  w \in wire' /\ (w.seq >= SEQ \/ w.seq + SEQ < nextSeq')
  BY <1>2, <1>3, <1>4
<1> QED  BY <1>4 DEF Ambiguous

LEMMA ItsTalkerStays ==
    TypeOK /\ StreamOfItsTalker /\ [Next]_vars /\ UNCHANGED <<lst, pending>> => StreamOfItsTalker'
BY AmbiguousGrows DEF StreamOfItsTalker

LEMMA ConnectKeepsItsTalker ==
    ASSUME TypeOK, StreamOfItsTalker, Ambiguous \subseteq Ambiguous',
           NEW u \in Uids, NEW sid \in Streams \cup {NoStream},
           NEW mac \in Macs \cup {NoMac}, NEW out \in Streams,
           sid = NoStream \/ sid = out \/ sid \in Ambiguous,
           OnListenerConnect(u, sid, mac, out),
           lst' = [lst EXCEPT ![u] = Connected(u, sid, out)]
    PROVE  StreamOfItsTalker'
<1>1. \A v \in Uids : v # u => lst'[v] = lst[v] /\ pending'[v] = pending[v]
  BY DEF TypeOK, BindTypeOK, OnListenerConnect
<1>2. lst'[u].sid = sid /\ lst'[u].out = out
  BY DEF TypeOK, Connected
<1>3. pending'[u].active => pending'[u].out = out
  BY DEF TypeOK, BindTypeOK, Parked, OnListenerConnect, Unparked
<1>4. sid = out => <<OwnerOf[lst'[u].out], OwnerOf[lst'[u].sid]>> \in EidMatch
  BY <1>2, BindingsAssumption
<1> QED  BY <1>1, <1>2, <1>3, <1>4 DEF StreamOfItsTalker

LEMMA ResponseKeepsItsTalker ==
    ASSUME TypeOK, QuerySide, StreamOfItsTalker, Ambiguous \subseteq Ambiguous',
           NEW u \in Uids, NEW w \in wire,
           NEW st \in {"success", "failure"}, ConnectTxResponse(u, w, st)
    PROVE  StreamOfItsTalker'
<1>1. CASE Grants(st)
  <2>1. w.out \in Streams /\ DestOf[w.out] \in Macs
    BY BindingsAssumption DEF TypeOK
  <2>2. w.out = resolves[u].out \/ w.out \in Ambiguous
    BY MistakenIsAmbiguous DEF ConnectTxResponse
  <2>3. resolves[u].out \in Streams
    BY DEF TypeOK, TalkerKnown, ConnectTxResponse, Matches, Carriers
  <2> QED  BY <1>1, <2>1, <2>2, <2>3, ConnectKeepsItsTalker DEF ConnectTxResponse
<1>2. CASE ~ Grants(st)
  BY <1>2 DEF ConnectTxResponse, StreamOfItsTalker, listenVars
<1> QED  BY <1>1, <1>2

LEMMA DisconnectKeepsItsTalker ==
    ASSUME TypeOK, StreamOfItsTalker, Ambiguous \subseteq Ambiguous', NEW u \in Uids, DisconnectRx(u)
    PROVE  StreamOfItsTalker'
<1>1. \A v \in Uids : v # u => lst'[v] = lst[v] /\ pending'[v] = pending[v]
  BY DEF TypeOK, BindTypeOK, DisconnectRx, OnListenerDisconnect
<1>2. ~ lst'[u].connected
  BY DEF TypeOK, Listener, DisconnectRx
<1>3. ~ pending'[u].active
  BY DEF TypeOK, BindTypeOK, Parked, DisconnectRx, OnListenerDisconnect, Unparked
<1> QED  BY <1>1, <1>2, <1>3 DEF StreamOfItsTalker

LEMMA AdvertiseKeepsItsTalker ==
    ASSUME TypeOK, StreamOfItsTalker, Ambiguous \subseteq Ambiguous',
           NEW s \in Streams, TalkerAdvertise(s)
    PROVE  StreamOfItsTalker'
<1>1. ASSUME NEW u \in Uids, u \notin Learners(s)
      PROVE  lst'[u] = lst[u] /\ pending'[u] = pending[u]
  BY <1>1 DEF TypeOK, BindTypeOK, TalkerAdvertise, OnTalkerAdvertise
<1>2. ASSUME NEW u \in Uids, u \in Learners(s)
      PROVE  /\ ~ pending'[u].active
             /\ \/ <<OwnerOf[lst'[u].out], OwnerOf[lst'[u].sid]>> \in EidMatch
                \/ pending'[u].mac = DestOf[lst'[u].sid]
  <2>1. pending[u] \in Parked /\ lst[u] \in Listener
    BY DEF TypeOK, BindTypeOK
  <2>2. pending'[u] = Unparked(pending[u]) /\ lst'[u] = Learned(lst[u], s)
    BY <1>2 DEF TalkerAdvertise, OnTalkerAdvertise
  <2>3. ~ pending'[u].active /\ pending'[u].mac = pending[u].mac
    BY <2>1, <2>2 DEF Parked, Unparked
  <2>4. lst'[u].sid = s /\ lst'[u].out = lst[u].out
    BY <2>1, <2>2 DEF Listener, Learned
  <2>5. pending[u].out = lst[u].out
    BY <1>2 DEF Learners, AdvertMatches, StreamOfItsTalker
  <2> QED  BY <1>2, <2>3, <2>4, <2>5 DEF Learners, AdvertMatches
<1> QED  BY <1>1, <1>2 DEF StreamOfItsTalker

LEMMA ConsoleKeepsItsTalker ==
    ASSUME TypeOK, StreamOfItsTalker, Ambiguous \subseteq Ambiguous', UartForceTx \/ UartForceClear
    PROVE  StreamOfItsTalker'
<1>1. CASE UartForceTx
  BY <1>1 DEF StreamOfItsTalker, UartForceTx, ForceTx, rxVars
<1>2. CASE UartForceClear
  <2>1. \A u \in Uids : ~ lst'[u].connected
    BY <1>2 DEF UartForceClear, IdleListener
  <2>2. \A u \in Uids : ~ pending'[u].active
    BY <1>2 DEF TypeOK, BindTypeOK, Parked, UartForceClear, ForceClearBindings, Unparked
  <2> QED  BY <2>1, <2>2 DEF StreamOfItsTalker
<1> QED  BY <1>1, <1>2

-----------------------------------------------------------------------------
(* The inductive invariant: every safety invariant the runs check. *)
IInv == TypeOK /\ ListenerSide /\ QuerySide /\ StreamOfItsTalker

LEMMA InitIInv == Init => IInv
<1> SUFFICES ASSUME Init PROVE IInv  OBVIOUS
<1>1. TypeOK  BY InitTypes
<1>2. \A u \in Uids : ~ lst[u].connected /\ ~ resolves[u].active
  BY DEF Init, IdleListener, IdleResolve
<1>3. \A u \in Uids : ~ pending[u].active /\ ~ engine[u].bound
  BY DEF Init, BindInit
<1>4. ~ srpL.enabled /\ wire = {} /\ \A c \in Cmds : reply[c] = "none"
  BY DEF Init, BindInit
<1>5. ListenerSide
  BY <1>2, <1>3, <1>4, UidFacts
  DEF ListenerSide, ConnectedIsServed, NothingServedUnasked, ReadyIsReceived, AudioIsExtracted, ParkedAsGiven
<1>6. QuerySide  BY <1>2, <1>4 DEF QuerySide, AtMostOneReply, AnswerableOnce
<1>7. StreamOfItsTalker  BY <1>2, <1>3 DEF StreamOfItsTalker
<1> QED  BY <1>1, <1>5, <1>6, <1>7 DEF IInv

LEMMA FastKeepsIInv ==
    ASSUME IInv, NEW c \in Cmds, NEW u \in Uids, NEW out \in Streams,
           NEW sid \in Streams \cup {NoStream}, NEW mac \in Macs \cup {NoMac},
           sid = NoStream \/ sid = out, ConnectRxFast(c, u, out, sid, mac),
           Ambiguous \subseteq Ambiguous'
    PROVE  IInv'
<1>1. TypeOK'  BY FastKeepsTypes DEF IInv
<1>2. ListenerSide'  BY ConnectKeepsListenerSide DEF IInv, ConnectRxFast
<1>3. QuerySide'  BY FastKeepsQuerySide DEF IInv
<1>4. StreamOfItsTalker'  BY ConnectKeepsItsTalker DEF IInv, ConnectRxFast
<1> QED  BY <1>1, <1>2, <1>3, <1>4 DEF IInv

LEMMA ResponseKeepsIInv ==
    ASSUME IInv, NEW u \in Uids, NEW w \in wire, NEW st \in {"success", "failure"},
           ConnectTxResponse(u, w, st), Ambiguous \subseteq Ambiguous'
    PROVE  IInv'
<1>1. TypeOK'  BY ResponseKeepsTypes DEF IInv
<1>2. ListenerSide'
  <2>1. CASE Grants(st)
    <3>1. w.out \in Streams /\ DestOf[w.out] \in Macs
      BY BindingsAssumption DEF IInv, TypeOK
    <3>2. resolves[u].out \in Streams \cup {NoStream}
      BY DEF IInv, TypeOK, Resolve
    <3> QED  BY <2>1, <3>1, <3>2, ConnectKeepsListenerSide DEF IInv, ConnectTxResponse
  <2>2. CASE ~ Grants(st)
    BY <2>2, OtherStepsKeepListenerSide DEF IInv, ConnectTxResponse
  <2> QED  BY <2>1, <2>2
<1>3. QuerySide'  BY ResponseKeepsQuerySide DEF IInv
<1>4. StreamOfItsTalker'  BY ResponseKeepsItsTalker DEF IInv
<1> QED  BY <1>1, <1>2, <1>3, <1>4 DEF IInv

LEMMA ControllerKeepsIInv == IInv /\ Controller => IInv'
<1> SUFFICES ASSUME IInv, Controller PROVE IInv'  OBVIOUS
<1>1. TypeOK'  BY StepTypes DEF IInv, Next
<1>0. Ambiguous \subseteq Ambiguous'  BY AmbiguousGrows DEF IInv, Next
<1>7. UNCHANGED <<lst, pending>> => StreamOfItsTalker'
  BY ItsTalkerStays DEF IInv, Next
<1>2. ASSUME NEW c \in Cmds, ConnectRxRefused(c) PROVE IInv'
  BY <1>1, <1>2, <1>7, OtherStepsKeepListenerSide, RefusedKeepsQuerySide
  DEF IInv, ConnectRxRefused, bindVars, listenVars
<1>3. ASSUME NEW c \in Cmds, NEW u \in Uids, NEW out \in Streams, ConnectRxSlow(c, u, out)
      PROVE  IInv'
  BY <1>1, <1>3, <1>7, OtherStepsKeepListenerSide, SlowKeepsQuerySide
  DEF IInv, ConnectRxSlow, bindVars, listenVars
<1>4. ASSUME NEW c \in Cmds, NEW u \in Uids, NEW out \in Streams,
             NEW mac \in SavedMacs \cup {NoMac, DestOf[out]}, ConnectRxFast(c, u, out, out, mac)
      PROVE  IInv'
  <2>1. mac \in Macs \cup {NoMac}  BY AcmpAssumption, BindingsAssumption
  <2> QED  BY <1>0, <1>4, <2>1, FastKeepsIInv
<1>5. ASSUME NEW c \in Cmds, NEW u \in Uids, NEW out \in Streams, NEW mac \in SavedMacs,
             ConnectRxFast(c, u, out, NoStream, mac)
      PROVE  IInv'
  <2>1. mac \in Macs  BY AcmpAssumption
  <2> QED  BY <1>0, <1>5, <2>1, FastKeepsIInv
<1>6. ASSUME NEW u \in Uids, DisconnectRx(u) PROVE IInv'
  BY <1>0, <1>1, <1>6, DisconnectKeepsListenerSide, OtherStepsKeepQuerySide, DisconnectKeepsItsTalker
  DEF IInv, DisconnectRx
<1> QED  BY <1>2, <1>3, <1>4, <1>5, <1>6 DEF Controller, ConnectRx

LEMMA StepIInv == IInv /\ [Next]_vars => IInv'
<1> SUFFICES ASSUME IInv, [Next]_vars PROVE IInv'  OBVIOUS
<1>1. TypeOK'  BY StepTypes DEF IInv
<1>0. Ambiguous \subseteq Ambiguous'  BY AmbiguousGrows DEF IInv
<1>10. UNCHANGED <<lst, pending>> => StreamOfItsTalker'
  BY ItsTalkerStays DEF IInv
<1>2. CASE Controller  BY <1>2, ControllerKeepsIInv
<1>3. ASSUME NEW u \in Uids, NEW w \in wire, NEW st \in {"success", "failure"},
             ConnectTxResponse(u, w, st)
      PROVE  IInv'
  BY <1>0, <1>3, ResponseKeepsIInv
<1>4. ASSUME NEW s \in Streams, TalkerAdvertise(s) PROVE IInv'
  BY <1>0, <1>1, <1>4, AdvertiseKeepsListenerSide, OtherStepsKeepQuerySide, AdvertiseKeepsItsTalker
  DEF IInv, TalkerAdvertise
<1>5. CASE AvdeccPoll
  BY <1>1, <1>5, <1>10, OtherStepsKeepListenerSide, PollKeepsQuerySide
  DEF IInv, AvdeccPoll, bindVars, listenVars
<1>9. CASE CrfRebootstrap
  BY <1>1, <1>9, <1>10, OtherStepsKeepListenerSide, RebootstrapKeepsQuerySide
  DEF IInv, CrfRebootstrap, bindVars, listenVars
<1>6. CASE Tick
  BY <1>1, <1>6, <1>10, OtherStepsKeepListenerSide, TickKeepsQuerySide
  DEF IInv, Tick, bindVars, listenVars
<1>7. CASE UartForceTx \/ UartForceClear
  BY <1>0, <1>1, <1>7, ConsoleKeepsListenerSide, OtherStepsKeepQuerySide, ConsoleKeepsItsTalker
  DEF IInv, UartForceTx, UartForceClear, rxVars
<1>8. CASE ConnectTx \/ DisconnectTx \/ DomainChange \/ UartStopTx \/ UNCHANGED vars
  <2>1. UNCHANGED <<listenVars, rxVars>>
    BY <1>8 DEF ConnectTx, DisconnectTx, DomainChange, UartStopTx, vars, bindVars, listenVars
  <2> QED
    BY <1>1, <1>10, <2>1, OtherStepsKeepListenerSide, OtherStepsKeepQuerySide
    DEF IInv, rxVars, listenVars
<1> QED
  BY <1>2, <1>3, <1>4, <1>5, <1>6, <1>7, <1>8, <1>9 DEF Next, Network, Operator

LEMMA Invariance == Spec => []IInv
BY InitIInv, StepIInv, PTL DEF Spec

(* AVDECC, the parked bindings, the engines, the one MSRP listener attribute and
   the extractor filter agree in every reachable state. *)
THEOREM BindingsAgree ==
    Spec => []ConnectedIsServed /\ []NothingServedUnasked /\ []ReadyIsReceived /\ []AudioIsExtracted
<1>1. IInv => ConnectedIsServed /\ NothingServedUnasked /\ ReadyIsReceived /\ AudioIsExtracted
  BY DEF IInv, ListenerSide
<1> QED  BY <1>1, Invariance, PTL

(* Every connected input has its engine bound to the stream it reports, or is parked
   for it, unless the operator's 't' took the AAF engine (on_listener_connect,
   on_talker_advertise). *)
THEOREM ConnectionsServed == Spec => []ConnectedIsServed
BY BindingsAgree, PTL

(* No engine is bound and no binding is parked for an input nobody connected
   (on_listener_disconnect, the console's force-clear). *)
THEOREM NothingUnasked == Spec => []NothingServedUnasked
BY BindingsAgree, PTL

(* The extractor passes the frames of the stream the AAF engine is bound to, by its id
   and, when the right address came with the connection, by that address, unless the
   operator's 't' took the engine (avtp_filter_set_slot). *)
THEOREM AudioFollows == Spec => []AudioIsExtracted
BY BindingsAgree, PTL

(* However responses are lost, repeated or late, no command is answered twice, and the
   requests of the queries in progress and their commands are all distinct. *)
THEOREM AnsweredOnce == Spec => []AtMostOneReply /\ []AnswerableOnce
<1>1. IInv => AtMostOneReply /\ AnswerableOnce  BY DEF IInv, QuerySide
<1> QED  BY <1>1, Invariance, PTL

(* Before the 16-bit id wraps no answer is ambiguous. *)
UnambiguousAtFirst == nextSeq <= SEQ => Ambiguous = {}

(* An input is connected to, or parked for, the talker it reports, and can be mistaken
   about it only by an answer whose id another request repeated: never before
   next_acmp_seq has wrapped (acmp_handle_connect_tx_response). *)
THEOREM RightTalker == Spec => []StreamOfItsTalker /\ []UnambiguousAtFirst
<1>1. IInv => StreamOfItsTalker  BY DEF IInv
<1>2. IInv => UnambiguousAtFirst
  <2>1. IInv => /\ nextSeq \in Nat /\ SEQ \in Nat
                /\ \A w \in wire : w.seq \in Nat /\ w.seq < nextSeq
    BY AcmpAssumption DEF IInv, TypeOK, QuerySide, AnswerableOnce
  <2> QED  BY <2>1 DEF UnambiguousAtFirst, Ambiguous
<1> QED  BY <1>1, <1>2, Invariance, PTL

(* A refused or timed-out connection leaves no trace in the endpoint. *)
THEOREM FailureIsHarmless == Spec => FailureChangesNothing
<1> DEFINE Refusal == \E c \in Cmds : reply[c] = "none" /\ reply'[c] = "failure"
           Untouched == UNCHANGED <<lst, listenVars>>
<1>1. IInv /\ [Next]_vars => [Refusal => Untouched]_vars
  <2> SUFFICES ASSUME IInv, [Next]_vars, NEW c \in Cmds, reply[c] = "none", reply'[c] = "failure"
               PROVE  Untouched
    OBVIOUS
  <2>1. reply \in [Cmds -> Statuses]  BY DEF IInv, TypeOK
  <2>2. ASSUME NEW d \in Cmds, NEW u \in Uids, NEW out, NEW sid, NEW mac,
               ConnectRxFast(d, u, out, sid, mac)
        PROVE  FALSE
    BY <2>1, <2>2 DEF ConnectRxFast, Respond, Answered
  <2>3. ASSUME NEW u \in Uids, NEW w \in wire, NEW st \in {"success", "failure"},
               ConnectTxResponse(u, w, st)
        PROVE  Untouched
    <3>1. st = "failure"
      BY <2>1, <2>3 DEF ConnectTxResponse, Respond, Answered
    <3> QED  BY <2>3, <3>1 DEF ConnectTxResponse, Grants
  <2>4. CASE UNCHANGED reply
    BY <2>4
  <2>5. ASSUME NEW d \in Cmds, ConnectRxRefused(d) PROVE Untouched
    BY <2>5 DEF ConnectRxRefused, bindVars, listenVars
  <2>6. CASE AvdeccPoll  BY <2>6 DEF AvdeccPoll, bindVars, listenVars
  <2>7. ASSUME ~ UNCHANGED reply
        PROVE  \/ \E d \in Cmds : ConnectRxRefused(d)
               \/ \E d \in Cmds, u \in Uids, out \in Streams :
                     \E sid \in Streams \cup {NoStream}, mac \in Macs \cup SavedMacs \cup {NoMac} :
                         ConnectRxFast(d, u, out, sid, mac)
               \/ \E u \in Uids, w \in wire, st \in {"success", "failure"} :
                     ConnectTxResponse(u, w, st)
               \/ AvdeccPoll
    <3>1. \A out \in Streams : DestOf[out] \in Macs  BY BindingsAssumption
    <3> QED
      BY <2>7, <3>1
      DEF Next, Controller, Network, Operator, ConnectRx, ConnectRxSlow, DisconnectRx, TalkerAdvertise,
          ConnectTx, DisconnectTx, DomainChange, CrfRebootstrap, Tick, UartForceTx, UartStopTx, UartForceClear,
          vars, rxVars
  <2> QED  BY <2>2, <2>3, <2>4, <2>5, <2>6, <2>7
<1> QED  BY <1>1, Invariance, PTL DEF Spec, FailureChangesNothing

-----------------------------------------------------------------------------
(* Acmp implements Sink: what each kind of change of the protocol state is for
   the abstract variables, and then one lemma per handler. *)

(* What an input does is decided by its own three records. *)
SinkOf(l, p, e) ==
    IF ~ l.connected THEN S!Idle
    ELSE IF p.active THEN S!Awaits({s \in Streams : AdvertMatches(p, s)})
    ELSE S!Plays(e.sid)

LEMMA SinksAre ==
    /\ Sinks = [u \in Uids |-> SinkOf(lst[u], pending[u], engine[u])]
    /\ Sinks' = [u \in Uids |-> SinkOf(lst'[u], pending'[u], engine'[u])]
BY DEF Sinks, Awaited, SinkOf, S!Idle, S!Awaits, S!Plays

LEMMA SinksStay == UNCHANGED <<lst, pending, engine>> => Sinks' = Sinks
BY SinksAre

LEMMA SinkTurns ==
    ASSUME NEW u \in Uids, NEW what,
           \A v \in Uids : v # u => /\ lst'[v] = lst[v] /\ pending'[v] = pending[v]
                                    /\ engine'[v] = engine[v],
           SinkOf(lst'[u], pending'[u], engine'[u]) = what
    PROVE  S!Turns(u, what)
<1>1. Sinks' = [Sinks EXCEPT ![u] = what]
  BY SinksAre, Zenon
<1> QED BY <1>1, Zenon DEF S!Turns

LEMMA QueriesStay == UNCHANGED resolves => Queries' = Queries
BY DEF Queries

LEMMA AnswersStay == UNCHANGED <<taken, reply>> => Answers' = Answers
BY DEF Answers

(* The answer to a new command, and to one that waits. *)
LEMMA NewBecomes ==
    ASSUME IInv, NEW c \in Cmds, Receive(c), NEW st \in {"success", "failure"}, Respond(c, st)
    PROVE  S!Becomes(c, "new", st)
<1>1. c \notin taken /\ taken' = taken \cup {c} /\ reply[c] = "none"
  BY DEF IInv, QuerySide, AtMostOneReply, Receive
<1>2. reply'[c] = st /\ \A d \in Cmds : d # c => reply'[d] = reply[d]
  BY <1>1 DEF IInv, TypeOK, Respond, Answered
<1>3. Answers[c] = "new"
  BY <1>1 DEF Answers
<1>4. Answers' = [Answers EXCEPT ![c] = st]
  BY <1>1, <1>2 DEF Answers
<1> QED BY <1>3, <1>4, Zenon DEF S!Becomes

LEMMA WaitingBecomes ==
    ASSUME IInv, NEW u \in Uids, resolves[u].active, UNCHANGED taken,
           NEW st \in {"success", "failure"}, Respond(resolves[u].cmd, st)
    PROVE  S!Becomes(resolves[u].cmd, "waiting", st)
<1> DEFINE c == resolves[u].cmd
<1>1. c \in Cmds /\ c \in taken /\ reply[c] = "none"
  BY DEF IInv, TypeOK, QuerySide, AnswerableOnce
<1>2. reply'[c] = st /\ \A d \in Cmds : d # c => reply'[d] = reply[d]
  BY <1>1 DEF IInv, TypeOK, Respond, Answered
<1> HIDE DEF c
<1>3. Answers[c] = "waiting"
  BY <1>1 DEF Answers
<1>4. Answers' = [Answers EXCEPT ![c] = st]
  BY <1>1, <1>2 DEF Answers
<1> QED BY <1>3, <1>4, Zenon DEF S!Becomes, c

LEMMA QueryIsAsked == \A a, b, c : [cmd |-> a, for |-> b] # [cmd |-> c]
<1> SUFFICES ASSUME NEW a, NEW b, NEW c, [cmd |-> a, for |-> b] = [cmd |-> c] PROVE FALSE
  OBVIOUS
<1>1. DOMAIN [cmd |-> a, for |-> b] = {"cmd", "for"} /\ DOMAIN [cmd |-> c] = {"cmd"}
  OBVIOUS
<1>2. "for" \notin {"cmd"}
  OBVIOUS
<1> QED BY <1>1, <1>2, Zenon

LEMMA AskingAre == S!Asking = {u \in Uids : resolves[u].active}
BY QueryIsAsked DEF S!Asking, Queries, S!NoQuery

(* One lemma per handler. *)
LEMMA RefusedRefuses ==
    ASSUME IInv, NEW c \in Cmds, ConnectRxRefused(c) PROVE S!Serve
<1>1. S!Becomes(c, "new", "failure")
  BY NewBecomes DEF ConnectRxRefused
<1>2. UNCHANGED <<Sinks, Queries>>
  BY SinksStay, QueriesStay DEF ConnectRxRefused, bindVars
<1> QED BY <1>1, <1>2, Zenon DEF S!Serve, S!Refuse

LEMMA SlowAsks ==
    ASSUME IInv, NEW c \in Cmds, NEW u \in Uids, NEW out \in Streams, ConnectRxSlow(c, u, out)
    PROVE  S!Serve
<1>1. c \notin taken /\ taken' = taken \cup {c} /\ reply' = reply /\ reply[c] = "none"
  BY DEF IInv, QuerySide, AtMostOneReply, ConnectRxSlow, Receive
<1>2. Answers[c] = "new" /\ Answers' = [Answers EXCEPT ![c] = "waiting"]
  BY <1>1 DEF Answers
<1>3. Queries' = [Queries EXCEPT ![u] = S!Asks(c, out)]
  BY DEF IInv, TypeOK, ConnectRxSlow, Queries, S!Asks
<1>4. Sinks' = Sinks
  BY SinksStay DEF ConnectRxSlow, bindVars
<1> QED BY <1>2, <1>3, <1>4, Zenon DEF S!Serve, S!Ask, S!Becomes

LEMMA ConnectTurns ==
    ASSUME IInv, NEW u \in Uids, NEW sid \in Streams \cup {NoStream},
           NEW mac \in Macs \cup {NoMac}, NEW out \in Streams \cup {NoStream},
           OnListenerConnect(u, sid, mac, out),
           lst' = [lst EXCEPT ![u] = Connected(u, sid, out)]
    PROVE  /\ sid \in Streams => S!Turns(u, S!Plays(sid))
           /\ sid = NoStream /\ out \in Streams =>
                \E ss \in (SUBSET Streams) \ {{}} : S!Turns(u, S!Awaits(ss))
<1>1. \A v \in Uids : v # u => /\ lst'[v] = lst[v] /\ pending'[v] = pending[v]
                               /\ engine'[v] = engine[v]
  BY DEF IInv, TypeOK, BindTypeOK, OnListenerConnect
<1>2. lst'[u].connected
  BY DEF IInv, TypeOK, Connected
<1>3. ASSUME sid \in Streams PROVE S!Turns(u, S!Plays(sid))
  <2>1. sid # NoStream
    BY <1>3, BindingsAssumption
  <2>2. ~ pending'[u].active /\ engine'[u].sid = sid
    BY <2>1 DEF IInv, TypeOK, BindTypeOK, OnListenerConnect, Parked, Unparked, Bound
  <2>3. SinkOf(lst'[u], pending'[u], engine'[u]) = S!Plays(sid)
    BY <1>2, <2>2 DEF SinkOf
  <2> QED BY <1>1, <2>3, SinkTurns
<1>4. ASSUME sid = NoStream, out \in Streams
      PROVE  \E ss \in (SUBSET Streams) \ {{}} : S!Turns(u, S!Awaits(ss))
  <2> DEFINE p == [active |-> TRUE, mac |-> mac, out |-> out]
             ss == {s \in Streams : AdvertMatches(p, s)}
  <2>1. pending'[u] = p
    BY <1>4 DEF IInv, TypeOK, BindTypeOK, OnListenerConnect
  <2>2. out \in ss
    BY <1>4, BindingsAssumption DEF AdvertMatches
  <2>3. p.active
    OBVIOUS
  <2> HIDE DEF p
  <2>4. SinkOf(lst'[u], pending'[u], engine'[u]) = S!Awaits(ss)
    BY <1>2, <2>1, <2>3 DEF SinkOf
  <2> HIDE DEF ss
  <2>5. S!Turns(u, S!Awaits(ss))
    BY <1>1, <2>4, SinkTurns
  <2>6. ss \in (SUBSET Streams) \ {{}}
    <3>1. ss \subseteq Streams  BY DEF ss
    <3> QED BY <2>2, <3>1
  <2> QED BY <2>5, <2>6
<1> QED BY <1>3, <1>4

LEMMA FastGrants ==
    ASSUME IInv, NEW c \in Cmds, NEW u \in Uids, NEW out \in Streams,
           NEW sid \in Streams \cup {NoStream}, NEW mac \in Macs \cup {NoMac},
           ConnectRxFast(c, u, out, sid, mac)
    PROVE  S!Serve
<1>1. S!Becomes(c, "new", "success")
  BY NewBecomes DEF ConnectRxFast
<1>2. Queries' = Queries
  BY QueriesStay DEF ConnectRxFast
<1>3. CASE sid \in Streams
  <2>1. S!Turns(u, S!Plays(sid))
    BY <1>3, ConnectTurns DEF ConnectRxFast
  <2> QED BY <1>1, <1>2, <1>3, <2>1, Zenon DEF S!Serve, S!Grant
<1>4. CASE sid = NoStream
  <2>1. PICK ss \in (SUBSET Streams) \ {{}} : S!Turns(u, S!Awaits(ss))
    BY <1>4, ConnectTurns DEF ConnectRxFast
  <2> QED BY <1>1, <1>2, <2>1, Zenon DEF S!Serve, S!Grant
<1> QED BY <1>3, <1>4

LEMMA ResponseAnswers ==
    ASSUME IInv, NEW u \in Uids, NEW w \in wire, NEW st \in {"success", "failure"},
           ConnectTxResponse(u, w, st)
    PROVE  S!Serve
<1>1. /\ resolves[u].active /\ w.out \in Streams
      /\ w.out \in {resolves[u].out} \cup Ambiguous
  BY MistakenIsAmbiguous DEF IInv, TypeOK, ConnectTxResponse, Matches, Carriers
<1>2. S!Becomes(resolves[u].cmd, "waiting", st)
  BY <1>1, WaitingBecomes DEF ConnectTxResponse
<1>3. Queries[u] = [cmd |-> resolves[u].cmd, for |-> resolves[u].out]
  BY <1>1 DEF Queries
<1>4. Queries[u].cmd = resolves[u].cmd /\ Queries[u].for = resolves[u].out
  BY <1>3
<1>5. u \in S!Asking
  BY <1>1, AskingAre
<1>6. Queries' = [Queries EXCEPT ![u] = S!NoQuery]
  BY DEF IInv, TypeOK, Resolve, ConnectTxResponse, Completed, Queries, S!NoQuery
<1>7. IF st = "success"
      THEN \E s \in {Queries[u].for} \cup Ambiguous : S!Turns(u, S!Plays(s))
      ELSE UNCHANGED Sinks
  <2>1. CASE st = "success"
    <3>1. DestOf[w.out] \in Macs /\ resolves[u].out \in Streams
      BY <1>1, BindingsAssumption DEF IInv, TypeOK, TalkerKnown
    <3>2. S!Turns(u, S!Plays(w.out))
      BY <1>1, <2>1, <3>1, ConnectTurns DEF ConnectTxResponse, Grants
    <3>3. w.out \in {Queries[u].for} \cup Ambiguous
      BY <1>1, <1>4
    <3>4. \E s \in {Queries[u].for} \cup Ambiguous : S!Turns(u, S!Plays(s))
      BY <3>2, <3>3, Zenon
    <3> QED BY <2>1, <3>4, Zenon
  <2>2. CASE st # "success"
    BY <2>2, SinksStay DEF ConnectTxResponse, Grants, listenVars
  <2> QED BY <2>1, <2>2
<1> QED BY <1>2, <1>4, <1>5, <1>6, <1>7, Zenon DEF S!Serve, S!Answer

LEMMA PollGivesUp ==
    ASSUME IInv, AvdeccPoll PROVE S!Serve
<1>1. Expired \in SUBSET S!Asking
  BY AskingAre DEF Expired, Polled
<1>2. \A u \in Expired : u \in Uids /\ resolves[u].active /\ Queries[u].cmd = resolves[u].cmd
  BY DEF Expired, Polled, Queries
<1>3. \A u \in Expired : resolves[u].cmd \in Cmds /\ resolves[u].cmd \in taken
                         /\ reply[resolves[u].cmd] = "none"
  BY <1>2 DEF IInv, TypeOK, QuerySide, AnswerableOnce
<1>4. \A u \in Expired : Answers[Queries[u].cmd] = "waiting"
  BY <1>2, <1>3 DEF Answers
<1>5. Answers' = [c \in Cmds |-> IF \E u \in Expired : Queries[u].cmd = c THEN "failure" ELSE Answers[c]]
  <2>1. ASSUME NEW c \in Cmds, \E u \in Expired : Queries[u].cmd = c
        PROVE  Answers'[c] = "failure"
    BY <1>2, <1>3, <2>1 DEF AvdeccPoll, Answers, Answered
  <2>2. ASSUME NEW c \in Cmds, ~ \E u \in Expired : Queries[u].cmd = c
        PROVE  Answers'[c] = Answers[c]
    BY <1>2, <2>2 DEF AvdeccPoll, Answers
  <2>3. Answers' = [c \in Cmds |-> Answers'[c]]
    BY DEF Answers
  <2> QED BY <2>1, <2>2, <2>3
<1>6. Queries' = [u \in Uids |-> IF u \in Expired THEN S!NoQuery ELSE Queries[u]]
  BY <1>2 DEF IInv, TypeOK, Resolve, AvdeccPoll, Completed, Queries, S!NoQuery
<1>7. Sinks' = Sinks
  BY SinksStay DEF AvdeccPoll, bindVars
<1> QED BY <1>1, <1>4, <1>5, <1>6, <1>7, Zenon DEF S!Serve, S!GiveUp

LEMMA TickIsHidden ==
    ASSUME IInv, Tick PROVE UNCHANGED <<Sinks, Queries, Answers>>
<1>1. \A u \in Uids : /\ resolves'[u].active = resolves[u].active
                      /\ resolves'[u].cmd = resolves[u].cmd
                      /\ resolves'[u].out = resolves[u].out
  BY DEF IInv, TypeOK, Resolve, Tick
<1>2. Queries' = Queries
  BY <1>1 DEF Queries
<1> QED BY <1>2, SinksStay, AnswersStay DEF Tick, bindVars

LEMMA DisconnectEnds ==
    ASSUME IInv, NEW u \in Uids, DisconnectRx(u) PROVE S!Serve
<1>1. \A v \in Uids : v # u => /\ lst'[v] = lst[v] /\ pending'[v] = pending[v]
                               /\ engine'[v] = engine[v]
  BY DEF IInv, TypeOK, BindTypeOK, DisconnectRx, OnListenerDisconnect
<1>2. ~ lst'[u].connected
  BY DEF IInv, TypeOK, Listener, DisconnectRx
<1>3. S!Turns(u, S!Idle)
  <2>1. SinkOf(lst'[u], pending'[u], engine'[u]) = S!Idle
    BY <1>2 DEF SinkOf
  <2> QED BY <1>1, <2>1, SinkTurns
<1>4. UNCHANGED <<Queries, Answers>>
  BY QueriesStay, AnswersStay DEF DisconnectRx
<1> QED BY <1>3, <1>4, Zenon DEF S!Serve, S!Disconnect

LEMMA SinkKinds ==
    /\ S!Idle.does # "awaits" /\ S!Idle.does # "plays"
    /\ \A ss : S!Awaits(ss).does = "awaits" /\ S!Awaits(ss).any = ss
    /\ \A s : S!Plays(s).does = "plays" /\ S!Plays(s).does # "awaits"
BY DEF S!Idle, S!Awaits, S!Plays

LEMMA AdvertiseAppears ==
    ASSUME IInv, NEW s \in Streams, TalkerAdvertise(s) PROVE S!Serve
<1>1. \A u \in Uids : u \in Learners(s) <=> Sinks[u].does = "awaits" /\ s \in Sinks[u].any
  <2> TAKE u \in Uids
  <2>1. pending[u].active => lst[u].connected
    BY DEF IInv, ListenerSide, NothingServedUnasked
  <2>2. Sinks[u] = SinkOf(lst[u], pending[u], engine[u])
    BY SinksAre, Zenon
  <2>3. u \in Learners(s) <=> AdvertMatches(pending[u], s)
    BY DEF Learners
  <2>4. AdvertMatches(pending[u], s) => pending[u].active
    BY DEF AdvertMatches
  <2>5. CASE lst[u].connected /\ pending[u].active
    <3>1. Sinks[u] = S!Awaits({x \in Streams : AdvertMatches(pending[u], x)})
      BY <2>2, <2>5 DEF SinkOf
    <3>2. Sinks[u].does = "awaits" /\ Sinks[u].any = {x \in Streams : AdvertMatches(pending[u], x)}
      BY <3>1, SinkKinds
    <3> QED BY <2>3, <3>2
  <2>6. CASE ~ (lst[u].connected /\ pending[u].active)
    <3>1. Sinks[u] = S!Idle \/ Sinks[u] = S!Plays(engine[u].sid)
      BY <2>2, <2>6 DEF SinkOf
    <3>2. Sinks[u].does # "awaits"
      BY <3>1, SinkKinds
    <3> QED BY <2>1, <2>3, <2>4, <2>6, <3>2
  <2> QED BY <2>5, <2>6
<1>2. ASSUME NEW u \in Uids, u \in Learners(s)
      PROVE  SinkOf(lst'[u], pending'[u], engine'[u]) = S!Plays(s)
  <2>1. pending[u].active
    BY <1>2 DEF Learners, AdvertMatches
  <2>2. lst[u].connected
    BY <2>1 DEF IInv, ListenerSide, NothingServedUnasked
  <2>3. lst'[u].connected /\ ~ pending'[u].active /\ engine'[u].sid = s
    BY <1>2, <2>2
    DEF IInv, TypeOK, BindTypeOK, Listener, Parked, TalkerAdvertise, OnTalkerAdvertise, Learned, Unparked, Bound
  <2> QED BY <2>3 DEF SinkOf
<1>3. ASSUME NEW u \in Uids, u \notin Learners(s)
      PROVE  lst'[u] = lst[u] /\ pending'[u] = pending[u] /\ engine'[u] = engine[u]
  BY <1>3 DEF IInv, TypeOK, BindTypeOK, TalkerAdvertise, OnTalkerAdvertise
<1>4. Sinks' = [u \in Uids |-> IF Sinks[u].does = "awaits" /\ s \in Sinks[u].any
                               THEN S!Plays(s) ELSE Sinks[u]]
  BY <1>1, <1>2, <1>3, SinksAre, Zenon
<1>5. UNCHANGED <<Queries, Answers>>
  BY QueriesStay, AnswersStay DEF TalkerAdvertise
<1> QED BY <1>4, <1>5, Zenon DEF S!Serve, S!Appear

LEMMA ForceTxTakes ==
    ASSUME IInv, UartForceTx PROVE S!Serve \/ UNCHANGED <<Sinks, Queries, Answers>>
<1>1. /\ UNCHANGED <<lst, pending>> /\ engine'["AAF"].sid = Own
      /\ \A v \in Uids : v # "AAF" => engine'[v] = engine[v]
  BY UidFacts DEF IInv, TypeOK, BindTypeOK, UartForceTx, ForceTx, Bound, rxVars
<1>2. UNCHANGED <<Queries, Answers>>
  BY QueriesStay, AnswersStay DEF UartForceTx, rxVars
<1>3. CASE lst["AAF"].connected /\ ~ pending["AAF"].active
  <2>1. SinkOf(lst'["AAF"], pending'["AAF"], engine'["AAF"]) = S!Plays(Own)
    BY <1>1, <1>3 DEF SinkOf
  <2>2. S!Turns("AAF", S!Plays(Own))
    BY <1>1, <2>1, SinkTurns, UidFacts
  <2>3. Sinks["AAF"] = SinkOf(lst["AAF"], pending["AAF"], engine["AAF"])
    BY SinksAre, UidFacts, Zenon
  <2>4. Sinks["AAF"].does = "plays"
    BY <1>3, <2>3, SinkKinds DEF SinkOf
  <2> QED BY <1>2, <2>2, <2>4, Zenon DEF S!Serve, S!Take
<1>4. CASE ~ (lst["AAF"].connected /\ ~ pending["AAF"].active)
  <2>1. \A u \in Uids : SinkOf(lst'[u], pending'[u], engine'[u]) = SinkOf(lst[u], pending[u], engine[u])
    BY <1>1, <1>4 DEF SinkOf
  <2>2. Sinks' = Sinks
    BY <2>1, SinksAre, Zenon
  <2> QED BY <1>2, <2>2
<1> QED BY <1>3, <1>4

LEMMA ClearClears ==
    ASSUME IInv, UartForceClear PROVE S!Serve
<1>1. \A u \in Uids : ~ lst'[u].connected
  BY DEF UartForceClear, IdleListener
<1>2. Sinks' = [u \in Uids |-> S!Idle]
  BY <1>1, SinksAre DEF SinkOf
<1>3. UNCHANGED <<Queries, Answers>>
  BY QueriesStay, AnswersStay DEF UartForceClear
<1> QED BY <1>2, <1>3, Zenon DEF S!Serve, S!Clear

LEMMA RestIsHidden ==
    UNCHANGED <<lst, pending, engine, resolves, taken, reply>> => UNCHANGED <<Sinks, Queries, Answers>>
BY SinksStay, QueriesStay, AnswersStay

LEMMA StepIsSink == IInv /\ [Next]_vars => S!Next
<1> SUFFICES ASSUME IInv, [Next]_vars PROVE S!Serve \/ UNCHANGED <<Sinks, Queries, Answers>>
  BY AmbiguousGrows, Zenon DEF S!Next, IInv
<1>1. ASSUME NEW c \in Cmds, NEW u \in Uids, NEW out \in Streams, ConnectRx(c, u, out)
      PROVE  S!Serve
  <2>1. CASE ConnectRxSlow(c, u, out)  BY <2>1, SlowAsks
  <2>2. ASSUME NEW mac \in SavedMacs \cup {NoMac, DestOf[out]}, ConnectRxFast(c, u, out, out, mac)
        PROVE  S!Serve
    <3>1. mac \in Macs \cup {NoMac}  BY AcmpAssumption, BindingsAssumption
    <3> QED BY <2>2, <3>1, FastGrants
  <2>3. ASSUME NEW mac \in SavedMacs, ConnectRxFast(c, u, out, NoStream, mac) PROVE S!Serve
    <3>1. mac \in Macs  BY AcmpAssumption
    <3> QED BY <2>3, <3>1, FastGrants
  <2> QED BY <1>1, <2>1, <2>2, <2>3 DEF ConnectRx
<1>2. CASE Controller
  BY <1>1, <1>2, RefusedRefuses, DisconnectEnds DEF Controller
<1>3. CASE \E u \in Uids, w \in wire, st \in {"success", "failure"} : ConnectTxResponse(u, w, st)
  BY <1>3, ResponseAnswers
<1>4. CASE \E s \in Streams : TalkerAdvertise(s)
  BY <1>4, AdvertiseAppears
<1>5. CASE AvdeccPoll  BY <1>5, PollGivesUp
<1>6. CASE Tick  BY <1>6, TickIsHidden
<1>7. CASE UartForceTx  BY <1>7, ForceTxTakes
<1>8. CASE UartForceClear  BY <1>8, ClearClears
<1>9. CASE ConnectTx \/ DisconnectTx \/ DomainChange \/ UartStopTx \/ CrfRebootstrap \/ UNCHANGED vars
  BY <1>9, RestIsHidden
  DEF ConnectTx, DisconnectTx, DomainChange, UartStopTx, CrfRebootstrap, vars, bindVars, rxVars, listenVars
<1> QED
  BY <1>2, <1>3, <1>4, <1>5, <1>6, <1>7, <1>8, <1>9 DEF Next, Network, Operator

(* The ACMP engine with its callbacks is the connection service of Sink. *)
THEOREM ConnectionsImplementSink == Spec => ImplementsSink
<1>1. ASSUME Init PROVE S!Init
  <2>1. \A u \in Uids : ~ lst[u].connected /\ ~ resolves[u].active
    BY <1>1 DEF Init, IdleListener, IdleResolve
  <2>2. Sinks = [u \in Uids |-> S!Idle]
    BY <2>1, SinksAre DEF SinkOf
  <2>3. Queries = [u \in Uids |-> S!NoQuery]
    BY <2>1 DEF Queries, S!NoQuery
  <2>4. Answers = [c \in Cmds |-> "new"]
    BY <1>1 DEF Init, Answers
  <2>5. Ambiguous = {}
    BY <1>1 DEF Init, Ambiguous
  <2> QED BY <2>2, <2>3, <2>4, <2>5, Zenon DEF S!Init
<1>2. IInv /\ [Next]_vars => [S!Next]_<<Sinks, Queries, Ambiguous, Answers>>
  BY StepIsSink
<1> QED BY <1>1, <1>2, Invariance, PTL DEF Spec, ImplementsSink, S!Spec, S!vars

-----------------------------------------------------------------------------
(* What becomes of the query of an input in one step. *)
Endures(u) == /\ resolves'[u].active /\ resolves'[u].cmd = resolves[u].cmd
              /\ resolves'[u].age >= resolves[u].age
AnsweredNow(u) == reply'[resolves[u].cmd] # "none"
TakenOver(u) == resolves'[u].active /\ resolves'[u].cmd \in taken' \ taken

(* A deferred command is never dropped in silence: its query goes on and never grows
   younger, or the command is answered at this very step, or a command received at this
   step takes over the input's resolve slot (acmp_handle_connect_rx,
   acmp_handle_connect_tx_response, avdecc_poll). *)
QueriesAge ==
    [][\A u \in Uids : resolves[u].active => Endures(u) \/ AnsweredNow(u) \/ TakenOver(u)]_vars

LEMMA UntouchedEndure ==
    ASSUME TypeOK, NEW u \in Uids, resolves[u].active, resolves'[u] = resolves[u]
    PROVE  Endures(u)
<1>1. resolves[u].age \in Nat
  BY DEF TypeOK, Resolve
<1> QED BY <1>1 DEF Endures

LEMMA SlowTakesOver ==
    ASSUME TypeOK, NEW c \in Cmds, NEW u \in Uids, NEW out \in Streams, ConnectRxSlow(c, u, out),
           NEW v \in Uids, resolves[v].active
    PROVE  Endures(v) \/ TakenOver(v)
<1>1. CASE v = u
  BY <1>1 DEF TypeOK, ConnectRxSlow, Receive, TakenOver
<1>2. CASE v # u
  <2>1. resolves'[v] = resolves[v]
    BY <1>2 DEF TypeOK, ConnectRxSlow
  <2> QED BY <2>1, UntouchedEndure
<1> QED BY <1>1, <1>2

LEMMA ResponseCompletes ==
    ASSUME IInv, NEW u \in Uids, NEW w \in wire, NEW st \in {"success", "failure"},
           ConnectTxResponse(u, w, st), NEW v \in Uids, resolves[v].active
    PROVE  Endures(v) \/ AnsweredNow(v)
<1>1. TypeOK
  BY DEF IInv
<1>2. CASE v = u
  <2>1. resolves[u].cmd \in Cmds /\ reply[resolves[u].cmd] = "none"
    BY <1>2 DEF IInv, TypeOK, QuerySide, AnswerableOnce
  <2> QED BY <1>1, <1>2, <2>1 DEF TypeOK, ConnectTxResponse, Respond, Answered, AnsweredNow
<1>3. CASE v # u
  <2>1. resolves'[v] = resolves[v]
    BY <1>1, <1>3 DEF TypeOK, ConnectTxResponse
  <2> QED BY <1>1, <2>1, UntouchedEndure
<1> QED BY <1>2, <1>3

LEMMA PollCompletes ==
    ASSUME IInv, AvdeccPoll, NEW v \in Uids, resolves[v].active
    PROVE  Endures(v) \/ AnsweredNow(v)
<1>1. TypeOK
  BY DEF IInv
<1>2. CASE v \in Expired
  <2>1. resolves[v].cmd \in Cmds /\ reply[resolves[v].cmd] = "none"
    BY DEF IInv, TypeOK, QuerySide, AnswerableOnce
  <2>2. reply'[resolves[v].cmd] = "failure"
    BY <1>2, <2>1 DEF AvdeccPoll, Answered
  <2> QED BY <2>2 DEF AnsweredNow
<1>3. CASE v \notin Expired
  <2>1. resolves'[v] = resolves[v]
    BY <1>3 DEF AvdeccPoll
  <2> QED BY <1>1, <2>1, UntouchedEndure
<1> QED BY <1>2, <1>3

LEMMA TickAges ==
    ASSUME TypeOK, Tick, NEW v \in Uids, resolves[v].active
    PROVE  Endures(v)
<1>1. resolves[v] \in Resolve /\ resolves[v].age \in Nat
  BY DEF TypeOK, Resolve
<1>2. CASE resolves[v].age < RESOLVE_TIMEOUT
  <2>1. resolves'[v] = [resolves[v] EXCEPT !.age = @ + 1]
    BY <1>2 DEF Tick
  <2> QED BY <1>1, <2>1 DEF Endures, Resolve
<1>3. CASE ~ (resolves[v].age < RESOLVE_TIMEOUT)
  <2>1. resolves'[v] = resolves[v]
    BY <1>3 DEF Tick
  <2> QED BY <2>1, UntouchedEndure
<1> QED BY <1>2, <1>3

LEMMA StepAges ==
    ASSUME IInv, [Next]_vars, NEW v \in Uids, resolves[v].active
    PROVE  Endures(v) \/ AnsweredNow(v) \/ TakenOver(v)
<1>1. TypeOK
  BY DEF IInv
<1>2. ASSUME NEW c \in Cmds, NEW u \in Uids, NEW out \in Streams, ConnectRxSlow(c, u, out)
      PROVE  Endures(v) \/ TakenOver(v)
  BY <1>1, <1>2, SlowTakesOver
<1>3. ASSUME NEW u \in Uids, NEW w \in wire, NEW st \in {"success", "failure"},
             ConnectTxResponse(u, w, st)
      PROVE  Endures(v) \/ AnsweredNow(v)
  BY <1>3, ResponseCompletes
<1>4. CASE AvdeccPoll
  BY <1>4, PollCompletes
<1>5. CASE Tick
  BY <1>1, <1>5, TickAges
<1>6. CASE UNCHANGED resolves
  BY <1>1, <1>6, UntouchedEndure
<1>7. \/ UNCHANGED resolves \/ AvdeccPoll \/ Tick
      \/ \E c \in Cmds, u \in Uids, out \in Streams : ConnectRxSlow(c, u, out)
      \/ \E u \in Uids, w \in wire, st \in {"success", "failure"} : ConnectTxResponse(u, w, st)
  BY DEF Next, Controller, Network, Operator, ConnectRx, ConnectRxRefused, ConnectRxFast, DisconnectRx,
         TalkerAdvertise, ConnectTx, DisconnectTx, DomainChange, CrfRebootstrap, UartForceTx, UartStopTx,
         UartForceClear, vars, rxVars
<1> QED BY <1>2, <1>3, <1>4, <1>5, <1>6, <1>7

(* No query is dropped in silence, for any inputs, commands and time-out. *)
THEOREM QueriesEndAnswered == Spec => QueriesAge
<1>1. IInv /\ [Next]_vars =>
        [\A u \in Uids : resolves[u].active => Endures(u) \/ AnsweredNow(u) \/ TakenOver(u)]_vars
  BY StepAges
<1> QED BY <1>1, Invariance, PTL DEF Spec, QueriesAge

-----------------------------------------------------------------------------
(* Where the findings of this component end: what has to happen for each of the three
   promises it breaks (DisconnectSticks, ReadyWhileConnected, TransmitsOwnStream), and
   that the promise is kept as long as it does not. *)

(* An input its controller has given up comes back only with a granted answer to the
   query that was in progress (acmp_handle_connect_tx_response): once that has ended, a
   disconnected input stays so until the next command. *)
RevivedByAnswer ==
    [][\A u \in Uids : ~ lst[u].connected /\ lst'[u].connected /\ ~ wanted'[u] =>
          /\ resolves[u].active /\ ~ resolves'[u].active
          /\ reply'[resolves[u].cmd] = "success"]_vars

(* An input no one uses: no controller's command and no test command has bound it. *)
Unused(u) == ~ lst[u].connected /\ ~ engine[u].bound

(* The promise of srp_poll for one input; the operator's 't' is told apart. *)
ReadyFor(u) ==
    lst[u].connected /\ engine[u].bound =>
        \/ srpL.enabled /\ srpL.sid = engine[u].sid
        \/ u = "AAF" /\ Hijacked

(* The AAF engine holds no remote talker's stream. *)
OnlyTransmits == engine["AAF"].bound => Hijacked

(* Only a command or a granted answer connects an input. *)
LEMMA ConnectedBefore ==
    ASSUME IInv, [Next]_vars, NEW u \in Uids, ~ lst[u].connected, lst'[u].connected
    PROVE  \/ wanted'[u]
           \/ \E w \in wire, st \in {"success", "failure"} : ConnectTxResponse(u, w, st)
<1>1. TypeOK
  BY DEF IInv
<1>2. ASSUME NEW c \in Cmds, NEW v \in Uids, NEW out, NEW sid, NEW mac, ConnectRxFast(c, v, out, sid, mac)
      PROVE  wanted'[u]
  <2>1. v = u
    BY <1>1, <1>2 DEF TypeOK, ConnectRxFast
  <2> QED BY <1>1, <1>2, <2>1 DEF TypeOK, ConnectRxFast
<1>3. ASSUME NEW v \in Uids, NEW w \in wire, NEW st \in {"success", "failure"}, ConnectTxResponse(v, w, st)
      PROVE  v = u
  BY <1>1, <1>3 DEF TypeOK, ConnectTxResponse
<1>4. ASSUME NEW v \in Uids, DisconnectRx(v) PROVE FALSE
  BY <1>1, <1>4 DEF TypeOK, Listener, DisconnectRx
<1>5. ASSUME NEW s \in Streams, TalkerAdvertise(s) PROVE FALSE
  BY <1>1, <1>5 DEF TypeOK, Listener, TalkerAdvertise, Learned
<1>6. CASE UartForceClear
  BY <1>6 DEF UartForceClear, IdleListener
<1>7. \/ \E c \in Cmds, v \in Uids, out \in Streams : \E sid, mac : ConnectRxFast(c, v, out, sid, mac)
      \/ \E v \in Uids, w \in wire, st \in {"success", "failure"} : ConnectTxResponse(v, w, st)
      \/ \E v \in Uids : DisconnectRx(v)
      \/ \E s \in Streams : TalkerAdvertise(s)
      \/ UartForceClear
  BY DEF Next, Controller, Network, Operator, ConnectRx, ConnectRxRefused, ConnectRxSlow, AvdeccPoll,
         ConnectTx, DisconnectTx, DomainChange, CrfRebootstrap, Tick, UartForceTx, UartStopTx, vars, rxVars
<1> QED BY <1>2, <1>3, <1>4, <1>5, <1>6, <1>7

(* For any number of commands, repetitions and delays on the wire. *)
THEOREM OnlyAnswersRevive == Spec => RevivedByAnswer
<1>1. ASSUME IInv, [Next]_vars, NEW u \in Uids, ~ lst[u].connected, lst'[u].connected, ~ wanted'[u]
      PROVE  resolves[u].active /\ ~ resolves'[u].active /\ reply'[resolves[u].cmd] = "success"
  <2>1. PICK w \in wire, st \in {"success", "failure"} : ConnectTxResponse(u, w, st)
    BY <1>1, ConnectedBefore
  <2>2. TypeOK /\ resolves[u].active /\ resolves[u].cmd \in Cmds /\ reply[resolves[u].cmd] = "none"
    BY <1>1, <2>1 DEF IInv, TypeOK, QuerySide, AnswerableOnce, ConnectTxResponse, Matches, Carriers
  <2>3. Grants(st)
    BY <1>1, <2>1 DEF ConnectTxResponse
  <2>4. reply'[resolves[u].cmd] = "success"
    BY <2>1, <2>2, <2>3 DEF TypeOK, ConnectTxResponse, Respond, Answered, Grants
  <2>5. ~ resolves'[u].active
    BY <2>1, <2>2 DEF TypeOK, Resolve, ConnectTxResponse, Completed
  <2> QED BY <2>2, <2>4, <2>5
<1>2. IInv /\ [Next]_vars =>
        [\A u \in Uids : ~ lst[u].connected /\ lst'[u].connected /\ ~ wanted'[u] =>
            /\ resolves[u].active /\ ~ resolves'[u].active
            /\ reply'[resolves[u].cmd] = "success"]_vars
  BY <1>1
<1> QED BY <1>2, Invariance, PTL DEF Spec, RevivedByAnswer

LEMMA ConnectKeepsReady ==
    ASSUME IInv, NEW u \in Uids, NEW v \in Uids, v # u, ReadyFor(u), Unused(v)', NEW x \in Uids,
           NEW sid \in Streams \cup {NoStream}, NEW mac, NEW out,
           lst' = [lst EXCEPT ![x] = Connected(x, sid, out)], OnListenerConnect(x, sid, mac, out)
    PROVE  ReadyFor(u)'
<1>1. TypeOK /\ BindTypeOK /\ NothingServedUnasked
  BY DEF IInv, TypeOK, ListenerSide
<1>2. x = u
  <2>1. x = v => lst'[v].connected
    BY <1>1 DEF TypeOK, Connected
  <2> QED BY <2>1 DEF Unused, Uids
<1>3. CASE sid = NoStream
  <2>1. engine' = engine /\ srpL' = srpL
    BY <1>3 DEF OnListenerConnect
  <2>2. ~ lst[u].connected /\ engine[u].bound => u = "AAF" /\ Hijacked
    BY <1>1 DEF NothingServedUnasked
  <2> QED BY <2>1, <2>2 DEF ReadyFor, Hijacked
<1>4. CASE sid # NoStream
  <2>1. srpL' = [enabled |-> TRUE, sid |-> sid] /\ engine'[u] = [bound |-> TRUE, sid |-> sid]
    BY <1>1, <1>2, <1>4 DEF BindTypeOK, OnListenerConnect, SrpListenerOn, Bound
  <2> QED BY <2>1 DEF ReadyFor
<1> QED BY <1>3, <1>4

LEMMA StepKeepsReady ==
    ASSUME IInv, NEW u \in Uids, NEW v \in Uids, v # u,
           ReadyFor(u), Unused(v), Unused(v)', [Next]_vars
    PROVE  ReadyFor(u)'
<1>1. TypeOK /\ BindTypeOK
  BY DEF IInv, TypeOK
<1>2. ASSUME NEW c \in Cmds, NEW x \in Uids, NEW out \in Streams, ConnectRx(c, x, out)
      PROVE  ReadyFor(u)'
  <2>1. CASE ConnectRxSlow(c, x, out)
    BY <2>1 DEF ConnectRxSlow, bindVars, ReadyFor, Hijacked
  <2>2. ASSUME NEW sid \in Streams \cup {NoStream}, NEW mac, ConnectRxFast(c, x, out, sid, mac)
        PROVE  ReadyFor(u)'
    BY <2>2, ConnectKeepsReady DEF ConnectRxFast
  <2> QED BY <1>2, <2>1, <2>2 DEF ConnectRx
<1>3. ASSUME NEW x \in Uids, NEW w \in wire, NEW st \in {"success", "failure"}, ConnectTxResponse(x, w, st)
      PROVE  ReadyFor(u)'
  <2>1. CASE Grants(st)
    <3>1. w.out \in Streams
      BY <1>1 DEF TypeOK
    <3> QED BY <1>3, <2>1, <3>1, ConnectKeepsReady DEF ConnectTxResponse
  <2>2. CASE ~ Grants(st)
    BY <1>3, <2>2 DEF ConnectTxResponse, listenVars, ReadyFor, Hijacked
  <2> QED BY <2>1, <2>2
<1>4. ASSUME NEW x \in Uids, DisconnectRx(x) PROVE ReadyFor(u)'
  <2>1. CASE x = u
    BY <1>1, <1>4, <2>1 DEF TypeOK, Listener, DisconnectRx, ReadyFor
  <2>2. CASE x = v
    <3>1. UNCHANGED srpL /\ engine'[u] = engine[u] /\ lst'[u] = lst[u]
      BY <1>1, <1>4, <2>2 DEF TypeOK, BindTypeOK, DisconnectRx, OnListenerDisconnect, Unused
    <3>2. u = "AAF" /\ Hijacked => engine'["AAF"].bound /\ engine'["AAF"].sid = Own
      BY <3>1 DEF Hijacked
    <3> QED BY <3>1, <3>2 DEF ReadyFor, Hijacked
  <2> QED BY <2>1, <2>2 DEF Uids
<1>5. ASSUME NEW s \in Streams, TalkerAdvertise(s) PROVE ReadyFor(u)'
  <2>1. Learners(s) = {u}
    <3>1. v \notin Learners(s)
      BY <1>1, <1>5 DEF TalkerAdvertise, OnTalkerAdvertise, Unused, Bound
    <3> QED BY <1>5, <3>1 DEF TalkerAdvertise, Learners, Uids
  <2>2. engine'[u] = [bound |-> TRUE, sid |-> s] /\ srpL' = [enabled |-> TRUE, sid |-> s]
    BY <1>5, <2>1 DEF TalkerAdvertise, OnTalkerAdvertise, Bound, SrpListenerOn
  <2> QED BY <2>2 DEF ReadyFor
<1>6. CASE UartForceTx
  <2>1. engine'["AAF"].bound /\ engine'["AAF"].sid = Own
    BY <1>1, <1>6, UidFacts DEF BindTypeOK, UartForceTx, ForceTx, Bound
  <2>2. u = "AAF"
    BY <2>1, UidFacts DEF Unused
  <2> QED BY <2>1, <2>2 DEF ReadyFor, Hijacked
<1>7. CASE UartForceClear
  BY <1>7 DEF UartForceClear, IdleListener, ReadyFor
<1>8. CASE UNCHANGED <<lst, engine, srpL>>
  BY <1>8 DEF ReadyFor, Hijacked
<1>9. ASSUME NEW c \in Cmds, ConnectRxRefused(c) PROVE UNCHANGED <<lst, engine, srpL>>
  BY <1>9 DEF ConnectRxRefused, bindVars
<1>10. CASE ConnectTx \/ DisconnectTx \/ DomainChange \/ UartStopTx \/ CrfRebootstrap \/ AvdeccPoll
            \/ Tick \/ UNCHANGED vars
  <2>1. UNCHANGED <<lst, engine, srpL>>
    BY <1>10 DEF ConnectTx, DisconnectTx, DomainChange, UartStopTx, CrfRebootstrap, AvdeccPoll, Tick,
                 vars, bindVars, rxVars, listenVars
  <2> QED BY <1>8, <2>1
<1>11. CASE Controller
  BY <1>2, <1>4, <1>8, <1>9, <1>11 DEF Controller
<1>12. CASE Network
  BY <1>3, <1>5, <1>10, <1>12 DEF Network
<1>13. CASE Operator
  BY <1>6, <1>7, <1>10, <1>13 DEF Operator
<1> QED BY <1>10, <1>11, <1>12, <1>13 DEF Next

(* With one stream input in use the shared attribute is no hazard: its Listener Ready is
   up, for the right stream, for as long as the input is connected and bound.  It takes
   the second input to lose it (srp_listener_enable). *)
THEOREM OneInputIsReady ==
    /\ Spec /\ []Unused("AAF") => []ReadyFor("CRF")
    /\ Spec /\ []Unused("CRF") => []ReadyFor("AAF")
<1>1. Init => ReadyFor("CRF") /\ ReadyFor("AAF")
  BY UidFacts DEF Init, IdleListener, ReadyFor
<1>2. IInv /\ ReadyFor("CRF") /\ Unused("AAF") /\ Unused("AAF")' /\ [Next]_vars => ReadyFor("CRF")'
  BY StepKeepsReady, UidFacts
<1>3. IInv /\ ReadyFor("AAF") /\ Unused("CRF") /\ Unused("CRF")' /\ [Next]_vars => ReadyFor("AAF")'
  BY StepKeepsReady, UidFacts
<1>4. Spec /\ []Unused("AAF") => []ReadyFor("CRF")
  BY <1>1, <1>2, Invariance, PTL DEF Spec
<1>5. Spec /\ []Unused("CRF") => []ReadyFor("AAF")
  BY <1>1, <1>3, Invariance, PTL DEF Spec
<1> QED BY <1>4, <1>5

(* The engine's one stream_id field is our own, and so is what was pushed. *)
KeepsOwn == engine["AAF"].sid = Own /\ (gw.on => gw.sid = Own)

LEMMA StepKeepsOwn == TypeOK /\ KeepsOwn /\ OnlyTransmits' /\ [Next]_vars => KeepsOwn'
<1> SUFFICES ASSUME TypeOK, KeepsOwn, OnlyTransmits', [Next]_vars PROVE KeepsOwn'
  OBVIOUS
<1>1. BindTypeOK /\ "AAF" \in Uids
  BY UidFacts DEF TypeOK
<1>2. gw' = gw \/ gw'.sid \in {engine["AAF"].sid, Own} \/ ~ gw'.on
  <2>1. UNCHANGED gw \/ OnTalkerConnect \/ OnTalkerDisconnect \/ VlanSync \/ ForceTx
    BY DEF Next, Controller, Network, Operator, ConnectRx, ConnectRxRefused, ConnectRxSlow, ConnectRxFast,
           ConnectTxResponse, DisconnectRx, AvdeccPoll, CrfRebootstrap, Tick, TalkerAdvertise, ConnectTx,
           DisconnectTx, DomainChange, UartForceTx, UartStopTx, UartForceClear, vars, bindVars, talkVars
  <2>2. gw \in [on : BOOLEAN, sid : StreamIds]
    BY <1>1 DEF BindTypeOK
  <2> QED BY <2>1, <2>2 DEF OnTalkerConnect, OnTalkerDisconnect, VlanSync, ForceTx
<1>3. engine'["AAF"].sid = Own
  <2>1. CASE engine'["AAF"].bound
    BY <2>1 DEF OnlyTransmits, Hijacked
  <2>2. ASSUME NEW x \in Uids, OnListenerDisconnect(x) PROVE engine'["AAF"].sid = engine["AAF"].sid
    BY <1>1, <2>2 DEF BindTypeOK, Engine, OnListenerDisconnect
  <2>3. ASSUME NEW x \in Uids, NEW sid, NEW mac, NEW out, OnListenerConnect(x, sid, mac, out),
               ~ engine'["AAF"].bound
        PROVE  engine'["AAF"].sid = engine["AAF"].sid
    BY <1>1, <2>3 DEF BindTypeOK, OnListenerConnect, Bound
  <2>4. ASSUME NEW s \in Streams, OnTalkerAdvertise(s), ~ engine'["AAF"].bound
        PROVE  engine'["AAF"].sid = engine["AAF"].sid
    BY <1>1, <2>4 DEF BindTypeOK, OnTalkerAdvertise, Bound
  <2>5. CASE ForceClearBindings
    BY <1>1, <2>5 DEF BindTypeOK, Engine, ForceClearBindings, KeepsOwn
  <2>6. CASE ForceTx
    BY <1>1, <2>6 DEF BindTypeOK, ForceTx, Bound
  <2>7. \/ UNCHANGED engine \/ ForceClearBindings \/ ForceTx
        \/ \E x \in Uids : OnListenerDisconnect(x)
        \/ \E x \in Uids : \E sid, mac, out : OnListenerConnect(x, sid, mac, out)
        \/ \E s \in Streams : OnTalkerAdvertise(s)
    BY DEF Next, Controller, Network, Operator, ConnectRx, ConnectRxRefused, ConnectRxSlow, ConnectRxFast,
           ConnectTxResponse, DisconnectRx, AvdeccPoll, CrfRebootstrap, Tick, TalkerAdvertise, ConnectTx,
           DisconnectTx, DomainChange, UartForceTx, UartStopTx, UartForceClear, vars, bindVars, listenVars
  <2> QED BY <2>1, <2>2, <2>3, <2>4, <2>5, <2>6, <2>7 DEF KeepsOwn
<1> QED BY <1>2, <1>3 DEF KeepsOwn

(* A talker that never listens transmits under the stream_id it advertises: it takes a
   bind of the AAF input to a remote stream to change it (aaf_bind). *)
THEOREM TalkerAloneIsTrue == Spec /\ []OnlyTransmits => []TransmitsOwnStream
<1>1. Init => KeepsOwn
  BY UidFacts DEF Init, BindInit, KeepsOwn
<1>2. KeepsOwn => TransmitsOwnStream
  BY DEF KeepsOwn, TransmitsOwnStream
<1>3. IInv => TypeOK
  BY DEF IInv
<1> QED BY <1>1, <1>2, <1>3, StepKeepsOwn, Invariance, PTL DEF Spec
=============================================================================
