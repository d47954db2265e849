----------------------------- MODULE AcmpProofs -----------------------------
(***************************************************************************)
(* Theorems about Acmp, for every set of streams, talkers and commands.    *)
(***************************************************************************)
EXTENDS Acmp, TLAPS

LEMMA UidFacts == "CRF" \in Uids /\ "AAF" \in Uids /\ \A u \in Uids : u = "CRF" \/ u = "AAF"
BY DEF Uids

(* The records the callbacks store are of the type of the field they go to. *)
LEMMA RecordTypes ==
    /\ \A sid \in StreamIds : Bound(sid) \in Engine
    /\ \A e \in Engine : [e EXCEPT !.bound = FALSE] \in Engine
    /\ \A p \in Parked : Unparked(p) \in Parked
    /\ \A mac \in Macs \cup {NoMac}, out \in Streams \cup {NoStream} :
          [active |-> TRUE, mac |-> mac, out |-> out] \in Parked
    /\ \A sid \in StreamIds : [enabled |-> TRUE, sid |-> sid] \in Declared
    /\ \A d \in Declared : [d EXCEPT !.enabled = FALSE] \in Declared
    /\ \A sid \in StreamIds, mac \in Macs \cup {NoMac} : [en |-> TRUE, sid |-> sid, mac |-> mac] \in MatchKey
    /\ \A f \in MatchKey : [f EXCEPT !.en = FALSE] \in MatchKey
BY DEF Bound, Unparked, Engine, Parked, Declared, MatchKey

(* What the callbacks of main.c preserve. *)
LEMMA ConnectKeepsTypes ==
    ASSUME BindTypeOK, NEW u \in Uids, NEW sid \in Streams \cup {NoStream},
           NEW mac \in Macs \cup {NoMac}, NEW out \in Streams \cup {NoStream},
           OnListenerConnect(u, sid, mac, out), UNCHANGED talkVars
    PROVE  BindTypeOK'
<1>1. sid \in StreamIds  BY DEF StreamIds
<1>2. pending' \in [Uids -> Parked]
  BY RecordTypes DEF BindTypeOK, OnListenerConnect
<1>3. engine' \in [Uids -> Engine]
  BY <1>1, RecordTypes DEF BindTypeOK, OnListenerConnect
<1>4. srpL' \in Declared
  BY <1>1, RecordTypes DEF BindTypeOK, OnListenerConnect, SrpListenerOn
<1>5. filter' \in MatchKey
  BY <1>1, RecordTypes DEF BindTypeOK, OnListenerConnect, FilterFor
<1> QED  BY <1>2, <1>3, <1>4, <1>5 DEF BindTypeOK, talkVars

LEMMA DisconnectKeepsTypes ==
    ASSUME BindTypeOK, NEW u \in Uids, OnListenerDisconnect(u), UNCHANGED talkVars
    PROVE  BindTypeOK'
<1>1. pending' \in [Uids -> Parked]
  BY RecordTypes DEF BindTypeOK, OnListenerDisconnect
<1>2. engine' \in [Uids -> Engine]
  BY DEF BindTypeOK, OnListenerDisconnect, Engine
<1>3. srpL' \in Declared /\ filter' \in MatchKey
  BY RecordTypes DEF BindTypeOK, OnListenerDisconnect, SrpListenerOff
<1> QED  BY <1>1, <1>2, <1>3 DEF BindTypeOK, talkVars

LEMMA AdvertiseKeepsTypes ==
    ASSUME BindTypeOK, NEW s \in Streams, OnTalkerAdvertise(s), UNCHANGED talkVars
    PROVE  BindTypeOK'
<1>1. s \in StreamIds  BY DEF StreamIds
<1>2. pending' \in [Uids -> Parked]
  BY RecordTypes DEF BindTypeOK, OnTalkerAdvertise
<1>3. engine' \in [Uids -> Engine]
  BY <1>1, RecordTypes DEF BindTypeOK, OnTalkerAdvertise
<1>4. srpL' \in Declared
  BY <1>1, RecordTypes DEF BindTypeOK, OnTalkerAdvertise, SrpListenerOn
<1>5. pending["AAF"].mac \in Macs \cup {NoMac}
  BY UidFacts DEF BindTypeOK, Parked
<1>6. filter' \in MatchKey
  BY <1>1, <1>5, RecordTypes DEF BindTypeOK, OnTalkerAdvertise, FilterFor
<1> QED  BY <1>2, <1>3, <1>4, <1>6 DEF BindTypeOK, talkVars

LEMMA ClearKeepsTypes ==
    ASSUME BindTypeOK, ForceClearBindings, UNCHANGED talkVars
    PROVE  BindTypeOK'
<1>1. pending' \in [Uids -> Parked] /\ engine' \in [Uids -> Engine]
  BY RecordTypes DEF BindTypeOK, ForceClearBindings
<1>2. srpL' \in Declared
  BY RecordTypes DEF BindTypeOK, ForceClearBindings, SrpListenerOff
<1> QED  BY <1>1, <1>2 DEF BindTypeOK, talkVars, ForceClearBindings

LEMMA TalkKeepsTypes ==
    ASSUME BindTypeOK, UNCHANGED listenVars, OnTalkerConnect \/ OnTalkerDisconnect \/ VlanSync
    PROVE  BindTypeOK'
<1> DEFINE Gateware == [on : BOOLEAN, sid : StreamIds]
<1>1. engine["AAF"].sid \in StreamIds  BY UidFacts DEF BindTypeOK, Engine
<1>2. gw \in Gateware  BY DEF BindTypeOK
<1>3. CASE OnTalkerConnect
  <2>1. gw' \in Gateware /\ srpT' \in BOOLEAN /\ txOn' \in BOOLEAN
    BY <1>1, <1>3 DEF OnTalkerConnect
  <2> QED  BY <2>1 DEF BindTypeOK, listenVars
<1>4. CASE OnTalkerDisconnect
  <2>1. gw' \in Gateware /\ srpT' \in BOOLEAN /\ txOn' \in BOOLEAN
    BY <1>2, <1>4 DEF OnTalkerDisconnect
  <2> QED  BY <2>1 DEF BindTypeOK, listenVars
<1>5. CASE VlanSync
  <2>1. gw' \in Gateware
    BY <1>1, <1>2, <1>5 DEF VlanSync
  <2> QED  BY <2>1, <1>5 DEF BindTypeOK, listenVars, VlanSync
<1> QED  BY <1>3, <1>4, <1>5

LEMMA ForceTxKeepsTypes == BindTypeOK /\ ForceTx => BindTypeOK'
<1> SUFFICES ASSUME BindTypeOK, ForceTx PROVE BindTypeOK'  OBVIOUS
<1>1. Own \in StreamIds  BY DEF StreamIds
<1>2. engine' \in [Uids -> Engine]
  BY <1>1, RecordTypes DEF BindTypeOK, ForceTx
<1> QED  BY <1>1, <1>2 DEF BindTypeOK, ForceTx

LEMMA IdleBindTypes == BindTypeOK /\ UNCHANGED bindVars => BindTypeOK'
BY DEF BindTypeOK, bindVars

LEMMA ReplyTypes ==
    ASSUME TypeOK, NEW c, NEW st \in Statuses
    PROVE  /\ c \in Cmds => Answered(c, st) \in Statuses
           /\ Respond(c, st) => reply' \in [Cmds -> Statuses]
<1>1. c \in Cmds => Answered(c, st) \in Statuses
  BY DEF Answered, Statuses
<1>2. Respond(c, st) => reply' \in [Cmds -> Statuses]
  BY <1>1 DEF TypeOK, Respond
<1> QED  BY <1>1, <1>2

LEMMA ListenerTypes ==
    ASSUME TypeOK, NEW u \in Uids
    PROVE  /\ \A sid \in Streams \cup {NoStream}, out \in Streams \cup {NoStream} :
                 Connected(u, sid, out) \in Listener
           /\ \A s \in Streams : Learned(lst[u], s) \in Listener
           /\ Completed(resolves[u]) \in Resolve
<1>1. lst[u] \in Listener /\ resolves[u] \in Resolve  BY DEF TypeOK
<1>2. \A sid \in Streams \cup {NoStream}, out \in Streams \cup {NoStream} :
         Connected(u, sid, out) \in Listener
  BY <1>1 DEF Connected, Listener
<1>3. \A s \in Streams : Learned(lst[u], s) \in Listener
  BY <1>1 DEF Learned, Listener
<1>4. Completed(resolves[u]) \in Resolve
  BY <1>1 DEF Completed, Resolve
<1> QED  BY <1>2, <1>3, <1>4

LEMMA RefusedKeepsTypes ==
    ASSUME TypeOK, NEW c \in Cmds, ConnectRxRefused(c)
    PROVE  TypeOK'
<1>1. reply' \in [Cmds -> Statuses]
  BY ReplyTypes DEF ConnectRxRefused, Statuses
<1> QED  BY <1>1, IdleBindTypes DEF TypeOK, TalkerKnown, ConnectRxRefused, Receive

LEMMA SlowKeepsTypes ==
    ASSUME TypeOK, NEW c \in Cmds, NEW u \in Uids, NEW out \in Streams, ConnectRxSlow(c, u, out)
    PROVE  TypeOK'
<1>1. BindTypeOK'  BY IdleBindTypes DEF TypeOK, ConnectRxSlow
<1>2. [active |-> TRUE, seq |-> nextSeq, cmd |-> c, out |-> out, age |-> 0] \in Resolve
  BY AcmpAssumption DEF TypeOK, Resolve
<1>3. resolves' \in [Uids -> Resolve]
  BY <1>2 DEF TypeOK, ConnectRxSlow
<1>4. nextSeq' \in Nat /\ wire' \subseteq [seq : Nat, out : Streams]
  BY DEF TypeOK, ConnectRxSlow, AfterSeq
<1>5. wanted' \in [Uids -> BOOLEAN] /\ taken' \subseteq Cmds
  BY DEF TypeOK, ConnectRxSlow, Receive
<1>6. TalkerKnown'
  BY DEF TypeOK, TalkerKnown, ConnectRxSlow
<1> QED  BY <1>1, <1>3, <1>4, <1>5, <1>6 DEF TypeOK, ConnectRxSlow

LEMMA FastKeepsTypes ==
    ASSUME TypeOK, NEW c \in Cmds, NEW u \in Uids, NEW out \in Streams,
           NEW sid \in Streams \cup {NoStream}, NEW mac \in Macs \cup {NoMac},
           ConnectRxFast(c, u, out, sid, mac)
    PROVE  TypeOK'
<1>1. BindTypeOK'
  BY ConnectKeepsTypes DEF TypeOK, ConnectRxFast
<1>2. lst' \in [Uids -> Listener]
  BY ListenerTypes DEF TypeOK, ConnectRxFast
<1>3. reply' \in [Cmds -> Statuses]
  BY ReplyTypes DEF ConnectRxFast, Statuses
<1>4. wanted' \in [Uids -> BOOLEAN] /\ taken' \subseteq Cmds
  BY DEF TypeOK, ConnectRxFast, Receive
<1>5. TalkerKnown'
  <2>1. lst' = [lst EXCEPT ![u] = Connected(u, sid, out)] /\ resolves' = resolves
    BY DEF ConnectRxFast
  <2>2. Connected(u, sid, out).out = out  BY DEF Connected
  <2>3. \A v \in Uids : lst'[v] = lst[v] \/ lst'[v].out = out
    BY <2>1, <2>2 DEF TypeOK
  <2> QED  BY <2>1, <2>3 DEF TypeOK, TalkerKnown
<1>6. given' \in Macs \cup {NoMac}
  BY DEF TypeOK, ConnectRxFast, Given
<1> QED  BY <1>1, <1>2, <1>3, <1>4, <1>5, <1>6 DEF TypeOK, ConnectRxFast

LEMMA ResponseKeepsTypes ==
    ASSUME TypeOK, NEW u \in Uids, NEW w \in wire, NEW st \in {"success", "failure"},
           ConnectTxResponse(u, w, st)
    PROVE  TypeOK'
<1>1. w.out \in Streams /\ resolves[u].out \in Streams \cup {NoStream}
  BY DEF TypeOK, Resolve
<1>2. DestOf[w.out] \in Macs
  BY <1>1, BindingsAssumption
<1>3. BindTypeOK' /\ lst' \in [Uids -> Listener]
  <2>1. CASE Grants(st)
    BY <1>1, <1>2, <2>1, ConnectKeepsTypes, ListenerTypes DEF TypeOK, ConnectTxResponse
  <2>2. CASE ~ Grants(st)
    BY <2>2, IdleBindTypes DEF TypeOK, ConnectTxResponse, listenVars, talkVars, bindVars
  <2> QED  BY <2>1, <2>2
<1>4. reply' \in [Cmds -> Statuses]
  BY ReplyTypes DEF ConnectTxResponse, Statuses
<1>5. resolves' \in [Uids -> Resolve]
  BY ListenerTypes DEF TypeOK, ConnectTxResponse
<1>6. \A v \in Uids : v # u => lst'[v] = lst[v] /\ resolves'[v] = resolves[v]
  BY DEF TypeOK, ConnectTxResponse
<1>7. ~ resolves'[u].active
  BY DEF TypeOK, Resolve, ConnectTxResponse, Completed
<1>8. lst'[u].connected => lst'[u].out \in Streams
  <2>1. resolves[u].out \in Streams
    BY DEF TypeOK, TalkerKnown, ConnectTxResponse, Matches, Carriers
  <2>2. CASE Grants(st)
    <3>1. lst'[u] = Connected(u, w.out, resolves[u].out)
      BY <2>2 DEF TypeOK, ConnectTxResponse
    <3> QED  BY <2>1, <3>1 DEF Connected
  <2>3. CASE ~ Grants(st)
    BY <2>3 DEF TypeOK, TalkerKnown, ConnectTxResponse
  <2> QED  BY <2>2, <2>3
<1>9. TalkerKnown'
  BY <1>6, <1>7, <1>8 DEF TypeOK, TalkerKnown
<1>10. given' \in Macs \cup {NoMac}
  BY <1>2 DEF TypeOK, ConnectTxResponse, Given
<1> QED  BY <1>3, <1>4, <1>5, <1>9, <1>10 DEF TypeOK, ConnectTxResponse

LEMMA DisconnectRxKeepsTypes ==
    ASSUME TypeOK, NEW u \in Uids, DisconnectRx(u)
    PROVE  TypeOK'
<1>1. BindTypeOK'
  BY DisconnectKeepsTypes DEF TypeOK, DisconnectRx
<1>2. \A n \in Nat : Decrement(n) \in Nat  BY DEF Decrement
<1>3. lst' \in [Uids -> Listener]
  BY <1>2 DEF TypeOK, DisconnectRx, Listener
<1>4. TalkerKnown'
  <2>1. ~ lst'[u].connected /\ \A v \in Uids : v # u => lst'[v] = lst[v]
    BY DEF TypeOK, Listener, DisconnectRx
  <2> QED  BY <2>1 DEF TypeOK, TalkerKnown, DisconnectRx
<1> QED  BY <1>1, <1>3, <1>4 DEF TypeOK, DisconnectRx

LEMMA TimeKeepsTypes ==
    ASSUME TypeOK, AvdeccPoll \/ CrfRebootstrap \/ Tick
    PROVE  TypeOK'
<1>1. BindTypeOK'
  BY IdleBindTypes DEF TypeOK, AvdeccPoll, CrfRebootstrap, Tick
<1>2. CASE AvdeccPoll
  <2>1. reply' \in [Cmds -> Statuses]
    BY <1>2, ReplyTypes DEF TypeOK, AvdeccPoll, Statuses
  <2>2. resolves' \in [Uids -> Resolve]
    BY <1>2, ListenerTypes DEF TypeOK, AvdeccPoll
  <2>3. TalkerKnown'
    BY <1>2 DEF TypeOK, TalkerKnown, Resolve, AvdeccPoll, Completed
  <2> QED  BY <1>1, <1>2, <2>1, <2>2, <2>3 DEF TypeOK, AvdeccPoll
<1>3. CASE Tick
  <2>1. \A r \in Resolve : r.age < RESOLVE_TIMEOUT => [r EXCEPT !.age = r.age + 1] \in Resolve
    BY AcmpAssumption DEF Resolve
  <2>2. resolves' \in [Uids -> Resolve]
    BY <1>3, <2>1 DEF TypeOK, Tick
  <2>3. TalkerKnown'
    BY <1>3 DEF TypeOK, TalkerKnown, Resolve, Tick
  <2> QED  BY <1>1, <1>3, <2>2, <2>3 DEF TypeOK, Tick
<1>4. CASE CrfRebootstrap
  <2>1. lst["CRF"].out \in Streams
    <3>1. lst["CRF"].connected  BY <1>4 DEF CrfRebootstrap
    <3> QED  BY <3>1, UidFacts DEF TypeOK, TalkerKnown
  <2>2. nextSeq' \in Nat /\ wire' \subseteq [seq : Nat, out : Streams]
    BY <1>4, <2>1 DEF TypeOK, CrfRebootstrap, AfterSeq
  <2> QED  BY <1>1, <1>4, <2>2 DEF TypeOK, TalkerKnown, CrfRebootstrap
<1> QED  BY <1>2, <1>3, <1>4

LEMMA TalkerAdvertiseKeepsTypes ==
    ASSUME TypeOK, NEW s \in Streams, TalkerAdvertise(s)
    PROVE  TypeOK'
<1>1. BindTypeOK'
  BY AdvertiseKeepsTypes DEF TypeOK, TalkerAdvertise
<1>2. lst' \in [Uids -> Listener]
  BY ListenerTypes DEF TypeOK, TalkerAdvertise
<1>3. \A u \in Uids : lst'[u].connected = lst[u].connected /\ lst'[u].out = lst[u].out
  BY DEF TypeOK, Listener, TalkerAdvertise, Learned
<1>4. TalkerKnown'
  BY <1>3 DEF TypeOK, TalkerKnown, TalkerAdvertise
<1> QED  BY <1>1, <1>2, <1>4 DEF TypeOK, TalkerAdvertise

LEMMA TalkerSideKeepsTypes ==
    ASSUME TypeOK, ConnectTx \/ DisconnectTx \/ DomainChange \/ Operator
    PROVE  TypeOK'
<1>1. CASE ConnectTx
  BY <1>1, TalkKeepsTypes DEF TypeOK, TalkerKnown, ConnectTx, rxVars
<1>2. CASE DisconnectTx
  <2>1. tlk' \in [connected : BOOLEAN, count : Nat]
    BY <1>2 DEF TypeOK, DisconnectTx, Decrement
  <2> QED  BY <1>2, <2>1, TalkKeepsTypes DEF TypeOK, TalkerKnown, DisconnectTx, rxVars
<1>3. CASE DomainChange
  BY <1>3, TalkKeepsTypes DEF TypeOK, TalkerKnown, DomainChange, rxVars
<1>4. CASE UartForceTx
  BY <1>4, ForceTxKeepsTypes DEF TypeOK, TalkerKnown, UartForceTx, rxVars
<1>5. CASE UartStopTx
  BY <1>5, TalkKeepsTypes DEF TypeOK, TalkerKnown, UartStopTx, rxVars
<1>6. CASE UartForceClear
  <2>1. IdleListener \in Listener  BY DEF IdleListener, Listener
  <2>2. TalkerKnown'
    <3>1. \A u \in Uids : lst'[u] = IdleListener  BY <1>6 DEF UartForceClear
    <3>2. ~ IdleListener.connected  BY DEF IdleListener
    <3> QED  BY <1>6, <3>1, <3>2 DEF TypeOK, TalkerKnown, UartForceClear
  <2> QED  BY <1>6, <2>1, <2>2, ClearKeepsTypes DEF TypeOK, UartForceClear
<1> QED  BY <1>1, <1>2, <1>3, <1>4, <1>5, <1>6 DEF Operator

LEMMA InitTypes == Init => TypeOK
<1> SUFFICES ASSUME Init PROVE TypeOK  OBVIOUS
<1>1. BindTypeOK
  BY DEF Init, BindInit, BindTypeOK, Parked, Engine, Declared, MatchKey, StreamIds
<1>2. IdleListener \in Listener /\ IdleResolve \in Resolve
  BY AcmpAssumption DEF IdleListener, Listener, IdleResolve, Resolve
<1>3. TalkerKnown
  BY DEF Init, TalkerKnown, IdleListener, IdleResolve
<1> QED  BY <1>1, <1>2, <1>3 DEF Init, TypeOK, Statuses

LEMMA StepTypes == TypeOK /\ [Next]_vars => TypeOK'
<1> SUFFICES ASSUME TypeOK, [Next]_vars PROVE TypeOK'  OBVIOUS
<1>1. CASE Controller
  <2>1. ASSUME NEW c \in Cmds, ConnectRxRefused(c) PROVE TypeOK'
    BY <2>1, RefusedKeepsTypes
  <2>2. ASSUME NEW c \in Cmds, NEW u \in Uids, NEW s \in Streams, ConnectRx(c, u, s)
        PROVE  TypeOK'
    <3>1. CASE ConnectRxSlow(c, u, s)  BY <3>1, SlowKeepsTypes
    <3>2. ASSUME NEW mac \in SavedMacs \cup {NoMac, DestOf[s]}, ConnectRxFast(c, u, s, s, mac)
          PROVE  TypeOK'
      <4>1. mac \in Macs \cup {NoMac}  BY AcmpAssumption, BindingsAssumption
      <4> QED  BY <3>2, <4>1, FastKeepsTypes
    <3>3. ASSUME NEW mac \in SavedMacs, ConnectRxFast(c, u, s, NoStream, mac) PROVE TypeOK'
      <4>1. mac \in Macs  BY AcmpAssumption
      <4> QED  BY <3>3, <4>1, FastKeepsTypes
    <3> QED  BY <2>2, <3>1, <3>2, <3>3 DEF ConnectRx
  <2>3. ASSUME NEW u \in Uids, DisconnectRx(u) PROVE TypeOK'
    BY <2>3, DisconnectRxKeepsTypes
  <2> QED  BY <1>1, <2>1, <2>2, <2>3 DEF Controller
<1>2. CASE Network
  BY <1>2, ResponseKeepsTypes, TalkerAdvertiseKeepsTypes, TalkerSideKeepsTypes DEF Network
<1>3. CASE AvdeccPoll \/ CrfRebootstrap \/ Tick  BY <1>3, TimeKeepsTypes
<1>4. CASE Operator  BY <1>4, TalkerSideKeepsTypes
<1>5. CASE UNCHANGED vars
  BY <1>5, IdleBindTypes DEF TypeOK, TalkerKnown, vars, rxVars
<1> QED  BY <1>1, <1>2, <1>3, <1>4, <1>5 DEF Next

(* Every field of the endpoint holds a value of its kind, for every set of
   streams, talkers, addresses and commands. *)
THEOREM TypeCorrect == Spec => []TypeOK
BY InitTypes, StepTypes, PTL DEF Spec
=============================================================================
