------------------------------ MODULE Bindings ------------------------------
(***************************************************************************)
(* The glue of firmware/main.c: what a connection granted by ACMP does to  *)
(* the engines that move the media.  Two stream inputs (CRF, AAF) each own *)
(* a receive engine; all inputs share ONE MSRP listener attribute; the AAF *)
(* engine shares its stream_id field with the transmit side.  The module   *)
(* defines the callbacks as action fragments; Acmp composes them with the  *)
(* protocol handlers that call them.                                       *)
(***************************************************************************)
EXTENDS Naturals, FiniteSets

CONSTANTS
    Streams,   \* stream outputs of the remote talkers (a talker_id with a talker_uid)
    Talkers,   \* remote talker entities
    Macs,      \* stream destination addresses
    NoStream,  \* the all-zero stream_id
    NoMac,     \* the all-zero address
    Own,       \* the stream_id of our own talker
    OwnerOf,   \* the talker entity a stream output belongs to
    DestOf,    \* the destination address a stream is sent to
    EidMatch   \* pairs <<saved talker, advertiser>> that dest_or_eid_match equates

ASSUME BindingsAssumption ==
    /\ NoStream \notin Streams /\ Own \notin Streams /\ Own # NoStream
    /\ NoMac \notin Macs
    /\ OwnerOf \in [Streams -> Talkers]
    /\ DestOf \in [Streams -> Macs]
    /\ EidMatch \subseteq Talkers \X Talkers
    /\ \A t \in Talkers : <<t, t>> \in EidMatch

VARIABLES
    pending,   \* pending_listeners[]: parked FAST_CONNECT bindings
    engine,    \* mcr.{bound,stream_id} and aaf.{bound,stream_id}
    srpL,      \* srp.{listener_enabled, listener_stream_id}: the one listener attribute
    filter,    \* AVTP extractor slot 0: enable and match key
    srpT,      \* srp.talker_enabled
    txOn,      \* aaf.tx_enabled
    gw         \* the gateware packetizer: enable and the stream id last pushed to it

listenVars == <<pending, engine, srpL, filter>>
talkVars   == <<srpT, txOn, gw>>
bindVars   == <<pending, engine, srpL, filter, srpT, txOn, gw>>

Uids == {"CRF", "AAF"}
StreamIds == Streams \cup {Own, NoStream}

Parked   == [active : BOOLEAN, mac : Macs \cup {NoMac}, out : Streams \cup {NoStream}]
Engine   == [bound : BOOLEAN, sid : StreamIds]
Declared == [enabled : BOOLEAN, sid : StreamIds]
MatchKey == [en : BOOLEAN, sid : StreamIds, mac : Macs \cup {NoMac}]

BindTypeOK ==
    /\ pending \in [Uids -> Parked]
    /\ engine \in [Uids -> Engine]
    /\ srpL \in Declared
    /\ filter \in MatchKey
    /\ srpT \in BOOLEAN
    /\ txOn \in BOOLEAN
    /\ gw \in [on : BOOLEAN, sid : StreamIds]

BindInit ==
    /\ pending = [u \in Uids |-> [active |-> FALSE, mac |-> NoMac, out |-> NoStream]]
    /\ engine = [u \in Uids |-> [bound |-> FALSE, sid |-> IF u = "AAF" THEN Own ELSE NoStream]]
    /\ srpL = [enabled |-> FALSE, sid |-> NoStream]
    /\ filter = [en |-> FALSE, sid |-> NoStream, mac |-> NoMac]
    /\ srpT = FALSE
    /\ txOn = FALSE
    /\ gw = [on |-> FALSE, sid |-> NoStream]

-----------------------------------------------------------------------------
(* srp_listener_enable: enabling overwrites the single attribute; disabling
   only drops the flag, whichever stream the caller names. *)
SrpListenerOn(sid) == srpL' = [enabled |-> TRUE, sid |-> sid]

SrpListenerOff_Forgotten == UNCHANGED srpL  \* fault: the declaration outlives the binding
SrpListenerOff == srpL' = [srpL EXCEPT !.enabled = FALSE]

(* mcr_bind and aaf_bind: the engine's stream_id is overwritten. *)
Bound(sid) == [bound |-> TRUE, sid |-> sid]

Unparked_Kept(p) == p  \* fault: a parked binding survives
Unparked(p) == [p EXCEPT !.active = FALSE]

(* avtp_filter_set_slot, which only the AAF input has in hardware. *)
FilterFor_OldAddress(u, sid, mac) ==  \* fault: the address registers are not written
    IF u = "AAF" THEN [filter EXCEPT !.en = TRUE, !.sid = sid] ELSE filter
FilterFor(u, sid, mac) ==
    IF u = "AAF" THEN [en |-> TRUE, sid |-> sid, mac |-> mac] ELSE filter

(* on_listener_connect *)
OnListenerConnect(u, sid, mac, out) ==
    \/ /\ sid = NoStream
       /\ pending' = [pending EXCEPT ![u] = [active |-> TRUE, mac |-> mac, out |-> out]]
       /\ UNCHANGED <<engine, srpL, filter>>
    \/ /\ sid # NoStream
       /\ pending' = [pending EXCEPT ![u] = Unparked(@)]
       /\ SrpListenerOn(sid)
       /\ engine' = [engine EXCEPT ![u] = Bound(sid)]
       /\ filter' = FilterFor(u, sid, mac)

(* on_listener_disconnect *)
OnListenerDisconnect(u) ==
    /\ pending' = [pending EXCEPT ![u] = Unparked(@)]
    /\ IF engine[u].bound THEN SrpListenerOff ELSE UNCHANGED srpL
    /\ engine' = [engine EXCEPT ![u].bound = FALSE]
    /\ filter' = IF u = "AAF" THEN [filter EXCEPT !.en = FALSE] ELSE filter

(* dest_or_eid_match: the saved address, or else the saved talker entity id. *)
AdvertMatches(p, s) ==
    /\ p.active
    /\ \/ p.mac # NoMac /\ p.mac = DestOf[s]
       \/ <<OwnerOf[p.out], OwnerOf[s]>> \in EidMatch

(* on_talker_advertise: every parked input the advertise matches is bound.
   The filter is keyed with the SAVED address. *)
Learners_First(s) ==  \* fault: the loop ends at the first match
    IF AdvertMatches(pending["CRF"], s) THEN {"CRF"}
    ELSE {u \in Uids : AdvertMatches(pending[u], s)}
Learners(s) == {u \in Uids : AdvertMatches(pending[u], s)}

OnTalkerAdvertise(s) ==
    /\ pending' = [u \in Uids |-> IF u \in Learners(s)
                                  THEN Unparked(pending[u]) ELSE pending[u]]
    /\ engine' = [u \in Uids |-> IF u \in Learners(s) THEN Bound(s) ELSE engine[u]]
    /\ IF Learners(s) # {} THEN SrpListenerOn(s) ELSE UNCHANGED srpL
    /\ filter' = IF "AAF" \in Learners(s)
                 THEN FilterFor("AAF", s, pending["AAF"].mac) ELSE filter

(* The binding part of the console command 'D'. *)
ForceClearBindings ==
    /\ pending' = [u \in Uids |-> Unparked(pending[u])]
    /\ IF \E u \in Uids : engine[u].bound THEN SrpListenerOff ELSE UNCHANGED srpL
    /\ engine' = [u \in Uids |-> [engine[u] EXCEPT !.bound = FALSE]]
    /\ UNCHANGED filter

-----------------------------------------------------------------------------
(* on_talker_connect: aaf_tx_enable, srp_talker_enable, aaf_gw_set(1), which
   pushes the stream id the AAF engine holds at that moment. *)
OnTalkerConnect ==
    /\ txOn' = TRUE
    /\ srpT' = TRUE
    /\ gw' = [on |-> TRUE, sid |-> engine["AAF"].sid]

(* on_talker_disconnect, and the console command 'T'. *)
OnTalkerDisconnect ==
    /\ gw' = [gw EXCEPT !.on = FALSE]
    /\ txOn' = FALSE
    /\ srpT' = FALSE

(* The main loop's VLAN sync: a changed SR domain pushes the binding again. *)
VlanSync ==
    /\ gw.on
    /\ gw' = [gw EXCEPT !.sid = engine["AAF"].sid]
    /\ UNCHANGED <<srpT, txOn>>

(* The console command 't' binds the AAF engine to our own stream. *)
ForceTx ==
    /\ engine' = [engine EXCEPT !["AAF"] = Bound(Own)]
    /\ txOn' = TRUE
    /\ srpT' = TRUE
    /\ gw' = [on |-> TRUE, sid |-> Own]
    /\ UNCHANGED <<pending, srpL, filter>>
=============================================================================
