-------------------------------- MODULE Acmp --------------------------------
(***************************************************************************)
(* The ACMP engine of firmware/avdecc.c composed with the callbacks of     *)
(* firmware/main.c (module Bindings).  Handlers run to completion on one   *)
(* thread, so each is one action that includes the callback it makes; what *)
(* interleaves is the order of frames, polls and the passage of time.  The *)
(* network may lose, delay, repeat and reorder the talkers' responses.     *)
(***************************************************************************)
EXTENDS Bindings

CONSTANTS
    Cmds,            \* CONNECT_RX_COMMANDs (a controller with its sequence_id)
    SavedMacs,       \* addresses a controller may hold for a stream: its own or another
    Console,         \* console commands that may be typed: a subset of {"t","T","D"}
    SEQ,             \* how many values the uint16_t next_acmp_seq has (2^16)
    MaxSeq,          \* bound: next_acmp_seq is taken at most this often
    MaxCount,        \* bound: CONNECT_TX_COMMANDs counted at once
    RESOLVE_TIMEOUT  \* ticks until a slow-path query is given up (1500 ms)

ASSUME AcmpAssumption ==
    /\ SavedMacs \subseteq Macs
    /\ Console \subseteq {"t", "T", "D"}
    /\ MaxSeq \in Nat /\ MaxCount \in Nat
    /\ SEQ \in Nat \ {0}
    /\ RESOLVE_TIMEOUT \in Nat \ {0}

VARIABLES
    lst,       \* listeners[]: what AVDECC reports for each stream input
    resolves,  \* resolves[]: the slow-path query in progress for each input
    nextSeq,   \* how often next_acmp_seq was taken: its value, before it wraps
    wire,      \* CONNECT_TX_COMMANDs sent, each answerable any number of times
    taken,     \* history: CONNECT_RX_COMMANDs received
    reply,     \* history: the CONNECT_RX_RESPONSE each of them got
    wanted,    \* history: the controllers' last word on each input was CONNECT_RX
    given,     \* history: the address given with the AAF input's last connection
    tlk        \* talkers[0]: connected and connection_count

rxVars   == <<lst, resolves, nextSeq, wire, taken, reply, wanted, given>>
vars     == <<bindVars, rxVars, tlk>>

NoCmd == "nocmd"
Statuses == {"none", "success", "failure", "twice"}

Listener == [connected : BOOLEAN, sid : Streams \cup {NoStream},
             out : Streams \cup {NoStream}, count : Nat]
Resolve  == [active : BOOLEAN, seq : Nat, cmd : Cmds \cup {NoCmd},
             out : Streams \cup {NoStream}, age : 0..RESOLVE_TIMEOUT]

(* What is connected, and what is being queried, names a talker. *)
TalkerKnown ==
    \A u \in Uids :
        /\ lst[u].connected => lst[u].out \in Streams
        /\ resolves[u].active => resolves[u].out \in Streams

TypeOK ==
    /\ BindTypeOK
    /\ TalkerKnown
    /\ lst \in [Uids -> Listener]
    /\ resolves \in [Uids -> Resolve]
    /\ nextSeq \in Nat
    /\ wire \subseteq [seq : Nat, out : Streams]
    /\ taken \subseteq Cmds
    /\ reply \in [Cmds -> Statuses]
    /\ wanted \in [Uids -> BOOLEAN]
    /\ given \in Macs \cup {NoMac}
    /\ tlk \in [connected : BOOLEAN, count : Nat]

IdleListener == [connected |-> FALSE, sid |-> NoStream, out |-> NoStream, count |-> 0]
IdleResolve  == [active |-> FALSE, seq |-> 0, cmd |-> NoCmd, out |-> NoStream, age |-> 0]

Init ==
    /\ BindInit
    /\ lst = [u \in Uids |-> IdleListener]
    /\ resolves = [u \in Uids |-> IdleResolve]
    /\ nextSeq = 0
    /\ wire = {}
    /\ taken = {}
    /\ reply = [c \in Cmds |-> "none"]
    /\ wanted = [u \in Uids |-> FALSE]
    /\ given = NoMac
    /\ tlk = [connected |-> FALSE, count |-> 0]

-----------------------------------------------------------------------------
Decrement(n) == IF n > 0 THEN n - 1 ELSE n

Completed_StillActive(r) == r  \* fault: r->active = 0 forgotten
Completed(r) == [r EXCEPT !.active = FALSE]

(* The 16-bit id a request carries: the requests are counted here, and ids repeat
   every SEQ requests. *)
AfterSeq(n) == n + 1
SeqId(n) == n % SEQ

(* A response to command c leaves the endpoint. *)
Answered(c, status) == IF reply[c] = "none" THEN status ELSE "twice"
Respond(c, status) == reply' = [reply EXCEPT ![c] = Answered(c, status)]

(* The fields a granted connection writes. *)
Connected(u, sid, out) ==
    [connected |-> TRUE, sid |-> sid, out |-> out, count |-> lst[u].count + 1]

Given(u, mac) == given' = IF u = "AAF" THEN mac ELSE given

Receive(c) == c \in Cmds \ taken /\ taken' = taken \cup {c}

(* acmp_handle_connect_rx, the two early refusals: listener_unique_id out of
   range, or no talker_id to connect to. *)
ConnectRxRefused(c) ==
    /\ Receive(c)
    /\ Respond(c, "failure")
    /\ UNCHANGED <<bindVars, lst, resolves, nextSeq, wire, wanted, given, tlk>>

(* acmp_handle_connect_rx, slow path: no stream_id and no address.  Ask the
   talker; the response is deferred.  The input's resolve slot is overwritten. *)
ConnectRxSlow(c, u, out) ==
    /\ nextSeq < MaxSeq
    /\ Receive(c)
    /\ resolves' = [resolves EXCEPT ![u] =
          [active |-> TRUE, seq |-> nextSeq, cmd |-> c, out |-> out, age |-> 0]]
    /\ nextSeq' = AfterSeq(nextSeq)
    /\ wire' = wire \cup {[seq |-> nextSeq, out |-> out]}
    /\ wanted' = [wanted EXCEPT ![u] = TRUE]
    /\ UNCHANGED <<bindVars, lst, reply, given, tlk>>

(* acmp_handle_connect_rx, fast path: the controller names the stream, whatever
   address comes with it, or restores a saved address without a stream_id. *)
ConnectRxFast(c, u, out, sid, mac) ==
    /\ Receive(c)
    /\ lst' = [lst EXCEPT ![u] = Connected(u, sid, out)]
    /\ OnListenerConnect(u, sid, mac, out)
    /\ Given(u, mac)
    /\ Respond(c, "success")
    /\ wanted' = [wanted EXCEPT ![u] = TRUE]
    /\ UNCHANGED <<talkVars, resolves, nextSeq, wire, tlk>>

ConnectRx(c, u, out) ==
    \/ ConnectRxSlow(c, u, out)
    \/ \E mac \in SavedMacs \cup {NoMac, DestOf[out]} : ConnectRxFast(c, u, out, out, mac)
    \/ \E mac \in SavedMacs : ConnectRxFast(c, u, out, NoStream, mac)

(* acmp_handle_connect_tx_response: only the first query in progress with this
   sequence_id is completed; the deferred response carries the talker's status. *)
Carriers(w) == {u \in Uids : resolves[u].active /\ SeqId(resolves[u].seq) = SeqId(w.seq)}

Matches_AnySeq(u, w) == resolves[u].active  \* fault: sequence_id not compared
Matches(u, w) == u \in Carriers(w) /\ (u = "CRF" \/ "CRF" \notin Carriers(w))

Grants_Always(status) == TRUE  \* fault: bind before the status is looked at
Grants(status) == status = "success"

ConnectTxResponse(u, w, status) ==
    /\ Matches(u, w)
    /\ IF Grants(status)
       THEN /\ lst' = [lst EXCEPT ![u] = Connected(u, w.out, resolves[u].out)]
            /\ OnListenerConnect(u, w.out, DestOf[w.out], resolves[u].out)
            /\ Given(u, DestOf[w.out])
       ELSE UNCHANGED <<lst, listenVars, given>>
    /\ Respond(resolves[u].cmd, status)
    /\ resolves' = [resolves EXCEPT ![u] = Completed(@)]
    /\ UNCHANGED <<talkVars, nextSeq, wire, taken, wanted, tlk>>

(* acmp_handle_disconnect_rx *)
DisconnectRx(u) ==
    /\ lst' = [lst EXCEPT ![u].connected = FALSE, ![u].count = Decrement(@)]
    /\ OnListenerDisconnect(u)
    /\ wanted' = [wanted EXCEPT ![u] = FALSE]
    /\ UNCHANGED <<talkVars, resolves, nextSeq, wire, taken, reply, given, tlk>>

(* avdecc_poll, the resolve time-outs of all inputs. *)
Polled_OneShort == {"CRF"}  \* fault: the loop stops one input early
Polled == Uids
Expired == {u \in Polled : resolves[u].active /\ resolves[u].age >= RESOLVE_TIMEOUT}

AvdeccPoll ==
    /\ Expired # {}
    /\ reply' = [c \in Cmds |-> IF \E u \in Expired : resolves[u].cmd = c
                                THEN Answered(c, "failure") ELSE reply[c]]
    /\ resolves' = [u \in Uids |-> IF u \in Expired
                                   THEN Completed(resolves[u]) ELSE resolves[u]]
    /\ UNCHANGED <<bindVars, lst, nextSeq, wire, taken, wanted, given, tlk>>

(* avdecc_crf_flow_watchdog while CRF data is stalled on a connected input: every
   pass of the main loop takes a sequence_id, and some send a CONNECT_TX_COMMAND
   that no resolve slot waits for.  When it stalls is left to the environment. *)
CrfRebootstrap ==
    /\ lst["CRF"].connected
    /\ nextSeq < MaxSeq
    /\ nextSeq' = AfterSeq(nextSeq)
    /\ wire' \in {wire, wire \cup {[seq |-> nextSeq, out |-> lst["CRF"].out]}}
    /\ UNCHANGED <<bindVars, lst, resolves, taken, reply, wanted, given, tlk>>

(* The millisecond clock: ages saturate at the time-out they are compared to. *)
Tick ==
    /\ \E u \in Uids : resolves[u].active /\ resolves[u].age < RESOLVE_TIMEOUT
    /\ resolves' = [u \in Uids |->
          IF resolves[u].active /\ resolves[u].age < RESOLVE_TIMEOUT
          THEN [resolves[u] EXCEPT !.age = @ + 1] ELSE resolves[u]]
    /\ UNCHANGED <<bindVars, lst, nextSeq, wire, taken, reply, wanted, given, tlk>>

Learned_Stale(l, s) == l  \* fault: AVDECC keeps the zero stream_id
Learned(l, s) == [l EXCEPT !.sid = s]

(* srp_process_rx reports a TalkerAdvertise; main.c completes parked inputs. *)
TalkerAdvertise(s) ==
    /\ Learners(s) # {}
    /\ lst' = [u \in Uids |-> IF u \in Learners(s) THEN Learned(lst[u], s) ELSE lst[u]]
    /\ OnTalkerAdvertise(s)
    /\ UNCHANGED <<talkVars, resolves, nextSeq, wire, taken, reply, wanted, given, tlk>>

-----------------------------------------------------------------------------
(* acmp_handle_connect_tx and acmp_handle_disconnect_tx: a remote listener
   starts or stops our talker. *)
ConnectTx ==
    /\ tlk.count < MaxCount
    /\ tlk' = [connected |-> TRUE, count |-> tlk.count + 1]
    /\ OnTalkerConnect
    /\ UNCHANGED <<listenVars, rxVars>>

DisconnectTx ==
    /\ tlk' = [connected |-> FALSE, count |-> Decrement(tlk.count)]
    /\ OnTalkerDisconnect
    /\ UNCHANGED <<listenVars, rxVars>>

DomainChange == VlanSync /\ UNCHANGED <<listenVars, rxVars, tlk>>

(* Console commands of check_uart_cmd. *)
UartForceTx == "t" \in Console /\ ForceTx /\ UNCHANGED <<rxVars, tlk>>
UartStopTx  == "T" \in Console /\ OnTalkerDisconnect /\ UNCHANGED <<listenVars, rxVars, tlk>>
UartForceClear ==
    /\ "D" \in Console
    /\ ForceClearBindings
    /\ lst' = [u \in Uids |-> IdleListener]
    /\ wanted' = [u \in Uids |-> FALSE]
    /\ UNCHANGED <<talkVars, resolves, nextSeq, wire, taken, reply, given, tlk>>

-----------------------------------------------------------------------------
Controller ==
    \/ \E c \in Cmds : ConnectRxRefused(c) \/ \E u \in Uids, s \in Streams : ConnectRx(c, u, s)
    \/ \E u \in Uids : DisconnectRx(u)

Network ==
    \/ \E u \in Uids, w \in wire, st \in {"success", "failure"} : ConnectTxResponse(u, w, st)
    \/ \E s \in Streams : TalkerAdvertise(s)
    \/ ConnectTx \/ DisconnectTx \/ DomainChange

Operator == UartForceTx \/ UartStopTx \/ UartForceClear

Next == Controller \/ Network \/ AvdeccPoll \/ CrfRebootstrap \/ Tick \/ Operator

Spec == Init /\ [][Next]_vars

(* The main loop polls for ever and the clock runs. *)
FairSpec == Spec /\ WF_vars(Tick) /\ WF_vars(AvdeccPoll)

-----------------------------------------------------------------------------
(* The operator's 't' takes the AAF engine away from the listener. *)
Hijacked == engine["AAF"].bound /\ engine["AAF"].sid = Own

(* AVDECC and the engine agree: a connected input is parked, or its engine
   receives the very stream AVDECC reports (avdecc.c bind, main.c callbacks). *)
ConnectedIsServed ==
    \A u \in Uids : lst[u].connected =>
        \/ pending[u].active
        \/ engine[u].bound /\ engine[u].sid = lst[u].sid
        \/ u = "AAF" /\ Hijacked

(* Nothing stays behind: an input that is not connected is neither parked nor
   bound, so no advertise and no frame can revive it (on_listener_disconnect). *)
NothingServedUnasked ==
    \A u \in Uids : ~ lst[u].connected =>
        /\ ~ pending[u].active
        /\ engine[u].bound => u = "AAF" /\ Hijacked

(* The endpoint reserves no bandwidth for a stream it throws away: a declared
   Listener Ready names the stream of a bound engine (srp_listener_enable). *)
ReadyIsReceived ==
    srpL.enabled => \/ Hijacked
                    \/ \E u \in Uids : engine[u].bound /\ engine[u].sid = srpL.sid

(* The extractor passes a frame whose stream_id and address are both its slot's.  A
   bound AAF engine has the slot enabled for its stream, and, once its input is not
   parked again, under the address that stream is sent to whenever that address came
   with the connection, from the controller or the talker: or no sample ever reaches
   the DAC (avtp_filter_set_slot after aaf_bind).  A stream learnt by its entity id for
   another saved address stays silent. *)
AudioIsExtracted ==
    engine["AAF"].bound /\ ~ Hijacked =>
        /\ filter.en /\ filter.sid = engine["AAF"].sid
        /\ ~ pending["AAF"].active /\ given = DestOf[filter.sid] => filter.mac = given

(* A controller never gets two answers to one CONNECT_RX_COMMAND, although a
   talker's answer may be repeated and may race the time-out in avdecc_poll. *)
AtMostOneReply == \A c \in Cmds : reply[c] # "twice" /\ (reply[c] # "none" => c \in taken)

(* Requests and commands of queries in progress are distinct, each command is not yet
   answered, and every request sent asks its query's talker: until an id repeats, a
   talker's response can complete at most the one query it answers. *)
AnswerableOnce ==
    /\ \A u, v \in Uids : resolves[u].active /\ resolves[v].active
            /\ (resolves[u].seq = resolves[v].seq \/ resolves[u].cmd = resolves[v].cmd) => u = v
    /\ \A u \in Uids : resolves[u].active =>
            /\ resolves[u].cmd \in taken /\ reply[resolves[u].cmd] = "none"
            /\ resolves[u].seq < nextSeq
            /\ \A w \in wire : w.seq = resolves[u].seq => w.out = resolves[u].out
    /\ \A w \in wire : w.seq < nextSeq

(* Streams asked for under an id that another request carries too: only an answer
   SEQ or more requests early or late can be taken for another's. *)
Ambiguous == {w.out : w \in {x \in wire : x.seq >= SEQ \/ x.seq + SEQ < nextSeq}}

(* A slow-path answer for an abandoned query never connects an input to it: an
   input is parked for the talker it reports, and the stream it reports is that
   talker's, or sent to the saved address, or its id was repeated. *)
StreamOfItsTalker ==
    \A u \in Uids :
        /\ pending[u].active => pending[u].out = lst[u].out
        /\ lst[u].connected /\ lst[u].sid # NoStream =>
              \/ <<OwnerOf[lst[u].out], OwnerOf[lst[u].sid]>> \in EidMatch
              \/ pending[u].mac = DestOf[lst[u].sid]
              \/ lst[u].sid \in Ambiguous

(* A controller told "failure" finds nothing changed: no binding, no
   reservation (acmp_handle_connect_tx_response, avdecc_poll, the refusals). *)
FailureChangesNothing ==
    [][(\E c \in Cmds : reply[c] = "none" /\ reply'[c] = "failure")
          => UNCHANGED <<lst, listenVars>>]_vars

(* A deferred command is answered, by the talker or by the time-out, unless a
   later command takes over its resolve slot (avdecc_poll). *)
DeferredAnswered ==
    \A c \in Cmds :
        (\E u \in Uids : resolves[u].active /\ resolves[u].cmd = c)
            ~> (reply[c] # "none" \/ \A u \in Uids : resolves[u].cmd # c)

(* srp.c: keep the Listener READY for as long as the listener wants the stream
   (while AVDECC-connected). *)
ReadyWhileConnected ==
    \A u \in Uids : lst[u].connected /\ engine[u].bound =>
        srpL.enabled /\ srpL.sid = engine[u].sid

(* avdecc.c: a stale CONNECT_TX_RESPONSE is silently ignored, so an input the
   controller has disconnected stays disconnected. *)
DisconnectSticks == \A u \in Uids : lst[u].connected => wanted[u]

(* main.c: AAF transmits under the stream_id that AVDECC advertises. *)
TransmitsOwnStream == gw.on => gw.sid = Own

-----------------------------------------------------------------------------
(* What the protocol state says of an input, a query and a command. *)
Awaited(u) == {s \in Streams : AdvertMatches(pending[u], s)}

Sinks == [u \in Uids |-> IF ~ lst[u].connected THEN [does |-> "idle"]
                         ELSE IF pending[u].active THEN [does |-> "awaits", any |-> Awaited(u)]
                         ELSE [does |-> "plays", it |-> engine[u].sid]]

Queries == [u \in Uids |-> IF resolves[u].active
                           THEN [cmd |-> resolves[u].cmd, for |-> resolves[u].out]
                           ELSE [cmd |-> NoCmd]]

Answers == [c \in Cmds |-> IF c \notin taken THEN "new"
                           ELSE IF reply[c] = "none" THEN "waiting" ELSE reply[c]]

S == INSTANCE Sink WITH sink <- Sinks, query <- Queries, answer <- Answers, late <- Ambiguous,
                        Inputs <- Uids, Duplex <- "AAF", Nobody <- NoCmd

(* Requests, sequence ids, time-outs, callbacks and engines together are the connection
   service of Sink: whatever the network does, an input turns to a stream exactly when
   its command is answered with success or when a stream it waits for appears, and to
   the stream that was asked for as long as ids do not repeat. *)
ImplementsSink == S!Spec
=============================================================================
