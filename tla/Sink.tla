-------------------------------- MODULE Sink --------------------------------
(***************************************************************************)
(* What a controller may rely on when it connects stream inputs, without   *)
(* sequence ids, engines, parked records and the clock: every command gets *)
(* at most one answer; an input changes in the very step that answers      *)
(* success, to the stream that was asked for; failure changes nothing; a   *)
(* saved binding waits for a stream and then receives it.  Acmp implements *)
(* it.                                                                     *)
(***************************************************************************)
EXTENDS Naturals

CONSTANTS
    Inputs, Cmds, Streams,
    Duplex,   \* the input whose engine the operator may take for sending
    Own,      \* the stream it then holds
    Nobody    \* the command of an input that asks no talker

VARIABLES
    sink,    \* what each input does
    query,   \* the command an input asks a talker for, and the stream
    late,    \* streams whose answers can be taken for those of another query
    answer   \* of every command: not yet sent, waited for, or what was answered

vars == <<sink, query, late, answer>>

Idle == [does |-> "idle"]
Awaits(ss) == [does |-> "awaits", any |-> ss]
Plays(s) == [does |-> "plays", it |-> s]

NoQuery == [cmd |-> Nobody]
Asks(c, s) == [cmd |-> c, for |-> s]
Asking == {u \in Inputs : query[u] # NoQuery}

Init ==
    /\ sink = [u \in Inputs |-> Idle]
    /\ query = [u \in Inputs |-> NoQuery]
    /\ late = {}
    /\ answer = [c \in Cmds |-> "new"]

Becomes(c, from, to) == answer[c] = from /\ answer' = [answer EXCEPT ![c] = to]
Turns(u, what) == sink' = [sink EXCEPT ![u] = what]

Refuse(c) == Becomes(c, "new", "failure") /\ UNCHANGED <<sink, query>>

(* A later command takes over the query of its input: the earlier one waits. *)
Ask(c, u, s) ==
    /\ Becomes(c, "new", "waiting")
    /\ query' = [query EXCEPT ![u] = Asks(c, s)]
    /\ UNCHANGED sink

Grant(c, u, what) == Becomes(c, "new", "success") /\ Turns(u, what) /\ UNCHANGED query

Answer(u, status) ==
    /\ u \in Asking
    /\ Becomes(query[u].cmd, "waiting", status)
    /\ IF status = "success"
       THEN \E s \in {query[u].for} \cup late : Turns(u, Plays(s))
       ELSE UNCHANGED sink
    /\ query' = [query EXCEPT ![u] = NoQuery]

GiveUp(us) ==
    /\ \A u \in us : answer[query[u].cmd] = "waiting"
    /\ answer' = [c \in Cmds |-> IF \E u \in us : query[u].cmd = c THEN "failure" ELSE answer[c]]
    /\ query' = [u \in Inputs |-> IF u \in us THEN NoQuery ELSE query[u]]
    /\ UNCHANGED sink

Disconnect(u) == Turns(u, Idle) /\ UNCHANGED <<query, answer>>

(* The stream appears: every input that waits for it receives it. *)
Appear(s) ==
    /\ sink' = [u \in Inputs |-> IF sink[u].does = "awaits" /\ s \in sink[u].any
                                 THEN Plays(s) ELSE sink[u]]
    /\ UNCHANGED <<query, answer>>

(* The operator takes the engine of a playing input, or clears every input. *)
Take ==
    /\ sink[Duplex].does = "plays" /\ Turns(Duplex, Plays(Own))
    /\ UNCHANGED <<query, answer>>
Clear == sink' = [u \in Inputs |-> Idle] /\ UNCHANGED <<query, answer>>

Serve ==
    \/ \E c \in Cmds : Refuse(c)
    \/ \E c \in Cmds, u \in Inputs, s \in Streams : Ask(c, u, s) \/ Grant(c, u, Plays(s))
    \/ \E c \in Cmds, u \in Inputs, ss \in (SUBSET Streams) \ {{}} : Grant(c, u, Awaits(ss))
    \/ \E u \in Inputs, status \in {"success", "failure"} : Answer(u, status)
    \/ \E us \in SUBSET Asking : GiveUp(us)
    \/ \E u \in Inputs : Disconnect(u)
    \/ \E s \in Streams : Appear(s)
    \/ Take \/ Clear

(* Requests grow old beside whatever else happens. *)
Next == late \subseteq late' /\ (UNCHANGED <<sink, query, answer>> \/ Serve)

Spec == Init /\ [][Next]_vars
=============================================================================
