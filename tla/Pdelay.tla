------------------------------- MODULE Pdelay -------------------------------
(***************************************************************************)
(* The path delay measurement of firmware/gptp.c.  A request that gets no  *)
(* complete answer within the interval is repeated under the same          *)
(* pdelay_seq_id, which only a completed exchange advances.  Any request   *)
(* sent may be answered at any later time, any number of times or never;   *)
(* an answer with another sequence id changes nothing and is no step.      *)
(* The delay that comes of the four stamps is the network's choice.        *)
(***************************************************************************)
EXTENDS Integers

CONSTANTS
    Delays,     \* the delays that the stamps may give
    MAX_DELAY,  \* a sample at or above it is an outlier, 20 us
    INTERVAL,   \* pdelay_interval_ms
    ALLOWED,    \* PDELAY_LOST_RESPONSES_ALLOWED
    SEQ,        \* pdelay_seq_id wraps at it, 2^16
    MaxLag      \* bound: ticks between two polls

ASSUME PdelayAssumption ==
    /\ Delays \subseteq Int /\ MAX_DELAY \in Nat \ {0}
    /\ INTERVAL \in Nat \ {0} /\ ALLOWED \in Nat
    /\ SEQ \in Nat \ (0..2) /\ MaxLag \in Nat \ {0}

VARIABLES
    age,      \* age of last_pdelay_time_ms
    started,  \* pdelay_count # 0
    seq,      \* pdelay_seq_id
    resp,     \* pdelay_resp_received
    fup,      \* pdelay_fup_received
    lost,     \* pdelay_lost_count, not told apart above ALLOWED
    mean,     \* mean_path_delay_ns
    lag,      \* ticks since gptp_poll
    asked,    \* history: the ids of this and of the previous exchange, requests in this one
    of,       \* history: the request that the response at hand answers
    sample    \* history: the requests the last sample is made of, and how many
              \* this exchange has given

vars == <<age, started, seq, resp, fup, lost, mean, lag, asked, of, sample>>

(* A request is the latest one, an earlier one of this exchange, or one of the
   exchange before. *)
Requests == {"latest", "repeated", "past"}
None == -1
Ids == 0..(SEQ - 1)

TypeOK ==
    /\ age \in 0..INTERVAL
    /\ started \in BOOLEAN /\ resp \in BOOLEAN /\ fup \in BOOLEAN
    /\ seq \in Ids
    /\ lost \in 0..(ALLOWED + 1)
    /\ mean \in 0..(MAX_DELAY - 1)
    /\ lag \in 0..MaxLag
    /\ asked \in [cur : Ids \cup {None}, prev : Ids \cup {None}, tries : 0..(ALLOWED + 2)]
    /\ of \in Requests
    /\ sample \in [resp : Requests, fup : Requests, tries : 0..(ALLOWED + 2), times : 0..2]

Older(n, limit) == IF n < limit THEN n + 1 ELSE limit

Init ==
    /\ age = 0 /\ lag = 0
    /\ started = FALSE /\ resp = FALSE /\ fup = FALSE
    /\ seq = 0
    /\ lost = 0
    /\ mean = 0
    /\ asked = [cur |-> None, prev |-> None, tries |-> 0]
    /\ of = "latest"
    /\ sample = [resp |-> "latest", fup |-> "latest", tries |-> 1, times |-> 0]

-----------------------------------------------------------------------------
(* gptp_send_pdelay_req: the flags of the answers are cleared. *)
Cleared(r) == FALSE

SendRequest ==
    /\ resp' = Cleared(resp)
    /\ fup' = FALSE
    /\ age' = 0
    /\ started' = TRUE
    /\ asked' = IF fup \/ ~ started
                THEN [cur |-> seq, prev |-> asked.cur, tries |-> 1]
                ELSE [asked EXCEPT !.tries = Older(@, ALLOWED + 2)]
    /\ of' = IF fup \/ ~ started THEN "past" ELSE IF of = "latest" THEN "repeated" ELSE of
    /\ sample' = IF fup THEN [sample EXCEPT !.times = 0] ELSE sample

Due_Answered == age = INTERVAL /\ (fup \/ ~ started)  \* fault: waits for the answer
Due == age = INTERVAL

(* gptp_poll *)
Poll ==
    /\ \/ /\ Due
          /\ lost' = IF started /\ ~ fup THEN Older(lost, ALLOWED + 1) ELSE lost
          /\ SendRequest
       \/ ~ Due /\ UNCHANGED <<age, started, resp, fup, lost, asked, of, sample>>
    /\ lag' = 0
    /\ UNCHANGED <<seq, mean>>

-----------------------------------------------------------------------------
(* What the network may answer. *)
Asked(r) == CASE r = "latest"   -> asked.tries > 0
              [] r = "repeated" -> asked.tries > 1
              [] r = "past"     -> asked.prev # None
SeqOf(r) == IF r = "past" THEN asked.prev ELSE asked.cur

(* process_pdelay_resp *)
PdelayResp(r) ==
    /\ Asked(r) /\ SeqOf(r) = seq
    /\ resp' = TRUE
    /\ of' = r
    /\ UNCHANGED <<age, started, seq, fup, lost, mean, lag, asked, sample>>

Accepted(d) == 0 <= d /\ d < MAX_DELAY

(* The first accepted delay is the mean, the next ones weigh an eighth. *)
Averaged(d) == IF mean = 0 THEN d ELSE (mean * 7 + d) \div 8

NextSeq_Same(s) == s  \* fault: the sequence id is not advanced
NextSeq(s) == (s + 1) % SEQ

Found_Kept(n) == n  \* fault: a completed exchange leaves the count of lost ones
Found(n) == 0

(* process_pdelay_resp_fup *)
PdelayRespFup(r, d) ==
    /\ Asked(r) /\ SeqOf(r) = seq
    /\ resp
    /\ fup' = TRUE
    /\ mean' = IF Accepted(d) THEN Averaged(d) ELSE mean
    /\ lost' = Found(lost)
    /\ seq' = NextSeq(seq)
    /\ sample' = [resp |-> of, fup |-> r, tries |-> asked.tries, times |-> Older(sample.times, 2)]
    /\ UNCHANGED <<age, started, resp, lag, asked, of>>

(* A step of the clock by gptp_servo_update stamps last_pdelay_time_ms anew. *)
Restamp ==
    /\ age' = 0
    /\ UNCHANGED <<started, seq, resp, fup, lost, mean, lag, asked, of, sample>>

Tick ==
    /\ lag < MaxLag
    /\ lag' = lag + 1
    /\ age' = Older(age, INTERVAL)
    /\ UNCHANGED <<started, seq, resp, fup, lost, mean, asked, of, sample>>

Next ==
    \/ Poll \/ Restamp \/ Tick
    \/ \E r \in Requests : PdelayResp(r) \/ \E d \in Delays : PdelayRespFup(r, d)

Spec == Init /\ [][Next]_vars

FairSpec == Spec /\ WF_vars(Tick) /\ WF_vars(Poll)

-----------------------------------------------------------------------------
(* The stamps of a sample belong to one request, and an exchange gives one sample,
   as long as its request was not repeated: a late answer of the exchange before and
   the second copy of an answer meet another pdelay_seq_id or a cleared
   pdelay_resp_received.  The repetitions of a request share its id, so their answers
   may be mixed, and only the plausibility of the delay is left to tell. *)
SampleIsWhole ==
    /\ sample.times <= 1
    /\ sample.tries = 1 => sample.resp = "latest" /\ sample.fup = "latest"

(* pdelay_lost_count is the number of requests in a row that got no complete answer
   in time, although it is kept by gptp_poll and reset by the answer's handler. *)
LossesCounted == lost = IF fup \/ ~ started THEN 0 ELSE asked.tries - 1

(* Requests go on whatever is lost, as long as the clock is not stepped again and
   again (each step stamps the timer anew). *)
RequestsContinue == <>[][~ Restamp]_vars => []<><<SendRequest>>_vars
=============================================================================
