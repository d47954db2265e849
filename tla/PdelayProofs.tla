---------------------------- MODULE PdelayProofs ----------------------------
(* Theorems about Pdelay: its type, what a sample is made of and what the count
   of lost responses counts, for any interval, limits and width of the ids. *)
EXTENDS Pdelay, TLAPS

(* The sequence id goes with the exchanges: an open one is asked under it, a
   completed one has left it behind. *)
Numbered ==
    /\ started = (asked.cur # None)
    /\ asked.tries = 0 <=> ~ started
    /\ fup => started
    /\ ~ started => ~ resp /\ asked.prev = None
    /\ started => seq = IF fup THEN NextSeq(asked.cur) ELSE asked.cur
    /\ asked.prev # None => asked.cur = NextSeq(asked.prev)

(* The response at hand answers a request of the open exchange, which gives its
   sample when it is completed. *)
Matched ==
    /\ resp /\ ~ fup => of # "past" /\ (asked.tries = 1 => of = "latest")
    /\ sample.times = IF fup THEN 1 ELSE 0
    /\ sample.tries = 1 => sample.resp = "latest" /\ sample.fup = "latest"

IInv == TypeOK /\ Numbered /\ Matched /\ LossesCounted

-----------------------------------------------------------------------------
(* Ids wrap, and the next two of an id are others. *)
LEMMA NextSeqIs ==
    ASSUME NEW s \in Ids
    PROVE  NextSeq(s) = IF s = SEQ - 1 THEN 0 ELSE s + 1
<1>1. s \in Nat /\ SEQ \in Nat /\ SEQ > 2 /\ s <= SEQ - 1
  BY PdelayAssumption DEF PdelayAssumption, Ids
<1>2. CASE s = SEQ - 1
  <2>1. s + 1 = SEQ /\ SEQ % SEQ = 0
    BY <1>1, <1>2
  <2>. QED BY <1>2, <2>1 DEF NextSeq
<1>3. CASE s # SEQ - 1
  <2>1. s + 1 \in Nat /\ s + 1 < SEQ
    BY <1>1, <1>3
  <2>2. (s + 1) % SEQ = s + 1
    BY <1>1, <2>1
  <2>. QED BY <1>3, <2>2 DEF NextSeq
<1>. QED BY <1>2, <1>3

LEMMA NextSeqDiffers ==
    ASSUME NEW s \in Ids
    PROVE  NextSeq(s) \in Ids /\ NextSeq(s) # s /\ NextSeq(NextSeq(s)) # s /\ s # None
<1>1. NextSeq(s) \in Ids /\ NextSeq(s) # s /\ s # None
  BY NextSeqIs, PdelayAssumption DEF PdelayAssumption, Ids, None
<1>2. NextSeq(NextSeq(s)) = IF NextSeq(s) = SEQ - 1 THEN 0 ELSE NextSeq(s) + 1
  BY <1>1, NextSeqIs
<1>. QED BY <1>1, <1>2, NextSeqIs, PdelayAssumption DEF PdelayAssumption, Ids

(* An answer is accepted only while its exchange is open, and is no answer of the
   exchange before. *)
LEMMA AnswersAreCurrent ==
    ASSUME IInv, NEW r \in Requests, Asked(r), SeqOf(r) = seq
    PROVE  started /\ ~ fup /\ r # "past" /\ (asked.tries = 1 => r = "latest")
<1>1. /\ asked.cur \in Ids \cup {None} /\ asked.prev \in Ids \cup {None} /\ asked.tries \in Nat
      /\ fup \in BOOLEAN /\ seq \in Ids
  BY PdelayAssumption DEF PdelayAssumption, IInv, TypeOK
<1>0. r \in {"latest", "repeated", "past"}
  BY DEF Requests
<1>2. started
  <2>1. CASE r = "latest"
    BY <1>1, <2>1 DEF Asked, IInv, Numbered
  <2>2. CASE r = "repeated"
    BY <1>1, <2>2 DEF Asked, IInv, Numbered
  <2>3. CASE r = "past"
    BY <1>1, <2>3 DEF Asked, IInv, Numbered
  <2>. QED BY <1>0, <2>1, <2>2, <2>3
<1>3. asked.cur \in Ids
  BY <1>1, <1>2 DEF IInv, Numbered
<1>4. CASE r = "past"
  <2>1. asked.prev \in Ids /\ asked.cur = NextSeq(asked.prev) /\ seq = asked.prev
    BY <1>1, <1>4 DEF Asked, SeqOf, IInv, Numbered
  <2>2. seq \in {asked.cur, NextSeq(asked.cur)}
    BY <1>2 DEF IInv, Numbered
  <2>. QED BY <2>1, <2>2, NextSeqDiffers
<1>5. CASE r # "past"
  <2>1. ~ fup
    BY <1>2, <1>3, <1>5, NextSeqDiffers DEF SeqOf, IInv, Numbered
  <2>2. asked.tries = 1 => r = "latest"
    <3>1. r = "repeated" => asked.tries > 1
      BY DEF Asked
    <3>. QED BY <1>0, <1>1, <1>5, <3>1
  <2>. QED BY <1>2, <1>5, <2>1, <2>2
<1>. QED BY <1>4, <1>5

-----------------------------------------------------------------------------
LEMMA InitHolds == Init => IInv
<1>. SUFFICES ASSUME Init PROVE IInv
  OBVIOUS
<1>1. /\ 0 \in 0..INTERVAL /\ 0 \in Ids /\ 0 \in 0..(ALLOWED + 1) /\ 0 \in 0..(MAX_DELAY - 1)
      /\ 0 \in 0..MaxLag /\ 0 \in 0..(ALLOWED + 2) /\ 1 \in 0..(ALLOWED + 2)
  BY PdelayAssumption DEF PdelayAssumption, Ids
<1>2. /\ asked \in [cur : Ids \cup {None}, prev : Ids \cup {None}, tries : 0..(ALLOWED + 2)]
      /\ sample \in [resp : Requests, fup : Requests, tries : 0..(ALLOWED + 2), times : 0..2]
  BY <1>1 DEF Init, Requests
<1>3. TypeOK
  BY <1>1, <1>2 DEF Init, TypeOK, Requests
<1>4. Numbered /\ Matched /\ LossesCounted
  BY DEF Init, Numbered, Matched, LossesCounted
<1>. QED BY <1>3, <1>4 DEF IInv

(* A request, of a new exchange or the repetition of one that got no answer. *)
LEMMA SendKeeps ==
    ASSUME IInv, Poll, Due, SendRequest,
           lost' = IF started /\ ~ fup THEN Older(lost, ALLOWED + 1) ELSE lost
    PROVE  IInv'
<1>1. /\ ALLOWED \in Nat /\ lost \in 0..(ALLOWED + 1) /\ asked.tries \in 0..(ALLOWED + 2)
      /\ fup \in BOOLEAN /\ started \in BOOLEAN /\ seq \in Ids
      /\ asked.cur \in Ids \cup {None} /\ asked.prev \in Ids \cup {None}
  BY PdelayAssumption DEF PdelayAssumption, IInv, TypeOK
<1>2. /\ resp' = FALSE /\ fup' = FALSE /\ started' = TRUE /\ age' = 0 /\ seq' = seq /\ mean' = mean
      /\ lag' = 0
  BY DEF SendRequest, Cleared, Poll
<1>0. 0 \in 0..INTERVAL /\ 0 \in 0..MaxLag
  BY PdelayAssumption DEF PdelayAssumption
<1>3. CASE fup \/ ~ started
  <2>1. asked' = [cur |-> seq, prev |-> asked.cur, tries |-> 1] /\ of' = "past" /\ lost' = lost /\ lost = 0
    BY <1>1, <1>3 DEF SendRequest, IInv, LossesCounted, Numbered
  <2>2. 1 \in 0..(ALLOWED + 2)
    BY <1>1
  <2>3. asked' \in [cur : Ids \cup {None}, prev : Ids \cup {None}, tries : 0..(ALLOWED + 2)]
    BY <1>1, <2>1, <2>2
  <2>4. sample' \in [resp : Requests, fup : Requests, tries : 0..(ALLOWED + 2), times : 0..2]
        /\ sample'.times = 0 /\ sample'.tries = sample.tries
        /\ sample'.resp = sample.resp /\ sample'.fup = sample.fup
    BY <1>1, <1>3 DEF SendRequest, IInv, TypeOK, Matched
  <2>5. TypeOK'
    BY <1>0, <1>1, <1>2, <2>1, <2>3, <2>4 DEF IInv, TypeOK, Requests
  <2>6. Numbered'
    <3>1. seq # None
      BY <1>1, NextSeqDiffers
    <3>2. asked.cur # None => seq = NextSeq(asked.cur)
      BY <1>3 DEF IInv, Numbered
    <3>3. asked'.cur = seq /\ asked'.prev = asked.cur /\ asked'.tries # 0
      BY <2>1
    <3>. QED BY <1>2, <3>1, <3>2, <3>3, Zenon DEF Numbered
  <2>7. Matched' /\ LossesCounted'
    BY <1>2, <2>1, <2>4 DEF IInv, Matched, LossesCounted
  <2>. QED BY <2>5, <2>6, <2>7 DEF IInv
<1>4. CASE started /\ ~ fup
  <2>1. /\ asked' = [asked EXCEPT !.tries = Older(asked.tries, ALLOWED + 2)]
        /\ of' = IF of = "latest" THEN "repeated" ELSE of
        /\ sample' = sample
    BY <1>1, <1>4 DEF SendRequest
  <2>2. asked.tries >= 1 /\ lost = asked.tries - 1
    BY <1>1, <1>4 DEF IInv, LossesCounted, Numbered
  <2>3. /\ Older(asked.tries, ALLOWED + 2) \in 0..(ALLOWED + 2) /\ Older(asked.tries, ALLOWED + 2) >= 1
        /\ lost' = Older(asked.tries, ALLOWED + 2) - 1 /\ lost' \in 0..(ALLOWED + 1)
    BY <1>1, <1>4, <2>2 DEF Older
  <2>4. /\ asked' \in [cur : Ids \cup {None}, prev : Ids \cup {None}, tries : 0..(ALLOWED + 2)]
        /\ asked'.cur = asked.cur /\ asked'.prev = asked.prev
        /\ asked'.tries = Older(asked.tries, ALLOWED + 2)
    BY <2>1, <2>3 DEF IInv, TypeOK
  <2>5. of' \in Requests
    BY <2>1 DEF IInv, TypeOK, Requests
  <2>6. TypeOK'
    BY <1>0, <1>1, <1>2, <2>1, <2>3, <2>4, <2>5 DEF IInv, TypeOK
  <2>7. Numbered'
    <3>1. asked'.tries # 0
      BY <2>3, <2>4
    <3>2. asked.cur # None /\ seq = asked.cur /\ (asked.prev # None => asked.cur = NextSeq(asked.prev))
      BY <1>4 DEF IInv, Numbered
    <3>. QED BY <1>2, <2>4, <3>1, <3>2, Zenon DEF Numbered
  <2>8. Matched' /\ LossesCounted'
    BY <1>2, <1>4, <2>1, <2>3, <2>4 DEF IInv, Matched, LossesCounted
  <2>. QED BY <2>6, <2>7, <2>8 DEF IInv
<1>. QED BY <1>1, <1>3, <1>4

LEMMA PollKeeps ==
    ASSUME IInv, Poll
    PROVE  IInv'
<1>1. CASE Due
  BY <1>1, SendKeeps DEF Poll
<1>2. CASE ~ Due
  <2>1. UNCHANGED <<age, started, resp, fup, lost, asked, of, sample, seq, mean>> /\ lag' = 0
    BY <1>2 DEF Poll
  <2>2. TypeOK'
    BY <2>1, PdelayAssumption DEF PdelayAssumption, IInv, TypeOK
  <2>3. Numbered' /\ Matched' /\ LossesCounted'
    BY <2>1 DEF IInv, Numbered, Matched, LossesCounted, NextSeq
  <2>. QED BY <2>2, <2>3 DEF IInv
<1>. QED BY <1>1, <1>2

LEMMA RespKeeps ==
    ASSUME IInv, NEW r \in Requests, PdelayResp(r)
    PROVE  IInv'
<1>1. started /\ ~ fup /\ r # "past" /\ (asked.tries = 1 => r = "latest")
  BY AnswersAreCurrent DEF PdelayResp
<1>2. TypeOK'
  BY DEF PdelayResp, IInv, TypeOK
<1>3. Numbered' /\ Matched' /\ LossesCounted'
  BY <1>1 DEF PdelayResp, IInv, Numbered, Matched, LossesCounted, NextSeq
<1>. QED BY <1>2, <1>3 DEF IInv

(* The filter keeps the mean a plausible delay. *)
LEMMA AveragedTyped ==
    ASSUME TypeOK, NEW d \in Delays, Accepted(d)
    PROVE  Averaged(d) \in 0..(MAX_DELAY - 1)
<1>1. d \in 0..(MAX_DELAY - 1) /\ mean \in 0..(MAX_DELAY - 1) /\ MAX_DELAY \in Nat
  BY PdelayAssumption DEF PdelayAssumption, Accepted, TypeOK
<1>2. (mean * 7 + d) \div 8 \in 0..(MAX_DELAY - 1)
  BY <1>1
<1>. QED BY <1>1, <1>2 DEF Averaged

LEMMA FupKeeps ==
    ASSUME IInv, NEW r \in Requests, NEW d \in Delays, PdelayRespFup(r, d)
    PROVE  IInv'
<1>1. started /\ ~ fup /\ r # "past" /\ (asked.tries = 1 => r = "latest")
  BY AnswersAreCurrent DEF PdelayRespFup
<1>2. /\ asked.tries \in 0..(ALLOWED + 2) /\ of \in Requests /\ sample.times = 0 /\ seq \in Ids
      /\ seq = asked.cur /\ (asked.tries = 1 => of = "latest")
  BY <1>1 DEF PdelayRespFup, IInv, TypeOK, Numbered, Matched
<1>3. sample' = [resp |-> of, fup |-> r, tries |-> asked.tries, times |-> 1]
  BY <1>2 DEF PdelayRespFup, Older
<1>4. sample' \in [resp : Requests, fup : Requests, tries : 0..(ALLOWED + 2), times : 0..2]
  BY <1>2, <1>3
<1>5. mean' \in 0..(MAX_DELAY - 1)
  BY AveragedTyped DEF PdelayRespFup, IInv, TypeOK
<1>6. NextSeq(seq) \in Ids
  BY <1>2, NextSeqDiffers
<1>7. TypeOK'
  BY <1>4, <1>5, <1>6, PdelayAssumption DEF PdelayAssumption, PdelayRespFup, Found, IInv, TypeOK
<1>8. Numbered' /\ LossesCounted'
  BY <1>1, <1>2 DEF PdelayRespFup, Found, IInv, Numbered, LossesCounted, NextSeq
<1>9. Matched'
  BY <1>1, <1>2, <1>3 DEF PdelayRespFup, Matched
<1>. QED BY <1>7, <1>8, <1>9 DEF IInv

LEMMA TimeKeeps ==
    ASSUME IInv, Restamp \/ Tick
    PROVE  IInv'
<1>1. /\ UNCHANGED <<started, seq, resp, fup, lost, mean, asked, of, sample>>
      /\ age' \in 0..INTERVAL /\ lag' \in 0..MaxLag
  BY PdelayAssumption DEF PdelayAssumption, Restamp, Tick, Older, IInv, TypeOK
<1>2. TypeOK'
  BY <1>1 DEF IInv, TypeOK
<1>3. Numbered' /\ Matched' /\ LossesCounted'
  BY <1>1 DEF IInv, Numbered, Matched, LossesCounted, NextSeq
<1>. QED BY <1>2, <1>3 DEF IInv

LEMMA StepHolds == IInv /\ [Next]_vars => IInv'
<1>. SUFFICES ASSUME IInv, [Next]_vars PROVE IInv'
  OBVIOUS
<1>1. CASE Poll
  BY <1>1, PollKeeps
<1>2. CASE Restamp \/ Tick
  BY <1>2, TimeKeeps
<1>3. ASSUME NEW r \in Requests, PdelayResp(r) PROVE IInv'
  BY <1>3, RespKeeps
<1>4. ASSUME NEW r \in Requests, NEW d \in Delays, PdelayRespFup(r, d) PROVE IInv'
  BY <1>4, FupKeeps
<1>5. CASE UNCHANGED vars
  <2>1. TypeOK'
    BY <1>5 DEF vars, IInv, TypeOK
  <2>2. Numbered' /\ Matched' /\ LossesCounted'
    BY <1>5 DEF vars, IInv, Numbered, Matched, LossesCounted, NextSeq
  <2>. QED BY <2>1, <2>2 DEF IInv
<1>. QED BY <1>1, <1>2, <1>3, <1>4, <1>5 DEF Next

LEMMA Invariance == Spec => []IInv
BY InitHolds, StepHolds, PTL DEF Spec

(* Every state is of its type: the mean stays a plausible delay. *)
THEOREM PdelayTypes == Spec => []TypeOK
<1>1. IInv => TypeOK
  BY DEF IInv
<1>. QED BY <1>1, Invariance, PTL

(* process_pdelay_resp_fup never mixes two exchanges, and the answers of a request
   that was not repeated are its own. *)
THEOREM SamplesAreWhole == Spec => []SampleIsWhole
<1>1. IInv => SampleIsWhole
  BY DEF IInv, Matched, SampleIsWhole
<1>. QED BY <1>1, Invariance, PTL

(* gptp_poll and process_pdelay_resp_fup together count the requests in a row that
   got no complete answer. *)
THEOREM LossesAreCounted == Spec => []LossesCounted
<1>1. IInv => LossesCounted
  BY DEF IInv
<1>. QED BY <1>1, Invariance, PTL
=============================================================================
