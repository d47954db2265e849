---------------------------- MODULE TxPathProofs ----------------------------
(* Theorems about TxPath: its type, what a packet holds, who waits for whom, how the
   senders' slots alternate, and the silence after a release, for any senders, slots
   and packet length. *)
EXTENDS TxPath, TLAPS

(* The arbiter and the SRAM reader know of one another: what is granted is on offer,
   and a firmware frame that meets an AAF frame has not been overtaken yet. *)
Wire ==
    /\ valid => queue # <<>>
    /\ grant = "firmware" => valid
    /\ grant = "aaf" => builder.at = "stream"
    /\ valid /\ grant = "aaf" => overtaken = 0
    /\ overtaken <= 1

(* The half being built is complete, of one turn, and not the one being filled:
   BUILD is too short for blk_idx to come round. *)
Halves ==
    builder.at = "build" =>
        /\ line.fill # line.send
        /\ line.blk = builder.strobes
        /\ \A b \in Blocks : line.pay[line.send][b] = packet.turn

(* The blocks moved in this turn, and the turn that is due. *)
Turned ==
    /\ \A b \in Blocks : b < line.blk => line.pay[line.fill][b] = line.turn
    /\ line.turn = IF builder.at = "idle" THEN packet.due ELSE Following(packet.due)

(* A released stream has at most the packet at hand left. *)
Quiet ==
    /\ enable => after = 0
    /\ ~ enable /\ builder.at # "idle" => after = 0
    /\ after <= 1

IInv == TypeOK /\ Wire /\ Halves /\ Turned /\ PacketsAreWhole /\ Quiet

-----------------------------------------------------------------------------
LEMMA FollowingTyped ==
    ASSUME NEW t \in Turns
    PROVE  Following(t) \in Turns
BY TxPathAssumption DEF TxPathAssumption, Turns, Following

LEMMA InitHolds == Init => IInv
<1>. SUFFICES ASSUME Init PROVE IInv
  OBVIOUS
<1>1. 0 \in 0..(TXSLOTS - 1) /\ 0 \in Turns /\ 0 \in Blocks /\ 0 \in 0..BuildStrobes
  BY TxPathAssumption DEF TxPathAssumption, Turns, Blocks
<1>2. /\ cpu \in [at : {"idle", "filled", "started"}, for : Senders, awaits : BOOLEAN]
      /\ slot \in [Senders -> 0..(TXSLOTS - 1)]
      /\ builder \in [at : {"idle", "build", "stream"}, copied : Blocks, strobes : 0..BuildStrobes]
      /\ packet \in [turn : Turns, due : Turns, whole : BOOLEAN, joined : BOOLEAN]
  BY <1>1, TxPathAssumption DEF TxPathAssumption, Init, Nobody
<1>3. [h \in 0..1 |-> [b \in Blocks |-> 0]] \in [0..1 -> [Blocks -> Turns]]
  BY <1>1
<1>4. line \in [blk : Blocks, fill : 0..1, send : 0..1, turn : Turns,
                pay : [0..1 -> [Blocks -> Turns]]]
  BY <1>1, <1>3 DEF Init
<1>5. queue \in Seq(Frame) /\ Len(queue) <= TXSLOTS
  BY TxPathAssumption DEF TxPathAssumption, Init
<1>6. TypeOK
  BY <1>2, <1>4, <1>5 DEF Init, TypeOK
<1>7. Wire /\ Halves /\ PacketsAreWhole /\ Quiet
  BY DEF Init, Wire, Halves, PacketsAreWhole, Quiet
<1>8. Turned
  BY DEF Init, Turned, Blocks
<1>. QED BY <1>6, <1>7, <1>8 DEF IInv

-----------------------------------------------------------------------------
(* Firmware and its queue. *)
LEMMA StartKeeps ==
    ASSUME IInv, Start
    PROVE  IInv'
<1>. DEFINE frame == [by |-> cpu.for, slot |-> slot[cpu.for], awaited |-> cpu.awaits]
<1>1. frame \in Frame
  BY DEF IInv, TypeOK, Frame
<1>2. queue' = Append(queue, frame)
  BY DEF Start
<1>. HIDE DEF frame
<1>3. queue' \in Seq(Frame) /\ Len(queue') = Len(queue) + 1 /\ queue' # <<>>
  BY <1>1, <1>2 DEF IInv, TypeOK
<1>4. Len(queue') <= TXSLOTS
  BY <1>3, TxPathAssumption DEF TxPathAssumption, Start, Ready, IInv, TypeOK
<1>5. NextSlot(cpu.for) \in 0..(TXSLOTS - 1)
  BY TxPathAssumption DEF TxPathAssumption, NextSlot, IInv, TypeOK
<1>6. slot' \in [Senders -> 0..(TXSLOTS - 1)]
  BY <1>5 DEF Start, IInv, TypeOK
<1>7. cpu' \in [at : {"idle", "filled", "started"}, for : Senders, awaits : BOOLEAN]
  BY TxPathAssumption DEF TxPathAssumption, Start, IInv, TypeOK, Nobody
<1>8. TypeOK'
  BY <1>3, <1>4, <1>6, <1>7 DEF Start, IInv, TypeOK, wireVars, aafVars
<1>9. Wire'
  BY <1>3 DEF Start, IInv, Wire, wireVars, aafVars
<1>10. Halves' /\ Turned' /\ PacketsAreWhole' /\ Quiet'
  BY DEF Start, IInv, Halves, Turned, PacketsAreWhole, Quiet, wireVars, aafVars
<1>. QED BY <1>8, <1>9, <1>10 DEF IInv

LEMMA ReadStampKeeps ==
    ASSUME IInv, ReadStamp
    PROVE  IInv'
<1>1. \A i \in DOMAIN queue : [queue[i] EXCEPT !.awaited = FALSE] \in Frame
  <2>1. ASSUME NEW f \in Frame PROVE [f EXCEPT !.awaited = FALSE] \in Frame
    BY DEF Frame
  <2>2. \A i \in DOMAIN queue : queue[i] \in Frame
    BY DEF IInv, TypeOK
  <2>. QED BY <2>1, <2>2
<1>2. DOMAIN queue = 1..Len(queue) /\ Len(queue) \in Nat
  BY DEF IInv, TypeOK
<1>3. queue' \in [1..Len(queue) -> Frame]
  BY <1>1, <1>2 DEF ReadStamp
<1>4. queue' \in Seq(Frame) /\ Len(queue') = Len(queue)
  BY <1>2, <1>3
<1>5. cpu' \in [at : {"idle", "filled", "started"}, for : Senders, awaits : BOOLEAN]
  BY TxPathAssumption DEF TxPathAssumption, ReadStamp, Nobody
<1>6. TypeOK'
  BY <1>4, <1>5 DEF ReadStamp, IInv, TypeOK, aafVars
<1>7. queue # <<>> => queue' # <<>>
  BY <1>4 DEF IInv, TypeOK
<1>8. Wire'
  BY <1>7 DEF ReadStamp, IInv, Wire, aafVars
<1>9. Halves' /\ Turned' /\ PacketsAreWhole' /\ Quiet'
  BY DEF ReadStamp, IInv, Halves, Turned, PacketsAreWhole, Quiet, aafVars
<1>. QED BY <1>6, <1>8, <1>9 DEF IInv

LEMMA FillKeeps ==
    ASSUME IInv, NEW s \in Senders, NEW awaits \in BOOLEAN, Fill(s, awaits)
    PROVE  IInv'
<1>1. TypeOK'
  BY DEF Fill, IInv, TypeOK, wireVars, aafVars
<1>2. Wire' /\ Halves' /\ Turned' /\ PacketsAreWhole' /\ Quiet'
  BY DEF Fill, IInv, Wire, Halves, Turned, PacketsAreWhole, Quiet, wireVars, aafVars
<1>. QED BY <1>1, <1>2 DEF IInv

LEMMA SwitchKeeps ==
    ASSUME IInv, NEW on \in BOOLEAN, Switch(on)
    PROVE  IInv'
<1>1. TypeOK'
  BY DEF Switch, IInv, TypeOK, cpuVars, wireVars
<1>2. Wire' /\ Halves' /\ Turned' /\ PacketsAreWhole'
  BY DEF Switch, IInv, Wire, Halves, Turned, PacketsAreWhole, cpuVars, wireVars
<1>3. Quiet'
  BY DEF Switch, IInv, TypeOK, Quiet
<1>. QED BY <1>1, <1>2, <1>3 DEF IInv

-----------------------------------------------------------------------------
(* The wire: the reader, the arbiter and the two ends of a frame. *)
LEMMA WireKeeps ==
    ASSUME IInv, Offer \/ Grant \/ FirstBeat
    PROVE  IInv'
<1>1. CASE Offer
  <2>1. TypeOK'
    BY <1>1 DEF Offer, IInv, TypeOK, cpuVars, aafVars
  <2>2. Wire' /\ Halves' /\ Turned' /\ PacketsAreWhole' /\ Quiet'
    BY <1>1 DEF Offer, IInv, Wire, Halves, Turned, PacketsAreWhole, Quiet, cpuVars, aafVars
  <2>. QED BY <2>1, <2>2 DEF IInv
<1>2. CASE Grant
  <2>1. TypeOK'
    BY <1>2 DEF Grant, Chosen, IInv, TypeOK, cpuVars, aafVars
  <2>2. Wire' /\ Halves' /\ Turned' /\ PacketsAreWhole' /\ Quiet'
    BY <1>2 DEF Grant, Chosen, IInv, Wire, Halves, Turned, PacketsAreWhole, Quiet, cpuVars, aafVars
  <2>. QED BY <2>1, <2>2 DEF IInv
<1>3. CASE FirstBeat
  <2>1. TypeOK'
    BY <1>3 DEF FirstBeat, Latched, IInv, TypeOK, cpuVars, aafVars
  <2>2. Wire' /\ Halves' /\ Turned' /\ PacketsAreWhole' /\ Quiet'
    BY <1>3 DEF FirstBeat, IInv, Wire, Halves, Turned, PacketsAreWhole, Quiet, cpuVars, aafVars
  <2>. QED BY <2>1, <2>2 DEF IInv
<1>. QED BY <1>1, <1>2, <1>3

LEMMA EndFirmwareKeeps ==
    ASSUME IInv, EndFirmware
    PROVE  IInv'
<1>1. queue \in Seq(Frame) /\ queue # <<>>
  BY DEF EndFirmware, IInv, TypeOK, Wire
<1>2. queue' \in Seq(Frame) /\ Len(queue') <= TXSLOTS
  BY <1>1, TxPathAssumption DEF TxPathAssumption, EndFirmware, IInv, TypeOK
<1>3. TypeOK'
  BY <1>2 DEF EndFirmware, IInv, TypeOK, cpuVars, aafVars
<1>4. Wire' /\ Halves' /\ Turned' /\ PacketsAreWhole' /\ Quiet'
  BY DEF EndFirmware, IInv, Wire, Halves, Turned, PacketsAreWhole, Quiet, cpuVars, aafVars
<1>. QED BY <1>3, <1>4 DEF IInv

(* The packet at hand is sent: the builder is idle, and the turn after it is due. *)
LEMMA EndAafKeeps ==
    ASSUME IInv, EndAaf
    PROVE  IInv'
<1>1. /\ builder' = [builder EXCEPT !.at = "idle"]
      /\ packet' = [packet EXCEPT !.due = Following(packet.due)]
      /\ builder.at = "stream"
  BY DEF EndAaf, IInv, Wire
<1>2. Following(packet.due) \in Turns
  BY FollowingTyped DEF IInv, TypeOK
<1>3. /\ builder' \in [at : {"idle", "build", "stream"}, copied : Blocks, strobes : 0..BuildStrobes]
      /\ packet' \in [turn : Turns, due : Turns, whole : BOOLEAN, joined : BOOLEAN]
  BY <1>1, <1>2 DEF IInv, TypeOK
<1>4. /\ builder'.at = "idle" /\ packet'.due = Following(packet.due)
      /\ packet'.whole = packet.whole /\ packet'.joined = packet.joined
  BY <1>1 DEF IInv, TypeOK
<1>5. overtaken' \in {0, 1} /\ after' \in {0, 1} /\ (enable' => after' = 0)
  BY <1>1 DEF EndAaf, AtMost2, IInv, TypeOK, Wire, Quiet
<1>6. TypeOK'
  <2>1. grant' \in {"none", "firmware", "aaf"} /\ begun' \in BOOLEAN
    BY DEF EndAaf
  <2>2. overtaken' \in 0..2 /\ after' \in 0..2
    BY <1>5
  <2>. QED BY <1>3, <2>1, <2>2 DEF EndAaf, IInv, TypeOK, cpuVars
<1>7. Wire'
  BY <1>5 DEF EndAaf, IInv, Wire
<1>8. Turned'
  BY <1>1, <1>4 DEF EndAaf, IInv, Turned
<1>9. Halves' /\ PacketsAreWhole' /\ Quiet'
  BY <1>4, <1>5 DEF IInv, Halves, PacketsAreWhole, Quiet
<1>. QED BY <1>6, <1>7, <1>8, <1>9 DEF IInv

-----------------------------------------------------------------------------
Line == [blk : Blocks, fill : 0..1, send : 0..1, turn : Turns,
         pay : [0..1 -> [Blocks -> Turns]]]

LEMMA LineTyped ==
    ASSUME NEW b \in Blocks, NEW f \in 0..1, NEW s \in 0..1, NEW t \in Turns,
           NEW p \in [0..1 -> [Blocks -> Turns]]
    PROVE  [blk |-> b, fill |-> f, send |-> s, turn |-> t, pay |-> p] \in Line
BY Zenon DEF Line

(* The block that a strobe moves lands in the half being filled. *)
LEMMA FilledTyped ==
    ASSUME TypeOK
    PROVE  /\ Filled.pay \in [0..1 -> [Blocks -> Turns]]
           /\ Filled.blk = line.blk /\ Filled.fill = line.fill
           /\ Filled.send = line.send /\ Filled.turn = line.turn
           /\ Filled.pay[line.fill][line.blk] = line.turn
           /\ \A b \in Blocks : b # line.blk => Filled.pay[line.fill][b] = line.pay[line.fill][b]
           /\ \A h \in 0..1 : h # line.fill => Filled.pay[h] = line.pay[h]
           /\ Filled = [blk |-> line.blk, fill |-> line.fill, send |-> line.send,
                        turn |-> line.turn, pay |-> Filled.pay]
<1>1. /\ line.fill \in 0..1 /\ line.blk \in Blocks /\ line.turn \in Turns
      /\ line.pay \in [0..1 -> [Blocks -> Turns]]
  BY DEF TypeOK
<1>2. Filled.pay = [line.pay EXCEPT ![line.fill] = [@ EXCEPT ![line.blk] = line.turn]]
  BY DEF Filled, TypeOK
<1>3. /\ Filled.blk = line.blk /\ Filled.fill = line.fill
      /\ Filled.send = line.send /\ Filled.turn = line.turn
  BY DEF Filled, TypeOK
<1>4. [line.pay[line.fill] EXCEPT ![line.blk] = line.turn] \in [Blocks -> Turns]
  BY <1>1
<1>5. Filled = [blk |-> line.blk, fill |-> line.fill, send |-> line.send,
                turn |-> line.turn, pay |-> Filled.pay]
  <2>. DEFINE new == [line.pay EXCEPT ![line.fill] = [@ EXCEPT ![line.blk] = line.turn]]
  <2>1. Filled = [line EXCEPT !.pay = new]
    BY DEF Filled
  <2>. HIDE DEF new
  <2>2. line = [blk |-> line.blk, fill |-> line.fill, send |-> line.send,
                turn |-> line.turn, pay |-> line.pay]
    BY DEF TypeOK
  <2>. QED BY <2>1, <2>2
<1>. QED BY <1>1, <1>2, <1>3, <1>4, <1>5

(* The strobes of BUILD are counted. *)
LEMMA SeenTyped ==
    ASSUME TypeOK, builder.at = "build" => builder.strobes < BuildStrobes
    PROVE  /\ Seen \in [at : {"idle", "build", "stream"}, copied : Blocks, strobes : 0..BuildStrobes]
           /\ Seen.at = builder.at
           /\ builder.at = "build" => Seen.strobes = builder.strobes + 1
<1>1. CASE builder.at = "build"
  <2>1. builder.strobes + 1 \in 0..BuildStrobes
    BY <1>1, TxPathAssumption DEF TxPathAssumption, TypeOK
  <2>2. Seen = [builder EXCEPT !.strobes = builder.strobes + 1]
    BY <1>1 DEF Seen
  <2>. QED BY <2>1, <2>2 DEF TypeOK
<1>2. CASE builder.at # "build"
  BY <1>2 DEF Seen, TypeOK
<1>. QED BY <1>1, <1>2

(* A strobe that leaves the half unfinished. *)
LEMMA MovedKeeps ==
    ASSUME IInv, Strobe, line.blk < SPP - 1, line' = [Filled EXCEPT !.blk = @ + 1],
           builder' = Seen, UNCHANGED packet
    PROVE  IInv'
<1>. DEFINE pay == Filled.pay
<1>1. line' = [blk |-> line.blk + 1, fill |-> line.fill, send |-> line.send,
               turn |-> line.turn, pay |-> pay]
  BY FilledTyped DEF IInv
<1>2. line.blk \in Blocks /\ line.blk + 1 \in Blocks
  BY TxPathAssumption DEF TxPathAssumption, IInv, TypeOK, Blocks
<1>3. /\ line.turn \in Turns /\ line.fill \in 0..1 /\ line.send \in 0..1
      /\ pay \in [0..1 -> [Blocks -> Turns]]
  BY FilledTyped DEF IInv, TypeOK
<1>. HIDE DEF pay
<1>4. line' \in Line
  <2>1. [blk |-> line.blk + 1, fill |-> line.fill, send |-> line.send,
         turn |-> line.turn, pay |-> pay] \in Line
    BY <1>2, <1>3, LineTyped, Zenon
  <2>. QED BY <1>1, <2>1, Zenon
<1>5. /\ builder' \in [at : {"idle", "build", "stream"}, copied : Blocks, strobes : 0..BuildStrobes]
      /\ builder'.at = builder.at
      /\ builder.at = "build" => builder'.strobes = builder.strobes + 1
  BY SeenTyped DEF IInv, Strobe
<1>6. TypeOK'
  BY <1>4, <1>5 DEF Strobe, Line, IInv, TypeOK, cpuVars, wireVars
<1>7. Wire' /\ PacketsAreWhole' /\ Quiet'
  BY <1>5 DEF Strobe, IInv, Wire, PacketsAreWhole, Quiet, wireVars
<1>8. Halves'
  <2>1. ASSUME builder.at = "build", NEW b \in Blocks
        PROVE  pay[line.send][b] = packet.turn
    BY <2>1, FilledTyped DEF IInv, TypeOK, Halves, pay
  <2>. QED BY <1>1, <1>5, <2>1 DEF IInv, Halves
<1>9. Turned'
  <2>1. ASSUME NEW b \in Blocks, b < line.blk + 1
        PROVE  pay[line.fill][b] = line.turn
    <3>1. CASE b = line.blk
      BY <3>1, FilledTyped DEF IInv, pay
    <3>2. CASE b # line.blk
      <4>1. b < line.blk
        BY <1>2, <2>1, <3>2 DEF Blocks
      <4>. QED BY <4>1, <3>2, FilledTyped DEF IInv, Turned, pay
    <3>. QED BY <3>1, <3>2
  <2>. QED BY <1>1, <1>5, <2>1 DEF IInv, Turned
<1>. QED BY <1>6, <1>7, <1>8, <1>9 DEF IInv

(* The last block of a half: the halves change places, and the turn is over. *)
LEMMA HandedOverIs ==
    ASSUME IInv
    PROVE  LET l == HandedOver(Filled)
           IN  /\ l \in Line
               /\ l.blk = 0 /\ l.send = line.fill /\ l.fill # l.send
               /\ l.turn = Following(line.turn) /\ l.pay = Filled.pay
<1>. DEFINE pay == Filled.pay
<1>1. HandedOver(Filled) = [blk |-> 0, fill |-> 1 - line.fill, send |-> line.fill,
                            turn |-> Following(line.turn), pay |-> pay]
  BY FilledTyped DEF HandedOver, IInv
<1>2. /\ 0 \in Blocks /\ line.fill \in 0..1 /\ 1 - line.fill \in 0..1 /\ 1 - line.fill # line.fill
      /\ Following(line.turn) \in Turns
  BY FollowingTyped, TxPathAssumption DEF TxPathAssumption, IInv, TypeOK, Blocks
<1>3. pay \in [0..1 -> [Blocks -> Turns]]
  BY FilledTyped DEF IInv
<1>. HIDE DEF pay
<1>4. HandedOver(Filled) \in Line
  <2>1. [blk |-> 0, fill |-> 1 - line.fill, send |-> line.fill,
         turn |-> Following(line.turn), pay |-> pay] \in Line
    BY <1>2, <1>3, LineTyped, Zenon
  <2>. QED BY <1>1, <2>1, Zenon
<1>. QED BY <1>1, <1>2, <1>4 DEF pay

(* The half that is handed over holds this turn, and is all of it. *)
LEMMA HalfIsWhole ==
    ASSUME IInv, line.blk = SPP - 1
    PROVE  \A b \in Blocks : Filled.pay[line.fill][b] = line.turn
<1>. SUFFICES ASSUME NEW b \in Blocks PROVE Filled.pay[line.fill][b] = line.turn
  OBVIOUS
<1>1. CASE b = line.blk
  BY <1>1, FilledTyped DEF IInv
<1>2. CASE b # line.blk
  <2>1. b < line.blk
    BY <1>2, TxPathAssumption DEF TxPathAssumption, Blocks
  <2>. QED BY <2>1, <1>2, FilledTyped DEF IInv, Turned
<1>. QED BY <1>1, <1>2

LEMMA BegunKeeps ==
    ASSUME IInv, Strobe, line.blk = SPP - 1, builder.at = "idle", line' = HandedOver(Filled),
           builder' = [at |-> "build", copied |-> 0, strobes |-> 0],
           packet' = [turn |-> line.turn, due |-> packet.due, whole |-> TRUE,
                      joined |-> line.turn = packet.due]
    PROVE  IInv'
<1>1. /\ line' \in Line /\ line'.blk = 0 /\ line'.send = line.fill /\ line'.fill # line'.send
      /\ line'.turn = Following(line.turn) /\ line'.pay = Filled.pay
  BY HandedOverIs
<1>2. line.turn = packet.due
  BY DEF IInv, Turned
<1>3. 0 \in Blocks /\ 0 \in 0..BuildStrobes
  BY TxPathAssumption DEF TxPathAssumption, Blocks
<1>4. /\ builder' \in [at : {"idle", "build", "stream"}, copied : Blocks, strobes : 0..BuildStrobes]
      /\ packet' \in [turn : Turns, due : Turns, whole : BOOLEAN, joined : BOOLEAN]
  BY <1>2, <1>3 DEF IInv, TypeOK
<1>5. TypeOK'
  BY <1>1, <1>4 DEF Strobe, Line, IInv, TypeOK, cpuVars, wireVars
<1>6. Wire' /\ PacketsAreWhole'
  BY <1>2 DEF Strobe, IInv, Wire, PacketsAreWhole, wireVars
<1>7. Halves'
  BY <1>1, HalfIsWhole DEF Halves
<1>8. Turned'
  BY <1>1, <1>2 DEF Turned, Blocks
<1>9. Quiet'
  BY DEF Strobe, Clocked, IInv, Quiet
<1>. QED BY <1>5, <1>6, <1>7, <1>8, <1>9 DEF IInv

(* An overrun cannot come in BUILD. *)
LEMMA OverrunKeeps ==
    ASSUME IInv, Strobe, line.blk = SPP - 1, builder.at # "idle", line' = HandedOver(Filled),
           builder' = Seen, packet' = [packet EXCEPT !.due = Following(@)]
    PROVE  IInv'
<1>1. /\ line' \in Line /\ line'.blk = 0
      /\ line'.turn = Following(line.turn)
  BY HandedOverIs
<1>2. builder.at = "stream"
  BY TxPathAssumption DEF TxPathAssumption, Strobe, IInv, TypeOK, Halves
<1>3. builder' = builder
  BY <1>2 DEF Seen
<1>4. Following(packet.due) \in Turns
  BY FollowingTyped DEF IInv, TypeOK
<1>5. /\ packet' \in [turn : Turns, due : Turns, whole : BOOLEAN, joined : BOOLEAN]
      /\ packet'.due = Following(packet.due)
      /\ packet'.whole = packet.whole /\ packet'.joined = packet.joined
  BY <1>4 DEF IInv, TypeOK
<1>6. TypeOK'
  BY <1>1, <1>3, <1>5 DEF Strobe, Line, IInv, TypeOK, cpuVars, wireVars
<1>7. Wire' /\ PacketsAreWhole' /\ Halves' /\ Quiet'
  BY <1>2, <1>3, <1>5 DEF Strobe, IInv, Wire, PacketsAreWhole, Halves, Quiet, wireVars
<1>8. Turned'
  BY <1>1, <1>2, <1>3, <1>5 DEF IInv, Turned, Blocks
<1>. QED BY <1>6, <1>7, <1>8 DEF IInv

LEMMA CopyKeeps ==
    ASSUME IInv, Copy
    PROVE  IInv'
<1>. DEFINE same == line.pay[line.send][builder.copied] = packet.turn
<1>1. same
  BY DEF Copy, IInv, TypeOK, Halves
<1>2. packet' = [packet EXCEPT !.whole = packet.whole /\ same]
  BY DEF Copy
<1>. HIDE DEF same
<1>3. packet' = packet
  BY <1>1, <1>2 DEF IInv, TypeOK, PacketsAreWhole
<1>4. 0 \in Blocks /\ 0 \in 0..BuildStrobes
      /\ (builder.copied < SPP - 1 => builder.copied + 1 \in Blocks)
  BY TxPathAssumption DEF TxPathAssumption, IInv, TypeOK, Blocks
<1>5. /\ builder' \in [at : {"idle", "build", "stream"}, copied : Blocks, strobes : 0..BuildStrobes]
      /\ builder'.at # "idle"
      /\ builder'.at = "build" => builder'.strobes = builder.strobes
  BY <1>4 DEF Copy, IInv, TypeOK
<1>6. TypeOK'
  BY <1>3, <1>5 DEF Copy, IInv, TypeOK, cpuVars, wireVars
<1>7. Wire' /\ Halves' /\ Turned' /\ PacketsAreWhole' /\ Quiet'
  BY <1>3, <1>5 DEF Copy, IInv, Wire, Halves, Turned, PacketsAreWhole, Quiet, wireVars
<1>. QED BY <1>6, <1>7 DEF IInv

-----------------------------------------------------------------------------
LEMMA StepHolds == IInv /\ [Next]_vars => IInv'
<1>. SUFFICES ASSUME IInv, [Next]_vars PROVE IInv'
  OBVIOUS
<1>1. ASSUME NEW s \in Senders, NEW awaits \in BOOLEAN, Fill(s, awaits) PROVE IInv'
  BY <1>1, FillKeeps
<1>2. CASE Start
  BY <1>2, StartKeeps
<1>3. CASE ReadStamp
  BY <1>3, ReadStampKeeps
<1>4. ASSUME NEW on \in BOOLEAN, Switch(on) PROVE IInv'
  BY <1>4, SwitchKeeps
<1>5. CASE Offer \/ Grant \/ FirstBeat
  BY <1>5, WireKeeps
<1>6. CASE EndFirmware
  BY <1>6, EndFirmwareKeeps
<1>7. CASE EndAaf
  BY <1>7, EndAafKeeps
<1>8. CASE Strobe
  BY <1>8, MovedKeeps, BegunKeeps, OverrunKeeps DEF Strobe
<1>9. CASE Copy
  BY <1>9, CopyKeeps
<1>10. CASE UNCHANGED vars
  <2>1. TypeOK'
    BY <1>10 DEF vars, cpuVars, wireVars, aafVars, IInv, TypeOK
  <2>2. Wire' /\ Halves' /\ Turned' /\ PacketsAreWhole' /\ Quiet'
    BY <1>10 DEF vars, cpuVars, wireVars, aafVars, IInv, Wire, Halves, Turned, PacketsAreWhole, Quiet
  <2>. QED BY <2>1, <2>2 DEF IInv
<1>. QED BY <1>1, <1>2, <1>3, <1>4, <1>5, <1>6, <1>7, <1>8, <1>9, <1>10 DEF Next

LEMMA Invariance == Spec => []IInv
BY InitHolds, StepHolds, PTL DEF Spec

-----------------------------------------------------------------------------
(* How many times a sender has filled a slot since it filled slot k, when its counter
   stands at c. *)
Since(c, k) == IF c > k THEN c - k - 1 ELSE c - k - 1 + TXSLOTS

(* The frames it has filled them with stand behind the one in slot k. *)
Behind ==
    \A i \in 1..Len(queue) : Since(slot[queue[i].by], queue[i].slot) <= Len(queue) - i

LEMMA NextSlotIs ==
    ASSUME TypeOK, NEW s \in Senders
    PROVE  NextSlot(s) = IF slot[s] = TXSLOTS - 1 THEN 0 ELSE slot[s] + 1
<1>1. slot[s] \in 0..(TXSLOTS - 1) /\ TXSLOTS \in Nat /\ TXSLOTS > 1
  BY TxPathAssumption DEF TxPathAssumption, TypeOK
<1>2. CASE slot[s] = TXSLOTS - 1
  <2>1. slot[s] + 1 = TXSLOTS /\ TXSLOTS % TXSLOTS = 0
    BY <1>1, <1>2
  <2>. QED BY <1>2, <2>1 DEF NextSlot
<1>3. CASE slot[s] # TXSLOTS - 1
  <2>1. slot[s] + 1 \in Nat /\ slot[s] + 1 < TXSLOTS
    BY <1>1, <1>3
  <2>2. (slot[s] + 1) % TXSLOTS = slot[s] + 1
    BY <1>1, <2>1
  <2>. QED BY <1>3, <2>2 DEF NextSlot
<1>. QED BY <1>2, <1>3

(* Filling one more slot is one more since every other, and none since itself. *)
LEMMA SinceGrows ==
    ASSUME NEW c \in 0..(TXSLOTS - 1), NEW k \in 0..(TXSLOTS - 1),
           NEW d, d = IF c = TXSLOTS - 1 THEN 0 ELSE c + 1
    PROVE  Since(d, c) = 0 /\ Since(d, k) <= Since(c, k) + 1
BY TxPathAssumption DEF TxPathAssumption, Since

LEMMA QueueTyped ==
    ASSUME TypeOK
    PROVE  /\ Len(queue) \in Nat /\ TXSLOTS \in Nat /\ TXSLOTS > 1
           /\ \A i \in 1..Len(queue) : /\ queue[i] \in Frame
                                       /\ queue[i].by \in Senders
                                       /\ queue[i].slot \in 0..(TXSLOTS - 1)
           /\ \A s \in Senders : slot[s] \in 0..(TXSLOTS - 1)
<1>1. \A i \in 1..Len(queue) : queue[i] \in Frame
  BY DEF TypeOK
<1>2. Len(queue) \in Nat /\ TXSLOTS \in Nat /\ TXSLOTS > 1
  BY TxPathAssumption DEF TxPathAssumption, TypeOK
<1>3. \A s \in Senders : slot[s] \in 0..(TXSLOTS - 1)
  BY DEF TypeOK
<1>. QED BY <1>1, <1>2, <1>3 DEF Frame

LEMMA StartBehind ==
    ASSUME TypeOK, Behind, Start
    PROVE  Behind'
<1>. DEFINE c == cpu.for
            frame == [by |-> c, slot |-> slot[c], awaited |-> cpu.awaits]
            n == Len(queue)
<1>1. c \in Senders /\ slot \in [Senders -> 0..(TXSLOTS - 1)] /\ queue \in Seq(Frame)
  BY DEF TypeOK
<1>2. /\ slot'[c] = IF slot[c] = TXSLOTS - 1 THEN 0 ELSE slot[c] + 1
      /\ \A s \in Senders : s # c => slot'[s] = slot[s]
  <2>1. slot' = [slot EXCEPT ![c] = NextSlot(c)]
    BY DEF Start
  <2>2. NextSlot(c) = IF slot[c] = TXSLOTS - 1 THEN 0 ELSE slot[c] + 1
    BY <1>1, NextSlotIs
  <2>. HIDE DEF c
  <2>. QED BY <1>1, <2>1, <2>2
<1>3. frame \in Frame /\ frame.by = c /\ frame.slot = slot[c]
  BY DEF TypeOK, Frame
<1>4. queue' = Append(queue, frame)
  BY DEF Start
<1>. HIDE DEF frame, c
<1>5. /\ n \in Nat /\ Len(queue') = n + 1 /\ queue'[n + 1] = frame
      /\ \A i \in 1..n : queue'[i] = queue[i]
  BY <1>1, <1>3, <1>4
<1>6. \A i \in 1..n : /\ queue[i].by \in Senders /\ queue[i].slot \in 0..(TXSLOTS - 1)
                      /\ Since(slot[queue[i].by], queue[i].slot) <= n - i
  BY QueueTyped DEF Behind
<1>. HIDE DEF n
<1>7. slot[c] \in 0..(TXSLOTS - 1) /\ TXSLOTS \in Nat
  BY <1>1, QueueTyped
<1>8. ASSUME NEW i \in 1..(n + 1)
      PROVE  Since(slot'[queue'[i].by], queue'[i].slot) <= n + 1 - i
  <2>1. CASE i = n + 1
    <3>1. Since(slot'[c], slot[c]) = 0
      BY <1>2, <1>7, SinceGrows
    <3>. QED BY <1>3, <1>5, <2>1, <3>1
  <2>2. CASE i # n + 1
    <3>. DEFINE s == queue[i].by
                k == queue[i].slot
    <3>1. i \in 1..n /\ queue'[i] = queue[i]
      BY <1>5, <2>2
    <3>2. s \in Senders /\ k \in 0..(TXSLOTS - 1) /\ Since(slot[s], k) <= n - i
      BY <1>6, <3>1
    <3>. HIDE DEF s, k
    <3>3. slot[s] \in 0..(TXSLOTS - 1)
      BY <1>1, <3>2
    <3>4. Since(slot[s], k) \in Int
      BY <1>7, <3>2, <3>3 DEF Since
    <3>5. Since(slot'[s], k) <= n + 1 - i
      <4>1. CASE s = c
        <5>1. Since(slot'[c], k) <= Since(slot[c], k) + 1 /\ Since(slot'[c], k) \in Int
          <6>1. Since(slot'[c], k) <= Since(slot[c], k) + 1
            BY <1>2, <1>7, <3>2, SinceGrows
          <6>2. slot'[c] \in Int
            BY <1>2, <1>7
          <6>. QED BY <1>7, <3>2, <6>1, <6>2 DEF Since
        <5>. QED BY <1>5, <3>2, <3>4, <4>1, <5>1
      <4>2. CASE s # c
        BY <1>2, <1>5, <3>2, <3>4, <4>2
      <4>. QED BY <4>1, <4>2
    <3>. QED BY <3>1, <3>5 DEF s, k
  <2>. QED BY <2>1, <2>2
<1>. QED BY <1>5, <1>8 DEF Behind

LEMMA EndFirmwareBehind ==
    ASSUME TypeOK, Behind, EndFirmware, queue # <<>>
    PROVE  Behind'
<1>1. queue' = Tail(queue) /\ slot' = slot /\ queue \in Seq(Frame)
  BY DEF EndFirmware, cpuVars, TypeOK
<1>2. /\ Len(queue) \in Nat /\ Len(queue') = Len(queue) - 1
      /\ \A i \in 1..Len(queue') : queue'[i] = queue[i + 1]
  BY <1>1
<1>3. \A i \in 1..Len(queue') : i + 1 \in 1..Len(queue) /\ Len(queue) - (i + 1) = Len(queue') - i
  BY <1>2
<1>4. \A i \in 1..Len(queue') : Since(slot[queue[i + 1].by], queue[i + 1].slot) <= Len(queue') - i
  BY <1>3 DEF Behind
<1>. QED BY <1>1, <1>2, <1>4 DEF Behind

LEMMA BehindStep == IInv /\ Behind /\ [Next]_vars => Behind'
<1>. SUFFICES ASSUME IInv, Behind, [Next]_vars PROVE Behind'
  OBVIOUS
<1>1. CASE Start
  BY <1>1, StartBehind DEF IInv
<1>2. CASE ReadStamp
  <2>1. slot' = slot /\ queue' = [i \in DOMAIN queue |-> [queue[i] EXCEPT !.awaited = FALSE]]
    BY <1>2 DEF ReadStamp
  <2>2. DOMAIN queue = 1..Len(queue) /\ Len(queue) \in Nat
    BY DEF IInv, TypeOK
  <2>3. Len(queue') = Len(queue)
    BY <2>1, <2>2
  <2>4. \A i \in 1..Len(queue) : queue'[i].by = queue[i].by /\ queue'[i].slot = queue[i].slot
    BY <2>1, <2>2, QueueTyped DEF IInv, Frame
  <2>. QED BY <2>1, <2>3, <2>4 DEF Behind
<1>3. CASE EndFirmware
  BY <1>3, EndFirmwareBehind DEF IInv, Wire, EndFirmware
<1>4. ASSUME UNCHANGED <<queue, slot>> PROVE Behind'
  BY <1>4 DEF Behind
<1>5. ASSUME NEW s \in Senders, NEW awaits \in BOOLEAN, Fill(s, awaits) PROVE Behind'
  BY <1>4, <1>5 DEF Fill
<1>6. ASSUME NEW on \in BOOLEAN, Switch(on) PROVE Behind'
  BY <1>4, <1>6 DEF Switch, cpuVars
<1>7. CASE Offer \/ Grant \/ FirstBeat \/ EndAaf
  BY <1>4, <1>7 DEF Offer, Grant, FirstBeat, EndAaf, cpuVars
<1>8. CASE Strobe \/ Copy
  BY <1>4, <1>8 DEF Strobe, Copy, cpuVars
<1>9. CASE UNCHANGED vars
  BY <1>4, <1>9 DEF vars, cpuVars
<1>. QED BY <1>1, <1>2, <1>3, <1>5, <1>6, <1>7, <1>8, <1>9 DEF Next

LEMMA BehindAlternates == IInv /\ Behind => OwnFramesAlternate
<1>. SUFFICES ASSUME IInv, Behind, NEW i \in DOMAIN queue,
                     queue[i].slot = slot[queue[i].by]
              PROVE  Len(queue) = TXSLOTS
  BY DEF OwnFramesAlternate
<1>1. i \in 1..Len(queue) /\ Len(queue) <= TXSLOTS
  BY DEF IInv, TypeOK
<1>2. /\ slot[queue[i].by] \in 0..(TXSLOTS - 1) /\ TXSLOTS \in Nat /\ Len(queue) \in Nat
      /\ Since(slot[queue[i].by], queue[i].slot) <= Len(queue) - i
  BY <1>1, QueueTyped DEF IInv, Behind
<1>3. Since(slot[queue[i].by], queue[i].slot) = TXSLOTS - 1
  BY <1>2 DEF Since
<1>. QED BY <1>1, <1>2, <1>3

-----------------------------------------------------------------------------
(* Every state is of its type: the queue never outgrows the slots, and the builder's
   indices stay inside a half. *)
THEOREM TxPathTypes == Spec => []TypeOK
<1>1. IInv => TypeOK
  BY DEF IInv
<1>. QED BY <1>1, Invariance, PTL

(* AAFPacketizer sends every turn of blocks whole and once, or counts it as overrun. *)
THEOREM PacketsArrive == Spec => []PacketsAreWhole
<1>1. IInv => PacketsAreWhole
  BY DEF IInv
<1>. QED BY <1>1, Invariance, PTL

(* TXFrameArbiter lets at most one AAF frame pass a control frame on offer. *)
THEOREM ControlGoesFirst == Spec => []FirmwareFirst
<1>1. IInv => FirmwareFirst
  BY DEF IInv, Wire, FirmwareFirst
<1>. QED BY <1>1, Invariance, PTL

(* A released stream sends the packet at hand and no other. *)
THEOREM ReleaseTakesEffect == Spec => []ReleasedIsSilent
<1>1. IInv => ReleasedIsSilent
  BY DEF IInv, Quiet, ReleasedIsSilent
<1>. QED BY <1>1, Invariance, PTL

(* A sender's slot counter comes round to a frame still queued only behind a full queue. *)
THEOREM SlotsAlternate == Spec => []OwnFramesAlternate
<1>1. Init => Behind
  BY DEF Init, Behind
<1>2. IInv /\ Behind /\ [Next]_vars => Behind'
  BY BehindStep
<1>3. IInv /\ Behind => OwnFramesAlternate
  BY BehindAlternates
<1>. QED BY <1>1, <1>2, <1>3, Invariance, PTL DEF Spec

-----------------------------------------------------------------------------
(* What a step may do to the wait of a frame. *)
Held == UNCHANGED <<queue, valid, grant, begun>> \/ (~ valid /\ Wait' = Wait)

StageKnown ==
    /\ Len(queue) \in Nat
    /\ queue # <<>> => Len(queue) >= 1
    /\ ~ valid => Stage = 6
    /\ valid /\ grant = "aaf" => Stage = IF begun THEN 4 ELSE 5
    /\ valid /\ grant = "none" => Stage = 3
    /\ valid /\ grant = "firmware" => Stage = IF begun THEN 1 ELSE 2

LEMMA StageIs == IInv => StageKnown
<1> SUFFICES ASSUME IInv PROVE StageKnown  OBVIOUS
<1>1. queue \in Seq(Frame)
  BY DEF IInv, TypeOK
<1>2. Len(queue) \in Nat /\ (queue # <<>> => Len(queue) >= 1)
  BY <1>1
<1>3. valid /\ grant = "aaf" => Stage = IF begun THEN 4 ELSE 5
  BY Zenon DEF Stage
<1>4. valid /\ grant = "none" => Stage = 3
  BY DEF Stage
<1>5. valid /\ grant = "firmware" => Stage = IF begun THEN 1 ELSE 2
  BY DEF Stage
<1>6. ~ valid => Stage = 6
  BY DEF Stage
<1> QED BY <1>2, <1>3, <1>4, <1>5, <1>6 DEF StageKnown

LEMMA WaitStep ==
    ASSUME IInv, IInv', [Next]_vars, cpu.at = "filled", UNCHANGED cpu
    PROVE  Wait' < Wait \/ Held
<1>1. StageKnown
  BY StageIs
<1>2. StageKnown'
  BY StageIs, PTL
<1>3. Wire /\ begun \in BOOLEAN /\ grant \in {"none", "firmware", "aaf"}
  BY DEF IInv, TypeOK
<1>4. CASE Offer
  <2>1. queue # <<>> /\ ~ valid /\ valid' /\ UNCHANGED <<queue, grant, begun>>
    BY <1>4 DEF Offer
  <2>2. Stage = 6 /\ Stage' \in {3, 4, 5}
    BY <2>1, <1>1, <1>2, <1>3 DEF StageKnown, Wire
  <2> QED BY <2>1, <2>2, <1>1 DEF Wait, StageKnown
<1>5. CASE Grant \/ FirstBeat \/ EndAaf
  <2>1. UNCHANGED <<queue, valid>>
    BY <1>5 DEF Grant, FirstBeat, EndAaf
  <2>2. CASE ~ valid
    <3>1. Stage = 6 /\ Stage' = 6
      BY <2>1, <2>2, <1>1, <1>2 DEF StageKnown
    <3> QED BY <2>1, <2>2, <3>1 DEF Held, Wait
  <2>3. CASE valid
    <3>1. queue # <<>>
      BY <2>3, <1>3 DEF Wire
    <3>2. Stage \in Nat /\ Stage' \in Nat /\ Stage' < Stage
      <4>1. CASE Grant
        <5>1. grant = "none" /\ grant' = "firmware" /\ begun' = begun
          BY <2>3, <4>1 DEF Grant, Chosen
        <5> QED BY <2>1, <2>3, <5>1, <1>1, <1>2, <1>3 DEF StageKnown
      <4>2. CASE FirstBeat
        <5>1. grant # "none" /\ grant' = grant /\ ~ begun /\ begun'
          BY <4>2 DEF FirstBeat
        <5> QED BY <2>1, <2>3, <5>1, <1>1, <1>2, <1>3 DEF StageKnown
      <4>3. CASE EndAaf
        <5>1. grant = "aaf" /\ begun /\ grant' = "none"
          BY <4>3 DEF EndAaf
        <5> QED BY <2>1, <2>3, <5>1, <1>1, <1>2, <1>3 DEF StageKnown
      <4> QED BY <1>5, <4>1, <4>2, <4>3
    <3> QED BY <2>1, <3>1, <3>2, <1>1 DEF Wait, StageKnown
  <2> QED BY <2>2, <2>3
<1>6. CASE EndFirmware
  <2>1. grant = "firmware" /\ begun /\ valid /\ queue # <<>> /\ ~ valid' /\ queue' = Tail(queue)
    BY <1>6, <1>3 DEF EndFirmware, Wire
  <2>2. Stage = 1 /\ Stage' = 6
    BY <2>1, <1>1, <1>2 DEF StageKnown
  <2>3. queue \in Seq(Frame)
    BY DEF IInv, TypeOK
  <2>4. Len(queue') = Len(queue) - 1
    BY <2>1, <2>3
  <2>5. Wait = 6 * (Len(queue) - 1) + 1
    BY <2>1, <2>2 DEF Wait
  <2>6. Wait' = IF queue' = <<>> THEN 0 ELSE 6 * (Len(queue') - 1) + 6
    BY <2>2 DEF Wait
  <2> QED BY <2>1, <2>4, <2>5, <2>6, <1>1, <1>2 DEF StageKnown
<1>7. CASE Start
  <2>1. cpu' = [cpu EXCEPT !.at = "started"] \/ cpu' = Nobody
    BY <1>7 DEF Start
  <2>2. cpu'.at # "filled"
    BY <2>1 DEF IInv, TypeOK, Nobody
  <2> QED BY <2>2
<1>8. ASSUME NEW s \in Senders, NEW awaits \in BOOLEAN, Fill(s, awaits) PROVE FALSE
  BY <1>8 DEF Fill
<1>9. ASSUME NEW on \in BOOLEAN, Switch(on) PROVE FALSE
  BY <1>9 DEF Switch
<1>10. CASE ReadStamp
  BY <1>10 DEF ReadStamp
<1>11. CASE Strobe \/ Copy \/ UNCHANGED vars
  BY <1>11 DEF Strobe, Copy, vars, wireVars, Held
<1> QED
  BY <1>4, <1>5, <1>6, <1>7, <1>8, <1>9, <1>10, <1>11 DEF Next

(* The wait of eth_send only shrinks, for any number of slots and senders: with the
   fairness of the reader and the wire it ends. *)
THEOREM SendsAreServed == Spec => WaitShrinks
<1>1. IInv /\ IInv' /\ [Next]_vars =>
        [cpu.at = "filled" /\ UNCHANGED cpu =>
           \/ Wait' < Wait
           \/ UNCHANGED <<queue, valid, grant, begun>>
           \/ ~ valid /\ Wait' = Wait]_vars
  BY WaitStep DEF Held
<1> QED BY <1>1, Invariance, PTL DEF Spec, WaitShrinks
=============================================================================
