------------------------------- MODULE TxPath -------------------------------
(***************************************************************************)
(* The way out: firmware fills one of the MAC's transmit slots, waits for  *)
(* the SRAM reader and starts it (eth_send of gptp.c, srp.c, avdecc.c);    *)
(* the gateware talker of aaf_packetizer.py builds a packet of every SPP   *)
(* blocks that the media clock moves; TXFrameArbiter lets one frame after  *)
(* the other onto the wire and the start of a firmware frame latches the   *)
(* egress time stamp, which gptp.c reads after it has started a frame.     *)
(* The media clock, the reader and the wire run beside the CPU.  A block   *)
(* is named by the turn of blk_idx in which a strobe moved it, whether it  *)
(* is audio or silence.                                                    *)
(***************************************************************************)
EXTENDS Integers, Sequences

CONSTANTS
    Senders,       \* the modules with a slot counter of their own
    Gptp,          \* the one that reads the egress time stamp
    TXSLOTS,       \* ETHMAC_TX_SLOTS, which is also the depth of the reader's queue
    SPP,           \* samples_per_packet
    BuildStrobes,  \* strobes that may come during BUILD: 234 cycles, a strobe takes 1041
    TURNS          \* bound: turns of blk_idx are named modulo TURNS

ASSUME TxPathAssumption ==
    /\ Gptp \in Senders
    /\ TXSLOTS \in Nat \ {0, 1}
    /\ SPP \in Nat \ {0} /\ BuildStrobes \in Nat /\ BuildStrobes < SPP
    /\ TURNS \in Nat \ {0, 1, 2}

VARIABLES
    cpu,        \* what firmware is at: whom it sends for, and whether it wants the stamp
    slot,       \* txslot of every sender
    queue,      \* commands of the SRAM reader, the one being sent first
    valid,      \* the reader offers a frame
    grant,      \* busy and sel of the arbiter
    begun,      \* tx_active: the first beat of the frame is out
    stamp,      \* whether the TSU's egress stamp is that of the frame firmware awaits
    enable,     \* aaf_pkt.enable
    line,       \* blk_idx, fill_buf, send_buf, pay and the turn
    builder,    \* the builder FSM, its progress and the strobes it has seen in BUILD
    overtaken,  \* history: AAF frames sent while the firmware's frame was on offer
    packet,     \* history: the turn of the packet at hand, the turn after the last one sent
                \* or overrun, whether the packet is whole and followed its predecessor
    after       \* history: packets sent since the stream was released

cpuVars  == <<cpu, slot>>
wireVars == <<valid, grant, begun, stamp, overtaken>>
aafVars  == <<line, builder, packet, after>>
vars == <<cpuVars, queue, wireVars, enable, aafVars>>

Turns  == 0..(TURNS - 1)
Blocks == 0..(SPP - 1)
Frame  == [by : Senders, slot : 0..(TXSLOTS - 1), awaited : BOOLEAN]

TypeOK ==
    /\ cpu \in [at : {"idle", "filled", "started"}, for : Senders, awaits : BOOLEAN]
    /\ slot \in [Senders -> 0..(TXSLOTS - 1)]
    /\ queue \in Seq(Frame) /\ Len(queue) <= TXSLOTS
    /\ valid \in BOOLEAN
    /\ grant \in {"none", "firmware", "aaf"} /\ begun \in BOOLEAN
    /\ stamp \in {"other", "awaited"}
    /\ overtaken \in 0..2
    /\ enable \in BOOLEAN
    /\ line \in [blk : Blocks, fill : 0..1, send : 0..1, turn : Turns,
                 pay : [0..1 -> [Blocks -> Turns]]]
    /\ builder \in [at : {"idle", "build", "stream"}, copied : Blocks, strobes : 0..BuildStrobes]
    /\ packet \in [turn : Turns, due : Turns, whole : BOOLEAN, joined : BOOLEAN]
    /\ after \in 0..2

Nobody == [at |-> "idle", for |-> Gptp, awaits |-> FALSE]

Init ==
    /\ cpu = Nobody
    /\ slot = [s \in Senders |-> 0]
    /\ queue = <<>>
    /\ valid = FALSE /\ grant = "none" /\ begun = FALSE
    /\ stamp = "other"
    /\ overtaken = 0
    /\ enable = FALSE
    /\ line = [blk |-> 0, fill |-> 0, send |-> 0, turn |-> 0,
               pay |-> [h \in 0..1 |-> [b \in Blocks |-> 0]]]
    /\ builder = [at |-> "idle", copied |-> 0, strobes |-> 0]
    /\ packet = [turn |-> 0, due |-> 0, whole |-> TRUE, joined |-> TRUE]
    /\ after = 0

Following(t) == IF t = TURNS - 1 THEN 0 ELSE t + 1

AtMost2(n) == IF n < 2 THEN n + 1 ELSE 2

-----------------------------------------------------------------------------
(* Firmware: the frame is written to the sender's slot before the wait for the
   reader.  gptp.c wants the stamp of its Pdelay_Req and Pdelay_Resp. *)
Fill(s, awaits) ==
    /\ cpu.at = "idle"
    /\ awaits => s = Gptp
    /\ cpu' = [at |-> "filled", for |-> s, awaits |-> awaits]
    /\ UNCHANGED <<slot, queue, wireVars, enable, aafVars>>

NextSlot_Same(s) == slot[s]  \* fault: the counter is not advanced
NextSlot(s) == (slot[s] + 1) % TXSLOTS

Ready_Idle == queue = <<>> /\ ~ valid /\ builder.at = "idle" /\ ~ enable  \* fault: waits for the talker
Ready == Len(queue) < TXSLOTS

Start ==
    /\ cpu.at = "filled" /\ Ready
    /\ queue' = Append(queue, [by |-> cpu.for, slot |-> slot[cpu.for], awaited |-> cpu.awaits])
    /\ slot' = [slot EXCEPT ![cpu.for] = NextSlot(cpu.for)]
    /\ cpu' = IF cpu.awaits THEN [cpu EXCEPT !.at = "started"] ELSE Nobody
    /\ UNCHANGED <<wireVars, enable, aafVars>>

(* gptp_read_tx_timestamp, which waits for nothing: a frame that finds the wire free
   has begun by then, one that is held up may not have.  Afterwards none is awaited. *)
HeldUp == grant = "aaf" \/ (queue # <<>> /\ ~ Head(queue).awaited)

ReadStamp ==
    /\ cpu.at = "started"
    /\ stamp = "awaited" \/ HeldUp
    /\ cpu' = Nobody
    /\ stamp' = "other"
    /\ queue' = [i \in DOMAIN queue |-> [queue[i] EXCEPT !.awaited = FALSE]]
    /\ UNCHANGED <<slot, valid, grant, begun, overtaken, enable, aafVars>>

(* aaf_gw_set, from the talker's connect and disconnect and from the console. *)
Switch(on) ==
    /\ cpu.at = "idle"
    /\ enable' = on
    /\ after' = IF on THEN 0 ELSE after
    /\ UNCHANGED <<cpuVars, queue, wireVars, line, builder, packet>>

-----------------------------------------------------------------------------
(* The SRAM reader offers the frame of its oldest command. *)
Offer ==
    /\ queue # <<>> /\ ~ valid
    /\ valid' = TRUE
    /\ overtaken' = 0
    /\ UNCHANGED <<cpuVars, queue, grant, begun, stamp, enable, aafVars>>

(* TXFrameArbiter: firmware first, and a frame is never interrupted. *)
Chosen_Aaf == IF builder.at = "stream" THEN "aaf" ELSE "firmware"  \* fault: the order swapped
Chosen == IF valid THEN "firmware" ELSE "aaf"

Grant ==
    /\ grant = "none"
    /\ valid \/ builder.at = "stream"
    /\ grant' = Chosen
    /\ UNCHANGED <<cpuVars, queue, valid, begun, stamp, overtaken, enable, aafVars>>

(* tx_latch *)
Latched ==
    IF grant = "firmware" THEN IF Head(queue).awaited THEN "awaited" ELSE "other" ELSE stamp

FirstBeat ==
    /\ grant # "none" /\ ~ begun
    /\ begun' = TRUE
    /\ stamp' = Latched
    /\ UNCHANGED <<cpuVars, queue, valid, grant, overtaken, enable, aafVars>>

EndFirmware ==
    /\ grant = "firmware" /\ begun
    /\ grant' = "none" /\ begun' = FALSE
    /\ valid' = FALSE
    /\ queue' = Tail(queue)
    /\ UNCHANGED <<cpuVars, stamp, overtaken, enable, aafVars>>

EndAaf ==
    /\ grant = "aaf" /\ begun
    /\ grant' = "none" /\ begun' = FALSE
    /\ builder' = [builder EXCEPT !.at = "idle"]
    /\ packet' = [packet EXCEPT !.due = Following(@)]
    /\ overtaken' = IF valid THEN AtMost2(overtaken) ELSE overtaken
    /\ after' = IF enable THEN 0 ELSE AtMost2(after)
    /\ UNCHANGED <<cpuVars, queue, valid, stamp, enable, line>>

-----------------------------------------------------------------------------
(* While enabled, a strobe moves one block into the half being filled; the last block
   of a half hands it to the builder, or is an overrun when the builder is busy. *)
Clocked_Free == TRUE  \* fault: the strobe is not gated with enable
Clocked == enable

Filled == [line EXCEPT !.pay[line.fill][line.blk] = line.turn]

HandedOver_Stuck(l) ==  \* fault: fill_buf is not toggled
    [l EXCEPT !.blk = 0, !.send = l.fill, !.turn = Following(@)]
HandedOver(l) ==
    [blk |-> 0, fill |-> 1 - l.fill, send |-> l.fill, turn |-> Following(l.turn), pay |-> l.pay]

Seen == IF builder.at = "build" THEN [builder EXCEPT !.strobes = @ + 1] ELSE builder

Strobe ==
    /\ Clocked
    /\ builder.at = "build" => builder.strobes < BuildStrobes
    /\ \/ /\ line.blk < SPP - 1
          /\ line' = [Filled EXCEPT !.blk = @ + 1]
          /\ builder' = Seen
          /\ UNCHANGED packet
       \/ /\ line.blk = SPP - 1 /\ builder.at = "idle"
          /\ line' = HandedOver(Filled)
          /\ builder' = [at |-> "build", copied |-> 0, strobes |-> 0]
          /\ packet' = [turn |-> line.turn, due |-> packet.due, whole |-> TRUE,
                        joined |-> line.turn = packet.due]
       \/ /\ line.blk = SPP - 1 /\ builder.at # "idle"
          /\ line' = HandedOver(Filled)
          /\ builder' = Seen
          /\ packet' = [packet EXCEPT !.due = Following(@)]
    /\ UNCHANGED <<cpuVars, queue, wireVars, enable, after>>

(* BUILD copies the blocks of the half that send_buf names now. *)
Copy ==
    /\ builder.at = "build"
    /\ builder' = IF builder.copied < SPP - 1 THEN [builder EXCEPT !.copied = @ + 1]
                  ELSE [at |-> "stream", copied |-> 0, strobes |-> 0]
    /\ packet' = [packet EXCEPT !.whole =
                    @ /\ line.pay[line.send][builder.copied] = packet.turn]
    /\ UNCHANGED <<cpuVars, queue, wireVars, enable, line, after>>

Next ==
    \/ \E s \in Senders, awaits \in BOOLEAN : Fill(s, awaits)
    \/ Start \/ ReadStamp
    \/ \E on \in BOOLEAN : Switch(on)
    \/ Offer \/ Grant \/ FirstBeat \/ EndFirmware \/ EndAaf
    \/ Strobe \/ Copy

Spec == Init /\ [][Next]_vars

(* The gateware and the wire do not stop, nor does the firmware within eth_send. *)
FairSpec ==
    /\ Spec
    /\ WF_vars(Start) /\ WF_vars(ReadStamp)
    /\ WF_vars(Offer) /\ WF_vars(Grant) /\ WF_vars(FirstBeat)
    /\ WF_vars(EndFirmware) /\ WF_vars(EndAaf)

-----------------------------------------------------------------------------
(* A packet holds the SPP blocks of one turn, although send_buf and the strobes go on
   while the builder reads a half (AAFPacketizer, BUILD), and between two packets
   exactly the turns are missing that overrun_count tells: nothing is sent twice and
   nothing is lost in silence. *)
PacketsAreWhole == packet.whole /\ packet.joined

(* A slot is filled again while the sender's own earlier frame waits in it only when
   the queue is full: the counters alternate.  (Nothing keeps two senders out of each
   other's slots.) *)
OwnFramesAlternate ==
    cpu.at = "filled" =>
        \A i \in DOMAIN queue :
            queue[i].by = cpu.for /\ queue[i].slot = slot[cpu.for] => Len(queue) = TXSLOTS

(* A firmware frame on offer waits for at most the AAF frame that is on the wire
   (TXFrameArbiter: "the AAF talker waits"). *)
FirmwareFirst == overtaken <= 1

(* A stream that was released is off the wire after the packet at hand
   (aaf_gw_set, "release the stream before tearing down the binding"). *)
ReleasedIsSilent == after <= 1

(* eth_send, which waits without a time-out, comes back. *)
SendsComplete == cpu.at = "filled" ~> cpu.at = "idle"

(* Steps until every command of the reader is on the wire and done with, counted from
   the worst case: an AAF frame that has just been granted. *)
Stage ==
    IF ~ valid THEN 6
    ELSE CASE grant = "aaf"      -> IF begun THEN 4 ELSE 5
           [] grant = "none"     -> 3
           [] grant = "firmware" -> IF begun THEN 1 ELSE 2
Wait == IF queue = <<>> THEN 0 ELSE 6 * (Len(queue) - 1) + Stage

(* While eth_send waits, nothing puts its frame off: every step of the reader and, with
   a frame on offer, of the arbiter and the wire takes one off the wait, and the talker
   adds none.  (eth_send of gptp.c, srp.c and avdecc.c has no time-out.) *)
WaitShrinks ==
    [][cpu.at = "filled" /\ UNCHANGED cpu =>
          \/ Wait' < Wait
          \/ UNCHANGED <<queue, valid, grant, begun>>
          \/ ~ valid /\ Wait' = Wait]_vars

(* gptp.c: "Capture TX timestamp (latched at SOF by hardware)", that of the frame
   just started. *)
StampIsOfThisFrame == [][cpu.at = "started" /\ cpu'.at = "idle" => stamp = "awaited"]_vars
=============================================================================
