# TLA+ specifications of the AVB endpoint

This directory specifies, model-checks and in part proves the control logic of
the endpoint: bare-metal C firmware on a VexRiscv (`firmware/`) and the Migen
gateware around it. Paths below are relative to the repository root.

## 1. The system

One thread runs everything: `main()` initialises the modules and then repeats
`dispatch_rx`, `gptp_poll`, `srp_poll`, lock tracking, VLAN sync, `avdecc_poll`,
the media clock, the CRF flow watchdog, the DAC drain and the console
(`main.c:1059-1172`). Handlers run to completion, so there is no preemption;
what interleaves is the order of frames, polls, console commands and the passage
of time, with the gateware running beside the loop. All modules read one clock,
`gptp_uptime_ms`.

| component | state | operations | talks to | what makes it correct |
|---|---|---|---|---|
| ACMP (`avdecc.c`, `avdecc.h`) | `listeners[2]`, `resolves[2]`, `next_acmp_seq`, `talkers[1]` | CONNECT_RX (slow, named, saved address), CONNECT_TX_RESPONSE, DISCONNECT_RX, CONNECT_TX, DISCONNECT_TX, `avdecc_poll` time-outs | calls the bindings' callbacks; controllers and talkers over the network | one answer per command; an answer completes only its own query until ids repeat; refusals change nothing |
| bindings (`main.c` callbacks) | `pending_listeners[2]`, `mcr`/`aaf` `bound` and `stream_id`, `srp.listener_*`, AVTP filter slot 0, `aaf.tx_enabled`, packetizer binding | `on_listener_connect`, `on_listener_disconnect`, `on_talker_advertise`, `on_talker_connect`, `on_talker_disconnect`, VLAN sync, console `t`, `T`, `D` | called by ACMP and SRP; set up SRP, MCR, AAF and the gateware | what AVDECC reports is what the engines do |
| counters and pushes (`avdecc.c`, `main.c`) | LOCKED/UNLOCKED per input and for the clock domain, `prev_aaf_locked`, `unsol_ctrl[4]` | connect and disconnect notifications, lock tracking, `track_clock_lock`, SET_CLOCK_SOURCE, register, deregister | read the two servos' locks; push to controllers | counters balanced; pushes complete and in sequence |
| SRP (`srp.c`) | declarations and their `*_new_count`, remote-talker table, `talker_registered`, join and LeaveAll timers | enable/disable, PDU reception, `srp_poll` | calls `on_talker_advertise`; AVDECC reads the table | registrar true to what is heard; NEW before JOININ |
| gPTP (`gptp.c`) | port state, Sync/Follow_Up pairing, ring of five offsets, servo and its lock, pdelay exchange | message handlers, `gptp_poll` | owns the clock everybody reads; reads the egress stamp | a lock dies with its master and returns with it; a sample is of one exchange; a step settles |
| media clock (`mcr.c`, `crf_extractor.py`) | bound stream, servo, lock streak, stale watchdog, pair FIFO | bind, unbind, two feeds, watchdog | `servo_locked` to AVDECC | no lock or baseline is carried over when CRF is lost or changed, but for what pairs still queued bring in |
| CRF flow watchdog (`avdecc.c:505`) | snapshot, recovery flag, two stamps | one tick per loop pass | sends ACMP commands | retries for as long as the flow is missing |
| AAF talker (`aaf_packetizer.py`) | block FIFO, two payload halves, builder FSM, `enable` | strobe, hand over, build, stream | paced by the media clock, sends through the arbiter | a packet is of one turn; missing ones are counted; a release silences it |
| transmit path (all senders, `avb_soc.py`) | two slots, a counter per module, reader queue, arbiter, egress stamp | fill, wait, start; grant, first beat, end | shared by three firmware modules and the talker | control frames first, and always sent; the stamp is the frame's own |
| receive path (`dispatch_rx`, `avtp_extractor.py`) | receive slots, sample FIFOs | drain, extract | dispatches to all modules | every frame reaches its handler once |
| software talker (`aaf.c`) | transmit ring | push, poll | not reached while the gateware owns the stream | - |
| AEM descriptors, ADP, console output | constants, timers | read-only responses | controllers | layout, not control |
| USB (`rtl/usb_avb_subsystem.v`) | generated Verilog | - | audio samples | - |

What is hard here: answers of the network that are late, repeated, reordered or
lost, against time-outs and slots that have been reused; three writers of the
same counters; single resources shared by two streams; callbacks that change
state in the middle of the function that calls them; fixed tables that overflow;
timers that are only looked at when a poll happens; a clock that is stepped under
everybody's stamps; gateware that moves while the CPU looks. `PROJECT.json` lists each
under `hazards` with its line and the properties that watch it.

## 2. Modules

| module | models | extends |
|---|---|---|
| `Bindings` | the callbacks of `main.c` as action fragments over their seven variables | - |
| `Sink` | what ACMP promises a controller: an input does what the last granted command asked for | - |
| `Acmp` | the ACMP engine, composed with `Bindings`: each handler is one action together with the callback it makes; implements `Sink` | `Bindings`, instantiates `Sink` |
| `Subscription` | what a registered controller relies on: every change is pushed, numbered without a gap | - |
| `Counters` | lock counters, clock domain and unsolicited notifications; implements `Subscription` | instantiates `Subscription` |
| `TalkerCache` | what the registrar promises: a bounded cache of the latest talkers with their ages | - |
| `Srp` | MSRP applicant, registrar table and poll; implements `TalkerCache` | instantiates `TalkerCache` |
| `Mcr` | media clock recovery: extractor FIFO, servo, both CRF watchdogs | - |
| `Discipline` | what gPTP's servo promises: a sliding median, a lock after a row of good ones | - |
| `Gptp` | Sync/Follow_Up pairing, ring, sort, servo, lock and time-out; implements `Discipline` | instantiates `Discipline` |
| `Pdelay` | the path delay exchange with its retransmissions | - |
| `TxPath` | transmit slots, reader queue, arbiter, egress stamp and the gateware talker | - |
| `MCAcmp`, `MCCounters`, `MCSrp`, `MCMcr`, `MCGptp`, `MCPdelay`, `MCTxPath` | instances for TLC | the above |
| `AcmpProofs`, `AcmpSafety`, `CountersProofs`, `SrpProofs`, `McrProofs`, `GptpProofs`, `PdelayProofs`, `TxPathProofs` | theorems | the above |

An operator `Name_Fault` just before `Name` is `Name` with a plausible mistake in
it. Nothing uses it in the model; `PROJECT.json` pairs it with the property that
notices the mistake when it replaces `Name`.

### Acmp and Bindings

`lst`, `resolves`, `nextSeq`, `tlk` are the fields of `avdecc_state_t`; a resolve
slot keeps an age in ticks instead of `start_ms`, saturating at the time-out it is
compared to. A stream is a member of `Streams`, with `OwnerOf` and `DestOf` giving
its talker and address; `EidMatch` is the relation that `dest_or_eid_match`
computes on entity ids (reflexive, nothing else assumed). `wire` holds every
CONNECT_TX_COMMAND sent: any of them may be answered at any later time, any number
of times or never, with success or failure. `taken`, `reply`, `wanted` and `given` are
history: the commands received, the answer each got, the controllers' last word on each
input, and the address that came with the AAF input's last connection.

`next_acmp_seq` is a `uint16_t` (`avdecc.h:354`). `nextSeq` counts how often it was
taken and `SeqId` is what a request carries of it, modulo `SEQ`, so ids repeat: the
flow watchdog takes one in every pass of the loop while CRF is stalled
(`avdecc.c:548`, also in passes in which it sends nothing), and a wrap takes seconds,
less than an answer may be late. A late answer may then match a query that is not its
own; of two queries with one id the first slot is completed (`Carriers`, `Matches`).
`Ambiguous` is the set of streams that were asked for under an id of another request.

`ConnectRxRefused` is the two early refusals; `ConnectRxSlow` takes a resolve slot;
`ConnectRxFast` binds or parks the input (a CONNECT_RX with an address and no
stream_id is parked by `on_listener_connect` until `TalkerAdvertise`; one that names its
stream may come with that stream's address, another or none, `avdecc.c:694`). A parked
input always has an address: without one and without a stream_id the command takes the
slow path.
`CrfRebootstrap` is what the CRF flow watchdog does to ACMP; when CRF stalls is the
environment's choice. Commands are distinct: a controller's repetition of the same
command is another member of `Cmds`, and its effect on `connection_count` is not
distinguished. Media counters are left to `Counters`.

`Sink` is the abstract specification: per input what it does (idle, waiting for any of
a set of streams, playing one), the question it asks a talker, and per command what
became of it. It has no sequence ids, no engines, no parked records and no clock. A query
plays the stream it asked for, or one of `late`, a set that only grows and that the
mapping reads from `Ambiguous`: what repeated ids may confuse.
The refinement mapping (`Sinks`, `Queries`, `Answers`) reads them from the listener
records, the parked bindings, the engines and the resolve slots; a parked binding is
mapped to the streams whose advertise would match it. A response without a live query,
the watchdog's ids, the clock and everything of our own talker are stuttering. That the
answer to a query plays its stream even after a disconnect is in `Sink` as it is in the
code: the finding `DisconnectSticks` is about `wanted`, which `Sink` does not have.

### Counters

`Push(n, ds)` is `push_unsol_counters` and `push_unsol_stream_info`: every active
slot's sequence id advances by `n`, and the registered controllers learn the
counters of the descriptors `ds`. `engine` is what the lock tracking reads of `mcr` and
`aaf`: unbound, bound and waiting, or good (`servo_locked`, `rx_count > 0`). `Media` is
what changes it, and the gPTP servo's lock, without a word to ACMP: servo decisions, the
stale watchdog and the first AAF frame at any time, the bind of a parked input by
`on_talker_advertise`, the console's force-clear. How many AAF frames of the bound stream
reach the CPU, past the gateware that discards what it extracts, is left open. `NotifyConnected` has a flag for
the parked case, in which no engine is touched. A controller is taken to read the
counters when it registers, as Hive does. History: `base`, `heard`, `view`.

`Subscription` has the counts and, per subscriber, the next id and what it was told.
An event moves one count of each descriptor it is about by one, and pushes at least once
for each. The mapping reads the counts from the LOCKED/UNLOCKED pairs and the
subscribers from the active slots.

### Srp

Stamps become ages, in ticks of the millisecond clock; `SrpPoll` is the whole of
`srp_poll`, `RxTalkerAdvertise` the whole of the reception of one vector, with the
callback in the middle: when `main.c` waits for that stream (`learning`) the callback
enables the listener, and the registration test comes after it. A PDU with several
vectors is its vectors in a row. The MVRP declaration has a counter that moves with
the Domain's and is left out, as are the received attributes that are only counted.
Ages stand for stamps as long as the 32-bit clock neither wraps nor steps.

`TalkerCache` has one variable, a function from the known talkers to their ages, which
`Cache` reads from the valid slots. The join side of SRP is stuttering.

### Mcr

`phase` is where the main loop is: `dispatch` (ACMP and CRF frames of the CPU path,
`Connect`, `Disconnect`, `ProcessRx`), `pump` (`PumpOne`, one pair of `mcr_pump_hw`),
`servo` (`ServoUpdate`, the CPU sample if no pair superseded it) and `watch` (`Watch`,
`mcr_watchdog_tick` and `avdecc_crf_flow_watchdog` on the same count). `Capture` is the
gateware and happens at any time, as does `Tick`. The drain of at most 64 pairs never
reaches its limit with a FIFO of 16. An offset is a number; only the differences and
their comparison with the thresholds matter, so two offsets give calm and wild samples.
`Step` is gPTP setting the clock: both watchdogs' ages become anything. `blind`
marks the time in which a watchdog's snapshot or stamp says nothing of the stream bound
now: after a bind (which resets `rx_count` but no snapshot) and after a step, until the
count has moved. `quiet`, `trace` and `old` are history: when the servo was last fed, with
what since its baseline, and how many of the queued pairs were captured under an earlier
binding, since `mcr_bind` and `mcr_unbind` leave the FIFO as it is. Such pairs lead the
queue and the new binding's servo is fed them first. One may be its baseline, and two,
of up to 16, are enough to lock it before its own stream has given a sample; `trace`
tells a calm delta of two samples of the stream bound now (`own`) from one that an
earlier pair has a part in (`mixed`).
A dead `prev_offset_ns` and the idle watchdog's fields are kept at 0.

### Gptp and Discipline

`FollowUp(off)` is `process_follow_up` with the `gptp_servo_update` it ends in: the
offset that the stamps of the pair give is the network's choice, it enters the ring
(`filter`: `off_median_buf`, `_idx`, `_filled`), the ring is sorted by insertion and the
median steps or tunes the clock. A Follow_Up without its Sync changes nothing and is no
step. `syncAge` is the age of `last_sync_time_ms`; a step of the clock stamps it anew,
as the code does. `did` is what the clock was told, `silence`, `calm` and `orphan` are
history. The PI arithmetic of the addend, the statistics and the grandmaster's data of
Announce (which only fill descriptors) are left out; `servo_step_count` is only compared
with 0.

The comment at `gptp.h:197-198` says that the lock count locks at 8; the code, and `Gptp`
and `Discipline` with it, need one more good sample once the count has reached 8
(`gptp.c:624-628`).

`Discipline` is the abstract specification: a window of the last offsets, its middle
value defined by counting, and the lock. The refinement mapping reads the window from
the ring (`Window`); the time-out maps to `Silence`, everything about frames and
timers to stuttering.

### Pdelay

`pdelay_seq_id` advances with a complete exchange only, so that a repeated Pdelay_Req
carries the id of the one it repeats. `asked` remembers the ids used by this exchange
and the one before and how often the request was sent; any of those requests may be
answered at any later time. Older ones are not told apart: the id would have to wrap.
The delay that comes of the four stamps is the network's choice; the neighbour rate
ratio that scales it is left out. `Restamp` is a step of the clock, which stamps
`last_pdelay_time_ms` anew.

### TxPath

`cpu` is where firmware is with a frame: filled (the slot is written), started, and,
for gPTP's Pdelay frames, about to read the egress stamp. `queue` is the command queue
of LiteEth's SRAM reader, which the repository uses but does not contain: it takes as
many commands as there are slots and offers one frame after the other. `grant` and
`begun` are `TXFrameArbiter` and the start-of-frame logic of `avb_soc.py`; `line` is the
packetizer's pair of halves, `builder` its FSM. Blocks are named by the turn of
`blk_idx` in which the strobe moved them, audio or silence; `Copy` moves one block of
the 42 + 192 bytes that BUILD copies. BUILD takes 234 cycles and a strobe 1041, so at
most `BuildStrobes` of them may come during it; how long a frame waits for the wire is
not bounded. The USB side of the block FIFO, the header and sequence number are left
out. Nothing in the model says what a slot contains, so a slot written over by another
sender is not seen: `OwnFramesAlternate` is about a sender's own frames.

## 3. Runs

Deadlock is checked in every run. No run spends a property on a type invariant: each
module's `TypeOK` is a theorem, for every instance.

| run | instance | result |
|---|---|---|
| `acmp` | 2 inputs, the talkers, saved addresses, commands and console of `Acmp_pass.cfg`, sequence ids modulo 2 | 1216632 states; nine properties hold, among them the refinement of `Sink` and `DeferredAnswered` (liveness) |
| `acmp_ready` | both inputs | `ReadyWhileConnected` violated: one listener attribute for two inputs |
| `acmp_disc` | one query, one disconnect | `DisconnectSticks` violated: the answer reconnects the input |
| `acmp_txsid` | one bind, one talker connect | `TransmitsOwnStream` violated: the listener's stream_id is transmitted |
| `counters` | 3 controllers, 2 slots, sequence ids modulo 3 | 197640 states; six properties hold, among them the refinement of `Subscription` |
| `srp` | 3 talkers, 2 slots, up to 2 ticks between polls | 1565268 states; six properties hold, among them the refinement of `TalkerCache` |
| `mcr` | 2 offsets, FIFO of 2, exit streak 2, 4 CRF packets a binding, polls up to 1 tick late | 4.02 million states; six properties hold, among them `RetriesContinue` (liveness) |
| `mcr_step` | as `mcr` | `StalledIsSilent` violated: a step of the clock restarts a live talker |
| `gptp` | 4 offsets (good, wild, huge on both sides), window 5, lock count 2, polls up to 1 tick late | 714433 states; the refinement of `Discipline` and three properties hold, among them `GoodPairsLock` (liveness) |
| `pdelay` | 4 delays, ids modulo 4, two losses allowed, polls up to 2 ticks late | 25288 states; three properties hold, among them `RequestsContinue` (liveness) |
| `txpath` | 2 senders, 2 slots, packets of 3 blocks, 1 strobe in a BUILD | 406824 states; six properties hold, among them `SendsComplete` (liveness) |
| `tx_stamp` | as `txpath`, packets of 2 blocks | `StampIsOfThisFrame` violated: the stamp read is that of an earlier frame |

**What the properties say.** `ConnectedIsServed` and `NothingServedUnasked` tie
AVDECC's records to the engines in both directions; `ReadyIsReceived` and
`AudioIsExtracted` tie the reservation and the extractor to a bound engine, the extractor
with both of its keys: the stream_id always, the address whenever the controller or the
talker gave the stream's own with the connection. It leaves out one input that the code
does leave silent: parked under a saved address that is not the stream's, learnt by its
talker's entity id (`main.c:717-740`), it keeps the saved address in the slot
(`main.c:785`), which no frame of the stream has (`avtp_extractor.py:289-300`);
`AtMostOneReply` and `StreamOfItsTalker` are about late and
repeated answers (the latter excepts the streams of `Ambiguous`, which it could not do
without: the code compares nothing but the id); `FailureChangesNothing` about refusals; `DeferredAnswered` says
that every deferred command is answered unless its slot is taken over (a second slow
CONNECT_RX for the same input overwrites the slot, `avdecc.c:690`), and
`ImplementsSink` that an input turns exactly when its command is answered with success
or the stream it waits for appears, and to that stream, as far as ids do not repeat. `MediaBalanced` and `ClockBalanced` relate three writers;
`RegisteredOnce`, `PushesContiguous` and `ViewsCurrent` are what a controller relies
on, and `ImplementsSubscription` puts them together step by step: no change without a
push to everyone, no push without a number. `RegistrarKeepsLatest` says the table is exactly the cache of the latest talkers;
`ImplementsCache` that it becomes so by hearing, forgetting and evicting the oldest alone;
`SilenceIsNoticed` bounds how long a silent one is believed; `RegisteredIsHeard` and
`AdvertiseRegisters` are the two directions of `talker_registered`; `NewBeforeJoin`
is the applicant's rule. `LockIsEarned` and `SpikesTolerated` say when a lock of the
media clock begins and ends: a lock is never inherited from an earlier binding, but the
calm delta that earns it may be one of pairs queued before the bind. `DriftSinceBaseline`
says that bind, unbind and staleness in any order never mix two baselines, of which the
current one may be such a pair; `LockIsAlive` that a dead stream is
noticed; `RestartIsJustified` and `RetriesContinue` that its talker is restarted only
then, and then for ever. `LockNeedsSync` bounds how long a gPTP lock outlives its master, a
step and late polls included (a Follow_Up that is used after its Sync has timed out may
lock a listening port, and is excepted); `StepsSettle` that what a step leaves in the
ring causes only so many more; `ImplementsDiscipline` that ring and sort are a sliding
median; `GoodPairsLock` that good pairs lock again whatever came before. `SampleIsWhole`
is about late and doubled answers (two transmissions of one request share an id and may
be mixed), `LossesCounted` about a count kept in one place and reset in another.
`PacketsAreWhole` says that the halves change hands in time and that no turn is lost
uncounted, although nothing makes the strobe wait; `OwnFramesAlternate`, `FirmwareFirst`
and `SendsComplete` are about the port that four senders share, `WaitShrinks` is the
reason for the last: a rank that every step of the reader, the arbiter and the wire
lowers and none raises while `eth_send` waits; `ReleasedIsSilent` is about the switch, and
counts packets: the turns of a half that is partly filled at the release are kept and
completed after the next enable, which it does not catch. The operator's `t` takes the AAF engine away from the
listener on purpose; properties of the AAF input exempt that (`Hijacked`).

**Bounds.** `MaxSeq` and `MaxCount` stop `Acmp`'s counters. With `SEQ = 2` and
`MaxSeq = 3` the id wraps: the third request carries the id of the first, so an answer
meets a slot that has been reused, in its own turn or under the same id, and without the
clause on `Ambiguous` the run finds `StreamOfItsTalker` violated. The clause is empty
before the first wrap for any `SEQ` (`RightTalker`).
`RESOLVE_TIMEOUT` is small, so that time-outs race answers. `MaxLock` stops the LOCKED counters; `SEQ = 3` makes the sequence ids
wrap within a session; three controllers on two slots fill the table and reuse slots.
In `srp` three talkers on two slots force evictions, `JOIN = 2` and
`LEAVEALL = 1` give polls with and without a join due and expiry after 3 ticks, and
`MaxLag = 2` lets a poll come late. Controllers and talkers are symmetric where
`SYMMETRY` is used (no liveness is checked in those runs).

In `mcr` four packets are a baseline, a lock and the two wild samples that end it; a
rebind in between carries a streak over; a FIFO of two pairs holds a baseline and a calm
delta of an earlier binding, or one pair of either, and is full; and
`STALE = 1`, `STALL = 3`, `RETRY = 1` let both watchdogs fire within a binding.

In `gptp` the window has its real length, so a jump meets every mixture of old and new
offsets; the thresholds separate the four offsets, `LOCK = 2` replaces 8, and
`TIMEOUT = 2` with one tick of lag separates a punctual time-out, a late one and a
Follow_Up between the two. In `pdelay` ids modulo 4 keep the exchange at hand, the one
before and the next apart and still wrap. In `txpath` two slots are the real number;
three blocks with one strobe in a BUILD let the writer come as near to the reader as the
clocks allow, and three turn names tell a half's content from that of its neighbours.

**Fairness.** `FairSpec` of `Gptp` and `Pdelay` assumes weak fairness of the clock and of
`gptp_poll`; that pairs come and are good, or that the clock is no longer stepped, are
premises of the properties. `FairSpec` of `TxPath` assumes it of firmware inside
`eth_send` and of the reader, the arbiter and the wire, which are clocked logic and wait
for nobody; the media clock and the console are not assumed to do anything. `FairSpec` of `Mcr` assumes weak fairness of the clock and of each phase
of the main loop; `RetriesContinue` moreover assumes that gPTP stops stepping the
clock. `FairSpec` of `Acmp` assumes weak fairness of `Tick` and of
`AvdeccPoll` and of nothing else: the loop of `main()` never blocks for ever and calls
`avdecc_poll` on every pass, and the clock is a free-running counter. No fairness of
controllers, talkers or the network is assumed.

## 4. Proofs

For every value of the constants that satisfies the named assumptions
(`BindingsAssumption`, `AcmpAssumption`, `CountersAssumption`, `SrpAssumption`, `McrAssumption`,
`GptpAssumption`, `PdelayAssumption`, `TxPathAssumption`: the distinguished values are not members, the table sizes and periods are positive,
`OwnerOf` and `DestOf` are functions, `EidMatch` is reflexive, `ENTER <= EXIT + 1`, the
servo's thresholds are ordered, a BUILD sees fewer strobes than a packet has blocks):

* `AcmpProofs!TypeCorrect`: `TypeOK`. Its part `TalkerKnown` (what is connected or
  queried names a talker) is needed for the functions `OwnerOf` and `DestOf` to be
  applied inside their domains.
* `AcmpSafety`: `BindingsAgree` and its parts, `AnsweredOnce`, `RightTalker`, `FailureIsHarmless`. The agreement of bindings
  is inductive only together: that a connected input is served needs that an input
  that is not connected has nothing parked, the reservation needs the engines, and the
  slot's address needs that an input is parked under the address given (`ParkedAsGiven`).
  Answers need `AnswerableOnce`, the strengthening of `AtMostOneReply`: ids and
  commands in progress are distinct and unanswered, requests on the wire are older than the
  next one. `RightTalker` rests on arithmetic modulo any `SEQ`: two requests with the same id
  are a multiple of `SEQ` apart (`SameIdIsFar`), so an answer that completes another's query
  is of `Ambiguous` (`MistakenIsAmbiguous`), which only grows (`AmbiguousGrows`).
  `ConnectionsImplementSink` is the refinement of `Sink`: one lemma per handler, resting
  on how one input's records decide what it does (`SinkOf`) and what turning it takes
  (`SinkTurns`). It needs the whole of `IInv`: that a query's command waits is
  `AnswerableOnce`, that a granted input plays what it was asked to is the agreement
  of the bindings, that a parked input waits for at least one stream is the reflexivity of `EidMatch`.
  `QueriesEndAnswered` is the provable half of `DeferredAnswered`: no query is dropped
  in silence and none grows younger.
  Three theorems say where this component's findings end. `OnlyAnswersRevive`: an input
  its controller gave up comes back only by a granted answer to the query that was in
  progress. `OneInputIsReady`: while one stream input is out of use, the other has its
  Listener Ready whenever it is connected and bound. `TalkerAloneIsTrue`: while the AAF
  input is never bound to a remote stream, the talker transmits under its own
  stream_id. The last two have an assumption on the whole behaviour (`[]Unused("AAF")`,
  `[]OnlyTransmits`), which is how the endpoint is used with one stream at a time.
* `CountersProofs`: `LockCountsBalanced` and `ControllersInStep` with their parts, `CountersTypes`. `IInv` adds to the properties that a free
  slot's and an active slot's controller are told apart (`SlotsNamed`) and that the
  clock's baseline is what was adopted (`Baseline`). The strongest case is
  `Register`, whose slot search is a choice of the lowest member of a set.
  `PushesImplementSubscription` is the refinement of `Subscription`. That a bumped count
  stays next to the other (`Near`) comes from `MediaBalanced` and `ClockBalanced`, the
  ids from `PushesContiguous`, what was told from `ViewsCurrent`, and that a
  controller which found a slot found room from counting slots against subscribers.
* `SrpProofs`: `RegistrarIsCache`, `RegistrationIsCurrent`, `NewsBeforeJoins`, `LearnedIsRegistered`, `SilentIsForgotten`, `SrpTypes`. `IInv` adds `Timely` (ages are bounded by
  `AGE` plus the lag of the poll), `Blank` (free slots are blank), `Applicant` (the
  sent NEWs are the counters) and `FreshNamed`. That a least recently seen slot exists
  is proved from well-foundedness of the naturals (`WFMin`).
  `TableImplementsCache` is the refinement of `TalkerCache`: the table is a function on
  slots, the cache one on talkers, and `CacheIsHeard` glues the two by
  `RegistrarKeepsLatest`; that a full table is a full cache is counting
  (valid slots and known talkers correspond one to one, `HeldFits`).

* `McrProofs`: `LocksAreEarned`, `IntegralIsDrift`, `JitterIsTolerated`, `LocksDie`,
  `RestartsAreJustified`, `McrTypes`. `IInv` adds that while locked the exit streak is the row of
  wild samples and that a calm delta made the lock (`StreakCounts`, for which a calm sample
  must end a row), and that a servo
  without a baseline has no integral (`Memory`). `Timely` relates the watchdogs'
  snapshots and ages to the silence: a count that moved was fed in this pass, one that
  did not is as old as the silence but for the lateness of one poll.
  `RestartsDrawNear` is the provable half of `RetriesContinue`: a rank (`ToRestart`) that
  ticks and due passes lower and nothing else touches, a step of the clock excepted.

* `GptpProofs`: `GptpTypes`, `LocksFollowSync`, `JumpsSettle` and `RingImplementsWindow`.
  `Timely` bounds `silence` by the age of the stamp and what a step may have added to it;
  `Attended` says that the port of a lock that is not an orphan's is `slave`; `Stepped`
  that the servo has stepped once anything is in the ring; `Ringed` that the ring fills
  from its start; `Quiet` that the last `calm` offsets of the window are not huge. The
  refinement has three parts, each for any window length: entering the ring slides the
  window (`RingSlides`); the insertion sort finds the middle (`MedianFound`); every step
  of the servo is one of `Discipline`. The sort is a recursive function, so that its
  existence (`SortExists`) and its loop invariant (`SortRanks`) are proved by the least
  counterexample (`WFMin`). The invariant, `Ranked`, avoids permutations: element `i` is at most `v`
  just when at least `i` of the offsets are. One round of the sort keeps it
  (`InsertKeepsRank`), and it puts half of the offsets on either side of element
  `n / 2` (`RankedMiddle`). `JumpsSettle` follows by counting: a huge median needs half of the window huge.
  So does `LockIsMajoritys`, the provable half of `GoodPairsLock`: while most of the window
  is good every tuning counts towards the lock or keeps it, and a lock is lost only to a
  Sync time-out or to a window of which at least half is bad.
* `PdelayProofs`: `PdelayTypes`, `SamplesAreWhole`, `LossesAreCounted`. Samples need that
  the ids of this exchange and of the one before differ, which the next id is
  only as long as ids do not wrap within three exchanges (`SEQ > 2`).
* `TxPathProofs`: `TxPathTypes`, `PacketsArrive`, `ControlGoesFirst`, `ReleaseTakesEffect`
  and `SlotsAlternate`, for any number of senders, slots and blocks. A packet is whole because the blocks not
  yet copied are of its turn: the strobes of a BUILD are fewer than the blocks of the
  other half, so the writer cannot come round. Slots alternate by `Behind`: as many
  frames stand behind a queued one as its sender has filled slots since. `SendsAreServed`
  proves the rank of `WaitShrinks`: what is left of `SendsComplete` for TLC is that the
  fair steps happen.

Model-checked only: `DeferredAnswered`, `RetriesContinue`, `GoodPairsLock`,
`RequestsContinue` and `SendsComplete`, since liveness under fairness is beyond the proof
system's reach; of all but `RequestsContinue`, whose timer has nothing to prove but its own
assignments, a safety half is proved, as told above. The five violations are
counterexamples, not theorems.

## 5. Plan

Built so far: 1. `Acmp` with `Bindings` and `Sink`; 2. `Counters` and `Subscription`;
3. `Srp` and `TalkerCache`; 4. `Mcr`; 5. `Gptp`, `Discipline` and `Pdelay`; 6. `TxPath`;
the proofs beside each. What is left:

1. An abstract specification of the media clock's two watchdogs (a stream that is alive,
   silent or being restarted) and of a path delay measurement (ask, sample or give up),
   implemented by `Mcr` and `Pdelay`.
2. The receive path: the two receive slots of `dispatch_rx`, the drain of the sample
   FIFOs and the DAC's pacing.

## 6. Not modelled

Descriptor and name responses and ADP: layout, and state that nothing else reads. MVRP:
one declaration repeated for ever. The software talker of `aaf.c` and `usb_aaf_drain`:
whenever `tx_enabled` is set the gateware owns the stream (`main.c:579-592`, `800-803`)
and the loop skips both (`main.c:1164`), so the transmit ring is never used. The contents
of frames and descriptors, the PI arithmetic of both servos and all statistics.
Generated and vendored Verilog; superseded gateware and firmware under `*_backup`; build
and placement scripts.
