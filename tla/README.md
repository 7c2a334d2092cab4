# Verification of serialsystem

serialsystem is the charging communication of a billing control unit (TCU): it
runs a charge with a charger over a CAN bus. This directory holds TLA+ modules
of its state machines, the configurations that TLC checks them with, and proofs
that TLAPS checks. The code is `src/tcu.c` with `src/tcu.h`, the timer pool
`src/Hachiko.c` with `src/Hachiko.h`, and the start-up `src/serialsystem.c`.

## 1. Inventory

| part | state | operations | interacts with |
|---|---|---|---|
| session state machine (tcu.c, `struct charge_task`) | `tcu_stage`, `tcu_tmp_stage`, `tcu_wait_stage`, `tcu_heartbeat_stage`, `tcu_time_stage`, `tcu_err_stage`; per packet in `generator[]`: `heartbeat`, `can_silence` | 1 ms callback, events of `can_packet_callback`, the answers' handlers, the console's commands | all threads share the fields, no lock |
| timer pool (Hachiko) | `pool[32]`, each timer's `status` and `remain` | `_Hachiko_new`, kill, pause, resume, feed, the signal handler's sweep | called by the threads, calls the notify procedures |
| multi-packet transport (tcu.c, TP) | `can_tcu_status`, `can_tp_param`, `can_tp_bomb`, the read thread's `tp_buff` | RTS, DT in; CTS, ACK out; 1250 ms give-up | read thread, write thread, timer pool |
| write thread | its packet, `nbytes` | start-up events; every 5 ms one packet built, written, completed | session, transport |
| read thread | its frame | classifies frames, collects packets, hands messages over | session, transport |
| console thread | none | menu numbers start a stage | session; its creation is switched off (serialsystem.c:111) |
| packet contents | the `*_info` structs, packed one after another in `struct charge_task` | `set_data_*`, `gen_packet_*` (write thread), `recv_data_*`, `analysis_data_*` (read thread) | session (accept or reject) |
| conversions, CRC | none | pure functions | one constant call; CRC is never called |
| start and stop (serialsystem.c) | `task`, thread handles | `tcu_canbus`, `tcu_canstop` | creates timer and threads; a stop keeps what the structs hold |
| log, error codes, makefile, services outside the repository | - | - | - |

`PROJECT.json` lists the same parts with what is modelled of each, and under
`hazards` every place that is hard to test, with the properties that cover it.

How the parts interact: the 1 ms signal sweeps the pool and calls the session's
callback, which counts every packet's period and every request's silence. When
a keep-alive (heartbeat THB or clock TTS) is due the callback *overlays*
`tcu_stage`; when a request's silence passes its limit it assigns TIMEOUT. The
write thread looks at `tcu_stage`, sends the packet that is due, and its
completion either ends the overlay (`tcu_stage = tcu_tmp_stage`) or moves the
session on. The read thread moves the session on with the charger's answers.
While a multi-packet message is being received (`can_tcu_status` is CAN_TP_RD)
the write thread serves only the transport.

What is hard here, and what makes each part correct:

* **Session.** An overlay takes `tcu_stage` while answers, timeouts and commands
  arrive; it must lose no phase (`PhaseKept`), must end (`OverlayEnds`), and must
  not mix its time into a request's (`FreshTimeout`, `TimeoutNamesPhase`). A
  completed TRST stops every counter, so it must happen only at the end
  (`MutedOnlyAtEnd`), and nothing that was due may slip out after it
  (`MutedSendsNothing`). Overall the phases come in order, as built
  (`SessionImplemented`) and with an operator (`OperatedImplemented`).
* **Session, statement by statement.** Test and assignment are separate, two
  fields are assigned one after the other, and nothing is locked: torn updates
  must heal (`Settles`), a stop must win (`StopPrevails`), and silence must
  never come early (`MutedAfterReport`).
* **Timer pool.** Threads register and kill timers while the signal sweeps:
  no timer may be late (`NotLate`) or early (`NotEarly`), and slots must come
  back (`KilledLeaves`).
* **Packet contents.** The structs are stored byte by byte by one thread and
  compared by another, past their ends and without a lock, and two packets are
  copied from another packet's struct: the version check must conclude the right
  thing (`VersionVerdict`), acknowledgements must say success
  (`AcksSaySuccess` for connection and stop; for the start, finding **acks**),
  overlong prints must not reach what others rely on (`PortSurvivesHeartbeat`),
  and from the heartbeat and the clock one must be able to tell what they were
  filled from (`HeartbeatIsText`, `ClockIsBinary`).
* **Transport.** Requests interrupt each other, packets are counted and not
  checked, the timer and two threads write one status: messages must not be
  mixed (`WholeMessage`), an open connection must be watched (`BombWatches`)
  and must end (`ConnectionEnds`). Seen from outside, messages come in order, once,
  and are acknowledged after their delivery (`ServiceImplemented`).

## 2. Modules

```
TCUTables        constant tables: packets, stages, answers, commands
  TCUStage         the session, one step per handler       -> TCUStage_proofs
    ChargeSession    what the session promises (refined by TCUStage)
      OperatedSession  what it promises with an operator (refined by TCUStage)
    TCUWrite         TCUStage with write()'s result        -> TCUWrite_proofs
  StageThreads     the two stage fields, one step per statement
                                                           -> StageThreads_proofs
  PacketData       what the packets say, over Conversions   -> PacketData_proofs
Conversions      the number conversions                    -> Conversions_proofs
Hachiko          the timer pool                            -> Hachiko_proofs
  CanTP            the transport, over the pool            -> CanTP_proofs
    TransferService  what the transport promises (refined by CanTP)
```

Each `MC*` module gives constants to TLC, each `.cfg` is one run.

**TCUStage.** Variables carry the source's names; `boot` is the write thread's
position in its start-up, `tx` the packet it has built, `slept` the ticks since
its last loop. `asked` is a history variable: the phase's own packet has been
built since the phase was entered. Actions: `EventInit`, `EventHeart`,
`EventTime` (start-up), `Tick` (the whole callback, both loops in table order),
`TxRequest` / `TxNothing` (EVENT_TX_REQUEST), `TxDone` / `TxFails`,
`RecvAccepted` / `RecvRejected` / `RecvIgnored` for the six answers that matter,
`RecvCST`, `TpOpen` / `TpClose` (the transport seen from the session), and
`Command`. Details kept: the first loop visits TRC, TST and TTS before a clock
overlay and the others after it; a tick zeroes every counter that is not
counted; any answer restarts its request's silence, expected or not; CST is
taken in every stage; CONNECT and START clear `tcu_wait_stage` when the write
thread looks. Packet contents are abstracted to accepted or rejected. A tick is
one millisecond; the signal is taken to be delivered once per tick.

**ChargeSession** is the abstract specification: phases in order, a timeout only
where an answer is awaited, acknowledgements written before they count.
`phase <- tcu_tmp_stage` is the refinement mapping.

**OperatedSession** is the abstract specification with the console: commands enter
phases of `Entries` at any time, also while a packet is on its way out, and
`out` and `muted` (mapped to `StageOf[tx]` and to `tcu_wait_stage = "ANY"`) say
what ChargeSession leaves open: an acknowledgement leads on only if its phase is
the current one when it has been written, only the report of an end silences
the unit, and only a start or a connection wakes it. It does not promise that
an acknowledgement is of the phase's current visit: a command may enter the phase
anew under the packet, and the code then takes the old packet for the new one.

**TransferService** is the transport without frames, threads, timers and buffer:
connections are asked for and accepted in order, only the latest accepted one is
delivered, once unless it was disturbed (`spoilt`), and every delivery (`handing`,
mapped to the read thread's position) is followed by the wish to acknowledge it.
Any message may be lost.

**TCUWrite** adds the result of write() to TCUStage and decides with the code's
own comparison between `TxFails` and `TxDone`.

**StageThreads** drops the assumption that a handler is one step. Each of the
four activities has a list of assignments still to make (`left`) and their value
(`value`); others run between any two. Counters are replaced by "due" and "late"
at any moment, which allows more than the code does. The makefile builds with
`-g3` and no optimisation, so the order of the two assignments is the source's.

**Hachiko.** `pool`, `status`, `remain` as in the code; `cursor` is the slot the
handler visits next, so that user calls fall between two visits; `picked` is the
slot a registration has found and not yet filled; `age` is a history variable
counting sweeps. Registration is two steps (`NewPicks`, `NewPublishes`), a visit
is one (`Skip`, `Reap`, `Hold`, `CountDown`, `Expire`). A timer in `Again` may be
registered while it is in the pool, as `can_tp_bomb` is.

**CanTP** EXTENDS Hachiko: its timer steps are the pool's own actions. The read
thread (`RTSArms`, `RTSRefused`, `RTSArmed`, `RTSAccepted`, `DTDropped`,
`DTStored`, `Deliver`, `AskForACK`, `SingleTaken`) and the write thread (`Build`,
`Write`, `LooksForCTS`, `AwaitData`, `Settles`, `Close`) are split where they
share `can_tcu_status`; `Sweep` is a visit with its notify procedure. The charger
and the bus are outside the repository: the charger asks for a connection at any
time, sends its data in order once cleared, and single frames in between; the bus
keeps the order of its frames. Packets are reduced to the connection they belong
to. Abort (0xFF) and unknown control bytes change no state in the code and are left out.
The code stores a data packet at the place of its number and counts it, whatever the
number is (tcu.c:1302-1313); the charger is taken to number its packets from 1 in order.

**Conversions** has one operator per conversion function, on sequences of bytes,
and what `sprintf("%d")` prints.

**PacketData** is the memory of the structs, one byte per element, because the code
reads and writes past their ends. `tx`, `step` and `frame` are the write thread:
`Begin` (EVENT_TX_REQUEST), one `Store` after another as the statements fill the struct,
`Copy` into the frame, then `Sent`, `Fails`, or `Cancelled` by a stop. Every struct is
filled with `INIT`, 0xFF, by its first store (`Fill`); what the later stores do not
assign stays 0xFF, the reserved byte of the heartbeat among it. Where the read thread
may look in between, each assignment is a store of its own: the version is packed
digit by digit, the parameters behind it and the connection's acknowledgement are
assigned byte by byte; elsewhere assignments that follow one another are one store. TRC
and TST fill the version and then assign their own struct, as the code does. `rx`
is the read thread's position in `strcmp`: `VersionTaken` stores the charger's
answer, `VersionSame` goes a byte on, `VersionAccepted` and `VersionRefused`
conclude. While the parameters are 0xFF the comparison can go on into them, but no
further than TRC's port, byte 9, which nothing makes anything but 0. The answers that lie
where it reads on the other side (`ParametersAnswered`, `Started`, `RecvCST`,
`Connected`) store their bytes (`Reported`); the other two (`Accepted`), the timeout, the
commands and the stop move only the phase, which TCUStage models in full. A keep-alive
may be built at any time. `Stop` and `EventInit` are a stop and a second start: the stop
clears the stage alone. The second start is taken to come when both threads have ended,
and the messages that are printed while a packet is filled are not taken as points where
a cancelled thread ends. `meter` and `clock` remember what a heartbeat and a clock packet
were filled from, `steady` whether the unit's version was in its place during the whole
comparison.

CanTP assumes two things of the scheduler, both named in the module.
`Undisturbed`: with `Preempted = FALSE` nobody else runs between the write
thread's test of `can_tcu_status` and the assignment on the next line (run
`preempted` shows what happens otherwise). `JustFed`: the read thread does not
spend the timer's whole life between loading the timer and its next statement.

## 3. Runs

| run | kind | distinct states | what it shows |
|---|---|---|---|
| session | pass, liveness | 32,160 | as built (no console, so the phases up to WAITSTART and the stop), any answers at any time: types, `MutedOnlyAtEnd`, `MutedSendsNothing`, `SessionImplemented`; overlays end (`OverlayEnds`), heartbeats flow (`HeartbeatFlows`), a connection report is acknowledged (`ConnectionAnswered`) |
| operator | pass | 664,928 | every menu number and a wrong one at any time, transfers blocking the writer: `PhaseKept`, `SilenceWithinLimit`, `FreshTimeout`, `TimeoutNamesPhase`, `OperatedImplemented` |
| threads | pass, liveness | 127,213 | statement interleaving: `MutedAfterReport`, `Settles`, `StopPrevails` |
| pool | pass, liveness | 217,073 | registrations, kills, pauses, feeds inside sweeps: `NotLate`, `NotEarly`, `KilledLeaves` |
| transfer | pass, liveness | 292,458 | three connections interrupting one another: `BombWatches`, `WholeMessage`, `ServiceImplemented`, `ConnectionEnds` |
| packets | pass | 2,513,136 | packets filled store by store, 0xFF first, while answers are stored and compared, over stops and second starts: `VersionVerdict`, `AcksSaySuccess`, `PortSurvivesHeartbeat`, `HeartbeatIsText`, `ClockIsBinary`, `ConversionsInverse` |
| starved, lost, acks, clear, telemetry, preempted | violation | - | the findings below |

Every property of a passing run is broken by at least one mutant of the code's
model (an off-by-one, a dropped guard, a forgotten reset); the mutants stand
beside the definitions they change and are listed in `PROJECT.json`.

### Bounds

* *starved, lost.* The code's periods are 250 (acknowledgements), 500
  (TCV, TCP), 502 (clock) and 1002 ms (heartbeat), the limit 5000, the loop 5 ms
  or later. The model has 2, 4, 5, 10, limit 6, loops 2 to 3 ticks apart: the
  order and the near-coincidences (clock just after request, heartbeat after two
  of them) are kept, every overlay falls into every phase, and a request can time
  out with overlays inside its silence.
* *session.* Liveness needs a smaller graph: 1, 2, 3, 5, limit 3, loops 1 to 2
  ticks apart. Order and near-coincidences are the same; keep-alives are relatively
  more frequent than in the code, which makes starving harder to exclude. The safety
  properties were checked with 2, 4, 5, 10 as well and hold.
* *operator.* Periods 1, 1, 2, 2, limit 2; all menu numbers (1, 2, 3, 4, 6, 8, 9)
  and 5 for a number outside it; `Multipacket = TRUE`.
* *threads.* One command of {4, 6} (start, stop) on top of what the charger
  sends, so that all phases and all four activities occur. Two commands were
  checked as well (450,886 states); they show nothing new and take three minutes.
* *pool.* Three slots, the session's automatic timer and the transport's one-shot
  timer, 2 and 3 sweeps long. Three slots are enough for a timer to sit in two
  slots while the other timer has one, and for the pool to be full.
* *transfer.* Three connections with 3 and 2 packets in turn (so that leftovers of
  a longer message could complete a shorter one), two frames in the socket, two
  slots, a timer of two sweeps. Four connections with two frames, and three
  connections with three frames, were checked as well and hold.

* *packets.* Two readings of the meter, each with one number at the documented end
  of its range (1000 kWh, 6000 minutes) and two digits in the other, so that every
  spill happens; one moment, the last millisecond of a minute on a Sunday in
  January, where the clock's packing has its edges; the unit's own version and the
  half-built one; a yes and a 0xFF as answers to the parameters, the byte that equals
  the fill on the other side; reports of success only, their other bytes 0xFF, and the
  unit's port, which go on comparing furthest; the commands that ask for the version,
  for the parameters and for a start. A stop by command, foreign ports and failing
  reports are left to the theorems, which take any.
* *acks.* The same inputs and only the command that starts, which TRSF needs.

Deadlock is checked in every run: the timer never stops, and in PacketData a
stopped unit can always be started.

### Fairness

* The 1 ms timer is periodic and never stopped: `WF(Tick)`, `WF(Visit)`,
  `WF(Sweep)`, and in StageThreads `SF(Overlay)`: a keep-alive's period ends again
  and again, which `Tick` counts.
* The threads are endless loops with a 5 ms sleep: WF of the start-up events, of
  finishing and completing packets, and of the transport's statements.
* `SF(TxRequest)` for the clock, heartbeat and connection acknowledgement, and
  `SF(Build)` for the keep-alives: loop, timer and charger are not locked in
  phase, so that a packet which comes due again and again is not missed for ever.
  It is not assumed for the requests, which `starved` shows to be cancelled.
* `<>[][~TxFails]`, `<>[][~Fails]`: the bus recovers at some time.
* `WF(TpClose)` in TCUStage: a transfer ends. This is `ConnectionEnds` of CanTP.
* Nothing is assumed of the charger, except in `StopPrevails`, which says itself
  that the charger keeps reporting.

## 4. Findings

Each is a violation run with a counterexample; `PROJECT.json` quotes the line.

* **starved** (tcu.c:466). The clock packet's period ends 2 ms after a request's,
  the write thread looks every 5 ms, and leaving the stage zeroes the request's
  counter: a request that was due is cancelled and waits a whole period more. The
  comment at 666 and 692 promises first come, first served.
* **lost** (tcu.c:1150). write()'s -1 is compared as an unsigned number, so a failed
  write raises EVENT_TX_DONE. The session moves on, or is muted, because of a
  packet that never went out; EVENT_TX_FAILS comes only for a short count.
  As a consequence `SessionImplemented` speaks of acknowledgements *written*, not
  of acknowledgements on the bus.
* **acks** (tcu.c:1769). The acknowledgement of the start is copied from the heartbeat's
  struct instead of its own. The heartbeat's third byte is reserved, filled with 0xFF and
  never assigned, so that after any heartbeat the status of the acknowledgement is 0xFF
  where set_data_tcu_PGN4608 assigns 0 (1784) and tcu.h:280 says that 0 is success; and its
  load control is 0, the heartbeat's status, where 1783 assigns 2 (tcu.h:279 has 1 for on,
  2 for off). Before the first heartbeat both bytes are 0. Only a start from the console
  leads to this packet.
* **clear** (tcu.c:1171). A connection accepted while a session packet is being
  written makes the write thread await data without ever sending the CTS. The
  1250 ms timer ends it.
* **telemetry** (tcu.c:1423). A single frame between two data packets is copied over
  the first eight bytes of the message being collected, which is delivered.
* **preempted** (tcu.c:1172). If the timer ends a connection between the write
  thread's test and its assignment, the connection is open with no timer.

Observations without a run, because the console's thread is not started, because
no line of the repository says otherwise, or because the values come from outside:

* After a finished charge every packet counter is stopped (`tcu_wait_stage`,
  tcu.c:1033). The console's command 1 does not start them, so its version check
  sends nothing and times out.
* The heartbeat's energy and minutes are sent as text where tcu.h:387-388 has numbers in
  units of 0.1 kWh and 1 min: read as such, in either byte order, they are never what was
  measured (`HeartbeatIsText`). In standby they are the character '0', not 0. An energy of
  10.0 kWh or more has three digits for two bytes: the minutes are printed over the rest,
  and what arrives is a tenth or less of it (tcu.h:387 gives the range 0 to 1000 kWh).
* The clock's fields are named and commented as packed BCD (tcu.h:199) and sent binary:
  minute, hour, month and year are right below ten only (`ClockIsBinary`).
* While the acknowledgement of a connection is being filled the unit's port is 0xFF for
  one statement (tcu.c:1845-1846): a report of the connection that is compared just then
  (2018) is not taken if it is for port 0, and would be if it were for port 255.
  `PortSurvivesHeartbeat` names this moment.
* A charger with the right version is refused while `crcp_info` holds a refusal of the
  parameters, over a stop and a second start as well, since `strcmp` reads on into it. It is
  refused as well if the parameters are being filled with 0xFF (tcu.c:1579) during the
  comparison, as an operator who types command 1 next to command 2 makes possible,
  although the charger's answer to them was a yes. `VersionVerdict` names these two exceptions. A foreign version passes
  only while the unit's own is being built, or before it has been built: TRC and TST leave
  it at 0xFF 0xFF.

## 5. Proofs

TLAPS proves these for every value of the constants, from the ASSUMEs of the
modules (positive periods, limits and lengths; at least one slot; messages of two
packets or more; commands from the menu; readings and moments in their ranges). TLC evaluates the same assumptions.

* **TCUStage_proofs.** `TypeCorrect`, `PhaseIsKept`, `SilenceIsBounded` follow from
  `Inv == TypeOK /\ PhaseKept /\ SilenceWithinLimit`; the conjuncts need one another
  (a timeout may write only a phase because the stage it interrupts is one).
  `TimeoutsNameThePhase` is an action property from the same invariant.
  `TimeoutsAreFresh` needs `FreshInv`: only the version check at start-up and the
  parameters after it are entered without a command, and neither counter has run
  before; every other entry clears its counter in the step that enters.
  `MutedOnlyAtTheEnd` and `SessionIsImplemented` hold for `Commands = {}` and need
  a second invariant, `SessionInv`, that ties the packet in flight to the phase
  that built it: a TRST in flight means STOP_END, a TRCT in flight means a CONNECT
  that has asked, or STOP_END.
  `OperatedIsImplemented` drops the assumption: for any commands, every step is a
  step of OperatedSession or a stutter, from `Inv` alone.
  `MutedIsSilent` holds if the write thread sleeps for a tick at least (`Poll # 0`;
  the code sleeps 5 ms, tcu.c:1079). Its invariant, `SilentInv`, says that a muted
  unit has no packet in flight, and that once a tick has passed since the thread's
  last loop all counters are zero: what was due, or took the stage over, while the
  last packet was being written is gone before the thread looks again.
* **TCUWrite_proofs.** `WriteImplementsSession`: deciding by write()'s result between
  `TxFails` and `TxDone` is a step of TCUStage, so all of its theorems carry over.
  `ShortIsCount`: the unsigned comparison of tcu.c:1150 is true exactly of a count
  that is too small. `PartsAreNeverTaken`: what the finding **lost** leaves intact;
  only a failure is mistaken for success, a short count never. The last two need
  `Sizes`: packets fit a frame, and a frame's length is far below the unsigned range.
* **StageThreads_proofs.** `TypeCorrect` and `MutedOnlyAfterReport`, for any commands
  and any interleaving. `MutedAfterReport` is not inductive, since a thread may
  assign what it read long ago; `EndAfterReport` says that the report has come as
  soon as *anything* - field, pending assignment or packet - holds the end.
* **Hachiko_proofs.** `PoolTypeCorrect`, `NeverLate` and `NeverEarly`, for any pool and
  any timers. Lateness: remaining count plus age, corrected for whether the cursor
  has passed one of the timer's slots in this sweep, never exceeds the length
  (`LateInv`). Earliness holds for timers registered once at a time, and needs that
  such a timer sits in at most one slot (`OneSlot`).
* **CanTP_proofs.** `PoolIsImplemented`: every step is a step of Hachiko or leaves its
  variables alone, so that `BombNeverLate` follows from Hachiko's invariant.
  `TypeCorrect`. `ConnectionsAreWatched` (for `Preempted = FALSE`) by `WatchInv`,
  which says at each position of both threads whether the timer runs.
  `MessagesAreWhole` holds whether the write thread is preempted or not. Its
  invariant `WholeInv` names the frame that the read thread took last, packet `n` of
  connection `t` (0 is the request): the frames on the bus go on from there in order
  and without gaps up to the one the charger sent last (`Follows`), and the read
  thread has counted at most `n` packets of the connection, all of which are in
  their places if it has counted `n` (`Collected`). A full count therefore means
  all of them, although the code compares nothing but the count.
  `ServiceIsImplemented`: the steps refine TransferService, whether the write thread is
  preempted or not. On top of `WholeInv` it takes `ServiceInv`: whatever may be
  delivered belongs to a connection that was accepted; that a connection being
  accepted is newer than the last one follows from the frames' positions.
  `ConnectionsEndInTime` (for `Preempted = FALSE`) combines the pool's and the
  transport's results: the timer that watches a connection is within its length.
* **Conversions_proofs.** `DecimalComesBack` (`DectoBCD` and `BCDtoDec`, six digits),
  `BinaryComesBack` (`DectoHex` and `HextoDec`, two bytes), `InvertedTwice` (`convert`,
  any length), `DigitsComeBack` (`bcd2str` and `str2bcd`, two bytes). Those with a
  loop are stated for the lengths that the packets have, so that it is unfolded a
  fixed number of times and no induction is needed.
* **PacketData_proofs.** `TypeCorrect`, `AcknowledgementsSaySuccess`, `PortSurvives`
  and `VersionIsJudged` from `Inv`. `ZerosKept` says of the bytes that are relied on (what
  the acknowledgements of connection and stop report, the port, and the first byte of the
  parameters) that each is zero but between the fill of its own packet and the next
  store, and of TRC's port that it is zero always; every store is `Harmless`, by its
  packet and its number: it writes a zero there, is that packet's fill, or lies beside.
  `FrameLate` says that a packet is copied only after those stores, and `Judging` that a
  comparison that is going on has found the charger's bytes equal so far. The bound of
  `rx` in `TypeOK` rests on TRC's port. `HeartbeatIsTrue` and `ClockIsTold` need a second
  invariant, `Kept`, that says which characters and bytes are in the struct between its
  last store and the copy. `ConversionsAreInverse` follows from `TypeCorrect` and the
  conversions' theorems.

Only model-checked: everything temporal under fairness (`OverlayEnds`,
`HeartbeatFlows`, `ConnectionAnswered`, `Settles`, `StopPrevails`, `KilledLeaves`,
`ConnectionEnds`), since liveness is out of the prover's reach. That the conversions
undo one another for every length is neither checked nor proved: it takes an
induction over the recursion, which is out of its reach as well.

## 6. Not modelled

* The bytes of transport frames: which end of the PGN the CTS and the ACK send first
  (tcu.c:784) matters to the charger only.
* Telemetry (PGN 8448, 8704), which is copied and printed, and the status bytes of
  the answers to start and stop, which only their own handler reads: accepted or
  rejected.
* The second signal timer after a stop and a second start (Hachiko.c:151).
* CRC and byte order helpers: called by nothing.
* Sockets, logging, makefile (no state), and the services whose sources are not
  in the repository. What logging shares with the rest - the C library's locks, which
  the signal handler takes too, and localtime()'s buffer - is listed under `hazards`.
* Lost or repeated timer signals: a tick is one delivery.
* The other fields of `struct charge_task` (meter, times): written by nothing here, or
  written and not read.

## 7. Plan

Done: TCUTables, TCUStage, ChargeSession, OperatedSession, TCUWrite, StageThreads,
Hachiko, CanTP, TransferService, Conversions and PacketData, with their proofs. Next,
in this order:

1. **Lifecycle**: stop and second start over the pool, with both signal timers.
2. The session and the transport composed: `TpOpen` and `TpClose` of TCUStage shown
   to be what CanTP does to `can_tcu_status`.
3. An abstract specification of the timer pool (a set of timers, each with a count
   and no slots) and the proof that Hachiko implements it.
