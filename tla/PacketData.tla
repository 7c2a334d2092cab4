----------------------------- MODULE PacketData -----------------------------
(***************************************************************************)
(* What the packets of the session say: src/tcu.c, gen_packet_tcu_PGN*,    *)
(* set_data_tcu_PGN*, recv_data_tcu_PGN*, analysis_data_tcu_PGN*.          *)
(*                                                                         *)
(* The *_info structs lie packed, one after another, in struct             *)
(* charge_task.  The write thread fills them store by store, first with    *)
(* INIT and then field by field, and copies one of them into its frame;    *)
(* the read thread copies answers into them and compares.  The stores and  *)
(* the comparison of the version run past the structs and into each        *)
(* other's time, so the structs are one memory here.  Where only the write *)
(* thread reads a struct, assignments that follow one another are one      *)
(* store.                                                                  *)
(*                                                                         *)
(* Of the session only the phase is kept: a keep-alive may be sent at any  *)
(* time, an answer that finds its phase overlaid is not taken (TCUStage    *)
(* says when).  Answers are stored where the comparison of the version may *)
(* read them; telemetry, which is only printed, is left out.               *)
(***************************************************************************)
EXTENDS Naturals, Sequences, TCUTables, Conversions

CONSTANTS
    Versions,     \* the version bytes the charger may answer with
    Statuses,     \* the status bytes it may answer the parameters with
    Ports,        \* the port numbers it may report a connection for
    Reports,      \* port, second byte and status of its reports that the
                  \* charge has started and that it has stopped
    Meters,       \* the meter's energy, in tenths of a kWh, and how many
                  \* minutes the charge has lasted
    Times,        \* what localtime()'s buffer, which every log message fills
                  \* anew, and gettimeofday() may hold when they are read
    Commands      \* numbers the operator may type; {} in the program as built

\* The ranges that src/tcu.h gives for a heartbeat.
Readings == [energy : 0 .. 10000, minutes : 0 .. 6000]

Moments == [sec : 0 .. 60, msec : 0 .. 999, min : 0 .. 59, hour : 0 .. 23,
            wday : 0 .. 6, mday : 1 .. 31, mon : 0 .. 11, year : 100 .. 355]

ASSUME InputsAssumption ==
    /\ Versions \subseteq Byte \X Byte
    /\ Statuses \subseteq Byte
    /\ Ports \subseteq Byte
    /\ Reports \subseteq Byte \X Byte \X Byte
    /\ Meters \subseteq Readings
    /\ Times \subseteq Moments
    /\ Commands \subseteq {1, 2, 3, 4, 6}

VARIABLES
    tcu_stage,    \* the phase
    running,      \* the write thread has initialised the session
    info,         \* the memory of the *_info structs
    tx,           \* the packet being filled or written
    step,         \* its next store
    frame,        \* the frame's data, <<>> before it is copied
    rx,           \* the byte of the version that strcmp compares next
    meter,        \* what the latest heartbeat was filled from
    clock,        \* what the latest clock packet was filled from
    steady        \* history: the unit's version has been complete ever since
                  \* the comparison that is going on began

writeThread == <<tx, step, frame, meter, clock>>
readThread  == <<rx, steady>>
vars == <<tcu_stage, running, info, writeThread, readThread>>

-----------------------------------------------------------------------------
(* The memory.                                                             *)

\* Mutant: the connection's acknowledgement lies behind the heartbeat.
OffsetMoved ==
    [ tcv |-> 0, tcp |-> 2, trc |-> 9, tst |-> 11, tts |-> 13, thb |-> 21,
      trct |-> 29, trsf |-> 31, trst |-> 34, crcv |-> 44, crcp |-> 46,
      csf |-> 47, cst |-> 50, cct |-> 53 ]

\* Where each struct begins, counted from tcv_info.
Offset ==
    [ tcv |-> 0, tcp |-> 2, trc |-> 9, tst |-> 11, tts |-> 13, thb |-> 21,
      trsf |-> 29, trst |-> 32, trct |-> 35, crcv |-> 44, crcp |-> 46,
      csf |-> 47, cst |-> 50, cct |-> 53 ]

Memory == 0 .. 53

\* The stores of the bytes s from address o on.
At(o, s) == [i \in o .. o + Len(s) - 1 |-> s[i - o + 1]]

\* What memset fills every struct with before its fields are assigned.
INIT == 255

Fill(o, n) == At(o, [i \in 1 .. n |-> INIT])

\* The assignment of one byte.
Put(o, b) == At(o, <<b>>)

Stored(mem, w) == [i \in DOMAIN mem |-> IF i \in DOMAIN w THEN w[i] ELSE mem[i]]

-----------------------------------------------------------------------------
(* What the packets are filled with.                                       *)

\* "1210" as characters.
Version == <<49, 50, 49, 48>>
VersionBytes == <<18, 16>>

\* Mutant: Sunday keeps localtime's number.
ClockBytesSundayZero(t) ==
    LET mm == t.sec * 1000 + t.msec
    IN  << 0, mm % 256, (mm \div 256) % 256, t.min, t.hour,
           t.wday * 32 + t.mday, t.mon + 1, t.year - 100 >>

\* The clock packet; the numbers are binary.
ClockBytes(t) ==
    LET mm  == t.sec * 1000 + t.msec
        day == IF t.wday = 0 THEN 7 ELSE t.wday
    IN  << 0, mm % 256, (mm \div 256) % 256, t.min, t.hour,
           day * 32 + t.mday, t.mon + 1, t.year - 100 >>

\* Mutant: the status is not assigned.
HeartbeatStoresNoStatus(m) ==
    << Fill(Offset.thb, 8),
       At(Offset.thb, <<0>>),
       At(Offset.thb + 3, Printed(m.energy)),
       At(Offset.thb + 5, Printed(m.minutes)) >>

\* Mutant: the minutes are printed before the energy.
HeartbeatStoresSwapped(m) ==
    << Fill(Offset.thb, 8),
       At(Offset.thb, <<0, 0>>),
       At(Offset.thb + 5, Printed(m.minutes)),
       At(Offset.thb + 3, Printed(m.energy)) >>

\* Port and status are assigned, the reserved byte behind them is not; the two
\* numbers are printed into two bytes each, one after the other.
HeartbeatStores(m) ==
    << Fill(Offset.thb, 8),
       At(Offset.thb, <<0, 0>>),
       At(Offset.thb + 3, Printed(m.energy)),
       At(Offset.thb + 5, Printed(m.minutes)) >>

\* The charger's number and its region's code, byte by byte: the comparison of
\* the version may read them while they are assigned.
ParameterStores ==
    LET o == Offset.tcp
    IN  << Fill(o, 7), Put(o, 0), Put(o + 1, 0), Put(o + 2, 0), Put(o + 3, 1),
           Put(o + 4, 49), Put(o + 5, 50), Put(o + 6, 51) >>

\* The version when n of its digits have been packed.
VersionStore(n) == At(Offset.tcv, str2bcd(SubSeq(Version, 1, n), 2))

\* The stores that fill packet p.  The version is filled, cleared and packed
\* digit by digit; TRC and TST fill the version in place of their own struct.
Stores(p) ==
    CASE p = "TCV" -> << Fill(Offset.tcv, 2),
                         VersionStore(0), VersionStore(1), VersionStore(2),
                         VersionStore(3), VersionStore(4) >>
      [] p = "TCP" -> ParameterStores
      [] p = "TRC" -> << Fill(Offset.tcv, 2), At(Offset.trc, <<0, 1>>) >>
      [] p = "TST" -> << Fill(Offset.tcv, 2), At(Offset.tst, <<0, 1>>) >>
      [] p = "TTS" -> << Fill(Offset.tts, 8),
                         At(Offset.tts, ClockBytes(clock)) >>
      [] p = "THB" -> HeartbeatStores(meter)
      [] p = "TRSF" -> << Fill(Offset.trsf, 3), At(Offset.trsf, <<0, 2, 0>>) >>
      [] p = "TRST" -> << Fill(Offset.trst, 3), At(Offset.trst, <<0, 1, 0>>) >>
      [] p = "TRCT" -> << Fill(Offset.trct, 2), Put(Offset.trct, 0),
                          Put(Offset.trct + 1, 0) >>

\* The struct that goes into the frame, and its length: the acknowledgements
\* of start and connection are copied from the heartbeat.
Source ==
    [ TCV |-> Offset.tcv, TCP |-> Offset.tcp, TRC |-> Offset.trc,
      TST |-> Offset.tst, TTS |-> Offset.tts, THB |-> Offset.thb,
      TRSF |-> Offset.thb, TRST |-> Offset.trst, TRCT |-> Offset.thb ]

Length ==
    [ TCV |-> 2, TCP |-> 7, TRC |-> 2, TST |-> 2, TTS |-> 8, THB |-> 8,
      TRSF |-> 3, TRST |-> 3, TRCT |-> 2 ]

-----------------------------------------------------------------------------
(* The write thread.                                                       *)

\* rx when no version is being compared.  The string ends at the port of TRC,
\* byte 9, at the latest: it is never anything but 0.
NoByte == 10

Init ==
    /\ tcu_stage = "INVALID"
    /\ running = FALSE
    /\ info = [i \in Memory |-> 0]
    /\ tx = NoPacket
    /\ step = 0
    /\ frame = <<>>
    /\ rx = NoByte
    /\ meter = [energy |-> 0, minutes |-> 0]
    /\ clock = [sec |-> 0, msec |-> 0, min |-> 0, hour |-> 0, wday |-> 0,
                mday |-> 1, mon |-> 0, year |-> 100]
    /\ steady = FALSE

\* A start, the first or a later one, comes to the write thread's
\* initialisation; the threads of an earlier start have ended.
EventInit ==
    /\ ~running
    /\ tx = NoPacket
    /\ rx = NoByte
    /\ running' = TRUE
    /\ tcu_stage' = "CHECKVER"
    /\ UNCHANGED <<info, writeThread, readThread>>

\* EVENT_TX_REQUEST finds packet p due and begins to fill it.
Begin(p) ==
    /\ running
    /\ tx = NoPacket
    /\ StageOf[p] \in Overlays \cup {tcu_stage}
    /\ tx' = p
    /\ step' = 1
    /\ IF p = "THB" THEN meter' \in Meters ELSE UNCHANGED meter
    /\ IF p = "TTS" THEN clock' \in Times ELSE UNCHANGED clock
    /\ UNCHANGED <<tcu_stage, running, info, frame, readThread>>

\* The unit's version is in its place.
Complete(mem) == <<mem[Offset.tcv], mem[Offset.tcv + 1]>> = VersionBytes

Store ==
    /\ tx # NoPacket
    /\ step \in 1 .. Len(Stores(tx))
    /\ info' = Stored(info, Stores(tx)[step])
    /\ step' = step + 1
    /\ steady' = (steady /\ Complete(info'))
    /\ UNCHANGED <<tcu_stage, running, tx, frame, meter, clock, rx>>

\* The struct is copied into the frame.
Copy ==
    /\ tx # NoPacket
    /\ frame = <<>>
    /\ step = Len(Stores(tx)) + 1
    /\ frame' = [i \in 1 .. Length[tx] |-> info[Source[tx] + i - 1]]
    /\ UNCHANGED <<tcu_stage, running, info, tx, step, meter, clock,
                   readThread>>

\* The thread lets the packet go.
Release ==
    /\ frame # <<>>
    /\ tx' = NoPacket
    /\ step' = 0
    /\ frame' = <<>>
    /\ UNCHANGED <<running, info, meter, clock, readThread>>

\* The packet counts as sent; two of them move the session on.
Sent ==
    /\ running
    /\ Release
    /\ tcu_stage' = IF tx \in {"TRCT", "TRSF"} /\ tcu_stage = StageOf[tx]
                    THEN AfterSent(tx) ELSE tcu_stage

Fails ==
    /\ running
    /\ Release
    /\ UNCHANGED tcu_stage

-----------------------------------------------------------------------------
(* The read thread.                                                        *)

Answered == <<info[Offset.crcv], info[Offset.crcv + 1]>>

\* The charger's version is stored and the comparison begins.
VersionTaken(v) ==
    /\ rx = NoByte
    /\ tcu_stage = "CHECKVER"
    /\ info' = Stored(info, At(Offset.crcv, <<v[1], v[2]>>))
    /\ rx' = 0
    /\ steady' = Complete(info)
    /\ UNCHANGED <<tcu_stage, running, writeThread>>

\* What strcmp reads: the arrays have no terminator of their own.
Ours == info[Offset.tcv + rx]
Theirs == info[Offset.crcv + rx]

\* Mutant: the first byte decides.
VersionEndsAtOnce == TRUE

\* The unit's string ends here.
VersionEnds == Ours = 0

\* The strings agree so far, and go on.
VersionSame ==
    /\ rx # NoByte
    /\ Ours = Theirs
    /\ ~VersionEnds
    /\ rx' = rx + 1
    /\ UNCHANGED <<tcu_stage, running, info, writeThread, steady>>

VersionAccepted ==
    /\ rx # NoByte
    /\ Ours = Theirs
    /\ VersionEnds
    /\ tcu_stage' = Answer["CRCV"].next
    /\ rx' = NoByte
    /\ steady' = FALSE
    /\ UNCHANGED <<running, info, writeThread>>

VersionRefused ==
    /\ rx # NoByte
    /\ Ours # Theirs
    /\ rx' = NoByte
    /\ steady' = FALSE
    /\ UNCHANGED <<tcu_stage, running, info, writeThread>>

\* The charger's answer s is stored at o.
Reported(o, s) ==
    /\ rx = NoByte
    /\ info' = Stored(info, At(o, s))
    /\ UNCHANGED <<running, writeThread, readThread>>

\* The answer to the parameters: 0 says that they fit.
ParametersAnswered(status) ==
    /\ tcu_stage = Answer["CRCP"].at
    /\ Reported(Offset.crcp, <<status>>)
    /\ tcu_stage' = IF status = 0 THEN Answer["CRCP"].next ELSE tcu_stage

\* A connection is reported for a port; the unit looks for its own port in the
\* acknowledgement, which it may not have sent yet or may be filling.
Connected(port) ==
    /\ tcu_stage = Answer["CCT"].at
    /\ Reported(Offset.cct, <<port>>)
    /\ tcu_stage' = IF port = info[Offset.trct]
                    THEN Answer["CCT"].next ELSE tcu_stage

\* The charge has started: 0 says that it did.
Started(report) ==
    /\ tcu_stage = Answer["CSF"].at
    /\ Reported(Offset.csf, report)
    /\ tcu_stage' = IF report[3] = 0 THEN Answer["CSF"].next ELSE tcu_stage

\* These answers' bytes are read by their own handlers only.
Accepted(f) ==
    /\ rx = NoByte
    /\ tcu_stage = Answer[f].at
    /\ tcu_stage' = Answer[f].next
    /\ UNCHANGED <<running, info, writeThread, readThread>>

\* The charge has stopped: a success, or the unit's own wish, is its end.
RecvCST(report) ==
    /\ Reported(Offset.cst, report)
    /\ tcu_stage' = IF report[3] = 0 \/ report[2] = 1
                    THEN "STOP_END" ELSE tcu_stage

-----------------------------------------------------------------------------
(* The timer, the console, the stop.                                       *)

TimesOut ==
    /\ running
    /\ \E r \in Requests : tcu_stage = StageOf[r]
    /\ tcu_stage' = "TIMEOUT"
    /\ UNCHANGED <<running, info, writeThread, readThread>>

Command(c) ==
    /\ tcu_stage' = CommandStage(c)
    /\ UNCHANGED <<running, info, writeThread, readThread>>

\* tcu_canstop clears as many bytes of *task as a pointer has: the stage.
Stop ==
    /\ running
    /\ running' = FALSE
    /\ tcu_stage' = "INVALID"
    /\ UNCHANGED <<info, writeThread, readThread>>

\* The stopped write thread ends in write(), before it has written.
Cancelled ==
    /\ ~running
    /\ Release
    /\ UNCHANGED tcu_stage

WriteThread ==
    \/ EventInit
    \/ \E p \in Packets : Begin(p)
    \/ Store
    \/ Copy
    \/ Sent
    \/ Fails
    \/ Cancelled

ReadThread ==
    \/ \E v \in Versions : VersionTaken(v)
    \/ VersionSame
    \/ VersionAccepted
    \/ VersionRefused
    \/ \E status \in Statuses : ParametersAnswered(status)
    \/ \E port \in Ports : Connected(port)
    \/ \E report \in Reports : Started(report) \/ RecvCST(report)
    \/ \E f \in {"CRTR", "CRST"} : Accepted(f)

Next ==
    \/ WriteThread
    \/ ReadThread
    \/ TimesOut
    \/ \E c \in Commands : Command(c)
    \/ Stop

Spec == Init /\ [][Next]_vars

-----------------------------------------------------------------------------
(* Properties.                                                             *)

TypeOK ==
    /\ tcu_stage \in Phases
    /\ running \in BOOLEAN
    /\ info \in [Memory -> Byte]
    /\ tx \in Packets \cup {NoPacket}
    /\ step \in 0 .. 9
    /\ frame \in Seq(Byte)
    /\ rx \in 0 .. NoByte
    /\ meter \in Readings
    /\ clock \in Moments
    /\ steady \in BOOLEAN

\* The parameters have been filled with INIT and not yet assigned.
ParametersFilled == tx = "TCP" /\ step = 2

\* The version check (src/tcu.c:1948) compares arrays without terminator, and
\* the write thread may be rebuilding one of them.  When the unit's version
\* has been in its place throughout, another version never passes, and the
\* right one is refused only if the byte behind it in memory differs: because
\* the charger's latest answer to the parameters was a no, or because the unit
\* is just filling the parameters (src/tcu.c:1579), as it may be during a
\* comparison when an operator has asked for them.
VersionVerdict ==
    [][ steady =>
          /\ VersionAccepted => Answered = VersionBytes
          /\ VersionRefused =>
                \/ Answered # VersionBytes
                \/ info[Offset.crcp] # 0
                \/ ParametersFilled ]_vars

\* The acknowledgement of the connection is copied from the heartbeat
\* (src/tcu.c:1834), which is filled with INIT first, that of the stop from its
\* own struct: whatever heartbeats came before, both report success.
AcksSaySuccess ==
    frame # <<>> =>
        /\ tx = "TRCT" => frame[2] = 0
        /\ tx = "TRST" => frame[3] = 0

\* set_data_tcu_PGN4608 assigns the status 0 (src/tcu.c:1784), success by
\* src/tcu.h:280, before the acknowledgement of the start is copied from
\* another struct, the heartbeat (src/tcu.c:1769).
StartAckSaysSuccess == tx = "TRSF" /\ frame # <<>> => frame[3] = 0

\* sprintf writes the heartbeat's numbers without a limit (src/tcu.c:1747).
\* Within the documented ranges the digits that do not fit never reach the
\* port that connection reports are compared with (src/tcu.c:2018): it is
\* another than 0 only between the fill of its own packet and the assignment
\* after it (src/tcu.c:1845-1846).
PortSurvivesHeartbeat ==
    info[Offset.trct] # 0 => tx = "TRCT" /\ step = 2

\* The number that a reader of two characters takes from them, and the one of
\* two bytes, the low one first.
Read(a, b) == IF b = 0 THEN a - 48 ELSE 10 * (a - 48) + (b - 48)
Number(a, b) == a + 256 * b

\* A heartbeat is filled by two overlapping prints (src/tcu.c:1747-1748).  What
\* arrives is text: each of the two numbers can be read if it has two digits
\* at most, however long the other one is.  Read as src/tcu.h:387-388 says, as
\* numbers in units of 0.1 kWh and 1 min, the two bytes are never what they
\* were filled from, whichever byte is taken to be the low one.
HeartbeatIsText ==
    (tx = "THB" /\ frame # <<>>) =>
        /\ meter.energy < 100 => Read(frame[4], frame[5]) = meter.energy
        /\ meter.minutes < 100 => Read(frame[6], frame[7]) = meter.minutes
        /\ meter.energy \notin
              {Number(frame[4], frame[5]), Number(frame[5], frame[4])}
        /\ meter.minutes \notin
              {Number(frame[6], frame[7]), Number(frame[7], frame[6])}

\* What the bytes of a clock packet say.
Weekday(b) == b[6] \div 32

Unpacked(b) ==
    LET ms == b[2] + 256 * b[3]
    IN  [ sec |-> ms \div 1000, msec |-> ms % 1000, min |-> b[4],
          hour |-> b[5], wday |-> Weekday(b) % 7, mday |-> b[6] % 32,
          mon |-> b[7] - 1, year |-> b[8] + 100 ]

\* The byte is the number in packed BCD.
IsBCD(b, n) == b = DectoBCD(n, 1)[1]

\* The clock packet, eight fields packed into bytes (src/tcu.c:1687-1697), can
\* be unpacked to the moment it was filled from if its bytes are read as binary
\* numbers, also on Sundays, in January and in the last millisecond of a
\* minute.  src/tcu.h:199 calls its fields packed BCD: minute, hour, month and
\* year are that below ten only.
ClockIsBinary ==
    (tx = "TTS" /\ frame # <<>>) =>
        /\ Weekday(frame) \in 1 .. 7
        /\ clock = Unpacked(frame)
        /\ IsBCD(frame[4], clock.min) <=> clock.min < 10
        /\ IsBCD(frame[5], clock.hour) <=> clock.hour < 10
        /\ IsBCD(frame[7], clock.mon + 1) <=> clock.mon + 1 < 10
        /\ IsBCD(frame[8], clock.year - 100) <=> clock.year - 100 < 10

\* The conversions undo each other on the numbers at hand; the two on BCD
\* strings do so up to the order of the bytes, which only one of them turns.
ConversionsInverse ==
    /\ BCDtoDec(DectoBCD(meter.energy, 3), 3) = meter.energy
    /\ HextoDec(DectoHex(meter.minutes, 2), 2) = meter.minutes
    /\ convert(convert(Answered)) = Answered
    /\ LET Decimal(b) == b \div 16 <= 9 /\ b % 16 <= 9
       IN  Decimal(Answered[1]) /\ Decimal(Answered[2]) =>
             str2bcd(bcd2str(Answered, 2), 2) = <<Answered[2], Answered[1]>>

=============================================================================
