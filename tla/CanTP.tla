------------------------------- MODULE CanTP -------------------------------
(***************************************************************************)
(* The multi-packet transport of src/tcu.c: the charger sends a message of *)
(* more than 8 bytes as a connection request (RTS) and data packets (DT),  *)
(* the read thread collects them, the write thread answers with CTS and    *)
(* ACK, and the one-shot timer can_tp_bomb in the timer pool (module       *)
(* Hachiko) gives the connection up.                                       *)
(*                                                                         *)
(* The threads and the timer signal share can_tcu_status without a lock,   *)
(* so a test of it and the assignment that follows are two steps.  The     *)
(* charger is outside src/: it may ask for a new connection at any time,   *)
(* sends its data packets in order once it is cleared and single frames in *)
(* between, and the bus keeps the order of its frames.                     *)
(***************************************************************************)
EXTENDS Hachiko, Sequences

CONSTANTS
    can_tp_bomb,   \* the transport's timer
    PackNr,        \* packets of each connection's message
    MaxTransfers,  \* bound: connections that the charger asks for
    MaxBus,        \* bound: frames waiting in the read thread's socket
    Preempted      \* whether the write thread may stay between a test of
                   \* can_tcu_status and the assignment in the next line
                   \* while the read thread handles frames

ASSUME TransportAssumption ==
    /\ can_tp_bomb \in Again
    /\ Type[can_tp_bomb] = "ONECE"
    /\ MaxTransfers \in Nat
    /\ PackNr \in [0 .. MaxTransfers -> Nat \ {0, 1}]
    /\ MaxBus \in Nat \ {0}
    /\ Preempted \in BOOLEAN

VARIABLES
    can_tcu_status,  \* "NORMAL", or CAN_TP_RD with "CTS", "RX" or "ACK"
    tp_of,           \* can_tp_param.tp_pgn: the connection accepted last
    tp_rcv_pack_nr,  \* can_tp_param.tp_rcv_pack_nr
    tp_buff,         \* the read thread's buffer: the connection that each
                     \* packet's place was filled by, 0 if by none
    reader,          \* where the read thread is in its loop
    tp_packet_PGN,   \* its local copy of the connection asked for
    writer,          \* where the write thread is in its loop
    bus,             \* frames on their way from the charger
    transfer,        \* the charger's connection
    sent,            \* data packets it has sent of it
    cleared,         \* it has got a CTS for it
    delivered,       \* history: the connections whose message was delivered
    spoilt,          \* history: since the connection accepted last a request
                     \* found the pool full, or a single frame came after
                     \* its first packet
    answered         \* history: the CTS of the connection accepted last has
                     \* been given to write()

connection == <<can_tcu_status, tp_of, tp_rcv_pack_nr, tp_buff>>
charger    == <<bus, transfer, sent, cleared>>
history    == <<delivered, spoilt, answered>>
readThread == <<reader, tp_packet_PGN>>
vars == <<hachikoVars, connection, readThread, writer, charger, history>>

\* The charger's connections, numbered; 0 is none.
Transfers == 0 .. MaxTransfers

\* The numbers of a connection's packets, and the places in the buffer.
Packets(t) == 1 .. PackNr[t]

Places == UNION { Packets(t) : t \in Transfers }

Frames == [kind : {"SINGLE"}]
          \cup [kind : {"RTS"}, of : Transfers]
          \cup [kind : {"DT"}, of : Transfers, nr : Places]

Init ==
    /\ HachikoInit
    /\ can_tcu_status = "NORMAL"
    /\ tp_of = 0
    /\ tp_rcv_pack_nr = 0
    /\ tp_buff = [k \in Places |-> 0]
    /\ reader = "read"
    /\ tp_packet_PGN = 0
    /\ writer = "loop"
    /\ bus = <<>>
    /\ transfer = 0
    /\ sent = 0
    /\ cleared = FALSE
    /\ delivered = {}
    /\ spoilt = FALSE
    /\ answered = FALSE

-----------------------------------------------------------------------------

\* Unless Preempted, nobody runs between the write thread's test of the status
\* and its assignment.
Undisturbed == Preempted \/ writer \notin {"toRX", "toNORMAL"}

(* The charger.                                                            *)

\* It asks for a connection: for its next message, or once more because it
\* has given up waiting.
ChargerAsks ==
    /\ transfer < MaxTransfers
    /\ Len(bus) < MaxBus
    /\ transfer' = transfer + 1
    /\ sent' = 0
    /\ cleared' = FALSE
    /\ bus' = Append(bus, [kind |-> "RTS", of |-> transfer'])
    /\ UNCHANGED <<hachikoVars, connection, readThread, writer, history>>

ChargerSends ==
    /\ cleared
    /\ sent < PackNr[transfer]
    /\ Len(bus) < MaxBus
    /\ sent' = sent + 1
    /\ bus' = Append(bus, [kind |-> "DT", of |-> transfer, nr |-> sent'])
    /\ UNCHANGED <<hachikoVars, connection, readThread, writer, transfer,
                   cleared, history>>

\* A report of the session, or telemetry, in a frame of its own.
ChargerReports ==
    /\ Len(bus) < MaxBus
    /\ bus' = Append(bus, [kind |-> "SINGLE"])
    /\ UNCHANGED <<hachikoVars, connection, readThread, writer, transfer, sent,
                   cleared, history>>

-----------------------------------------------------------------------------
(* The read thread.                                                        *)

\* A frame of the given kind is next.
Arrives(kind) ==
    /\ reader = "read"
    /\ bus # <<>>
    /\ Head(bus).kind = kind
    /\ bus' = Tail(bus)

\* RTS: the bomb is registered anew even when it is still in the pool, since
\* can_tp_private.status never becomes PRIVATE_BUSY.
RTSArms ==
    /\ Arrives("RTS")
    /\ NewPicks(can_tp_bomb)
    /\ tp_packet_PGN' = Head(bus).of
    /\ reader' = "arming"
    /\ UNCHANGED <<connection, writer, transfer, sent, cleared, history>>

\* No slot is free (ERR_TIMER_BEMAX): the request is dropped.
RTSRefused ==
    /\ Arrives("RTS")
    /\ Free = {}
    /\ spoilt' = TRUE
    /\ UNCHANGED <<hachikoVars, connection, readThread, writer, transfer, sent,
                   cleared, delivered, answered>>

RTSArmed ==
    /\ reader = "arming"
    /\ NewPublishes(can_tp_bomb)
    /\ reader' = "armed"
    /\ UNCHANGED <<connection, tp_packet_PGN, writer, charger, history>>

\* Mutant: the packet count of the last connection is kept.
CountKept == tp_rcv_pack_nr' = tp_rcv_pack_nr

CountRestarted == tp_rcv_pack_nr' = 0

RTSAccepted ==
    /\ reader = "armed"
    /\ tp_of' = tp_packet_PGN
    /\ CountRestarted
    /\ can_tcu_status' = "CTS"
    /\ answered' = FALSE
    /\ spoilt' = FALSE
    /\ reader' = "read"
    /\ UNCHANGED <<hachikoVars, tp_buff, tp_packet_PGN, writer, charger,
                   delivered>>

\* DT outside a connection sets the status to what it is.
DTDropped ==
    /\ Arrives("DT")
    /\ can_tcu_status = "NORMAL"
    /\ UNCHANGED <<hachikoVars, connection, readThread, writer, transfer, sent,
                   cleared, history>>

\* Mutant: the last packet is not waited for.
CompletesEarly == tp_rcv_pack_nr' + 1 >= PackNr[tp_of]

Completes == tp_rcv_pack_nr' >= PackNr[tp_of]

\* DT in a connection: the bomb is fed, the packet is stored under its number
\* and counted.
DTStored ==
    /\ Arrives("DT")
    /\ can_tcu_status # "NORMAL"
    /\ Feed(can_tp_bomb)
    /\ tp_buff' = [tp_buff EXCEPT ![Head(bus).nr] = Head(bus).of]
    /\ tp_rcv_pack_nr' = tp_rcv_pack_nr + 1
    /\ reader' = IF Completes THEN "complete" ELSE "read"
    /\ UNCHANGED <<can_tcu_status, tp_of, tp_packet_PGN, writer, transfer,
                   sent, cleared, history>>

\* The last packet: the bomb is killed and the message handed over ...
Deliver ==
    /\ reader = "complete"
    /\ Kill(can_tp_bomb)
    /\ delivered' = delivered \cup {tp_of}
    /\ reader' = "delivered"
    /\ UNCHANGED <<connection, tp_packet_PGN, writer, charger, spoilt,
                   answered>>

\* ... and the write thread is told to acknowledge it.
AskForACK ==
    /\ reader = "delivered"
    /\ can_tcu_status' = "ACK"
    /\ reader' = "read"
    /\ UNCHANGED <<hachikoVars, tp_of, tp_rcv_pack_nr, tp_buff,
                   tp_packet_PGN, writer, charger, history>>

\* The bytes that a single frame overwrites: the first packet's seven and the
\* first one of the second.
Overwritten == {1, 2}

\* A frame that is no part of a transfer is put at the start of the same
\* buffer, then handled (module TCUStage).
SingleTaken ==
    /\ Arrives("SINGLE")
    /\ tp_buff' = [k \in Places |-> IF k \in Overwritten THEN 0 ELSE tp_buff[k]]
    /\ spoilt' = (spoilt \/ tp_rcv_pack_nr > 0)
    /\ UNCHANGED <<hachikoVars, can_tcu_status, tp_of, tp_rcv_pack_nr,
                   readThread, writer, transfer, sent, cleared, delivered,
                   answered>>

-----------------------------------------------------------------------------
(* The write thread.                                                       *)

\* A loop begins: it builds the packet that the status asks for.  A packet of
\* the session is due or not (module TCUStage).
Build(p) ==
    /\ writer = "loop"
    /\ can_tcu_status = p
    /\ p # "RX"
    /\ writer' = p
    /\ UNCHANGED <<hachikoVars, connection, readThread, charger, history>>

\* write() succeeds or fails; only the charger learns the difference.
Write(ok) ==
    /\ writer \in {"NORMAL", "CTS", "ACK"}
    /\ cleared' = (cleared \/ (ok /\ writer = "CTS"))
    /\ answered' = (answered \/ writer = "CTS")
    /\ writer' = "written"
    /\ UNCHANGED <<hachikoVars, connection, readThread, bus, transfer, sent,
                   delivered, spoilt>>

\* After any packet the thread looks whether a CTS was asked for, and after
\* that whether an ACK was.
LooksForCTS ==
    /\ writer = "written"
    /\ writer' = IF can_tcu_status = "CTS" THEN "toRX" ELSE "settled"
    /\ UNCHANGED <<hachikoVars, connection, readThread, charger, history>>

AwaitData ==
    /\ writer = "toRX"
    /\ can_tcu_status' = "RX"
    /\ writer' = "settled"
    /\ UNCHANGED <<hachikoVars, tp_of, tp_rcv_pack_nr, tp_buff, readThread,
                   charger, history>>

\* Mutant: an acknowledged connection stays open.
LooksForACKNever == writer' = "loop"

LooksForACK == writer' = IF can_tcu_status = "ACK" THEN "toNORMAL" ELSE "loop"

Settles ==
    /\ writer = "settled"
    /\ LooksForACK
    /\ UNCHANGED <<hachikoVars, connection, readThread, charger, history>>

Close ==
    /\ writer = "toNORMAL"
    /\ can_tcu_status' = "NORMAL"
    /\ writer' = "loop"
    /\ UNCHANGED <<hachikoVars, tp_of, tp_rcv_pack_nr, tp_buff, readThread,
                   charger, history>>

-----------------------------------------------------------------------------
(* The timer signal.                                                       *)

\* The read thread has just loaded the timer and is on its next line, where
\* it does not stay for the timer's whole life.
JustFed == reader \in {"armed", "complete"}

\* Mutant: the notify procedure leaves the connection open.
NotifyNothing == UNCHANGED can_tcu_status

\* Hachiko_CAN_TP_notify_proc ends the connection.
Notify ==
    can_tcu_status' = IF Expires(can_tp_bomb) THEN "NORMAL" ELSE can_tcu_status

Sweep ==
    /\ Undisturbed
    /\ Expires(can_tp_bomb) => ~JustFed
    /\ Visit
    /\ Notify
    /\ UNCHANGED <<tp_of, tp_rcv_pack_nr, tp_buff, readThread, writer, charger,
                   history>>

-----------------------------------------------------------------------------

ReadThread ==
    /\ Undisturbed
    /\ \/ RTSArms \/ RTSRefused \/ RTSArmed \/ RTSAccepted
       \/ DTDropped \/ DTStored \/ Deliver \/ AskForACK \/ SingleTaken

WriteThread ==
    \/ \E p \in {"NORMAL", "CTS", "ACK"} : Build(p)
    \/ \E ok \in BOOLEAN : Write(ok)
    \/ LooksForCTS \/ AwaitData \/ Settles \/ Close

Charger == ChargerAsks \/ ChargerSends \/ ChargerReports

Next == Charger \/ ReadThread \/ WriteThread \/ Sweep

\* Timer and threads keep running; nothing is asked of the charger.
Spec == Init /\ [][Next]_vars
        /\ WF_vars(Sweep) /\ WF_vars(ReadThread) /\ WF_vars(WriteThread)

-----------------------------------------------------------------------------
(* Properties.                                                             *)

\* The types of the transport's own variables.
TransportTypeOK ==
    /\ can_tcu_status \in {"NORMAL", "CTS", "RX", "ACK"}
    /\ tp_of \in Transfers
    /\ tp_rcv_pack_nr \in Nat
    /\ tp_buff \in [Places -> Transfers]
    /\ reader \in {"read", "arming", "armed", "complete", "delivered"}
    /\ tp_packet_PGN \in Transfers
    /\ writer \in {"loop", "NORMAL", "CTS", "ACK", "written", "toRX",
                   "settled", "toNORMAL"}
    /\ bus \in Seq(Frames) /\ Len(bus) <= MaxBus
    /\ transfer \in Transfers
    /\ sent \in 0 .. PackNr[transfer]
    /\ delivered \subseteq Transfers
    /\ cleared \in BOOLEAN /\ spoilt \in BOOLEAN /\ answered \in BOOLEAN

\* The variables of pool, threads and charger keep their types.
TypeOK == PoolTypeOK /\ TransportTypeOK

\* A delivered message consists of one connection's packets, all of them, and
\* is delivered once, although the code only counts packets: restarts, late
\* clearances and timeouts in between never mix two messages, as long as no
\* request found the timer pool full and no single frame came between.
WholeMessage ==
    [][Deliver /\ ~spoilt =>
         /\ \A k \in Packets(tp_of) : tp_buff[k] = tp_of
         /\ tp_of \notin delivered]_vars

Service == INSTANCE TransferService
    WITH asked    <- transfer,
         accepted <- tp_of,
         clean    <- ~spoilt,
         handing  <- reader = "delivered",
         acking   <- can_tcu_status = "ACK"

\* The charger's messages are delivered in their order and at most once, none
\* but the connection accepted last, which is never an older one than before,
\* and the acknowledgement is asked for after the delivery, although a request
\* may interrupt the collection at any frame and the timer at any sweep.
ServiceImplemented == Service!ServiceSpec

\* "The data buffer for the connection management" (comment at tp_buff): no
\* other bytes than the connections' packets are delivered from it.
BufferForConnections ==
    [][Deliver => \A k \in Packets(tp_of) : tp_buff[k] # 0]_vars

\* An open connection that awaits packets is watched by a running timer.
BombWatches ==
    can_tcu_status \in {"CTS", "RX"} /\ reader = "read"
    => Running(can_tp_bomb)

\* Every connection ends, whatever the charger fails to send: the session's
\* packets are sent again.
ConnectionEnds == can_tcu_status # "NORMAL" ~> can_tcu_status = "NORMAL"

\* "Having received this packet send the clear-to-send packet" (comment at the
\* RTS branch): a connection awaits data only after its CTS was written.
AwaitsAfterCTS == can_tcu_status = "RX" => answered

=============================================================================
