---------------------------- MODULE CanTP_proofs ----------------------------
(***************************************************************************)
(* Proofs about the multi-packet transport for every value of its          *)
(* constants: any pool, any number of packets, connections and frames.     *)
(***************************************************************************)
EXTENDS CanTP, Hachiko_proofs, SequenceTheorems

-----------------------------------------------------------------------------
(* The transport uses the timer pool as module Hachiko allows.             *)

LEMMA NextUsesPool == [Next]_vars => [HachikoNext]_hachikoVars
  <1> SUFFICES ASSUME [Next]_vars PROVE [HachikoNext]_hachikoVars
    OBVIOUS
  <1> USE TransportAssumption, PoolAssumption
  <1>1. CASE Charger
    BY <1>1 DEF Charger, ChargerAsks, ChargerSends, ChargerReports
  <1>2. CASE ReadThread
    <2>1. CASE RTSArms
      BY <2>1 DEF RTSArms, HachikoNext, Use
    <2>2. CASE RTSArmed
      BY <2>2 DEF RTSArmed, HachikoNext, Use
    <2>3. CASE DTStored
      BY <2>3 DEF DTStored, HachikoNext, Use
    <2>4. CASE Deliver
      BY <2>4 DEF Deliver, HachikoNext, Use
    <2>5. CASE RTSRefused \/ RTSAccepted \/ DTDropped \/ AskForACK
               \/ SingleTaken
      BY <2>5 DEF RTSRefused, RTSAccepted, DTDropped, AskForACK, SingleTaken
    <2> QED
      BY <1>2, <2>1, <2>2, <2>3, <2>4, <2>5 DEF ReadThread
  <1>3. CASE WriteThread
    BY <1>3 DEF WriteThread, Build, Write, LooksForCTS, AwaitData, Settles,
                Close
  <1>4. CASE Sweep
    BY <1>4 DEF Sweep, HachikoNext
  <1>5. CASE UNCHANGED vars
    BY <1>5 DEF vars
  <1> QED
    BY <1>1, <1>2, <1>3, <1>4, <1>5 DEF Next

\* The transport's steps are steps of the timer pool, so that what is proved
\* of the pool holds for the transport's timer.
THEOREM PoolIsImplemented == Spec => HachikoInit /\ [][HachikoNext]_hachikoVars
  BY NextUsesPool, PTL DEF Spec, Init

\* The transport's timer never runs late, so that an abandoned connection is
\* given up in time.
THEOREM BombNeverLate == Spec => []NotLate
  <1>1. HachikoInit => PoolTypeOK /\ LateInv
    BY InitPoolTypeOK, InitLate
  <1>2. PoolTypeOK /\ LateInv /\ [HachikoNext]_hachikoVars
        => PoolTypeOK' /\ LateInv'
    BY NextPoolTypeOK, NextLate
  <1>3. PoolTypeOK /\ LateInv => NotLate
    BY LateInvImpliesNotLate
  <1> QED
    BY <1>1, <1>2, <1>3, PoolIsImplemented, PTL

-----------------------------------------------------------------------------
(* Types.                                                                  *)

LEMMA InitTransportTypeOK == Init => TransportTypeOK
  <1> SUFFICES ASSUME Init PROVE TransportTypeOK
    OBVIOUS
  <1> USE TransportAssumption DEF Init
  <1>1. bus \in Seq(Frames) /\ Len(bus) = 0
    OBVIOUS
  <1>2. tp_buff \in [Places -> Transfers]
    BY DEF Transfers
  <1>3. cleared \in BOOLEAN /\ spoilt \in BOOLEAN /\ answered \in BOOLEAN
    OBVIOUS
  <1>4. /\ tp_of \in Transfers /\ tp_packet_PGN \in Transfers
        /\ transfer \in Transfers /\ sent \in 0 .. PackNr[transfer]
        /\ tp_rcv_pack_nr \in Nat
    BY DEF Transfers
  <1> QED
    BY <1>1, <1>2, <1>3, <1>4 DEF TransportTypeOK

\* The frame that arrives is a frame, and the rest of the bus is a bus.
LEMMA ArrivalFacts ==
    ASSUME TransportTypeOK, NEW kind, Arrives(kind)
    PROVE  /\ Head(bus) \in Frames /\ Head(bus).kind = kind
           /\ bus' \in Seq(Frames) /\ Len(bus') <= MaxBus
  <1>1. bus \in Seq(Frames) /\ bus # <<>> /\ bus' = Tail(bus)
        /\ Len(bus) <= MaxBus /\ Head(bus).kind = kind
    BY DEF TransportTypeOK, Arrives
  <1>2. Head(bus) \in Frames /\ Tail(bus) \in Seq(Frames)
        /\ Len(Tail(bus)) = Len(bus) - 1 /\ Len(bus) \in Nat
    BY <1>1, HeadTailProperties, LenProperties
  <1> QED
    BY <1>1, <1>2, TransportAssumption

LEMMA NextTransportTypeOK ==
    TransportTypeOK /\ [Next]_vars => TransportTypeOK'
  <1> SUFFICES ASSUME TransportTypeOK, [Next]_vars PROVE TransportTypeOK'
    OBVIOUS
  <1> USE TransportAssumption
  <1>1. CASE ChargerAsks
    <2>1. transfer' \in Transfers
      BY <1>1 DEF ChargerAsks, TransportTypeOK, Transfers
    <2>2. [kind |-> "RTS", of |-> transfer'] \in Frames
      BY <2>1 DEF Frames
    <2>3. bus' \in Seq(Frames) /\ Len(bus') <= MaxBus
      BY <1>1, <2>2 DEF ChargerAsks, TransportTypeOK
    <2>4. sent' \in 0 .. PackNr[transfer']
      BY <1>1, <2>1 DEF ChargerAsks, Transfers
    <2>5. cleared' \in BOOLEAN
      BY <1>1, Zenon DEF ChargerAsks
    <2> QED
      BY <1>1, <2>1, <2>3, <2>4, <2>5
         DEF ChargerAsks, TransportTypeOK, connection, readThread, history
  <1>2. CASE ChargerSends
    <2>1. sent' \in 1 .. PackNr[transfer]
      BY <1>2 DEF ChargerSends, TransportTypeOK, Transfers
    <2>2. [kind |-> "DT", of |-> transfer, nr |-> sent'] \in Frames
      <3>1. transfer \in Transfers
        BY DEF TransportTypeOK
      <3>2. sent' \in Places
        BY <2>1, <3>1 DEF Places, Packets
      <3> QED
        BY <3>1, <3>2 DEF Frames
    <2>3. bus' \in Seq(Frames) /\ Len(bus') <= MaxBus
      BY <1>2, <2>2 DEF ChargerSends, TransportTypeOK
    <2> QED
      BY <1>2, <2>1, <2>3
         DEF ChargerSends, TransportTypeOK, connection, readThread, history
  <1>3. CASE ChargerReports
    <2>1. [kind |-> "SINGLE"] \in Frames
      BY DEF Frames
    <2>2. bus' \in Seq(Frames) /\ Len(bus') <= MaxBus
      BY <1>3, <2>1 DEF ChargerReports, TransportTypeOK
    <2> QED
      BY <1>3, <2>2
         DEF ChargerReports, TransportTypeOK, connection, readThread, history
  <1>4. CASE RTSArms
    <2>1. Head(bus).of \in Transfers
      BY <1>4, ArrivalFacts DEF RTSArms, Frames
    <2> QED
      BY <1>4, <2>1, ArrivalFacts
         DEF RTSArms, TransportTypeOK, connection, history
  <1>5. CASE RTSRefused
    BY <1>5, ArrivalFacts
       DEF RTSRefused, TransportTypeOK, connection, readThread
  <1>6. CASE RTSArmed
    BY <1>6 DEF RTSArmed, TransportTypeOK, connection, charger, history
  <1>7. CASE RTSAccepted
    BY <1>7 DEF RTSAccepted, CountRestarted, TransportTypeOK, charger
  <1>8. CASE DTDropped
    BY <1>8, ArrivalFacts
       DEF DTDropped, TransportTypeOK, connection, readThread, history
  <1>9. CASE DTStored
    <2>1. Head(bus).of \in Transfers /\ Head(bus).nr \in Places
      BY <1>9, ArrivalFacts DEF DTStored, Frames
    <2>2. tp_buff' \in [Places -> Transfers]
      BY <1>9, <2>1 DEF DTStored, TransportTypeOK
    <2> QED
      BY <1>9, <2>2, ArrivalFacts DEF DTStored, TransportTypeOK, history
  <1>10. CASE Deliver
    BY <1>10 DEF Deliver, TransportTypeOK, connection, charger
  <1>11. CASE AskForACK
    BY <1>11 DEF AskForACK, TransportTypeOK, charger, history
  <1>12. CASE SingleTaken
    <2>1. tp_buff' \in [Places -> Transfers]
      BY <1>12 DEF SingleTaken, TransportTypeOK, Transfers
    <2>2. spoilt' \in BOOLEAN
      BY <1>12, Zenon DEF SingleTaken, TransportTypeOK
    <2> QED
      BY <1>12, <2>1, <2>2, ArrivalFacts
         DEF SingleTaken, TransportTypeOK, readThread
  <1>13. CASE WriteThread
    BY <1>13 DEF WriteThread, Build, Write, LooksForCTS, AwaitData, Settles,
                 LooksForACK, Close, TransportTypeOK, connection, readThread,
                 charger, history
  <1>14. CASE Sweep
    BY <1>14 DEF Sweep, Notify, TransportTypeOK, readThread, charger, history
  <1>15. CASE UNCHANGED vars
    BY <1>15 DEF vars, TransportTypeOK, connection, readThread, charger,
                 history
  <1> QED
    BY <1>1, <1>2, <1>3, <1>4, <1>5, <1>6, <1>7, <1>8, <1>9, <1>10, <1>11,
       <1>12, <1>13, <1>14, <1>15 DEF Next, Charger, ReadThread

\* The variables of pool, threads and charger keep their types for every
\* number of packets, connections, frames and slots.
THEOREM TypeCorrect == Spec => []TypeOK
  <1>1. Init => TypeOK
    BY InitPoolTypeOK, InitTransportTypeOK DEF Init, TypeOK
  <1>2. TypeOK /\ [Next]_vars => TypeOK'
    BY NextUsesPool, NextPoolTypeOK, NextTransportTypeOK DEF TypeOK
  <1> QED
    BY <1>1, <1>2, PTL DEF Spec

-----------------------------------------------------------------------------
(* The watched connection.  BombWatches is not inductive: between arming    *)
(* the timer and accepting the connection it must run already, and the      *)
(* write thread's late assignment of RX must not reopen a closed one.       *)

WatchInv ==
    /\ BombWatches
    /\ reader = "armed" => Running(can_tp_bomb)
    /\ writer = "toRX" => can_tcu_status = "CTS"

\* A visit that does not find the bomb expired lets it run.
LEMMA VisitKeepsRunning ==
    ASSUME PoolTypeOK, Running(can_tp_bomb), Visit, ~Expires(can_tp_bomb)
    PROVE  Running(can_tp_bomb)'
  <1> USE PoolAssumption, TransportAssumption DEF PoolTypeOK
  <1>1. can_tp_bomb \in Foods /\ can_tp_bomb # NULL
    OBVIOUS
  <1>2. CASE Skip \/ CountDown
    BY <1>2 DEF Skip, CountDown, Running, SlotsOf
  <1>3. CASE Hold
    <2>1. Visited # can_tp_bomb
      BY <1>3 DEF Hold, Running
    <2>2. Visited \in Foods
      BY <1>3 DEF Hold, Visited
    <2> QED
      BY <1>1, <1>3, <2>1, <2>2 DEF Hold, Running, SlotsOf
  <1>4. CASE Reap
    <2>1. Visited # can_tp_bomb
      BY <1>4 DEF Reap, Running
    <2> QED
      BY <1>4, <2>1 DEF Reap, ClearSlot, Visited, Running, SlotsOf, Slots
  <1>5. ASSUME NEW f \in Foods, Expire(f)
        PROVE  Running(can_tp_bomb)'
    <2>1. Visited # can_tp_bomb
      BY <1>5 DEF Expire, Expires
    <2> QED
      BY <1>5, <2>1 DEF Expire, ClearSlot, Visited, Running, SlotsOf, Slots
  <1> QED
    BY <1>2, <1>3, <1>4, <1>5 DEF Visit

LEMMA InitWatch == Init => WatchInv
  BY DEF Init, WatchInv, BombWatches

LEMMA NextWatch ==
    ASSUME Preempted = FALSE
    PROVE  TypeOK /\ WatchInv /\ [Next]_vars => WatchInv'
  <1> SUFFICES ASSUME TypeOK, WatchInv, [Next]_vars PROVE WatchInv'
    OBVIOUS
  <1> USE PoolAssumption, TransportAssumption
  <1>0. PoolTypeOK /\ TransportTypeOK
    BY DEF TypeOK
  <1> DEFINE Bomb == Running(can_tp_bomb)
  <1>a. ASSUME UNCHANGED hachikoVars PROVE Bomb' <=> Bomb
    BY <1>a DEF hachikoVars, Running, SlotsOf
  <1>1. CASE Charger
    <2>1. /\ UNCHANGED hachikoVars
          /\ UNCHANGED <<can_tcu_status, reader, writer>>
      BY <1>1 DEF Charger, ChargerAsks, ChargerSends, ChargerReports,
                  connection, readThread
    <2> QED
      BY <2>1, <1>a DEF WatchInv, BombWatches
  <1>2. CASE ReadThread
    <2>0. writer # "toRX" /\ writer' = writer
      BY <1>2 DEF ReadThread, Undisturbed, RTSArms, RTSRefused, RTSArmed,
                  RTSAccepted, DTDropped, DTStored, Deliver, AskForACK,
                  SingleTaken
    <2>1. CASE RTSArms
      BY <2>0, <2>1 DEF RTSArms, WatchInv, BombWatches
    <2>2. CASE RTSRefused \/ DTDropped \/ SingleTaken
      <3>1. UNCHANGED hachikoVars /\ UNCHANGED <<can_tcu_status, reader>>
        BY <2>2 DEF RTSRefused, DTDropped, SingleTaken, connection, readThread
      <3> QED
        BY <2>0, <3>1, <1>a DEF WatchInv, BombWatches
    <2>3. CASE RTSArmed
      <3>1. Bomb'
        BY <1>0, <2>3
           DEF RTSArmed, NewPublishes, Running, SlotsOf, Slots, PoolTypeOK
      <3> QED
        BY <2>0, <2>3, <3>1 DEF RTSArmed, WatchInv, BombWatches
    <2>4. CASE RTSAccepted
      <3>1. Bomb /\ UNCHANGED hachikoVars
        BY <2>4 DEF RTSAccepted, WatchInv
      <3> QED
        BY <2>0, <2>4, <3>1, <1>a DEF RTSAccepted, WatchInv, BombWatches
    <2>5. CASE DTStored
      <3>1. Bomb' <=> Bomb
        BY <2>5 DEF DTStored, Feed, Running, SlotsOf
      <3>2. can_tcu_status' = can_tcu_status /\ reader = "read"
            /\ reader' # "armed"
        BY <2>5 DEF DTStored, Arrives
      <3> QED
        BY <2>0, <3>1, <3>2 DEF WatchInv, BombWatches
    <2>6. CASE Deliver
      BY <2>0, <2>6 DEF Deliver, WatchInv, BombWatches
    <2>7. CASE AskForACK
      BY <2>0, <2>7 DEF AskForACK, WatchInv, BombWatches
    <2> QED
      BY <1>2, <2>1, <2>2, <2>3, <2>4, <2>5, <2>6, <2>7 DEF ReadThread
  <1>3. CASE WriteThread
    <2>0. UNCHANGED hachikoVars /\ reader' = reader
      BY <1>3 DEF WriteThread, Build, Write, LooksForCTS, AwaitData, Settles,
                  Close, readThread
    <2>1. CASE \/ \E p \in {"NORMAL", "CTS", "ACK"} : Build(p)
               \/ \E ok \in BOOLEAN : Write(ok)
               \/ LooksForCTS \/ Settles
      <3>1. can_tcu_status' = can_tcu_status
        BY <2>1 DEF Build, Write, LooksForCTS, Settles, connection
      <3>2. writer' = "toRX" => can_tcu_status = "CTS"
        BY <2>1 DEF Build, Write, LooksForCTS, Settles, LooksForACK
      <3> QED
        BY <2>0, <3>1, <3>2, <1>a DEF WatchInv, BombWatches
    <2>2. CASE AwaitData
      <3>1. can_tcu_status = "CTS" /\ can_tcu_status' = "RX"
            /\ writer' = "settled"
        BY <2>2 DEF AwaitData, WatchInv
      <3> QED
        BY <2>0, <3>1, <1>a DEF WatchInv, BombWatches
    <2>3. CASE Close
      <3>1. can_tcu_status' = "NORMAL" /\ writer' = "loop"
        BY <2>3 DEF Close
      <3> QED
        BY <2>0, <3>1, <1>a DEF WatchInv, BombWatches
    <2> QED
      BY <1>3, <2>1, <2>2, <2>3 DEF WriteThread
  <1>4. CASE Sweep
    <2>0. reader' = reader /\ writer' = writer /\ writer # "toRX"
      BY <1>4 DEF Sweep, Undisturbed, readThread
    <2>1. CASE Expires(can_tp_bomb)
      BY <1>4, <2>0, <2>1 DEF Sweep, Notify, JustFed, WatchInv, BombWatches
    <2>2. CASE ~Expires(can_tp_bomb)
      <3>1. can_tcu_status' = can_tcu_status
        BY <1>4, <2>2 DEF Sweep, Notify
      <3>2. Bomb => Bomb'
        BY <1>0, <1>4, <2>2, VisitKeepsRunning DEF Sweep
      <3> QED
        BY <2>0, <3>1, <3>2 DEF WatchInv, BombWatches
    <2> QED
      BY <2>1, <2>2
  <1>5. CASE UNCHANGED vars
    <2>1. /\ UNCHANGED hachikoVars
          /\ UNCHANGED <<can_tcu_status, reader, writer>>
      BY <1>5 DEF vars, connection, readThread
    <2> QED
      BY <2>1, <1>a DEF WatchInv, BombWatches
  <1> QED
    BY <1>1, <1>2, <1>3, <1>4, <1>5 DEF Next

\* When the write thread's test and assignment are not torn apart, an open
\* connection that awaits packets is watched by a running timer.
THEOREM ConnectionsAreWatched ==
    ASSUME Preempted = FALSE
    PROVE  Spec => []BombWatches
  <1>1. Init => TypeOK /\ WatchInv
    BY InitPoolTypeOK, InitTransportTypeOK, InitWatch DEF Init, TypeOK
  <1>2. TypeOK /\ WatchInv /\ [Next]_vars => TypeOK' /\ WatchInv'
    BY NextUsesPool, NextPoolTypeOK, NextTransportTypeOK, NextWatch
       DEF TypeOK
  <1>3. WatchInv => BombWatches
    BY DEF WatchInv
  <1> QED
    BY <1>1, <1>2, <1>3, PTL DEF Spec

\* An open connection that awaits packets is not only watched: its timer still
\* has time left or expires at its next visit, so that within one length of the
\* timer (1250 ms, src/tcu.c:1376) a packet arrives or the connection ends.
THEOREM ConnectionsEndInTime ==
    ASSUME Preempted = FALSE
    PROVE  Spec => [](can_tcu_status \in {"CTS", "RX"} /\ reader = "read"
                      => /\ Running(can_tp_bomb)
                         /\ age[can_tp_bomb] <= Ttl[can_tp_bomb])
  <1>1. BombWatches /\ NotLate
        => (can_tcu_status \in {"CTS", "RX"} /\ reader = "read"
            => /\ Running(can_tp_bomb)
               /\ age[can_tp_bomb] <= Ttl[can_tp_bomb])
    BY PoolAssumption, TransportAssumption DEF BombWatches, NotLate
  <1> QED
    BY <1>1, ConnectionsAreWatched, BombNeverLate, PTL

-----------------------------------------------------------------------------
(* Whole messages.  The frames of connections have positions: the request's *)
(* is 0, a data packet's its number.  The bus holds them in order and       *)
(* without gaps, from the one that the read thread took last, <<t, n>>, to  *)
(* the one that the charger sent last.                                      *)

\* The places on the bus that hold a frame of a connection.
Framed == { i \in DOMAIN bus : bus[i].kind # "SINGLE" }

Of(i) == bus[i].of
Nr(i) == IF bus[i].kind = "RTS" THEN 0 ELSE bus[i].nr

\* Position nr of connection of comes before position nr2 of connection of2.
Earlier(of, nr, of2, nr2) == of < of2 \/ (of = of2 /\ nr < nr2)

InOrder ==
    \A i, j \in Framed : j < i => Earlier(Of(j), Nr(j), Of(i), Nr(i))

InBounds(t, n) ==
    \A i \in Framed : /\ Earlier(t, n, Of(i), Nr(i))
                      /\ ~Earlier(transfer, sent, Of(i), Nr(i))
                      /\ Nr(i) <= PackNr[Of(i)]

\* Before each data packet comes the packet before it, or the request.
NoGaps(t, n) ==
    \A i \in Framed :
        bus[i].kind = "DT" =>
            \/ Of(i) = t /\ Nr(i) = n + 1
            \/ \E j \in Framed : j < i /\ Of(j) = Of(i) /\ Nr(j) + 1 = Nr(i)

UpToLast(t, n) ==
    \/ t = transfer /\ n = sent
    \/ \E i \in Framed : Of(i) = transfer /\ Nr(i) = sent

Follows(t, n) ==
    InOrder /\ InBounds(t, n) /\ NoGaps(t, n) /\ UpToLast(t, n)

\* What the read thread has of connection t when it has taken n packets of it:
\* if it has stored all of them, they are in their places.
Collected(t, n) ==
    /\ tp_of = t
    /\ tp_rcv_pack_nr <= n
    /\ tp_rcv_pack_nr = n => \A k \in 1 .. n : tp_buff[k] = t
    /\ reader = "complete" => tp_rcv_pack_nr >= PackNr[t]
    /\ t \in delivered => n = PackNr[t] /\ reader # "complete"

Accepting == reader \in {"arming", "armed"}

MessageInv(t, n) ==
    /\ Follows(t, n)
    /\ tp_of <= t
    /\ \A d \in delivered : d <= tp_of
    /\ Accepting => n = 0 /\ tp_of < t /\ tp_packet_PGN = t
    /\ ~Accepting /\ ~spoilt => Collected(t, n)

WholeInv == \E t \in Transfers : \E n \in 0 .. PackNr[t] : MessageInv(t, n)

LEMMA FrameFacts ==
    ASSUME TransportTypeOK
    PROVE  /\ Framed \subseteq 1 .. Len(bus) /\ Len(bus) \in Nat
           /\ transfer \in Nat /\ sent \in Nat
           /\ \A i \in Framed :
                 /\ bus[i].kind \in {"RTS", "DT"}
                 /\ Of(i) \in Transfers /\ Of(i) \in Nat /\ Nr(i) \in Nat
                 /\ bus[i].kind = "DT" => Nr(i) = bus[i].nr /\ Nr(i) # 0
                 /\ bus[i].kind = "RTS" => Nr(i) = 0
  <1> USE TransportAssumption
  <1>1. bus \in Seq(Frames) /\ transfer \in Transfers
        /\ sent \in 0 .. PackNr[transfer]
    BY DEF TransportTypeOK
  <1>2. Transfers \subseteq Nat
    BY DEF Transfers
  <1>3. Places \subseteq Nat \ {0}
    BY DEF Places, Packets, Transfers
  <1>4. Framed \subseteq 1 .. Len(bus) /\ Len(bus) \in Nat
    BY <1>1, LenProperties DEF Framed
  <1>5. ASSUME NEW i \in Framed
        PROVE  /\ bus[i].kind \in {"RTS", "DT"}
               /\ Of(i) \in Transfers /\ Of(i) \in Nat /\ Nr(i) \in Nat
               /\ bus[i].kind = "DT" => Nr(i) = bus[i].nr /\ Nr(i) # 0
               /\ bus[i].kind = "RTS" => Nr(i) = 0
    <2>1. bus[i] \in Frames /\ bus[i].kind # "SINGLE"
      BY <1>1, <1>4, ElementOfSeq DEF Framed
    <2>2. CASE bus[i] \in [kind : {"RTS"}, of : Transfers]
      BY <1>2, <2>2 DEF Of, Nr
    <2>3. CASE bus[i] \in [kind : {"DT"}, of : Transfers, nr : Places]
      BY <1>2, <1>3, <2>3 DEF Of, Nr
    <2> QED
      BY <2>1, <2>2, <2>3 DEF Frames
  <1>6. transfer \in Nat /\ sent \in Nat
    BY <1>1, <1>2
  <1> QED
    BY <1>4, <1>5, <1>6

LEMMA BusKept ==
    ASSUME NEW t, NEW n, Follows(t, n), UNCHANGED <<bus, transfer, sent>>
    PROVE  Follows(t, n)'
  BY DEF Follows, InOrder, InBounds, NoGaps, UpToLast, Framed, Of, Nr

\* A frame is put on the bus.
LEMMA Appended ==
    ASSUME TransportTypeOK, NEW f \in Frames, bus' = Append(bus, f)
    PROVE  /\ \A i \in Framed : /\ i \in Framed'
                                /\ Of(i)' = Of(i) /\ Nr(i)' = Nr(i)
                                /\ bus'[i] = bus[i]
                                /\ i < Len(bus) + 1
           /\ \A i \in Framed' : i \in Framed \/ i = Len(bus) + 1
           /\ bus'[Len(bus) + 1] = f
           /\ Len(bus) + 1 \in Framed' <=> f.kind # "SINGLE"
  <1>1. bus \in Seq(Frames) /\ Len(bus) \in Nat
    BY LenProperties DEF TransportTypeOK
  <1>2. /\ DOMAIN bus = 1 .. Len(bus)
        /\ DOMAIN bus' = 1 .. Len(bus) + 1
        /\ \A i \in 1 .. Len(bus) : bus'[i] = bus[i]
        /\ bus'[Len(bus) + 1] = f
    BY <1>1, AppendProperties, LenProperties
  <1> QED
    BY <1>1, <1>2 DEF Framed, Of, Nr

\* The first frame is taken off the bus.
LEMMA Taken ==
    ASSUME TransportTypeOK, NEW kind, Arrives(kind)
    PROVE  /\ \A i \in Framed : i = 1 \/ i - 1 \in Framed'
           /\ \A i \in Framed' : /\ i + 1 \in Framed
                                 /\ Of(i)' = Of(i + 1) /\ Nr(i)' = Nr(i + 1)
                                 /\ bus'[i] = bus[i + 1]
                                 /\ i \in Nat \ {0}
           /\ kind # "SINGLE" => 1 \in Framed
           /\ kind = "SINGLE" => 1 \notin Framed
           /\ bus[1] = Head(bus) /\ bus[1].kind = kind
  <1>1. bus \in Seq(Frames) /\ bus # <<>> /\ bus' = Tail(bus)
        /\ Head(bus).kind = kind
    BY DEF TransportTypeOK, Arrives
  <1>2. /\ Len(bus) \in Nat \ {0}
        /\ DOMAIN bus = 1 .. Len(bus)
        /\ DOMAIN bus' = 1 .. Len(bus) - 1
        /\ \A i \in 1 .. Len(bus) - 1 : bus'[i] = bus[i + 1]
        /\ bus[1] = Head(bus)
    BY <1>1, HeadTailProperties, LenProperties, EmptySeq
  <1>3. ASSUME NEW i \in Framed'
        PROVE  /\ i + 1 \in Framed
               /\ Of(i)' = Of(i + 1) /\ Nr(i)' = Nr(i + 1)
               /\ bus'[i] = bus[i + 1]
               /\ i \in Nat \ {0}
    BY <1>2 DEF Framed, Of, Nr
  <1>4. ASSUME NEW i \in Framed, i # 1
        PROVE  i - 1 \in Framed'
    <2>1. i \in 2 .. Len(bus) /\ bus[i].kind # "SINGLE"
      BY <1>2, <1>4 DEF Framed
    <2>2. bus'[i - 1] = bus[(i - 1) + 1] /\ i - 1 \in 1 .. Len(bus) - 1
      BY <1>2, <2>1
    <2> QED
      BY <1>2, <2>1, <2>2 DEF Framed
  <1> QED
    BY <1>1, <1>2, <1>3, <1>4 DEF Framed

\* What the charger sends goes on where its last frame ended.
LEMMA AsksFollows ==
    ASSUME TransportTypeOK, NEW t \in Nat, NEW n \in Nat, Follows(t, n),
           ChargerAsks
    PROVE  Follows(t, n)'
  <1> DEFINE f == [kind |-> "RTS", of |-> transfer']
  <1>1. transfer' = transfer + 1 /\ sent' = 0 /\ bus' = Append(bus, f)
        /\ transfer' \in Transfers
    BY TransportAssumption DEF ChargerAsks, TransportTypeOK, Transfers
  <1>2. f \in Frames
    BY <1>1 DEF Frames
  <1>0. PICK last \in Nat : last = Len(bus) + 1
    BY FrameFacts
  <1> HIDE DEF f
  <1>3. /\ \A i \in Framed : /\ i \in Framed'
                             /\ Of(i)' = Of(i) /\ Nr(i)' = Nr(i)
                             /\ bus'[i] = bus[i] /\ i < last
        /\ \A i \in Framed' : i \in Framed \/ i = last
        /\ bus'[last] = f
        /\ last \in Framed' <=> f.kind # "SINGLE"
    BY <1>0, <1>1, <1>2, Appended
  <1>4. /\ last \in Framed' /\ bus'[last].kind = "RTS"
        /\ Of(last)' = transfer + 1 /\ Nr(last)' = 0
    <2>1. f.kind = "RTS" /\ f.of = transfer + 1
      BY <1>1 DEF f
    <2> QED
      BY <1>3, <2>1 DEF Of, Nr
  <1> USE FrameFacts DEF Follows, Earlier
  <1>6. \A i \in Framed : Of(i) <= transfer
    BY DEF InBounds
  <1>7. InOrder'
    BY <1>3, <1>4, <1>6 DEF InOrder
  <1>8. t <= transfer
    BY DEF UpToLast, InBounds
  <1>9. InBounds(t, n)'
    <2>1. PackNr[transfer + 1] \in Nat
      BY <1>1, TransportAssumption DEF Transfers
    <2> QED
      BY <1>1, <1>3, <1>4, <1>6, <1>8, <2>1 DEF InBounds
  <1>10. NoGaps(t, n)'
    BY <1>3, <1>4 DEF NoGaps
  <1>11. UpToLast(t, n)'
    BY <1>1, <1>4 DEF UpToLast
  <1> QED
    BY <1>7, <1>9, <1>10, <1>11

LEMMA SendsFollows ==
    ASSUME TransportTypeOK, NEW t \in Nat, NEW n \in Nat, Follows(t, n),
           ChargerSends
    PROVE  Follows(t, n)'
  <1> DEFINE f == [kind |-> "DT", of |-> transfer, nr |-> sent']
  <1>1. /\ transfer' = transfer /\ sent' = sent + 1 /\ bus' = Append(bus, f)
        /\ transfer \in Transfers /\ sent' \in 1 .. PackNr[transfer]
    BY TransportAssumption DEF ChargerSends, TransportTypeOK, Transfers
  <1>2. f \in Frames
    BY <1>1 DEF Frames, Places, Packets
  <1>0. PICK last \in Nat : last = Len(bus) + 1
    BY FrameFacts
  <1> HIDE DEF f
  <1>3. /\ \A i \in Framed : /\ i \in Framed'
                             /\ Of(i)' = Of(i) /\ Nr(i)' = Nr(i)
                             /\ bus'[i] = bus[i] /\ i < last
        /\ \A i \in Framed' : i \in Framed \/ i = last
        /\ bus'[last] = f
        /\ last \in Framed' <=> f.kind # "SINGLE"
    BY <1>0, <1>1, <1>2, Appended
  <1>4. /\ last \in Framed' /\ bus'[last].kind = "DT"
        /\ Of(last)' = transfer /\ Nr(last)' = sent + 1
    <2>1. f.kind = "DT" /\ f.of = transfer /\ f.nr = sent + 1
      BY <1>1 DEF f
    <2> QED
      BY <1>3, <2>1 DEF Of, Nr
  <1> USE FrameFacts DEF Follows, Earlier
  <1>6. \A i \in Framed : /\ ~Earlier(transfer, sent, Of(i), Nr(i))
                          /\ Earlier(t, n, Of(i), Nr(i))
    BY DEF InBounds
  <1>7. InOrder'
    BY <1>3, <1>4, <1>6 DEF InOrder
  <1>8. t < transfer \/ (t = transfer /\ n <= sent)
    BY <1>6 DEF UpToLast
  <1>9. InBounds(t, n)'
    BY <1>1, <1>3, <1>4, <1>6, <1>8 DEF InBounds
  <1>10. NoGaps(t, n)'
    <2>1. \/ Of(last)' = t /\ Nr(last)' = n + 1
          \/ \E j \in Framed' : /\ j < last /\ Of(j)' = Of(last)'
                                /\ Nr(j)' + 1 = Nr(last)'
      BY <1>3, <1>4 DEF UpToLast
    <2>2. ASSUME NEW i \in Framed, bus[i].kind = "DT"
          PROVE  \/ Of(i) = t /\ Nr(i) = n + 1
                 \/ \E j \in Framed : j < i /\ Of(j) = Of(i) /\ Nr(j) + 1 = Nr(i)
      BY <2>2 DEF NoGaps
    <2> QED
      BY <1>3, <2>1, <2>2 DEF NoGaps
  <1>11. UpToLast(t, n)'
    BY <1>1, <1>4 DEF UpToLast
  <1> QED
    BY <1>7, <1>9, <1>10, <1>11

LEMMA ReportsFollows ==
    ASSUME TransportTypeOK, NEW t \in Nat, NEW n \in Nat, Follows(t, n),
           ChargerReports
    PROVE  Follows(t, n)'
  <1> DEFINE f == [kind |-> "SINGLE"]
  <1>1. bus' = Append(bus, f) /\ UNCHANGED <<transfer, sent>>
    BY DEF ChargerReports
  <1>2. f \in Frames /\ f.kind = "SINGLE"
    BY DEF Frames
  <1> HIDE DEF f
  <1>3. /\ \A i \in Framed : /\ i \in Framed'
                             /\ Of(i)' = Of(i) /\ Nr(i)' = Nr(i)
                             /\ bus'[i] = bus[i]
        /\ \A i \in Framed' : i \in Framed
    BY <1>1, <1>2, Appended
  <1> USE DEF Follows
  <1>4. InOrder'
    BY <1>3 DEF InOrder
  <1>5. InBounds(t, n)'
    BY <1>1, <1>3 DEF InBounds, Earlier
  <1>6. NoGaps(t, n)'
    BY <1>3 DEF NoGaps
  <1>7. UpToLast(t, n)'
    BY <1>1, <1>3 DEF UpToLast
  <1> QED
    BY <1>4, <1>5, <1>6, <1>7

\* A single frame leaves the others as they are.
LEMMA SingleFollows ==
    ASSUME TransportTypeOK, NEW t \in Nat, NEW n \in Nat, Follows(t, n),
           Arrives("SINGLE"), UNCHANGED <<transfer, sent>>
    PROVE  Follows(t, n)'
  <1>1. /\ \A i \in Framed : i - 1 \in Framed'
        /\ \A i \in Framed' : /\ i + 1 \in Framed
                              /\ Of(i)' = Of(i + 1) /\ Nr(i)' = Nr(i + 1)
                              /\ bus'[i] = bus[i + 1]
                              /\ i \in Nat
    BY Taken
  <1> USE FrameFacts DEF Follows
  <1>2. \A i \in Framed : Of(i - 1)' = Of(i) /\ Nr(i - 1)' = Nr(i)
    BY <1>1
  <1>3. InOrder'
    BY <1>1 DEF InOrder
  <1>4. InBounds(t, n)'
    BY <1>1 DEF InBounds
  <1>5. NoGaps(t, n)'
    <2>1. SUFFICES ASSUME NEW i \in Framed', bus'[i].kind = "DT",
                          ~(Of(i)' = t /\ Nr(i)' = n + 1)
                   PROVE  \E j \in Framed' : /\ j < i /\ Of(j)' = Of(i)'
                                             /\ Nr(j)' + 1 = Nr(i)'
      BY DEF NoGaps
    <2>2. PICK j \in Framed : /\ j < i + 1 /\ Of(j) = Of(i + 1)
                              /\ Nr(j) + 1 = Nr(i + 1)
      BY <1>1, <2>1 DEF NoGaps
    <2> QED
      BY <1>1, <1>2, <2>2
  <1>6. UpToLast(t, n)'
    BY <1>1, <1>2 DEF UpToLast
  <1> QED
    BY <1>3, <1>4, <1>5, <1>6

\* A frame of a connection that is taken becomes the one the others follow.
LEMMA FrameTaken ==
    ASSUME TransportTypeOK, NEW t \in Nat, NEW n \in Nat, Follows(t, n),
           NEW kind, Arrives(kind), kind # "SINGLE",
           UNCHANGED <<transfer, sent>>,
           NEW c, NEW m, c = Of(1), m = Nr(1)
    PROVE  /\ Follows(c, m)'
           /\ c \in Transfers /\ m \in 0 .. PackNr[c] /\ Earlier(t, n, c, m)
           /\ kind = "DT" => (c = t /\ m = n + 1 /\ Head(bus).nr = m)
           /\ kind = "RTS" => (m = 0)
           /\ Head(bus).of = c
  <1>1. /\ \A i \in Framed : i = 1 \/ i - 1 \in Framed'
        /\ \A i \in Framed' : /\ i + 1 \in Framed
                              /\ Of(i)' = Of(i + 1) /\ Nr(i)' = Nr(i + 1)
                              /\ bus'[i] = bus[i + 1]
                              /\ i \in Nat \ {0}
        /\ 1 \in Framed /\ bus[1] = Head(bus) /\ bus[1].kind = kind
    BY Taken
  <1>2. /\ c \in Transfers /\ c \in Nat /\ m \in Nat /\ PackNr[c] \in Nat
        /\ kind = "DT" => Head(bus).nr = m
        /\ kind = "RTS" => m = 0
        /\ Head(bus).of = c
    <2>1. /\ c \in Transfers /\ c \in Nat /\ m \in Nat
          /\ kind = "DT" => Head(bus).nr = m
          /\ kind = "RTS" => m = 0
      BY <1>1, FrameFacts
    <2>2. Head(bus).of = c
      BY <1>1 DEF Of
    <2>3. PackNr[c] \in Nat
      BY <2>1, TransportAssumption DEF Transfers
    <2> QED
      BY <2>1, <2>2, <2>3
  <1>3. /\ \A i \in Framed : /\ Of(i) \in Nat /\ Nr(i) \in Nat
                             /\ i \in Nat \ {0}
        /\ transfer \in Nat /\ sent \in Nat
    BY FrameFacts
  <1>4. \A i \in Framed : i # 1 => Of(i - 1)' = Of(i) /\ Nr(i - 1)' = Nr(i)
    BY <1>1, <1>3
  <1> USE DEF Follows, Earlier
  <1>5. Earlier(t, n, c, m) /\ m <= PackNr[c] /\ ~Earlier(transfer, sent, c, m)
    BY <1>1 DEF InBounds
  <1>6. InOrder'
    BY <1>1 DEF InOrder
  <1>7. InBounds(c, m)'
    <2>1. \A i \in Framed' : /\ Earlier(c, m, Of(i + 1), Nr(i + 1))
                             /\ i + 1 \in Framed
      BY <1>1 DEF InOrder
    <2> QED
      BY <1>1, <2>1 DEF InBounds
  <1>8. NoGaps(c, m)'
    <2>1. SUFFICES ASSUME NEW i \in Framed', bus'[i].kind = "DT",
                          ~(Of(i)' = c /\ Nr(i)' = m + 1)
                   PROVE  \E j \in Framed' : /\ j < i /\ Of(j)' = Of(i)'
                                             /\ Nr(j)' + 1 = Nr(i)'
      BY DEF NoGaps
    <2>2. Earlier(c, m, Of(i + 1), Nr(i + 1)) /\ i + 1 \in Framed
          /\ Of(i + 1) \in Nat /\ Nr(i + 1) \in Nat
      BY <1>1, <1>3 DEF InOrder
    <2>3. ~(Of(i + 1) = t /\ Nr(i + 1) = n + 1)
      BY <1>2, <1>5, <2>2
    <2>4. PICK j \in Framed : /\ j < i + 1 /\ Of(j) = Of(i + 1)
                              /\ Nr(j) + 1 = Nr(i + 1)
      BY <1>1, <2>1, <2>3 DEF NoGaps
    <2>5. j # 1
      BY <1>1, <1>2, <2>1, <2>4
    <2>6. j - 1 \in Framed' /\ j - 1 < i /\ Of(j - 1)' = Of(j)
          /\ Nr(j - 1)' = Nr(j)
      BY <1>1, <1>3, <1>4, <2>4, <2>5
    <2> QED
      BY <1>1, <2>4, <2>6
  <1>9. UpToLast(c, m)'
    <2>1. CASE t = transfer /\ n = sent
      BY <1>2, <1>5, <2>1
    <2>2. CASE \E i \in Framed : Of(i) = transfer /\ Nr(i) = sent
      BY <1>1, <1>4, <2>2 DEF UpToLast
    <2> QED
      BY <2>1, <2>2 DEF UpToLast
  <1>10. kind = "DT" => c = t /\ m = n + 1
    BY <1>1, <1>3 DEF NoGaps
  <1> QED
    BY <1>2, <1>5, <1>6, <1>7, <1>8, <1>9, <1>10

LEMMA InitWhole == Init => WholeInv
  <1> SUFFICES ASSUME Init PROVE MessageInv(0, 0)
    BY TransportAssumption DEF WholeInv, Transfers
  <1> USE DEF Init
  <1>1. Framed = {}
    BY DEF Framed
  <1>2. Follows(0, 0)
    BY <1>1 DEF Follows, InOrder, InBounds, NoGaps, UpToLast
  <1>3. Collected(0, 0)
    BY DEF Collected
  <1> QED
    BY <1>2, <1>3 DEF MessageInv, Accepting

\* What the read thread has matters only as far as its own variables.
LEMMA HeldKept ==
    ASSUME NEW t, NEW n, MessageInv(t, n), Follows(t, n)',
           UNCHANGED <<tp_of, tp_rcv_pack_nr, tp_buff, reader, tp_packet_PGN,
                       delivered, spoilt>>
    PROVE  MessageInv(t, n)'
  BY DEF MessageInv, Collected, Accepting

LEMMA NextWhole ==
    TransportTypeOK /\ WholeInv /\ [Next]_vars => WholeInv'
  <1> SUFFICES ASSUME TransportTypeOK, WholeInv, [Next]_vars PROVE WholeInv'
    OBVIOUS
  <1>1. PICK t \in Transfers : \E n \in 0 .. PackNr[t] : MessageInv(t, n)
    BY DEF WholeInv
  <1>2. PICK n \in 0 .. PackNr[t] : MessageInv(t, n)
    BY <1>1
  <1>3. t \in Nat /\ n \in Nat /\ PackNr[t] \in Nat /\ n <= PackNr[t]
        /\ tp_of \in Nat /\ tp_rcv_pack_nr \in Nat /\ delivered \subseteq Nat
    BY <1>2, TransportAssumption DEF Transfers, TransportTypeOK
  <1>4. Follows(t, n)
    BY <1>2 DEF MessageInv
  <1>5. ASSUME MessageInv(t, n)' PROVE WholeInv'
    BY <1>5 DEF WholeInv
  <1>6. CASE Charger
    <2>1. Follows(t, n)'
      BY <1>3, <1>4, <1>6, AsksFollows, SendsFollows, ReportsFollows
         DEF Charger
    <2>2. UNCHANGED <<tp_of, tp_rcv_pack_nr, tp_buff, reader, tp_packet_PGN,
                      delivered, spoilt>>
      BY <1>6 DEF Charger, ChargerAsks, ChargerSends, ChargerReports,
                  connection, readThread, history
    <2> QED
      BY <1>2, <1>5, <2>1, <2>2, HeldKept
  <1>7. CASE WriteThread \/ Sweep \/ UNCHANGED vars
    <2>1. /\ UNCHANGED <<bus, transfer, sent>>
          /\ UNCHANGED <<tp_of, tp_rcv_pack_nr, tp_buff, reader,
                         tp_packet_PGN, delivered, spoilt>>
      BY <1>7 DEF WriteThread, Build, Write, LooksForCTS, AwaitData, Settles,
                  Close, Sweep, vars, connection, readThread, charger, history
    <2> QED
      BY <1>2, <1>4, <1>5, <2>1, BusKept, HeldKept
  <1>8. CASE ReadThread
    <2>1. ASSUME NEW k \in {"RTS", "DT"}, Arrives(k),
                 UNCHANGED <<transfer, sent>>
          PROVE  \E c \in Transfers : \E m \in 0 .. PackNr[c] :
                    /\ Follows(c, m)' /\ Earlier(t, n, c, m)
                    /\ k = "DT" => (c = t /\ m = n + 1 /\ Head(bus).nr = m)
                    /\ k = "RTS" => m = 0
                    /\ Head(bus).of = c
      <3>1. PICK c, m : c = Of(1) /\ m = Nr(1)
        OBVIOUS
      <3>2. k # "SINGLE"
        OBVIOUS
      <3>3. /\ Follows(c, m)'
            /\ c \in Transfers /\ m \in 0 .. PackNr[c] /\ Earlier(t, n, c, m)
            /\ k = "DT" => (c = t /\ m = n + 1 /\ Head(bus).nr = m)
            /\ k = "RTS" => m = 0
            /\ Head(bus).of = c
        BY <1>3, <1>4, <2>1, <3>1, <3>2, FrameTaken
      <3> QED
        BY <3>3, Zenon
    <2>2. CASE RTSArms \/ RTSRefused
      <3>1. PICK c \in Transfers : Follows(c, 0)' /\ Earlier(t, n, c, 0)
                                   /\ Head(bus).of = c
        <4>1. Arrives("RTS") /\ UNCHANGED <<transfer, sent>>
          BY <2>2 DEF RTSArms, RTSRefused
        <4> QED
          BY <2>1, <4>1
      <3>2. c \in Nat /\ t < c /\ 0 \in 0 .. PackNr[c]
        BY <1>3, <3>1, TransportAssumption DEF Earlier, Transfers
      <3>3. tp_of < c /\ \A d \in delivered : d <= tp_of
        BY <1>2, <1>3, <3>2 DEF MessageInv
      <3>4. MessageInv(c, 0)'
        <4>1. CASE RTSArms
          <5>1. reader' = "arming" /\ tp_packet_PGN' = c
                /\ UNCHANGED <<tp_of, delivered>>
            BY <3>1, <4>1 DEF RTSArms, connection, history
          <5> QED
            BY <1>3, <3>1, <3>2, <3>3, <5>1 DEF MessageInv, Accepting
        <4>2. CASE RTSRefused
          <5>1. reader' = "read" /\ spoilt' /\ UNCHANGED <<tp_of, delivered>>
            BY <4>2 DEF RTSRefused, Arrives, connection, readThread
          <5> QED
            BY <1>3, <3>1, <3>2, <3>3, <5>1 DEF MessageInv, Accepting
        <4> QED
          BY <2>2, <4>1, <4>2
      <3> QED
        BY <3>2, <3>4 DEF WholeInv
    <2>3. CASE RTSArmed
      <3>1. Follows(t, n)'
        BY <1>4, <2>3, BusKept DEF RTSArmed, charger
      <3>2. /\ UNCHANGED <<tp_of, tp_packet_PGN, delivered>>
            /\ reader = "arming" /\ reader' = "armed"
        BY <2>3 DEF RTSArmed, connection, history
      <3> QED
        BY <1>2, <1>5, <3>1, <3>2 DEF MessageInv, Accepting
    <2>4. CASE RTSAccepted
      <3>1. Follows(t, n)'
        BY <1>4, <2>4, BusKept DEF RTSAccepted, charger
      <3>2. /\ n = 0 /\ tp_of < t /\ tp_packet_PGN = t
            /\ \A d \in delivered : d <= tp_of
        BY <1>2, <2>4 DEF RTSAccepted, MessageInv, Accepting
      <3>3. /\ tp_of' = t /\ tp_rcv_pack_nr' = 0 /\ reader' = "read"
            /\ UNCHANGED delivered
        BY <2>4, <3>2 DEF RTSAccepted, CountRestarted
      <3>4. \A d \in delivered : d < t
        BY <1>3, <3>2
      <3>5. Collected(t, n)'
        BY <1>3, <3>2, <3>3, <3>4 DEF Collected
      <3> QED
        BY <1>3, <1>5, <3>1, <3>3, <3>4, <3>5 DEF MessageInv, Accepting
    <2>5. CASE DTDropped \/ DTStored
      <3>1. Arrives("DT") /\ UNCHANGED <<transfer, sent>>
        BY <2>5 DEF DTDropped, DTStored
      <3>2. /\ Follows(t, n + 1)' /\ n + 1 \in 0 .. PackNr[t]
            /\ Head(bus).nr = n + 1 /\ Head(bus).of = t
        BY <2>1, <3>1
      <3>3. reader = "read" /\ UNCHANGED <<tp_of, delivered, spoilt>>
        BY <2>5 DEF DTDropped, DTStored, Arrives, connection, history
      <3>4. reader' \in {"read", "complete"}
        BY <2>5, <3>3 DEF DTDropped, DTStored, readThread
      <3>5. ASSUME ~spoilt PROVE Collected(t, n + 1)'
        <4>1. Collected(t, n)
          BY <1>2, <3>3, <3>5 DEF MessageInv, Accepting
        <4>2. t \notin delivered
          BY <1>3, <3>2, <4>1 DEF Collected
        <4>3. CASE DTDropped
          <5>1. UNCHANGED <<tp_rcv_pack_nr, tp_buff, reader>>
            BY <4>3 DEF DTDropped, connection, readThread
          <5> QED
            BY <1>3, <3>3, <4>1, <4>2, <5>1 DEF Collected
        <4>4. CASE DTStored
          <5>1. tp_rcv_pack_nr' = tp_rcv_pack_nr + 1
                /\ tp_rcv_pack_nr <= n /\ tp_of = t
            BY <4>1, <4>4 DEF DTStored, Collected
          <5>2. reader' = "complete" => tp_rcv_pack_nr' >= PackNr[t]
            BY <4>4, <5>1 DEF DTStored, Completes
          <5>3. ASSUME tp_rcv_pack_nr' = n + 1, NEW k \in 1 .. n + 1
                PROVE  tp_buff'[k] = t
            <6>1. tp_rcv_pack_nr = n
              BY <1>3, <5>1, <5>3
            <6>2. tp_buff' = [tp_buff EXCEPT ![n + 1] = t]
                  /\ DOMAIN tp_buff = Places
              BY <3>2, <4>4 DEF DTStored, TransportTypeOK
            <6>3. k \in Places
              BY <1>3, <3>2 DEF Places, Packets
            <6>4. CASE k = n + 1
              BY <6>2, <6>3, <6>4
            <6>5. CASE k \in 1 .. n
              BY <1>3, <4>1, <6>1, <6>2, <6>3, <6>5 DEF Collected
            <6> QED
              BY <1>3, <6>4, <6>5
          <5> QED
            BY <1>3, <3>3, <4>2, <5>1, <5>2, <5>3 DEF Collected
        <4> QED
          BY <2>5, <4>3, <4>4
      <3>6. MessageInv(t, n + 1)'
        BY <1>2, <3>2, <3>3, <3>4, <3>5 DEF MessageInv, Accepting
      <3> QED
        BY <3>2, <3>6 DEF WholeInv
    <2>6. CASE Deliver
      <3>1. Follows(t, n)'
        BY <1>4, <2>6, BusKept DEF Deliver, charger
      <3>2. /\ reader = "complete" /\ reader' = "delivered"
            /\ delivered' = delivered \cup {tp_of}
            /\ UNCHANGED <<tp_of, tp_rcv_pack_nr, tp_buff, spoilt>>
        BY <2>6 DEF Deliver, connection
      <3>3. ASSUME ~spoilt PROVE Collected(t, n)'
        <4>1. Collected(t, n)
          BY <1>2, <3>2, <3>3 DEF MessageInv, Accepting
        <4>2. n = PackNr[t]
          BY <1>3, <3>2, <4>1 DEF Collected
        <4> QED
          BY <3>2, <4>1, <4>2 DEF Collected
      <3>4. MessageInv(t, n)'
        BY <1>2, <1>3, <3>1, <3>2, <3>3 DEF MessageInv, Accepting
      <3> QED
        BY <1>5, <3>4
    <2>7. CASE AskForACK
      <3>1. Follows(t, n)'
        BY <1>4, <2>7, BusKept DEF AskForACK, charger
      <3>2. /\ reader = "delivered" /\ reader' = "read"
            /\ UNCHANGED <<tp_of, tp_rcv_pack_nr, tp_buff, delivered, spoilt>>
        BY <2>7 DEF AskForACK, history
      <3>3. MessageInv(t, n)'
        BY <1>2, <3>1, <3>2 DEF MessageInv, Collected, Accepting
      <3> QED
        BY <1>5, <3>3
    <2>8. CASE SingleTaken
      <3>1. Follows(t, n)'
        BY <1>3, <1>4, <2>8, SingleFollows DEF SingleTaken
      <3>2. /\ reader = "read" /\ reader' = "read"
            /\ UNCHANGED <<tp_of, tp_rcv_pack_nr, delivered>>
        BY <2>8 DEF SingleTaken, Arrives, readThread
      <3>3. ASSUME ~spoilt' PROVE Collected(t, n)'
        <4>1. ~spoilt /\ ~(tp_rcv_pack_nr > 0)
          BY <2>8, <3>3, Zenon DEF SingleTaken
        <4>2. Collected(t, n)
          BY <1>2, <3>2, <4>1 DEF MessageInv, Accepting
        <4> QED
          BY <1>3, <3>2, <4>1, <4>2 DEF Collected
      <3>4. MessageInv(t, n)'
        BY <1>2, <3>1, <3>2, <3>3 DEF MessageInv, Accepting
      <3> QED
        BY <1>5, <3>4
    <2> QED
      BY <1>8, <2>2, <2>3, <2>4, <2>5, <2>6, <2>7, <2>8 DEF ReadThread
  <1> QED
    BY <1>6, <1>7, <1>8 DEF Next

\* A delivered message consists of one connection's packets, all of them, and
\* is delivered once, for every number of connections and packets, every pool
\* and every delay of the write thread.
THEOREM MessagesAreWhole == Spec => WholeMessage
  <1>1. Init => TypeOK /\ WholeInv
    BY InitPoolTypeOK, InitTransportTypeOK, InitWhole DEF Init, TypeOK
  <1>2. TypeOK /\ WholeInv /\ [Next]_vars => TypeOK' /\ WholeInv'
    BY NextUsesPool, NextPoolTypeOK, NextTransportTypeOK, NextWhole
       DEF TypeOK
  <1>3. WholeInv /\ TypeOK /\ [Next]_vars
        => [Deliver /\ ~spoilt =>
              /\ \A k \in Packets(tp_of) : tp_buff[k] = tp_of
              /\ tp_of \notin delivered]_vars
    <2> SUFFICES ASSUME WholeInv, TypeOK, Deliver, ~spoilt
                 PROVE  /\ \A k \in Packets(tp_of) : tp_buff[k] = tp_of
                        /\ tp_of \notin delivered
      OBVIOUS
    <2>1. PICK t \in Transfers : \E n \in 0 .. PackNr[t] : MessageInv(t, n)
      BY DEF WholeInv
    <2>2. PICK n \in 0 .. PackNr[t] : MessageInv(t, n)
      BY <2>1
    <2>3. reader = "complete" /\ Collected(t, n)
      BY <2>2 DEF Deliver, MessageInv, Accepting
    <2>4. PackNr[t] \in Nat /\ n \in Nat /\ tp_rcv_pack_nr \in Nat
      BY TransportAssumption DEF Transfers, TypeOK, TransportTypeOK
    <2>5. tp_rcv_pack_nr = n /\ n = PackNr[t]
      BY <2>3, <2>4 DEF Collected
    <2> QED
      BY <2>3, <2>5 DEF Collected, Packets
  <1> QED
    BY <1>1, <1>2, <1>3, PTL DEF Spec, WholeMessage

-----------------------------------------------------------------------------
(* The abstract service.  Besides WholeInv it takes that a connection was   *)
(* accepted when the status is not NORMAL or a message is complete.         *)

Open ==
    \/ can_tcu_status # "NORMAL"
    \/ writer = "toRX"
    \/ reader \in {"complete", "delivered"}

ServiceInv ==
    /\ Open => tp_of # 0
    /\ Accepting => tp_packet_PGN # 0

Reachable == TypeOK /\ WholeInv /\ ServiceInv

LEMMA InitReachable == Init => Reachable
  <1>1. Init => TypeOK /\ WholeInv
    BY InitPoolTypeOK, InitTransportTypeOK, InitWhole DEF Init, TypeOK
  <1>2. Init => ServiceInv
    BY DEF Init, ServiceInv, Open, Accepting
  <1> QED
    BY <1>1, <1>2 DEF Reachable

\* The connection that is being accepted is newer than the one before, and the
\* charger has asked for it.
LEMMA AcceptingFacts ==
    ASSUME Reachable, Accepting
    PROVE  /\ tp_of < tp_packet_PGN /\ tp_packet_PGN <= transfer
           /\ tp_packet_PGN # 0
  <1>1. PICK t \in Transfers : \E n \in 0 .. PackNr[t] : MessageInv(t, n)
    BY DEF Reachable, WholeInv
  <1>2. PICK n \in 0 .. PackNr[t] : MessageInv(t, n)
    BY <1>1
  <1>3. tp_of < t /\ tp_packet_PGN = t /\ Follows(t, n)
    BY <1>2 DEF MessageInv
  <1>4. /\ t \in Nat /\ tp_of \in Nat /\ transfer \in Nat
        /\ \A i \in Framed : Of(i) \in Nat
    BY FrameFacts DEF Reachable, TypeOK, TransportTypeOK, Transfers
  <1>5. t <= transfer
    <2>1. CASE t = transfer
      BY <1>4, <2>1
    <2>2. CASE \E i \in Framed : Of(i) = transfer
      <3>1. PICK i \in Framed : Of(i) = transfer
        BY <2>2
      <3>2. Earlier(t, n, Of(i), Nr(i))
        BY <1>3, <3>1 DEF Follows, InBounds
      <3> QED
        BY <1>4, <3>1, <3>2 DEF Earlier
    <2> QED
      BY <1>3, <2>1, <2>2 DEF Follows, UpToLast
  <1> QED
    BY <1>3, <1>4, <1>5

\* A message that is complete and undisturbed has not been delivered before.
LEMMA DeliveredOnce ==
    ASSUME Reachable, reader = "complete", ~spoilt
    PROVE  tp_of \notin delivered
  <1>1. PICK t \in Transfers : \E n \in 0 .. PackNr[t] : MessageInv(t, n)
    BY DEF Reachable, WholeInv
  <1>2. PICK n \in 0 .. PackNr[t] : MessageInv(t, n)
    BY <1>1
  <1> QED
    BY <1>2 DEF MessageInv, Accepting, Collected

LEMMA NextService ==
    ASSUME Reachable, [Next]_vars
    PROVE  ServiceInv'
  <1> USE DEF Reachable, ServiceInv, Open, Accepting
  <1>1. CASE Charger
    BY <1>1 DEF Charger, ChargerAsks, ChargerSends, ChargerReports,
                connection, readThread, history
  <1>2. CASE RTSArms
    <2>1. PICK f : f = Head(bus) /\ f.kind = "RTS" /\ tp_packet_PGN' = f.of
      BY <1>2 DEF RTSArms, Arrives
    <2>2. tp_packet_PGN' # 0
      <3>1. PICK t \in Transfers : \E n \in 0 .. PackNr[t] : MessageInv(t, n)
        BY DEF WholeInv
      <3>2. PICK n \in 0 .. PackNr[t] : MessageInv(t, n)
        BY <3>1
      <3>3. /\ t \in Nat /\ n \in Nat
            /\ Head(bus).of = Of(1) /\ Earlier(t, n, Of(1), Nr(1)) /\ Nr(1) = 0
            /\ Of(1) \in Nat
        <4>1. TransportTypeOK /\ n <= PackNr[t] /\ t \in Nat /\ n \in Nat
          BY TransportAssumption DEF TypeOK, Transfers
        <4>2. Follows(t, n)
          BY <3>2 DEF MessageInv
        <4>3. Arrives("RTS") /\ UNCHANGED <<transfer, sent>>
          BY <1>2 DEF RTSArms
        <4>4. "RTS" # "SINGLE"
          OBVIOUS
        <4>5. Earlier(t, n, Of(1), Nr(1)) /\ Nr(1) = 0 /\ Head(bus).of = Of(1)
              /\ Of(1) \in Transfers
          BY <4>1, <4>2, <4>3, <4>4, FrameTaken
        <4> QED
          BY <4>1, <4>5 DEF Transfers
      <3> QED
        BY <1>2, <3>3 DEF RTSArms, Earlier
    <2> QED
      BY <1>2, <2>2 DEF RTSArms, Arrives, connection, history
  <1>3. CASE RTSRefused \/ DTDropped \/ SingleTaken
    BY <1>3 DEF RTSRefused, DTDropped, SingleTaken, Arrives, connection,
                readThread, history
  <1>4. CASE RTSArmed
    BY <1>4 DEF RTSArmed, connection, history
  <1>5. CASE RTSAccepted
    <2>1. tp_of' # 0 /\ reader' = "read"
      BY <1>5 DEF RTSAccepted
    <2> QED
      BY <2>1
  <1>6. CASE DTStored
    BY <1>6 DEF DTStored, Arrives, history
  <1>7. CASE Deliver
    BY <1>7 DEF Deliver, connection
  <1>8. CASE AskForACK
    BY <1>8 DEF AskForACK
  <1>9. CASE WriteThread
    <2>1. UNCHANGED <<tp_of, tp_packet_PGN, reader, delivered>>
      BY <1>9 DEF WriteThread, Build, Write, LooksForCTS, AwaitData, Settles,
                  Close, connection, readThread, history
    <2>2. Open' => Open
      BY <1>9 DEF WriteThread, Build, Write, LooksForCTS, AwaitData, Settles,
                  LooksForACK, Close, connection, readThread
    <2> QED
      BY <2>1, <2>2
  <1>10. CASE Sweep
    <2>1. UNCHANGED <<tp_of, tp_packet_PGN, reader, writer, delivered>>
      BY <1>10 DEF Sweep, readThread, history
    <2>2. Open' => Open
      BY <1>10, <2>1 DEF Sweep, Notify
    <2> QED
      BY <2>1, <2>2
  <1>11. CASE UNCHANGED vars
    BY <1>11 DEF vars, connection, readThread, history
  <1> QED
    BY <1>1, <1>2, <1>3, <1>4, <1>5, <1>6, <1>7, <1>8, <1>9, <1>10, <1>11
       DEF Next, ReadThread

LEMMA ReachableHolds == Spec => []Reachable
  <1>1. Reachable /\ [Next]_vars => Reachable'
    BY NextUsesPool, NextPoolTypeOK, NextTransportTypeOK, NextWhole,
       NextService DEF Reachable, TypeOK
  <1> QED
    BY <1>1, InitReachable, PTL DEF Spec

\* A step that leaves alone what the service sees.
LEMMA ServiceStutter ==
    ASSUME UNCHANGED <<transfer, tp_of, spoilt, delivered, can_tcu_status,
                       reader = "delivered">>
    PROVE  UNCHANGED Service!serviceVars
  BY Zenon DEF Service!serviceVars

\* A step that changes no more of it than that the status, which is no longer
\* ACK, ends a wish to acknowledge.
LEMMA ServiceSettles ==
    ASSUME UNCHANGED <<transfer, tp_of, spoilt, delivered,
                       reader = "delivered">>,
           can_tcu_status' # "ACK"
    PROVE  [Service!ServiceNext]_(Service!serviceVars)
  <1>1. Service!Settle
    BY Zenon DEF Service!Settle
  <1> QED
    BY <1>1, Zenon DEF Service!ServiceNext

LEMMA ServiceStep ==
    ASSUME Reachable, [Next]_vars
    PROVE  [Service!ServiceNext]_(Service!serviceVars)
  <1>1. CASE ChargerAsks
    <2>1. /\ transfer' = transfer + 1
          /\ UNCHANGED <<tp_of, spoilt, delivered, can_tcu_status,
                         reader = "delivered">>
      BY <1>1 DEF ChargerAsks, connection, readThread, history
    <2>2. Service!Ask
      BY <2>1, Zenon DEF Service!Ask
    <2> QED
      BY <2>2, Zenon DEF Service!ServiceNext
  <1>2. CASE RTSRefused \/ SingleTaken
    <2>1. /\ UNCHANGED <<transfer, tp_of, delivered, can_tcu_status,
                         reader = "delivered">>
          /\ reader # "delivered"
          /\ spoilt' = TRUE \/ spoilt' = (spoilt \/ tp_rcv_pack_nr > 0)
      BY <1>2 DEF RTSRefused, SingleTaken, Arrives, connection, readThread
    <2>2. spoilt \in BOOLEAN
      BY Zenon DEF Reachable, TypeOK, TransportTypeOK
    <2>3. CASE tp_rcv_pack_nr > 0 \/ spoilt' = TRUE
      <3>1. spoilt'
        BY <2>1, <2>3, Zenon
      <3>2. Service!Disturb
        BY <2>1, <3>1, Zenon DEF Service!Disturb
      <3> QED
        BY <3>2, Zenon DEF Service!ServiceNext
    <2>4. CASE ~(tp_rcv_pack_nr > 0 \/ spoilt' = TRUE)
      <3>1. spoilt' = spoilt
        BY <2>1, <2>2, <2>4, Zenon
      <3> QED
        BY <2>1, <3>1, ServiceStutter
    <2> QED
      BY <2>3, <2>4
  <1>3. CASE RTSAccepted
    <2>1. /\ tp_of' = tp_packet_PGN /\ can_tcu_status' = "CTS" /\ ~spoilt'
          /\ UNCHANGED <<transfer, delivered, reader = "delivered">>
          /\ reader = "armed" /\ reader # "delivered"
      BY <1>3 DEF RTSAccepted, charger
    <2>2. tp_of < tp_packet_PGN /\ tp_packet_PGN <= transfer
      BY <2>1, AcceptingFacts DEF Accepting
    <2>3. tp_packet_PGN \in Nat /\ tp_of \in Nat /\ transfer \in Nat
      BY DEF Reachable, TypeOK, TransportTypeOK, Transfers
    <2>4. tp_of' \in tp_of + 1 .. transfer
      BY <2>1, <2>2, <2>3
    <2>5. Service!Accept
      BY <2>1, <2>4, Zenon DEF Service!Accept
    <2> QED
      BY <2>5, Zenon DEF Service!ServiceNext
  <1>4. CASE Deliver
    <2>1. /\ reader = "complete" /\ delivered' = delivered \cup {tp_of}
          /\ reader # "delivered" /\ reader' = "delivered"
          /\ UNCHANGED <<transfer, tp_of, spoilt, can_tcu_status>>
      BY <1>4 DEF Deliver, connection, charger
    <2>2. ~spoilt => tp_of \notin delivered
      BY <2>1, DeliveredOnce
    <2>3. tp_of # 0
      BY <2>1 DEF Reachable, ServiceInv, Open
    <2>4. Service!Hand
      BY <2>1, <2>2, <2>3, Zenon DEF Service!Hand
    <2> QED
      BY <2>4, Zenon DEF Service!ServiceNext
  <1>5. CASE AskForACK
    <2>1. /\ reader = "delivered" /\ reader' # "delivered"
          /\ can_tcu_status' = "ACK"
          /\ UNCHANGED <<transfer, tp_of, spoilt, delivered>>
      BY <1>5 DEF AskForACK, charger, history
    <2>2. Service!Acknowledge
      BY <2>1, Zenon DEF Service!Acknowledge
    <2> QED
      BY <2>2, Zenon DEF Service!ServiceNext
  <1>6. CASE \/ ChargerSends \/ ChargerReports
             \/ RTSArms \/ RTSArmed \/ DTDropped \/ DTStored
             \/ \E p \in {"NORMAL", "CTS", "ACK"} : Build(p)
             \/ \E ok \in BOOLEAN : Write(ok)
             \/ LooksForCTS \/ Settles \/ UNCHANGED vars
    <2>1. UNCHANGED <<transfer, tp_of, spoilt, delivered, can_tcu_status,
                      reader = "delivered">>
      BY <1>6 DEF ChargerSends, ChargerReports, RTSArms, RTSArmed, DTDropped,
                  DTStored, Arrives, Build, Write, LooksForCTS, Settles, vars,
                  connection, readThread, charger, history
    <2> QED
      BY <2>1, ServiceStutter
  <1>7. CASE AwaitData \/ Close
    <2>1. /\ UNCHANGED <<transfer, tp_of, spoilt, delivered,
                         reader = "delivered">>
          /\ can_tcu_status' # "ACK"
      BY <1>7 DEF AwaitData, Close, readThread, charger, history
    <2> QED
      BY <2>1, ServiceSettles
  <1>8. CASE Sweep
    <2>1. /\ UNCHANGED <<transfer, tp_of, spoilt, delivered,
                         reader = "delivered">>
          /\ can_tcu_status' \in {"NORMAL", can_tcu_status}
      BY <1>8 DEF Sweep, Notify, readThread, charger, history
    <2>2. CASE can_tcu_status' = "NORMAL"
      BY <2>1, <2>2, ServiceSettles
    <2>3. CASE can_tcu_status' = can_tcu_status
      BY <2>1, <2>3, ServiceStutter
    <2> QED
      BY <2>1, <2>2, <2>3
  <1> QED
    BY <1>1, <1>2, <1>3, <1>4, <1>5, <1>6, <1>7, <1>8
       DEF Next, Charger, ReadThread, WriteThread

\* For any connections, packets, pool and delays of the write thread, the
\* transport delivers the charger's messages in order, at most once unless
\* disturbed, and asks for an acknowledgement only of what it has delivered.
THEOREM ServiceIsImplemented == Spec => ServiceImplemented
  <1>1. Init => Service!ServiceInit
    BY DEF Init, Service!ServiceInit
  <1>2. Reachable /\ [Next]_vars
        => [Service!ServiceNext]_(Service!serviceVars)
    BY ServiceStep
  <1> QED
    BY <1>1, <1>2, ReachableHolds, PTL
    DEF Spec, ServiceImplemented, Service!ServiceSpec

=============================================================================
