--------------------------- MODULE TCUStage_proofs ---------------------------
(***************************************************************************)
(* Proofs about TCUStage for every value of its constants.                 *)
(***************************************************************************)
EXTENDS TCUStage, TLAPS

\* The packets and their stages, spelt out for the provers.
LEMMA PacketFacts ==
    /\ Packets = { "TRC", "TST", "TTS", "TCV", "TCP", "TRSF", "TRST",
                   "TRCT", "THB" }
    /\ Requests \subseteq Packets
    /\ NoPacket \notin Packets
    /\ StageOf["TRC"] = "START" /\ StageOf["TST"] = "STOP"
    /\ StageOf["TTS"] = "TIME" /\ StageOf["TCV"] = "CHECKVER"
    /\ StageOf["TCP"] = "PARAMETER" /\ StageOf["TRSF"] = "STATUS"
    /\ StageOf["TRST"] = "STOP_END" /\ StageOf["TRCT"] = "CONNECT"
    /\ StageOf["THB"] = "HEAT"
  BY DEF Packets, StageOf, Requests, NoPacket

LEMMA RequestStages ==
    /\ \A p \in Packets : StageOf[p] \in Phases \cup Overlays
    /\ \A r \in Requests : StageOf[r] \in Phases \ Overlays
    /\ \A r \in Requests : StageOf[r] # "TIMEOUT"
  BY PacketFacts DEF Requests, Phases, Overlays

\* The charger's answers lead to phases and report phases.
LEMMA AnswerFacts ==
    \A f \in Answers :
        /\ Answer[f].next \in Phases
        /\ Answer[f].err \in Phases
        /\ Answer[f].at \in Phases
        /\ Answer[f].at \notin Overlays
        /\ Answer[f].next # "TIMEOUT"
  BY DEF Answers, Answer, Phases, Overlays

\* Every phase can be reported, with the TIMEOUT bit or without.
LEMMA ErrorFacts ==
    \A s \in Phases : /\ [late |-> TRUE, at |-> s] \in Errors
                      /\ [late |-> FALSE, at |-> s] \in Errors
  BY DEF Errors

LEMMA CommandFacts ==
    \A c \in Nat :
        /\ CommandStage(c) \in Phases \cup Overlays
        /\ c \notin {8, 9} => CommandStage(c) \in Phases \ {"TIMEOUT"}
        /\ c \in {8, 9} => CommandStage(c) \in Overlays
  BY DEF CommandStage, Phases, Overlays

-----------------------------------------------------------------------------
(* The inductive invariant.  TypeOK alone is not inductive: the silence     *)
(* counter of a request is compared with the limit only through its sum     *)
(* with this tick, and a timeout may report only a phase, which needs       *)
(* SilenceWithinLimit; PhaseKept is carried along.                          *)

Inv == TypeOK /\ PhaseKept /\ SilenceWithinLimit

LEMMA InitInv == Init => Inv
  <1> SUFFICES ASSUME Init PROVE Inv
    OBVIOUS
  <1> USE ParametersAssumption, PacketFacts
  <1>1. TypeOK
    <2>1. tcu_err_stage \in Errors
      BY ErrorFacts DEF Init, Phases
    <2>2. /\ heartbeat \in [Packets -> Nat]
          /\ \A p \in Packets : heartbeat[p] <= Period[p]
          /\ can_silence \in [Requests -> Nat]
      BY DEF Init
    <2>3. slept \in 0 .. PollMax
      BY DEF Init
    <2>4. /\ tcu_stage \in Phases \cup Overlays
          /\ tcu_tmp_stage \in Phases
      BY DEF Init, Phases
    <2> QED BY <2>1, <2>2, <2>3, <2>4 DEF Init, TypeOK
  <1>2. PhaseKept
    BY DEF Init, PhaseKept
  <1>3. SilenceWithinLimit
    BY DEF Init, SilenceWithinLimit
  <1> QED BY <1>1, <1>2, <1>3 DEF Inv

\* What the first loop of the timer leaves in tcu_stage: the stage it found
\* or an overlay.
LEMMA OverlayFacts ==
    ASSUME TypeOK
    PROVE  /\ AfterHeart \in {tcu_stage} \cup Overlays
           /\ AfterClock \in {tcu_stage} \cup Overlays
  BY PacketFacts DEF AfterHeart, AfterClock, Overlay, Overlays

\* What the second loop compares with the limit.
LEMMA CountedFacts ==
    ASSUME Inv
    PROVE  /\ Counted \in [Requests -> Nat]
           /\ \A r \in Requests : Counted[r] <= Tolerate + 1
           /\ \A r \in Overdue : r \in TimedOut
           /\ \A r \in TimedOut : r \in Requests /\ AfterHeart = StageOf[r]
  <1> USE ParametersAssumption DEF Inv, TypeOK, SilenceWithinLimit
  <1>1. Counted \in [Requests -> Nat]
    BY DEF Counted
  <1>2. \A r \in Requests : Counted[r] <= Tolerate + 1
    BY DEF Counted
  <1>3. \A r \in Requests : Tolerate < Counted[r] => StageOf[r] = AfterHeart
    BY DEF Counted
  <1>4. \A r \in Overdue : r \in TimedOut
    BY <1>3 DEF Overdue, TimedOut
  <1>5. \A r \in TimedOut : r \in Requests /\ AfterHeart = StageOf[r]
    BY DEF TimedOut
  <1> QED BY <1>1, <1>2, <1>4, <1>5

\* When the timer declares a timeout the session's own phase is current.
LEMMA TimeoutFacts ==
    ASSUME Inv, TimedOut # {}
    PROVE  /\ AfterHeart = tcu_tmp_stage
           /\ tcu_stage = tcu_tmp_stage
           /\ AfterHeart \in { StageOf[r] : r \in Requests }
  <1>1. PICK r \in TimedOut : TRUE
    OBVIOUS
  <1>2. r \in Requests /\ AfterHeart = StageOf[r]
    BY <1>1, CountedFacts
  <1>3. AfterHeart \notin Overlays
    BY <1>2, RequestStages
  <1>4. AfterHeart = tcu_stage
    BY <1>3, OverlayFacts DEF Inv
  <1> QED BY <1>2, <1>3, <1>4 DEF Inv, PhaseKept

LEMMA TickInv ==
    ASSUME Inv, Tick
    PROVE  Inv'
  <1> USE DEF Inv
  <1>1. /\ heartbeat' \in [Packets -> Nat]
        /\ \A p \in Packets : heartbeat'[p] <= Period[p]
    BY ParametersAssumption DEF TypeOK, Tick, Advanced
  <1>2. /\ can_silence' \in [Requests -> Nat]
        /\ SilenceWithinLimit'
    <2>1. \A r \in Requests : r \notin Overdue => Counted[r] <= Tolerate
      BY CountedFacts, ParametersAssumption DEF Overdue
    <2> QED BY <2>1, CountedFacts, ParametersAssumption
            DEF Tick, SilenceWithinLimit
  <1>3. slept' \in 0 .. PollMax
    BY ParametersAssumption DEF TypeOK, Tick
  <1>4. /\ tcu_stage' \in Phases \cup Overlays
        /\ tcu_tmp_stage' \in Phases
        /\ tcu_err_stage' \in Errors
        /\ PhaseKept'
    <2>1. CASE TimedOut = {}
      BY <2>1, OverlayFacts DEF Tick, TypeOK, PhaseKept
    <2>2. CASE TimedOut # {}
      <3>1. tcu_stage' = "TIMEOUT" /\ tcu_tmp_stage' = "TIMEOUT"
        BY <2>2 DEF Tick
      <3>2. AfterHeart \in Phases
        BY <2>2, TimeoutFacts, RequestStages
      <3>3. tcu_err_stage' \in Errors
        BY <2>2, <3>2, ErrorFacts DEF Tick, TimeoutError
      <3> QED BY <3>1, <3>3 DEF PhaseKept, Phases
    <2> QED BY <2>1, <2>2
  <1>5. TypeOK'
    BY <1>1, <1>2, <1>3, <1>4 DEF TypeOK, Tick, modeVars
  <1> QED BY <1>2, <1>4, <1>5

\* Entering a phase writes both stage fields and keeps the invariant's part
\* about them.
LEMMA EnterFacts ==
    ASSUME NEW s \in Phases, Enter(s)
    PROVE  /\ tcu_stage' \in Phases \cup Overlays
           /\ tcu_tmp_stage' \in Phases
           /\ asked' \in BOOLEAN
           /\ PhaseKept'
  BY DEF Enter, PhaseKept

LEMMA BootInv ==
    ASSUME Inv, EventInit \/ EventHeart \/ EventTime
    PROVE  Inv'
  <1> USE ParametersAssumption DEF Inv, TypeOK, PhaseKept, SilenceWithinLimit,
          timerVars
  <1>1. CASE EventInit
    BY <1>1 DEF EventInit, Enter, Phases
  <1>2. CASE EventHeart
    BY <1>2 DEF EventHeart, Overlays
  <1>3. CASE EventTime
    BY <1>3 DEF EventTime, Overlays
  <1> QED BY <1>1, <1>2, <1>3

LEMMA WriterInv ==
    ASSUME Inv,
           \/ \E p \in Packets : TxRequest(p)
           \/ TxNothing
           \/ TxFails
           \/ \E p \in Packets : TxDone(p)
    PROVE  Inv'
  <1> USE ParametersAssumption
      DEF Inv, TypeOK, SilenceWithinLimit, stageVars, modeVars, timerVars
  <1>1. CASE \E p \in Packets : TxRequest(p)
    <2>1. PICK p \in Packets : TxRequest(p)
      BY <1>1
    <2>2. /\ heartbeat' \in [Packets -> Nat]
          /\ \A q \in Packets : heartbeat'[q] <= Period[q]
      BY <2>1 DEF TxRequest
    <2> QED BY <2>1, <2>2 DEF TxRequest, RequestResumes, PhaseKept
  <1>2. CASE TxNothing
    BY <1>2 DEF TxNothing, Awake, RequestResumes, PhaseKept
  <1>3. CASE TxFails
    BY <1>3 DEF TxFails, PhaseKept
  <1>4. CASE \E p \in Packets : TxDone(p)
    <2>1. PICK p \in Packets : TxDone(p)
      BY <1>4
    <2>2. /\ tcu_stage' \in Phases \cup Overlays
          /\ tcu_tmp_stage' \in Phases
          /\ asked' \in BOOLEAN
          /\ PhaseKept'
      <3>1. CASE p \in {"TRCT", "TRSF"} /\ tcu_stage = StageOf[p]
        BY <2>1, <3>1 DEF TxDone, AfterSent, Enter, PhaseKept, Phases
      <3>2. CASE ~(p \in {"TRCT", "TRSF"} /\ tcu_stage = StageOf[p])
        BY <2>1, <3>2 DEF TxDone, PhaseKept
      <3> QED BY <3>1, <3>2
    <2> QED BY <2>1, <2>2 DEF TxDone, NoPacket
  <1> QED BY <1>1, <1>2, <1>3, <1>4

LEMMA ReaderInv ==
    ASSUME Inv, Reader
    PROVE  Inv'
  <1> USE ParametersAssumption
      DEF Inv, TypeOK, SilenceWithinLimit, stageVars, modeVars, timerVars,
          writerVars
  <1>0. ASSUME NEW f \in Answers, Heard(f)
        PROVE  /\ can_silence' \in [Requests -> Nat]
               /\ \A r \in Requests : can_silence'[r] <= Tolerate
    BY <1>0 DEF Heard
  <1>1. CASE \E f \in Answers : RecvAccepted(f)
    <2>1. PICK f \in Answers : RecvAccepted(f)
      BY <1>1
    <2>2. Answer[f].next \in Phases
      BY AnswerFacts
    <2> QED BY <1>0, <2>1, <2>2, EnterFacts DEF RecvAccepted
  <1>2. CASE \E f \in Answers : RecvRejected(f)
    <2>1. PICK f \in Answers : RecvRejected(f)
      BY <1>2
    <2>2. tcu_err_stage' \in Errors
      BY <2>1, AnswerFacts, ErrorFacts DEF RecvRejected
    <2> QED BY <1>0, <2>1, <2>2 DEF RecvRejected, PhaseKept
  <1>3. CASE \E f \in Answers : RecvIgnored(f)
    BY <1>0, <1>3 DEF RecvIgnored, PhaseKept
  <1>4. CASE \E stopped, ordered \in BOOLEAN : RecvCST(stopped, ordered)
    <2>1. PICK stopped \in BOOLEAN, ordered \in BOOLEAN :
             RecvCST(stopped, ordered)
      BY <1>4
    <2>2. tcu_err_stage' \in Errors
      BY <2>1, ErrorFacts DEF RecvCST, Phases
    <2>3. CASE stopped \/ ordered
      BY <2>1, <2>2, <2>3 DEF RecvCST, Enter, PhaseKept, Phases
    <2>4. CASE ~(stopped \/ ordered)
      BY <2>1, <2>2, <2>4 DEF RecvCST, PhaseKept
    <2> QED BY <2>3, <2>4
  <1>5. CASE TpOpen
    BY <1>5 DEF TpOpen, PhaseKept
  <1> QED BY <1>1, <1>2, <1>3, <1>4, <1>5 DEF Reader

LEMMA CommandInv ==
    ASSUME Inv, NEW c \in Commands, Command(c)
    PROVE  Inv'
  <1> USE ParametersAssumption
      DEF Inv, TypeOK, SilenceWithinLimit, writerVars
  <1>1. /\ can_silence' \in [Requests -> Nat]
        /\ \A r \in Requests : can_silence'[r] <= Tolerate
    BY DEF Command, SilenceRestarted
  <1>2. /\ tcu_stage' \in Phases \cup Overlays
        /\ tcu_tmp_stage' \in Phases
        /\ asked' \in BOOLEAN
        /\ PhaseKept'
    <2>1. CASE c \in {8, 9}
      <3>1. CommandStage(c) \in Overlays
        BY <2>1, CommandFacts
      <3> QED BY <2>1, <3>1 DEF Command, PhaseKept
    <2>2. CASE c \notin {8, 9}
      <3>1. CommandStage(c) \in Phases
        BY <2>2, CommandFacts
      <3> QED BY <2>2, <3>1, EnterFacts DEF Command
    <2> QED BY <2>1, <2>2
  <1> QED BY <1>1, <1>2 DEF Command

LEMMA NextInv ==
    ASSUME Inv, [Next]_vars
    PROVE  Inv'
  <1>1. CASE Tick
    BY <1>1, TickInv
  <1>2. CASE Writer
    BY <1>2, BootInv, WriterInv DEF Writer
  <1>3. CASE Reader
    BY <1>3, ReaderInv
  <1>4. CASE TpClose
    BY <1>4 DEF TpClose, Inv, TypeOK, PhaseKept, SilenceWithinLimit,
                stageVars, modeVars, timerVars, writerVars
  <1>5. CASE \E c \in Commands : Command(c)
    BY <1>5, CommandInv
  <1>6. CASE UNCHANGED vars
    BY <1>6 DEF vars, Inv, TypeOK, PhaseKept, SilenceWithinLimit,
                stageVars, modeVars, timerVars, writerVars
  <1> QED BY <1>1, <1>2, <1>3, <1>4, <1>5, <1>6 DEF Next

LEMMA InvHolds == Spec => []Inv
  <1>1. Init => Inv
    BY InitInv
  <1>2. Inv /\ [Next]_vars => Inv'
    BY NextInv
  <1> QED BY <1>1, <1>2, PTL DEF Spec

\* The fields of struct charge_task and the timer's counters stay in their
\* types, whatever the periods, the limit and the operator's commands are.
THEOREM TypeCorrect == Spec => []TypeOK
  <1>1. Inv => TypeOK
    BY DEF Inv
  <1> QED BY <1>1, InvHolds, PTL

\* tcu_stage is the session's phase or one of the two overlays, always.
THEOREM PhaseIsKept == Spec => []PhaseKept
  <1>1. Inv => PhaseKept
    BY DEF Inv
  <1> QED BY <1>1, InvHolds, PTL

\* No request's silence counter passes the tolerated time.
THEOREM SilenceIsBounded == Spec => []SilenceWithinLimit
  <1>1. Inv => SilenceWithinLimit
    BY DEF Inv
  <1> QED BY <1>1, InvHolds, PTL

-----------------------------------------------------------------------------
(* The timer's timeouts.                                                    *)

LEMMA OnlyTickTimesOut ==
    ASSUME Inv, [Next]_vars,
           tcu_tmp_stage' = "TIMEOUT", tcu_tmp_stage # "TIMEOUT"
    PROVE  Tick /\ TimedOut # {}
  <1> USE DEF stageVars
  <1>1. CASE Tick
    BY <1>1 DEF Tick
  <1>2. CASE Writer
    BY <1>2 DEF Writer, EventInit, EventHeart, EventTime, Enter, TxRequest,
                TxNothing, TxFails, TxDone, AfterSent
  <1>3. CASE Reader
    BY <1>3, AnswerFacts DEF Reader, RecvAccepted, RecvRejected, RecvIgnored,
                             RecvCST, TpOpen, Enter
  <1>4. CASE TpClose
    BY <1>4 DEF TpClose
  <1>5. CASE \E c \in Commands : Command(c)
    BY <1>5, CommandFacts, ParametersAssumption DEF Command, Enter
  <1>6. CASE UNCHANGED vars
    BY <1>6 DEF vars
  <1> QED BY <1>1, <1>2, <1>3, <1>4, <1>5, <1>6 DEF Next

\* A timeout is declared only in a phase that awaits an answer, and reports
\* the session's phase.
THEOREM TimeoutsNameThePhase == Spec => TimeoutNamesPhase
  <1>1. ASSUME Inv, [Next]_vars
        PROVE  [tcu_tmp_stage' = "TIMEOUT" /\ tcu_tmp_stage # "TIMEOUT"
                => /\ tcu_tmp_stage \in { StageOf[r] : r \in Requests }
                   /\ tcu_err_stage' = [late |-> TRUE,
                                        at |-> tcu_tmp_stage]]_vars
    <2> SUFFICES ASSUME tcu_tmp_stage' = "TIMEOUT",
                        tcu_tmp_stage # "TIMEOUT"
                 PROVE  /\ tcu_tmp_stage \in { StageOf[r] : r \in Requests }
                        /\ tcu_err_stage' = [late |-> TRUE,
                                             at |-> tcu_tmp_stage]
      OBVIOUS
    <2>1. Tick /\ TimedOut # {}
      BY <1>1, OnlyTickTimesOut
    <2>2. tcu_err_stage' = [late |-> TRUE, at |-> AfterHeart]
      BY <2>1 DEF Tick, TimeoutError
    <2> QED BY <1>1, <2>1, <2>2, TimeoutFacts
  <1> QED BY <1>1, InvHolds, PTL DEF Spec, TimeoutNamesPhase

-----------------------------------------------------------------------------
(* A phase's whole timeout.  Only two requests' phases are entered without *)
(* a command, which restarts every counter: CHECKVER at the start and      *)
(* PARAMETER after it.  Neither counter has run before.                    *)

FreshInv ==
    /\ Inv
    /\ boot = "INIT" => can_silence["TCV"] = 0
    /\ boot = "INIT" \/ tcu_tmp_stage = "CHECKVER" => can_silence["TCP"] = 0

LEMMA FreshInit == Init => FreshInv
  BY InitInv DEF Init, FreshInv, Requests

\* A tick does not count the parameters' silence while the version is checked.
LEMMA TickFresh ==
    ASSUME FreshInv, Tick
    PROVE  FreshInv'
  <1>1. Inv'
    BY TickInv DEF FreshInv
  <1>2. boot' # "INIT"
    BY DEF Tick
  <1>3. ASSUME tcu_tmp_stage' = "CHECKVER"
        PROVE  can_silence'["TCP"] = 0
    <2>1. tcu_tmp_stage = "CHECKVER"
      BY <1>3 DEF Tick
    <2>2. AfterHeart # "PARAMETER"
      BY <2>1, OverlayFacts DEF FreshInv, Inv, PhaseKept, Overlays
    <2>3. "TCP" \in Requests /\ StageOf["TCP"] = "PARAMETER"
      BY PacketFacts DEF Requests
    <2>4. Counted["TCP"] = can_silence["TCP"] + 0
      BY <2>2, <2>3 DEF Counted
    <2>5. Counted["TCP"] = 0
      BY <2>1, <2>4 DEF FreshInv
    <2> QED BY <2>3, <2>5 DEF Tick
  <1> QED BY <1>1, <1>2, <1>3 DEF FreshInv

\* What answers do to the two counters and to the phase.
LEMMA HeardFresh ==
    ASSUME NEW f \in Answers, Heard(f), NEW r \in Requests,
           can_silence[r] = 0
    PROVE  can_silence'[r] = 0
  BY DEF Heard

\* Of all answers only the one to the version starts a phase with a timeout.
LEMMA AnswersStart ==
    \A f \in Answers :
        /\ Answer[f].next # "CHECKVER"
        /\ \A r \in Requests :
              Answer[f].next = StageOf[r] => Answer[f].at = "CHECKVER"
                                             /\ r = "TCP"
  BY DEF Answers, Answer, Requests, StageOf

LEMMA ReaderFresh ==
    ASSUME FreshInv, Reader
    PROVE  FreshInv'
  <1> USE DEF FreshInv, stageVars, timerVars, writerVars
  <1>0. Inv' /\ {"TCV", "TCP"} \subseteq Requests
    BY ReaderInv DEF Requests
  <1>1. CASE \E f \in Answers : RecvAccepted(f)
    <2>1. PICK f \in Answers : RecvAccepted(f)
      BY <1>1
    <2>2. tcu_tmp_stage' # "CHECKVER" /\ boot' = boot /\ Heard(f)
      BY <2>1, AnswersStart DEF RecvAccepted, Enter
    <2> QED BY <1>0, <2>2, HeardFresh
  <1>2. CASE \E f \in Answers : RecvRejected(f) \/ RecvIgnored(f)
    <2>1. PICK f \in Answers : RecvRejected(f) \/ RecvIgnored(f)
      BY <1>2
    <2>2. Heard(f) /\ UNCHANGED <<boot, tcu_tmp_stage>>
      BY <2>1 DEF RecvRejected, RecvIgnored
    <2> QED BY <1>0, <2>2, HeardFresh
  <1>3. CASE \E stopped, ordered \in BOOLEAN : RecvCST(stopped, ordered)
    BY <1>0, <1>3 DEF RecvCST, Enter
  <1>4. CASE TpOpen
    BY <1>0, <1>4 DEF TpOpen
  <1> QED BY <1>1, <1>2, <1>3, <1>4 DEF Reader

LEMMA FreshNext ==
    ASSUME FreshInv, [Next]_vars
    PROVE  FreshInv'
  <1> USE DEF FreshInv, stageVars, timerVars, writerVars
  <1>0. Inv'
    BY NextInv
  <1>1. CASE Tick
    BY <1>1, TickFresh
  <1>2. CASE EventInit \/ EventHeart \/ EventTime
    BY <1>0, <1>2 DEF EventInit, EventHeart, EventTime, Enter
  <1>3. CASE (\E p \in Packets : TxRequest(p)) \/ TxNothing \/ TxFails
    BY <1>0, <1>3 DEF TxRequest, TxNothing, TxFails
  <1>4. CASE \E p \in Packets : TxDone(p)
    BY <1>0, <1>4 DEF TxDone, Enter, AfterSent
  <1>5. CASE Reader
    BY <1>5, ReaderFresh
  <1>6. CASE TpClose
    BY <1>0, <1>6 DEF TpClose
  <1>7. CASE \E c \in Commands : Command(c)
    BY <1>0, <1>7 DEF Command, SilenceRestarted, Requests
  <1>8. CASE UNCHANGED vars
    BY <1>0, <1>8 DEF vars
  <1> QED BY <1>1, <1>2, <1>3, <1>4, <1>5, <1>6, <1>7, <1>8
          DEF Next, Writer

LEMMA FreshHolds == Spec => []FreshInv
  <1>1. Init => FreshInv
    BY FreshInit
  <1>2. FreshInv /\ [Next]_vars => FreshInv'
    BY FreshNext
  <1> QED BY <1>1, <1>2, PTL DEF Spec

\* Every phase that awaits an answer starts with its whole timeout ahead,
\* whatever the operator types and however often the phases are entered.
THEOREM TimeoutsAreFresh == Spec => FreshTimeout
  <1>1. ASSUME FreshInv, [Next]_vars, NEW r \in Requests,
               tcu_tmp_stage' = StageOf[r], tcu_tmp_stage # tcu_tmp_stage'
        PROVE  can_silence'[r] = 0
    <2> USE <1>1, PacketFacts DEF FreshInv, stageVars, timerVars, writerVars
    <2>1. CASE Tick
      BY <2>1, RequestStages DEF Tick
    <2>2. CASE EventInit \/ EventHeart \/ EventTime
      BY <2>2 DEF EventInit, EventHeart, EventTime, Enter, Requests
    <2>3. CASE (\E p \in Packets : TxRequest(p)) \/ TxNothing \/ TxFails
               \/ TpOpen \/ TpClose
      BY <2>3 DEF TxRequest, TxNothing, TxFails, TpOpen, TpClose
    <2>4. CASE \E p \in Packets : TxDone(p)
      BY <2>4 DEF TxDone, Enter, AfterSent, Requests
    <2>5. CASE \E f \in Answers : RecvAccepted(f)
      <3>1. PICK f \in Answers : RecvAccepted(f)
        BY <2>5
      <3>2. Answer[f].next = StageOf[r] /\ tcu_stage = Answer[f].at
        BY <3>1 DEF RecvAccepted, Enter
      <3>3. r = "TCP" /\ tcu_stage = "CHECKVER"
        BY <3>2, AnswersStart
      <3>4. tcu_tmp_stage = "CHECKVER"
        BY <3>3 DEF Inv, PhaseKept, Overlays
      <3> QED BY <3>1, <3>3, <3>4, HeardFresh DEF RecvAccepted
    <2>6. CASE \E f \in Answers : RecvRejected(f) \/ RecvIgnored(f)
      BY <2>6 DEF RecvRejected, RecvIgnored
    <2>7. CASE \E stopped, ordered \in BOOLEAN : RecvCST(stopped, ordered)
      BY <2>7 DEF RecvCST, Enter, Requests
    <2>8. CASE \E c \in Commands : Command(c)
      BY <2>8 DEF Command, SilenceRestarted
    <2>9. CASE UNCHANGED vars
      BY <2>9 DEF vars
    <2> QED BY <2>1, <2>2, <2>3, <2>4, <2>5, <2>6, <2>7, <2>8, <2>9
            DEF Next, Writer, Reader
  <1>2. FreshInv /\ [Next]_vars
        => [\A r \in Requests :
              tcu_tmp_stage' = StageOf[r] /\ tcu_tmp_stage # tcu_tmp_stage'
              => can_silence'[r] = 0]_vars
    BY <1>1
  <1> QED BY <1>2, FreshHolds, PTL DEF Spec, FreshTimeout

-----------------------------------------------------------------------------
(* The program as built has no console thread.  Its phases are then the    *)
(* ones below.  MutedOnlyAtEnd is not inductive: a TRST still being sent   *)
(* must find the session where it was built, and a TRCT being sent must be *)
(* the one that this CONNECT phase built.                                  *)

BuiltPhases == { "INVALID", "CHECKVER", "PARAMETER", "WAITCONNECT", "CONNECT",
                 "WAITSTART", "STOP_END", "TIMEOUT" }

SessionInv ==
    /\ Inv
    /\ tcu_tmp_stage \in BuiltPhases
    /\ tcu_tmp_stage = "INVALID" => boot = "INIT"
    /\ boot = "INIT" => /\ tcu_tmp_stage \in {"INVALID", "STOP_END"}
                        /\ tx = NoPacket
                        /\ tcu_wait_stage = "INVALID"
    /\ MutedOnlyAtEnd
    /\ tx = "TRST" => tcu_tmp_stage = "STOP_END"
    /\ tx = "TRCT" => \/ tcu_tmp_stage = "CONNECT" /\ asked
                      \/ tcu_tmp_stage = "STOP_END"
    /\ tx # "TRSF"

LEMMA SessionInit == Init => SessionInv
  BY InitInv DEF Init, SessionInv, BuiltPhases, MutedOnlyAtEnd, NoPacket

\* Where the answers of the built phases lead.
LEMMA BuiltAnswers ==
    \A f \in Answers :
        /\ Answer[f].at \in BuiltPhases => Answer[f].next \in BuiltPhases
        /\ Answer[f].at \notin {"CONNECT", "STOP_END", "INVALID"}
        /\ Answer[f].next \notin {"INVALID", "STOP_END"}
        /\ Answer[f].at \in DOMAIN Session!AfterAnswer
        /\ Answer[f].next = Session!AfterAnswer[Answer[f].at]
  BY DEF Answers, Answer, BuiltPhases, Session!AfterAnswer

LEMMA SessionNextInv ==
    ASSUME Commands = {}, SessionInv, [Next]_vars
    PROVE  SessionInv'
  <1>0. Inv'
    BY NextInv DEF SessionInv
  <1> USE <1>0, PacketFacts
      DEF SessionInv, MutedOnlyAtEnd, stageVars, modeVars, timerVars,
          writerVars
  <1>1. CASE Tick
    <2>1. CASE TimedOut = {}
      BY <1>1, <2>1 DEF Tick
    <2>2. CASE TimedOut # {}
      <3>1. tcu_tmp_stage \notin {"CONNECT", "STOP_END", "INVALID"}
        BY <2>2, TimeoutFacts DEF Requests
      <3>2. tcu_tmp_stage' = "TIMEOUT"
        BY <1>1, <2>2 DEF Tick
      <3> QED BY <1>1, <3>1, <3>2 DEF Tick, BuiltPhases
    <2> QED BY <2>1, <2>2
  <1>2. CASE EventInit \/ EventHeart \/ EventTime
    BY <1>2 DEF EventInit, EventHeart, EventTime, Enter, BuiltPhases, NoPacket
  <1>3. CASE \E p \in Packets : TxRequest(p)
    <2>1. PICK p \in Packets : TxRequest(p)
      BY <1>3
    <2>2. p \in {"TTS", "THB"} \/ tcu_stage = tcu_tmp_stage
      BY <2>1 DEF TxRequest, IsDue, Inv, PhaseKept, Overlays
    <2> QED BY <2>1, <2>2
            DEF TxRequest, IsDue, Awake, RequestResumes, BuiltPhases
  <1>4. CASE TxNothing
    BY <1>4 DEF TxNothing, Awake, RequestResumes, NoPacket
  <1>5. CASE TxFails
    BY <1>5 DEF TxFails, NoPacket
  <1>6. CASE \E p \in Packets : TxDone(p)
    <2>1. PICK p \in Packets : TxDone(p)
      BY <1>6
    <2>2. CASE p = "TRCT" /\ tcu_stage = "CONNECT"
      <3>1. tcu_tmp_stage = "CONNECT"
        BY <2>2 DEF Inv, PhaseKept, Overlays
      <3>2. tcu_tmp_stage' = "WAITSTART"
        BY <2>1, <2>2 DEF TxDone, AfterSent, Enter
      <3>3. /\ tx' = NoPacket
            /\ UNCHANGED <<boot, tcu_wait_stage>>
        BY <2>1, <2>2 DEF TxDone, Mutes
      <3> QED BY <3>1, <3>2, <3>3 DEF BuiltPhases, NoPacket
    <2>3. CASE ~(p = "TRCT" /\ tcu_stage = "CONNECT")
      <3>1. /\ tx = p
            /\ tx' = NoPacket
            /\ UNCHANGED <<boot, tcu_tmp_stage>>
            /\ tcu_wait_stage' = IF p = "TRST" THEN "ANY" ELSE tcu_wait_stage
        BY <2>1, <2>3 DEF TxDone, Mutes
      <3> QED BY <3>1 DEF NoPacket
    <2> QED BY <2>2, <2>3
  <1>7. CASE \E f \in Answers : RecvAccepted(f)
    <2>1. PICK f \in Answers : RecvAccepted(f)
      BY <1>7
    <2>2. tcu_tmp_stage = Answer[f].at
      BY <2>1, AnswerFacts DEF RecvAccepted, Inv, PhaseKept
    <2> QED BY <2>1, <2>2, BuiltAnswers DEF RecvAccepted, Enter
  <1>8. CASE \/ \E f \in Answers : RecvRejected(f)
             \/ \E f \in Answers : RecvIgnored(f)
             \/ TpOpen
             \/ TpClose
    BY <1>8 DEF RecvRejected, RecvIgnored, TpOpen, TpClose
  <1>9. CASE \E stopped, ordered \in BOOLEAN : RecvCST(stopped, ordered)
    BY <1>9 DEF RecvCST, Enter, BuiltPhases
  <1>10. CASE UNCHANGED vars
    BY <1>10 DEF vars
  <1> QED BY <1>1, <1>2, <1>3, <1>4, <1>5, <1>6, <1>7, <1>8, <1>9, <1>10
          DEF Next, Writer, Reader

LEMMA SessionInvHolds ==
    ASSUME Commands = {}
    PROVE  Spec => []SessionInv
  <1>1. Init => SessionInv
    BY SessionInit
  <1>2. SessionInv /\ [Next]_vars => SessionInv'
    BY SessionNextInv
  <1> QED BY <1>1, <1>2, PTL DEF Spec

\* In the program as built only the end of a charge mutes the unit.
THEOREM MutedOnlyAtTheEnd ==
    ASSUME Commands = {}
    PROVE  Spec => []MutedOnlyAtEnd
  <1>1. SessionInv => MutedOnlyAtEnd
    BY DEF SessionInv
  <1> QED BY <1>1, SessionInvHolds, PTL

-----------------------------------------------------------------------------
(* The refinement: each step is a step of ChargeSession or leaves its       *)
(* variables alone.                                                         *)

LEMMA SessionStep ==
    ASSUME Commands = {}, SessionInv, [Next]_vars
    PROVE  [Session!SessionNext]_(Session!sessionVars)
  <1> USE DEF Session!SessionNext, Session!sessionVars, stageVars
  <1>1. CASE Tick
    <2>1. CASE TimedOut = {}
      BY <1>1, <2>1 DEF Tick
    <2>2. CASE TimedOut # {}
      <3>1. tcu_tmp_stage \in Session!Awaiting
        BY <2>2, TimeoutFacts, PacketFacts
           DEF SessionInv, Requests, Session!Awaiting
      <3>2. Session!GiveUp
        BY <1>1, <2>2, <3>1 DEF Tick, Session!GiveUp
      <3> QED BY <3>2
    <2> QED BY <2>1, <2>2
  <1>2. CASE EventInit
    BY <1>2 DEF EventInit, Enter, SessionInv, Session!Begin
  <1>3. CASE EventHeart \/ EventTime \/ TxNothing \/ TxFails
    BY <1>3 DEF EventHeart, EventTime, TxNothing, TxFails
  <1>4. CASE \E p \in Packets : TxRequest(p)
    <2>1. PICK p \in Packets : TxRequest(p)
      BY <1>4
    <2>2. CASE tcu_stage = tcu_tmp_stage
      <3>1. tcu_tmp_stage \in Session!Speaking
        BY <2>1, <2>2, PacketFacts
           DEF TxRequest, IsDue, SessionInv, Inv, TypeOK, Phases,
               Session!Speaking
      <3> QED BY <2>1, <2>2, <3>1 DEF TxRequest, Session!Ask
    <2>3. CASE tcu_stage # tcu_tmp_stage
      BY <2>1, <2>3 DEF TxRequest, SessionInv, Inv, TypeOK
    <2> QED BY <2>2, <2>3
  <1>5. CASE \E p \in Packets : TxDone(p)
    <2>1. PICK p \in Packets : TxDone(p)
      BY <1>5
    <2>2. CASE p = "TRCT" /\ tcu_stage = "CONNECT"
      <3>1. tcu_tmp_stage = "CONNECT" /\ asked
        BY <2>1, <2>2
           DEF TxDone, SessionInv, Inv, PhaseKept, Overlays
      <3>2. tcu_tmp_stage' = "WAITSTART" /\ asked' = FALSE
        BY <2>1, <2>2, PacketFacts DEF TxDone, AfterSent, Enter
      <3> QED BY <3>1, <3>2 DEF Session!Reported, Session!AfterReport
    <2>3. CASE ~(p = "TRCT" /\ tcu_stage = "CONNECT")
      BY <2>1, <2>3, PacketFacts DEF TxDone, SessionInv
    <2> QED BY <2>2, <2>3
  <1>6. CASE \E f \in Answers : RecvAccepted(f)
    <2>1. PICK f \in Answers : RecvAccepted(f)
      BY <1>6
    <2>2. tcu_tmp_stage = Answer[f].at
      BY <2>1, AnswerFacts DEF RecvAccepted, SessionInv, Inv, PhaseKept
    <2> QED BY <2>1, <2>2, BuiltAnswers
            DEF RecvAccepted, Enter, Session!Answered
  <1>7. CASE \/ \E f \in Answers : RecvRejected(f)
             \/ \E f \in Answers : RecvIgnored(f)
             \/ TpOpen
             \/ TpClose
    BY <1>7 DEF RecvRejected, RecvIgnored, TpOpen, TpClose
  <1>8. CASE \E stopped, ordered \in BOOLEAN : RecvCST(stopped, ordered)
    BY <1>8 DEF RecvCST, Enter, Session!Stopped
  <1>9. CASE UNCHANGED vars
    BY <1>9 DEF vars
  <1> QED BY <1>1, <1>2, <1>3, <1>4, <1>5, <1>6, <1>7, <1>8, <1>9
          DEF Next, Writer, Reader

\* The program as built implements the abstract charging session.
THEOREM SessionIsImplemented ==
    ASSUME Commands = {}
    PROVE  Spec => SessionImplemented
  <1>1. Init => Session!SessionInit
    BY DEF Init, Session!SessionInit
  <1>2. SessionInv /\ [Next]_vars
        => [Session!SessionNext]_(Session!sessionVars)
    BY SessionStep
  <1> QED BY <1>1, <1>2, SessionInvHolds, PTL
          DEF Spec, SessionImplemented, Session!SessionSpec

-----------------------------------------------------------------------------
(* The session with an operator.  The mapping of the packet that is being   *)
(* written is a value of its own, so that a step can be read off from it.   *)

\* The packet in flight as OperatedSession sees it.
Out == IF tx = NoPacket THEN "none" ELSE StageOf[tx]

LEMMA OutFacts ==
    /\ tx = NoPacket => Out = "none"
    /\ tx \in Packets => Out = StageOf[tx] /\ Out # "none"
  BY PacketFacts DEF Out

LEMMA OutUnchanged ==
    ASSUME tx' = tx
    PROVE  Out' = Out
  BY DEF Out

\* A step that leaves alone what OperatedSession sees.
LEMMA OperatedStutter ==
    ASSUME UNCHANGED <<tcu_tmp_stage, asked, boot, tx, tcu_wait_stage>>
    PROVE  UNCHANGED Operated!operatedVars
  BY DEF Operated!operatedVars, Operated!sessionVars

LEMMA OperatedTick ==
    ASSUME Inv, Tick
    PROVE  [Operated!OperatedNext]_(Operated!operatedVars)
  <1>1. UNCHANGED <<asked, boot, tx, tcu_wait_stage>> /\ boot # "INIT"
    BY DEF Tick, modeVars
  <1>2. CASE TimedOut = {}
    BY <1>1, <1>2, OperatedStutter DEF Tick
  <1>3. CASE TimedOut # {}
    <2>1. tcu_tmp_stage \in {"CHECKVER", "PARAMETER", "START", "STOP"}
      BY <1>3, TimeoutFacts, PacketFacts DEF Requests
    <2>2. tcu_tmp_stage' = "TIMEOUT"
      BY <1>3 DEF Tick
    <2>3. Operated!GiveUp
      BY <1>1, <2>1, <2>2 DEF Operated!GiveUp, Operated!Awaiting
    <2>4. Operated!Led
      BY <1>1, <2>3, OutUnchanged DEF Operated!Led, Out
    <2> QED
      BY <2>4 DEF Operated!OperatedNext
  <1> QED
    BY <1>2, <1>3

LEMMA OperatedBoot ==
    ASSUME Inv, EventInit \/ EventHeart \/ EventTime
    PROVE  [Operated!OperatedNext]_(Operated!operatedVars)
  <1>1. CASE EventInit
    <2>1. /\ boot = "INIT" /\ boot' = "HEART" /\ tcu_tmp_stage' = "CHECKVER"
          /\ asked' = FALSE /\ tcu_wait_stage' = "INVALID" /\ tx' = tx
      BY <1>1 DEF EventInit, Enter
    <2>2. Operated!Starts
      BY <2>1 DEF Operated!Starts
    <2> QED
      BY <2>2 DEF Operated!OperatedNext
  <1>2. CASE EventHeart \/ EventTime
    <2>1. /\ UNCHANGED <<tcu_tmp_stage, asked, tx, tcu_wait_stage>>
          /\ boot # "INIT" /\ boot' # "INIT"
      BY <1>2 DEF EventHeart, EventTime
    <2> QED
      BY <2>1 DEF Operated!operatedVars, Operated!sessionVars
  <1> QED
    BY <1>1, <1>2

LEMMA OperatedRequest ==
    ASSUME Inv, NEW p \in Packets, TxRequest(p)
    PROVE  [Operated!OperatedNext]_(Operated!operatedVars)
  <1>1. /\ boot = "LOOP" /\ boot' = boot /\ tx = NoPacket /\ tx' = p
        /\ tcu_stage = StageOf[p] /\ tcu_tmp_stage' = tcu_tmp_stage
        /\ tcu_wait_stage' = IF tcu_stage \in {"CONNECT", "START"}
                             THEN "INVALID" ELSE tcu_wait_stage
    BY DEF TxRequest, Awake, IsDue, RequestResumes
  <1>2. asked' = (asked \/ tcu_stage = tcu_tmp_stage)
    BY Zenon DEF TxRequest
  <1>3. p # NoPacket
    BY PacketFacts
  <1>4. CASE tcu_stage = tcu_tmp_stage
    <2>1. tcu_tmp_stage \in {"CHECKVER", "PARAMETER", "CONNECT", "START",
                             "STATUS", "STOP", "STOP_END"}
      BY <1>1, <1>4, PacketFacts DEF Inv, TypeOK, Phases
    <2>2. asked' = TRUE
      BY <1>2, <1>4, Zenon
    <2>3. Operated!Ask
      BY <1>1, <2>1, <2>2 DEF Operated!Ask, Operated!Speaking
    <2>4. Operated!Speaks
      BY <1>1, <1>3, <1>4, <2>3
         DEF Operated!Speaks, Operated!Nothing, Operated!Waking
    <2> QED
      BY <2>4 DEF Operated!OperatedNext
  <1>5. CASE tcu_stage # tcu_tmp_stage
    <2>1. tcu_stage \in {"HEAT", "TIME"}
      BY <1>5 DEF Inv, PhaseKept, Overlays
    <2>2. asked' = asked
      <3>1. asked \in BOOLEAN
        BY Zenon DEF Inv, TypeOK
      <3> QED
        BY <1>2, <1>5, <3>1, Zenon
    <2>3. Operated!Beats
      BY <1>1, <1>3, <2>1, <2>2
         DEF Operated!Beats, Operated!Nothing, Operated!sessionVars
    <2> QED
      BY <2>3 DEF Operated!OperatedNext
  <1> QED
    BY <1>4, <1>5

LEMMA OperatedNothing ==
    ASSUME Inv, TxNothing \/ TxFails
    PROVE  [Operated!OperatedNext]_(Operated!operatedVars)
  <1>1. UNCHANGED <<tcu_tmp_stage, asked, boot>>
    BY DEF TxNothing, TxFails, stageVars
  <1>2. CASE TxNothing
    <2>1. tx' = tx
      BY <1>2 DEF TxNothing
    <2>2. CASE tcu_wait_stage' = tcu_wait_stage
      BY <1>1, <2>1, <2>2, OperatedStutter
    <2>3. CASE tcu_wait_stage' # tcu_wait_stage
      <3>1. tcu_stage \in {"CONNECT", "START"} /\ tcu_wait_stage' = "INVALID"
        BY <1>2, <2>3 DEF TxNothing, RequestResumes
      <3>2. tcu_tmp_stage \in {"CONNECT", "START"}
        BY <3>1 DEF Inv, PhaseKept, Overlays
      <3>3. Operated!Wakes
        BY <1>1, <2>1, <3>1, <3>2
           DEF Operated!Wakes, Operated!Waking, Operated!sessionVars
      <3> QED
        BY <3>3 DEF Operated!OperatedNext
    <2> QED
      BY <2>2, <2>3
  <1>3. CASE TxFails
    <2>1. tx \in Packets /\ tx' = NoPacket /\ tcu_wait_stage' = tcu_wait_stage
      BY <1>3 DEF TxFails, Inv, TypeOK, modeVars
    <2>2. Operated!Lands
      BY <1>1, <2>1, PacketFacts
         DEF Operated!Lands, Operated!Nothing, Operated!sessionVars
    <2> QED
      BY <2>2 DEF Operated!OperatedNext
  <1> QED
    BY <1>2, <1>3

LEMMA OperatedDone ==
    ASSUME Inv, NEW p \in Packets, TxDone(p)
    PROVE  [Operated!OperatedNext]_(Operated!operatedVars)
  <1>1. /\ tx = p /\ tx' = NoPacket /\ p # NoPacket /\ boot' = boot
        /\ tcu_wait_stage' = IF p = "TRST" THEN "ANY" ELSE tcu_wait_stage
    BY PacketFacts DEF TxDone, Mutes
  <1>2. CASE p \in {"TRCT", "TRSF"} /\ tcu_stage = StageOf[p]
    <2>1. /\ tcu_tmp_stage = StageOf[p]
          /\ StageOf["TRCT"] = "CONNECT" /\ StageOf["TRSF"] = "STATUS"
      BY <1>2, PacketFacts DEF Inv, PhaseKept, Overlays
    <2>2. /\ tcu_tmp_stage' = IF p = "TRCT" THEN "WAITSTART" ELSE "CHARGING"
          /\ asked' = FALSE
      BY <1>2 DEF TxDone, Enter, AfterSent
    <2>3. Operated!Acknowledged
      <3>1. CASE p = "TRCT"
        BY <1>1, <2>1, <2>2, <3>1
           DEF Operated!Acknowledged, Operated!Nothing, Operated!AfterReport
      <3>2. CASE p = "TRSF"
        BY <1>1, <2>1, <2>2, <3>2
           DEF Operated!Acknowledged, Operated!Nothing, Operated!AfterReport
      <3> QED
        BY <1>2, <3>1, <3>2
    <2> QED
      BY <2>3 DEF Operated!OperatedNext
  <1>3. CASE ~(p \in {"TRCT", "TRSF"} /\ tcu_stage = StageOf[p])
    <2>1. UNCHANGED <<tcu_tmp_stage, asked>>
      BY <1>3, Zenon DEF TxDone
    <2>2. CASE p = "TRST"
      <3>1. Operated!FallsSilent
        BY <1>1, <2>1, <2>2, PacketFacts
           DEF Operated!FallsSilent, Operated!Nothing, Operated!sessionVars
      <3> QED
        BY <3>1 DEF Operated!OperatedNext
    <2>3. CASE p # "TRST"
      <3>1. Operated!Lands
        BY <1>1, <2>1, <2>3, PacketFacts
           DEF Operated!Lands, Operated!Nothing, Operated!sessionVars
      <3> QED
        BY <3>1 DEF Operated!OperatedNext
    <2> QED
      BY <2>2, <2>3
  <1> QED
    BY <1>2, <1>3

\* The answers' table is the abstract session's.
LEMMA OperatedAnswers ==
    \A f \in Answers :
        /\ Answer[f].at \in DOMAIN Operated!AfterAnswer
        /\ Answer[f].next = Operated!AfterAnswer[Answer[f].at]
  BY DEF Answers, Answer, Operated!AfterAnswer

LEMMA OperatedReader ==
    ASSUME Inv, Reader
    PROVE  [Operated!OperatedNext]_(Operated!operatedVars)
  <1>1. UNCHANGED <<boot, tx, tcu_wait_stage>>
    BY DEF Reader, RecvAccepted, RecvRejected, RecvIgnored, RecvCST, TpOpen,
           writerVars, modeVars
  <1>2. ASSUME Operated!Answered \/ Operated!Stopped
        PROVE  Operated!OperatedNext
    BY <1>1, <1>2 DEF Operated!Led, Operated!OperatedNext
  <1>3. CASE \E f \in Answers : RecvAccepted(f)
    <2>1. PICK f \in Answers : RecvAccepted(f)
      BY <1>3
    <2>2. tcu_tmp_stage = Answer[f].at
      BY <2>1, AnswerFacts DEF RecvAccepted, Inv, PhaseKept
    <2>3. tcu_tmp_stage' = Answer[f].next /\ asked' = FALSE
      BY <2>1 DEF RecvAccepted, Enter
    <2>4. Operated!Answered
      BY <2>2, <2>3, OperatedAnswers DEF Operated!Answered
    <2> QED
      BY <1>2, <2>4
  <1>4. CASE \/ \E f \in Answers : RecvRejected(f)
             \/ \E f \in Answers : RecvIgnored(f)
             \/ TpOpen
    BY <1>1, <1>4, OperatedStutter
       DEF RecvRejected, RecvIgnored, TpOpen, stageVars
  <1>5. CASE \E stopped, ordered \in BOOLEAN : RecvCST(stopped, ordered)
    <2>1. PICK stopped \in BOOLEAN, ordered \in BOOLEAN :
             RecvCST(stopped, ordered)
      BY <1>5
    <2>2. CASE stopped \/ ordered
      <3>1. tcu_tmp_stage' = "STOP_END" /\ asked' = FALSE
        BY <2>1, <2>2 DEF RecvCST, Enter
      <3>2. Operated!Stopped
        BY <3>1 DEF Operated!Stopped
      <3> QED
        BY <1>2, <3>2
    <2>3. CASE ~(stopped \/ ordered)
      BY <1>1, <2>1, <2>3, OperatedStutter DEF RecvCST, stageVars
    <2> QED
      BY <2>2, <2>3
  <1> QED
    BY <1>3, <1>4, <1>5 DEF Reader

LEMMA OperatedCommand ==
    ASSUME Inv, NEW c \in Commands, Command(c)
    PROVE  [Operated!OperatedNext]_(Operated!operatedVars)
  <1>1. /\ UNCHANGED <<boot, tx>>
        /\ tcu_wait_stage' = IF c = 3 THEN "INVALID" ELSE tcu_wait_stage
    BY DEF Command, writerVars
  <1>2. CASE c \in {8, 9}
    BY <1>1, <1>2, OperatedStutter DEF Command
  <1>3. CASE c \notin {8, 9}
    <2>1. tcu_tmp_stage' = CommandStage(c) /\ asked' = FALSE
      BY <1>3 DEF Command, Enter
    <2>2. CommandStage(c) \in Entered
      BY <1>3 DEF Entered
    <2>3. CommandStage(c) = "CONNECT" <=> c = 3
      BY ParametersAssumption DEF CommandStage
    <2>4. Operated!Ordered
      BY <1>1, <2>1, <2>2, <2>3 DEF Operated!Ordered
    <2> QED
      BY <2>4 DEF Operated!OperatedNext
  <1> QED
    BY <1>2, <1>3

LEMMA OperatedStep ==
    ASSUME Inv, [Next]_vars
    PROVE  [Operated!OperatedNext]_(Operated!operatedVars)
  <1>1. CASE Tick
    BY <1>1, OperatedTick
  <1>2. CASE Writer
    BY <1>2, OperatedBoot, OperatedRequest, OperatedNothing, OperatedDone
       DEF Writer
  <1>3. CASE Reader
    BY <1>3, OperatedReader
  <1>4. CASE TpClose
    BY <1>4, OperatedStutter DEF TpClose, stageVars, modeVars, writerVars
  <1>5. CASE \E c \in Commands : Command(c)
    BY <1>5, OperatedCommand
  <1>6. CASE UNCHANGED vars
    BY <1>6, OperatedStutter DEF vars, stageVars, modeVars, writerVars
  <1> QED
    BY <1>1, <1>2, <1>3, <1>4, <1>5, <1>6 DEF Next

\* Whatever the operator types, and whenever, the unit implements the abstract
\* session with an operator.
THEOREM OperatedIsImplemented == Spec => OperatedImplemented
  <1>1. Init => Operated!OperatedInit
    BY DEF Init, Operated!OperatedInit, Operated!SessionInit, Operated!Nothing
  <1>2. Inv /\ [Next]_vars
        => [Operated!OperatedNext]_(Operated!operatedVars)
    BY OperatedStep
  <1> QED
    BY <1>1, <1>2, InvHolds, PTL
    DEF Spec, OperatedImplemented, Operated!OperatedSpec

-----------------------------------------------------------------------------
(* The muted unit.  A tick that finds the counters switched off zeroes      *)
(* them, and the write thread does not look before a tick has passed.       *)

SilentInv ==
    /\ Inv
    /\ MutedSendsNothing
    /\ tcu_wait_stage = "ANY" /\ slept # 0 =>
          \A p \in Packets : heartbeat[p] = 0

LEMMA SilentInit == Init => SilentInv
  BY InitInv DEF Init, SilentInv, MutedSendsNothing

LEMMA SilentNext ==
    ASSUME Poll # 0, SilentInv, [Next]_vars
    PROVE  SilentInv'
  <1>0. Inv'
    BY NextInv DEF SilentInv
  <1> USE DEF MutedSendsNothing
  <1>1. CASE Tick
    <2>1. UNCHANGED <<tcu_wait_stage, tx>>
      BY <1>1 DEF Tick, modeVars
    <2>2. tcu_wait_stage = "ANY" => \A p \in Packets : ~Counts(p)
      BY DEF Counts, Sending
    <2>3. tcu_wait_stage = "ANY" => \A p \in Packets : heartbeat'[p] = 0
      BY <1>1, <2>2 DEF Tick
    <2> QED
      BY <1>0, <2>1, <2>3 DEF SilentInv
  <1>2. CASE EventInit \/ EventHeart \/ EventTime
    BY <1>0, <1>2 DEF SilentInv, EventInit, EventHeart, EventTime, timerVars
  <1>3. CASE \E p \in Packets : TxRequest(p)
    <2>1. PICK p \in Packets : TxRequest(p)
      BY <1>3
    <2>2. slept # 0 /\ heartbeat[p] # 0
      <3>1. slept >= Poll /\ heartbeat[p] >= Period[p]
        BY <2>1 DEF TxRequest, Awake, IsDue
      <3>2. slept \in Nat /\ heartbeat[p] \in Nat
        BY ParametersAssumption DEF SilentInv, Inv, TypeOK
      <3>3. Poll \in Nat /\ Period[p] \in Nat /\ Period[p] # 0
        BY ParametersAssumption
      <3> QED
        BY <3>1, <3>2, <3>3
    <2>3. tcu_wait_stage # "ANY"
      BY <2>2 DEF SilentInv
    <2>4. tcu_wait_stage' # "ANY"
      BY <2>1, <2>3 DEF TxRequest, RequestResumes
    <2> QED
      BY <1>0, <2>4 DEF SilentInv
  <1>4. CASE TxNothing
    BY <1>0, <1>4 DEF SilentInv, TxNothing, Awake
  <1>5. CASE TxFails \/ \E p \in Packets : TxDone(p)
    BY <1>0, <1>5 DEF SilentInv, TxFails, TxDone
  <1>6. CASE Reader
    <2>1. UNCHANGED <<tcu_wait_stage, heartbeat, tx, slept>>
      BY <1>6 DEF Reader, RecvAccepted, RecvRejected, RecvIgnored, RecvCST,
                  TpOpen, modeVars, timerVars, writerVars
    <2> QED
      BY <1>0, <2>1 DEF SilentInv
  <1>7. CASE TpClose
    BY <1>0, <1>7 DEF SilentInv, TpClose, modeVars, timerVars, writerVars
  <1>8. CASE \E c \in Commands : Command(c)
    BY <1>0, <1>8 DEF SilentInv, Command, writerVars
  <1>9. CASE UNCHANGED vars
    BY <1>0, <1>9 DEF SilentInv, vars, modeVars, timerVars, writerVars
  <1> QED
    BY <1>1, <1>2, <1>3, <1>4, <1>5, <1>6, <1>7, <1>8, <1>9
       DEF Next, Writer

\* When the write thread sleeps for a tick at least, as it does for five, no
\* packet is sent while the counters are switched off, with an operator too.
THEOREM MutedIsSilent ==
    ASSUME Poll # 0
    PROVE  Spec => []MutedSendsNothing
  <1>1. Init => SilentInv
    BY SilentInit
  <1>2. SilentInv /\ [Next]_vars => SilentInv'
    BY SilentNext
  <1>3. SilentInv => MutedSendsNothing
    BY DEF SilentInv
  <1> QED
    BY <1>1, <1>2, <1>3, PTL DEF Spec

=============================================================================
