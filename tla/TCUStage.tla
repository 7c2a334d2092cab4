------------------------------ MODULE TCUStage ------------------------------
(***************************************************************************)
(* The charging-session state machine of the billing control unit (TCU):   *)
(* src/tcu.c, the fields of struct charge_task in src/tcu.h.               *)
(*                                                                         *)
(* Four activities share the fields:                                       *)
(*   - the 1 ms timer signal          (Tick)                               *)
(*   - the CAN write thread           (EventInit .. TxDone)                *)
(*   - the CAN read thread            (Recv..., TpOpen)                    *)
(*   - the console command thread     (Command; src/serialsystem.c         *)
(*     compiles its creation out, so the program as built has none)        *)
(* Each handler is one atomic step here.                                   *)
(*                                                                         *)
(* tcu_stage selects the packet that the write thread sends.  The timer    *)
(* overlays it with HEAT or TIME whenever a keep-alive packet is due, and  *)
(* the completed transmission puts tcu_tmp_stage, the session's phase,     *)
(* back.                                                                   *)
(***************************************************************************)
EXTENDS Naturals, TCUTables

CONSTANTS
    Period,       \* generator[].period: ticks between two packets of a kind
    Tolerate,     \* generator[].can_tolerate_silence, in ticks
    Poll,         \* least number of ticks between two loops of the write
                  \* thread (its usleep)
    PollMax,      \* bound: largest number of ticks the scheduler keeps the
                  \* write thread away from its next loop
    Commands,     \* numbers the operator may type; {} in the program as built
    Multipacket   \* whether the charger opens multi-packet transfers

\* tcu_err_stage: the code of a stage, with the TIMEOUT bit (late) or without.
Errors == [late : BOOLEAN, at : Phases]

ASSUME ParametersAssumption ==
    /\ Period \in [Packets -> Nat \ {0}]
    /\ Tolerate \in Nat \ {0}
    /\ Poll \in Nat
    /\ PollMax \in Nat
    /\ Poll <= PollMax
    /\ Commands \subseteq Nat
    /\ Multipacket \in BOOLEAN

VARIABLES
    tcu_stage, tcu_tmp_stage, tcu_wait_stage,
    tcu_heartbeat_stage, tcu_time_stage, tcu_err_stage,
    can_tcu_status,   \* "INVALID", "NORMAL" or, in a multi-packet read, "TP_RD"
    heartbeat,        \* generator[].heartbeat of the packets sent
    can_silence,      \* generator[].can_silence of the requests
    boot,             \* the write thread's next start-up event, then "LOOP"
    tx,               \* the packet it has built and not yet finished sending
    slept,            \* ticks since its last loop ended
    asked             \* history: the phase's own packet has been built for
                      \* sending since the phase was entered

stageVars  == <<tcu_stage, tcu_tmp_stage, asked>>
modeVars   == <<tcu_wait_stage, tcu_heartbeat_stage, tcu_time_stage>>
timerVars  == <<heartbeat, can_silence>>
writerVars == <<boot, tx, slept>>
vars == <<stageVars, modeVars, timerVars, writerVars, tcu_err_stage,
          can_tcu_status>>

-----------------------------------------------------------------------------

Init ==
    /\ tcu_stage = "INVALID"
    /\ tcu_tmp_stage = "INVALID"
    /\ tcu_wait_stage = "INVALID"
    /\ tcu_heartbeat_stage = "INVALID"
    /\ tcu_time_stage = "INVALID"
    /\ tcu_err_stage = [late |-> FALSE, at |-> "INVALID"]
    /\ can_tcu_status = "INVALID"
    /\ heartbeat = [p \in Packets |-> 0]
    /\ can_silence = [r \in Requests |-> 0]
    /\ boot = "INIT"
    /\ tx = NoPacket
    /\ slept = 0
    /\ asked = FALSE

\* Mutant: the phase behind the overlays is forgotten.
EnterStageOnly(s) ==
    /\ tcu_stage' = s
    /\ asked' = FALSE
    /\ UNCHANGED tcu_tmp_stage

\* The session enters phase s: the code always writes both fields.
Enter(s) ==
    /\ tcu_stage' = s
    /\ tcu_tmp_stage' = s
    /\ asked' = FALSE

-----------------------------------------------------------------------------
(* Start-up of the write thread: three events before its loop.             *)

EventInit ==
    /\ boot = "INIT"
    /\ boot' = "HEART"
    /\ Enter("CHECKVER")
    /\ tcu_wait_stage' = "INVALID"
    /\ can_tcu_status' = "NORMAL"
    /\ UNCHANGED <<tcu_heartbeat_stage, tcu_time_stage, tcu_err_stage,
                   timerVars, tx, slept>>

EventHeart ==
    /\ boot = "HEART"
    /\ boot' = "TIME"
    /\ can_tcu_status' = "NORMAL"
    /\ tcu_heartbeat_stage' = "HEAT"
    /\ tcu_stage' = "HEAT"
    /\ UNCHANGED <<tcu_tmp_stage, asked, tcu_wait_stage, tcu_time_stage,
                   tcu_err_stage, timerVars, tx, slept>>

EventTime ==
    /\ boot = "TIME"
    /\ boot' = "LOOP"
    /\ tcu_time_stage' = "TIME"
    /\ tcu_stage' = "TIME"
    /\ slept' = 0
    /\ UNCHANGED <<tcu_tmp_stage, asked, tcu_wait_stage, tcu_heartbeat_stage,
                   tcu_err_stage, can_tcu_status, timerVars, tx>>

-----------------------------------------------------------------------------
(* The timer signal.  The generators are visited in table order: the two   *)
(* requests below and the clock packet see the stage as the signal found   *)
(* it, the others see it after the clock packet may have overlaid it, and  *)
(* the heartbeat packet comes last.                                        *)

BeforeClock == { "TRC", "TST", "TTS" }

\* Mutant: a timeout mutes the unit.
SendingUnlessTimedOut ==
    tcu_wait_stage = "INVALID" /\ tcu_tmp_stage # "TIMEOUT"

Sending == tcu_wait_stage = "INVALID"

\* A keep-alive packet whose period is over takes the stage s over.
Overlay(s, p, enabled) ==
    IF /\ Sending
       /\ enabled
       /\ heartbeat[p] >= Period[p]
    THEN StageOf[p]
    ELSE s

AfterClock == Overlay(tcu_stage, "TTS", tcu_time_stage = "TIME")
AfterHeart == Overlay(AfterClock, "THB", tcu_heartbeat_stage = "HEAT")

\* Mutant: a muted unit goes on counting.
CountsMuted(p) ==
    \/ StageOf[p] = IF p \in BeforeClock THEN tcu_stage ELSE AfterClock
    \/ p = "TTS" /\ tcu_time_stage = "TIME"
    \/ p = "THB" /\ tcu_heartbeat_stage = "HEAT"

\* Whether the first loop counts generator p up; it zeroes the others.
Counts(p) ==
    /\ Sending
    /\ \/ StageOf[p] = IF p \in BeforeClock THEN tcu_stage ELSE AfterClock
       \/ p = "TTS" /\ tcu_time_stage = "TIME"
       \/ p = "THB" /\ tcu_heartbeat_stage = "HEAT"

\* Mutant: the counter does not stop at the period.
AdvancedForEver(p) == heartbeat[p] + 1

Advanced(p) ==
    IF heartbeat[p] < Period[p] THEN heartbeat[p] + 1 ELSE Period[p]

\* The silence counters as the second loop finds them against the limit.
Counted ==
    [r \in Requests |->
        can_silence[r] + IF StageOf[r] = AfterHeart THEN 1 ELSE 0]

\* Mutant: the limit is checked before this tick is counted.
OverdueBeforeCounting == { r \in Requests : Tolerate < can_silence[r] }

Overdue == { r \in Requests : Tolerate < Counted[r] }

\* The request whose stage is current, when some counter passed its limit.
TimedOut ==
    { r \in Requests : Overdue # {} /\ StageOf[r] = AfterHeart }

\* Mutant: every branch reports the first one's code.
TimeoutErrorCopied(s) == [late |-> TRUE, at |-> "CHECKVER"]

TimeoutError(s) == [late |-> TRUE, at |-> s]

Tick ==
    /\ boot # "INIT"
    /\ slept < PollMax
    /\ slept' = slept + 1
    /\ heartbeat' = [p \in Packets |-> IF Counts(p) THEN Advanced(p) ELSE 0]
    /\ can_silence' =
         [r \in Requests |->
            IF r \in Overdue \cup TimedOut THEN 0 ELSE Counted[r]]
    /\ IF TimedOut = {}
       THEN /\ tcu_stage' = AfterHeart
            /\ UNCHANGED <<tcu_tmp_stage, tcu_err_stage>>
       ELSE /\ tcu_stage' = "TIMEOUT"
            /\ tcu_tmp_stage' = "TIMEOUT"
            /\ tcu_err_stage' = TimeoutError(AfterHeart)
    /\ UNCHANGED <<modeVars, can_tcu_status, boot, tx, asked>>

-----------------------------------------------------------------------------
(* The write thread's loop.                                                *)

\* One loop of the write thread begins after its usleep.
Awake ==
    /\ boot = "LOOP"
    /\ tx = NoPacket
    /\ slept >= Poll

\* Mutant: the counting is re-enabled before the stage is looked at.
RequestResumesAlways == tcu_wait_stage' = "INVALID"

\* CONNECT and START re-enable the counting before they look at it.
RequestResumes ==
    tcu_wait_stage' = IF tcu_stage \in {"CONNECT", "START"}
                      THEN "INVALID" ELSE tcu_wait_stage

\* Mutant: strictly more than the period, which the counter never reaches.
IsDuePastPeriod(p) ==
    /\ StageOf[p] = tcu_stage
    /\ heartbeat[p] > Period[p]

IsDue(p) ==
    /\ StageOf[p] = tcu_stage
    /\ heartbeat[p] >= Period[p]

\* EVENT_TX_REQUEST finds the stage's packet due and builds it.
TxRequest(p) ==
    /\ Awake
    /\ can_tcu_status = "NORMAL"
    /\ IsDue(p)
    /\ tx' = p
    /\ heartbeat' = [heartbeat EXCEPT ![p] = 0]
    /\ asked' = (asked \/ tcu_stage = tcu_tmp_stage)
    /\ RequestResumes
    /\ UNCHANGED <<tcu_stage, tcu_tmp_stage, tcu_heartbeat_stage,
                   tcu_time_stage, can_silence, boot, slept, tcu_err_stage, can_tcu_status>>

\* The loop ends without a packet of the session.
TxNothing ==
    /\ Awake
    /\ slept' = 0
    /\ IF can_tcu_status = "NORMAL"
       THEN /\ \A p \in Packets : ~IsDue(p)
            /\ RequestResumes
       ELSE UNCHANGED tcu_wait_stage
    /\ UNCHANGED <<stageVars, tcu_heartbeat_stage, tcu_time_stage, timerVars,
                   boot, tx, tcu_err_stage, can_tcu_status>>

\* write() takes too few bytes: the packet is given up until its period is over
\* again.  Module TCUWrite says which results count as that.
TxFails ==
    /\ tx # NoPacket
    /\ tx' = NoPacket
    /\ slept' = 0
    /\ UNCHANGED <<stageVars, modeVars, timerVars, boot, tcu_err_stage,
                   can_tcu_status>>

\* The packet counts as sent and its transfer-done handler runs.
TxDone(p) ==
    /\ tx = p
    /\ tx' = NoPacket
    /\ slept' = 0
    /\ IF p \in {"TRCT", "TRSF"} /\ tcu_stage = StageOf[p]
       THEN Enter(AfterSent(p))
       ELSE /\ tcu_stage' = IF Restores(p)
                            THEN tcu_tmp_stage ELSE tcu_stage
            /\ UNCHANGED <<tcu_tmp_stage, asked>>
    /\ tcu_wait_stage' = IF Mutes(p) THEN "ANY" ELSE tcu_wait_stage
    /\ UNCHANGED <<tcu_heartbeat_stage, tcu_time_stage, timerVars, boot,
                   tcu_err_stage, can_tcu_status>>

-----------------------------------------------------------------------------
(* The read thread.  Telemetry and clock answers (CRTS, CRF, CTF) change   *)
(* none of this state and are left out.                                    *)

\* Any answer restarts its request's silence counter, expected or not.
Heard(f) ==
    can_silence' = [r \in Requests |->
                       IF r \in Answer[f].of THEN 0 ELSE can_silence[r]]

\* Mutant: a positive answer is taken in every stage.
RecvAcceptedAnywhere(f) ==
    /\ boot = "LOOP"
    /\ Heard(f)
    /\ Enter(Answer[f].next)
    /\ UNCHANGED <<modeVars, heartbeat, writerVars, tcu_err_stage,
                   can_tcu_status>>

RecvAccepted(f) ==
    /\ tcu_stage = Answer[f].at
    /\ Heard(f)
    /\ Enter(Answer[f].next)
    /\ UNCHANGED <<modeVars, heartbeat, writerVars, tcu_err_stage,
                   can_tcu_status>>

RecvRejected(f) ==
    /\ tcu_stage = Answer[f].at
    /\ Heard(f)
    /\ tcu_err_stage' = [late |-> FALSE, at |-> Answer[f].err]
    /\ UNCHANGED <<stageVars, modeVars, heartbeat, writerVars,
                   can_tcu_status>>

RecvIgnored(f) ==
    /\ tcu_stage # Answer[f].at
    /\ Heard(f)
    /\ UNCHANGED <<stageVars, modeVars, heartbeat, writerVars, tcu_err_stage,
                   can_tcu_status>>

\* CST, the charger's stop report, is taken in every stage.  "stopped" is its
\* status byte, "ordered" says that the unit's stop order is its reason.
RecvCST(stopped, ordered) ==
    /\ IF stopped \/ ordered
       THEN Enter("STOP_END")
       ELSE UNCHANGED stageVars
    /\ IF stopped /\ ordered
       THEN UNCHANGED tcu_err_stage
       ELSE tcu_err_stage' = [late |-> FALSE, at |-> "STOP_STATUS"]
    /\ UNCHANGED <<modeVars, timerVars, writerVars, can_tcu_status>>

\* A multi-packet transfer opens; while it lasts the write thread serves only
\* the transport.  It ends by the acknowledgement or by the 1250 ms timeout.
\* A data frame outside a transfer sets the status to NORMAL too.  Module
\* CanTP models the transport itself.
TpOpen ==
    /\ Multipacket
    /\ can_tcu_status # "TP_RD"
    /\ can_tcu_status' = "TP_RD"
    /\ UNCHANGED <<stageVars, modeVars, timerVars, writerVars, tcu_err_stage>>

TpClose ==
    /\ Multipacket
    /\ can_tcu_status # "NORMAL"
    /\ can_tcu_status' = "NORMAL"
    /\ UNCHANGED <<stageVars, modeVars, timerVars, writerVars, tcu_err_stage>>

-----------------------------------------------------------------------------
(* The console; every command restarts all silence counters first.         *)

\* Mutant: the silence counters survive the command.
SilenceKept == can_silence

SilenceRestarted == [r \in Requests |-> 0]

Command(c) ==
    /\ can_silence' = SilenceRestarted
    /\ IF c \in {8, 9}
       THEN /\ tcu_stage' = CommandStage(c)
            /\ UNCHANGED <<tcu_tmp_stage, asked>>
       ELSE Enter(CommandStage(c))
    /\ tcu_heartbeat_stage' =
         IF c \in {1, 4, 8} THEN "HEAT" ELSE tcu_heartbeat_stage
    /\ tcu_time_stage' = IF c \in {1, 4, 9} THEN "TIME" ELSE tcu_time_stage
    /\ tcu_wait_stage' = IF c = 3 THEN "INVALID" ELSE tcu_wait_stage
    /\ UNCHANGED <<heartbeat, writerVars, tcu_err_stage, can_tcu_status>>

-----------------------------------------------------------------------------

Writer ==
    \/ EventInit
    \/ EventHeart
    \/ EventTime
    \/ \E p \in Packets : TxRequest(p)
    \/ TxNothing
    \/ TxFails
    \/ \E p \in Packets : TxDone(p)

Reader ==
    \/ \E f \in Answers : RecvAccepted(f)
    \/ \E f \in Answers : RecvRejected(f)
    \/ \E f \in Answers : RecvIgnored(f)
    \/ \E stopped, ordered \in BOOLEAN : RecvCST(stopped, ordered)
    \/ TpOpen

Next ==
    \/ Tick
    \/ Writer
    \/ Reader
    \/ TpClose
    \/ \E c \in Commands : Command(c)

Spec == Init /\ [][Next]_vars

(* The timer keeps firing and the write thread keeps looping; a packet that *)
(* keeps coming due is not missed for ever (the thread's loop and the       *)
(* charger's frames are not locked in phase); write() stops failing at some *)
(* time; a transfer ends, at the latest by its own timeout.  Nothing is     *)
(* assumed of the charger.                                                  *)
Fairness ==
    /\ WF_vars(Tick)
    /\ WF_vars(EventInit \/ EventHeart \/ EventTime)
    /\ WF_vars(TxNothing \/ \E p \in Packets : TxRequest(p) \/ TxDone(p))
    /\ \A p \in {"TTS", "THB", "TRCT"} : SF_vars(TxRequest(p))
    /\ WF_vars(TpClose)
    /\ <>[][~TxFails]_vars

FairSpec == Spec /\ Fairness

-----------------------------------------------------------------------------
(* Properties.                                                             *)

\* The fields keep their types and no counter leaves its range.
TypeOK ==
    /\ tcu_stage \in Phases \cup Overlays
    /\ tcu_tmp_stage \in Phases
    /\ tcu_wait_stage \in {"INVALID", "ANY"}
    /\ tcu_heartbeat_stage \in {"INVALID", "HEAT"}
    /\ tcu_time_stage \in {"INVALID", "TIME"}
    /\ tcu_err_stage \in Errors
    /\ can_tcu_status \in {"INVALID", "NORMAL", "TP_RD"}
    /\ heartbeat \in [Packets -> Nat]
    /\ \A p \in Packets : heartbeat[p] <= Period[p]
    /\ can_silence \in [Requests -> Nat]
    /\ boot \in {"INIT", "HEART", "TIME", "LOOP"}
    /\ tx \in Packets \cup {NoPacket}
    /\ slept \in 0 .. PollMax
    /\ asked \in BOOLEAN

\* A keep-alive only borrows tcu_stage: whatever timer, reader, writer and
\* operator do, the field is the session's phase or one of the two overlays,
\* and so the phase that a finished overlay puts back is never an old one.
PhaseKept == tcu_stage = tcu_tmp_stage \/ tcu_stage \in Overlays

\* The timer never lets a request's silence pass the tolerated time, although
\* it looks at the limit only in the request's own stage.
SilenceWithinLimit == \A r \in Requests : can_silence[r] <= Tolerate

\* Only the acknowledged end of a charge switches the packet counters off
\* (tcu_wait_stage); nothing else mutes the unit.
MutedOnlyAtEnd == tcu_wait_stage = "ANY" => tcu_tmp_stage = "STOP_END"

\* Once its counters are switched off the unit sends nothing: neither a packet
\* that was due before nor a keep-alive that took the stage over while the last
\* packet was being written slips out, since the write thread sleeps for a tick
\* at least before it looks again (src/tcu.c:1079) and that tick zeroes them all.
MutedSendsNothing == tcu_wait_stage = "ANY" => tx = NoPacket

\* Every phase that awaits an answer starts with its whole timeout ahead:
\* no silence of an earlier visit is charged to it.
FreshTimeout ==
    [][\A r \in Requests :
          tcu_tmp_stage' = StageOf[r] /\ tcu_tmp_stage # tcu_tmp_stage'
          => can_silence'[r] = 0]_vars

\* A timeout is declared only in a phase that awaits an answer, never during
\* an overlay, and the error it reports names the session's phase.
TimeoutNamesPhase ==
    [][tcu_tmp_stage' = "TIMEOUT" /\ tcu_tmp_stage # "TIMEOUT"
       => /\ tcu_tmp_stage \in { StageOf[r] : r \in Requests }
          /\ tcu_err_stage' = [late |-> TRUE, at |-> tcu_tmp_stage]]_vars

Session == INSTANCE ChargeSession WITH phase <- tcu_tmp_stage

\* As long as nobody types commands the unit runs a charging session: the
\* phases come in order and each acknowledgement is given to write() before it
\* counts.
SessionImplemented == Session!SessionSpec

\* The phases that the commands enter.
Entered == { CommandStage(c) : c \in Commands \ {8, 9} }

Operated == INSTANCE OperatedSession
    WITH phase   <- tcu_tmp_stage,
         Entries <- Entered,
         begun   <- boot # "INIT",
         out     <- IF tx = NoPacket THEN "none" ELSE StageOf[tx],
         muted   <- tcu_wait_stage = "ANY"

\* With an operator at the console the unit still runs the session: commands
\* enter phases at any time, also under a packet that is being written, and yet
\* only an acknowledgement that finds its own phase leads on, only the report of
\* an end silences the unit, and only a start or a connection wakes it up.
OperatedImplemented == Operated!OperatedSpec

\* An overlay ends: unless the unit has been muted, tcu_stage comes back to
\* the session's phase, so that the phase's packets and answers are served.
OverlayEnds ==
    boot = "LOOP" /\ tcu_stage \in Overlays
    ~> tcu_stage = tcu_tmp_stage \/ tcu_wait_stage = "ANY"

\* Until the unit is muted its heartbeat packet is sent again and again, in
\* every phase and after a timeout too.
HeartbeatFlows ==
    boot = "LOOP" ~> tx = "THB" \/ tcu_wait_stage = "ANY"

\* The charger's connection report is answered: the keep-alives never starve
\* the acknowledgement packet for good.
ConnectionAnswered == tcu_tmp_stage = "CONNECT" ~> tcu_tmp_stage # "CONNECT"

\* "First come, first served; within several control cycles every packet is
\* sent according to its period" (comment at EVENT_TX_REQUEST): a packet of
\* the current phase that has become due stays due until it is sent.
DueStaysDue ==
    [][\A p \in Requests :
          /\ boot = "LOOP"
          /\ StageOf[p] = tcu_tmp_stage
          /\ heartbeat[p] = Period[p]
          /\ tcu_tmp_stage' = tcu_tmp_stage
          => heartbeat'[p] = Period[p] \/ tx' = p]_vars

=============================================================================
