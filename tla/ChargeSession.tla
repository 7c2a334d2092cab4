---------------------------- MODULE ChargeSession ----------------------------
(***************************************************************************)
(* What the session state machine promises of a charge, without timers,    *)
(* overlays, threads or packets: the phases come in their order, a timeout *)
(* happens only where an answer is awaited, and the charger's connection   *)
(* and start reports lead on only after their acknowledgement was written. *)
(* TCUStage implements it when nobody types commands.                      *)
(***************************************************************************)

VARIABLES
    phase,   \* the session's phase
    asked    \* the phase's own packet has been built for sending

sessionVars == <<phase, asked>>

\* The phases that end with a positive answer, each with its successor.
AfterAnswer ==
    [ CHECKVER |-> "PARAMETER", PARAMETER |-> "WAITCONNECT",
      WAITCONNECT |-> "CONNECT", START |-> "STARTING",
      STARTING |-> "STATUS", STOP |-> "STOP_STATUS" ]

\* The phases that end when the unit's own acknowledgement is out.
AfterReport == [ CONNECT |-> "WAITSTART", STATUS |-> "CHARGING" ]

\* The phases in which the unit sends a packet of its own.
Speaking == { "CHECKVER", "PARAMETER", "CONNECT", "START", "STATUS", "STOP",
              "STOP_END" }

\* The phases that a silent charger can end.
Awaiting == { "CHECKVER", "PARAMETER", "START", "STOP" }

SessionInit == phase = "INVALID" /\ asked = FALSE

\* The unit starts; a stop report may have come in before.
Begin ==
    /\ phase \in {"INVALID", "STOP_END"}
    /\ phase' = "CHECKVER"
    /\ asked' = FALSE

Ask ==
    /\ phase \in Speaking
    /\ asked' = TRUE
    /\ UNCHANGED phase

Answered ==
    /\ phase \in DOMAIN AfterAnswer
    /\ phase' = AfterAnswer[phase]
    /\ asked' = FALSE

Reported ==
    /\ phase \in DOMAIN AfterReport
    /\ asked
    /\ phase' = AfterReport[phase]
    /\ asked' = FALSE

GiveUp ==
    /\ phase \in Awaiting
    /\ phase' = "TIMEOUT"
    /\ UNCHANGED asked

\* The charger reports that it stopped.
Stopped ==
    /\ phase' = "STOP_END"
    /\ asked' = FALSE

SessionNext == Begin \/ Ask \/ Answered \/ Reported \/ GiveUp \/ Stopped

SessionSpec == SessionInit /\ [][SessionNext]_sessionVars

=============================================================================
