--------------------------- MODULE OperatedSession ---------------------------
(***************************************************************************)
(* What the session promises when an operator types commands: the phases   *)
(* follow ChargeSession's tables except where a command enters one; an     *)
(* acknowledgement leads on only in its own phase; and the unit falls      *)
(* silent only when the report of an end has been written, and speaks      *)
(* again only for a start or a connection.  An acknowledgement counts even *)
(* when a command has entered its phase anew meanwhile.  TCUStage          *)
(* implements it, whatever commands there are.                             *)
(***************************************************************************)
EXTENDS ChargeSession

CONSTANT Entries    \* the phases that commands enter

VARIABLES
    begun,   \* the unit has started
    out,     \* the phase, or the overlay, whose packet is being written
    muted    \* the unit sends nothing

operatedVars == <<sessionVars, begun, out, muted>>

Nothing == "none"

\* The phases that end a silence.
Waking == {"CONNECT", "START"}

OperatedInit ==
    /\ SessionInit
    /\ begun = FALSE
    /\ out = Nothing
    /\ muted = FALSE

Starts ==
    /\ ~begun
    /\ begun' = TRUE
    /\ phase' = "CHECKVER"
    /\ asked' = FALSE
    /\ muted' = FALSE
    /\ UNCHANGED out

\* The phase's own packet is built.
Speaks ==
    /\ begun
    /\ out = Nothing
    /\ Ask
    /\ out' = phase
    /\ muted' = (muted /\ phase \notin Waking)
    /\ UNCHANGED begun

\* A keep-alive is built.
Beats ==
    /\ begun
    /\ out = Nothing
    /\ out' \in {"HEAT", "TIME"}
    /\ UNCHANGED <<sessionVars, begun, muted>>

\* The unit finds itself in a phase that ends a silence.
Wakes ==
    /\ phase \in Waking
    /\ muted' = FALSE
    /\ UNCHANGED <<sessionVars, begun, out>>

\* The packet is given up, or written and of no consequence.
Lands ==
    /\ out # Nothing
    /\ out' = Nothing
    /\ UNCHANGED <<sessionVars, begun, muted>>

\* An acknowledgement is written while its phase lasts.
Acknowledged ==
    /\ out = phase
    /\ phase \in DOMAIN AfterReport
    /\ phase' = AfterReport[phase]
    /\ asked' = FALSE
    /\ out' = Nothing
    /\ UNCHANGED <<begun, muted>>

\* The report of an end is written.
FallsSilent ==
    /\ out = "STOP_END"
    /\ out' = Nothing
    /\ muted' = TRUE
    /\ UNCHANGED <<sessionVars, begun>>

\* The charger, or its silence, leads on.
Led ==
    /\ Answered \/ (begun /\ GiveUp) \/ Stopped
    /\ UNCHANGED <<begun, out, muted>>

Ordered ==
    /\ phase' \in Entries
    /\ asked' = FALSE
    /\ muted' = (muted /\ phase' # "CONNECT")
    /\ UNCHANGED <<begun, out>>

OperatedNext ==
    \/ Starts
    \/ Speaks
    \/ Beats
    \/ Wakes
    \/ Lands
    \/ Acknowledged
    \/ FallsSilent
    \/ Led
    \/ Ordered

OperatedSpec == OperatedInit /\ [][OperatedNext]_operatedVars

=============================================================================
