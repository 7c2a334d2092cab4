------------------------------ MODULE TCUTables ------------------------------
(***************************************************************************)
(* The constant tables of the charging session in src/tcu.c: packets,      *)
(* stages, answers and commands.                                           *)
(***************************************************************************)

\* Mutant: the table gives TRCT the stage after its own.
StageOfSlipped ==
    [ TRC |-> "START", TST |-> "STOP", TTS |-> "TIME",
      TCV |-> "CHECKVER", TCP |-> "PARAMETER", TRSF |-> "STATUS",
      TRST |-> "STOP_END", TRCT |-> "WAITSTART", THB |-> "HEAT" ]

\* The packets the unit sends, each with the stage in which it is sent.
StageOf == [ TRC |-> "START", TST |-> "STOP", TTS |-> "TIME",
             TCV |-> "CHECKVER", TCP |-> "PARAMETER", TRSF |-> "STATUS",
             TRST |-> "STOP_END", TRCT |-> "CONNECT", THB |-> "HEAT" ]

Packets == DOMAIN StageOf

\* Mutant: the end of the charge awaits an answer too.
RequestsAndEnd == { "TRC", "TST", "TCV", "TCP", "TRST" }

\* The requests whose answer is awaited with a timeout.
Requests == { "TRC", "TST", "TCV", "TCP" }

Overlays == { "HEAT", "TIME" }

Phases == { "INVALID", "CHECKVER", "PARAMETER", "WAITCONNECT", "CONNECT",
            "WAITSTART", "START", "STARTING", "STATUS", "CHARGING", "STOP",
            "STOP_STATUS", "STOP_END", "ANY", "TIMEOUT" }

\* No packet is being transmitted.
NoPacket == "none"

\* The charger's answers: the stage that waits for one, the stage a positive
\* one leads to, the error a negative one reports and the request counter it
\* restarts.
Answer ==
    [ CRCV |-> [at |-> "CHECKVER", next |-> "PARAMETER", err |-> "CHECKVER",
                of |-> {"TCV"}],
      CRCP |-> [at |-> "PARAMETER", next |-> "WAITCONNECT",
                err |-> "PARAMETER", of |-> {"TCP"}],
      CCT  |-> [at |-> "WAITCONNECT", next |-> "CONNECT", err |-> "CONNECT",
                of |-> {}],
      CRTR |-> [at |-> "START", next |-> "STARTING", err |-> "STOP",
                of |-> {"TRC"}],
      CSF  |-> [at |-> "STARTING", next |-> "STATUS", err |-> "STARTING",
                of |-> {}],
      CRST |-> [at |-> "STOP", next |-> "STOP_STATUS", err |-> "STOP",
                of |-> {"TST"}] ]

Answers == DOMAIN Answer

\* The phase that the completed transmission of packet p leads to.
AfterSent(p) ==
    CASE p = "TRCT" -> "WAITSTART"
      [] p = "TRSF" -> "CHARGING"

\* The packets whose transmission ends an overlay.
Restores(p) == p \in {"TTS", "THB"}

\* Mutant: the connection's acknowledgement mutes the unit too.
MutesOnConnection(p) == p \in {"TRST", "TRCT"}

\* The packets whose transmission stops the counting of the periods.
Mutes(p) == p = "TRST"

\* The stage that each of the console's numbers starts.
CommandStage(c) ==
    CASE c = 1 -> "CHECKVER"
      [] c = 2 -> "PARAMETER"
      [] c = 3 -> "CONNECT"
      [] c = 4 -> "START"
      [] c = 6 -> "STOP"
      [] c = 8 -> "HEAT"
      [] c = 9 -> "TIME"
      [] OTHER -> "ANY"

=============================================================================
