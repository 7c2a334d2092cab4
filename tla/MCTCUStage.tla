----------------------------- MODULE MCTCUStage -----------------------------
(***************************************************************************)
(* Values of TCUStage's constants for TLC.  The periods keep the order and *)
(* the near-coincidences of the table in src/tcu.c: 250 < 500 < 502 < 1002,*)
(* the clock packet due just after the version and parameter requests.     *)
(***************************************************************************)
EXTENDS TCUStage

\* Periods for the session as built: short packets, requests, clock, heartbeat.
Scaled(short, long, clock, heart) ==
    [p \in Packets |->
        CASE p \in {"TCV", "TCP"} -> long
          [] p = "TTS" -> clock
          [] p = "THB" -> heart
          [] OTHER -> short]

SessionPeriod == Scaled(1, 2, 3, 5)

StarvedPeriod == Scaled(2, 4, 5, 10)

OperatorPeriod == Scaled(1, 1, 2, 2)

NoCommands == {}

\* One number outside the menu, 5, and every number of the menu.
MenuCommands == {1, 2, 3, 4, 5, 6, 8, 9}

=============================================================================
