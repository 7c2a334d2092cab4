----------------------------- MODULE MCHachiko -----------------------------
(* Three slots for the session's timer and the transport's one-shot timer. *)
(* The lengths are 2 and 3 sweeps (1 and 1250 in the code): the shortest    *)
(* that tell an early expiry from a timely one.                             *)
EXTENDS Hachiko, TLC

CONSTANTS can_heart_beat, can_tp_bomb

MCFoods == {can_heart_beat, can_tp_bomb}

MCType == can_heart_beat :> "AUTO_FEED" @@ can_tp_bomb :> "ONECE"

MCTtl == can_heart_beat :> 2 @@ can_tp_bomb :> 3

MCAgain == {can_tp_bomb}

=============================================================================
