------------------------------ MODULE MCCanTP ------------------------------
(* A pool whose only user is the transport, a timer of two sweeps, and      *)
(* messages of two and of three packets in turn.                            *)
EXTENDS CanTP, TLC

MCFoods == {can_tp_bomb}

MCType == can_tp_bomb :> "ONECE"

MCTtl == can_tp_bomb :> 2

MCPackNr == [t \in 0 .. MaxTransfers |-> IF t % 2 = 0 THEN 2 ELSE 3]

=============================================================================
