----------------------------- MODULE MCTCUWrite -----------------------------
(* The periods of MCTCUStage; packets of two bytes in frames of three, and  *)
(* an unsigned int of eight values, are enough to tell -1 from a count.     *)
EXTENDS TCUWrite

MCPeriod == [p \in Packets |-> CASE p \in {"TCV", "TCP"} -> 4
                                 [] p = "TTS" -> 5
                                 [] p = "THB" -> 10
                                 [] OTHER -> 2]

MCDatalen == [p \in Packets |-> 2]

NoCommands == {}

=============================================================================
