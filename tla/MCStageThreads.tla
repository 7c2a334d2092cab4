--------------------------- MODULE MCStageThreads ---------------------------
(* Values of StageThreads's constants for TLC: the commands that start and  *)
(* stop a charge.                                                           *)
EXTENDS StageThreads

StartAndStop == {4, 6}

=============================================================================
