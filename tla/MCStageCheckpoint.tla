------------------------- MODULE MCStageCheckpoint -------------------------
(* Instances of StageCheckpoint for TLC. *)
EXTENDS StageCheckpoint
=============================================================================
