-------------------------- MODULE MCRamCheckpoint ---------------------------
(* Instances of RamCheckpoint for TLC.                                      *)
EXTENDS RamCheckpoint
=============================================================================
