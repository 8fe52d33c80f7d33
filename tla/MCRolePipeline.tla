---------------------------- MODULE MCRolePipeline ---------------------------
(* Instances of RolePipeline for TLC.                                       *)
EXTENDS RolePipeline
=============================================================================
