----------------------------- MODULE MCQwenPool -----------------------------
(* Instances of QwenPool for TLC. *)
EXTENDS QwenPool, TLC

CONSTANTS t1, t2, p1, p2

Apart == (t1 :> p1) @@ (t2 :> p2)
=============================================================================
