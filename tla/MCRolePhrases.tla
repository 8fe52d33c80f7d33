---------------------------- MODULE MCRolePhrases ----------------------------
(* Instances of RolePhrases for TLC.                                        *)
EXTENDS RolePhrases, TLC

Symmetry == Permutations(Texts) \cup Permutations(Looks)
=============================================================================
