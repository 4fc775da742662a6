----------------------------- MODULE MCSession ------------------------------
(* Instances of Session for TLC.                                           *)
EXTENDS SessionInductive, TLC

Symmetry == Permutations(Sessions)
=============================================================================
