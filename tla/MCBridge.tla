------------------------------ MODULE MCBridge ------------------------------
(* Instances of Bridge for TLC. *)
EXTENDS Bridge, TLC

Symmetry == Permutations(Handlers)
=============================================================================
