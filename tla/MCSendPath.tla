----------------------------- MODULE MCSendPath -----------------------------
(* Instances of SendPath for TLC. *)
EXTENDS SendPath, TLC

Symmetry == Permutations(Conns)
=============================================================================
