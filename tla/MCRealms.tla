------------------------------ MODULE MCRealms ------------------------------
(* Instances of Realms for TLC. *)
EXTENDS Realms, TLC

Symmetry == Permutations(Dialers) \cup Permutations(Ids)
=============================================================================
