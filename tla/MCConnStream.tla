---------------------------- MODULE MCConnStream ----------------------------
(* Instances of ConnStream for TLC. *)
EXTENDS ConnStream
=============================================================================
