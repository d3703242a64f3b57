---------------------------- MODULE MCLoginGate ----------------------------
(* Instances of LoginGate for TLC. *)
EXTENDS LoginGate
=============================================================================
