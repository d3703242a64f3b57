-------------------------- MODULE MCRequestLimiter --------------------------
(* Instances of RequestLimiter for TLC. *)
EXTENDS RequestLimiter, TLC

Symmetry == Permutations(Procs) \cup Permutations(IPs)
=============================================================================
