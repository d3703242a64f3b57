-------------------------- MODULE MCStatsPipeline --------------------------
(* Instances of StatsPipeline for TLC. *)
EXTENDS StatsPipeline, TLC

CONSTANT l1

\* Requests for every library there is.
ScopesAll == {{}}

Symmetry == Permutations(Procs)
=============================================================================
