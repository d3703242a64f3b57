--------------------------- MODULE MCCatalogCache ---------------------------
(* Instance of CatalogCache for TLC. *)
EXTENDS CatalogCache, TLC

CONSTANTS l1, one, two

\* One query shape about the only library, which can be a page's, and one
\* about all.
ScopeOneAll == (one :> {l1}) @@ (two :> {})

Symmetry == Permutations(Procs)
=============================================================================
