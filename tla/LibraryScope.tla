---------------------------- MODULE LibraryScope ----------------------------
(***************************************************************************)
(* How a request's scope is narrowed, as operators: the token's libraries  *)
(* and media types by those the request names (internal/server/            *)
(* validation.go), and the libraries by the public allowlist               *)
(* (internal/store/store.go).  Lists are taken as sets: neither order nor  *)
(* repetition matters to what a query may touch.                           *)
(***************************************************************************)
EXTENDS Integers

CONSTANTS
    Libraries,    \* numeric library ids
    OtherIDs      \* texts that are given as library ids and are no positive number

ASSUME ScopeAssumption == Libraries \cap OtherIDs = {}

-----------------------------------------------------------------------------
(* Media types. *)

KnownTypes == {"movie", "tv", "series", "episode", "audiobook", "ebook"}

\* cleanMediaTypes: one unknown type refuses them all; "series" is "tv" on the
\* wire.
CleanMediaTypes(types) ==
    [ok |-> types \subseteq KnownTypes, types |-> {IF t = "series" THEN "tv" ELSE t : t \in types}]

\* normalizeStoreMediaTypes: "tv" is "series" in the database.
StoreMediaTypes(types) == {IF t = "tv" THEN "series" ELSE t : t \in types}

\* directCatalogMediaTypes: the database can answer.
DirectMediaTypes(types) == types \subseteq {"movie", "tv", "series", "episode"}

-----------------------------------------------------------------------------
(* Merging. *)

\* Nothing named is everything.
Narrow(allowed, requested) ==
    IF allowed = {} THEN requested
    ELSE IF requested = {} THEN allowed ELSE allowed \cap requested

Disjoint(allowed, requested) ==
    allowed # {} /\ requested # {} /\ allowed \cap requested = {}

\* mergeMediaTypes.
MergeMediaTypes(allowed, requested) ==
    LET a == CleanMediaTypes(allowed)
        r == CleanMediaTypes(requested)
    IN  [ok    |-> a.ok /\ r.ok /\ ~Disjoint(a.types, r.types),
         types |-> Narrow(a.types, r.types)]

\* mergeLibraryIDs, which compares texts.
MergeLibraryIDs(allowed, requested) ==
    [ok |-> ~Disjoint(allowed, requested), ids |-> Narrow(allowed, requested)]

-----------------------------------------------------------------------------
(* The floor. *)

\* cleanIDs: what is no positive number is dropped.
CleanIDs(ids) == ids \cap Libraries

\* Mutant of AllowedLibraryIDs: a scope is taken at its word.
ScopeOrFloor(floor, requested) ==
    IF CleanIDs(requested) = {} THEN floor ELSE CleanIDs(requested)

\* The ids of allowedLibraryIDs.
AllowedLibraryIDs(floor, requested) ==
    IF CleanIDs(requested) = {} THEN floor ELSE floor \cap CleanIDs(requested)

\* Mutant of DenyAll: a scope off the floor is let through.
DenyFloor(floor, requested) == floor = {}

\* denyAll of allowedLibraryIDs: no ids would be no restriction.
DenyAll(floor, requested) == AllowedLibraryIDs(floor, requested) = {}
=============================================================================
