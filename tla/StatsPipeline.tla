--------------------------- MODULE StatsPipeline ---------------------------
(***************************************************************************)
(* publicCatalogStats (internal/server/stats.go): totals from the database *)
(* behind storeStatsCache, or else from the host behind statsCache (both   *)
(* internal/server/cache.go), with the counts of the companion plugins     *)
(* added to either.  Each cache keeps one payload per library scope and    *)
(* hands the same pointer to every request that hits it.                   *)
(*                                                                         *)
(* A payload is described by where its counts come from, the version of    *)
(* the library they were counted on, the libraries counted, and how often  *)
(* each companion was added.                                               *)
(***************************************************************************)
EXTENDS Integers

CONSTANTS
    Procs,        \* requests in flight
    Libraries,    \* libraries of the host
    Scopes,       \* library scopes of requests; the empty one asks for all
    Sources,      \* companion plugins (Deps.Sources)
    TTL,          \* StatsCacheTTL (server.go: 30 seconds)
    MaxLoad,      \* bound: longest time a request takes
    MaxImports,   \* bound: changes of the library
    MaxTime       \* bound: the clock stops here

ASSUME StatsAssumption ==
    /\ Scopes \subseteq SUBSET Libraries /\ Scopes # {}
    /\ {TTL, MaxLoad, MaxImports, MaxTime} \subseteq Nat

VARIABLES
    now,          \* the clock
    floor,        \* Store.publicLibraryIDs
    hosted,       \* sdkruntime.Host() is not nil
    world,        \* version of the host's library
    storeCache,   \* storeStatsCache.entries
    hostCache,    \* statsCache.entries
    pc, scope,    \* per request: where it is and the libraries it is about
    stamp,        \* ... the clock statsCache.get read
    got,          \* ... and the payload it has
    since,        \* history: when a library last entered or left the floor
    replaced,     \* history: when a version of the library was replaced
    start         \* history: when a request began

world_ == <<now, floor, hosted, world, since, replaced>>
caches == <<storeCache, hostCache>>
vars == <<now, floor, hosted, world, storeCache, hostCache, pc, scope, stamp, got,
          since, replaced, start>>

Versions == 0..MaxImports

Stats == [from : {"none", "store", "host"}, version : Versions, libs : SUBSET Libraries,
          added : [Sources -> Nat]]

\* The payload of a failure: no counts.
NoStats == [from |-> "none", version |-> 0, libs |-> {}, added |-> [s \in Sources |-> 0]]

Entry == [known : BOOLEAN, expires : Nat, stats : Stats]

NoEntry == [known |-> FALSE, expires |-> 0, stats |-> NoStats]

PCs == {"idle", "cached", "floor", "query", "sources", "host", "lookup", "call",
        "hostsources", "answered"}

TypeOK ==
    /\ now \in Nat /\ hosted \in BOOLEAN /\ world \in Versions
    /\ floor \in SUBSET Libraries
    /\ since \in [Libraries -> Nat]
    /\ replaced \in [Versions -> Nat]
    /\ storeCache \in [Scopes -> Entry]
    /\ hostCache \in [Scopes -> Entry]
    /\ \A k \in Scopes : /\ storeCache[k].known => storeCache[k].stats.from = "store"
                         /\ hostCache[k].known => hostCache[k].stats.from = "host"
    /\ pc \in [Procs -> PCs]
    /\ scope \in [Procs -> Scopes]
    /\ start \in [Procs -> Nat]
    /\ stamp \in [Procs -> Nat]
    /\ got \in [Procs -> Stats]

AnyScope == CHOOSE k \in Scopes : TRUE

\* The clock starts late enough that the first floor is an old one.
Init ==
    /\ now = TTL + MaxLoad + 1
    /\ floor \in SUBSET Libraries
    /\ hosted = FALSE
    /\ world = 0
    /\ storeCache = [k \in Scopes |-> NoEntry]
    /\ hostCache = [k \in Scopes |-> NoEntry]
    /\ pc = [p \in Procs |-> "idle"]
    /\ scope = [p \in Procs |-> AnyScope]
    /\ stamp = [p \in Procs |-> 0]
    /\ got = [p \in Procs |-> NoStats]
    /\ since = [l \in Libraries |-> 0]
    /\ replaced = [v \in Versions |-> 0]
    /\ start = [p \in Procs |-> 0]

-----------------------------------------------------------------------------
(* publicCatalogStats, the database first. *)

At(p, here, next) == pc[p] = here /\ pc' = [pc EXCEPT ![p] = next]

Asked(k) == IF k = {} THEN Libraries ELSE k

\* hStats asks for everything, the pages for what their token allows.
Request(p) ==
    /\ At(p, "idle", "cached")
    /\ \E k \in Scopes : scope' = [scope EXCEPT ![p] = k]
    /\ start' = [start EXCEPT ![p] = now]
    /\ UNCHANGED <<world_, caches, stamp, got>>

\* What storeStatsCache has for the request.
Stored(p) == storeCache[scope[p]]

\* Mutant of StoreHit: a hit renews the entry.
StoreHitRenews(p) ==
    /\ At(p, "cached", "answered")
    /\ Stored(p).known /\ now <= Stored(p).expires
    /\ got' = [got EXCEPT ![p] = Stored(p).stats]
    /\ storeCache' = [storeCache EXCEPT ![scope[p]].expires = now + TTL]
    /\ UNCHANGED <<world_, hostCache, scope, stamp, start>>

StoreHit(p) ==
    /\ At(p, "cached", "answered")
    /\ Stored(p).known /\ now <= Stored(p).expires
    /\ got' = [got EXCEPT ![p] = Stored(p).stats]
    /\ UNCHANGED <<world_, caches, scope, stamp, start>>

StoreMiss(p) ==
    /\ At(p, "cached", "floor")
    /\ Stored(p).known => now > Stored(p).expires
    /\ storeCache' = [storeCache EXCEPT ![scope[p]] = NoEntry]
    /\ UNCHANGED <<world_, hostCache, scope, stamp, got, start>>

\* Mutant of ReadFloor: the denial is dropped, and a query for no library in
\* particular counts them all.
ReadFloorUndenied(p) ==
    LET allowed == floor \cap Asked(scope[p])
    IN  /\ At(p, "floor", "query")
        /\ got' = [got EXCEPT ![p].libs = IF allowed = {} THEN Libraries ELSE allowed]
        /\ UNCHANGED <<world_, caches, scope, stamp, start>>

\* Store.CatalogStats asks allowedLibraryIDs first; denied, it returns counts
\* of nothing, which publicCatalogStats does not take for an answer.
ReadFloor(p) ==
    LET allowed == floor \cap Asked(scope[p])
    IN  /\ At(p, "floor", IF allowed = {} THEN "host" ELSE "query")
        /\ got' = [got EXCEPT ![p].libs = allowed]
        /\ UNCHANGED <<world_, caches, scope, stamp, start>>

\* Its queries return.  The version is that of the first; the quality query
\* returns its three buckets whatever they count, so this is an answer.
QueryStore(p) ==
    /\ At(p, "query", "sources")
    /\ got' = [got EXCEPT ![p].from = "store", ![p].version = world]
    /\ UNCHANGED <<world_, caches, scope, stamp, start>>

\* Mutant of StoreFails: the error is not looked at.
StoreErrorIgnored(p) ==
    /\ At(p, "query", "sources")
    /\ got' = [got EXCEPT ![p] = NoStats]
    /\ UNCHANGED <<world_, caches, scope, stamp, start>>

\* A query fails; the host is asked instead.
StoreFails(p) ==
    /\ At(p, "query", "host")
    /\ got' = [got EXCEPT ![p] = NoStats]
    /\ UNCHANGED <<world_, caches, scope, stamp, start>>

\* withSourceStats: the companions that answer are added, the others dropped.
WithSourceStats(stats, up) ==
    [stats EXCEPT !.added = [s \in Sources |-> stats.added[s] + (IF s \in up THEN 1 ELSE 0)]]

\* The companions are asked through the host if it is there, and the result is
\* memoised from the time it is complete.
StoreAnswers(p) ==
    /\ At(p, "sources", "answered")
    /\ \E up \in SUBSET Sources :
          /\ ~hosted => up = {}
          /\ got' = [got EXCEPT ![p] = WithSourceStats(got[p], up)]
    /\ storeCache' = [storeCache EXCEPT ![scope[p]] =
                         [known |-> TRUE, expires |-> now + TTL, stats |-> got'[p]]]
    /\ UNCHANGED <<world_, hostCache, scope, stamp, start>>

-----------------------------------------------------------------------------
(* hostStats and statsCache.get. *)

\* The clock is read before the mutex is taken.
HostStats(p) ==
    /\ At(p, "host", "lookup")
    /\ stamp' = [stamp EXCEPT ![p] = now]
    /\ got' = [got EXCEPT ![p] = NoStats]
    /\ UNCHANGED <<world_, caches, scope, start>>

Memoised(p) == hostCache[scope[p]]

\* Mutant of HostHit: the companions are added at every answer, to the payload
\* that the cache shares.
HostHitAdds(p) ==
    /\ At(p, "lookup", "answered")
    /\ Memoised(p).known /\ stamp[p] < Memoised(p).expires
    /\ got' = [got EXCEPT ![p] = WithSourceStats(Memoised(p).stats, Sources)]
    /\ hostCache' = [hostCache EXCEPT ![scope[p]].stats = got'[p]]
    /\ UNCHANGED <<world_, storeCache, scope, stamp, start>>

HostHit(p) ==
    /\ At(p, "lookup", "answered")
    /\ Memoised(p).known /\ stamp[p] < Memoised(p).expires
    /\ got' = [got EXCEPT ![p] = Memoised(p).stats]
    /\ UNCHANGED <<world_, caches, scope, stamp, start>>

HostMiss(p) ==
    /\ At(p, "lookup", IF hosted THEN "call" ELSE "answered")
    /\ Memoised(p).known => stamp[p] >= Memoised(p).expires
    /\ UNCHANGED <<world_, caches, scope, stamp, got, start>>

\* GetCatalogStats counts the libraries it is asked for, all if for none.
HostCounts(p) ==
    /\ At(p, "call", "hostsources")
    /\ got' = [got EXCEPT ![p] = [NoStats EXCEPT !.from = "host", !.version = world,
                                                 !.libs = Asked(scope[p])]]
    /\ UNCHANGED <<world_, caches, scope, stamp, start>>

\* It fails or panics; the page shows no counts.
HostFails(p) ==
    /\ At(p, "call", "answered")
    /\ UNCHANGED <<world_, caches, scope, stamp, got, start>>

\* The companions again; the entry's lifetime counts from the lookup.
HostAnswers(p) ==
    /\ At(p, "hostsources", "answered")
    /\ \E up \in SUBSET Sources :
          got' = [got EXCEPT ![p] = WithSourceStats(got[p], up)]
    /\ hostCache' = [hostCache EXCEPT ![scope[p]] =
                        [known |-> TRUE, expires |-> stamp[p] + TTL, stats |-> got'[p]]]
    /\ UNCHANGED <<world_, storeCache, scope, stamp, start>>

Reply(p) ==
    /\ At(p, "answered", "idle")
    /\ scope' = [scope EXCEPT ![p] = AnyScope]
    /\ got' = [got EXCEPT ![p] = NoStats]
    /\ stamp' = [stamp EXCEPT ![p] = 0]
    /\ start' = [start EXCEPT ![p] = 0]
    /\ UNCHANGED <<world_, caches>>

-----------------------------------------------------------------------------
(* What else happens. *)

\* The host's runtime client connects, some time after the plugin starts.
HostConnects ==
    /\ ~hosted
    /\ hosted' = TRUE
    /\ UNCHANGED <<now, floor, world, since, replaced, caches, pc, scope, stamp, got, start>>

\* The host imports or removes items.
Import ==
    /\ world < MaxImports
    /\ world' = world + 1
    /\ replaced' = [replaced EXCEPT ![world] = now]
    /\ UNCHANGED <<now, floor, hosted, since, caches, pc, scope, stamp, got, start>>

\* SetPublicLibraryIDs, called by a configuration read (ConfigStore).
SetPublicLibraryIDs ==
    /\ floor' \in SUBSET Libraries
    /\ since' = [l \in Libraries |-> IF (l \in floor) = (l \in floor') THEN since[l] ELSE now]
    /\ UNCHANGED <<now, hosted, world, replaced, caches, pc, scope, stamp, got, start>>

\* Time passes; no request takes longer than MaxLoad.
Tick ==
    /\ now < MaxTime
    /\ \A p \in Procs : pc[p] # "idle" => now - start[p] < MaxLoad
    /\ now' = now + 1
    /\ UNCHANGED <<floor, hosted, world, since, replaced, caches, pc, scope, stamp, got, start>>

Next ==
    \/ \E p \in Procs :
          \/ Request(p) \/ StoreHit(p) \/ StoreMiss(p) \/ ReadFloor(p) \/ QueryStore(p)
          \/ StoreFails(p) \/ StoreAnswers(p)
          \/ HostStats(p) \/ HostHit(p) \/ HostMiss(p) \/ HostCounts(p) \/ HostFails(p)
          \/ HostAnswers(p) \/ Reply(p)
    \/ HostConnects \/ Import \/ SetPublicLibraryIDs \/ Tick

Spec == Init /\ [][Next]_vars

-----------------------------------------------------------------------------
(* Properties. *)

Answered(p) == pc[p] = "answered" /\ got[p].from # "none"

\* However the two caches hand payloads on, counts are out of date by no more
\* than the lifetime of an entry and the time of one request
\* (cache.go:37-72, host.go:36-69; docs/debugging.md:17-19).
CountsAreRecent ==
    \A p \in Procs : Answered(p) =>
        got[p].version = world \/ start[p] - replaced[got[p].version] <= TTL + MaxLoad

\* No companion is counted twice in an answer, although withSourceStats writes
\* to its argument and cached payloads are shared by pointer
\* (stats.go:74-85, host.go:58-67, 75-92).
CountedOnce ==
    \A p \in Procs : Answered(p) => \A s \in Sources : got[p].added[s] <= 1

\* Counts from the database follow an edit of the allowlist, both ways, within
\* the lifetime of an entry and the time of one request
\* (stats.go:69-83, catalog_stats.go:12-16).
DatabaseFollowsFloor ==
    \A p \in Procs : Answered(p) /\ got[p].from = "store" =>
        \A l \in Libraries : start[p] - since[l] > TTL + MaxLoad =>
            (l \in got[p].libs <=> l \in floor \cap Asked(scope[p]))

\* All counts do (store.go:55-60: "MUST floor their library scope through this
\* before calling out, so the allowlist is enforced on every path").
FloorOnEveryPath ==
    \A p \in Procs : Answered(p) =>
        \A l \in got[p].libs : l \in floor \/ start[p] - since[l] <= TTL + MaxLoad
=============================================================================
