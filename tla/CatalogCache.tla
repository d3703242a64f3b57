---------------------------- MODULE CatalogCache ----------------------------
(***************************************************************************)
(* The cached catalog reads: catalogCache (internal/server/cache.go), the  *)
(* handlers that read through it -- hCatalogMedia and hCatalogFilters      *)
(* (handlers_catalog.go) and hCatalogPage, which does both one after the   *)
(* other (handlers_landing.go) -- and the library floor the store applies  *)
(* to what they load (internal/store/store.go, allowedLibraryIDs).         *)
(*                                                                         *)
(* get and set of the cache, and the reading of the floor, each hold their *)
(* own lock and are a step; between them a request holds nothing.  A       *)
(* response is abstracted to the libraries its query was scoped to.        *)
(***************************************************************************)
EXTENDS Integers, FiniteSets

CONSTANTS
    Procs,        \* requests in flight
    Libraries,    \* host library ids
    Keys,         \* cache keys, that is query shapes
    Scope,        \* the libraries a query shape asks for; none means all
    MediaCap,     \* catalogMediaCacheCap (256)
    FiltersCap,   \* catalogFiltersCacheCap (128)
    TTL,          \* lifetime of an entry (server.go: 2 minutes)
    MaxLoad,      \* bound: longest time a request takes
    MaxTime       \* bound: the clock stops here

ASSUME CacheAssumption ==
    /\ IsFiniteSet(Keys) /\ Keys # {}
    /\ Scope \in [Keys -> SUBSET Libraries]
    /\ {MediaCap, FiltersCap, TTL, MaxLoad, MaxTime} \subseteq Nat

VARIABLES
    now,          \* the clock
    floor,        \* Store.publicLibraryIDs
    since,        \* per library: when it last entered or left the floor
    cache,        \* catalogCache.media and catalogCache.filters
    pc, job,      \* per request: where it is and what it reads
    start,        \* ... when it began to
    got           \* ... and the response it has

vars == <<now, floor, since, cache, pc, job, start, got>>

Kinds == {"media", "filters"}

Cap(kind) == IF kind = "media" THEN MediaCap ELSE FiltersCap

Entry == [known : BOOLEAN, expires : Nat, libs : SUBSET Libraries]

NoEntry == [known |-> FALSE, expires |-> 0, libs |-> {}]

PCs == {"idle", "lookup", "scope", "load", "answered"}

\* "page" marks the media half of hCatalogPage: the filters follow.
Job == {j \in [kind : Kinds, key : Keys, page : BOOLEAN] : j.page => j.kind = "media"}

TypeOK ==
    /\ now \in Nat
    /\ floor \in SUBSET Libraries
    /\ since \in [Libraries -> Nat]
    /\ cache \in [Kinds -> [Keys -> Entry]]
    /\ pc \in [Procs -> PCs]
    /\ job \in [Procs -> Job]
    /\ start \in [Procs -> Nat]
    /\ got \in [Procs -> SUBSET Libraries]

AnyJob == [kind |-> "media", key |-> CHOOSE k \in Keys : TRUE, page |-> FALSE]

\* The clock starts late enough that the first floor is an old one.
Init ==
    /\ now = TTL + MaxLoad + 1
    /\ floor \in SUBSET Libraries
    /\ since = [l \in Libraries |-> 0]
    /\ cache = [kind \in Kinds |-> [k \in Keys |-> NoEntry]]
    /\ pc = [p \in Procs |-> "idle"]
    /\ job = [p \in Procs |-> AnyJob]
    /\ start = [p \in Procs |-> 0]
    /\ got = [p \in Procs |-> {}]

-----------------------------------------------------------------------------
(* catalogCache. *)

Entries(m) == {k \in Keys : m[k].known}

\* Mutant of Expired: an entry is served once too often.
ExpiredLate(e) == e.known /\ now > e.expires + 1

Expired(e) == e.known /\ now > e.expires

DropExpired(m) == [k \in Keys |-> IF Expired(m[k]) THEN NoEntry ELSE m[k]]

\* Mutant of Evictions: any entries go.
EvictsAny(m, cap) ==
    LET known == Entries(m)
    IN  {gone \in SUBSET known : Cardinality(known \ gone) <= cap}

\* evictOldestOverCap: the entries that go, earliest expiry first; entries of
\* the same expiry go in any order.
Evictions(m, cap) ==
    LET known == Entries(m)
    IN  {gone \in SUBSET known :
            /\ IF Cardinality(known) > cap THEN Cardinality(known \ gone) = cap ELSE gone = {}
            /\ \A g \in gone, k \in known \ gone : m[g].expires <= m[k].expires}

Evict(m, gone) == [k \in Keys |-> IF k \in gone THEN NoEntry ELSE m[k]]

\* Mutant of Prune: only the filters are held to their cap.
PruneFilters(c) ==
    \E gone \in Evictions(DropExpired(c["filters"]), FiltersCap) :
       cache' = [kind \in Kinds |-> IF kind = "filters"
                                    THEN Evict(DropExpired(c["filters"]), gone)
                                    ELSE DropExpired(c["media"])]

\* pruneLocked: drop what has expired, then evict, in both maps.
Prune(c) ==
    \E goneM \in Evictions(DropExpired(c["media"]), MediaCap),
       goneF \in Evictions(DropExpired(c["filters"]), FiltersCap) :
       cache' = [kind \in Kinds |->
                    Evict(DropExpired(c[kind]), IF kind = "media" THEN goneM ELSE goneF)]

\* setMedia and setFilters.
SetEntry(kind, key, libs) ==
    LET e == [known |-> TRUE, expires |-> now + TTL, libs |-> libs]
        c == [cache EXCEPT ![kind] = [cache[kind] EXCEPT ![key] = e]]
    IN  IF Cardinality(Entries(c[kind])) > Cap(kind) THEN Prune(c) ELSE cache' = c

-----------------------------------------------------------------------------
(* The handlers. *)

At(p, here, next) == pc[p] = here /\ pc' = [pc EXCEPT ![p] = next]

\* A request arrives: hCatalogMedia, hCatalogFilters, or hCatalogPage, which
\* opens a single library.
Request(p) ==
    /\ At(p, "idle", "lookup")
    /\ \E kind \in Kinds, key \in Keys, page \in BOOLEAN :
          /\ page => kind = "media" /\ Cardinality(Scope[key]) = 1
          /\ job' = [job EXCEPT ![p] = [kind |-> kind, key |-> key, page |-> page]]
    /\ start' = [start EXCEPT ![p] = now]
    /\ UNCHANGED <<now, floor, since, cache, got>>

\* What the request's key has in the cache.
Cached(p) == cache[job[p].kind][job[p].key]

\* getMedia and getFilters: a hit is answered as it is ...
Hit(p) ==
    /\ At(p, "lookup", "answered")
    /\ Cached(p).known /\ ~Expired(Cached(p))
    /\ got' = [got EXCEPT ![p] = Cached(p).libs]
    /\ UNCHANGED <<now, floor, since, cache, job, start>>

\* ... and an expired entry is dropped.
Miss(p) ==
    /\ At(p, "lookup", "scope")
    /\ Cached(p).known => Expired(Cached(p))
    /\ cache' = [cache EXCEPT ![job[p].kind] = [cache[job[p].kind] EXCEPT ![job[p].key] = NoEntry]]
    /\ UNCHANGED <<now, floor, since, job, start, got>>

\* The libraries a query shape is about.
Asked(key) == IF Scope[key] = {} THEN Libraries ELSE Scope[key]

\* allowedLibraryIDs: the floor, within the scope if there is one; no library
\* when it denies all.
Allowed(key) == floor \cap Asked(key)

\* CatalogMedia and CatalogFilters read the floor; the query, scoped to got,
\* runs after that.
ReadFloor(p) ==
    /\ At(p, "scope", "load")
    /\ got' = [got EXCEPT ![p] = Allowed(job[p].key)]
    /\ UNCHANGED <<now, floor, since, cache, job, start>>

\* Mutant of Advance: the filters of a page are taken for its media.
AdvanceAgain(p, here) ==
    /\ At(p, here, IF job[p].page THEN "lookup" ELSE "idle")
    /\ job' = [job EXCEPT ![p] = IF job[p].page THEN [job[p] EXCEPT !.kind = "filters"] ELSE AnyJob]
    /\ start' = [start EXCEPT ![p] = IF job[p].page THEN now ELSE 0]
    /\ got' = [got EXCEPT ![p] = {}]
    /\ UNCHANGED <<now, floor, since, cache>>

\* The request moves on: hCatalogPage to its filters, the others are done.
Advance(p, here) ==
    /\ At(p, here, IF job[p].page THEN "lookup" ELSE "idle")
    /\ job' = [job EXCEPT ![p] = IF job[p].page
                                 THEN [kind |-> "filters", key |-> job[p].key, page |-> FALSE]
                                 ELSE AnyJob]
    /\ start' = [start EXCEPT ![p] = IF job[p].page THEN now ELSE 0]
    /\ got' = [got EXCEPT ![p] = {}]
    /\ UNCHANGED <<now, floor, since, cache>>

\* A failed query: an error reply, or a page without its items.  When the floor
\* left no library there is no query to fail.
QueryFails(p) == got[p] # {} /\ Advance(p, "load")

StoreResponse(p) ==
    /\ At(p, "load", "answered")
    /\ SetEntry(job[p].kind, job[p].key, got[p])
    /\ UNCHANGED <<now, floor, since, job, start, got>>

Reply(p) == Advance(p, "answered")

-----------------------------------------------------------------------------

\* SetPublicLibraryIDs, called by a configuration read (ConfigStore).
SetPublicLibraryIDs ==
    /\ floor' \in SUBSET Libraries
    /\ since' = [l \in Libraries |-> IF (l \in floor) = (l \in floor') THEN since[l] ELSE now]
    /\ UNCHANGED <<now, cache, pc, job, start, got>>

\* Time passes; no request takes longer than MaxLoad.
Tick ==
    /\ now < MaxTime
    /\ \A p \in Procs : pc[p] # "idle" => now - start[p] < MaxLoad
    /\ now' = now + 1
    /\ UNCHANGED <<floor, since, cache, pc, job, start, got>>

Next ==
    \/ \E p \in Procs :
          \/ Request(p) \/ Hit(p) \/ Miss(p) \/ ReadFloor(p)
          \/ QueryFails(p) \/ StoreResponse(p) \/ Reply(p)
    \/ SetPublicLibraryIDs
    \/ Tick

Spec == Init /\ [][Next]_vars

-----------------------------------------------------------------------------
(* Properties. *)

\* What a visitor can see of a request.
Visible ==
    INSTANCE LibraryView WITH
        Visitors <- Procs,
        About    <- [key \in Keys |-> Asked(key)],
        Delay    <- TTL + MaxLoad,
        stage    <- [p \in Procs |-> IF pc[p] = "idle" THEN "idle"
                                     ELSE IF pc[p] = "answered" THEN "shown" ELSE "asked"],
        topic    <- [p \in Procs |-> job[p].key],
        began    <- start,
        view     <- [p \in Procs |-> IF pc[p] = "answered" THEN got[p] ELSE {}]

\* The caches are invisible but for a delay: every behaviour of the handlers,
\* with their hits, misses, overlapping loads, stores and evictions, is one in
\* which a request is shown libraries it asked about, and each of them exactly
\* if it is allowed, save edits less than the lifetime of an entry and the time
\* of one load before the request (cache.go:104-182, store.go:85-113).
ViewIsFaithful == Visible!Spec

\* An allowlist edit reaches every response in bounded time, both ways: a
\* request that begins more than the lifetime of an entry and the time of one
\* load after a library it asks for was allowed or removed shows it exactly if
\* it is allowed, however loads, hits and evictions interleave with the edit
\* (cache.go:104-156, store.go:85-113).
EditsTakeEffect ==
    \A p \in Procs : pc[p] = "answered" =>
        \A l \in Asked(job[p].key) :
            start[p] - since[l] > TTL + MaxLoad => (l \in got[p] <=> l \in floor)

\* A response holds no library its own request did not ask for, whoever put
\* it into the cache (cache.go:216-234, store.go:73-82).
ScopeKept ==
    \A p \in Procs : pc[p] = "answered" => got[p] \subseteq Asked(job[p].key)

\* The maps never outgrow their caps (cache.go:158-166).
CapsHold == \A kind \in Kinds : Cardinality(Entries(cache[kind])) <= Cap(kind)

\* Storing a response costs the map no entry, the stored one included, that is
\* live and expires later than one it keeps (cache.go:193-214).
EvictsOldest ==
    [][\A kind \in Kinds : \A gone, kept \in Keys :
          LET old    == cache[kind][gone]
              new    == cache'[kind][kept]
              stored == \E p \in Procs : /\ pc[p] = "load" /\ pc'[p] = "answered"
                                         /\ job[p].kind = kind /\ job[p].key = gone
              due    == IF stored THEN now + TTL ELSE old.expires
          IN  (/\ new.known /\ ~cache'[kind][gone].known
               /\ stored \/ (old.known /\ now <= old.expires)) => due <= new.expires]_vars
=============================================================================
