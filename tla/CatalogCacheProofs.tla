------------------------- MODULE CatalogCacheProofs -------------------------
(***************************************************************************)
(* Proofs about CatalogCache, for any number of requests, libraries and    *)
(* query shapes and for every lifetime, load time and cap.                 *)
(*                                                                         *)
(* EditsTakeEffect is not inductive: a response comes from an entry or     *)
(* from a load.  Sound says of a set of libraries what was true of it when *)
(* the floor was read, no later than t: it is within the scope, and right  *)
(* about each library whose status has not changed since t.  The invariant *)
(* carries Sound from the load (t is its start) to the entry (t is bounded *)
(* by its expiry less TTL and MaxLoad) and to the response.                *)
(*                                                                         *)
(* ViewIsKept is the refinement: an arrival is the abstract Ask, an answer *)
(* the abstract Show, whose promise Sound is, and what happens in between  *)
(* and in the cache a stutter.                                             *)
(***************************************************************************)
EXTENDS CatalogCache, FiniteSetTheorems, TLAPS

Sound(libs, key, t) ==
    /\ libs \subseteq Asked(key)
    /\ \A l \in Asked(key) : t > since[l] => (l \in libs <=> l \in floor)

EntryInv ==
    \A kind \in Kinds, key \in Keys :
        LET e == cache[kind][key]
        IN  e.known => /\ e.expires <= now + TTL
                       /\ Sound(e.libs, key, e.expires - (TTL + MaxLoad))

\* The same of one request, which began at s on the query shape key.
RequestOK(here, key, s, libs) ==
    /\ here # "idle" => s <= now /\ now - s <= MaxLoad
    /\ here = "load" => Sound(libs, key, s)
    /\ here = "answered" => Sound(libs, key, s - (TTL + MaxLoad))

RequestInv == \A p \in Procs : RequestOK(pc[p], job[p].key, start[p], got[p])

SinceInv == \A l \in Libraries : since[l] <= now

Inv == TypeOK /\ SinceInv /\ EntryInv /\ RequestInv

-----------------------------------------------------------------------------

LEMMA AskedType == \A key \in Keys : Asked(key) \subseteq Libraries
  BY CacheAssumption DEF Asked

LEMMA AnyJobType == AnyJob \in Job
  BY CacheAssumption DEF AnyJob, Job, Kinds

\* What a step of request p that leaves the clock, the floor and the cache
\* alone has to show.
LEMMA RequestSteps ==
    ASSUME Inv, NEW p \in Procs, UNCHANGED <<now, floor, since>>,
           TypeOK', EntryInv',
           \A q \in Procs \ {p} : /\ pc'[q] = pc[q] /\ job'[q] = job[q]
                                  /\ start'[q] = start[q] /\ got'[q] = got[q],
           RequestOK(pc'[p], job'[p].key, start'[p], got'[p])
    PROVE  Inv'
<1>1. SinceInv'
  BY DEF Inv, SinceInv
<1>2. ASSUME NEW q \in Procs
      PROVE  RequestOK(pc[q], job[q].key, start[q], got[q])'
  <2>1. \A here, key, s, libs : RequestOK(here, key, s, libs) =>
            /\ here # "idle" => s <= now' /\ now' - s <= MaxLoad
            /\ here = "load" => /\ libs \subseteq Asked(key)
                                /\ \A l \in Asked(key) : s > since'[l] => (l \in libs <=> l \in floor')
            /\ here = "answered" => /\ libs \subseteq Asked(key)
                                    /\ \A l \in Asked(key) : s - (TTL + MaxLoad) > since'[l] => (l \in libs <=> l \in floor')
    BY DEF RequestOK, Sound
  <2>2. RequestOK(pc'[q], job'[q].key, start'[q], got'[q])
    BY DEF Inv, RequestInv
  <2> QED
    BY <2>1, <2>2 DEF RequestOK, Sound, Asked
<1> QED
  BY <1>1, <1>2 DEF Inv, RequestInv

LEMMA EntriesStay ==
    ASSUME Inv, UNCHANGED <<now, floor, since>>,
           \A kind \in Kinds, key \in Keys :
               cache'[kind][key] = cache[kind][key] \/ cache'[kind][key] = NoEntry
    PROVE  EntryInv'
  BY DEF Inv, EntryInv, Sound, Asked, NoEntry

-----------------------------------------------------------------------------
(* One lemma for each step of a request. *)

LEMMA RequestPreserves ==
    ASSUME Inv, NEW p \in Procs, Request(p)
    PROVE  Inv'
<1>1. PICK kind \in Kinds, key \in Keys, page \in BOOLEAN :
          /\ page => kind = "media"
          /\ job' = [job EXCEPT ![p] = [kind |-> kind, key |-> key, page |-> page]]
  BY DEF Request
<1>2. job' \in [Procs -> Job]
  BY <1>1 DEF Inv, TypeOK, Job
<1>3. TypeOK'
  BY <1>2 DEF Inv, TypeOK, Request, At, PCs
<1>4. EntryInv'
  BY EntriesStay DEF Request
<1>5. pc'[p] = "lookup" /\ start'[p] = now
  BY DEF Inv, TypeOK, Request, At
<1>6. now - now <= MaxLoad
  BY CacheAssumption DEF Inv, TypeOK
<1>7. RequestOK(pc'[p], job'[p].key, start'[p], got'[p])
  BY <1>5, <1>6 DEF RequestOK, Inv, TypeOK
<1>8. \A q \in Procs \ {p} : /\ pc'[q] = pc[q] /\ job'[q] = job[q]
                             /\ start'[q] = start[q] /\ got'[q] = got[q]
  BY <1>1 DEF Inv, TypeOK, Request, At
<1> QED
  BY <1>3, <1>4, <1>7, <1>8, RequestSteps DEF Request

LEMMA HitPreserves ==
    ASSUME Inv, NEW p \in Procs, Hit(p)
    PROVE  Inv'
<1> DEFINE e == Cached(p)
           key == job[p].key
<1>1. job[p].kind \in Kinds /\ key \in Keys
  BY DEF Inv, TypeOK, Job
<1>2. e \in Entry
  BY <1>1 DEF Inv, TypeOK, Cached
<1>3. e.expires \in Nat /\ e.libs \in SUBSET Libraries
  BY <1>2 DEF Entry
<1>4. TypeOK'
  BY <1>3 DEF Inv, TypeOK, Hit, At, PCs
<1>5. EntryInv'
  BY EntriesStay DEF Hit
<1>6. Sound(e.libs, key, e.expires - (TTL + MaxLoad))
  BY <1>1 DEF Inv, EntryInv, Hit, Cached
<1>7. /\ start[p] \in Nat /\ now \in Nat /\ start[p] <= now /\ now - start[p] <= MaxLoad
      /\ TTL \in Nat /\ MaxLoad \in Nat /\ since \in [Libraries -> Nat]
  BY CacheAssumption DEF Inv, TypeOK, RequestInv, RequestOK, Hit, At
<1>8. start[p] - (TTL + MaxLoad) <= e.expires - (TTL + MaxLoad)
  BY <1>3, <1>7 DEF Hit, Expired
<1>9. Sound(e.libs, key, start[p] - (TTL + MaxLoad))
  BY <1>1, <1>3, <1>6, <1>7, <1>8, AskedType DEF Sound
<1>10. pc'[p] = "answered" /\ job' = job /\ start' = start /\ got'[p] = e.libs
  BY DEF Inv, TypeOK, Hit, At
<1>11. RequestOK(pc'[p], job'[p].key, start'[p], got'[p])
  BY <1>7, <1>9, <1>10 DEF RequestOK
<1>12. \A q \in Procs \ {p} : pc'[q] = pc[q] /\ got'[q] = got[q]
  BY DEF Inv, TypeOK, Hit, At
<1> QED
  BY <1>4, <1>5, <1>10, <1>11, <1>12, RequestSteps DEF Hit

LEMMA MissPreserves ==
    ASSUME Inv, NEW p \in Procs, Miss(p)
    PROVE  Inv'
<1>1. job[p].kind \in Kinds /\ job[p].key \in Keys
  BY DEF Inv, TypeOK, Job
<1>2. NoEntry \in Entry
  BY DEF NoEntry, Entry
<1>3. cache' \in [Kinds -> [Keys -> Entry]]
  BY <1>1, <1>2 DEF Inv, TypeOK, Miss
<1>4. TypeOK'
  BY <1>3 DEF Inv, TypeOK, Miss, At, PCs
<1>5. \A kind \in Kinds, key \in Keys :
          cache'[kind][key] = cache[kind][key] \/ cache'[kind][key] = NoEntry
  BY <1>1 DEF Inv, TypeOK, Miss
<1>6. EntryInv'
  BY <1>5, EntriesStay DEF Miss
<1>7. pc'[p] = "scope" /\ pc[p] # "idle"
  BY DEF Inv, TypeOK, Miss, At
<1>8. RequestOK(pc'[p], job'[p].key, start'[p], got'[p])
  BY <1>7 DEF Inv, RequestInv, RequestOK, Miss
<1>9. \A q \in Procs \ {p} : pc'[q] = pc[q]
  BY DEF Inv, TypeOK, Miss, At
<1> QED
  BY <1>4, <1>6, <1>8, <1>9, RequestSteps DEF Miss

LEMMA ReadFloorPreserves ==
    ASSUME Inv, NEW p \in Procs, ReadFloor(p)
    PROVE  Inv'
<1> DEFINE key == job[p].key
<1>1. key \in Keys
  BY DEF Inv, TypeOK, Job
<1>2. TypeOK'
  BY DEF Inv, TypeOK, ReadFloor, At, PCs, Allowed
<1>3. EntryInv'
  BY EntriesStay DEF ReadFloor
<1>4. pc'[p] = "load" /\ pc[p] # "idle" /\ got'[p] = floor \cap Asked(key)
  BY DEF Inv, TypeOK, ReadFloor, At, Allowed
<1>5. Sound(floor \cap Asked(key), key, start[p])
  BY DEF Sound
<1>6. RequestOK(pc'[p], job'[p].key, start'[p], got'[p])
  BY <1>4, <1>5 DEF Inv, RequestInv, RequestOK, ReadFloor
<1>7. \A q \in Procs \ {p} : pc'[q] = pc[q] /\ got'[q] = got[q]
  BY DEF Inv, TypeOK, ReadFloor, At
<1> QED
  BY <1>2, <1>3, <1>6, <1>7, RequestSteps DEF ReadFloor

LEMMA AdvancePreserves ==
    ASSUME Inv, NEW p \in Procs, NEW here, Advance(p, here)
    PROVE  Inv'
<1> DEFINE next == IF job[p].page
                   THEN [kind |-> "filters", key |-> job[p].key, page |-> FALSE]
                   ELSE AnyJob
           begun == IF job[p].page THEN now ELSE 0
<1>1. next \in Job
  BY AnyJobType DEF Inv, TypeOK, Job, Kinds
<1>2. job' \in [Procs -> Job]
  BY <1>1 DEF Inv, TypeOK, Advance
<1>3. TypeOK'
  BY <1>2 DEF Inv, TypeOK, Advance, At, PCs
<1>4. EntryInv'
  BY EntriesStay DEF Advance
<1>5. pc'[p] \in {"lookup", "idle"} /\ (pc'[p] = "lookup" => start'[p] = now)
  BY DEF Inv, TypeOK, Advance, At
<1>6. now - now <= MaxLoad /\ now <= now
  BY CacheAssumption DEF Inv, TypeOK
<1>7. RequestOK(pc'[p], job'[p].key, start'[p], got'[p])
  BY <1>5, <1>6 DEF RequestOK
<1>8. \A q \in Procs \ {p} : /\ pc'[q] = pc[q] /\ job'[q] = job[q]
                             /\ start'[q] = start[q] /\ got'[q] = got[q]
  BY DEF Inv, TypeOK, Advance, At
<1> QED
  BY <1>3, <1>4, <1>7, <1>8, RequestSteps DEF Advance

\* What pruneLocked leaves in the maps: entries they had, as many as the cap.
LEMMA PruneKeeps ==
    ASSUME NEW c \in [Kinds -> [Keys -> Entry]], Prune(c)
    PROVE  /\ cache' \in [Kinds -> [Keys -> Entry]]
           /\ \A kind \in Kinds, key \in Keys :
                 cache'[kind][key] = c[kind][key] \/ cache'[kind][key] = NoEntry
           /\ \A kind \in Kinds : Cardinality(Entries(cache'[kind])) <= Cap(kind)
<1>1. PICK goneM \in Evictions(DropExpired(c["media"]), MediaCap),
           goneF \in Evictions(DropExpired(c["filters"]), FiltersCap) :
           cache' = [kind \in Kinds |->
                        Evict(DropExpired(c[kind]), IF kind = "media" THEN goneM ELSE goneF)]
  BY DEF Prune
<1>2. NoEntry \in Entry
  BY DEF NoEntry, Entry
<1>3. ASSUME NEW kind \in Kinds, NEW gone
      PROVE  LET m == Evict(DropExpired(c[kind]), gone)
             IN  /\ m \in [Keys -> Entry]
                 /\ \A key \in Keys : m[key] = c[kind][key] \/ m[key] = NoEntry
  <2>1. c[kind] \in [Keys -> Entry]
    OBVIOUS
  <2>2. DropExpired(c[kind]) \in [Keys -> Entry]
    BY <1>2, <2>1 DEF DropExpired
  <2> QED
    BY <1>2, <2>1, <2>2 DEF Evict, DropExpired
<1>4. ASSUME NEW m \in [Keys -> Entry], NEW cap \in Nat, NEW gone \in Evictions(m, cap)
      PROVE  Cardinality(Entries(Evict(m, gone))) <= cap
  <2>1. Entries(Evict(m, gone)) = Entries(m) \ gone
    BY DEF Entries, Evict, NoEntry, Entry
  <2>2. IsFiniteSet(Entries(m))
    BY CacheAssumption, FS_Subset DEF Entries
  <2>3. Cardinality(Entries(m)) \in Nat
    BY <2>2, FS_CardinalityType
  <2>4. CASE Cardinality(Entries(m)) > cap
    <3>1. Cardinality(Entries(m) \ gone) = cap
      BY <2>4 DEF Evictions
    <3> QED
      BY <2>1, <3>1
  <2>5. CASE ~(Cardinality(Entries(m)) > cap)
    <3>1. gone = {}
      BY <2>5 DEF Evictions
    <3>2. Entries(m) \ gone = Entries(m)
      BY <3>1
    <3>3. Entries(Evict(m, gone)) = Entries(m)
      BY <2>1, <3>2
    <3> QED
      BY <2>3, <2>5, <3>3
  <2> QED
    BY <2>4, <2>5
<1>5. MediaCap \in Nat /\ FiltersCap \in Nat
  BY CacheAssumption
<1>6. ASSUME NEW kind \in Kinds
      PROVE  Cardinality(Entries(cache'[kind])) <= Cap(kind)
  <2>1. DropExpired(c[kind]) \in [Keys -> Entry]
    BY <1>2 DEF DropExpired
  <2>2. CASE kind = "media"
    <3>1. cache'[kind] = Evict(DropExpired(c[kind]), goneM) /\ Cap(kind) = MediaCap
      BY <1>1, <2>2 DEF Cap
    <3> QED
      BY <1>4, <1>5, <2>1, <2>2, <3>1
  <2>3. CASE kind = "filters"
    <3>1. cache'[kind] = Evict(DropExpired(c[kind]), goneF) /\ Cap(kind) = FiltersCap
      BY <1>1, <2>3 DEF Cap
    <3> QED
      BY <1>4, <1>5, <2>1, <2>3, <3>1
  <2> QED
    BY <2>2, <2>3 DEF Kinds
<1>7. cache' \in [Kinds -> [Keys -> Entry]]
  BY <1>1, <1>3
<1>8. \A kind \in Kinds, key \in Keys :
          cache'[kind][key] = c[kind][key] \/ cache'[kind][key] = NoEntry
  BY <1>1, <1>3
<1> QED
  BY <1>6, <1>7, <1>8

LEMMA StoreResponsePreserves ==
    ASSUME Inv, NEW p \in Procs, StoreResponse(p)
    PROVE  Inv'
<1> DEFINE kp == job[p].kind
           yp == job[p].key
           e == [known |-> TRUE, expires |-> now + TTL, libs |-> got[p]]
           c == [cache EXCEPT ![kp] = [cache[kp] EXCEPT ![yp] = e]]
<1>1. kp \in Kinds /\ yp \in Keys
  BY DEF Inv, TypeOK, Job
<1>2. now \in Nat /\ TTL \in Nat /\ MaxLoad \in Nat /\ start[p] \in Nat /\ got[p] \in SUBSET Libraries
  BY CacheAssumption DEF Inv, TypeOK
<1>3. e \in Entry
  BY <1>2 DEF Entry
<1>4. c \in [Kinds -> [Keys -> Entry]]
  BY <1>1, <1>3 DEF Inv, TypeOK
<1>5. Prune(c) \/ cache' = c
  BY DEF StoreResponse, SetEntry
<1>6. /\ cache' \in [Kinds -> [Keys -> Entry]]
      /\ \A kind \in Kinds, key \in Keys :
            cache'[kind][key] = c[kind][key] \/ cache'[kind][key] = NoEntry
  BY <1>4, <1>5, PruneKeeps
<1>7. TypeOK'
  BY <1>6 DEF Inv, TypeOK, StoreResponse, At, PCs
<1>8. pc[p] = "load" /\ pc'[p] = "answered" /\ job' = job /\ start' = start /\ got' = got
  BY DEF Inv, TypeOK, StoreResponse, At
<1>9. /\ start[p] <= now /\ now - start[p] <= MaxLoad
      /\ Sound(got[p], yp, start[p])
  BY <1>8 DEF Inv, RequestInv, RequestOK
<1>10. /\ (now + TTL) - (TTL + MaxLoad) <= start[p]
       /\ start[p] - (TTL + MaxLoad) <= start[p]
  BY <1>2, <1>9
<1>11. ASSUME NEW t \in Int, t <= start[p]
       PROVE  Sound(got[p], yp, t)
  BY <1>1, <1>2, <1>9, <1>11, AskedType DEF Inv, TypeOK, Sound
<1>12. /\ Sound(got[p], yp, (now + TTL) - (TTL + MaxLoad))
       /\ Sound(got[p], yp, start[p] - (TTL + MaxLoad))
  BY <1>2, <1>10, <1>11
<1>13. ASSUME NEW kind \in Kinds, NEW key \in Keys, cache'[kind][key].known
       PROVE  /\ cache'[kind][key].expires <= now + TTL
              /\ Sound(cache'[kind][key].libs, key, cache'[kind][key].expires - (TTL + MaxLoad))
  <2>1. cache'[kind][key] = c[kind][key]
    <3>1. NoEntry.known = FALSE
      BY DEF NoEntry
    <3>2. cache'[kind][key] = c[kind][key] \/ cache'[kind][key] = NoEntry
      BY <1>6
    <3> HIDE DEF c
    <3> QED
      BY <1>13, <3>1, <3>2
  <2>2. CASE kind = kp /\ key = yp
    <3>1. c[kind][key] = e
      BY <1>1, <2>2 DEF Inv, TypeOK
    <3> QED
      BY <1>2, <1>12, <2>1, <2>2, <3>1
  <2>3. CASE ~(kind = kp /\ key = yp)
    <3>1. c[kind][key] = cache[kind][key]
      BY <1>1, <2>3 DEF Inv, TypeOK
    <3> QED
      BY <1>13, <2>1, <3>1 DEF Inv, EntryInv
  <2> QED
    BY <2>2, <2>3
<1>14. EntryInv'
  BY <1>13 DEF EntryInv, Sound, Asked, StoreResponse
<1>15. RequestOK(pc'[p], job'[p].key, start'[p], got'[p])
  BY <1>8, <1>9, <1>12 DEF RequestOK
<1>16. \A q \in Procs \ {p} : pc'[q] = pc[q]
  BY DEF Inv, TypeOK, StoreResponse, At
<1> QED
  BY <1>7, <1>8, <1>14, <1>15, <1>16, RequestSteps DEF StoreResponse

-----------------------------------------------------------------------------
(* Steps outside the requests. *)

\* A library that changes its status does so now, and no t lies after now.
LEMMA FloorEditKeepsSound ==
    ASSUME Inv, SetPublicLibraryIDs, NEW libs, NEW key \in Keys, NEW t \in Int, t <= now,
           Sound(libs, key, t)
    PROVE  Sound(libs, key, t)'
<1>1. ASSUME NEW l \in Asked(key), t > since'[l]
      PROVE  l \in libs <=> l \in floor'
  <2>1. l \in Libraries
    BY AskedType
  <2>2. since'[l] = IF (l \in floor) = (l \in floor') THEN since[l] ELSE now
    BY <2>1 DEF SetPublicLibraryIDs
  <2>3. (l \in floor) = (l \in floor') /\ since'[l] = since[l]
    BY <1>1, <2>2 DEF Inv, TypeOK
  <2> QED
    BY <1>1, <2>3 DEF Sound
<1> QED
  BY <1>1 DEF Sound, Asked

LEMMA SetPublicLibraryIDsPreserves ==
    ASSUME Inv, SetPublicLibraryIDs
    PROVE  Inv'
<1>1. now \in Nat /\ TTL \in Nat /\ MaxLoad \in Nat
  BY CacheAssumption DEF Inv, TypeOK
<1>2. TypeOK'
  BY <1>1 DEF Inv, TypeOK, SetPublicLibraryIDs
<1>3. SinceInv'
  BY <1>1 DEF Inv, TypeOK, SinceInv, SetPublicLibraryIDs
<1>4. EntryInv'
  <2>1. ASSUME NEW kind \in Kinds, NEW key \in Keys, cache[kind][key].known
        PROVE  /\ cache[kind][key].expires <= now + TTL
               /\ Sound(cache[kind][key].libs, key, cache[kind][key].expires - (TTL + MaxLoad))'
    <3> DEFINE e == cache[kind][key]
    <3>1. e.expires \in Nat /\ e.libs \in SUBSET Libraries /\ cache' = cache
      BY DEF Inv, TypeOK, Entry, SetPublicLibraryIDs
    <3>2. e.expires <= now + TTL /\ Sound(e.libs, key, e.expires - (TTL + MaxLoad))
      BY <2>1 DEF Inv, EntryInv
    <3>3. e.expires - (TTL + MaxLoad) <= now /\ e.expires - (TTL + MaxLoad) \in Int
      BY <1>1, <3>1, <3>2
    <3>4. PICK libs \in SUBSET Libraries, t \in Int : libs = e.libs /\ t = e.expires - (TTL + MaxLoad)
      BY <3>1, <3>3
    <3>5. Sound(libs, key, t)'
      BY <3>2, <3>3, <3>4, FloorEditKeepsSound
    <3> QED
      BY <3>1, <3>2, <3>4, <3>5 DEF Sound, Asked
  <2> QED
    BY <2>1 DEF EntryInv, SetPublicLibraryIDs, Sound, Asked
<1>5. RequestInv'
  <2>1. ASSUME NEW p \in Procs
        PROVE  RequestOK(pc[p], job[p].key, start[p], got[p])'
    <3>1. job[p].key \in Keys /\ start[p] \in Nat /\ got[p] \in SUBSET Libraries
      BY DEF Inv, TypeOK, Job
    <3>2. RequestOK(pc[p], job[p].key, start[p], got[p])
      BY DEF Inv, RequestInv
    <3>3. UNCHANGED <<now, pc, job, start, got>>
      BY DEF SetPublicLibraryIDs
    <3>4. PICK libs \in SUBSET Libraries, key \in Keys, s \in Int, t \in Int :
              libs = got[p] /\ key = job[p].key /\ s = start[p] /\ t = start[p] - (TTL + MaxLoad)
      BY <1>1, <3>1
    <3>5. pc[p] = "load" => Sound(libs, key, s)'
      BY <3>2, <3>4, FloorEditKeepsSound DEF RequestOK
    <3>6. pc[p] = "answered" => Sound(libs, key, t)'
      <4>1. pc[p] = "answered" => t <= now
        BY <1>1, <3>1, <3>2, <3>4 DEF RequestOK
      <4> QED
        BY <3>2, <3>4, <4>1, FloorEditKeepsSound DEF RequestOK
    <3> QED
      BY <3>2, <3>3, <3>4, <3>5, <3>6 DEF RequestOK, Sound, Asked
  <2> QED
    BY <2>1 DEF RequestInv
<1> QED
  BY <1>2, <1>3, <1>4, <1>5 DEF Inv

LEMMA TickPreserves ==
    ASSUME Inv, Tick
    PROVE  Inv'
<1>1. now \in Nat /\ TTL \in Nat /\ MaxLoad \in Nat /\ now' = now + 1
  BY CacheAssumption DEF Inv, TypeOK, Tick
<1>2. TypeOK'
  BY <1>1 DEF Inv, TypeOK, Tick
<1>3. SinceInv'
  BY <1>1 DEF Inv, TypeOK, SinceInv, Tick
<1>4. EntryInv'
  <2>1. \A kind \in Kinds, key \in Keys : cache[kind][key].expires \in Nat
    BY DEF Inv, TypeOK, Entry
  <2> QED
    BY <1>1, <2>1 DEF Inv, EntryInv, Tick, Sound, Asked
<1>5. RequestInv'
  <2>1. ASSUME NEW p \in Procs
        PROVE  RequestOK(pc[p], job[p].key, start[p], got[p])'
    <3>1. start[p] \in Nat
      BY DEF Inv, TypeOK
    <3>2. RequestOK(pc[p], job[p].key, start[p], got[p])
      BY DEF Inv, RequestInv
    <3>3. pc[p] # "idle" => start[p] <= now' /\ now' - start[p] <= MaxLoad
      BY <1>1, <3>1, <3>2 DEF Tick, RequestOK
    <3> QED
      BY <3>2, <3>3 DEF Tick, RequestOK, Sound, Asked
  <2> QED
    BY <2>1 DEF RequestInv
<1> QED
  BY <1>2, <1>3, <1>4, <1>5 DEF Inv

-----------------------------------------------------------------------------

\* The invariant holds in every reachable state (cache.go, store.go:85-113).
THEOREM Invariance == Spec => []Inv
<1>1. Init => Inv
  <2> SUFFICES ASSUME Init PROVE Inv
    OBVIOUS
  <2>1. now \in Nat /\ NoEntry \in Entry
    BY CacheAssumption DEF Init, NoEntry, Entry
  <2>2. TypeOK
    BY <2>1, AnyJobType DEF Init, TypeOK, PCs
  <2>3. SinceInv
    BY <2>1 DEF Init, SinceInv
  <2>4. EntryInv
    BY DEF Init, EntryInv, NoEntry
  <2>5. RequestInv
    BY DEF Init, RequestInv, RequestOK
  <2> QED
    BY <2>2, <2>3, <2>4, <2>5 DEF Inv
<1>2. Inv /\ [Next]_vars => Inv'
  <2> SUFFICES ASSUME Inv, [Next]_vars PROVE Inv'
    OBVIOUS
  <2>1. ASSUME NEW p \in Procs, Request(p) PROVE Inv'
    BY <2>1, RequestPreserves
  <2>2. ASSUME NEW p \in Procs, Hit(p) PROVE Inv'
    BY <2>2, HitPreserves
  <2>3. ASSUME NEW p \in Procs, Miss(p) PROVE Inv'
    BY <2>3, MissPreserves
  <2>4. ASSUME NEW p \in Procs, ReadFloor(p) PROVE Inv'
    BY <2>4, ReadFloorPreserves
  <2>5. ASSUME NEW p \in Procs, QueryFails(p) \/ Reply(p) PROVE Inv'
    BY <2>5, AdvancePreserves DEF QueryFails, Reply
  <2>6. ASSUME NEW p \in Procs, StoreResponse(p) PROVE Inv'
    BY <2>6, StoreResponsePreserves
  <2>7. CASE SetPublicLibraryIDs
    BY <2>7, SetPublicLibraryIDsPreserves
  <2>8. CASE Tick
    BY <2>8, TickPreserves
  <2>9. CASE UNCHANGED vars
    BY <2>9 DEF vars, Inv, TypeOK, SinceInv, EntryInv, RequestInv, RequestOK, Sound, Asked
  <2> QED
    BY <2>1, <2>2, <2>3, <2>4, <2>5, <2>6, <2>7, <2>8, <2>9 DEF Next
<1> QED
  BY <1>1, <1>2, PTL DEF Spec

\* Every variable keeps its type.
THEOREM Typing == Spec => []TypeOK
<1>1. Inv => TypeOK
  BY DEF Inv
<1> QED
  BY <1>1, Invariance, PTL

\* An allowlist edit reaches every response within TTL + MaxLoad, whatever the
\* interleaving of loads, hits and evictions (cache.go:104-156, store.go:85-113).
THEOREM EditsReachResponses == Spec => []EditsTakeEffect
<1>1. Inv => EditsTakeEffect
  <2> SUFFICES ASSUME Inv, NEW p \in Procs, pc[p] = "answered", NEW l \in Asked(job[p].key),
                      start[p] - since[l] > TTL + MaxLoad
               PROVE  l \in got[p] <=> l \in floor
    BY DEF EditsTakeEffect
  <2>1. job[p].key \in Keys /\ start[p] \in Nat
    BY DEF Inv, TypeOK, Job
  <2>2. since[l] \in Nat
    BY <2>1, AskedType DEF Inv, TypeOK
  <2>3. start[p] - (TTL + MaxLoad) > since[l]
    BY <2>1, <2>2, CacheAssumption
  <2> QED
    BY <2>3 DEF Inv, RequestInv, RequestOK, Sound
<1> QED
  BY <1>1, Invariance, PTL

\* No response holds a library its request did not ask for (cache.go:216-234).
THEOREM ScopeIsKept == Spec => []ScopeKept
<1>1. Inv => ScopeKept
  BY DEF Inv, RequestInv, RequestOK, Sound, ScopeKept
<1> QED
  BY <1>1, Invariance, PTL

\* The maps are held to their caps after every step (cache.go:158-182).
THEOREM CapsAreKept == Spec => []CapsHold
<1>1. Init => CapsHold
  <2> SUFFICES ASSUME Init, NEW kind \in Kinds
               PROVE  Cardinality(Entries(cache[kind])) <= Cap(kind)
    BY DEF CapsHold
  <2>1. Entries(cache[kind]) = {}
    BY DEF Init, Entries, NoEntry
  <2>2. Cardinality(Entries(cache[kind])) = 0
    BY <2>1, FS_EmptySet
  <2> QED
    BY <2>2, CacheAssumption DEF Cap
<1>2. Inv /\ CapsHold /\ [Next]_vars => CapsHold'
  <2> SUFFICES ASSUME Inv, CapsHold, [Next]_vars PROVE CapsHold'
    OBVIOUS
  <2>1. CASE UNCHANGED cache
    BY <2>1 DEF CapsHold, Entries
  <2>2. ASSUME NEW p \in Procs, Miss(p) PROVE CapsHold'
    <3> SUFFICES ASSUME NEW kind \in Kinds
                 PROVE  Cardinality(Entries(cache'[kind])) <= Cap(kind)
      BY DEF CapsHold, Entries
    <3>1. Entries(cache'[kind]) \subseteq Entries(cache[kind])
      <4>1. job[p].kind \in Kinds /\ job[p].key \in Keys
        BY DEF Inv, TypeOK, Job
      <4> QED
        BY <2>2, <4>1 DEF Inv, TypeOK, Miss, Entries, NoEntry
    <3>2. IsFiniteSet(Entries(cache[kind]))
      BY CacheAssumption, FS_Subset DEF Entries
    <3>3. /\ Cardinality(Entries(cache'[kind])) <= Cardinality(Entries(cache[kind]))
          /\ Cardinality(Entries(cache'[kind])) \in Nat /\ Cardinality(Entries(cache[kind])) \in Nat
      BY <3>1, <3>2, FS_Subset, FS_CardinalityType
    <3>4. Cardinality(Entries(cache[kind])) <= Cap(kind) /\ Cap(kind) \in Nat
      BY CacheAssumption DEF CapsHold, Cap
    <3> QED
      BY <3>3, <3>4
  <2>3. ASSUME NEW p \in Procs, StoreResponse(p) PROVE CapsHold'
    <3> DEFINE kp == job[p].kind
               e == [known |-> TRUE, expires |-> now + TTL, libs |-> got[p]]
               c == [cache EXCEPT ![kp] = [cache[kp] EXCEPT ![job[p].key] = e]]
    <3>1. kp \in Kinds /\ e \in Entry
      BY CacheAssumption DEF Inv, TypeOK, Job, Entry
    <3>2. c \in [Kinds -> [Keys -> Entry]]
      BY <3>1 DEF Inv, TypeOK
    <3>3. \/ Prune(c)
          \/ cache' = c /\ ~(Cardinality(Entries(c[kp])) > Cap(kp))
      BY <2>3 DEF StoreResponse, SetEntry
    <3>4. CASE Prune(c)
      BY <3>2, <3>4, PruneKeeps DEF CapsHold, Entries
    <3>5. CASE cache' = c /\ ~(Cardinality(Entries(c[kp])) > Cap(kp))
      <4> SUFFICES ASSUME NEW kind \in Kinds
                   PROVE  Cardinality(Entries(cache'[kind])) <= Cap(kind)
        BY DEF CapsHold, Entries
      <4>1. CASE kind = kp
        <5>1. Entries(c[kp]) \subseteq Keys
          BY DEF Entries
        <5>2. IsFiniteSet(Entries(c[kp]))
          BY CacheAssumption, FS_Subset, <5>1
        <5>3. Cardinality(Entries(c[kp])) \in Nat /\ Cap(kp) \in Nat
          BY <5>2, FS_CardinalityType, CacheAssumption DEF Cap
        <5>4. Cardinality(Entries(c[kp])) <= Cap(kp)
          BY <3>5, <5>3
        <5> QED
          BY <3>5, <4>1, <5>4
      <4>2. CASE kind # kp
        <5>1. cache'[kind] = cache[kind]
          BY <3>5, <4>2 DEF Inv, TypeOK
        <5> QED
          BY <5>1 DEF CapsHold
      <4> QED
        BY <4>1, <4>2
    <3> QED
      BY <3>3, <3>4, <3>5
  <2> QED
    BY <2>1, <2>2, <2>3 DEF Next, vars, Request, Hit, ReadFloor, QueryFails, Reply,
                            Advance, SetPublicLibraryIDs, Tick
<1> QED
  BY <1>1, <1>2, Invariance, PTL DEF Spec

\* pruneLocked spares no entry that expires earlier than a live one it drops.
LEMMA PruneEvictsOldest ==
    ASSUME NEW c \in [Kinds -> [Keys -> Entry]], Prune(c),
           NEW kind \in Kinds, NEW gone \in Keys, NEW kept \in Keys,
           c[kind][gone].known, ~Expired(c[kind][gone]), ~cache'[kind][gone].known,
           cache'[kind][kept].known
    PROVE  /\ cache'[kind][kept] = c[kind][kept]
           /\ c[kind][gone].expires <= c[kind][kept].expires
<1> DEFINE m == DropExpired(c[kind])
<1>1. PICK out : /\ \E cap : out \in Evictions(m, cap)
                 /\ cache'[kind] = Evict(m, out)
  <2>1. PICK goneM \in Evictions(DropExpired(c["media"]), MediaCap),
             goneF \in Evictions(DropExpired(c["filters"]), FiltersCap) :
             cache' = [k \in Kinds |->
                          Evict(DropExpired(c[k]), IF k = "media" THEN goneM ELSE goneF)]
    BY DEF Prune
  <2>2. cache'[kind] = Evict(m, IF kind = "media" THEN goneM ELSE goneF)
    BY <2>1
  <2> QED
    BY <2>1, <2>2 DEF Kinds
<1>2. NoEntry.known = FALSE
  BY DEF NoEntry
<1>3. \A key \in Keys : m[key] = IF Expired(c[kind][key]) THEN NoEntry ELSE c[kind][key]
  BY DEF DropExpired
<1>4. \A key \in Keys : cache'[kind][key] = IF key \in out THEN NoEntry ELSE m[key]
  BY <1>1 DEF Evict
<1> HIDE DEF m
<1>5. m[gone] = c[kind][gone] /\ gone \in out
  BY <1>2, <1>3, <1>4
<1>6. kept \notin out /\ m[kept] = c[kind][kept] /\ m[kept].known
  BY <1>2, <1>3, <1>4
<1>7. kept \in Entries(m)
  BY <1>6 DEF Entries
<1>8. m[gone].expires <= m[kept].expires
  BY <1>1, <1>5, <1>6, <1>7 DEF Evictions
<1> QED
  BY <1>4, <1>5, <1>6, <1>8

\* A live entry is lost, or a response not kept, only for entries that expire
\* no earlier (cache.go:193-214).
THEOREM OldestIsEvicted == Spec => EvictsOldest
<1> DEFINE Stored(kind, key) == \E p \in Procs : /\ pc[p] = "load" /\ pc'[p] = "answered"
                                                 /\ job[p].kind = kind /\ job[p].key = key
           Due(kind, key) == IF Stored(kind, key) THEN now + TTL ELSE cache[kind][key].expires
           Keeps == \A kind \in Kinds : \A gone, kept \in Keys :
                       LET old    == cache[kind][gone]
                           new    == cache'[kind][kept]
                           stored == \E p \in Procs : /\ pc[p] = "load" /\ pc'[p] = "answered"
                                                      /\ job[p].kind = kind /\ job[p].key = gone
                           due    == IF stored THEN now + TTL ELSE old.expires
                       IN  (/\ new.known /\ ~cache'[kind][gone].known
                            /\ stored \/ (old.known /\ now <= old.expires)) => due <= new.expires
<1>1. Inv /\ [Next]_vars => Keeps
  <2> SUFFICES ASSUME Inv, [Next]_vars, NEW kind \in Kinds, NEW gone \in Keys, NEW kept \in Keys,
                      Stored(kind, gone) \/ (cache[kind][gone].known /\ now <= cache[kind][gone].expires),
                      ~cache'[kind][gone].known, cache'[kind][kept].known
               PROVE  Due(kind, gone) <= cache'[kind][kept].expires
    OBVIOUS
  <2>1. cache[kind][gone] \in Entry /\ now \in Nat
    BY DEF Inv, TypeOK
  <2>2. ASSUME NEW p \in Procs, StoreResponse(p)
        PROVE  Due(kind, gone) <= cache'[kind][kept].expires
    <3> DEFINE kp == job[p].kind
               yp == job[p].key
               e == [known |-> TRUE, expires |-> now + TTL, libs |-> got[p]]
               c == [cache EXCEPT ![kp] = [cache[kp] EXCEPT ![yp] = e]]
    <3>1. kp \in Kinds /\ yp \in Keys /\ e \in Entry /\ TTL \in Nat
      BY CacheAssumption DEF Inv, TypeOK, Job, Entry
    <3>2. c \in [Kinds -> [Keys -> Entry]]
      BY <3>1 DEF Inv, TypeOK
    <3>3. c[kind][gone] = IF kind = kp /\ gone = yp THEN e ELSE cache[kind][gone]
      BY <3>1 DEF Inv, TypeOK
    <3>4. Prune(c) \/ cache' = c
      BY <2>2 DEF StoreResponse, SetEntry
    <3>5. Stored(kind, gone) <=> (kind = kp /\ gone = yp)
      BY <2>2 DEF Inv, TypeOK, StoreResponse, At
    <3>6. c[kind][gone].known /\ c[kind][gone].expires = Due(kind, gone)
      BY <3>3, <3>5
    <3>7. Prune(c)
      BY <3>4, <3>6
    <3>8. now \in Nat /\ ~(now > now + TTL)
      BY <2>1, <3>1
    <3>9. ~Expired(c[kind][gone])
      <4>1. CASE kind = kp /\ gone = yp
        BY <3>3, <3>8, <4>1 DEF Expired
      <4>2. CASE ~(kind = kp /\ gone = yp)
        BY <2>1, <3>3, <3>5, <4>2 DEF Expired, Entry
      <4> QED
        BY <4>1, <4>2
    <3> HIDE DEF c, Due
    <3>10. /\ cache'[kind][kept] = c[kind][kept]
           /\ c[kind][gone].expires <= c[kind][kept].expires
      BY <3>2, <3>6, <3>7, <3>9, PruneEvictsOldest
    <3> QED
      BY <3>6, <3>10
  <2>3. ASSUME NEW p \in Procs, Miss(p) PROVE FALSE
    <3>1. job[p].kind \in Kinds /\ job[p].key \in Keys
      BY DEF Inv, TypeOK, Job
    <3>2. ~Stored(kind, gone)
      BY <2>3 DEF Inv, TypeOK, Miss, At
    <3>3. cache[kind][gone].known /\ now <= cache[kind][gone].expires
      BY <3>2
    <3>4. kind = job[p].kind /\ gone = job[p].key
      BY <2>3, <3>1, <3>3 DEF Inv, TypeOK, Miss
    <3> QED
      BY <2>1, <2>3, <3>3, <3>4 DEF Miss, Cached, Expired, Entry
  <2>4. CASE UNCHANGED cache /\ ~\E p \in Procs : StoreResponse(p)
    <3>1. ~Stored(kind, gone)
      <4>1. ASSUME NEW p \in Procs, pc[p] = "load", pc'[p] = "answered" PROVE FALSE
        <5>1. ASSUME NEW q \in Procs, NEW here, NEW next, At(q, here, next),
                     here # "load" \/ next # "answered"
              PROVE  FALSE
          BY <4>1, <5>1 DEF Inv, TypeOK, At
        <5>2. ASSUME NEW q \in Procs, Request(q) \/ Hit(q) \/ Miss(q) \/ ReadFloor(q) PROVE FALSE
          BY <5>1, <5>2 DEF Request, Hit, Miss, ReadFloor
        <5>3. ASSUME NEW q \in Procs, QueryFails(q) \/ Reply(q) PROVE FALSE
          BY <5>1, <5>3 DEF QueryFails, Reply, Advance
        <5>4. SetPublicLibraryIDs \/ Tick \/ UNCHANGED vars => FALSE
          BY <4>1 DEF SetPublicLibraryIDs, Tick, vars
        <5> QED
          BY <2>4, <5>2, <5>3, <5>4 DEF Next
      <4> QED
        BY <4>1
    <3> QED
      BY <2>4, <3>1
  <2> QED
    BY <2>2, <2>3, <2>4 DEF Next, vars, Request, Hit, ReadFloor, QueryFails, Reply,
                            Advance, SetPublicLibraryIDs, Tick
<1>2. Inv /\ [Next]_vars => [Keeps]_vars
  BY <1>1
<1> QED
  BY <1>2, Invariance, PTL DEF Spec, EvictsOldest

-----------------------------------------------------------------------------
(* CatalogCache implements LibraryView. *)

Stage == [p \in Procs |-> IF pc[p] = "idle" THEN "idle"
                          ELSE IF pc[p] = "answered" THEN "shown" ELSE "asked"]

Topic == [p \in Procs |-> job[p].key]

Seen == [p \in Procs |-> IF pc[p] = "answered" THEN got[p] ELSE {}]

\* A step of request p that stays within a stage shows nothing.
LEMMA InnerStep ==
    ASSUME Inv, Inv', NEW p \in Procs, NEW here, NEW next, At(p, here, next),
           {here, next} \subseteq {"lookup", "scope", "load"},
           UNCHANGED <<now, floor, since, job, start>>,
           \A q \in Procs \ {p} : got'[q] = got[q]
    PROVE  UNCHANGED Visible!vars
<1>1. \A q \in Procs : pc'[q] = IF q = p THEN next ELSE pc[q]
  BY DEF Inv, TypeOK, At
<1>2. Stage' = Stage
  BY <1>1 DEF Stage, At
<1>3. Topic' = Topic
  BY DEF Topic
<1>4. Seen' = Seen
  BY <1>1 DEF Seen, At
<1> QED
  BY <1>2, <1>3, <1>4 DEF Visible!vars, Stage, Topic, Seen

\* A request that becomes answered is one that was asked and is shown.
LEMMA AnswerStep ==
    ASSUME Inv, Inv', NEW p \in Procs, NEW here, At(p, here, "answered"),
           here \in {"lookup", "load"},
           UNCHANGED <<now, floor, since, job, start>>,
           \A q \in Procs \ {p} : got'[q] = got[q]
    PROVE  Visible!Show(p)
<1>1. \A q \in Procs : pc'[q] = IF q = p THEN "answered" ELSE pc[q]
  BY DEF Inv, TypeOK, At
<1>2. Stage[p] = "asked" /\ Stage' = [Stage EXCEPT ![p] = "shown"]
  <2>1. pc[p] = here /\ here # "idle" /\ here # "answered"
    BY DEF At
  <2>2. Stage[p] = "asked"
    BY <2>1 DEF Stage
  <2>3. \A q \in Procs : Stage'[q] = IF q = p THEN "shown" ELSE Stage[q]
    BY <1>1 DEF Stage
  <2> QED
    BY <2>2, <2>3 DEF Stage
<1>3. Seen' = [Seen EXCEPT ![p] = got'[p]]
  BY <1>1 DEF Seen
<1>4. got'[p] \in SUBSET Libraries
  BY DEF Inv, TypeOK
<1>5. Visible!Faithful(got'[p], Topic[p], start[p])
  <2>1. job[p].key \in Keys /\ start[p] \in Nat
    BY DEF Inv, TypeOK, Job
  <2>2. \A l \in Asked(job[p].key) : since[l] \in Nat
    BY <2>1, AskedType DEF Inv, TypeOK
  <2>3. RequestOK(pc[p], job[p].key, start[p], got[p])'
    BY DEF Inv, RequestInv
  <2>4. /\ got'[p] \subseteq Asked(job[p].key)
        /\ \A l \in Asked(job[p].key) :
              start[p] - (TTL + MaxLoad) > since[l] => (l \in got'[p] <=> l \in floor)
    BY <1>1, <2>3 DEF RequestOK, Sound, Asked
  <2> QED
    BY <2>1, <2>2, <2>4, CacheAssumption DEF Visible!Faithful, Topic
<1>6. Topic' = Topic
  BY DEF Topic
<1> QED
  BY <1>2, <1>3, <1>4, <1>5, <1>6 DEF Visible!Show, Stage, Topic, Seen

\* A request moves on: a page to its filters, any other leaves.
LEMMA AdvanceStep ==
    ASSUME Inv, Inv', NEW p \in Procs, NEW here, Advance(p, here), here # "idle"
    PROVE  Visible!Ask(p) \/ Visible!Leave(p)
<1> DEFINE next == IF job[p].page THEN "lookup" ELSE "idle"
<1>1. \A q \in Procs : pc'[q] = IF q = p THEN next ELSE pc[q]
  BY DEF Inv, TypeOK, Advance, At
<1>2. \A q \in Procs \ {p} : job'[q] = job[q] /\ got'[q] = got[q]
  BY DEF Inv, TypeOK, Advance
<1>3. Stage[p] # "idle"
  BY DEF Advance, At, Stage
<1>4. Seen' = [Seen EXCEPT ![p] = {}]
  BY <1>1, <1>2 DEF Seen
<1>5. job'[p].key \in Keys /\ Topic' = [Topic EXCEPT ![p] = job'[p].key]
  BY <1>2 DEF Inv, TypeOK, Job, Topic
<1>6. UNCHANGED <<now, floor, since>> /\ start' = [start EXCEPT ![p] = IF job[p].page THEN now ELSE 0]
  BY DEF Advance
<1>7. CASE job[p].page
  <2>1. Stage' = [Stage EXCEPT ![p] = "asked"]
    BY <1>1, <1>7 DEF Stage
  <2> QED
    BY <1>4, <1>5, <1>6, <1>7, <2>1 DEF Visible!Ask, Stage, Topic, Seen
<1>8. CASE ~job[p].page
  <2>1. Stage' = [Stage EXCEPT ![p] = "idle"]
    BY <1>1, <1>8 DEF Stage
  <2> QED
    BY <1>3, <1>4, <1>5, <1>6, <1>8, <2>1 DEF Visible!Leave, Stage, Topic, Seen
<1> QED
  BY <1>7, <1>8

\* The handlers and their caches show what the specification without caches
\* allows (cache.go:104-182, store.go:85-113).
THEOREM ViewIsKept == Spec => ViewIsFaithful
<1>1. Init => Visible!Init
  <2> SUFFICES ASSUME Init PROVE Visible!Init
    OBVIOUS
  <2>1. now \in Nat
    BY CacheAssumption DEF Init
  <2>2. AnyJob.key \in Keys
    BY AnyJobType DEF Job
  <2> QED
    BY <2>1, <2>2 DEF Init, Visible!Init
<1>2. Inv /\ Inv' /\ [Next]_vars => [Visible!Next]_(Visible!vars)
  <2> SUFFICES ASSUME Inv, Inv', [Next]_vars
               PROVE  Visible!Next \/ UNCHANGED Visible!vars
    OBVIOUS
  <2>1. ASSUME NEW p \in Procs, Request(p) PROVE Visible!Ask(p)
    <3>1. \A q \in Procs : pc'[q] = IF q = p THEN "lookup" ELSE pc[q]
      BY <2>1 DEF Inv, TypeOK, Request, At
    <3>2. \A q \in Procs \ {p} : job'[q] = job[q]
      BY <2>1 DEF Inv, TypeOK, Request
    <3>3. Stage' = [Stage EXCEPT ![p] = "asked"]
      BY <3>1 DEF Stage
    <3>4. job'[p].key \in Keys /\ Topic' = [Topic EXCEPT ![p] = job'[p].key]
      BY <3>2 DEF Inv, TypeOK, Job, Topic
    <3>5. Seen' = [Seen EXCEPT ![p] = {}]
      <4>1. got' = got
        BY <2>1 DEF Request
      <4> QED
        BY <3>1, <4>1 DEF Seen
    <3>6. UNCHANGED <<now, floor, since>> /\ start' = [start EXCEPT ![p] = now]
      BY <2>1 DEF Request
    <3> QED
      BY <3>3, <3>4, <3>5, <3>6 DEF Visible!Ask, Stage, Topic, Seen
  <2>2. ASSUME NEW p \in Procs, Hit(p) PROVE Visible!Show(p)
    <3>1. \A q \in Procs \ {p} : got'[q] = got[q]
      BY <2>2 DEF Inv, TypeOK, Hit
    <3> QED
      BY <2>2, <3>1, AnswerStep DEF Hit
  <2>3. ASSUME NEW p \in Procs, StoreResponse(p) PROVE Visible!Show(p)
    BY <2>3, AnswerStep DEF StoreResponse
  <2>4. ASSUME NEW p \in Procs, Miss(p) PROVE UNCHANGED Visible!vars
    BY <2>4, InnerStep DEF Miss
  <2>5. ASSUME NEW p \in Procs, ReadFloor(p) PROVE UNCHANGED Visible!vars
    <3>1. \A q \in Procs \ {p} : got'[q] = got[q]
      BY <2>5 DEF Inv, TypeOK, ReadFloor
    <3> QED
      BY <2>5, <3>1, InnerStep DEF ReadFloor
  <2>6. ASSUME NEW p \in Procs, QueryFails(p) \/ Reply(p)
        PROVE  Visible!Ask(p) \/ Visible!Leave(p)
    BY <2>6, AdvanceStep DEF QueryFails, Reply
  <2>7. SetPublicLibraryIDs => Visible!Edit
    BY DEF SetPublicLibraryIDs, Visible!Edit
  <2>8. Tick => Visible!Tick
    BY DEF Tick, Visible!Tick
  <2>9. UNCHANGED vars => UNCHANGED Visible!vars
    BY DEF vars, Visible!vars
  <2> QED
    BY <2>1, <2>2, <2>3, <2>4, <2>5, <2>6, <2>7, <2>8, <2>9 DEF Next, Visible!Next
<1> QED
  BY <1>1, <1>2, Invariance, PTL DEF Spec, ViewIsFaithful, Visible!Spec
=============================================================================
