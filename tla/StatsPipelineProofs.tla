------------------------ MODULE StatsPipelineProofs ------------------------
(***************************************************************************)
(* Proofs about StatsPipeline, for any number of requests, libraries,      *)
(* scopes and companions and for every lifetime and load time.             *)
(*                                                                         *)
(* Sound says of a payload that it was right at some time no earlier than  *)
(* t: its version had not been replaced before t, and if it comes from the *)
(* database it is right about each library whose status has not changed    *)
(* since t.  The invariant carries Sound from the query or the call (t is  *)
(* the start of the request, or its lookup in the host's cache), to the    *)
(* entry (t is bounded by its expiry), and on to the answer.               *)
(***************************************************************************)
EXTENDS StatsPipeline, TLAPS

FloorSound(libs, k, t) ==
    \A l \in Libraries : t > since[l] => (l \in libs <=> l \in floor \cap Asked(k))

Sound(st, k, t) ==
    /\ st.from # "none" => /\ st.version <= world
                           /\ st.version # world => replaced[st.version] >= t
    /\ st.from = "store" => FloorSound(st.libs, k, t)

\* No companion is in the payload yet; none is there twice.
Bare(st) == \A s \in Sources : st.added[s] = 0
Once(st) == \A s \in Sources : st.added[s] <= 1

EntryOK(e, k) ==
    e.known => /\ e.expires <= now + TTL
               /\ Once(e.stats)
               /\ Sound(e.stats, k, e.expires - (TTL + MaxLoad))

EntryInv == \A k \in Scopes : EntryOK(storeCache[k], k) /\ EntryOK(hostCache[k], k)

\* The same of one request for the scope k, which began at s and read the
\* clock for the host's cache at m.
RequestOK(here, k, s, m, st) ==
    /\ here # "idle" => s <= now /\ now - s <= MaxLoad
    /\ here \in {"idle", "cached", "floor"} => st = NoStats
    /\ here = "query" => st.from = "none" /\ Bare(st) /\ FloorSound(st.libs, k, s)
    /\ here = "sources" => st.from = "store" /\ Bare(st) /\ Sound(st, k, s)
    /\ here \in {"lookup", "call", "hostsources"} => s <= m /\ m <= now
    /\ here \in {"lookup", "call"} => st = NoStats
    /\ here = "hostsources" => st.from = "host" /\ Bare(st) /\ Sound(st, k, m)
    /\ here = "answered" => Once(st) /\ Sound(st, k, s - (TTL + MaxLoad))

RequestInv == \A p \in Procs : RequestOK(pc[p], scope[p], start[p], stamp[p], got[p])

HistoryInv == \A l \in Libraries : since[l] <= now

Inv == TypeOK /\ HistoryInv /\ EntryInv /\ RequestInv

-----------------------------------------------------------------------------

LEMMA NoStatsIs ==
    /\ NoStats \in Stats /\ NoEntry \in Entry /\ ~NoEntry.known
    /\ NoStats.from = "none" /\ Bare(NoStats) /\ Once(NoStats)
    /\ \A k, t : Sound(NoStats, k, t)
  BY StatsAssumption DEF NoStats, NoEntry, Stats, Entry, Versions, Bare, Once, Sound

\* What was right no earlier than u was right no earlier than t before it.
LEMMA SoundEarlier ==
    ASSUME TypeOK, NEW st \in Stats, NEW k, NEW u \in Int, NEW t \in Int, t <= u, Sound(st, k, u)
    PROVE  Sound(st, k, t)
<1>1. \A l \in Libraries : since[l] \in Nat
  BY DEF TypeOK
<1>2. st.version \in Versions /\ replaced[st.version] \in Nat
  BY DEF TypeOK, Stats
<1> QED
  BY <1>1, <1>2 DEF Sound, FloorSound

\* A request's step leaves the world alone, and with it what is known of it.
LEMMA WorldStays ==
    ASSUME UNCHANGED world_
    PROVE  /\ \A st, k, t : Sound(st, k, t)' <=> Sound(st, k, t)
           /\ \A here, k, s, m, st : RequestOK(here, k, s, m, st)' <=> RequestOK(here, k, s, m, st)
           /\ \A e, k : EntryOK(e, k)' <=> EntryOK(e, k)
<1>1. \A libs, k, t : FloorSound(libs, k, t)' <=> FloorSound(libs, k, t)
  BY DEF FloorSound, Asked, world_
<1>2. \A st, k, t : Sound(st, k, t)' <=> Sound(st, k, t)
  BY <1>1 DEF Sound, world_
<1>3. \A e, k : EntryOK(e, k)' <=> EntryOK(e, k)
  BY <1>2 DEF EntryOK, Once, world_
<1> QED
  BY <1>1, <1>2, <1>3 DEF RequestOK, Bare, Once, NoStats, world_

\* What a step of request p has to show.
LEMMA RequestSteps ==
    ASSUME Inv, NEW p \in Procs, UNCHANGED world_, TypeOK',
           \A k \in Scopes : EntryOK(storeCache'[k], k) /\ EntryOK(hostCache'[k], k),
           \A q \in Procs \ {p} : /\ pc'[q] = pc[q] /\ scope'[q] = scope[q] /\ start'[q] = start[q]
                                  /\ stamp'[q] = stamp[q] /\ got'[q] = got[q],
           RequestOK(pc'[p], scope'[p], start'[p], stamp'[p], got'[p])
    PROVE  Inv'
<1>1. HistoryInv'
  BY DEF Inv, HistoryInv, world_
<1>2. EntryInv'
  <2>1. \A e, k : EntryOK(e, k) =>
            (e.known => /\ e.expires <= now' + TTL
                        /\ Once(e.stats)
                        /\ Sound(e.stats, k, e.expires - (TTL + MaxLoad))')
    BY WorldStays DEF EntryOK, world_
  <2> QED
    BY <2>1, WorldStays DEF EntryInv, EntryOK, Once, Sound, FloorSound, Asked, world_
<1>3. ASSUME NEW q \in Procs
      PROVE  RequestOK(pc[q], scope[q], start[q], stamp[q], got[q])'
  <2>1. RequestOK(pc'[q], scope'[q], start'[q], stamp'[q], got'[q])
    BY DEF Inv, RequestInv
  <2> QED
    BY <2>1 DEF RequestOK, Sound, FloorSound, Asked, Bare, Once, NoStats, world_
<1> QED
  BY <1>1, <1>2, <1>3 DEF Inv, RequestInv

-----------------------------------------------------------------------------
(* One lemma for each step of a request. *)

\* What every step may use of its request.
LEMMA RequestFacts ==
    ASSUME Inv, NEW p \in Procs
    PROVE  /\ RequestOK(pc[p], scope[p], start[p], stamp[p], got[p])
           /\ scope[p] \in Scopes /\ start[p] \in Nat /\ stamp[p] \in Nat /\ got[p] \in Stats
           /\ now \in Nat /\ TTL \in Nat /\ MaxLoad \in Nat /\ world \in Versions
           /\ EntryOK(storeCache[scope[p]], scope[p]) /\ storeCache[scope[p]] \in Entry
           /\ EntryOK(hostCache[scope[p]], scope[p]) /\ hostCache[scope[p]] \in Entry
  BY StatsAssumption DEF Inv, TypeOK, RequestInv, EntryInv

LEMMA RequestPreserves ==
    ASSUME Inv, NEW p \in Procs, Request(p)
    PROVE  Inv'
<1>1. TypeOK'
  BY DEF Inv, TypeOK, Request, At, PCs, world_, caches
<1>2. RequestOK(pc'[p], scope'[p], start'[p], stamp'[p], got'[p])
  <2>1. pc[p] = "idle" /\ pc'[p] = "cached" /\ start'[p] = now
    BY DEF Inv, TypeOK, Request, At
  <2>2. got'[p] = NoStats
    BY <2>1 DEF Inv, RequestInv, RequestOK, Request
  <2> QED
    BY <2>1, <2>2, RequestFacts DEF RequestOK
<1>8. \A k \in Scopes : EntryOK(storeCache'[k], k) /\ EntryOK(hostCache'[k], k)
  BY DEF Inv, EntryInv, Request, caches
<1>9. \A q \in Procs \ {p} : /\ pc'[q] = pc[q] /\ scope'[q] = scope[q] /\ start'[q] = start[q]
                             /\ stamp'[q] = stamp[q] /\ got'[q] = got[q]
  BY DEF Inv, TypeOK, Request, At
<1> QED
  BY <1>1, <1>2, <1>8, <1>9, RequestSteps DEF Request

LEMMA StoreHitPreserves ==
    ASSUME Inv, NEW p \in Procs, StoreHit(p)
    PROVE  Inv'
<1>1. TypeOK'
  BY DEF Inv, TypeOK, StoreHit, At, PCs, Stored, Entry, world_, caches
<1>2. RequestOK(pc'[p], scope'[p], start'[p], stamp'[p], got'[p])
  <2> DEFINE e == storeCache[scope[p]]
             k == scope[p]
  <2>1. /\ pc[p] = "cached" /\ pc'[p] = "answered" /\ got'[p] = e.stats
        /\ e.known /\ now <= e.expires /\ UNCHANGED <<scope, start, stamp>>
    BY DEF Inv, TypeOK, StoreHit, At, Stored
  <2>2. e.stats \in Stats /\ e.expires \in Nat
    BY RequestFacts DEF Entry
  <2>3. start[p] <= now /\ now - start[p] <= MaxLoad
    BY <2>1, RequestFacts DEF RequestOK
  <2>4. /\ e.expires - (TTL + MaxLoad) \in Int /\ start[p] - (TTL + MaxLoad) \in Int
        /\ start[p] - (TTL + MaxLoad) <= e.expires - (TTL + MaxLoad)
    BY <2>1, <2>2, <2>3, RequestFacts
  <2>5. Once(e.stats) /\ Sound(e.stats, k, e.expires - (TTL + MaxLoad))
    BY <2>1, RequestFacts DEF EntryOK
  <2>6. Sound(e.stats, k, start[p] - (TTL + MaxLoad))
    BY <2>2, <2>4, <2>5, SoundEarlier DEF Inv
  <2> QED
    BY <2>1, <2>3, <2>5, <2>6 DEF RequestOK
<1>8. \A k \in Scopes : EntryOK(storeCache'[k], k) /\ EntryOK(hostCache'[k], k)
  BY DEF Inv, EntryInv, StoreHit, caches
<1>9. \A q \in Procs \ {p} : /\ pc'[q] = pc[q] /\ scope'[q] = scope[q] /\ start'[q] = start[q]
                             /\ stamp'[q] = stamp[q] /\ got'[q] = got[q]
  BY DEF Inv, TypeOK, StoreHit, At
<1> QED
  BY <1>1, <1>2, <1>8, <1>9, RequestSteps DEF StoreHit

LEMMA ReadFloorPreserves ==
    ASSUME Inv, NEW p \in Procs, ReadFloor(p)
    PROVE  Inv'
<1>1. TypeOK'
  <2> DEFINE st == [got[p] EXCEPT !.libs = floor \cap Asked(scope[p])]
  <2>1. st \in Stats
    BY RequestFacts DEF Inv, TypeOK, Stats
  <2>2. got' = [got EXCEPT ![p] = st]
    BY DEF ReadFloor
  <2> HIDE DEF st
  <2> QED
    BY <2>1, <2>2 DEF Inv, TypeOK, ReadFloor, At, PCs, world_, caches
<1>2. RequestOK(pc'[p], scope'[p], start'[p], stamp'[p], got'[p])
  <2> DEFINE allowed == floor \cap Asked(scope[p])
  <2>1. /\ pc[p] = "floor" /\ pc'[p] \in {"host", "query"}
        /\ got'[p] = [got[p] EXCEPT !.libs = allowed] /\ UNCHANGED <<scope, start, stamp>>
    BY DEF Inv, TypeOK, ReadFloor, At
  <2>2. got[p] = NoStats
    BY <2>1, RequestFacts DEF RequestOK
  <2>3. got'[p].from = "none" /\ Bare(got'[p]) /\ got'[p].libs = allowed
    BY <2>1, <2>2 DEF NoStats, Bare
  <2>4. FloorSound(got'[p].libs, scope[p], start[p])
    BY <2>3 DEF FloorSound
  <2> QED
    BY <2>1, <2>3, <2>4, RequestFacts DEF RequestOK
<1>8. \A k \in Scopes : EntryOK(storeCache'[k], k) /\ EntryOK(hostCache'[k], k)
  BY DEF Inv, EntryInv, ReadFloor, caches
<1>9. \A q \in Procs \ {p} : /\ pc'[q] = pc[q] /\ scope'[q] = scope[q] /\ start'[q] = start[q]
                             /\ stamp'[q] = stamp[q] /\ got'[q] = got[q]
  BY DEF Inv, TypeOK, ReadFloor, At
<1> QED
  BY <1>1, <1>2, <1>8, <1>9, RequestSteps DEF ReadFloor

LEMMA QueryStorePreserves ==
    ASSUME Inv, NEW p \in Procs, QueryStore(p)
    PROVE  Inv'
<1>1. TypeOK'
  <2> DEFINE st == [got[p] EXCEPT !.from = "store", !.version = world]
  <2>1. st \in Stats
    BY RequestFacts DEF Stats
  <2>2. got' = [got EXCEPT ![p] = st]
    BY DEF QueryStore
  <2>3. UNCHANGED <<world_, caches, scope, stamp, start>> /\ pc' \in [Procs -> PCs]
    BY DEF Inv, TypeOK, QueryStore, At, PCs
  <2> HIDE DEF st
  <2> QED
    BY <2>1, <2>2, <2>3 DEF Inv, TypeOK, world_, caches
<1>2. RequestOK(pc'[p], scope'[p], start'[p], stamp'[p], got'[p])
  <2>1. /\ pc[p] = "query" /\ pc'[p] = "sources"
        /\ got'[p] = [got[p] EXCEPT !.from = "store", !.version = world]
        /\ UNCHANGED <<scope, start, stamp>>
    BY DEF Inv, TypeOK, QueryStore, At
  <2>2. /\ got'[p].from = "store" /\ got'[p].version = world
        /\ got'[p].libs = got[p].libs /\ got'[p].added = got[p].added
    BY <2>1, RequestFacts DEF Stats
  <2>3. world <= world
    BY RequestFacts DEF Versions
  <2> QED
    BY <2>1, <2>2, <2>3, RequestFacts DEF RequestOK, Sound, Bare
<1>8. \A k \in Scopes : EntryOK(storeCache'[k], k) /\ EntryOK(hostCache'[k], k)
  BY DEF Inv, EntryInv, QueryStore, caches
<1>9. \A q \in Procs \ {p} : /\ pc'[q] = pc[q] /\ scope'[q] = scope[q] /\ start'[q] = start[q]
                             /\ stamp'[q] = stamp[q] /\ got'[q] = got[q]
  BY DEF Inv, TypeOK, QueryStore, At
<1> QED
  BY <1>1, <1>2, <1>8, <1>9, RequestSteps DEF QueryStore

LEMMA StoreFailsPreserves ==
    ASSUME Inv, NEW p \in Procs, StoreFails(p)
    PROVE  Inv'
<1>1. TypeOK'
  BY NoStatsIs DEF Inv, TypeOK, StoreFails, At, PCs, world_, caches
<1>2. RequestOK(pc'[p], scope'[p], start'[p], stamp'[p], got'[p])
  <2>1. pc[p] = "query" /\ pc'[p] = "host" /\ start'[p] = start[p]
    BY DEF Inv, TypeOK, StoreFails, At
  <2> QED
    BY <2>1, RequestFacts DEF RequestOK
<1>8. \A k \in Scopes : EntryOK(storeCache'[k], k) /\ EntryOK(hostCache'[k], k)
  BY DEF Inv, EntryInv, StoreFails, caches
<1>9. \A q \in Procs \ {p} : /\ pc'[q] = pc[q] /\ scope'[q] = scope[q] /\ start'[q] = start[q]
                             /\ stamp'[q] = stamp[q] /\ got'[q] = got[q]
  BY DEF Inv, TypeOK, StoreFails, At
<1> QED
  BY <1>1, <1>2, <1>8, <1>9, RequestSteps DEF StoreFails

LEMMA HostStatsPreserves ==
    ASSUME Inv, NEW p \in Procs, HostStats(p)
    PROVE  Inv'
<1>1. TypeOK'
  BY NoStatsIs DEF Inv, TypeOK, HostStats, At, PCs, world_, caches
<1>2. RequestOK(pc'[p], scope'[p], start'[p], stamp'[p], got'[p])
  <2>1. /\ pc[p] = "host" /\ pc'[p] = "lookup" /\ got'[p] = NoStats
        /\ stamp'[p] = now /\ start'[p] = start[p]
    BY DEF Inv, TypeOK, HostStats, At
  <2> QED
    BY <2>1, RequestFacts DEF RequestOK
<1>8. \A k \in Scopes : EntryOK(storeCache'[k], k) /\ EntryOK(hostCache'[k], k)
  BY DEF Inv, EntryInv, HostStats, caches
<1>9. \A q \in Procs \ {p} : /\ pc'[q] = pc[q] /\ scope'[q] = scope[q] /\ start'[q] = start[q]
                             /\ stamp'[q] = stamp[q] /\ got'[q] = got[q]
  BY DEF Inv, TypeOK, HostStats, At
<1> QED
  BY <1>1, <1>2, <1>8, <1>9, RequestSteps DEF HostStats

LEMMA HostHitPreserves ==
    ASSUME Inv, NEW p \in Procs, HostHit(p)
    PROVE  Inv'
<1>1. TypeOK'
  BY DEF Inv, TypeOK, HostHit, At, PCs, Memoised, Entry, world_, caches
<1>2. RequestOK(pc'[p], scope'[p], start'[p], stamp'[p], got'[p])
  <2> DEFINE e == hostCache[scope[p]]
             k == scope[p]
  <2>1. /\ pc[p] = "lookup" /\ pc'[p] = "answered" /\ got'[p] = e.stats
        /\ e.known /\ stamp[p] < e.expires /\ UNCHANGED <<scope, start, stamp>>
    BY DEF Inv, TypeOK, HostHit, At, Memoised
  <2>2. e.stats \in Stats /\ e.expires \in Nat
    BY RequestFacts DEF Entry
  <2>3. start[p] <= now /\ now - start[p] <= MaxLoad /\ start[p] <= stamp[p]
    BY <2>1, RequestFacts DEF RequestOK
  <2>4. /\ e.expires - (TTL + MaxLoad) \in Int /\ start[p] - (TTL + MaxLoad) \in Int
        /\ start[p] - (TTL + MaxLoad) <= e.expires - (TTL + MaxLoad)
    BY <2>1, <2>2, <2>3, RequestFacts
  <2>5. Once(e.stats) /\ Sound(e.stats, k, e.expires - (TTL + MaxLoad))
    BY <2>1, RequestFacts DEF EntryOK
  <2>6. Sound(e.stats, k, start[p] - (TTL + MaxLoad))
    BY <2>2, <2>4, <2>5, SoundEarlier DEF Inv
  <2> QED
    BY <2>1, <2>3, <2>5, <2>6 DEF RequestOK
<1>8. \A k \in Scopes : EntryOK(storeCache'[k], k) /\ EntryOK(hostCache'[k], k)
  BY DEF Inv, EntryInv, HostHit, caches
<1>9. \A q \in Procs \ {p} : /\ pc'[q] = pc[q] /\ scope'[q] = scope[q] /\ start'[q] = start[q]
                             /\ stamp'[q] = stamp[q] /\ got'[q] = got[q]
  BY DEF Inv, TypeOK, HostHit, At
<1> QED
  BY <1>1, <1>2, <1>8, <1>9, RequestSteps DEF HostHit

LEMMA HostMissPreserves ==
    ASSUME Inv, NEW p \in Procs, HostMiss(p)
    PROVE  Inv'
<1>1. TypeOK'
  BY DEF Inv, TypeOK, HostMiss, At, PCs, world_, caches
<1>2. RequestOK(pc'[p], scope'[p], start'[p], stamp'[p], got'[p])
  <2>1. pc[p] = "lookup" /\ pc'[p] \in {"call", "answered"} /\ UNCHANGED <<scope, start, stamp, got>>
    BY DEF Inv, TypeOK, HostMiss, At
  <2>2. got[p] = NoStats
    BY <2>1, RequestFacts DEF RequestOK
  <2> QED
    BY <2>1, <2>2, NoStatsIs, RequestFacts DEF RequestOK
<1>8. \A k \in Scopes : EntryOK(storeCache'[k], k) /\ EntryOK(hostCache'[k], k)
  BY DEF Inv, EntryInv, HostMiss, caches
<1>9. \A q \in Procs \ {p} : /\ pc'[q] = pc[q] /\ scope'[q] = scope[q] /\ start'[q] = start[q]
                             /\ stamp'[q] = stamp[q] /\ got'[q] = got[q]
  BY DEF Inv, TypeOK, HostMiss, At
<1> QED
  BY <1>1, <1>2, <1>8, <1>9, RequestSteps DEF HostMiss

LEMMA HostFailsPreserves ==
    ASSUME Inv, NEW p \in Procs, HostFails(p)
    PROVE  Inv'
<1>1. TypeOK'
  BY DEF Inv, TypeOK, HostFails, At, PCs, world_, caches
<1>2. RequestOK(pc'[p], scope'[p], start'[p], stamp'[p], got'[p])
  <2>1. pc[p] = "call" /\ pc'[p] \in {"answered"} /\ UNCHANGED <<scope, start, stamp, got>>
    BY DEF Inv, TypeOK, HostFails, At
  <2>2. got[p] = NoStats
    BY <2>1, RequestFacts DEF RequestOK
  <2> QED
    BY <2>1, <2>2, NoStatsIs, RequestFacts DEF RequestOK
<1>8. \A k \in Scopes : EntryOK(storeCache'[k], k) /\ EntryOK(hostCache'[k], k)
  BY DEF Inv, EntryInv, HostFails, caches
<1>9. \A q \in Procs \ {p} : /\ pc'[q] = pc[q] /\ scope'[q] = scope[q] /\ start'[q] = start[q]
                             /\ stamp'[q] = stamp[q] /\ got'[q] = got[q]
  BY DEF Inv, TypeOK, HostFails, At
<1> QED
  BY <1>1, <1>2, <1>8, <1>9, RequestSteps DEF HostFails

LEMMA HostCountsPreserves ==
    ASSUME Inv, NEW p \in Procs, HostCounts(p)
    PROVE  Inv'
<1> DEFINE st == [NoStats EXCEPT !.from = "host", !.version = world, !.libs = Asked(scope[p])]
<1>0. /\ st \in Stats /\ st.from = "host" /\ st.version = world /\ Bare(st)
      /\ got' = [got EXCEPT ![p] = st]
  <2>1. Asked(scope[p]) \subseteq Libraries
    BY RequestFacts, StatsAssumption DEF Asked
  <2> QED
    BY <2>1, NoStatsIs, RequestFacts DEF Stats, NoStats, Bare, HostCounts
<1> HIDE DEF st
<1>1. TypeOK'
  BY <1>0 DEF Inv, TypeOK, HostCounts, At, PCs, world_, caches
<1>2. RequestOK(pc'[p], scope'[p], start'[p], stamp'[p], got'[p])
  <2>1. /\ pc[p] = "call" /\ pc'[p] = "hostsources" /\ got'[p] = st
        /\ UNCHANGED <<scope, start, stamp>>
    BY <1>0 DEF Inv, TypeOK, HostCounts, At
  <2>2. world <= world
    BY RequestFacts DEF Versions
  <2>3. Sound(st, scope[p], stamp[p])
    BY <1>0, <2>2 DEF Sound
  <2> QED
    BY <1>0, <2>1, <2>3, RequestFacts DEF RequestOK
<1>8. \A k \in Scopes : EntryOK(storeCache'[k], k) /\ EntryOK(hostCache'[k], k)
  BY DEF Inv, EntryInv, HostCounts, caches
<1>9. \A q \in Procs \ {p} : /\ pc'[q] = pc[q] /\ scope'[q] = scope[q] /\ start'[q] = start[q]
                             /\ stamp'[q] = stamp[q] /\ got'[q] = got[q]
  BY DEF Inv, TypeOK, HostCounts, At
<1> QED
  BY <1>1, <1>2, <1>8, <1>9, RequestSteps DEF HostCounts

LEMMA ReplyPreserves ==
    ASSUME Inv, NEW p \in Procs, Reply(p)
    PROVE  Inv'
<1>1. TypeOK'
  <2>1. AnyScope \in Scopes
    BY RequestFacts DEF AnyScope
  <2> QED
    BY <2>1, NoStatsIs DEF Inv, TypeOK, Reply, At, PCs, world_, caches
<1>2. RequestOK(pc'[p], scope'[p], start'[p], stamp'[p], got'[p])
  <2>1. pc'[p] = "idle" /\ got'[p] = NoStats
    BY DEF Inv, TypeOK, Reply, At
  <2> QED
    BY <2>1 DEF RequestOK
<1>8. \A k \in Scopes : EntryOK(storeCache'[k], k) /\ EntryOK(hostCache'[k], k)
  BY DEF Inv, EntryInv, Reply, caches
<1>9. \A q \in Procs \ {p} : /\ pc'[q] = pc[q] /\ scope'[q] = scope[q] /\ start'[q] = start[q]
                             /\ stamp'[q] = stamp[q] /\ got'[q] = got[q]
  BY DEF Inv, TypeOK, Reply, At
<1> QED
  BY <1>1, <1>2, <1>8, <1>9, RequestSteps DEF Reply

\* Adding the companions that answered.
LEMMA WithSourcesIs ==
    ASSUME NEW st \in Stats, Bare(st), NEW up
    PROVE  /\ WithSourceStats(st, up) \in Stats
           /\ Once(WithSourceStats(st, up))
           /\ \A k, t : Sound(st, k, t) => Sound(WithSourceStats(st, up), k, t)
           /\ WithSourceStats(st, up).from = st.from
<1>1. \A s \in Sources : st.added[s] = 0
  BY DEF Bare
<1>2. st.added \in [Sources -> Nat]
  BY DEF Stats
<1> DEFINE added == [s \in Sources |-> st.added[s] + (IF s \in up THEN 1 ELSE 0)]
<1>3. added \in [Sources -> Nat] /\ \A s \in Sources : added[s] <= 1
  BY <1>1, <1>2
<1>4. WithSourceStats(st, up) = [st EXCEPT !.added = added]
  BY DEF WithSourceStats
<1> HIDE DEF added
<1>5. /\ WithSourceStats(st, up) \in Stats
      /\ WithSourceStats(st, up).added = added /\ WithSourceStats(st, up).from = st.from
      /\ WithSourceStats(st, up).version = st.version /\ WithSourceStats(st, up).libs = st.libs
  BY <1>3, <1>4 DEF Stats
<1> QED
  BY <1>3, <1>5 DEF Once, Sound

LEMMA StoreAnswersPreserves ==
    ASSUME Inv, NEW p \in Procs, StoreAnswers(p)
    PROVE  Inv'
<1> DEFINE k == scope[p]
           t == start[p] - (TTL + MaxLoad)
<1>1. PICK up \in SUBSET Sources : got' = [got EXCEPT ![p] = WithSourceStats(got[p], up)]
  BY DEF StoreAnswers
<1> DEFINE st == WithSourceStats(got[p], up)
           e == [known |-> TRUE, expires |-> now + TTL, stats |-> st]
<1>2. /\ pc[p] = "sources" /\ pc'[p] = "answered" /\ got'[p] = st
      /\ storeCache' = [storeCache EXCEPT ![k] = e] /\ hostCache' = hostCache
      /\ UNCHANGED <<world_, scope, stamp, start>>
  BY <1>1 DEF Inv, TypeOK, StoreAnswers, At
<1>3. /\ got[p] \in Stats /\ got[p].from = "store" /\ Bare(got[p]) /\ Sound(got[p], k, start[p])
      /\ start[p] <= now /\ now - start[p] <= MaxLoad
  BY <1>2, RequestFacts DEF RequestOK
<1>4. st \in Stats /\ st.from = "store" /\ Once(st) /\ Sound(st, k, start[p])
  BY <1>3, WithSourcesIs
<1> HIDE DEF st
<1>5. e \in Entry /\ e.known /\ e.expires = now + TTL /\ e.stats = st
  BY <1>4, RequestFacts DEF Entry
<1> HIDE DEF e
<1>6. /\ start[p] \in Int /\ t \in Int /\ t <= start[p]
      /\ e.expires - (TTL + MaxLoad) \in Int /\ e.expires - (TTL + MaxLoad) <= start[p]
  BY <1>3, <1>5, RequestFacts
<1>7. Sound(st, k, t) /\ Sound(st, k, e.expires - (TTL + MaxLoad))
  BY <1>4, <1>6, SoundEarlier DEF Inv
<1>8. EntryOK(e, k)
  BY <1>4, <1>5, <1>7, RequestFacts DEF EntryOK
<1>9. TypeOK'
  <2>1. storeCache' \in [Scopes -> Entry] /\ got' \in [Procs -> Stats]
    BY <1>1, <1>2, <1>4, <1>5 DEF Inv, TypeOK, st
  <2>2. \A j \in Scopes : storeCache'[j].known => storeCache'[j].stats.from = "store"
    BY <1>2, <1>4, <1>5 DEF Inv, TypeOK
  <2>3. pc' \in [Procs -> PCs]
    BY DEF Inv, TypeOK, StoreAnswers, At, PCs
  <2> QED
    BY <1>2, <2>1, <2>2, <2>3 DEF Inv, TypeOK, world_
<1>10. RequestOK(pc'[p], scope'[p], start'[p], stamp'[p], got'[p])
  BY <1>2, <1>3, <1>4, <1>7 DEF RequestOK
<1>11. \A j \in Scopes : EntryOK(storeCache'[j], j) /\ EntryOK(hostCache'[j], j)
  BY <1>2, <1>8 DEF Inv, TypeOK, EntryInv
<1>12. \A q \in Procs \ {p} : /\ pc'[q] = pc[q] /\ scope'[q] = scope[q] /\ start'[q] = start[q]
                              /\ stamp'[q] = stamp[q] /\ got'[q] = got[q]
  BY <1>1 DEF Inv, TypeOK, StoreAnswers, At
<1> QED
  BY <1>2, <1>9, <1>10, <1>11, <1>12, RequestSteps

LEMMA HostAnswersPreserves ==
    ASSUME Inv, NEW p \in Procs, HostAnswers(p)
    PROVE  Inv'
<1> DEFINE k == scope[p]
           t == start[p] - (TTL + MaxLoad)
<1>1. PICK up \in SUBSET Sources : got' = [got EXCEPT ![p] = WithSourceStats(got[p], up)]
  BY DEF HostAnswers
<1> DEFINE st == WithSourceStats(got[p], up)
           e == [known |-> TRUE, expires |-> stamp[p] + TTL, stats |-> st]
<1>2. /\ pc[p] = "hostsources" /\ pc'[p] = "answered" /\ got'[p] = st
      /\ hostCache' = [hostCache EXCEPT ![k] = e] /\ storeCache' = storeCache
      /\ UNCHANGED <<world_, scope, stamp, start>>
  BY <1>1 DEF Inv, TypeOK, HostAnswers, At
<1>3. /\ got[p] \in Stats /\ got[p].from = "host" /\ Bare(got[p]) /\ Sound(got[p], k, stamp[p])
      /\ start[p] <= stamp[p] /\ stamp[p] <= now /\ now - start[p] <= MaxLoad /\ start[p] <= now
  BY <1>2, RequestFacts DEF RequestOK
<1>4. st \in Stats /\ st.from = "host" /\ Once(st) /\ Sound(st, k, stamp[p])
  BY <1>3, WithSourcesIs
<1> HIDE DEF st
<1>5. e \in Entry /\ e.known /\ e.expires = stamp[p] + TTL /\ e.stats = st
  BY <1>4, RequestFacts DEF Entry
<1> HIDE DEF e
<1>6. /\ stamp[p] \in Int /\ t \in Int /\ t <= stamp[p]
      /\ e.expires - (TTL + MaxLoad) \in Int /\ e.expires - (TTL + MaxLoad) <= stamp[p]
      /\ e.expires <= now + TTL
  BY <1>3, <1>5, RequestFacts
<1>7. Sound(st, k, t) /\ Sound(st, k, e.expires - (TTL + MaxLoad))
  BY <1>4, <1>6, SoundEarlier DEF Inv
<1>8. EntryOK(e, k)
  BY <1>4, <1>5, <1>6, <1>7 DEF EntryOK
<1>9. TypeOK'
  <2>1. hostCache' \in [Scopes -> Entry] /\ got' \in [Procs -> Stats]
    BY <1>1, <1>2, <1>4, <1>5 DEF Inv, TypeOK, st
  <2>2. \A j \in Scopes : hostCache'[j].known => hostCache'[j].stats.from = "host"
    BY <1>2, <1>4, <1>5 DEF Inv, TypeOK
  <2>3. pc' \in [Procs -> PCs]
    BY DEF Inv, TypeOK, HostAnswers, At, PCs
  <2> QED
    BY <1>2, <2>1, <2>2, <2>3 DEF Inv, TypeOK, world_
<1>10. RequestOK(pc'[p], scope'[p], start'[p], stamp'[p], got'[p])
  BY <1>2, <1>3, <1>4, <1>7 DEF RequestOK
<1>11. \A j \in Scopes : EntryOK(storeCache'[j], j) /\ EntryOK(hostCache'[j], j)
  BY <1>2, <1>8 DEF Inv, TypeOK, EntryInv
<1>12. \A q \in Procs \ {p} : /\ pc'[q] = pc[q] /\ scope'[q] = scope[q] /\ start'[q] = start[q]
                              /\ stamp'[q] = stamp[q] /\ got'[q] = got[q]
  BY <1>1 DEF Inv, TypeOK, HostAnswers, At
<1> QED
  BY <1>2, <1>9, <1>10, <1>11, <1>12, RequestSteps

LEMMA StoreMissPreserves ==
    ASSUME Inv, NEW p \in Procs, StoreMiss(p)
    PROVE  Inv'
<1>1. /\ pc[p] = "cached" /\ pc'[p] = "floor"
      /\ UNCHANGED <<world_, hostCache, scope, stamp, start, got>>
  BY DEF Inv, TypeOK, StoreMiss, At
<1>2. \A j \in Scopes : storeCache'[j] = storeCache[j] \/ storeCache'[j] = NoEntry
  BY RequestFacts DEF Inv, TypeOK, StoreMiss
<1>3. TypeOK'
  BY <1>1, <1>2, NoStatsIs DEF Inv, TypeOK, StoreMiss, At, PCs, world_
<1>4. \A j \in Scopes : EntryOK(storeCache'[j], j) /\ EntryOK(hostCache'[j], j)
  BY <1>1, <1>2, NoStatsIs DEF Inv, EntryInv, EntryOK
<1>5. RequestOK(pc'[p], scope'[p], start'[p], stamp'[p], got'[p])
  BY <1>1, RequestFacts DEF RequestOK
<1>6. \A q \in Procs \ {p} : /\ pc'[q] = pc[q] /\ scope'[q] = scope[q] /\ start'[q] = start[q]
                             /\ stamp'[q] = stamp[q] /\ got'[q] = got[q]
  BY DEF Inv, TypeOK, StoreMiss, At
<1> QED
  BY <1>1, <1>3, <1>4, <1>5, <1>6, RequestSteps

-----------------------------------------------------------------------------
(* Steps outside the requests. *)

\* Such a step keeps the invariant when what was right no earlier than some t
\* until now is still right no earlier than t.
LEMMA OtherSteps ==
    ASSUME Inv, TypeOK', HistoryInv', UNCHANGED <<caches, pc, scope, stamp, got, start>>,
           now <= now', \A p \in Procs : pc[p] # "idle" => now' - start[p] <= MaxLoad,
           \A st \in Stats, k \in Scopes, t \in Int : t <= now =>
               /\ Sound(st, k, t) => Sound(st, k, t)'
               /\ FloorSound(st.libs, k, t) => FloorSound(st.libs, k, t)'
    PROVE  Inv'
<1>1. now \in Nat /\ now' \in Nat /\ TTL \in Nat /\ MaxLoad \in Nat
  BY StatsAssumption DEF Inv, TypeOK
<1>2. ASSUME NEW k \in Scopes, NEW e \in Entry, EntryOK(e, k)
      PROVE  EntryOK(e, k)'
  <2>1. e.expires \in Nat /\ e.stats \in Stats
    BY DEF Entry
  <2>2. e.known => /\ e.expires <= now'+ TTL
                   /\ e.expires - (TTL + MaxLoad) \in Int /\ e.expires - (TTL + MaxLoad) <= now
    BY <1>1, <1>2, <2>1 DEF EntryOK
  <2>3. PICK t \in Int : t = e.expires - (TTL + MaxLoad)
    BY <1>1, <2>1
  <2>4. e.known => Sound(e.stats, k, t)'
    BY <1>2, <2>1, <2>2, <2>3 DEF EntryOK
  <2> QED
    BY <1>2, <2>2, <2>3, <2>4 DEF EntryOK, Once, Sound, FloorSound, Asked
<1>3. EntryInv'
  <2>1. ASSUME NEW k \in Scopes
        PROVE  EntryOK(storeCache[k], k)' /\ EntryOK(hostCache[k], k)'
    <3>1. PICK d \in Entry, e \in Entry : d = storeCache[k] /\ e = hostCache[k]
      BY DEF Inv, TypeOK
    <3>2. EntryOK(d, k)' /\ EntryOK(e, k)'
      BY <1>2, <3>1 DEF Inv, EntryInv
    <3> QED
      BY <3>1, <3>2 DEF EntryOK, Once, Sound, FloorSound, Asked, caches
  <2> QED
    BY <2>1 DEF EntryInv
<1>4. ASSUME NEW p \in Procs
      PROVE  RequestOK(pc[p], scope[p], start[p], stamp[p], got[p])'
  <2>1. PICK here \in PCs, k \in Scopes, s \in Nat, m \in Nat, st \in Stats :
            here = pc[p] /\ k = scope[p] /\ s = start[p] /\ m = stamp[p] /\ st = got[p]
    BY DEF Inv, TypeOK
  <2>2. RequestOK(here, k, s, m, st)
    BY <2>1 DEF Inv, RequestInv
  <2>3. PICK t \in Int : t = s - (TTL + MaxLoad)
    BY <1>1
  <2>4. s \in Int /\ m \in Int
    OBVIOUS
  <2>5. here = "query" => FloorSound(st.libs, k, s)'
    BY <2>2, <2>4 DEF RequestOK
  <2>6. here = "sources" => Sound(st, k, s)'
    BY <2>2, <2>4 DEF RequestOK
  <2>7. here = "hostsources" => Sound(st, k, m)'
    BY <2>2, <2>4 DEF RequestOK
  <2>8. here = "answered" => Sound(st, k, t)'
    <3>1. here = "answered" => t <= now
      BY <1>1, <2>2, <2>3 DEF RequestOK
    <3> QED
      BY <2>2, <2>3, <3>1 DEF RequestOK
  <2>9. /\ here # "idle" => s <= now' /\ now' - s <= MaxLoad
        /\ here \in {"lookup", "call", "hostsources"} => s <= m /\ m <= now'
    BY <1>1, <2>1, <2>2 DEF RequestOK
  <2>10. RequestOK(here, k, s, m, st)'
    BY <2>2, <2>3, <2>5, <2>6, <2>7, <2>8, <2>9
    DEF RequestOK, Bare, Once, NoStats, Sound, FloorSound, Asked
  <2> QED
    BY <2>1, <2>10 DEF RequestOK, Bare, Once, NoStats, Sound, FloorSound, Asked
<1> QED
  BY <1>3, <1>4 DEF Inv, RequestInv

LEMMA HostConnectsPreserves ==
    ASSUME Inv, HostConnects
    PROVE  Inv'
<1>1. TypeOK' /\ HistoryInv' /\ now <= now'
  BY DEF Inv, TypeOK, HistoryInv, HostConnects, caches
<1>2. \A p \in Procs : pc[p] # "idle" => now' - start[p] <= MaxLoad
  BY RequestFacts DEF RequestOK, HostConnects
<1>3. \A st \in Stats, k \in Scopes, t \in Int : t <= now =>
          /\ Sound(st, k, t) => Sound(st, k, t)'
          /\ FloorSound(st.libs, k, t) => FloorSound(st.libs, k, t)'
  BY DEF HostConnects, Sound, FloorSound, Asked
<1> QED
  BY <1>1, <1>2, <1>3, OtherSteps DEF HostConnects

\* The version replaced is replaced now, and no t lies after now.
LEMMA ImportPreserves ==
    ASSUME Inv, Import
    PROVE  Inv'
<1>0. /\ world \in Versions /\ world' = world + 1 /\ now' = now /\ now \in Nat
      /\ replaced \in [Versions -> Nat] /\ replaced' = [replaced EXCEPT ![world] = now]
      /\ MaxImports \in Nat /\ world < MaxImports
      /\ UNCHANGED <<now, floor, hosted, since, caches, pc, scope, stamp, got, start>>
  BY StatsAssumption DEF Inv, TypeOK, Import
<1>1. TypeOK' /\ HistoryInv' /\ now <= now'
  <2>1. world' \in Versions /\ replaced' \in [Versions -> Nat]
    BY <1>0 DEF Versions
  <2> QED
    BY <1>0, <2>1 DEF Inv, TypeOK, HistoryInv, caches
<1>2. \A p \in Procs : pc[p] # "idle" => now' - start[p] <= MaxLoad
  BY <1>0, RequestFacts DEF RequestOK
<1>3. ASSUME NEW st \in Stats, NEW k \in Scopes, NEW t \in Int, t <= now
      PROVE  /\ Sound(st, k, t) => Sound(st, k, t)'
             /\ FloorSound(st.libs, k, t) => FloorSound(st.libs, k, t)'
  <2>1. FloorSound(st.libs, k, t) => FloorSound(st.libs, k, t)'
    BY <1>0 DEF FloorSound, Asked
  <2>2. st.version \in Versions
    BY DEF Stats
  <2>3. st.version <= world => st.version <= world' /\ st.version # world'
    BY <1>0, <2>2 DEF Versions
  <2>4. replaced'[st.version] = IF st.version = world THEN now ELSE replaced[st.version]
    BY <1>0, <2>2
  <2>5. st.version # world /\ replaced[st.version] >= t => replaced'[st.version] >= t
    BY <2>4
  <2>6. st.version = world => replaced'[st.version] >= t
    BY <1>0, <1>3, <2>4
  <2> QED
    BY <2>1, <2>3, <2>5, <2>6 DEF Sound
<1> QED
  BY <1>0, <1>1, <1>2, <1>3, OtherSteps

\* A library that changes its status does so now.
LEMMA SetPublicLibraryIDsPreserves ==
    ASSUME Inv, SetPublicLibraryIDs
    PROVE  Inv'
<1>0. /\ since \in [Libraries -> Nat] /\ now \in Nat
      /\ UNCHANGED <<now, hosted, world, replaced, caches, pc, scope, stamp, got, start>>
  BY DEF Inv, TypeOK, SetPublicLibraryIDs
<1>1. TypeOK' /\ HistoryInv' /\ now <= now'
  <2>1. since' \in [Libraries -> Nat] /\ floor' \in SUBSET Libraries
    BY <1>0 DEF SetPublicLibraryIDs
  <2>2. HistoryInv'
    BY <1>0 DEF Inv, HistoryInv, SetPublicLibraryIDs
  <2> QED
    BY <1>0, <2>1, <2>2 DEF Inv, TypeOK, caches
<1>2. \A p \in Procs : pc[p] # "idle" => now' - start[p] <= MaxLoad
  BY <1>0, RequestFacts DEF RequestOK
<1>3. ASSUME NEW st \in Stats, NEW k \in Scopes, NEW t \in Int, t <= now
      PROVE  /\ Sound(st, k, t) => Sound(st, k, t)'
             /\ FloorSound(st.libs, k, t) => FloorSound(st.libs, k, t)'
  <2>1. ASSUME FloorSound(st.libs, k, t), NEW l \in Libraries, t > since'[l]
        PROVE  l \in st.libs <=> l \in floor' \cap Asked(k)
    <3>1. since'[l] = IF (l \in floor) = (l \in floor') THEN since[l] ELSE now
      BY DEF SetPublicLibraryIDs
    <3>2. (l \in floor) = (l \in floor') /\ since'[l] = since[l]
      BY <1>0, <1>3, <2>1, <3>1
    <3> QED
      BY <2>1, <3>2 DEF FloorSound
  <2>2. FloorSound(st.libs, k, t) => FloorSound(st.libs, k, t)'
    BY <2>1 DEF FloorSound, Asked
  <2> QED
    BY <1>0, <2>2 DEF Sound
<1> QED
  BY <1>0, <1>1, <1>2, <1>3, OtherSteps

LEMMA TickPreserves ==
    ASSUME Inv, Tick
    PROVE  Inv'
<1>0. now \in Nat /\ MaxLoad \in Nat /\ now' = now + 1
  BY StatsAssumption DEF Inv, TypeOK, Tick
<1>1. TypeOK' /\ HistoryInv' /\ now <= now'
  BY <1>0 DEF Inv, TypeOK, HistoryInv, Tick, caches
<1>2. \A p \in Procs : pc[p] # "idle" => now' - start[p] <= MaxLoad
  BY <1>0 DEF Inv, TypeOK, Tick
<1>3. \A st \in Stats, k \in Scopes, t \in Int : t <= now =>
          /\ Sound(st, k, t) => Sound(st, k, t)'
          /\ FloorSound(st.libs, k, t) => FloorSound(st.libs, k, t)'
  BY DEF Tick, Sound, FloorSound, Asked
<1> QED
  BY <1>1, <1>2, <1>3, OtherSteps DEF Tick

-----------------------------------------------------------------------------

\* The invariant holds in every reachable state (stats.go:67-106, cache.go:16-72,
\* host.go:36-92).
THEOREM Invariance == Spec => []Inv
<1>1. Init => Inv
  <2> SUFFICES ASSUME Init PROVE Inv
    OBVIOUS
  <2>1. now \in Nat /\ 0 \in Versions
    BY StatsAssumption DEF Init, Versions
  <2>2. scope \in [Procs -> Scopes]
    BY StatsAssumption DEF Init, AnyScope
  <2>3. TypeOK
    BY <2>1, <2>2, NoStatsIs DEF Init, TypeOK, PCs
  <2>4. HistoryInv
    BY <2>1 DEF Init, HistoryInv
  <2>5. EntryInv
    BY NoStatsIs DEF Init, EntryInv, EntryOK
  <2>6. RequestInv
    BY DEF Init, RequestInv, RequestOK
  <2> QED
    BY <2>3, <2>4, <2>5, <2>6 DEF Inv
<1>2. Inv /\ [Next]_vars => Inv'
  <2> SUFFICES ASSUME Inv, [Next]_vars PROVE Inv'
    OBVIOUS
  <2>1. ASSUME NEW p \in Procs,
               \/ Request(p) \/ StoreHit(p) \/ StoreMiss(p) \/ ReadFloor(p) \/ QueryStore(p)
               \/ StoreFails(p) \/ StoreAnswers(p)
        PROVE  Inv'
    BY <2>1, RequestPreserves, StoreHitPreserves, StoreMissPreserves, ReadFloorPreserves,
       QueryStorePreserves, StoreFailsPreserves, StoreAnswersPreserves
  <2>2. ASSUME NEW p \in Procs,
               \/ HostStats(p) \/ HostHit(p) \/ HostMiss(p) \/ HostCounts(p) \/ HostFails(p)
               \/ HostAnswers(p) \/ Reply(p)
        PROVE  Inv'
    BY <2>2, HostStatsPreserves, HostHitPreserves, HostMissPreserves, HostCountsPreserves,
       HostFailsPreserves, HostAnswersPreserves, ReplyPreserves
  <2>3. CASE HostConnects
    BY <2>3, HostConnectsPreserves
  <2>4. CASE Import
    BY <2>4, ImportPreserves
  <2>5. CASE SetPublicLibraryIDs
    BY <2>5, SetPublicLibraryIDsPreserves
  <2>6. CASE Tick
    BY <2>6, TickPreserves
  <2>7. CASE UNCHANGED vars
    BY <2>7 DEF vars, Inv, TypeOK, HistoryInv, EntryInv, EntryOK, RequestInv, RequestOK,
                Sound, FloorSound, Asked, Bare, Once
  <2> QED
    BY <2>1, <2>2, <2>3, <2>4, <2>5, <2>6, <2>7 DEF Next
<1> QED
  BY <1>1, <1>2, PTL DEF Spec

\* Every variable keeps its type, and neither cache holds the other's counts or
\* those of a failure.
THEOREM Typing == Spec => []TypeOK
<1>1. Inv => TypeOK
  BY DEF Inv
<1> QED
  BY <1>1, Invariance, PTL

\* No interleaving of hits, loads and companions' answers counts a companion
\* twice (host.go:75-92, stats.go:74-85).
THEOREM CompanionsCountedOnce == Spec => []CountedOnce
<1>1. Inv => CountedOnce
  BY DEF Inv, CountedOnce, Answered, RequestInv, RequestOK, Once
<1> QED
  BY <1>1, Invariance, PTL

\* An answer is out of date by at most TTL + MaxLoad, for every lifetime and
\* every load time (cache.go:16-72, host.go:36-69).
THEOREM CountsFollowImports == Spec => []CountsAreRecent
<1>1. Inv => CountsAreRecent
  <2> SUFFICES ASSUME Inv, NEW p \in Procs, Answered(p), got[p].version # world
               PROVE  start[p] - replaced[got[p].version] <= TTL + MaxLoad
    BY DEF CountsAreRecent
  <2>1. Sound(got[p], scope[p], start[p] - (TTL + MaxLoad))
    BY RequestFacts DEF RequestOK, Answered
  <2>2. replaced[got[p].version] >= start[p] - (TTL + MaxLoad)
    BY <2>1 DEF Sound, Answered
  <2>3. replaced[got[p].version] \in Nat
    BY RequestFacts DEF Inv, TypeOK, Stats
  <2> QED
    BY <2>2, <2>3, RequestFacts
<1> QED
  BY <1>1, Invariance, PTL

\* An allowlist edit reaches the counts of the database within TTL + MaxLoad,
\* in both directions (stats.go:69-83, catalog_stats.go:12-16).
THEOREM EditsReachCounts == Spec => []DatabaseFollowsFloor
<1>1. Inv => DatabaseFollowsFloor
  <2> SUFFICES ASSUME Inv, NEW p \in Procs, Answered(p), got[p].from = "store",
                      NEW l \in Libraries, start[p] - since[l] > TTL + MaxLoad
               PROVE  l \in got[p].libs <=> l \in floor \cap Asked(scope[p])
    BY DEF DatabaseFollowsFloor
  <2>1. Sound(got[p], scope[p], start[p] - (TTL + MaxLoad))
    BY RequestFacts DEF RequestOK, Answered
  <2>2. since[l] \in Nat
    BY DEF Inv, TypeOK
  <2>3. start[p] - (TTL + MaxLoad) > since[l]
    BY <2>2, RequestFacts
  <2> QED
    BY <2>1, <2>3 DEF Sound, FloorSound
<1> QED
  BY <1>1, Invariance, PTL

-----------------------------------------------------------------------------
(* The floor on every path, which only the way to the host leaves.         *)

\* The database answers every request, and denies none.
DatabaseAnswers == \A p \in Procs : pc[p] # "host"

\* Nothing comes from the host, of now or of the cache.
NoHostInv ==
    \A p \in Procs : /\ pc[p] \notin {"lookup", "call", "hostsources"}
                     /\ pc[p] = "answered" => got[p].from # "host"

\* As long as the database answers, all counts follow the allowlist: the turn to
\* the host is the only way around it (stats.go:69-85, store.go:55-60).
THEOREM OnlyTheHostLeavesTheFloor == Spec => ([]DatabaseAnswers => []FloorOnEveryPath)
<1>1. Init => NoHostInv
  BY DEF Init, NoHostInv
<1>2. Inv /\ DatabaseAnswers /\ NoHostInv /\ [Next]_vars => NoHostInv'
  <2> SUFFICES ASSUME Inv, DatabaseAnswers, NoHostInv, [Next]_vars PROVE NoHostInv'
    OBVIOUS
  <2>1. ASSUME NEW p \in Procs, NEW here, NEW there \in PCs, At(p, here, there),
               there \notin {"lookup", "call", "hostsources", "answered"},
               \A q \in Procs \ {p} : got'[q] = got[q]
        PROVE  NoHostInv'
    BY <2>1 DEF At, NoHostInv, Inv, TypeOK
  <2>2. ASSUME NEW p \in Procs, At(p, "cached", "answered") \/ At(p, "sources", "answered"),
               got'[p].from # "host", \A q \in Procs \ {p} : got'[q] = got[q]
        PROVE  NoHostInv'
    BY <2>2 DEF At, NoHostInv, Inv, TypeOK
  <2>3. ASSUME NEW p \in Procs, Request(p) \/ StoreMiss(p) PROVE NoHostInv'
    BY <2>1, <2>3 DEF Request, StoreMiss, PCs
  <2>4. ASSUME NEW p \in Procs, StoreHit(p) PROVE NoHostInv'
    <3>1. got'[p] = Stored(p).stats /\ Stored(p).stats.from = "store"
      BY <2>4 DEF StoreHit, Stored, Inv, TypeOK
    <3> QED
      BY <2>2, <2>4, <3>1 DEF StoreHit, Inv, TypeOK
  <2>5. ASSUME NEW p \in Procs, ReadFloor(p) \/ QueryStore(p) \/ StoreFails(p) \/ Reply(p)
        PROVE  NoHostInv'
    <3>1. \A q \in Procs \ {p} : got'[q] = got[q]
      BY <2>5 DEF ReadFloor, QueryStore, StoreFails, Reply, Inv, TypeOK
    <3> QED
      BY <2>1, <2>5, <3>1 DEF ReadFloor, QueryStore, StoreFails, Reply, PCs
  <2>6. ASSUME NEW p \in Procs, StoreAnswers(p) PROVE NoHostInv'
    <3>1. got'[p].from = got[p].from /\ \A q \in Procs \ {p} : got'[q] = got[q]
      BY <2>6 DEF StoreAnswers, WithSourceStats, Inv, TypeOK, Stats
    <3>2. got[p].from # "host"
      BY <2>6 DEF StoreAnswers, At, Inv, RequestInv, RequestOK
    <3> QED
      BY <2>2, <2>6, <3>1, <3>2 DEF StoreAnswers
  <2>7. ASSUME NEW p \in Procs,
               \/ HostStats(p) \/ HostHit(p) \/ HostMiss(p) \/ HostCounts(p) \/ HostFails(p)
               \/ HostAnswers(p)
        PROVE  NoHostInv'
    BY <2>7 DEF HostStats, HostHit, HostMiss, HostCounts, HostFails, HostAnswers, At,
                NoHostInv, DatabaseAnswers
  <2>8. CASE HostConnects \/ Import \/ SetPublicLibraryIDs \/ Tick \/ UNCHANGED vars
    BY <2>8 DEF HostConnects, Import, SetPublicLibraryIDs, Tick, vars, NoHostInv
  <2> QED
    BY <2>3, <2>4, <2>5, <2>6, <2>7, <2>8 DEF Next
<1>3. Inv /\ NoHostInv /\ DatabaseFollowsFloor => FloorOnEveryPath
  <2> SUFFICES ASSUME Inv, NoHostInv, DatabaseFollowsFloor,
                      NEW p \in Procs, Answered(p), NEW l \in got[p].libs
               PROVE  l \in floor \/ start[p] - since[l] <= TTL + MaxLoad
    BY DEF FloorOnEveryPath
  <2>1. got[p] \in Stats /\ l \in Libraries
    BY DEF Inv, TypeOK, Stats
  <2>2. got[p].from = "store"
    BY <2>1 DEF Answered, NoHostInv, Stats
  <2>3. start[p] \in Nat /\ since[l] \in Nat /\ TTL \in Nat /\ MaxLoad \in Nat
    BY <2>1, StatsAssumption DEF Inv, TypeOK
  <2> QED
    BY <2>1, <2>2, <2>3 DEF DatabaseFollowsFloor
<1> QED
  BY <1>1, <1>2, <1>3, Invariance, EditsReachCounts, PTL DEF Spec
=============================================================================
