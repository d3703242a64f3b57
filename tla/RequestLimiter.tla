--------------------------- MODULE RequestLimiter ---------------------------
(***************************************************************************)
(* The fixed-window request counter in front of the public read endpoints  *)
(* (internal/server/ratelimit.go, ipRateLimiter and rateLimitMiddleware).  *)
(*                                                                         *)
(* allow reads the clock before it locks the mutex, so requests may enter  *)
(* the critical section in another order than that of their readings.      *)
(***************************************************************************)
EXTENDS Integers, Sequences

CONSTANTS
    Procs,    \* requests in flight
    IPs,      \* client addresses
    NoIP,     \* no request
    Limit,    \* requests per window (server.go: 120)
    Window,   \* its length (server.go: 1 minute)
    MaxLag,   \* bound: longest wait for the limiter's mutex
    MaxTime   \* bound: the clock stops here

ASSUME LimiterAssumption ==
    /\ NoIP \notin IPs
    /\ Limit \in Nat \ {0}
    /\ Window \in Nat \ {0}
    /\ MaxLag \in Nat
    /\ MaxTime \in Nat

VARIABLES
    now,       \* the clock
    buckets,   \* ipRateLimiter.buckets
    lastSwep,  \* ipRateLimiter.lastSwep
    ip,        \* per request that waits for the mutex: its address
    stamp,     \* ... and the clock as it read it
    passed     \* per address: when requests were let through (history)

vars == <<now, buckets, lastSwep, ip, stamp, passed>>

\* A map entry; a count of 0 stands for an address with no entry.
Bucket == [count : 0..Limit, windowStart : Nat]

NoBucket == [count |-> 0, windowStart |-> 0]

TypeOK ==
    /\ now \in Nat
    /\ buckets \in [IPs -> Bucket]
    /\ lastSwep \in Nat
    /\ ip \in [Procs -> IPs \cup {NoIP}]
    /\ stamp \in [Procs -> Nat]
    /\ passed \in [IPs -> Seq(Nat)]

Init ==
    /\ now = 1
    /\ buckets = [a \in IPs |-> NoBucket]
    /\ lastSwep = 1
    /\ ip = [p \in Procs |-> NoIP]
    /\ stamp = [p \in Procs |-> 0]
    /\ passed = [a \in IPs |-> <<>>]

-----------------------------------------------------------------------------

\* rateLimitMiddleware calls allow, which reads the clock.
Arrive(p, a) ==
    /\ ip[p] = NoIP
    /\ ip' = [ip EXCEPT ![p] = a]
    /\ stamp' = [stamp EXCEPT ![p] = now]
    /\ UNCHANGED <<now, buckets, lastSwep, passed>>

\* Mutant of Expired: the window is not waited for.
ExpiredAtOnce(b, t) == t > b.windowStart

Expired(b, t) == t - b.windowStart >= Window

SweepDue(t) == t - lastSwep >= Window

\* sweepLocked: at most once per window, drop the expired buckets.
Swept(t) == [a \in IPs |-> IF SweepDue(t) /\ Expired(buckets[a], t) THEN NoBucket ELSE buckets[a]]

\* The bucket a request of address a finds after the sweep and, when there is
\* none or it has expired, the fresh one that takes its place.
Current(a, t) ==
    LET b == Swept(t)[a]
    IN  IF b.count = 0 \/ Expired(b, t) THEN [count |-> 0, windowStart |-> t] ELSE b

\* allow under the mutex, up to its verdict.
Enter(p) ==
    /\ ip[p] # NoIP
    /\ lastSwep' = IF SweepDue(stamp[p]) THEN stamp[p] ELSE lastSwep
    /\ ip' = [ip EXCEPT ![p] = NoIP]
    /\ stamp' = [stamp EXCEPT ![p] = 0]

\* Mutant of Full: the limit is passed by one.
FullOneLate(b) == b.count > Limit

Full(b) == b.count >= Limit

\* The request goes on to its handler.
Allow(p) ==
    LET a == ip[p]
        b == Current(a, stamp[p])
    IN  /\ Enter(p)
        /\ ~Full(b)
        /\ buckets' = [Swept(stamp[p]) EXCEPT ![a] = [b EXCEPT !.count = b.count + 1]]
        /\ passed' = [passed EXCEPT ![a] = Append(passed[a], now)]
        /\ UNCHANGED now

\* Mutant of Refuse: refused requests keep the window open.
RefuseExtends(p) ==
    LET a == ip[p]
        b == Current(a, stamp[p])
    IN  /\ Enter(p)
        /\ Full(b)
        /\ buckets' = [Swept(stamp[p]) EXCEPT ![a] = [b EXCEPT !.windowStart = stamp[p]]]
        /\ UNCHANGED <<now, passed>>

\* The 429 answer.
Refuse(p) ==
    /\ Enter(p)
    /\ Full(Current(ip[p], stamp[p]))
    /\ buckets' = Swept(stamp[p])
    /\ UNCHANGED <<now, passed>>

\* Time passes; nobody waits for the mutex longer than MaxLag.
Tick ==
    /\ now < MaxTime
    /\ \A p \in Procs : ip[p] # NoIP => now - stamp[p] < MaxLag
    /\ now' = now + 1
    /\ UNCHANGED <<buckets, lastSwep, ip, stamp, passed>>

Next ==
    \/ \E p \in Procs : (\E a \in IPs : Arrive(p, a)) \/ Allow(p) \/ Refuse(p)
    \/ Tick

Spec == Init /\ [][Next]_vars

-----------------------------------------------------------------------------
(* Properties. *)

\* One more request of an address than two windows allow takes longer to be let
\* through than a window less the wait for the mutex, whatever the sweep and late
\* readings of the clock do to its buckets (ratelimit.go:40-43, 66-86).
WindowBudget ==
    \A a \in IPs : \A i \in 1..(Len(passed[a]) - 2 * Limit) :
        passed[a][i + 2 * Limit] - passed[a][i] >= Window - MaxLag

\* The last Limit requests of address a were let through within a window and
\* the wait for the mutex.
UsedUp(a) ==
    LET first == Len(passed[a]) - Limit + 1
    IN  first > 0 /\ now - passed[a][first] < Window + MaxLag

\* A request is refused only if its address was let through Limit times within
\* the last window: refusals do not feed on themselves and no bucket is
\* charged for another address (ratelimit.go:77-85).
RefusedOnlyWhenFull == [][\A p \in Procs : Refuse(p) => UsedUp(ip[p])]_vars

\* The map does not keep an address for ever: what the last sweep left began
\* within a window of it (ratelimit.go:88-100).
SweptIsFresh ==
    \A a \in IPs : buckets[a].count > 0 => lastSwep - buckets[a].windowStart < Window + MaxLag
=============================================================================
