----------------------------- MODULE LoginGate -----------------------------
(***************************************************************************)
(* Password logins: the per-address failure limiter and the semaphore that *)
(* caps bcrypt verifications (internal/server/ratelimit.go, loginLimiter   *)
(* and bcryptSemaphore), and the order in which hCatalogLogin uses them    *)
(* (internal/server/handlers_auth.go).                                     *)
(*                                                                         *)
(* allow and recordFailure read the clock and then wait for the mutex, so  *)
(* each is two steps: the reading, kept in stamp, and the critical section.*)
(* Between them, and between allow and recordFailure, a login holds nothing*)
(* but, while it verifies, one semaphore slot.                             *)
(***************************************************************************)
EXTENDS Integers, FiniteSets, Sequences

CONSTANTS
    Procs,        \* login requests in flight
    IPs,          \* client addresses
    NoIP,         \* no request
    MaxFailures,  \* failures that arm a lockout (server.go: 8)
    Lockout,      \* its length (server.go: 5 minutes)
    Slots,        \* concurrent verifications (GOMAXPROCS)
    MaxLag,       \* bound: longest wait for the limiter's mutex
    MaxTime       \* bound: the clock stops here

ASSUME LoginAssumption ==
    /\ IsFiniteSet(Procs)
    /\ NoIP \notin IPs
    /\ MaxFailures \in Nat \ {0}
    /\ Lockout \in Nat \ {0}
    /\ Slots \in Nat \ {0}
    /\ MaxLag \in Nat
    /\ MaxTime \in Nat

VARIABLES
    now,        \* the clock
    attempts,   \* loginLimiter.attempts
    lastSwep,   \* loginLimiter.lastSwep
    slots,      \* occupied entries of bcryptSemaphore.slots
    pc, ip,     \* per request: where it is, and its address
    stamp,      \* per request: the clock as it last read it
    sentence,   \* per address: end of the last lockout, 0 once lifted (history)
    failed      \* per address: when it failed since a success (history)

vars == <<now, attempts, lastSwep, slots, pc, ip, stamp, sentence, failed>>
history == <<sentence, failed>>

\* A request that waits for the limiter's mutex with a reading of the clock.
Timed == {"arriving", "recording"}

\* A request the limiter has let in and whose result is not being recorded.
Served == {"config", "queued", "verifying", "passed", "failed"}

PCs == {"idle"} \cup Timed \cup Served

\* A map entry; the zero time of a fresh entry is 0 and the clock starts at 1.
Attempt == [known : BOOLEAN, failures : 0..(MaxFailures - 1), lockedUntil : Nat, lastSeen : Nat]

NoAttempt == [known |-> FALSE, failures |-> 0, lockedUntil |-> 0, lastSeen |-> 0]

TypeOK ==
    /\ now \in Nat
    /\ attempts \in [IPs -> Attempt]
    /\ lastSwep \in Nat
    /\ slots \in Nat
    /\ pc \in [Procs -> PCs]
    /\ ip \in [Procs -> IPs \cup {NoIP}]
    /\ stamp \in [Procs -> Nat]
    /\ sentence \in [IPs -> Nat]
    /\ failed \in [IPs -> Seq(Nat)]

Init ==
    /\ now = 1
    /\ attempts = [a \in IPs |-> NoAttempt]
    /\ lastSwep = 1
    /\ slots = 0
    /\ pc = [p \in Procs |-> "idle"]
    /\ ip = [p \in Procs |-> NoIP]
    /\ stamp = [p \in Procs |-> 0]
    /\ sentence = [a \in IPs |-> 0]
    /\ failed = [a \in IPs |-> <<>>]

-----------------------------------------------------------------------------
(* loginLimiter. *)

At(p, here, next) == pc[p] = here /\ pc' = [pc EXCEPT ![p] = next]

\* The request is answered.
Answer(p, here) ==
    /\ At(p, here, "idle")
    /\ ip' = [ip EXCEPT ![p] = NoIP]
    /\ stamp' = [stamp EXCEPT ![p] = 0]

\* Mutants of Stale: any entry not of this instant; only entries that were
\* locked out at some time.
StaleAtOnce(a, t) == t > a.lastSeen

StaleIfLocked(a, t) == a.lockedUntil # 0 /\ t > a.lockedUntil /\ t - a.lastSeen > Lockout

\* sweepLocked: at most once per lockout length, drop what is stale.
Stale(a, t) == t > a.lockedUntil /\ t - a.lastSeen > Lockout

SweepDue(t) == t - lastSwep >= Lockout

Swept(t) ==
    [a \in IPs |-> IF SweepDue(t) /\ Stale(attempts[a], t) THEN NoAttempt ELSE attempts[a]]

SweepLocked(t) ==
    /\ attempts' = Swept(t)
    /\ lastSwep' = IF SweepDue(t) THEN t ELSE lastSwep

\* A request arrives: allow reads the clock.
Arrive(p, a) ==
    /\ At(p, "idle", "arriving")
    /\ ip' = [ip EXCEPT ![p] = a]
    /\ stamp' = [stamp EXCEPT ![p] = now]
    /\ UNCHANGED <<now, attempts, lastSwep, slots, history>>

\* allow under the mutex: sweep, then refuse an address that is locked out.
Admit(p) ==
    /\ At(p, "arriving", "config")
    /\ SweepLocked(stamp[p])
    /\ stamp[p] >= Swept(stamp[p])[ip[p]].lockedUntil
    /\ UNCHANGED <<now, slots, ip, stamp, history>>

Refuse(p) ==
    /\ Answer(p, "arriving")
    /\ SweepLocked(stamp[p])
    /\ stamp[p] < Swept(stamp[p])[ip[p]].lockedUntil
    /\ UNCHANGED <<now, slots, history>>

\* A failure of address a at t, which leaves its counter at f.
Failure(a, f, arms, t) ==
    /\ attempts' = [attempts EXCEPT ![a] =
           [known       |-> TRUE,
            failures    |-> f,
            lockedUntil |-> IF arms THEN t + Lockout ELSE attempts[a].lockedUntil,
            lastSeen    |-> t]]
    /\ sentence' = IF arms THEN [sentence EXCEPT ![a] = t + Lockout] ELSE sentence
    /\ failed' = [failed EXCEPT ![a] = Append(failed[a], now)]

\* Mutants of RecordFailure: the lockout comes a failure late; the counter
\* is not reset.
RecordFailureLate(a, t) ==
    LET f == attempts[a].failures + 1
    IN  Failure(a, IF f > MaxFailures THEN 0 ELSE f, f > MaxFailures, t)

RecordFailureNoReset(a, t) ==
    LET f == attempts[a].failures + 1 IN Failure(a, f, f >= MaxFailures, t)

\* recordFailure under the mutex: count, and arm a lockout at the threshold.
RecordFailure(a, t) ==
    LET f == attempts[a].failures + 1
    IN  Failure(a, IF f >= MaxFailures THEN 0 ELSE f, f >= MaxFailures, t)

\* recordSuccess: forget the address.
RecordSuccess(a) ==
    /\ attempts' = [attempts EXCEPT ![a] = NoAttempt]
    /\ sentence' = [sentence EXCEPT ![a] = 0]
    /\ failed' = [failed EXCEPT ![a] = <<>>]

-----------------------------------------------------------------------------
(* hCatalogLogin after the limiter. *)

\* A bad body, a failed GetConfig, or an open catalog: answered at once.
AnswerEarly(p) ==
    /\ Answer(p, "config")
    /\ UNCHANGED <<now, attempts, lastSwep, slots, history>>

\* A password is required but none is set: a failure without verification.
NoPasswordSet(p) ==
    /\ At(p, "config", "recording")
    /\ stamp' = [stamp EXCEPT ![p] = now]
    /\ UNCHANGED <<now, attempts, lastSwep, slots, ip, history>>

WaitForSlot(p) ==
    /\ At(p, "config", "queued")
    /\ UNCHANGED <<now, attempts, lastSwep, slots, ip, stamp, history>>

\* bcryptSemaphore.acquire.
Acquire(p) ==
    /\ At(p, "queued", "verifying")
    /\ slots < Slots
    /\ slots' = slots + 1
    /\ UNCHANGED <<now, attempts, lastSwep, ip, stamp, history>>

\* bcryptSemaphore.release: a receive that does nothing on an empty channel.
Release == slots' = IF slots > 0 THEN slots - 1 ELSE 0

\* Mutant of Disconnect: the slot is released whether acquired or not.
DisconnectReleases(p) ==
    /\ Answer(p, "queued")
    /\ Release
    /\ UNCHANGED <<now, attempts, lastSwep, history>>

\* The client went away while the request waited.
Disconnect(p) ==
    /\ Answer(p, "queued")
    /\ UNCHANGED <<now, attempts, lastSwep, slots, history>>

\* Mutant of Verify: a failed verification returns without its release.
VerifyKeepsSlot(p) ==
    /\ \/ At(p, "verifying", "passed") /\ Release
       \/ At(p, "verifying", "failed") /\ UNCHANGED slots
    /\ UNCHANGED <<now, attempts, lastSwep, ip, stamp, history>>

\* VerifyCatalogPassword returns and the slot is given back; the result is
\* recorded in a later step.
Verify(p) ==
    /\ \E verdict \in {"passed", "failed"} : At(p, "verifying", verdict)
    /\ Release
    /\ UNCHANGED <<now, attempts, lastSwep, ip, stamp, history>>

Passed(p) ==
    /\ Answer(p, "passed")
    /\ RecordSuccess(ip[p])
    /\ UNCHANGED <<now, lastSwep, slots>>

\* recordFailure reads the clock, then takes the mutex.
Failed(p) ==
    /\ At(p, "failed", "recording")
    /\ stamp' = [stamp EXCEPT ![p] = now]
    /\ UNCHANGED <<now, attempts, lastSwep, slots, ip, history>>

Record(p) ==
    /\ Answer(p, "recording")
    /\ RecordFailure(ip[p], stamp[p])
    /\ UNCHANGED <<now, lastSwep, slots>>

\* Time passes; nobody waits for the mutex longer than MaxLag.
Tick ==
    /\ now < MaxTime
    /\ \A p \in Procs : pc[p] \in Timed => now - stamp[p] < MaxLag
    /\ now' = now + 1
    /\ UNCHANGED <<attempts, lastSwep, slots, pc, ip, stamp, history>>

Continue(p) ==
    \/ Admit(p) \/ Refuse(p)
    \/ AnswerEarly(p) \/ NoPasswordSet(p) \/ WaitForSlot(p)
    \/ Verify(p) \/ Passed(p) \/ Failed(p) \/ Record(p)

Next ==
    \/ \E p \in Procs :
          \/ \E a \in IPs : Arrive(p, a)
          \/ Continue(p)
          \/ Acquire(p)
          \/ Disconnect(p)
    \/ Tick

Spec == Init /\ [][Next]_vars

\* A runnable goroutine runs, and so does one that waits for the mutex; a
\* sender blocked on the semaphore's channel is served in turn, so it is not
\* passed over for ever.
Fairness == \A p \in Procs : WF_vars(Continue(p)) /\ SF_vars(Acquire(p))

FairSpec == Spec /\ Fairness

-----------------------------------------------------------------------------
(* Properties. *)

\* The occupied slots are those of the requests that verify, at most Slots of
\* them: no path keeps a slot or gives back another's (handlers_auth.go:64-69,
\* ratelimit.go:225-245).
Verifying == {p \in Procs : pc[p] = "verifying"}

SlotsAreHeld == slots = Cardinality(Verifying) /\ slots <= Slots

\* No request is served that was let in during a lockout of its address no
\* success has lifted: sweeps, late failures and re-arming included
\* (ratelimit.go:144-160, 164-184, 196-206).
LockoutHolds ==
    \A p \in Procs : pc[p] \in Served =>
        LET end == sentence[ip[p]]
        IN  stamp[p] + Lockout <= end + MaxLag \/ end <= stamp[p] + MaxLag

\* Failures of an address in less than a lockout: MaxFailures, and one for every
\* other request that was already past the limiter when the lockout was armed.
Guesses == MaxFailures + Cardinality(Procs) - 1

\* Between two successes one failure more than that takes at least a lockout less
\* the wait for the mutex, whatever is swept, re-armed or recorded late meanwhile
\* (ratelimit.go:162-184).
GuessRate ==
    \A a \in IPs : \A i \in 1..(Len(failed[a]) - Guesses) :
        failed[a][i + Guesses] - failed[a][i] >= Lockout - MaxLag

\* The map does not keep an address for ever: what the last sweep left had
\* failed within a lockout length of it (ratelimit.go:196-206).
SweptIsFresh ==
    \A a \in IPs : attempts[a].known => lastSwep - attempts[a].lastSeen <= Lockout + MaxLag

\* Every login is answered, however many wait for a slot.
LoginAnswered == \A p \in Procs : pc[p] # "idle" ~> pc[p] = "idle"
=============================================================================
