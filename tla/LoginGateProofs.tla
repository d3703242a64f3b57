-------------------------- MODULE LoginGateProofs --------------------------
(***************************************************************************)
(* Theorems about LoginGate, for every finite set of requests, every set   *)
(* of addresses, every limit, lockout length and wait for the mutex.       *)
(***************************************************************************)
EXTENDS LoginGate, FiniteSetTheorems, SequenceTheorems, TLAPS

-----------------------------------------------------------------------------
(* Types.                                                                  *)

LEMMA NoAttemptTyped == NoAttempt \in Attempt
  BY LoginAssumption DEF NoAttempt, Attempt

LEMMA SweptTyped ==
  ASSUME TypeOK, NEW t \in Nat
  PROVE  /\ Swept(t) \in [IPs -> Attempt]
         /\ SweepLocked(t) => attempts' \in [IPs -> Attempt] /\ lastSwep' \in Nat
  <1>1. \A a \in IPs : attempts[a] \in Attempt
    BY DEF TypeOK
  <1>2. Swept(t) \in [IPs -> Attempt]
    BY <1>1, NoAttemptTyped DEF Swept
  <1> QED BY <1>2 DEF SweepLocked, TypeOK

LEMMA AnswerTyped ==
  ASSUME TypeOK, NEW p \in Procs, NEW here, Answer(p, here)
  PROVE  /\ pc' \in [Procs -> PCs]
         /\ ip' \in [Procs -> IPs \cup {NoIP}]
         /\ stamp' \in [Procs -> Nat]
  BY DEF Answer, At, TypeOK, PCs

LEMMA AtTyped ==
  ASSUME TypeOK, NEW p \in Procs, NEW here, NEW there \in PCs, At(p, here, there)
  PROVE  pc' \in [Procs -> PCs]
  BY DEF At, TypeOK

\* What a failure does to its address, and to no other.
LEMMA FailureIs ==
  ASSUME TypeOK, NEW a \in IPs, NEW t \in Nat, RecordFailure(a, t)
  PROVE  /\ attempts' \in [IPs -> Attempt]
         /\ sentence' \in [IPs -> Nat]
         /\ failed' \in [IPs -> Seq(Nat)] /\ failed'[a] = Append(failed[a], now)
         /\ attempts'[a].known /\ attempts'[a].lastSeen = t
         /\ \/ attempts'[a].lockedUntil = t + Lockout /\ sentence'[a] = t + Lockout
            \/ attempts'[a].lockedUntil = attempts[a].lockedUntil /\ sentence'[a] = sentence[a]
         /\ \A b \in IPs \ {a} : /\ attempts'[b] = attempts[b] /\ sentence'[b] = sentence[b]
                               /\ failed'[b] = failed[b]
  <1> DEFINE f == attempts[a].failures + 1
             arms == f >= MaxFailures
             left == IF arms THEN 0 ELSE f
             until == IF arms THEN t + Lockout ELSE attempts[a].lockedUntil
             e == [known |-> TRUE, failures |-> left, lockedUntil |-> until, lastSeen |-> t]
  <1>1. attempts[a] \in Attempt
    BY DEF TypeOK
  <1>2. attempts[a].failures \in 0..(MaxFailures - 1) /\ attempts[a].lockedUntil \in Nat
    BY <1>1 DEF Attempt
  <1>3. left \in 0..(MaxFailures - 1)
    BY <1>2, LoginAssumption
  <1>4. until \in Nat
    BY <1>2, LoginAssumption
  <1>5. attempts' = [attempts EXCEPT ![a] = e]
    BY DEF RecordFailure, Failure
  <1>6. sentence' = IF arms THEN [sentence EXCEPT ![a] = t + Lockout] ELSE sentence
    BY DEF RecordFailure, Failure
  <1>7. failed' = [failed EXCEPT ![a] = Append(failed[a], now)]
    BY DEF RecordFailure, Failure
  <1>8. /\ failed' \in [IPs -> Seq(Nat)]
        /\ failed'[a] = Append(failed[a], now)
        /\ \A b \in IPs \ {a} : failed'[b] = failed[b]
    <2>1. Append(failed[a], now) \in Seq(Nat)
      BY AppendProperties DEF TypeOK
    <2> QED BY <1>7, <2>1 DEF TypeOK
  <1> HIDE DEF left, until, arms
  <1>9. e \in Attempt
    BY <1>3, <1>4 DEF Attempt
  <1>10. attempts' \in [IPs -> Attempt] /\ attempts'[a] = e
    BY <1>5, <1>9 DEF TypeOK
  <1>11. \A b \in IPs \ {a} : attempts'[b] = attempts[b]
    BY <1>5 DEF TypeOK
  <1>12. CASE arms
    <2>1. sentence' = [sentence EXCEPT ![a] = t + Lockout] /\ t + Lockout \in Nat
      BY <1>6, <1>12, LoginAssumption
    <2>2. until = t + Lockout
      BY <1>12 DEF until
    <2> QED BY <1>8, <1>10, <1>11, <2>1, <2>2 DEF TypeOK
  <1>13. CASE ~arms
    <2>1. sentence' = sentence
      BY <1>6, <1>13
    <2>2. until = attempts[a].lockedUntil
      BY <1>13 DEF until
    <2> QED BY <1>8, <1>10, <1>11, <2>1, <2>2 DEF TypeOK
  <1> QED BY <1>12, <1>13

LEMMA SuccessIs ==
  ASSUME TypeOK, NEW a \in IPs, RecordSuccess(a)
  PROVE  /\ attempts' \in [IPs -> Attempt]
         /\ sentence' \in [IPs -> Nat]
         /\ failed' \in [IPs -> Seq(Nat)] /\ failed'[a] = <<>>
         /\ attempts'[a] = NoAttempt /\ sentence'[a] = 0
         /\ \A b \in IPs \ {a} : /\ attempts'[b] = attempts[b] /\ sentence'[b] = sentence[b]
                               /\ failed'[b] = failed[b]
  <1>1. <<>> \in Seq(Nat)
    BY EmptySeq
  <1> QED BY <1>1, NoAttemptTyped DEF RecordSuccess, TypeOK

-----------------------------------------------------------------------------
(* The strengthening: readings of the clock are recent, entries of the map *)
(* are bounded by it, and a lockout on record is either in the map or over.*)

ClockInv ==
    /\ lastSwep <= now
    /\ \A p \in Procs :
          /\ stamp[p] <= now
          /\ pc[p] # "idle" => ip[p] \in IPs
          /\ pc[p] \in Timed => now - stamp[p] <= MaxLag

EntryInv ==
    \A a \in IPs :
        /\ attempts[a].lastSeen <= now
        /\ attempts[a].lockedUntil <= now + Lockout
        /\ attempts[a].lockedUntil <= attempts[a].lastSeen + Lockout + MaxLag
        /\ sentence[a] = attempts[a].lockedUntil \/ sentence[a] <= now

Inv == TypeOK /\ ClockInv /\ EntryInv /\ SweptIsFresh /\ LockoutHolds

\* A step of p that leaves the limiter alone: p keeps its admission, or is
\* answered, or has just read the clock.
Quiet(p) ==
    /\ UNCHANGED <<now, attempts, lastSwep, history>>
    /\ \E there \in PCs :
          /\ pc' = [pc EXCEPT ![p] = there]
          /\ \/ there \in Served /\ pc[p] \in Served /\ UNCHANGED <<ip, stamp>>
             \/ there = "idle" /\ stamp' = [stamp EXCEPT ![p] = 0]
                               /\ ip' = [ip EXCEPT ![p] = NoIP]
             \/ there \in Timed /\ stamp' = [stamp EXCEPT ![p] = now]
                               /\ ip' \in [Procs -> IPs \cup {NoIP}]
                               /\ ip'[p] \in IPs
                               /\ \A q \in Procs \ {p} : ip'[q] = ip[q]

LEMMA QuietStep ==
  ASSUME Inv, NEW p \in Procs, Quiet(p), slots' \in Nat
  PROVE  Inv'
  <1> USE DEF Inv
  <1>1. PICK there \in PCs :
          /\ pc' = [pc EXCEPT ![p] = there]
          /\ \/ there \in Served /\ pc[p] \in Served /\ UNCHANGED <<ip, stamp>>
             \/ there = "idle" /\ stamp' = [stamp EXCEPT ![p] = 0]
                               /\ ip' = [ip EXCEPT ![p] = NoIP]
             \/ there \in Timed /\ stamp' = [stamp EXCEPT ![p] = now]
                               /\ ip' \in [Procs -> IPs \cup {NoIP}]
                               /\ ip'[p] \in IPs
                               /\ \A q \in Procs \ {p} : ip'[q] = ip[q]
    BY DEF Quiet
  <1>2. UNCHANGED <<now, attempts, lastSwep, sentence, failed>>
    BY DEF Quiet, history
  <1>3. /\ pc' \in [Procs -> PCs] /\ pc'[p] = there
        /\ ip' \in [Procs -> IPs \cup {NoIP}]
        /\ stamp' \in [Procs -> Nat]
        /\ \A q \in Procs \ {p} : pc'[q] = pc[q] /\ ip'[q] = ip[q] /\ stamp'[q] = stamp[q]
    <2>1. /\ pc \in [Procs -> PCs] /\ stamp \in [Procs -> Nat] /\ now \in Nat
          /\ ip \in [Procs -> IPs \cup {NoIP}]
      BY DEF TypeOK
    <2>2. pc' \in [Procs -> PCs] /\ pc'[p] = there /\ \A q \in Procs \ {p} : pc'[q] = pc[q]
      BY <1>1, <2>1
    <2>3. stamp' \in [Procs -> Nat] /\ \A q \in Procs \ {p} : stamp'[q] = stamp[q]
      BY <1>1, <2>1
    <2>4. ip' \in [Procs -> IPs \cup {NoIP}] /\ \A q \in Procs \ {p} : ip'[q] = ip[q]
      BY <1>1, <2>1
    <2> QED BY <2>2, <2>3, <2>4
  <1>4. \/ there \in Served /\ pc[p] \in Served /\ ip'[p] = ip[p] /\ stamp'[p] = stamp[p]
        \/ there = "idle" /\ stamp'[p] = 0
        \/ there \in Timed /\ stamp'[p] = now /\ ip'[p] \in IPs
    BY <1>1 DEF TypeOK
  <1>5. TypeOK'
    BY <1>2, <1>3 DEF TypeOK
  <1>6. ClockInv'
    <2>1. now \in Nat /\ MaxLag \in Nat /\ now' = now /\ lastSwep' = lastSwep
      BY <1>2, LoginAssumption DEF TypeOK
    <2>2. ASSUME NEW q \in Procs
          PROVE  /\ stamp'[q] <= now'
                 /\ pc'[q] # "idle" => ip'[q] \in IPs
                 /\ pc'[q] \in Timed => now' - stamp'[q] <= MaxLag
      BY <1>3, <1>4, <2>1 DEF ClockInv, Timed, Served
    <2> QED BY <2>1, <2>2 DEF ClockInv
  <1>7. EntryInv' /\ SweptIsFresh'
    BY <1>2 DEF EntryInv, SweptIsFresh
  <1>8. LockoutHolds'
    <2>1. ASSUME NEW q \in Procs, pc'[q] \in Served
          PROVE  pc[q] \in Served /\ ip'[q] = ip[q] /\ stamp'[q] = stamp[q]
      BY <1>3, <1>4, <2>1 DEF Timed, Served
    <2> QED BY <1>2, <2>1 DEF LockoutHolds
  <1> QED BY <1>5, <1>6, <1>7, <1>8

\* The sweep keeps the map's entries within their bounds, and drops none whose
\* lockout is not over.
LEMMA SweepStep ==
  ASSUME TypeOK, EntryInv, SweptIsFresh, lastSwep <= now,
         NEW t \in Nat, t <= now, SweepLocked(t), UNCHANGED <<now, sentence>>
  PROVE  /\ EntryInv' /\ SweptIsFresh' /\ lastSwep' <= now'
         /\ \A a \in IPs : t >= attempts'[a].lockedUntil =>
               sentence[a] <= t \/ sentence[a] <= now
  <1>1. /\ now \in Nat /\ lastSwep \in Nat /\ Lockout \in Nat \ {0} /\ MaxLag \in Nat
        /\ now' = now /\ sentence' = sentence
    BY LoginAssumption DEF TypeOK
  <1>2. lastSwep' = IF SweepDue(t) THEN t ELSE lastSwep
    BY DEF SweepLocked
  <1>3. ASSUME NEW a \in IPs
        PROVE  /\ attempts[a] \in Attempt /\ attempts[a].lockedUntil \in Nat
               /\ attempts[a].lastSeen \in Nat /\ sentence[a] \in Nat
               /\ attempts'[a] = IF SweepDue(t) /\ Stale(attempts[a], t)
                                 THEN NoAttempt ELSE attempts[a]
    <2>1. attempts[a] \in Attempt
      BY DEF TypeOK
    <2> QED BY <2>1 DEF Attempt, SweepLocked, Swept, TypeOK
  <1>4. ASSUME NEW a \in IPs
        PROVE  /\ attempts'[a].lastSeen <= now
               /\ attempts'[a].lockedUntil <= now + Lockout
               /\ attempts'[a].lockedUntil <= attempts'[a].lastSeen + Lockout + MaxLag
               /\ sentence[a] = attempts'[a].lockedUntil \/ sentence[a] <= now
               /\ attempts'[a].known => lastSwep' - attempts'[a].lastSeen <= Lockout + MaxLag
               /\ t >= attempts'[a].lockedUntil => sentence[a] <= t \/ sentence[a] <= now
    <2>1. CASE SweepDue(t) /\ Stale(attempts[a], t)
      <3>1. attempts'[a] = NoAttempt /\ t > attempts[a].lockedUntil
        BY <1>3, <2>1 DEF Stale
      <3>2. /\ ~attempts'[a].known
            /\ attempts'[a].lastSeen = 0
            /\ attempts'[a].lockedUntil = 0
        BY <3>1 DEF NoAttempt
      <3>3. sentence[a] <= now
        BY <1>1, <1>3, <3>1 DEF EntryInv
      <3> QED BY <1>1, <1>3, <3>2, <3>3
    <2>2. CASE ~(SweepDue(t) /\ Stale(attempts[a], t))
      <3>1. attempts'[a] = attempts[a]
        BY <1>3, <2>2
      <3>2. attempts[a].known => lastSwep' - attempts[a].lastSeen <= Lockout + MaxLag
        <4>1. CASE SweepDue(t)
          <5>1. t <= attempts[a].lockedUntil \/ t - attempts[a].lastSeen <= Lockout
            BY <1>1, <1>3, <2>2, <4>1 DEF Stale
          <5> QED BY <1>1, <1>2, <1>3, <4>1, <5>1 DEF EntryInv
        <4>2. CASE ~SweepDue(t)
          BY <1>2, <4>2 DEF SweptIsFresh
        <4> QED BY <4>1, <4>2
      <3> QED BY <1>1, <1>3, <3>1, <3>2 DEF EntryInv
    <2> QED BY <2>1, <2>2
  <1>5. lastSwep' <= now'
    BY <1>1, <1>2
  <1> QED BY <1>1, <1>4, <1>5 DEF EntryInv, SweptIsFresh

\* A request that a limiter step answers: everybody else is where they were.
LEMMA AnswerIs ==
  ASSUME TypeOK, ClockInv, NEW p \in Procs, NEW here, Answer(p, here), UNCHANGED now
  PROVE  /\ \A q \in Procs : pc'[q] # "idle" =>
               q # p /\ pc'[q] = pc[q] /\ ip'[q] = ip[q] /\ stamp'[q] = stamp[q]
         /\ \A q \in Procs : stamp'[q] <= now'
  <1>1. now \in Nat /\ now' = now
    BY DEF TypeOK
  <1>2. pc'[p] = "idle" /\ stamp'[p] = 0
    BY DEF Answer, At, TypeOK
  <1>3. \A q \in Procs \ {p} : pc'[q] = pc[q] /\ ip'[q] = ip[q] /\ stamp'[q] = stamp[q]
    BY DEF Answer, At, TypeOK
  <1> QED BY <1>1, <1>2, <1>3 DEF ClockInv

LEMMA AdmitStep == ASSUME Inv, NEW p \in Procs, Admit(p) PROVE Inv'
  <1> USE DEF Inv
  <1> DEFINE t == stamp[p]
  <1>1. t \in Nat /\ t <= now /\ lastSwep <= now /\ pc[p] = "arriving" /\ ip[p] \in IPs
        /\ now - t <= MaxLag
    BY DEF Admit, At, TypeOK, ClockInv, Timed
  <1>2. /\ pc' = [pc EXCEPT ![p] = "config"] /\ SweepLocked(t)
        /\ t >= Swept(t)[ip[p]].lockedUntil
        /\ UNCHANGED <<now, slots, ip, stamp, sentence, failed>>
    BY DEF Admit, At, history
  <1>3. TypeOK'
    <2>1. attempts' \in [IPs -> Attempt] /\ lastSwep' \in Nat
      BY <1>1, <1>2, SweptTyped
    <2>2. pc' \in [Procs -> PCs]
      BY <1>2 DEF TypeOK, PCs, Served
    <2> QED BY <1>2, <2>1, <2>2 DEF TypeOK
  <1>4. /\ EntryInv' /\ SweptIsFresh' /\ lastSwep' <= now'
        /\ t >= attempts'[ip[p]].lockedUntil => sentence[ip[p]] <= t \/ sentence[ip[p]] <= now
    BY <1>1, <1>2, SweepStep
  <1>5. /\ pc'[p] = "config"
        /\ \A q \in Procs \ {p} : pc'[q] = pc[q]
    BY <1>2 DEF TypeOK
  <1>6. ClockInv'
    <2>1. now' = now /\ lastSwep' <= now' /\ ip' = ip /\ stamp' = stamp
      BY <1>2, <1>4
    <2>2. \A q \in Procs : q = p \/ pc'[q] = pc[q]
      BY <1>5
    <2> QED BY <1>1, <1>5, <2>1, <2>2 DEF ClockInv, Timed
  <1>7. LockoutHolds'
    <2>1. sentence[ip[p]] <= t + MaxLag
      <3>1. sentence[ip[p]] <= t \/ sentence[ip[p]] <= now
        BY <1>2, <1>4 DEF SweepLocked
      <3> QED BY <1>1, <3>1, LoginAssumption DEF TypeOK
    <2>2. ASSUME NEW q \in Procs, pc'[q] \in Served
          PROVE  LET end == sentence[ip[q]]
                 IN  stamp[q] + Lockout <= end + MaxLag \/ end <= stamp[q] + MaxLag
      BY <1>5, <2>1, <2>2 DEF LockoutHolds
    <2> QED BY <1>2, <2>2 DEF LockoutHolds
  <1> QED BY <1>3, <1>4, <1>6, <1>7

LEMMA RefuseStep == ASSUME Inv, NEW p \in Procs, Refuse(p) PROVE Inv'
  <1> USE DEF Inv
  <1> DEFINE t == stamp[p]
  <1>1. t \in Nat /\ t <= now /\ lastSwep <= now
    BY DEF TypeOK, ClockInv
  <1>2. /\ Answer(p, "arriving") /\ SweepLocked(t)
        /\ UNCHANGED <<now, slots, sentence, failed>>
    BY DEF Refuse, history
  <1>3. TypeOK'
    BY <1>1, <1>2, SweptTyped, AnswerTyped DEF TypeOK
  <1>4. EntryInv' /\ SweptIsFresh' /\ lastSwep' <= now'
    BY <1>1, <1>2, SweepStep
  <1>5. ClockInv'
    BY <1>2, <1>4, AnswerIs DEF ClockInv, Timed
  <1>6. LockoutHolds'
    <2>1. \A q \in Procs : pc'[q] \in Served =>
             pc[q] \in Served /\ ip'[q] = ip[q] /\ stamp'[q] = stamp[q]
      BY <1>2, AnswerIs DEF Served
    <2> QED BY <1>2, <2>1 DEF LockoutHolds
  <1> QED BY <1>3, <1>4, <1>5, <1>6

LEMMA PassedStep == ASSUME Inv, NEW p \in Procs, Passed(p) PROVE Inv'
  <1> USE DEF Inv
  <1> DEFINE a == ip[p]
  <1>1. /\ Answer(p, "passed") /\ RecordSuccess(a)
        /\ UNCHANGED <<now, lastSwep, slots>> /\ pc[p] = "passed"
    BY DEF Passed, Answer, At
  <1>2. a \in IPs
    BY <1>1 DEF ClockInv
  <1>3. /\ attempts' \in [IPs -> Attempt]
        /\ sentence' \in [IPs -> Nat]
        /\ failed' \in [IPs -> Seq(Nat)]
        /\ attempts'[a] = NoAttempt /\ sentence'[a] = 0
        /\ \A b \in IPs \ {a} : attempts'[b] = attempts[b] /\ sentence'[b] = sentence[b]
    BY <1>1, <1>2, SuccessIs
  <1>4. TypeOK'
    BY <1>1, <1>3, AnswerTyped DEF TypeOK
  <1>5. EntryInv' /\ SweptIsFresh'
    <2>1. /\ attempts'[a].lastSeen = 0 /\ attempts'[a].lockedUntil = 0 /\ ~attempts'[a].known
      BY <1>3 DEF NoAttempt
    <2>2. now \in Nat /\ now' = now /\ lastSwep' = lastSwep /\ Lockout \in Nat /\ MaxLag \in Nat
      BY <1>1, LoginAssumption DEF TypeOK
    <2>3. ASSUME NEW b \in IPs, b # a
          PROVE  attempts'[b] = attempts[b] /\ sentence'[b] = sentence[b]
      BY <1>3, <2>3 DEF a
    <2>4. ASSUME NEW b \in IPs
          PROVE  /\ attempts'[b].lastSeen <= now
                 /\ attempts'[b].lockedUntil <= now + Lockout
                 /\ attempts'[b].lockedUntil <= attempts'[b].lastSeen + Lockout + MaxLag
                 /\ sentence'[b] = attempts'[b].lockedUntil \/ sentence'[b] <= now
                 /\ attempts'[b].known => lastSwep - attempts'[b].lastSeen <= Lockout + MaxLag
      <3>1. CASE b = a
        <4>1. sentence'[b] = 0 /\ attempts'[b] = attempts'[a]
          BY <1>3, <3>1
        <4> QED BY <2>1, <2>2, <4>1
      <3>2. CASE b # a
        BY <2>3, <3>2 DEF EntryInv, SweptIsFresh
      <3> QED BY <3>1, <3>2
    <2> QED BY <2>2, <2>4 DEF EntryInv, SweptIsFresh
  <1>6. ClockInv'
    BY <1>1, AnswerIs DEF ClockInv, Timed
  <1>7. LockoutHolds'
    <2>1. MaxLag \in Nat /\ \A q \in Procs : stamp[q] \in Nat
      BY LoginAssumption DEF TypeOK
    <2>2. ASSUME NEW q \in Procs, pc'[q] \in Served
          PROVE  /\ pc[q] \in Served /\ ip'[q] = ip[q] /\ stamp'[q] = stamp[q]
                 /\ ip[q] \in IPs
                 /\ sentence'[ip[q]] = sentence[ip[q]] \/ sentence'[ip[q]] = 0
      <3>1. pc'[q] # "idle"
        BY <2>2 DEF Served
      <3>2. pc'[q] = pc[q] /\ ip'[q] = ip[q] /\ stamp'[q] = stamp[q]
        BY <1>1, <3>1, AnswerIs
      <3>3. ip[q] \in IPs
        BY <3>1, <3>2 DEF ClockInv
      <3> QED BY <1>3, <2>2, <3>2, <3>3
    <2> QED BY <2>1, <2>2 DEF LockoutHolds
  <1> QED BY <1>4, <1>5, <1>6, <1>7

LEMMA RecordStep == ASSUME Inv, NEW p \in Procs, Record(p) PROVE Inv'
  <1> USE DEF Inv
  <1> DEFINE a == ip[p]
             t == stamp[p]
  <1>1. /\ Answer(p, "recording") /\ RecordFailure(a, t)
        /\ UNCHANGED <<now, lastSwep, slots>> /\ pc[p] = "recording"
    BY DEF Record, Answer, At
  <1>2. a \in IPs /\ t \in Nat /\ t <= now /\ now - t <= MaxLag
    BY <1>1 DEF ClockInv, Timed, TypeOK
  <1>3. /\ attempts' \in [IPs -> Attempt]
        /\ sentence' \in [IPs -> Nat]
        /\ failed' \in [IPs -> Seq(Nat)]
        /\ attempts'[a].known /\ attempts'[a].lastSeen = t
        /\ \/ attempts'[a].lockedUntil = t + Lockout /\ sentence'[a] = t + Lockout
           \/ attempts'[a].lockedUntil = attempts[a].lockedUntil /\ sentence'[a] = sentence[a]
        /\ \A b \in IPs \ {a} : attempts'[b] = attempts[b] /\ sentence'[b] = sentence[b]
    BY <1>1, <1>2, FailureIs
  <1>4. TypeOK'
    BY <1>1, <1>3, AnswerTyped DEF TypeOK
  <1>5. /\ now \in Nat /\ lastSwep \in Nat /\ lastSwep <= now /\ now' = now
        /\ lastSwep' = lastSwep /\ Lockout \in Nat /\ MaxLag \in Nat
    BY <1>1, LoginAssumption DEF TypeOK, ClockInv
  <1>6. EntryInv' /\ SweptIsFresh'
    <2>1. /\ attempts[a].lockedUntil \in Nat
      <3>1. attempts[a] \in Attempt
        BY <1>2 DEF TypeOK
      <3> QED BY <3>1 DEF Attempt
    <2>2. /\ attempts'[a].lastSeen <= now
          /\ attempts'[a].lockedUntil <= now + Lockout
          /\ attempts'[a].lockedUntil <= attempts'[a].lastSeen + Lockout + MaxLag
          /\ sentence'[a] = attempts'[a].lockedUntil \/ sentence'[a] <= now
          /\ lastSwep - attempts'[a].lastSeen <= Lockout + MaxLag
      <3>1. sentence[a] = attempts[a].lockedUntil \/ sentence[a] <= now
        BY <1>2 DEF EntryInv
      <3>2. /\ attempts[a].lockedUntil <= now + Lockout
            /\ lastSwep - t <= Lockout + MaxLag
        BY <1>2, <1>5 DEF EntryInv
      <3> HIDE DEF t
      <3>3. CASE attempts'[a].lockedUntil = t + Lockout /\ sentence'[a] = t + Lockout
        BY <1>2, <1>3, <1>5, <3>2, <3>3
      <3>4. CASE attempts'[a].lockedUntil = attempts[a].lockedUntil /\ sentence'[a] = sentence[a]
        <4>1. attempts[a].lockedUntil <= t + Lockout + MaxLag
          BY <1>2, <1>5, <2>1, <3>2
        <4> QED BY <1>2, <1>3, <3>1, <3>2, <3>4, <4>1
      <3> QED BY <1>3, <3>3, <3>4
    <2>3. ASSUME NEW b \in IPs, b # a
          PROVE  attempts'[b] = attempts[b] /\ sentence'[b] = sentence[b]
      BY <1>3, <2>3 DEF a
    <2> QED BY <1>5, <2>2, <2>3 DEF EntryInv, SweptIsFresh
  <1>7. ClockInv'
    BY <1>1, AnswerIs DEF ClockInv, Timed
  <1>8. LockoutHolds'
    <2>1. ASSUME NEW q \in Procs, pc'[q] \in Served
          PROVE  /\ pc[q] \in Served /\ ip'[q] = ip[q] /\ stamp'[q] = stamp[q]
                 /\ ip[q] \in IPs /\ stamp[q] <= now /\ stamp[q] \in Nat
      <3>1. pc'[q] # "idle"
        BY <2>1 DEF Served
      <3>2. pc'[q] = pc[q] /\ ip'[q] = ip[q] /\ stamp'[q] = stamp[q]
        BY <1>1, <3>1, AnswerIs
      <3> QED BY <2>1, <3>1, <3>2 DEF ClockInv, TypeOK
    <2>2. ASSUME NEW q \in Procs, pc'[q] \in Served
          PROVE  LET end == sentence'[ip[q]]
                 IN  stamp[q] + Lockout <= end + MaxLag \/ end <= stamp[q] + MaxLag
      <3>1. CASE sentence'[ip[q]] = sentence[ip[q]]
        BY <2>1, <2>2, <3>1 DEF LockoutHolds
      <3>2. CASE sentence'[ip[q]] = t + Lockout
        <4>1. stamp[q] <= t + MaxLag
          BY <1>2, <1>5, <2>1, <2>2
        <4> QED BY <1>2, <1>5, <2>1, <2>2, <3>2, <4>1
      <3> QED BY <1>3, <2>1, <2>2, <3>1, <3>2
    <2> QED BY <2>1, <2>2 DEF LockoutHolds
  <1> QED BY <1>4, <1>6, <1>7, <1>8

LEMMA TickStep == ASSUME Inv, Tick PROVE Inv'
  <1> USE DEF Inv
  <1>1. /\ now \in Nat /\ now' = now + 1 /\ MaxLag \in Nat /\ Lockout \in Nat
        /\ UNCHANGED <<attempts, lastSwep, slots, pc, ip, stamp, sentence, failed>>
        /\ \A p \in Procs : pc[p] \in Timed => now - stamp[p] < MaxLag
    BY LoginAssumption DEF Tick, TypeOK, history
  <1>2. TypeOK'
    BY <1>1 DEF TypeOK
  <1>3. ClockInv'
    BY <1>1 DEF ClockInv, TypeOK
  <1>4. EntryInv'
    <2>1. ASSUME NEW a \in IPs
          PROVE  attempts[a].lastSeen \in Nat /\ attempts[a].lockedUntil \in Nat /\ sentence[a] \in Nat
      <3>1. attempts[a] \in Attempt
        BY DEF TypeOK
      <3> QED BY <3>1 DEF Attempt, TypeOK
    <2> QED BY <1>1, <2>1 DEF EntryInv
  <1>5. SweptIsFresh' /\ LockoutHolds'
    BY <1>1 DEF SweptIsFresh, LockoutHolds
  <1> QED BY <1>2, <1>3, <1>4, <1>5

\* The steps of a login that leave the limiter alone.
LEMMA QuietActions ==
  ASSUME Inv, NEW p \in Procs,
         \/ \E a \in IPs : Arrive(p, a)
         \/ AnswerEarly(p) \/ NoPasswordSet(p) \/ WaitForSlot(p) \/ Acquire(p)
         \/ Disconnect(p) \/ Verify(p) \/ Failed(p)
  PROVE  Inv'
  <1> USE DEF Inv, Quiet, At, PCs, Timed, Served
  <1>1. CASE \E a \in IPs : Arrive(p, a)
    <2>1. Quiet(p) /\ slots' \in Nat
      BY <1>1 DEF Arrive, TypeOK, history
    <2> QED BY <2>1, QuietStep
  <1>2. CASE AnswerEarly(p) \/ Disconnect(p)
    <2>1. Quiet(p) /\ slots' \in Nat
      BY <1>2 DEF AnswerEarly, Disconnect, Answer, TypeOK, history
    <2> QED BY <2>1, QuietStep
  <1>3. CASE NoPasswordSet(p) \/ Failed(p)
    <2>1. pc[p] # "idle" /\ ip[p] \in IPs
      BY <1>3 DEF NoPasswordSet, Failed, ClockInv
    <2>2. Quiet(p) /\ slots' \in Nat
      BY <1>3, <2>1 DEF NoPasswordSet, Failed, TypeOK, history
    <2> QED BY <2>2, QuietStep
  <1>4. CASE WaitForSlot(p) \/ Acquire(p) \/ Verify(p)
    <2>1. slots' \in Nat
      <3>1. slots' = slots \/ slots' = slots + 1 \/ slots' = 0 \/ (slots > 0 /\ slots' = slots - 1)
        BY <1>4 DEF WaitForSlot, Acquire, Verify, Release
      <3> QED BY <3>1 DEF TypeOK
    <2>2. Quiet(p)
      BY <1>4 DEF WaitForSlot, Acquire, Verify, TypeOK, history
    <2> QED BY <2>1, <2>2, QuietStep
  <1> QED BY <1>1, <1>2, <1>3, <1>4

THEOREM Invariance == Spec => []Inv
<1>1. Init => Inv
  <2> SUFFICES ASSUME Init PROVE Inv
    OBVIOUS
  <2>1. <<>> \in Seq(Nat)
    BY EmptySeq
  <2>2. TypeOK
    BY <2>1, NoAttemptTyped DEF Init, TypeOK, PCs
  <2>3. ClockInv
    BY DEF Init, ClockInv, Timed
  <2>4. EntryInv /\ SweptIsFresh
    BY LoginAssumption DEF Init, EntryInv, SweptIsFresh, NoAttempt
  <2>5. LockoutHolds
    BY DEF Init, LockoutHolds, Served
  <2> QED BY <2>2, <2>3, <2>4, <2>5 DEF Inv
<1>2. Inv /\ [Next]_vars => Inv'
  <2> SUFFICES ASSUME Inv, [Next]_vars PROVE Inv'
    OBVIOUS
  <2>1. CASE UNCHANGED vars
    BY <2>1 DEF vars, Inv, TypeOK, ClockInv, EntryInv, SweptIsFresh, LockoutHolds
  <2>2. CASE Tick
    BY <2>2, TickStep
  <2>3. ASSUME NEW p \in Procs, Admit(p) \/ Refuse(p) \/ Passed(p) \/ Record(p)
        PROVE  Inv'
    BY <2>3, AdmitStep, RefuseStep, PassedStep, RecordStep
  <2>4. ASSUME NEW p \in Procs,
               \/ \E a \in IPs : Arrive(p, a)
               \/ AnswerEarly(p) \/ NoPasswordSet(p) \/ WaitForSlot(p) \/ Acquire(p)
               \/ Disconnect(p) \/ Verify(p) \/ Failed(p)
        PROVE  Inv'
    BY <2>4, QuietActions
  <2> QED BY <2>1, <2>2, <2>3, <2>4 DEF Next, Continue
<1> QED BY <1>1, <1>2, PTL DEF Spec

-----------------------------------------------------------------------------
(* The results.                                                            *)

\* Every variable keeps its type; a failure counter never reaches the
\* threshold at which it arms a lockout.
THEOREM Typing == Spec => []TypeOK
<1>1. Inv => TypeOK
  BY DEF Inv
<1> QED BY <1>1, Invariance, PTL

\* No login is served that was let in during a lockout of its address.
THEOREM LockoutIsKept == Spec => []LockoutHolds
<1>1. Inv => LockoutHolds
  BY DEF Inv
<1> QED BY <1>1, Invariance, PTL

\* An address stays in the map for at most a lockout length before a sweep.
THEOREM MapIsSwept == Spec => []SweptIsFresh
<1>1. Inv => SweptIsFresh
  BY DEF Inv
<1> QED BY <1>1, Invariance, PTL

\* The semaphore counts exactly the requests that verify.
THEOREM SlotsMatchVerifiers == Spec => []SlotsAreHeld
<1>1. Init => SlotsAreHeld
  <2> SUFFICES ASSUME Init PROVE SlotsAreHeld
    OBVIOUS
  <2>1. Verifying = {}
    BY DEF Init, Verifying
  <2> QED BY <2>1, FS_EmptySet, LoginAssumption DEF Init, SlotsAreHeld
<1>2. TypeOK /\ SlotsAreHeld /\ [Next]_vars => SlotsAreHeld'
  <2> SUFFICES ASSUME TypeOK, SlotsAreHeld, [Next]_vars PROVE SlotsAreHeld'
    OBVIOUS
  <2>1. IsFiniteSet(Verifying)
    <3>1. Verifying \in SUBSET Procs
      BY DEF Verifying
    <3> QED BY <3>1, FS_Subset, LoginAssumption
  <2>2. ASSUME Verifying' = Verifying, slots' = slots PROVE SlotsAreHeld'
    BY <2>2 DEF SlotsAreHeld
  <2>3. CASE UNCHANGED vars \/ Tick
    <3>1. pc' = pc /\ slots' = slots
      BY <2>3 DEF vars, Tick
    <3>2. Verifying' = Verifying
      BY <3>1 DEF Verifying
    <3> QED BY <2>2, <3>1, <3>2
  <2>4. ASSUME NEW p \in Procs, Acquire(p) PROVE SlotsAreHeld'
    <3>1. p \notin Verifying /\ Verifying' = Verifying \cup {p}
      BY <2>4 DEF Acquire, At, Verifying, TypeOK
    <3>2. slots < Slots /\ slots' = slots + 1
      BY <2>4 DEF Acquire
    <3>3. Cardinality(Verifying') = Cardinality(Verifying) + 1
      BY <2>1, <3>1, FS_AddElement
    <3> QED BY <3>2, <3>3, LoginAssumption DEF SlotsAreHeld, TypeOK
  <2>5. ASSUME NEW p \in Procs, Verify(p) PROVE SlotsAreHeld'
    <3>1. p \in Verifying /\ Verifying' = Verifying \ {p}
      BY <2>5 DEF Verify, At, Verifying, TypeOK
    <3>2. Cardinality(Verifying') = Cardinality(Verifying) - 1
      BY <2>1, <3>1, FS_RemoveElement
    <3>3. Cardinality(Verifying) # 0
      BY <2>1, <3>1, FS_EmptySet
    <3>4. slots' = IF slots > 0 THEN slots - 1 ELSE 0
      BY <2>5 DEF Verify, Release
    <3> QED BY <3>2, <3>3, <3>4, LoginAssumption DEF SlotsAreHeld, TypeOK
  <2>6. ASSUME NEW p \in Procs,
               \/ \E a \in IPs : Arrive(p, a)
               \/ Admit(p) \/ Refuse(p) \/ AnswerEarly(p) \/ NoPasswordSet(p)
               \/ WaitForSlot(p) \/ Disconnect(p) \/ Passed(p) \/ Failed(p) \/ Record(p)
        PROVE  SlotsAreHeld'
    <3>1. slots' = slots
      BY <2>6 DEF Arrive, Admit, Refuse, AnswerEarly, NoPasswordSet, WaitForSlot,
                  Disconnect, Passed, Failed, Record
    <3>2. PICK there \in PCs \ {"verifying"} :
             pc[p] # "verifying" /\ pc' = [pc EXCEPT ![p] = there]
      BY <2>6 DEF Arrive, Admit, Refuse, AnswerEarly, NoPasswordSet, WaitForSlot,
                  Disconnect, Passed, Failed, Record, Answer, At, PCs, Timed, Served
    <3>3. Verifying' = Verifying
      BY <3>2 DEF Verifying, TypeOK
    <3> QED BY <2>2, <3>1, <3>3
  <2> QED BY <2>3, <2>4, <2>5, <2>6 DEF Next, Continue
<1> QED BY <1>1, <1>2, Typing, PTL DEF Spec

-----------------------------------------------------------------------------
(* How many failures an address gets. The requests that are past the      *)
(* limiter are what a lockout cannot stop; each can still add a failure.   *)

InFlight(a) == {p \in Procs : ip[p] = a /\ pc[p] \in Served \cup {"recording"}}

\* What entry b says at time t of failures at the times s, when n requests are
\* past the limiter: the last failures it counts, or it refuses the address
\* until they are a lockout old and n is within the budget those have left.
\* An entry that has not seen a recent failure has nothing to say of it.
Blamed(b, s, t, n) ==
    /\ \A i \in 1..Len(s) : s[i] <= t
    /\ \A i \in 1..Len(s) : t - s[i] < Lockout - MaxLag =>
          /\ s[i] <= b.lastSeen + MaxLag
          /\ \/ Len(s) - i < b.failures
             \/ /\ b.lockedUntil >= s[i] + Lockout - MaxLag
                /\ Len(s) - i + n < Guesses

CountInv ==
    /\ \A a \in IPs : Blamed(attempts[a], failed[a], now, Cardinality(InFlight(a)))
    /\ GuessRate

LEMMA InFlightIsFinite ==
  ASSUME NEW a \in IPs
  PROVE  /\ IsFiniteSet(InFlight(a)) /\ Cardinality(InFlight(a)) \in Nat
         /\ IsFiniteSet(InFlight(a)') /\ Cardinality(InFlight(a)') \in Nat
  <1>1. InFlight(a) \in SUBSET Procs /\ InFlight(a)' \in SUBSET Procs
    BY DEF InFlight
  <1> QED BY <1>1, LoginAssumption, FS_Subset, FS_CardinalityType

\* Time passes, and requests past the limiter are answered.
LEMMA LaterBlamed ==
  ASSUME NEW b \in Attempt, NEW s \in Seq(Nat), NEW t \in Nat, NEW u \in Nat, t <= u,
         NEW n \in Nat, NEW m \in Nat, m <= n, Blamed(b, s, t, n)
  PROVE  Blamed(b, s, u, m)
  <1>1. /\ b.failures \in Nat /\ b.lockedUntil \in Nat /\ b.lastSeen \in Nat
        /\ Len(s) \in Nat /\ \A i \in 1..Len(s) : s[i] \in Nat
        /\ Lockout \in Nat /\ MaxLag \in Nat /\ Guesses \in Int
    BY LoginAssumption, ElementOfSeq, LenProperties, FS_CardinalityType DEF Attempt, Guesses
  <1>2. ASSUME NEW i \in 1..Len(s), s[i] <= t
        PROVE  s[i] <= u /\ (u - s[i] < Lockout - MaxLag => t - s[i] < Lockout - MaxLag)
    <2> DEFINE x == s[i]
    <2>1. x \in Nat /\ x <= t /\ Lockout \in Nat /\ MaxLag \in Nat
      BY <1>1, <1>2
    <2> HIDE DEF x
    <2>2. x <= u /\ (u - x < Lockout - MaxLag => t - x < Lockout - MaxLag)
      BY <2>1
    <2> QED BY <2>2 DEF x
  <1>3. ASSUME NEW i \in 1..Len(s), Len(s) - i + n < Guesses PROVE Len(s) - i + m < Guesses
    BY <1>1, <1>3
  <1> QED BY <1>2, <1>3 DEF Blamed

\* A failure is recorded by one of the requests that were past the limiter:
\* what entry c it leaves, and what the budget is then.
LEMMA CountBlamed ==
  ASSUME NEW b \in Attempt, NEW s \in Seq(Nat), now \in Nat, NEW n \in Nat, n >= 1,
         n <= Cardinality(Procs), Blamed(b, s, now, n),
         NEW t \in Nat, t <= now, now - t <= MaxLag,
         NEW c \in Attempt, c.lastSeen = t,
         \/ c.failures = b.failures + 1 /\ c.lockedUntil = b.lockedUntil
         \/ b.failures + 1 >= MaxFailures /\ c.lockedUntil = t + Lockout
  PROVE  /\ Blamed(c, Append(s, now), now, n - 1)
         /\ \A i \in 1..Len(s) : Len(s) - i + 1 >= Guesses => now - s[i] >= Lockout - MaxLag
  <1> DEFINE l == Append(s, now)
             k == Len(s)
             D == Lockout - MaxLag
             f == b.failures
             g == c.failures
             U == b.lockedUntil
             V == c.lockedUntil
  <1>1. /\ f \in 0..(MaxFailures - 1) /\ U \in Nat /\ b.lastSeen \in Nat
        /\ g \in 0..(MaxFailures - 1) /\ V \in Nat
        /\ k \in Nat /\ \A i \in 1..k : s[i] \in Nat
        /\ Lockout \in Nat /\ MaxLag \in Nat /\ MaxFailures \in Nat \ {0}
        /\ Cardinality(Procs) \in Nat
        /\ Guesses = MaxFailures + Cardinality(Procs) - 1
    BY LoginAssumption, ElementOfSeq, LenProperties, FS_CardinalityType DEF Attempt, Guesses
  <1>2. /\ Len(l) = k + 1 /\ l[k + 1] = now
        /\ \A i \in 1..k : l[i] = s[i]
    BY AppendProperties
  <1>3. \A i \in 1..k : /\ s[i] <= now
                        /\ now - s[i] < D => \/ k - i < f
                                             \/ U >= s[i] + D /\ k - i + n < Guesses
    BY <1>1 DEF Blamed
  <1>4. \/ g = f + 1 /\ V = U
        \/ f + 1 = MaxFailures /\ V = t + Lockout
    <2>1. CASE c.failures = b.failures + 1 /\ c.lockedUntil = b.lockedUntil
      BY <2>1
    <2>2. CASE b.failures + 1 >= MaxFailures /\ c.lockedUntil = t + Lockout
      <3>1. f + 1 >= MaxFailures /\ f \in 0..(MaxFailures - 1) /\ MaxFailures \in Nat
        BY <1>1, <2>2
      <3> HIDE DEF f
      <3>2. f + 1 = MaxFailures
        BY <3>1
      <3> QED BY <2>2, <3>2
    <2> QED BY <2>1, <2>2
  <1>5. Blamed(c, l, now, n - 1) <=>
          /\ \A i \in 1..Len(l) : l[i] <= now
          /\ \A i \in 1..Len(l) : now - l[i] < D =>
                /\ l[i] <= t + MaxLag
                /\ Len(l) - i < g \/ (V >= l[i] + Lockout - MaxLag /\ Len(l) - i + (n - 1) < Guesses)
    BY DEF Blamed
  <1> HIDE DEF l, k, f, g, U, V
  <1>6. ASSUME NEW i \in 1..Len(l)
        PROVE  /\ l[i] \in Nat /\ l[i] <= now
               /\ i # k + 1 => i \in 1..k /\ l[i] = s[i]
    BY <1>1, <1>2, <1>3
  <1>7. ASSUME NEW i \in 1..Len(l), now - l[i] < D
        PROVE  Len(l) - i < g \/ (V >= l[i] + Lockout - MaxLag /\ Len(l) - i + (n - 1) < Guesses)
    <2>1. CASE g = f + 1 /\ V = U
      <3>1. CASE i = k + 1
        BY <1>1, <1>2, <2>1, <3>1
      <3>2. CASE i # k + 1
        <4>1. k - i < f \/ (U >= l[i] + D /\ k - i + n < Guesses)
          BY <1>3, <1>6, <1>7, <3>2
        <4> QED BY <1>1, <1>2, <1>6, <2>1, <4>1
      <3> QED BY <3>1, <3>2
    <2>2. CASE f + 1 = MaxFailures /\ V = t + Lockout
      <3>1. V >= l[i] + Lockout - MaxLag
        BY <1>1, <1>6, <2>2
      <3>2. Len(l) - i + (n - 1) < Guesses
        <4>1. CASE i = k + 1
          BY <1>1, <1>2, <4>1
        <4>2. CASE i # k + 1
          <5>1. k - i < f \/ k - i + n < Guesses
            BY <1>3, <1>6, <1>7, <4>2
          <5> QED BY <1>1, <1>2, <2>2, <5>1
        <4> QED BY <4>1, <4>2
      <3> QED BY <3>1, <3>2
    <2> QED BY <1>4, <2>1, <2>2
  <1>8. Blamed(c, l, now, n - 1)
    <2>1. \A i \in 1..Len(l) : l[i] <= now
      BY <1>6
    <2>2. ASSUME NEW i \in 1..Len(l)
          PROVE  l[i] <= t + MaxLag
      <3>1. l[i] \in Nat /\ l[i] <= now /\ MaxLag \in Nat
        BY <1>1, <1>6
      <3> QED BY <3>1
    <2> QED BY <1>5, <1>7, <2>1, <2>2
  <1>9. ASSUME NEW i \in 1..k, k - i + 1 >= Guesses
        PROVE  now - s[i] >= D
    <2>1. CASE now - s[i] < D
      <3>1. k - i < f \/ k - i + n < Guesses
        BY <1>3, <2>1
      <3> QED BY <1>1, <1>9, <3>1
    <2>2. CASE ~(now - s[i] < D)
      BY <1>1, <2>2
    <2> QED BY <2>1, <2>2
  <1> QED BY <1>8, <1>9 DEF l, k

\* The sweep drops no entry that has seen a recent failure.
LEMMA SweptBlamed ==
  ASSUME Inv, CountInv, NEW t \in Nat, t <= now, NEW a \in IPs
  PROVE  Blamed(Swept(t)[a], failed[a], now, Cardinality(InFlight(a)))
  <1> DEFINE b == attempts[a]
             s == failed[a]
             n == Cardinality(InFlight(a))
  <1>1. /\ b \in Attempt /\ s \in Seq(Nat) /\ Blamed(b, s, now, n)
        /\ now \in Nat /\ Lockout \in Nat /\ MaxLag \in Nat
    BY LoginAssumption DEF Inv, TypeOK, CountInv
  <1>2. Swept(t)[a] = IF SweepDue(t) /\ Stale(b, t) THEN NoAttempt ELSE b
    BY DEF Swept
  <1>3. b.lastSeen \in Nat /\ \A i \in 1..Len(s) : s[i] \in Nat
    BY <1>1, ElementOfSeq DEF Attempt
  <1>4. CASE SweepDue(t) /\ Stale(b, t)
    <2>1. t - b.lastSeen > Lockout
      BY <1>4 DEF Stale
    <2> HIDE DEF b, s, n
    <2>2. ASSUME NEW i \in 1..Len(s) PROVE s[i] <= now /\ ~(now - s[i] < Lockout - MaxLag)
      <3> DEFINE x == s[i]
                 v == b.lastSeen
      <3>1. x <= now /\ (now - x < Lockout - MaxLag => x <= v + MaxLag)
        BY <1>1 DEF Blamed
      <3>2. x \in Nat /\ v \in Nat /\ t - v > Lockout
        BY <1>3, <2>1 DEF b
      <3> HIDE DEF x, v
      <3>3. ~(now - x < Lockout - MaxLag)
        BY <1>1, <3>1, <3>2
      <3> QED BY <3>1, <3>3 DEF x
    <2>3. Blamed(NoAttempt, s, now, n)
      BY <2>2 DEF Blamed
    <2> QED BY <1>2, <1>4, <2>3 DEF b, s, n
  <1>5. CASE ~(SweepDue(t) /\ Stale(b, t))
    BY <1>1, <1>2, <1>5
  <1> QED BY <1>4, <1>5

\* Steps that leave the history and the entry of an address alone.
LEMMA KeepBlamed ==
  ASSUME Inv, CountInv, NEW a \in IPs, NEW b \in Attempt, attempts'[a] = b,
         Blamed(b, failed[a], now, Cardinality(InFlight(a))),
         failed'[a] = failed[a], now' \in Nat, now <= now',
         InFlight(a)' \subseteq InFlight(a)
  PROVE  Blamed(attempts[a], failed[a], now, Cardinality(InFlight(a)))'
  <1>1. failed[a] \in Seq(Nat) /\ now \in Nat
    BY DEF Inv, TypeOK
  <1>2. /\ Cardinality(InFlight(a)) \in Nat /\ Cardinality(InFlight(a)') \in Nat
        /\ Cardinality(InFlight(a)') <= Cardinality(InFlight(a))
    BY InFlightIsFinite, FS_Subset
  <1>3. Blamed(b, failed[a], now', Cardinality(InFlight(a)'))
    BY <1>1, <1>2, LaterBlamed
  <1> QED BY <1>3

\* A request that is let in: its address is not locked out, so no recent failure
\* is out of its entry's count.
LEMMA AdmitCount == ASSUME Inv, CountInv, NEW p \in Procs, Admit(p) PROVE CountInv'
  <1> DEFINE t == stamp[p]
             a == ip[p]
  <1>1. /\ attempts' = Swept(t) /\ pc' = [pc EXCEPT ![p] = "config"] /\ pc[p] = "arriving"
        /\ t >= Swept(t)[a].lockedUntil
        /\ UNCHANGED <<now, ip, sentence, failed>>
    BY DEF Admit, At, SweepLocked, history
  <1>2. t \in Nat /\ t <= now /\ a \in IPs /\ now \in Nat /\ Lockout \in Nat /\ MaxLag \in Nat
    BY <1>1, LoginAssumption DEF Inv, TypeOK, ClockInv
  <1>3. Swept(t) \in [IPs -> Attempt]
    BY <1>2, SweptTyped DEF Inv
  <1>4. ASSUME NEW b \in IPs
        PROVE  Blamed(attempts[b], failed[b], now, Cardinality(InFlight(b)))'
    <2>1. Blamed(Swept(t)[b], failed[b], now, Cardinality(InFlight(b)))
      BY <1>2, SweptBlamed
    <2>2. CASE b = a
      <3> DEFINE e == Swept(t)[b]
                 s == failed[b]
      <3>1. /\ e \in Attempt /\ e.failures \in Nat /\ e.lockedUntil \in Nat /\ t >= e.lockedUntil
            /\ s \in Seq(Nat) /\ \A i \in 1..Len(s) : s[i] \in Nat
        <4>1. e \in Attempt /\ s \in Seq(Nat)
          BY <1>3 DEF Inv, TypeOK
        <4> QED BY <1>1, <2>2, <4>1, ElementOfSeq DEF Attempt
      <3> HIDE DEF e, s, t
      <3>2. ASSUME NEW i \in 1..Len(s), now - s[i] < Lockout - MaxLag
            PROVE  s[i] <= e.lastSeen + MaxLag /\ Len(s) - i < e.failures
        <4>1. ~(e.lockedUntil >= s[i] + Lockout - MaxLag)
          BY <1>2, <3>1, <3>2
        <4> QED BY <2>1, <3>2, <4>1 DEF Blamed, e, s
      <3>3. \A i \in 1..Len(s) : s[i] <= now
        BY <2>1 DEF Blamed, s
      <3>4. ASSUME NEW m PROVE Blamed(e, s, now, m)
        BY <3>2, <3>3 DEF Blamed
      <3> QED BY <1>1, <3>4 DEF e, s, t
    <2>3. CASE b # a
      <3>1. InFlight(b)' \subseteq InFlight(b)
        BY <1>1, <2>3 DEF InFlight, Inv, TypeOK
      <3>2. Swept(t)[b] \in Attempt
        BY <1>3
      <3> QED BY <1>1, <1>2, <2>1, <3>1, <3>2, KeepBlamed
    <2> QED BY <2>2, <2>3
  <1> QED BY <1>1, <1>4 DEF CountInv, GuessRate

LEMMA RefuseCount == ASSUME Inv, CountInv, NEW p \in Procs, Refuse(p) PROVE CountInv'
  <1> DEFINE t == stamp[p]
  <1>1. /\ attempts' = Swept(t) /\ Answer(p, "arriving")
        /\ UNCHANGED <<now, sentence, failed>>
    BY DEF Refuse, SweepLocked, history
  <1>2. t \in Nat /\ t <= now /\ now \in Nat
    BY DEF Inv, TypeOK, ClockInv
  <1>3. Swept(t) \in [IPs -> Attempt]
    BY <1>2, SweptTyped DEF Inv
  <1>4. ASSUME NEW b \in IPs
        PROVE  Blamed(attempts[b], failed[b], now, Cardinality(InFlight(b)))'
    <2>1. Blamed(Swept(t)[b], failed[b], now, Cardinality(InFlight(b)))
      BY <1>2, SweptBlamed
    <2>2. InFlight(b)' \subseteq InFlight(b)
      BY <1>1, AnswerIs DEF InFlight, Inv, Served
    <2> QED BY <1>1, <1>2, <1>3, <2>1, <2>2, KeepBlamed
  <1> QED BY <1>1, <1>4 DEF CountInv, GuessRate

LEMMA PassedCount == ASSUME Inv, CountInv, NEW p \in Procs, Passed(p) PROVE CountInv'
  <1> DEFINE a == ip[p]
  <1>1. Answer(p, "passed") /\ RecordSuccess(a) /\ UNCHANGED now /\ pc[p] = "passed"
    BY DEF Passed, Answer, At
  <1>2. a \in IPs
    BY <1>1 DEF Inv, ClockInv
  <1>3. /\ failed'[a] = <<>>
        /\ \A b \in IPs \ {a} : attempts'[b] = attempts[b] /\ failed'[b] = failed[b]
    BY <1>1, <1>2, SuccessIs DEF Inv
  <1>4. ASSUME NEW b \in IPs
        PROVE  /\ Blamed(attempts[b], failed[b], now, Cardinality(InFlight(b)))'
               /\ failed'[b] = failed[b] \/ failed'[b] = <<>>
    <2>1. CASE b = a
      BY <1>3, <2>1 DEF Blamed
    <2>2. CASE b # a
      <3>1. attempts'[b] = attempts[b] /\ failed'[b] = failed[b] /\ attempts[b] \in Attempt
        BY <1>3, <2>2 DEF a, Inv, TypeOK
      <3>2. InFlight(b)' \subseteq InFlight(b)
        BY <1>1, AnswerIs DEF InFlight, Inv, Served
      <3>3. Blamed(attempts[b], failed[b], now, Cardinality(InFlight(b))) /\ now' = now /\ now \in Nat
        BY <1>1 DEF CountInv, Inv, TypeOK
      <3> QED BY <3>1, <3>2, <3>3, KeepBlamed
    <2> QED BY <2>1, <2>2
  <1>5. GuessRate'
    <2>1. Guesses' = Guesses /\ Guesses \in Nat
      BY LoginAssumption, FS_CardinalityType DEF Guesses
    <2>2. ASSUME NEW b \in IPs
          PROVE  \A i \in 1..(Len(failed'[b]) - Guesses) :
                    failed'[b][i + Guesses] - failed'[b][i] >= Lockout - MaxLag
      <3>1. CASE failed'[b] = failed[b]
        BY <3>1 DEF CountInv, GuessRate
      <3>2. CASE failed'[b] = <<>>
        <4>1. Len(failed'[b]) = 0
          BY <3>2
        <4> QED BY <2>1, <4>1
      <3> QED BY <1>4, <3>1, <3>2
    <2> QED BY <2>1, <2>2 DEF GuessRate
  <1> QED BY <1>4, <1>5 DEF CountInv

\* A failure that is recorded: the failures before it that it would have to share
\* a lockout length with are fewer than the budget.
LEMMA RecordCount == ASSUME Inv, CountInv, NEW p \in Procs, Record(p) PROVE CountInv'
  <1>0. ip[p] \in IPs
    BY DEF Record, Answer, At, Inv, ClockInv
  <1> PICK a \in IPs : a = ip[p]
    BY <1>0
  <1> DEFINE t == stamp[p]
             s == failed[a]
             k == Len(s)
             n == Cardinality(InFlight(a))
             c == attempts'[a]
  <1>1. /\ Answer(p, "recording") /\ RecordFailure(a, t) /\ UNCHANGED now
        /\ pc[p] = "recording"
    BY DEF Record, Answer, At
  <1>2. /\ a \in IPs /\ t \in Nat /\ t <= now /\ now - t <= MaxLag /\ now \in Nat
    BY <1>1 DEF Inv, ClockInv, Timed, TypeOK
  <1>3. /\ attempts' \in [IPs -> Attempt]
        /\ failed' \in [IPs -> Seq(Nat)] /\ failed'[a] = Append(s, now)
        /\ c.lastSeen = t
        /\ \A b \in IPs \ {a} : attempts'[b] = attempts[b] /\ failed'[b] = failed[b]
    <2>1. TypeOK
      BY DEF Inv
    <2>2. RecordFailure(a, t) /\ a \in IPs /\ t \in Nat
      BY <1>1, <1>2
    <2> HIDE DEF t
    <2> QED BY <2>1, <2>2, FailureIs
  <1>4. /\ p \in InFlight(a)
        /\ InFlight(a)' \subseteq InFlight(a) \ {p}
        /\ \A b \in IPs : InFlight(b)' \subseteq InFlight(b)
    BY <1>1, AnswerIs DEF InFlight, Inv, Served
  <1>5. n \in Nat /\ n >= 1 /\ n <= Cardinality(Procs) /\ Cardinality(InFlight(a)') <= n - 1
    <2>1. IsFiniteSet(InFlight(a)) /\ n \in Nat
      BY <1>2, InFlightIsFinite
    <2>2. Cardinality(InFlight(a) \ {p}) = n - 1 /\ IsFiniteSet(InFlight(a) \ {p})
      BY <1>4, <2>1, FS_RemoveElement
    <2>3. n # 0
      BY <1>4, <2>1, FS_EmptySet
    <2>4. InFlight(a) \subseteq Procs
      BY DEF InFlight
    <2>5. n <= Cardinality(Procs)
      BY <2>4, LoginAssumption, FS_Subset
    <2>6. Cardinality(InFlight(a)') <= Cardinality(InFlight(a) \ {p})
      BY <1>4, <2>2, FS_Subset
    <2> QED BY <2>1, <2>2, <2>3, <2>5, <2>6
  <1>6. \/ c.failures = attempts[a].failures + 1 /\ c.lockedUntil = attempts[a].lockedUntil
        \/ attempts[a].failures + 1 >= MaxFailures /\ c.lockedUntil = t + Lockout
    <2>1. c = [known       |-> TRUE,
               failures    |-> IF attempts[a].failures + 1 >= MaxFailures
                               THEN 0 ELSE attempts[a].failures + 1,
               lockedUntil |-> IF attempts[a].failures + 1 >= MaxFailures
                               THEN t + Lockout ELSE attempts[a].lockedUntil,
               lastSeen    |-> t]
      BY <1>1, <1>2 DEF RecordFailure, Failure, Inv, TypeOK
    <2> QED BY <2>1
  <1>7. attempts[a] \in Attempt /\ c \in Attempt /\ s \in Seq(Nat) /\ Blamed(attempts[a], s, now, n)
    BY <1>2, <1>3 DEF Inv, TypeOK, CountInv
  <1>8. /\ Blamed(c, Append(s, now), now, n - 1)
        /\ \A i \in 1..k : k - i + 1 >= Guesses => now - s[i] >= Lockout - MaxLag
    <2> HIDE DEF n, s, c, t
    <2> QED BY <1>2, <1>3, <1>5, <1>6, <1>7, CountBlamed DEF k
  <1>9. ASSUME NEW b \in IPs
        PROVE  Blamed(attempts[b], failed[b], now, Cardinality(InFlight(b)))'
    <2>1. CASE b = a
      <3>1. Append(s, now) \in Seq(Nat)
        BY <1>2, <1>7, AppendProperties
      <3>2. Cardinality(InFlight(a)') \in Nat /\ n - 1 \in Nat
        BY <1>2, <1>5, InFlightIsFinite
      <3>3. Blamed(c, Append(s, now), now, Cardinality(InFlight(a)'))
        <4> HIDE DEF s, c, n
        <4>1. now <= now
          BY <1>2
        <4> QED BY <1>2, <1>5, <1>7, <1>8, <3>1, <3>2, <4>1, LaterBlamed
      <3> QED BY <1>1, <1>3, <2>1, <3>3
    <2>2. CASE b # a
      <3>1. attempts'[b] = attempts[b] /\ failed'[b] = failed[b] /\ attempts[b] \in Attempt
        BY <1>3, <2>2 DEF Inv, TypeOK
      <3>2. Blamed(attempts[b], failed[b], now, Cardinality(InFlight(b))) /\ now' = now
        BY <1>1 DEF CountInv
      <3> QED BY <1>2, <1>4, <3>1, <3>2, KeepBlamed
    <2> QED BY <2>1, <2>2
  <1>10. GuessRate'
    <2>1. Guesses' = Guesses /\ Guesses \in Nat
      BY LoginAssumption, FS_CardinalityType DEF Guesses
    <2>2. /\ k \in Nat /\ Len(Append(s, now)) = k + 1 /\ Append(s, now)[k + 1] = now
          /\ \A i \in 1..k : Append(s, now)[i] = s[i]
      BY <1>2, <1>7, AppendProperties, LenProperties
    <2>3. \A i \in 1..(k - Guesses) : s[i + Guesses] - s[i] >= Lockout - MaxLag
      BY <1>2 DEF CountInv, GuessRate
    <2>4. ASSUME NEW i \in 1..(k + 1 - Guesses)
          PROVE  Append(s, now)[i + Guesses] - Append(s, now)[i] >= Lockout - MaxLag
      <3> HIDE DEF k, s
      <3>1. CASE i + Guesses = k + 1
        <4>1. Guesses >= 1
          BY <1>5, LoginAssumption, FS_CardinalityType DEF Guesses
        <4>2. i \in 1..k /\ k - i + 1 >= Guesses
          BY <2>1, <2>2, <3>1, <4>1
        <4> QED BY <1>8, <2>2, <3>1, <4>2
      <3>2. CASE i + Guesses # k + 1
        <4>1. i \in 1..(k - Guesses) /\ i \in 1..k /\ i + Guesses \in 1..k
          BY <2>1, <2>2, <3>2
        <4> QED BY <2>2, <2>3, <4>1
      <3> QED BY <3>1, <3>2
    <2>5. ASSUME NEW b \in IPs
          PROVE  \A i \in 1..(Len(failed'[b]) - Guesses) :
                    failed'[b][i + Guesses] - failed'[b][i] >= Lockout - MaxLag
      <3>1. CASE b = a
        <4> DEFINE l == Append(s, now)
        <4>1. failed'[b] = l /\ Len(l) = k + 1
          BY <1>3, <2>2, <3>1
        <4>2. \A i \in 1..(k + 1 - Guesses) : l[i + Guesses] - l[i] >= Lockout - MaxLag
          BY <2>4
        <4> HIDE DEF l, s, k
        <4>3. \A i \in 1..(Len(l) - Guesses) : l[i + Guesses] - l[i] >= Lockout - MaxLag
          BY <2>1, <2>2, <4>1, <4>2
        <4> QED BY <4>1, <4>3
      <3>2. CASE b # a
        <4>1. failed'[b] = failed[b]
          BY <1>3, <3>2
        <4> QED BY <4>1 DEF CountInv, GuessRate
      <3> QED BY <3>1, <3>2
    <2> QED BY <2>1, <2>5 DEF GuessRate
  <1> QED BY <1>9, <1>10 DEF CountInv

\* Every other step leaves the entries and the history alone and lets nobody in.
LEMMA QuietCount ==
  ASSUME Inv, CountInv,
         \/ UNCHANGED vars \/ Tick
         \/ \E p \in Procs :
               \/ \E a \in IPs : Arrive(p, a)
               \/ AnswerEarly(p) \/ NoPasswordSet(p) \/ WaitForSlot(p) \/ Acquire(p)
               \/ Disconnect(p) \/ Verify(p) \/ Failed(p)
  PROVE  CountInv'
  <1>1. UNCHANGED <<attempts, failed>> /\ now \in Nat /\ now' \in Nat /\ now <= now'
    BY DEF vars, Tick, Arrive, AnswerEarly, NoPasswordSet, WaitForSlot, Acquire, Disconnect,
           Verify, Failed, history, Inv, TypeOK
  <1>2. ASSUME NEW b \in IPs PROVE InFlight(b)' \subseteq InFlight(b)
    <2>1. CASE UNCHANGED vars \/ Tick
      BY <2>1 DEF vars, Tick, InFlight
    <2>2. ASSUME NEW p \in Procs, NEW a \in IPs, Arrive(p, a)
          PROVE  InFlight(b)' \subseteq InFlight(b)
      BY <2>2 DEF Arrive, At, InFlight, Inv, TypeOK, Served
    <2>3. ASSUME NEW p \in Procs, AnswerEarly(p) \/ Disconnect(p)
          PROVE  InFlight(b)' \subseteq InFlight(b)
      BY <2>3 DEF AnswerEarly, Disconnect, Answer, At, InFlight, Inv, TypeOK, Served
    <2>4. ASSUME NEW p \in Procs,
                 NoPasswordSet(p) \/ WaitForSlot(p) \/ Acquire(p) \/ Verify(p) \/ Failed(p)
          PROVE  InFlight(b)' \subseteq InFlight(b)
      <3>1. /\ ip' = ip /\ pc[p] \in Served
            /\ \E there \in PCs : pc' = [pc EXCEPT ![p] = there]
        BY <2>4 DEF NoPasswordSet, WaitForSlot, Acquire, Verify, Failed, At, PCs, Timed, Served
      <3> QED BY <3>1 DEF InFlight, Inv, TypeOK
    <2> QED BY <2>1, <2>2, <2>3, <2>4
  <1>3. ASSUME NEW b \in IPs
        PROVE  Blamed(attempts[b], failed[b], now, Cardinality(InFlight(b)))'
    <2>1. /\ attempts'[b] = attempts[b] /\ failed'[b] = failed[b] /\ attempts[b] \in Attempt
          /\ Blamed(attempts[b], failed[b], now, Cardinality(InFlight(b)))
      BY <1>1 DEF Inv, TypeOK, CountInv
    <2> QED BY <1>1, <1>2, <2>1, KeepBlamed
  <1> QED BY <1>1, <1>3 DEF CountInv, GuessRate

\* However failures, late readings, sweeps, lockouts and successes interleave, an
\* address that has failed as often as one lockout allows, and once for every
\* other request that was past the limiter by then, has taken a lockout length
\* over it (ratelimit.go:144-184).
THEOREM GuessesAreBounded == Spec => []GuessRate
<1>1. Init => CountInv
  <2> SUFFICES ASSUME Init PROVE CountInv
    OBVIOUS
  <2>1. Guesses \in Nat
    BY LoginAssumption, FS_CardinalityType DEF Guesses
  <2>2. \A a \in IPs : failed[a] = <<>> /\ Len(failed[a]) = 0
    BY DEF Init
  <2>3. GuessRate
    BY <2>1, <2>2 DEF GuessRate
  <2> QED BY <2>2, <2>3 DEF CountInv, Blamed
<1>2. Inv /\ CountInv /\ [Next]_vars => CountInv'
  BY AdmitCount, RefuseCount, PassedCount, RecordCount, QuietCount DEF Next, Continue
<1>3. CountInv => GuessRate
  BY DEF CountInv
<1> QED BY <1>1, <1>2, <1>3, Invariance, PTL DEF Spec

-----------------------------------------------------------------------------
(* Nobody is locked out for less than what locks out.                      *)

\* A request is refused only if its address has failed MaxFailures times since
\* its last success, the last of them within a lockout length of the reading.
Refused(p) == pc[p] = "arriving" /\ pc'[p] = "idle"

Earned(s, t) == \E i \in MaxFailures..Len(s) : t < s[i] + Lockout

LockoutEarned == [][\A p \in Procs : Refused(p) => Earned(failed[ip[p]], stamp[p])]_vars

\* An entry counts failures that were, and its lockout ends no later than a
\* lockout length after one that made enough of them.
EarnInv ==
    \A a \in IPs :
        /\ attempts[a].failures <= Len(failed[a])
        /\ \A t \in Nat : t < attempts[a].lockedUntil => Earned(failed[a], t)

LEMMA EarnRecord ==
  ASSUME Inv, EarnInv, NEW p \in Procs, Record(p)
  PROVE  EarnInv'
  <1> DEFINE a == ip[p]
             t == stamp[p]
             e == attempts[a]
             s == failed[a]
             f == e.failures + 1
  <1>1. /\ RecordFailure(a, t) /\ a \in IPs /\ t \in Nat /\ t <= now /\ now \in Nat
        /\ e \in Attempt /\ s \in Seq(Nat) /\ Len(s) \in Nat /\ f \in Nat
    BY LenProperties DEF Record, Answer, At, Inv, TypeOK, ClockInv, Attempt
  <1>2. /\ \A b \in IPs \ {a} : attempts'[b] = attempts[b] /\ failed'[b] = failed[b]
        /\ failed'[a] = Append(s, now) /\ attempts'[a] \in Attempt
    BY <1>1, FailureIs DEF Inv, TypeOK
  <1>3. /\ attempts'[a].failures <= f
        /\ \/ attempts'[a].lockedUntil = e.lockedUntil
           \/ f >= MaxFailures /\ attempts'[a].lockedUntil = t + Lockout
    <2>1. attempts'[a] = [known       |-> TRUE,
                          failures    |-> IF f >= MaxFailures THEN 0 ELSE f,
                          lockedUntil |-> IF f >= MaxFailures THEN t + Lockout ELSE e.lockedUntil,
                          lastSeen    |-> t]
      BY <1>1 DEF RecordFailure, Failure, Inv, TypeOK
    <2> HIDE DEF a, t, e, f
    <2>2. /\ attempts'[a].failures = IF f >= MaxFailures THEN 0 ELSE f
          /\ attempts'[a].lockedUntil = IF f >= MaxFailures THEN t + Lockout ELSE e.lockedUntil
      BY <2>1
    <2>3. MaxFailures \in Nat /\ f \in Nat
      BY <1>1, LoginAssumption
    <2> QED
      BY <2>2, <2>3
  <1>4. /\ Len(Append(s, now)) = Len(s) + 1 /\ Append(s, now)[Len(s) + 1] = now
        /\ \A i \in 1..Len(s) : Append(s, now)[i] = s[i]
    BY <1>1, AppendProperties
  <1>5. e.failures <= Len(s) /\ \A u \in Nat : u < e.lockedUntil => Earned(s, u)
    BY <1>1 DEF EarnInv
  <1>6. attempts'[a].failures <= Len(Append(s, now))
    <2> DEFINE g == attempts'[a].failures
    <2>1. g \in Nat /\ g <= f
      BY <1>2, <1>3 DEF Attempt
    <2>2. f <= Len(s) + 1
      BY <1>1, <1>5 DEF Attempt
    <2> HIDE DEF g, f
    <2>3. g <= Len(s) + 1
      BY <1>1, <2>1, <2>2
    <2> QED BY <1>4, <2>3 DEF g
  <1>7. /\ Len(s) \in Nat /\ t \in Nat /\ now \in Nat /\ t <= now
        /\ f \in Nat /\ MaxFailures \in Nat /\ Lockout \in Nat
    BY <1>1, LoginAssumption
  <1>8. f <= Len(s) + 1
    BY <1>1, <1>5 DEF Attempt
  <1> HIDE DEF a, t, e, s, f
  <1>9. ASSUME NEW u \in Nat, u < attempts'[a].lockedUntil PROVE Earned(Append(s, now), u)
    <2>1. CASE f >= MaxFailures /\ attempts'[a].lockedUntil = t + Lockout
      <3>1. Len(s) + 1 \in MaxFailures..Len(Append(s, now)) /\ u < Append(s, now)[Len(s) + 1] + Lockout
        <4>1. MaxFailures <= Len(s) + 1
          BY <1>7, <1>8, <2>1
        <4>2. u < now + Lockout
          BY <1>7, <1>9, <2>1
        <4> QED BY <1>4, <1>7, <4>1, <4>2
      <3> QED
        BY <3>1 DEF Earned
    <2>2. CASE attempts'[a].lockedUntil = e.lockedUntil
      <3>1. PICK i \in MaxFailures..Len(s) : u < s[i] + Lockout
        BY <1>5, <1>9, <2>2 DEF Earned
      <3>2. i \in 1..Len(s) /\ i \in MaxFailures..Len(Append(s, now))
        BY <1>1, <1>4, LoginAssumption
      <3> QED
        BY <1>4, <3>1, <3>2 DEF Earned
    <2> QED
      BY <1>3, <2>1, <2>2
  <1> USE DEF a, t, e, s, f
  <1> QED
    BY <1>2, <1>6, <1>9 DEF EarnInv

\* Clients are not locked out by lockouts of their own: whatever is swept,
\* recorded late or lifted, a refusal answers MaxFailures failures
\* (ratelimit.go:144-184).
THEOREM LockoutsAreEarned == Spec => LockoutEarned
<1>1. Init => EarnInv
  BY DEF Init, EarnInv, NoAttempt
<1>2. Inv /\ EarnInv /\ [Next]_vars => EarnInv'
  <2> SUFFICES ASSUME Inv, EarnInv, [Next]_vars PROVE EarnInv'
    OBVIOUS
  <2>1. ASSUME NEW p \in Procs, Admit(p) \/ Refuse(p) PROVE EarnInv'
    <3>1. attempts' = Swept(stamp[p]) /\ failed' = failed
      BY <2>1 DEF Admit, Refuse, SweepLocked, history
    <3>2. ASSUME NEW a \in IPs
          PROVE  /\ attempts'[a] = attempts[a] \/ attempts'[a] = NoAttempt
                 /\ failed[a] \in Seq(Nat) /\ Len(failed[a]) \in Nat
      BY <3>1, LenProperties DEF Swept, Inv, TypeOK
    <3> QED
      BY <3>1, <3>2 DEF EarnInv, NoAttempt
  <2>2. ASSUME NEW p \in Procs, Passed(p) PROVE EarnInv'
    <3>1. ip[p] \in IPs /\ RecordSuccess(ip[p])
      BY <2>2 DEF Passed, Answer, At, Inv, ClockInv
    <3>2. /\ attempts'[ip[p]] = NoAttempt /\ failed'[ip[p]] = <<>>
          /\ \A b \in IPs \ {ip[p]} : attempts'[b] = attempts[b] /\ failed'[b] = failed[b]
      BY <3>1, SuccessIs DEF Inv
    <3>3. NoAttempt.failures = 0 /\ NoAttempt.lockedUntil = 0 /\ Len(<<>>) = 0
      BY DEF NoAttempt
    <3> QED
      BY <3>2, <3>3 DEF EarnInv
  <2>3. ASSUME NEW p \in Procs, Record(p) PROVE EarnInv'
    BY <2>3, EarnRecord
  <2>4. CASE \/ UNCHANGED vars \/ Tick
             \/ \E p \in Procs :
                   \/ \E a \in IPs : Arrive(p, a)
                   \/ AnswerEarly(p) \/ NoPasswordSet(p) \/ WaitForSlot(p) \/ Acquire(p)
                   \/ Disconnect(p) \/ Verify(p) \/ Failed(p)
    <3>1. UNCHANGED <<attempts, failed>>
      BY <2>4 DEF vars, Tick, Arrive, AnswerEarly, NoPasswordSet, WaitForSlot, Acquire,
                  Disconnect, Verify, Failed, history
    <3> QED
      BY <3>1 DEF EarnInv
  <2> QED
    BY <2>1, <2>2, <2>3, <2>4 DEF Next, Continue
<1>3. Inv /\ EarnInv /\ [Next]_vars =>
         [\A p \in Procs : Refused(p) => Earned(failed[ip[p]], stamp[p])]_vars
  <2> SUFFICES ASSUME Inv, EarnInv, [Next]_vars, NEW p \in Procs, Refused(p)
               PROVE  Earned(failed[ip[p]], stamp[p])
    OBVIOUS
  <2>1. stamp[p] \in Nat /\ ip[p] \in IPs
    BY DEF Refused, Inv, TypeOK, ClockInv
  <2>2. Refuse(p)
    <3>1. pc[p] = "arriving" /\ pc'[p] = "idle" /\ pc \in [Procs -> PCs]
      BY DEF Refused, Inv, TypeOK
    <3>2. ~(Tick \/ UNCHANGED vars)
      BY <3>1 DEF Tick, vars
    <3>3. PICK q \in Procs :
             (\E a \in IPs : Arrive(q, a)) \/ Continue(q) \/ Acquire(q) \/ Disconnect(q)
      BY <3>2 DEF Next
    <3>4. \E there : pc' = [pc EXCEPT ![q] = there]
      BY <3>3 DEF Arrive, Continue, Admit, Refuse, AnswerEarly, NoPasswordSet, WaitForSlot, Acquire,
                  Disconnect, Verify, Passed, Failed, Record, Answer, At
    <3>5. q = p
      BY <3>1, <3>4
    <3> QED
      BY <3>1, <3>3, <3>5 DEF Arrive, Continue, Admit, Refuse, AnswerEarly, NoPasswordSet,
             WaitForSlot, Acquire, Disconnect, Verify, Passed, Failed, Record, Answer, At
  <2>3. stamp[p] < attempts[ip[p]].lockedUntil
    BY <2>1, <2>2 DEF Refuse, Swept, NoAttempt, Inv, TypeOK
  <2> QED
    BY <2>1, <2>3 DEF EarnInv
<1> QED
  BY <1>1, <1>2, <1>3, Invariance, PTL DEF Spec, LockoutEarned
=============================================================================
