------------------------ MODULE RequestLimiterProofs ------------------------
(***************************************************************************)
(* Theorems about RequestLimiter, for every set of requests and addresses, *)
(* every limit, window and wait for the mutex.                             *)
(***************************************************************************)
EXTENDS RequestLimiter, SequenceTheorems, TLAPS

\* What bucket b says at time t of requests let through at the times s: it counts
\* the last ones, none of them before its window began; those before were let
\* through soon enough for that window to begin, and those before the Limit
\* that the bucket before may have counted are a budget's span in the past.
Tally(b, s, t) ==
    LET others == Len(s) - b.count
    IN  /\ b.windowStart <= t
        /\ b.count <= Len(s)
        /\ \A i \in 1..Len(s) : s[i] <= t
        /\ b.count > 0 => /\ \A i \in 1..others : s[i] <= b.windowStart + MaxLag
                          /\ \A i \in (others + 1)..Len(s) : s[i] >= b.windowStart
        /\ \A i \in 1..(others - Limit) : t - s[i] >= Window - MaxLag

\* The strengthening: no reading of the clock is older than MaxLag, the last
\* sweep was in the past, and every bucket agrees with the history.
Inv ==
    /\ TypeOK
    /\ SweptIsFresh
    /\ lastSwep <= now
    /\ \A p \in Procs : ip[p] # NoIP => stamp[p] <= now /\ now - stamp[p] <= MaxLag
    /\ \A a \in IPs : Tally(buckets[a], passed[a], now)
    /\ WindowBudget

LEMMA NoBucketTyped == NoBucket \in Bucket
  BY LimiterAssumption DEF NoBucket, Bucket

\* Time passes.
LEMMA LaterTally ==
  ASSUME NEW b \in Bucket, NEW s \in Seq(Nat), NEW t \in Nat, NEW u \in Nat, t <= u,
         Tally(b, s, t)
  PROVE  Tally(b, s, u)
  <1>1. /\ b.windowStart \in Nat /\ b.count \in Nat /\ Len(s) \in Nat
        /\ \A i \in 1..Len(s) : s[i] \in Nat
        /\ Limit \in Nat /\ Window \in Nat /\ MaxLag \in Nat
    BY LimiterAssumption, ElementOfSeq, LenProperties DEF Bucket
  <1>2. ASSUME NEW i \in 1..Len(s), s[i] <= t PROVE s[i] <= u
    <2> DEFINE x == s[i]
    <2>1. x \in Nat /\ x <= t
      BY <1>1, <1>2
    <2> HIDE DEF x
    <2>2. x <= u
      BY <2>1
    <2> QED BY <2>2 DEF x
  <1>3. ASSUME NEW i \in 1..Len(s), t - s[i] >= Window - MaxLag PROVE u - s[i] >= Window - MaxLag
    <2> DEFINE x == s[i]
    <2>1. x \in Nat /\ t - x >= Window - MaxLag
      BY <1>1, <1>3
    <2> HIDE DEF x
    <2>2. u - x >= Window - MaxLag
      BY <1>1, <2>1
    <2> QED BY <2>2 DEF x
  <1>4. \A i \in 1..(Len(s) - b.count - Limit) : i \in 1..Len(s)
    BY <1>1
  <1>5. b.windowStart <= t => b.windowStart <= u
    BY <1>1
  <1> QED BY <1>2, <1>3, <1>4, <1>5 DEF Tally

\* A bucket makes room for an empty one only when all it counted are a
\* budget's span in the past, but for Limit of them.
LEMMA ResetTally ==
  ASSUME NEW b \in Bucket, NEW s \in Seq(Nat), now \in Nat, Tally(b, s, now),
         NEW t \in Nat, t <= now, b.count = 0 \/ Expired(b, t),
         NEW u \in Nat, u <= now
  PROVE  Tally([count |-> 0, windowStart |-> u], s, now)
  <1>1. /\ b.windowStart \in Nat /\ b.count \in 0..Limit /\ Len(s) \in Nat
        /\ \A i \in 1..Len(s) : s[i] \in Nat
        /\ Limit \in Nat /\ Window \in Nat /\ MaxLag \in Nat
    BY LimiterAssumption, ElementOfSeq, LenProperties DEF Bucket
  <1>2. ASSUME NEW i \in 1..(Len(s) - Limit)
        PROVE  now - s[i] >= Window - MaxLag
    <2>1. CASE b.count = 0
      BY <1>1, <2>1 DEF Tally
    <2>2. CASE b.count > 0 /\ Expired(b, t)
      <3>1. s[i] <= b.windowStart + MaxLag
        BY <1>1, <2>2 DEF Tally
      <3>2. t - b.windowStart >= Window
        BY <2>2 DEF Expired
      <3> DEFINE x == s[i]
                 w == b.windowStart
      <3>3. /\ x \in Nat /\ w \in Nat /\ Window \in Nat /\ MaxLag \in Nat
            /\ x <= w + MaxLag /\ t - w >= Window
        BY <1>1, <3>1, <3>2
      <3> HIDE DEF x, w
      <3>4. now - x >= Window - MaxLag
        BY <3>3
      <3> QED BY <3>4 DEF x
    <2> QED BY <1>1, <2>1, <2>2
  <1> QED BY <1>1, <1>2 DEF Tally

\* A request is let through and counted.
LEMMA CountTally ==
  ASSUME NEW b \in Bucket, NEW s \in Seq(Nat), now \in Nat, Tally(b, s, now),
         b.count < Limit, b.count = 0 => now - b.windowStart <= MaxLag
  PROVE  Tally([count |-> b.count + 1, windowStart |-> b.windowStart], Append(s, now), now)
  <1> DEFINE l == Append(s, now)
             k == Len(s)
             c == b.count
             w == b.windowStart
  <1>1. /\ w \in Nat /\ c \in Nat /\ k \in Nat
        /\ \A i \in 1..k : s[i] \in Nat
        /\ Limit \in Nat /\ Window \in Nat /\ MaxLag \in Nat
    BY LimiterAssumption, ElementOfSeq, LenProperties DEF Bucket
  <1>2. /\ Len(l) = k + 1 /\ l[k + 1] = now
        /\ \A i \in 1..k : l[i] = s[i]
    BY AppendProperties
  <1>3. /\ w <= now /\ c <= k
        /\ \A i \in 1..k : s[i] <= now
        /\ \A i \in 1..(k - c - Limit) : now - s[i] >= Window - MaxLag
        /\ c > 0 => /\ \A i \in 1..(k - c) : s[i] <= w + MaxLag
                    /\ \A i \in (k - c + 1)..k : s[i] >= w
    BY DEF Tally
  <1>4. c = 0 => now - w <= MaxLag
    OBVIOUS
  <1>5. /\ Tally([count |-> c + 1, windowStart |-> w], l, now) <=>
              /\ w <= now /\ c + 1 <= Len(l)
              /\ \A i \in 1..Len(l) : l[i] <= now
              /\ c + 1 > 0 => /\ \A i \in 1..(Len(l) - (c + 1)) : l[i] <= w + MaxLag
                              /\ \A i \in (Len(l) - (c + 1) + 1)..Len(l) : l[i] >= w
              /\ \A i \in 1..(Len(l) - (c + 1) - Limit) : now - l[i] >= Window - MaxLag
    BY DEF Tally
  <1> HIDE DEF l, k, c, w
  <1>6. Len(l) - (c + 1) = k - c
    BY <1>1, <1>2
  <1>7. \A i \in 1..Len(l) : l[i] <= now
    BY <1>1, <1>2, <1>3
  <1>8. ASSUME NEW i \in 1..(k - c) PROVE l[i] <= w + MaxLag
    <2>1. i \in 1..k /\ l[i] = s[i] /\ s[i] \in Nat /\ s[i] <= now
      BY <1>1, <1>2, <1>3
    <2> QED BY <1>1, <1>3, <1>4, <2>1
  <1>9. ASSUME NEW i \in (k - c + 1)..(k + 1) PROVE l[i] >= w
    <2>1. CASE i = k + 1
      BY <1>2, <1>3, <2>1
    <2>2. CASE i # k + 1
      <3>1. i \in (k - c + 1)..k /\ i \in 1..k /\ c > 0
        BY <1>1, <1>3, <2>2
      <3> QED BY <1>2, <1>3, <3>1
    <2> QED BY <2>1, <2>2
  <1>10. ASSUME NEW i \in 1..(k - c - Limit) PROVE now - l[i] >= Window - MaxLag
    <2>1. i \in 1..k
      BY <1>1
    <2>2. l[i] = s[i]
      BY <1>2, <2>1
    <2>3. now - s[i] >= Window - MaxLag
      BY <1>3
    <2> QED BY <2>2, <2>3
  <1>11. Tally([count |-> c + 1, windowStart |-> w], l, now)
    BY <1>1, <1>2, <1>3, <1>5, <1>6, <1>7, <1>8, <1>9, <1>10
  <1> QED BY <1>11 DEF l, c, w

\* ... and keeps the budget: of the requests before it all but the last
\* 2 * Limit - 1 are neither counted nor among the Limit before those.
LEMMA CountBudget ==
  ASSUME NEW b \in Bucket, NEW s \in Seq(Nat), now \in Nat, Tally(b, Append(s, now), now),
         \A i \in 1..(Len(s) - 2 * Limit) : s[i + 2 * Limit] - s[i] >= Window - MaxLag
  PROVE  LET l == Append(s, now)
         IN  \A i \in 1..(Len(l) - 2 * Limit) : l[i + 2 * Limit] - l[i] >= Window - MaxLag
  <1> DEFINE l == Append(s, now)
             k == Len(s)
  <1>1. k \in Nat /\ Limit \in Nat /\ b.count \in 0..Limit
    BY LimiterAssumption, LenProperties DEF Bucket
  <1>2. /\ Len(l) = k + 1 /\ l[k + 1] = now
        /\ \A i \in 1..k : l[i] = s[i]
    BY AppendProperties
  <1>3. \A i \in 1..(Len(l) - b.count - Limit) : now - l[i] >= Window - MaxLag
    BY DEF Tally
  <1>4. \A i \in 1..(k - 2 * Limit) : s[i + 2 * Limit] - s[i] >= Window - MaxLag
    OBVIOUS
  <1> HIDE DEF l, k
  <1>5. ASSUME NEW i \in 1..(Len(l) - 2 * Limit)
        PROVE  l[i + 2 * Limit] - l[i] >= Window - MaxLag
    <2>1. CASE i + 2 * Limit = k + 1
      <3>1. i \in 1..(Len(l) - b.count - Limit)
        BY <1>1, <1>2
      <3> QED BY <1>2, <1>3, <2>1, <3>1
    <2>2. CASE i + 2 * Limit # k + 1
      <3>1. i \in 1..(k - 2 * Limit) /\ i \in 1..k /\ i + 2 * Limit \in 1..k
        BY <1>1, <1>2, <2>2
      <3> QED BY <1>2, <1>4, <3>1
    <2> QED BY <2>1, <2>2
  <1> QED BY <1>5 DEF l

\* What a request finds when it holds the mutex.
LEMMA SweptIs ==
  ASSUME Inv, NEW t \in Nat, t <= now
  PROVE  /\ Swept(t) \in [IPs -> Bucket]
         /\ \A a \in IPs : Swept(t)[a].count > 0 =>
               /\ SweepDue(t) => t - Swept(t)[a].windowStart < Window + MaxLag
               /\ lastSwep - Swept(t)[a].windowStart < Window + MaxLag
         /\ \A a \in IPs : Tally(Swept(t)[a], passed[a], now)
  <1>1. /\ Window \in Nat \ {0} /\ MaxLag \in Nat /\ lastSwep \in Nat
        /\ buckets \in [IPs -> Bucket] /\ now \in Nat
    BY LimiterAssumption DEF Inv, TypeOK
  <1>2. ASSUME NEW a \in IPs
        PROVE  /\ Swept(t)[a] \in Bucket
               /\ Tally(Swept(t)[a], passed[a], now)
               /\ Swept(t)[a].count > 0 =>
                     /\ SweepDue(t) => t - Swept(t)[a].windowStart < Window + MaxLag
                     /\ lastSwep - Swept(t)[a].windowStart < Window + MaxLag
    <2>1. buckets[a] \in Bucket /\ buckets[a].windowStart \in Nat
      BY <1>1 DEF Bucket
    <2>4. passed[a] \in Seq(Nat) /\ Tally(buckets[a], passed[a], now)
      BY DEF Inv, TypeOK
    <2>2. CASE SweepDue(t) /\ Expired(buckets[a], t)
      <3>1. Swept(t)[a] = NoBucket
        BY <2>2 DEF Swept
      <3>2. Tally(NoBucket, passed[a], now)
        BY <1>1, <2>1, <2>2, <2>4, ResetTally DEF NoBucket
      <3> QED BY <3>1, <3>2, NoBucketTyped DEF NoBucket
    <2>3. CASE ~(SweepDue(t) /\ Expired(buckets[a], t))
      <3>1. Swept(t)[a] = buckets[a]
        BY <2>3 DEF Swept
      <3>2. SweepDue(t) => t - buckets[a].windowStart < Window
        BY <1>1, <2>1, <2>3 DEF Expired
      <3>3. buckets[a].count > 0 => lastSwep - buckets[a].windowStart < Window + MaxLag
        BY DEF Inv, SweptIsFresh
      <3> QED BY <1>1, <2>1, <2>4, <3>1, <3>2, <3>3
    <2> QED BY <2>2, <2>3
  <1>3. Swept(t) \in [IPs -> Bucket]
    <2>1. Swept(t) = [a \in IPs |-> Swept(t)[a]]
      BY DEF Swept
    <2> QED BY <1>2, <2>1
  <1> QED BY <1>2, <1>3

\* The bucket it is counted in.
LEMMA CurrentIs ==
  ASSUME Inv, NEW a \in IPs, NEW t \in Nat, t <= now
  PROVE  LET b == Current(a, t)
         IN  /\ b \in Bucket
             /\ Tally(b, passed[a], now)
             /\ b.count = 0 => b.windowStart = t
             /\ b.count > 0 => b = Swept(t)[a] /\ t - b.windowStart < Window
  <1> DEFINE d == Swept(t)[a]
             fresh == [count |-> 0, windowStart |-> t]
  <1>1. d \in Bucket /\ Tally(d, passed[a], now)
    BY SweptIs
  <1>2. /\ now \in Nat /\ Limit \in Nat /\ Window \in Nat
        /\ passed[a] \in Seq(Nat)
    BY LimiterAssumption DEF Inv, TypeOK
  <1>3. Current(a, t) = IF d.count = 0 \/ Expired(d, t) THEN fresh ELSE d
    BY DEF Current
  <1> HIDE DEF d
  <1>4. d.count \in Nat /\ d.windowStart \in Nat
    BY <1>1 DEF Bucket
  <1>5. CASE d.count = 0 \/ Expired(d, t)
    <2>1. fresh \in Bucket
      BY <1>2 DEF Bucket
    <2>2. Tally(fresh, passed[a], now)
      BY <1>1, <1>2, <1>5, ResetTally
    <2> QED BY <1>3, <1>5, <2>1, <2>2
  <1>6. CASE ~(d.count = 0 \/ Expired(d, t))
    <2>1. d.count # 0 /\ t - d.windowStart < Window
      BY <1>2, <1>4, <1>6 DEF Expired
    <2> QED BY <1>1, <1>3, <1>4, <1>6, <2>1 DEF d
  <1> QED BY <1>5, <1>6

\* Entering the critical section keeps the readings and the sweep in order.
LEMMA EnterIs ==
  ASSUME Inv, NEW p \in Procs, Enter(p), UNCHANGED now
  PROVE  /\ ip[p] \in IPs /\ stamp[p] \in Nat /\ stamp[p] <= now
         /\ now - stamp[p] <= MaxLag
         /\ ip' \in [Procs -> IPs \cup {NoIP}] /\ stamp' \in [Procs -> Nat]
         /\ lastSwep' \in Nat /\ lastSwep' <= now' /\ now' \in Nat
         /\ lastSwep' = IF SweepDue(stamp[p]) THEN stamp[p] ELSE lastSwep
         /\ \A q \in Procs : ip'[q] # NoIP => stamp'[q] <= now' /\ now' - stamp'[q] <= MaxLag
  <1>1. /\ ip[p] \in IPs /\ stamp[p] \in Nat /\ stamp[p] <= now /\ now - stamp[p] <= MaxLag
        /\ now' = now /\ now \in Nat
    BY DEF Inv, TypeOK, Enter
  <1>2. ip' = [ip EXCEPT ![p] = NoIP] /\ stamp' = [stamp EXCEPT ![p] = 0]
    BY DEF Enter
  <1>3. ip' \in [Procs -> IPs \cup {NoIP}] /\ stamp' \in [Procs -> Nat]
    BY <1>2 DEF Inv, TypeOK
  <1>4. \A q \in Procs : ip'[q] # NoIP => ip[q] # NoIP /\ stamp'[q] = stamp[q]
    BY <1>2 DEF Inv, TypeOK
  <1>5. lastSwep' = IF SweepDue(stamp[p]) THEN stamp[p] ELSE lastSwep
    BY DEF Enter
  <1>6. lastSwep' \in Nat /\ lastSwep' <= now'
    BY <1>1, <1>5 DEF Inv, TypeOK
  <1> QED BY <1>1, <1>3, <1>4, <1>5, <1>6 DEF Inv

LEMMA RefuseStep == ASSUME Inv, NEW p \in Procs, Refuse(p) PROVE Inv'
  <1> DEFINE t == stamp[p]
  <1>1. /\ Enter(p) /\ buckets' = Swept(t) /\ UNCHANGED <<now, passed>>
    BY DEF Refuse
  <1>2. /\ t \in Nat /\ t <= now
        /\ ip' \in [Procs -> IPs \cup {NoIP}] /\ stamp' \in [Procs -> Nat]
        /\ lastSwep' \in Nat /\ lastSwep' <= now' /\ now' \in Nat
        /\ lastSwep' = IF SweepDue(t) THEN t ELSE lastSwep
        /\ \A q \in Procs : ip'[q] # NoIP => stamp'[q] <= now' /\ now' - stamp'[q] <= MaxLag
    BY <1>1, EnterIs
  <1>3. TypeOK'
    BY <1>1, <1>2, SweptIs DEF Inv, TypeOK
  <1>4. SweptIsFresh'
    BY <1>1, <1>2, SweptIs DEF SweptIsFresh
  <1>5. \A a \in IPs : Tally(buckets[a], passed[a], now)'
    BY <1>1, <1>2, SweptIs
  <1> QED BY <1>1, <1>2, <1>3, <1>4, <1>5 DEF Inv, WindowBudget

LEMMA AllowStep == ASSUME Inv, NEW p \in Procs, Allow(p) PROVE Inv'
  <1> DEFINE a == ip[p]
             t == stamp[p]
             b == Current(a, t)
             c == [b EXCEPT !.count = b.count + 1]
  <1>1. /\ Enter(p) /\ ~Full(b) /\ buckets' = [Swept(t) EXCEPT ![a] = c]
        /\ passed' = [passed EXCEPT ![a] = Append(passed[a], now)]
        /\ UNCHANGED now
    BY DEF Allow
  <1>2. /\ a \in IPs /\ t \in Nat /\ t <= now /\ now - t <= MaxLag
        /\ ip' \in [Procs -> IPs \cup {NoIP}] /\ stamp' \in [Procs -> Nat]
        /\ lastSwep' \in Nat /\ lastSwep' <= now' /\ now' \in Nat
        /\ lastSwep' = IF SweepDue(t) THEN t ELSE lastSwep
        /\ \A q \in Procs : ip'[q] # NoIP => stamp'[q] <= now' /\ now' - stamp'[q] <= MaxLag
    BY <1>1, EnterIs
  <1>3. /\ Swept(t) \in [IPs -> Bucket]
        /\ \A i \in IPs : Swept(t)[i].count > 0 =>
              /\ SweepDue(t) => t - Swept(t)[i].windowStart < Window + MaxLag
              /\ lastSwep - Swept(t)[i].windowStart < Window + MaxLag
        /\ \A i \in IPs : Tally(Swept(t)[i], passed[i], now)
    BY <1>2, SweptIs
  <1>4. /\ Limit \in Nat \ {0} /\ Window \in Nat \ {0} /\ MaxLag \in Nat
        /\ lastSwep \in Nat /\ lastSwep <= now /\ now \in Nat
        /\ passed \in [IPs -> Seq(Nat)]
    BY LimiterAssumption DEF Inv, TypeOK
  <1>5. /\ b \in Bucket /\ Tally(b, passed[a], now)
        /\ b.count = 0 => b.windowStart = t
        /\ b.count > 0 => b = Swept(t)[a]
    BY <1>2, CurrentIs
  <1> HIDE DEF b
  <1>6. /\ b.count \in Nat /\ b.windowStart \in Nat /\ b.count < Limit
    BY <1>1, <1>4, <1>5 DEF Bucket, Full
  <1>7. c = [count |-> b.count + 1, windowStart |-> b.windowStart]
    BY <1>5 DEF Bucket
  <1>8. c \in Bucket /\ c.windowStart = b.windowStart
    BY <1>4, <1>6, <1>7 DEF Bucket
  <1>9. Tally(c, Append(passed[a], now), now)
    <2>1. passed[a] \in Seq(Nat) /\ now \in Nat
      BY <1>2, <1>4
    <2>2. b.count = 0 => now - b.windowStart <= MaxLag
      BY <1>2, <1>5
    <2>3. Tally([count |-> b.count + 1, windowStart |-> b.windowStart], Append(passed[a], now), now)
      BY <1>5, <1>6, <2>1, <2>2, CountTally
    <2> QED BY <1>7, <2>3
  <1> HIDE DEF c
  <1>10. /\ buckets' \in [IPs -> Bucket] /\ buckets'[a] = c
         /\ \A i \in IPs : i # a => buckets'[i] = Swept(t)[i]
    BY <1>1, <1>2, <1>3, <1>8
  <1>14. /\ passed' \in [IPs -> Seq(Nat)] /\ passed'[a] = Append(passed[a], now)
         /\ \A i \in IPs : i # a => passed'[i] = passed[i]
    <2>1. Append(passed[a], now) \in Seq(Nat)
      BY <1>2, <1>4, AppendProperties
    <2> QED BY <1>1, <1>2, <1>4, <2>1
  <1>11. TypeOK'
    BY <1>2, <1>10, <1>14 DEF TypeOK
  <1>12. lastSwep' - c.windowStart < Window + MaxLag
    <2>1. CASE b.windowStart = t
      <3>1. c.windowStart = t
        BY <1>8, <2>1
      <3>2. lastSwep' <= now
        BY <1>2, <1>4
      <3>3. lastSwep' - t < Window + MaxLag
        BY <1>2, <1>4, <3>2
      <3> QED BY <3>1, <3>3
    <2>2. CASE b = Swept(t)[a] /\ b.count > 0
      BY <1>2, <1>3, <1>8, <2>2
    <2> QED BY <1>5, <1>6, <2>1, <2>2
  <1>13. SweptIsFresh'
    <2>1. ASSUME NEW i \in IPs, buckets'[i].count > 0
          PROVE  lastSwep' - buckets'[i].windowStart < Window + MaxLag
      <3>1. CASE i = a
        BY <1>10, <1>12, <3>1
      <3>2. CASE i # a
        BY <1>2, <1>3, <1>10, <2>1, <3>2
      <3> QED BY <3>1, <3>2
    <2> QED BY <2>1 DEF SweptIsFresh
  <1>15. ASSUME NEW i \in IPs PROVE Tally(buckets'[i], passed'[i], now')
    BY <1>1, <1>3, <1>9, <1>10, <1>14
  <1>16. WindowBudget'
    <2>1. ASSUME NEW i \in IPs
          PROVE  \A j \in 1..(Len(passed'[i]) - 2 * Limit) :
                    passed'[i][j + 2 * Limit] - passed'[i][j] >= Window - MaxLag
      <3>1. /\ passed[i] \in Seq(Nat)
            /\ \A j \in 1..(Len(passed[i]) - 2 * Limit) :
                  passed[i][j + 2 * Limit] - passed[i][j] >= Window - MaxLag
        BY <1>4 DEF Inv, WindowBudget
      <3>2. CASE i = a
        BY <1>4, <1>8, <1>9, <1>14, <3>1, <3>2, CountBudget
      <3>3. CASE i # a
        BY <1>14, <3>1, <3>3
      <3> QED BY <3>2, <3>3
    <2> QED BY <2>1 DEF WindowBudget
  <1> QED BY <1>2, <1>11, <1>13, <1>15, <1>16 DEF Inv

LEMMA TickStep == ASSUME Inv, Tick PROVE Inv'
  <1>1. /\ now \in Nat /\ now' = now + 1 /\ MaxLag \in Nat
        /\ UNCHANGED <<buckets, lastSwep, ip, stamp, passed>>
        /\ \A p \in Procs : ip[p] # NoIP => now - stamp[p] < MaxLag
    BY LimiterAssumption DEF Inv, TypeOK, Tick
  <1>2. ASSUME NEW a \in IPs PROVE Tally(buckets'[a], passed'[a], now')
    <2>1. buckets[a] \in Bucket /\ passed[a] \in Seq(Nat) /\ Tally(buckets[a], passed[a], now)
      BY DEF Inv, TypeOK
    <2>2. now' \in Nat /\ now <= now'
      BY <1>1
    <2> QED BY <1>1, <2>1, <2>2, LaterTally
  <1> QED BY <1>1, <1>2 DEF Inv, TypeOK, SweptIsFresh, WindowBudget

LEMMA ArriveStep == ASSUME Inv, NEW p \in Procs, NEW a \in IPs, Arrive(p, a) PROVE Inv'
  <1>1. /\ ip' = [ip EXCEPT ![p] = a] /\ stamp' = [stamp EXCEPT ![p] = now]
        /\ UNCHANGED <<now, buckets, lastSwep, passed>>
    BY DEF Arrive
  <1>2. TypeOK'
    BY <1>1 DEF Inv, TypeOK
  <1>3. ASSUME NEW q \in Procs, ip'[q] # NoIP
        PROVE  stamp'[q] <= now' /\ now' - stamp'[q] <= MaxLag
    <2>1. /\ ip \in [Procs -> IPs \cup {NoIP}] /\ stamp \in [Procs -> Nat]
          /\ now \in Nat /\ now' = now /\ MaxLag \in Nat
      BY <1>1, LimiterAssumption DEF Inv, TypeOK
    <2>2. CASE q = p
      <3>1. stamp'[q] = now
        BY <1>1, <2>1, <2>2
      <3> QED BY <2>1, <3>1
    <2>3. CASE q # p
      <3>1. ip'[q] = ip[q]
        BY <1>1, <2>1, <2>3
      <3>2. stamp'[q] = stamp[q]
        BY <1>1, <2>1, <2>3
      <3> QED BY <1>3, <2>1, <3>1, <3>2 DEF Inv
    <2> QED BY <2>2, <2>3
  <1> QED BY <1>1, <1>2, <1>3 DEF Inv, SweptIsFresh, WindowBudget

THEOREM Invariance == Spec => []Inv
<1>1. Init => Inv
  BY NoBucketTyped, LimiterAssumption DEF Init, Inv, TypeOK, SweptIsFresh, NoBucket, Tally, WindowBudget
<1>2. Inv /\ [Next]_vars => Inv'
  <2> SUFFICES ASSUME Inv, [Next]_vars PROVE Inv'
    OBVIOUS
  <2>1. CASE UNCHANGED vars
    BY <2>1 DEF vars, Inv, TypeOK, SweptIsFresh, WindowBudget
  <2> QED BY <2>1, ArriveStep, AllowStep, RefuseStep, TickStep DEF Next
<1> QED BY <1>1, <1>2, PTL DEF Spec

\* Every variable keeps its type; no bucket counts past the limit.
THEOREM Typing == Spec => []TypeOK
<1>1. Inv => TypeOK
  BY DEF Inv
<1> QED BY <1>1, Invariance, PTL

\* However requests, late readings and sweeps interleave, no address is let
\* through more than two windows' worth of times in less than a window
\* (ratelimit.go:66-86): of the requests before the last, those the bucket
\* counts and the Limit before them are all that can be recent.
THEOREM BudgetIsKept == Spec => []WindowBudget
<1>1. Inv => WindowBudget
  BY DEF Inv
<1> QED BY <1>1, Invariance, PTL

\* Nobody is refused whose address has not used up its window
\* (ratelimit.go:77-85).
THEOREM RefusalsAreEarned == Spec => RefusedOnlyWhenFull
<1>1. Inv /\ [Next]_vars => [\A p \in Procs : Refuse(p) => UsedUp(ip[p])]_vars
  <2> SUFFICES ASSUME Inv, NEW p \in Procs, Refuse(p) PROVE UsedUp(ip[p])
    OBVIOUS
  <2> DEFINE a == ip[p]
             t == stamp[p]
             b == Current(a, t)
             s == passed[a]
             k == Len(s)
             c == b.count
             w == b.windowStart
             first == k - Limit + 1
  <2>1. /\ a \in IPs /\ t \in Nat /\ t <= now /\ now - t <= MaxLag /\ b.count >= Limit
    <3>1. Enter(p) /\ UNCHANGED now
      BY DEF Refuse
    <3> QED BY <3>1, EnterIs DEF Refuse, Full
  <2>2. /\ b \in Bucket /\ Tally(b, s, now)
        /\ b.count > 0 => t - b.windowStart < Window
    BY <2>1, CurrentIs
  <2> HIDE DEF b
  <2>3. /\ k \in Nat /\ now \in Nat /\ \A i \in 1..k : s[i] \in Nat
        /\ Limit \in Nat \ {0} /\ Window \in Nat /\ MaxLag \in Nat
        /\ c \in 0..Limit /\ w \in Nat
    BY <2>1, <2>2, LimiterAssumption, LenProperties, ElementOfSeq DEF Inv, TypeOK, Bucket
  <2>4. c = Limit /\ c > 0
    BY <2>1, <2>3
  <2>5. c <= k /\ \A i \in (k - c + 1)..k : s[i] >= w
    BY <2>2, <2>4 DEF Tally
  <2>6. t - w < Window
    BY <2>2, <2>4
  <2> HIDE DEF k, c, w, s, t
  <2>7. first > 0 /\ first \in 1..k /\ s[first] \in Nat /\ s[first] >= w
    BY <2>3, <2>4, <2>5
  <2>8. now - s[first] < Window + MaxLag
    BY <2>1, <2>3, <2>6, <2>7
  <2> QED BY <2>7, <2>8 DEF UsedUp, k, s
<1> QED BY <1>1, Invariance, PTL DEF Spec, RefusedOnlyWhenFull

\* A bucket stays in the map for less than a window before a sweep.
THEOREM MapIsSwept == Spec => []SweptIsFresh
<1>1. Inv => SweptIsFresh
  BY DEF Inv
<1> QED BY <1>1, Invariance, PTL
=============================================================================
